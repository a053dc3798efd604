--------------------------- MODULE HardwareProofs ---------------------------
(***************************************************************************)
(* Proofs about the ros2_control plugin with any number of motors, for     *)
(* every set of controllers and whatever they claim, below a manager that  *)
(* switches them while write() runs.                                       *)
(***************************************************************************)
EXTENDS HardwareInterface, FiniteSetTheorems, TLAPS

-----------------------------------------------------------------------------
(* Types                                                                    *)

Components == {"unconfigured", "inactive", "active", "finalized",
               "destroyed", "hung"}
CallOps == {"none", "zero", "start", "exit", "destroy", "send", "read"}
Stages  == {"none", "refused", "reset", "modes", "prepared"}
Switches == [stage : Stages, at : 0 .. NumJoints,
             start : SUBSET Controllers, stop : SUBSET Controllers]

\* In which states of the component each method runs, and at which joint.
CallInv ==
  /\ call \in [op : CallOps, at : 0 .. NumJoints]
  /\ call.op = "none" => call = Idle
  /\ call.op # "none" => call.at \in Joints
  /\ call.op \in {"zero", "start"} => component = "inactive"
  /\ call.op = "exit" => component = "active"
  /\ call.op \in {"send", "read"} => component \in {"inactive", "active"}
  /\ call.op = "destroy" =>
       component \in {"unconfigured", "inactive", "active", "finalized"}

SwitchTypes ==
  /\ switching \in Switches
  /\ switching.stage = "none" => switching = NoSwitch
  /\ switching.stage \in {"reset", "modes"} => switching.at \in Joints

\* The socket is open from the configuration to the cleanup.
SocketInv ==
  /\ fd \in {"unset", "open", "closed"}
  /\ component = "unconfigured" => fd # "open"
  /\ component \in {"inactive", "active"} => fd = "open"

DataTypes ==
  /\ {failed, refused} \subseteq BOOLEAN
  /\ effort \in [Joints -> AllEfforts] /\ mode \in [Joints -> Modes]
  /\ running \in SUBSET Controllers
  /\ enabled \in [Joints -> BOOLEAN] /\ unread \in [Joints -> 0 .. MaxUnread]
  /\ executes \in [Joints -> [asked : AllEfforts, sign : -1 .. 1]]
  /\ lost \in SUBSET Joints
  /\ overtaken \in SUBSET Joints /\ untouched \in SUBSET Joints

QueueTypes ==
  foreign \in Nat /\ displaced \in Nat /\ foreign + displaced <= MaxForeign

HTypes ==
  /\ component \in Components /\ CallInv /\ SwitchTypes /\ SocketInv
  /\ DataTypes /\ QueueTypes

LEMMA JointOne == 1 \in Joints /\ 1 \in 0 .. NumJoints /\ Joints \subseteq 0 .. NumJoints
BY PluginAssumption DEF Joints

LEMMA JointAfter ==
  ASSUME NEW n \in Joints, n # NumJoints
  PROVE  n < NumJoints /\ n + 1 \in Joints
BY PluginAssumption DEF Joints

\* Zero and the initial values are efforts.
LEMMA EffortTypes ==
  /\ AllEfforts \subseteq Int
  /\ \A e \in Efforts : e \in AllEfforts
  /\ 0 \in AllEfforts
  /\ [j \in Joints |-> 0] \in [Joints -> AllEfforts]
  /\ Initial \in [Joints -> AllEfforts]
<1>1. Initial \in [Joints -> Int]
  BY PluginAssumption
<1>2. \A j \in Joints : Initial[j] \in AllEfforts
  BY DEF AllEfforts
<1>3. Initial \in [Joints -> AllEfforts]
  BY <1>1, <1>2
<1>4. 0 \in AllEfforts /\ \A e \in Efforts : e \in AllEfforts
  BY PluginAssumption DEF AllEfforts
<1>5. AllEfforts \subseteq Int
  BY <1>1, PluginAssumption DEF AllEfforts
<1> QED
  BY <1>3, <1>4, <1>5

LEMMA HTypesInit == HInit => HTypes
<1> SUFFICES ASSUME HInit PROVE HTypes
  OBVIOUS
<1>1. 0 \in 0 .. NumJoints /\ 0 \in 0 .. MaxUnread /\ 0 \in -1 .. 1
  BY PluginAssumption
<1>2. component \in Components /\ CallInv /\ SwitchTypes /\ SocketInv
  BY <1>1 DEF HInit, CallInv, SwitchTypes, SocketInv, Components, CallOps, Stages,
              Switches, Idle, NoSwitch
<1>3. executes \in [Joints -> [asked : AllEfforts, sign : -1 .. 1]]
  BY <1>1, EffortTypes DEF HInit, Nothing
<1>4. DataTypes
  BY <1>1, <1>3, EffortTypes DEF HInit, DataTypes, NoMode, Modes
<1>5. QueueTypes
  BY PluginAssumption DEF HInit, QueueTypes
<1> QED
  BY <1>2, <1>4, <1>5 DEF HTypes

\* Which replies are read and which are not, after a frame.
LEMMA UnreadTypes ==
  ASSUME DataTypes, NEW j, NEW heard \in BOOLEAN, NEW u \in UnreadAfter(j, heard)
  PROVE  u \in [Joints -> 0 .. MaxUnread]
<1>1. \A k \in Joints : unread[k] < MaxUnread => unread[k] + 1 \in 0 .. MaxUnread
  BY PluginAssumption DEF DataTypes
<1>2. CASE u = unread
  BY <1>2 DEF DataTypes
<1>3. CASE u = [unread EXCEPT ![j] = @ + 1] /\ unread[j] < MaxUnread
  BY <1>1, <1>3 DEF DataTypes
<1> QED
  BY <1>2, <1>3 DEF UnreadAfter

LEMMA ReadTypes ==
  ASSUME NEW u \in [Joints -> 0 .. MaxUnread], NEW k \in Joints, u[k] > 0
  PROVE  [u EXCEPT ![k] = @ - 1] \in [Joints -> 0 .. MaxUnread]
BY PluginAssumption

LEMMA ControlTypes ==
  ASSUME DataTypes, NEW j \in Joints, NEW heard \in BOOLEAN, NEW ok \in BOOLEAN,
         ControlFrame(j, heard, ok)
  PROVE  unread' \in [Joints -> 0 .. MaxUnread]
BY UnreadTypes, ReadTypes DEF ControlFrame, DataTypes

LEMMA LessSum ==
  \A a, b, d, m \in Nat : b <= a /\ a + d <= m => b + d <= m
OBVIOUS

LEMMA ControlQueue ==
  ASSUME QueueTypes, NEW j, NEW heard, NEW ok, ControlFrame(j, heard, ok)
  PROVE  QueueTypes'
<1>1. foreign \in Nat /\ displaced \in Nat /\ foreign + displaced <= MaxForeign
  BY DEF QueueTypes
<1>2. foreign' \in {foreign, foreign - 1} \cap Nat
  BY <1>1 DEF ControlFrame
<1>3. displaced' = displaced
  BY DEF ControlFrame
<1>4. foreign' \in Nat /\ foreign' <= foreign
  BY <1>1, <1>2
<1>m. MaxForeign \in Nat
  BY PluginAssumption
<1>5. foreign' + displaced <= MaxForeign
  BY <1>1, <1>4, <1>m, LessSum
<1> QED
  BY <1>1, <1>3, <1>4, <1>5 DEF QueueTypes

LEMMA SignTypes ==
  ASSUME NEW j
  PROVE  SignRead(j) \in -1 .. 1
<1> DEFINE s == SignOfUint(ReadV2(Frame(j)).t, Limits.t, Steps("t"))
<1>1. s \in {-1, 0, 1}
  BY DEF SignOfUint
<1> HIDE DEF s
<1>2. s \in -1 .. 1 /\ -s \in -1 .. 1
  BY <1>1
<1> QED
  BY <1>2 DEF SignRead, s

\* A read fails or makes way for the next one.
LEMMA ReadProceeds ==
  ASSUME ReadReply
  PROVE  \/ Fail
         \/ NextJoint("read") /\ UNCHANGED <<component, running, switching>>
<1>1. CASE Fail
  BY <1>1
<1>2. CASE ReadJoint
  BY <1>2 DEF ReadJoint
<1>3. CASE ReadUnknown
  BY <1>3 DEF ReadUnknown
<1> QED
  BY <1>1, <1>2, <1>3 DEF ReadReply

\* What the lifecycle methods and the destructor leave of the rest.
LEMMA CallTypes ==
  ASSUME HTypes,
         \/ Configure \/ ConfigureFails \/ Cleanup
         \/ Activate \/ Deactivate \/ Destroy \/ ExitHangs \/ Update \/ StartWrite
  PROVE  HTypes'
<1> USE PluginAssumption, JointOne
    DEF HTypes, CallInv, SwitchTypes, SocketInv, DataTypes, QueueTypes, Components,
        CallOps, Stages, Switches, Idle, NoSwitch, Modes, commandVars, switchVars,
        queueVars, busVars
<1>1. CASE Configure
  <2>1. \/ /\ effort' = Initial /\ overtaken' = {}
           /\ untouched' = {j \in Joints : Initial[j] # 0}
        \/ effort' = effort /\ overtaken' = overtaken /\ untouched' = untouched
    BY <1>1 DEF Configure
  <2>2. /\ effort' \in [Joints -> AllEfforts]
        /\ overtaken' \in SUBSET Joints /\ untouched' \in SUBSET Joints
    BY <2>1, EffortTypes
  <2> QED
    BY <1>1, <2>2 DEF Configure
<1>2. CASE ConfigureFails
  BY <1>2 DEF ConfigureFails
<1>3. CASE Cleanup
  BY <1>3 DEF Cleanup
<1>4. CASE Activate
  BY <1>4 DEF Activate
<1>5. CASE Deactivate
  BY <1>5 DEF Deactivate, BeginExit
<1>6. CASE Destroy
  BY <1>6 DEF Destroy, BeginExit
<1>7. CASE ExitHangs
  BY <1>7 DEF ExitHangs
<1>8. CASE Update
  <2>1. PICK c \in running, e \in Efforts : Update!2!(c, e)
    BY <1>8 DEF Update
  <2> DEFINE J == {j \in Joints : <<j, "effort">> \in Claims[c]}
  <2>2. effort' = [j \in Joints |-> IF j \in J THEN e ELSE effort[j]]
    BY <2>1
  <2>3. /\ overtaken' = overtaken \/ overtaken' = overtaken \cup J
        /\ untouched' = untouched \ J
    BY <2>1
  <2>4. J \subseteq Joints
    OBVIOUS
  <2> HIDE DEF J
  <2>5. /\ effort' \in [Joints -> AllEfforts]
        /\ overtaken' \in SUBSET Joints /\ untouched' \in SUBSET Joints
    BY <2>2, <2>3, <2>4, EffortTypes
  <2> QED
    BY <1>8, <2>5 DEF Update
<1>9. CASE StartWrite
  BY <1>9 DEF StartWrite
<1> QED
  BY <1>1, <1>2, <1>3, <1>4, <1>5, <1>6, <1>7, <1>8, <1>9

LEMMA FrameTypes ==
  ASSUME HTypes,
         ForeignFrame \/ ZeroFrame \/ StartFrame \/ ExitFrame \/ SendCommand \/ ReadReply
  PROVE  HTypes'
<1> USE PluginAssumption, JointOne
    DEF HTypes, CallInv, SwitchTypes, SocketInv, DataTypes, Components, CallOps,
        Stages, Switches, Idle, NoSwitch, Modes, commandVars, switchVars, queueVars,
        Fail, NextJoint
<1>0. CASE ForeignFrame
  BY <1>0 DEF ForeignFrame, QueueTypes
<1>1. call.op # "none" /\ call.at # NumJoints => call.at + 1 \in Joints
  BY JointAfter
<1>2. CASE ZeroFrame
  <2> PICK heard \in BOOLEAN, ok \in BOOLEAN : ZeroFrame!2!(heard, ok)
    BY <1>2 DEF ZeroFrame
  <2>1. unread' \in [Joints -> 0 .. MaxUnread] /\ QueueTypes'
    BY <1>2, ControlTypes, ControlQueue DEF ZeroFrame
  <2> QED
    BY <1>2, <2>1 DEF ZeroFrame
<1>3. CASE StartFrame
  <2> PICK heard \in BOOLEAN, ok \in BOOLEAN : StartFrame!2!(heard, ok)
    BY <1>3 DEF StartFrame
  <2>1. unread' \in [Joints -> 0 .. MaxUnread] /\ QueueTypes'
    BY <1>3, ControlTypes, ControlQueue DEF StartFrame
  <2>2. enabled' \in [Joints -> BOOLEAN] /\ lost' \in SUBSET Joints
    BY <1>3 DEF StartFrame
  <2> QED
    BY <1>1, <1>3, <2>1, <2>2 DEF StartFrame
<1>4. CASE ExitFrame
  <2> PICK heard \in BOOLEAN, ok \in BOOLEAN : ExitFrame!2!(heard, ok)
    BY <1>4 DEF ExitFrame
  <2>1. unread' \in [Joints -> 0 .. MaxUnread] /\ QueueTypes'
    BY <1>4, ControlTypes, ControlQueue DEF ExitFrame
  <2>2. enabled' \in [Joints -> BOOLEAN] /\ lost' \in SUBSET Joints /\ failed' \in BOOLEAN
    BY <1>4 DEF ExitFrame
  <2> QED
    BY <1>1, <1>4, <2>1, <2>2 DEF ExitFrame
<1>5. CASE SendCommand
  <2> DEFINE j == WriteOrder[call.at]
  <2>1. unread' \in [Joints -> 0 .. MaxUnread]
    BY <1>5, UnreadTypes DEF SendCommand
  <2>2. executes' \in [Joints -> [asked : AllEfforts, sign : -1 .. 1]]
    <3> HIDE DEF j
    <3>1. j \in Joints => [asked |-> effort[j], sign |-> SignRead(j)]
                            \in [asked : AllEfforts, sign : -1 .. 1]
      BY SignTypes
    <3>2. executes' = executes \/
          executes' = [executes EXCEPT ![j] = [asked |-> effort[j], sign |-> SignRead(j)]]
      BY <1>5 DEF SendCommand, j
    <3> QED
      BY <3>1, <3>2
  <2> QED
    BY <1>1, <1>5, <2>1, <2>2 DEF SendCommand, QueueTypes
<1>6. CASE ReadReply
  <2>1. unread' \in [Joints -> 0 .. MaxUnread]
    BY <1>6, ReadTypes DEF ReadReply, ReadJoint, ReadUnknown
  <2>2. QueueTypes'
    BY <1>6 DEF ReadReply, ReadJoint, ReadUnknown, QueueTypes
  <2>3. Fail \/ (NextJoint("read") /\ UNCHANGED <<component, running, switching>>)
    BY <1>6, ReadProceeds
  <2> QED
    BY <1>1, <1>6, <2>1, <2>2, <2>3 DEF ReadReply
<1> QED
  BY <1>0, <1>2, <1>3, <1>4, <1>5, <1>6

LEMMA SwitchingTypes ==
  ASSUME HTypes, Prepare \/ ResetJoint \/ AssignMode \/ Abandon \/ PerformSwitch
  PROVE  HTypes'
<1> USE PluginAssumption, JointOne
    DEF HTypes, CallInv, SwitchTypes, SocketInv, DataTypes, Components, CallOps,
        Stages, Switches, Idle, NoSwitch, Modes, commandVars, queueVars, busVars,
        QueueTypes, Elsewhere
<1>1. switching.stage \in {"reset", "modes"} /\ switching.at < NumJoints =>
        switching.at + 1 \in Joints
  BY JointAfter
<1>2. CASE Prepare
  BY <1>2 DEF Prepare
<1>3. CASE ResetJoint
  BY <1>1, <1>3, EffortTypes DEF ResetJoint
<1>4. CASE AssignMode
  <2>1. NewMode(switching.at) \in Modes
    BY DEF NewMode
  <2> QED
    BY <1>1, <1>4, <2>1 DEF AssignMode
<1>5. CASE Abandon
  BY <1>5 DEF Abandon
<1>6. CASE PerformSwitch
  BY <1>6 DEF PerformSwitch
<1> QED
  BY <1>2, <1>3, <1>4, <1>5, <1>6

LEMMA HTypesStep ==
  ASSUME HTypes, [HNext]_hwvars
  PROVE  HTypes'
<1>1. CASE UNCHANGED hwvars
  BY <1>1 DEF hwvars, commandVars, switchVars, queueVars, busVars, HTypes, CallInv,
              SwitchTypes, SocketInv, DataTypes, QueueTypes
<1>2. CASE HNext
  BY <1>2, CallTypes, FrameTypes, SwitchingTypes DEF HNext
<1> QED
  BY <1>1, <1>2

LEMMA HTypesInvariant == HSpec => []HTypes
BY HTypesInit, HTypesStep, PTL DEF HSpec

\* Every variable of the plugin keeps its type, and no loop over the joints or
\* over new_modes leaves their range.
THEOREM PluginTypeCorrect == HSpec => []HTypeOK
<1>1. HTypes => HTypeOK
  BY DEF HTypes, CallInv, SwitchTypes, SocketInv, DataTypes, QueueTypes, HTypeOK,
         Components, CallOps, Stages, Switches
<1> QED
  BY <1>1, HTypesInvariant, PTL

-----------------------------------------------------------------------------
(* Replies                                                                  *)

Counts == [Joints -> 0 .. MaxUnread]

LEMMA TokensFinite == ASSUME NEW u PROVE IsFiniteSet(Tokens(u))
<1>1. IsFiniteSet(Joints) /\ IsFiniteSet(1 .. MaxUnread)
  BY FS_Interval, PluginAssumption DEF Joints
<1>2. IsFiniteSet(Joints \X (1 .. MaxUnread))
  BY <1>1, FS_Product
<1>3. Tokens(u) \in SUBSET (Joints \X (1 .. MaxUnread))
  BY DEF Tokens
<1> QED
  BY <1>2, <1>3, FS_Subset

LEMMA TokenAdded ==
  ASSUME NEW u \in Counts, NEW j, u[j] < MaxUnread
  PROVE  Cardinality(Tokens([u EXCEPT ![j] = @ + 1])) <= Cardinality(Tokens(u)) + 1
<1> DEFINE v == [u EXCEPT ![j] = @ + 1]
<1>1. Tokens(v) \subseteq Tokens(u) \cup {<<j, u[j] + 1>>}
  <2> SUFFICES ASSUME NEW k \in Joints, NEW n \in 1 .. MaxUnread, n <= v[k],
                      ~(n <= u[k])
               PROVE  <<k, n>> = <<j, u[j] + 1>>
    BY DEF Tokens
  <2>1. k = j /\ v[k] = u[j] + 1
    BY DEF Counts
  <2>2. u[k] \in 0 .. MaxUnread
    BY DEF Counts
  <2> QED
    BY <2>1, <2>2, PluginAssumption
<1> HIDE DEF v
<1> DEFINE x == <<j, u[j] + 1>>
<1> HIDE DEF x
<1>2. /\ IsFiniteSet(Tokens(u) \cup {x})
      /\ Cardinality(Tokens(u) \cup {x}) =
           IF x \in Tokens(u) THEN Cardinality(Tokens(u)) ELSE Cardinality(Tokens(u)) + 1
  BY TokensFinite, FS_AddElement
<1>3. Cardinality(Tokens(v)) <= Cardinality(Tokens(u) \cup {x})
  BY <1>1, <1>2, FS_Subset DEF x
<1>4. Cardinality(Tokens(u)) \in Nat /\ Cardinality(Tokens(v)) \in Nat
  BY TokensFinite, FS_CardinalityType
<1> QED
  BY <1>2, <1>3, <1>4 DEF v

LEMMA TokenRemoved ==
  ASSUME NEW u \in Counts, NEW k \in Joints, u[k] > 0
  PROVE  Cardinality(Tokens([u EXCEPT ![k] = @ - 1])) <= Cardinality(Tokens(u)) - 1
<1> DEFINE v == [u EXCEPT ![k] = @ - 1]
<1>0. u[k] \in 1 .. MaxUnread
  BY PluginAssumption DEF Counts
<1>1. Tokens(v) \subseteq Tokens(u) \ {<<k, u[k]>>}
  <2> SUFFICES ASSUME NEW j \in Joints, NEW n \in 1 .. MaxUnread, n <= v[j]
               PROVE  n <= u[j] /\ <<j, n>> # <<k, u[k]>>
    BY DEF Tokens
  <2>1. u[j] \in 0 .. MaxUnread /\ v[j] = IF j = k THEN u[k] - 1 ELSE u[j]
    BY DEF Counts
  <2> QED
    BY <2>1, <1>0, PluginAssumption
<1>2. <<k, u[k]>> \in Tokens(u)
  BY <1>0 DEF Tokens
<1> HIDE DEF v
<1>3. Cardinality(Tokens(u) \ {<<k, u[k]>>}) = Cardinality(Tokens(u)) - 1
      /\ IsFiniteSet(Tokens(u) \ {<<k, u[k]>>})
  BY <1>2, TokensFinite, FS_RemoveElement
<1>4. Cardinality(Tokens(v)) <= Cardinality(Tokens(u) \ {<<k, u[k]>>})
  BY <1>1, <1>3, FS_Subset
<1> QED
  BY <1>3, <1>4 DEF v

LEMMA NoTokens ==
  ASSUME NEW u \in Counts
  PROVE  Cardinality(Tokens(u)) <= 0 <=> \A j \in Joints : u[j] = 0
<1>1. Cardinality(Tokens(u)) \in Nat /\ (Cardinality(Tokens(u)) = 0 <=> Tokens(u) = {})
  BY TokensFinite, FS_CardinalityType, FS_EmptySet
<1>2. ASSUME NEW j \in Joints, u[j] # 0
      PROVE  Tokens(u) # {}
  <2>1. u[j] \in 1 .. MaxUnread
    BY <1>2, PluginAssumption DEF Counts
  <2>2. <<j, u[j]>> \in Tokens(u)
    BY <2>1 DEF Tokens
  <2> QED
    BY <2>2
<1>3. ASSUME \A j \in Joints : u[j] = 0
      PROVE  Tokens(u) = {}
  BY <1>3 DEF Tokens
<1> QED
  BY <1>1, <1>2, <1>3

\* As many replies are left unread at most as frames are ahead of the reads and
\* as reads have returned other devices' frames.
AtMost(n) == Cardinality(Tokens(unread)) <= n

ReplyInv ==
  /\ component = "unconfigured" => AtMost(0)
  /\ component \in {"inactive", "active"} =>
       /\ call.op \in {"none", "zero", "start"} => AtMost(displaced)
       /\ call.op \in {"exit", "destroy"} /\ ~failed => AtMost(displaced)
       /\ call.op = "send" => AtMost(call.at - 1 + displaced)
       /\ call.op = "read" => AtMost(NumJoints + 1 - call.at + displaced)

LEMMA TokenCount == ASSUME NEW u PROVE Cardinality(Tokens(u)) \in Nat
BY TokensFinite, FS_CardinalityType

\* A frame adds at most one reply.
LEMMA MoreTokens ==
  ASSUME unread \in Counts, NEW j, NEW heard, NEW u \in UnreadAfter(j, heard)
  PROVE  Cardinality(Tokens(u)) <= Cardinality(Tokens(unread)) + 1
<1>1. Cardinality(Tokens(unread)) \in Nat
  BY TokenCount
<1>2. CASE u = unread
  BY <1>1, <1>2
<1>3. CASE u = [unread EXCEPT ![j] = @ + 1] /\ unread[j] < MaxUnread
  BY <1>3, TokenAdded
<1> QED
  BY <1>2, <1>3 DEF UnreadAfter

\* A control frame that returns OK has read a reply, its own or an older one.
LEMMA FrameAnswered ==
  ASSUME HTypes, NEW j \in Joints, NEW heard \in BOOLEAN,
         ControlFrame(j, heard, TRUE)
  PROVE  /\ Cardinality(Tokens(unread')) <= Cardinality(Tokens(unread))
         /\ displaced' = displaced
<1>1. PICK u \in UnreadAfter(j, heard), k \in Joints :
        u[k] > 0 /\ unread' = [u EXCEPT ![k] = @ - 1]
  BY DEF ControlFrame
<1>2. unread \in Counts /\ u \in Counts
  BY UnreadTypes DEF HTypes, DataTypes, Counts
<1>3. Cardinality(Tokens(u)) <= Cardinality(Tokens(unread)) + 1
  BY <1>2, MoreTokens
<1>4. Cardinality(Tokens(unread')) <= Cardinality(Tokens(u)) - 1
  BY <1>1, <1>2, TokenRemoved
<1>5. /\ Cardinality(Tokens(unread)) \in Nat /\ Cardinality(Tokens(u)) \in Nat
      /\ Cardinality(Tokens(unread')) \in Nat
  BY TokenCount
<1> QED
  BY <1>3, <1>4, <1>5 DEF ControlFrame

LEMMA ReplyInit == HInit => ReplyInv
<1> SUFFICES ASSUME HInit PROVE AtMost(0)
  BY DEF HInit, ReplyInv
<1>1. unread \in Counts /\ \A j \in Joints : unread[j] = 0
  BY PluginAssumption DEF HInit, Counts
<1> QED
  BY <1>1, NoTokens DEF AtMost

LEMMA ReplyStep ==
  ASSUME HTypes, ReplyInv, [HNext]_hwvars
  PROVE  ReplyInv'
<1> USE PluginAssumption
<1>0. /\ call \in [op : CallOps, at : 0 .. NumJoints]
      /\ call.op # "none" => call.at \in 1 .. NumJoints
      /\ displaced \in Nat
  BY DEF HTypes, CallInv, QueueTypes, Joints
<1> DEFINE T == Cardinality(Tokens(unread))
<1>t. T \in Nat /\ T' \in Nat
  BY TokenCount
<1>m. \A n : (AtMost(n) <=> T <= n) /\ (AtMost(n)' <=> T' <= n)
  BY DEF AtMost
<1>z. unread \in Counts
  BY DEF HTypes, DataTypes, Counts
<1>u. ASSUME unread' = unread PROVE T' = T
  BY <1>u
<1>a. /\ ReplyInv <=>
           /\ component = "unconfigured" => T <= 0
           /\ component \in {"inactive", "active"} =>
                /\ call.op \in {"none", "zero", "start"} => T <= displaced
                /\ call.op \in {"exit", "destroy"} /\ ~failed => T <= displaced
                /\ call.op = "send" => T <= call.at - 1 + displaced
                /\ call.op = "read" => T <= NumJoints + 1 - call.at + displaced
      /\ ReplyInv' <=>
           /\ component' = "unconfigured" => T' <= 0
           /\ component' \in {"inactive", "active"} =>
                /\ call'.op \in {"none", "zero", "start"} => T' <= displaced'
                /\ call'.op \in {"exit", "destroy"} /\ ~failed' => T' <= displaced'
                /\ call'.op = "send" => T' <= call'.at - 1 + displaced'
                /\ call'.op = "read" => T' <= NumJoints + 1 - call'.at + displaced'
  BY DEF ReplyInv, AtMost
<1> HIDE DEF T
<1>1. CASE \/ ForeignFrame \/ Configure \/ ConfigureFails \/ Activate \/ ExitHangs
           \/ Update \/ Deactivate \/ Destroy \/ StartWrite
  <2>1. T' = T /\ displaced' = displaced
    BY <1>1, <1>u DEF ForeignFrame, Configure, ConfigureFails, Activate, ExitHangs,
       Update, Deactivate, Destroy, StartWrite, BeginExit, busVars, queueVars
  <2>2. CASE ForeignFrame
    BY <1>a, <2>1, <2>2 DEF ForeignFrame
  <2>3. CASE Configure \/ ConfigureFails \/ ExitHangs
    BY <1>0, <1>t, <1>a, <2>1, <2>3 DEF Configure, ConfigureFails, ExitHangs, Idle
  <2>4. CASE Activate \/ Update
    BY <1>a, <2>1, <2>4 DEF Activate, Update, Idle
  <2>5. CASE Deactivate \/ Destroy
    BY <1>a, <2>1, <2>5 DEF Deactivate, Destroy, BeginExit, Idle
  <2>6. CASE StartWrite
    <3>1. component' = component /\ call'.op = "send" /\ call'.at = 1 /\ call.op = "none"
          /\ component \in {"inactive", "active"}
      BY <2>6 DEF StartWrite, Idle
    <3>2. T' <= 1 - 1 + displaced'
      BY <1>0, <1>t, <1>a, <2>1, <3>1
    <3> QED
      BY <1>a, <3>1, <3>2
  <2> QED
    BY <1>1, <2>2, <2>3, <2>4, <2>5, <2>6
<1>2. CASE Cleanup
  <2>1. unread' \in Counts /\ \A j \in Joints : unread'[j] = 0
    BY <1>2 DEF Cleanup, Counts
  <2>2. T' <= 0
    BY <2>1, NoTokens DEF T
  <2>3. component' = "unconfigured"
    BY <1>2 DEF Cleanup
  <2> QED
    BY <1>a, <2>2, <2>3
<1>5. CASE ZeroFrame \/ StartFrame
  <2>1. PICK heard \in BOOLEAN, ok \in BOOLEAN :
          /\ ControlFrame(call.at, heard, ok)
          /\ \/ /\ ok /\ component' \in {component, "active"}
                /\ call'.op \in {"none", "zero", "start"}
             \/ ~ok /\ Fail
    <3>1. CASE ZeroFrame
      <4>1. PICK heard \in BOOLEAN, ok \in BOOLEAN : ZeroFrame!2!(heard, ok)
        BY <3>1 DEF ZeroFrame
      <4> QED
        BY <1>0, <3>1, <4>1 DEF ZeroFrame
    <3>2. CASE StartFrame
      <4>1. PICK heard \in BOOLEAN, ok \in BOOLEAN : StartFrame!2!(heard, ok)
        BY <3>2 DEF StartFrame
      <4>2. ok => call'.op \in {"none", "zero", "start"}
        BY <4>1 DEF NextJoint, Idle, Fail
      <4> QED
        BY <4>1, <4>2
    <3> QED
      BY <1>5, <3>1, <3>2
  <2>2. CASE ok
    <3>1. call.at \in Joints /\ component = "inactive" /\ call.op \in {"zero", "start"}
      BY <1>5 DEF ZeroFrame, StartFrame, HTypes, CallInv
    <3>2. T' <= T /\ displaced' = displaced
      BY <2>1, <2>2, <3>1, FrameAnswered DEF T
    <3>3. T' <= displaced'
      BY <1>0, <1>t, <1>a, <3>1, <3>2
    <3> QED
      BY <1>a, <2>1, <2>2, <3>1, <3>3
  <2>3. CASE ~ok
    BY <1>a, <2>1, <2>3 DEF Fail
  <2> QED
    BY <2>2, <2>3
<1>7. CASE ExitFrame
  <2>1. PICK heard \in BOOLEAN, ok \in BOOLEAN :
          ControlFrame(call.at, heard, ok) /\ failed' = (failed \/ ~ok)
    BY <1>7 DEF ExitFrame
  <2>0. call.at \in Joints /\ failed \in BOOLEAN /\ call.op \in {"exit", "destroy"}
    BY <1>7 DEF ExitFrame, HTypes, CallInv, DataTypes
  <2>2. \/ component' = component /\ call'.op = call.op
        \/ call.op = "exit" /\ ~failed' /\ component' = "inactive" /\ call' = Idle
        \/ component' \in {"finalized", "destroyed"}
    BY <1>7 DEF ExitFrame, NextJoint, Fail
  <2>3. CASE component \in {"inactive", "active"}
    <3>1. ASSUME ~failed' PROVE T' <= displaced'
      <4>1. ok /\ ~failed
        BY <2>0, <2>1, <3>1
      <4>2. T' <= T /\ displaced' = displaced
        BY <2>0, <2>1, <4>1, FrameAnswered DEF T
      <4> QED
        BY <1>0, <1>t, <1>a, <2>0, <2>3, <4>1, <4>2
    <3> QED
      BY <1>a, <2>0, <2>2, <2>3, <3>1 DEF Idle
  <2>4. CASE component \notin {"inactive", "active"}
    <3>1. call.op = "destroy"
      BY <2>0, <2>4 DEF HTypes, CallInv
    <3>2. component = "unconfigured" => T' = T
      BY <1>u, <2>1 DEF HTypes, SocketInv, ControlFrame
    <3> QED
      BY <1>a, <2>2, <2>4, <3>1, <3>2
  <2> QED
    BY <2>3, <2>4
<1>8. CASE SendCommand
  <2>0. /\ call.op = "send" /\ component \in {"inactive", "active"}
        /\ T <= call.at - 1 + displaced /\ displaced' = displaced
    BY <1>8, <1>a DEF SendCommand, HTypes, CallInv
  <2>1. CASE Fail
    BY <1>a, <2>1 DEF Fail
  <2>2. CASE ~Fail
    <3>1. PICK heard \in BOOLEAN :
            /\ unread' \in UnreadAfter(WriteOrder[call.at], heard)
            /\ call' = IF call.at = NumJoints THEN [op |-> "read", at |-> 1]
                                              ELSE [call EXCEPT !.at = @ + 1]
            /\ component' = component
      BY <1>8, <2>2 DEF SendCommand
    <3>2. T' <= T + 1
      BY <1>z, <3>1, MoreTokens DEF T
    <3>3. \/ call'.op = "read" /\ call'.at = 1 /\ call.at = NumJoints
          \/ call'.op = "send" /\ call'.at = call.at + 1
      BY <1>0, <2>0, <3>1
    <3>4. /\ call'.op = "read" => T' <= NumJoints + 1 - call'.at + displaced'
          /\ call'.op = "send" => T' <= call'.at - 1 + displaced'
      BY <1>0, <1>t, <2>0, <3>2, <3>3
    <3> QED
      BY <1>a, <2>0, <3>1, <3>3, <3>4
  <2> QED
    BY <2>1, <2>2
<1>9. CASE ReadReply
  <2>0. /\ call.op = "read" /\ component \in {"inactive", "active"}
        /\ T <= NumJoints + 1 - call.at + displaced
    BY <1>9, <1>a DEF ReadReply, HTypes, CallInv
  <2>1. CASE Fail
    BY <1>a, <2>1 DEF Fail
  <2>2. CASE ~Fail
    <3>1. NextJoint("read") /\ component' = component
      BY <1>9, <2>2, ReadProceeds
    <3>2. \/ T' <= T - 1 /\ displaced' = displaced
          \/ T' = T /\ displaced' = displaced + 1
      <4>1. CASE ReadJoint
        <5>1. PICK k \in Joints : unread[k] > 0 /\ unread' = [unread EXCEPT ![k] = @ - 1]
          BY <4>1 DEF ReadJoint
        <5>2. displaced' = displaced
          BY <4>1 DEF ReadJoint
        <5> QED
          BY <5>1, <5>2, <1>z, TokenRemoved DEF T
      <4>2. CASE ReadUnknown
        BY <4>2, <1>u DEF ReadUnknown
      <4> QED
        BY <1>9, <2>2, <4>1, <4>2 DEF ReadReply
    <3>3. T' <= NumJoints - call.at + displaced'
      BY <1>0, <1>t, <2>0, <3>2
    <3>4. \/ call.at = NumJoints /\ call'.op = "none"
          \/ call'.op = "read" /\ call'.at = call.at + 1
      BY <1>0, <2>0, <3>1 DEF NextJoint, Idle
    <3>5. displaced' \in Nat
      BY <1>0, <3>2
    <3>6. /\ call'.op = "none" => T' <= displaced'
          /\ call'.op = "read" => T' <= NumJoints + 1 - call'.at + displaced'
      BY <1>0, <1>t, <2>0, <3>3, <3>4, <3>5
    <3> QED
      BY <1>a, <2>0, <3>1, <3>4, <3>6
  <2> QED
    BY <2>1, <2>2
<1>10. CASE \/ Prepare \/ ResetJoint \/ AssignMode \/ Abandon \/ PerformSwitch
            \/ UNCHANGED hwvars
  <2>1. UNCHANGED <<component, call, failed, unread, displaced>>
    BY <1>10 DEF Prepare, ResetJoint, AssignMode, Abandon, PerformSwitch, Elsewhere,
       busVars, queueVars, hwvars
  <2> QED
    BY <1>a, <1>u, <2>1
<1> QED
  BY <1>1, <1>2, <1>5, <1>7, <1>8, <1>9, <1>10 DEF HNext

LEMMA ReplyInvariant == HSpec => []ReplyInv
BY ReplyInit, ReplyStep, HTypesInvariant, PTL DEF HSpec

\* "to ensure alternating writes/reads" (line 364): between two calls no more
\* replies are left, to be taken for answers to later commands, than write() has
\* read frames of other devices in their place.
THEOREM WritesAndReadsAlternate == HSpec => []Alternates
<1>1. ReplyInv => Alternates
  BY DEF ReplyInv, AtMost, Alternates, Idle
<1> QED
  BY <1>1, ReplyInvariant, PTL

\* On a bus where no other device's frame passes the filter no reply of any motor
\* is left between two calls.
QuietBetweenCalls ==
  component \in {"inactive", "active"} /\ call = Idle => \A j \in Joints : unread[j] = 0

THEOREM QuietBusAlternates == MaxForeign = 0 => (HSpec => []QuietBetweenCalls)
<1> SUFFICES ASSUME MaxForeign = 0 PROVE HSpec => []QuietBetweenCalls
  OBVIOUS
<1>1. HTypes /\ Alternates => QuietBetweenCalls
  <2> SUFFICES ASSUME HTypes, Alternates, component \in {"inactive", "active"}, call = Idle
               PROVE  \A j \in Joints : unread[j] = 0
    BY DEF QuietBetweenCalls
  <2>1. unread \in Counts /\ displaced \in Nat /\ displaced <= 0
    BY DEF HTypes, DataTypes, QueueTypes, Counts
  <2>2. Cardinality(Tokens(unread)) \in Nat /\ Cardinality(Tokens(unread)) <= displaced
    BY TokenCount DEF Alternates
  <2>3. Cardinality(Tokens(unread)) <= 0
    BY <2>1, <2>2
  <2> QED
    BY <2>1, <2>3, NoTokens
<1> QED
  BY <1>1, HTypesInvariant, WritesAndReadsAlternate, PTL

-----------------------------------------------------------------------------
(* Torque off                                                               *)

\* The joints whose exit frame has gone out.
Exited == {j \in Joints : j < call.at}

\* A motor that has heard its last exit frame is enabled only while the socket
\* is open, and in "inactive" only while it is being activated or shut down.
OffInv ==
  /\ component \in {"unconfigured", "hung"} \/ fd # "open"
       \/ (component = "inactive" /\ call.op \in {"none", "send", "read"})
     => \A j \in Joints : enabled[j] => j \in lost
  /\ call.op \in {"exit", "destroy"} =>
       \A j \in Exited : enabled[j] => j \in lost
  /\ DestroyedMeansOff

LEMMA OffInit == HInit => OffInv
BY DEF HInit, OffInv, Idle, DestroyedMeansOff

LEMMA OffStep ==
  ASSUME HTypes, OffInv, [HNext]_hwvars
  PROVE  OffInv'
<1> USE PluginAssumption DEF OffInv, Exited, DestroyedMeansOff
<1>0. /\ call \in [op : CallOps, at : 0 .. NumJoints] /\ (call.op # "none" => call.at \in Joints)
      /\ enabled \in [Joints -> BOOLEAN] /\ lost \in SUBSET Joints
  BY DEF HTypes, CallInv, DataTypes
<1>v. component \in {"unconfigured", "hung"} \/ fd # "open"
        \/ (component = "inactive" /\ call.op \in {"none", "send", "read"})
      => \A j \in Joints : enabled[j] => j \in lost
  OBVIOUS
<1>w. ASSUME UNCHANGED <<enabled, lost, call>>,
             component' = component
               \/ (component \in {"inactive", "unconfigured"} /\ call.op = "none"),
             component' # "destroyed",
             fd' = fd \/ (component \in {"inactive", "unconfigured"} /\ call.op = "none")
      PROVE  OffInv'
  <2>1. (\A j \in Joints : enabled[j] => j \in lost)
          => \A j \in Joints : enabled'[j] => j \in lost'
    BY <1>w
  <2>2. \/ component' \in {"unconfigured", "hung"} \/ fd' # "open"
        \/ component' = "inactive" /\ call'.op \in {"none", "send", "read"}
        => \A j \in Joints : enabled'[j] => j \in lost'
    BY <1>v, <1>w, <2>1
  <2>3. call'.op \in {"exit", "destroy"} => call' = call
    BY <1>w
  <2> QED
    BY <1>w, <2>2, <2>3
<1>1. CASE \/ ForeignFrame \/ Configure \/ ConfigureFails \/ Cleanup \/ ExitHangs \/ Update
  <2>1. CASE ForeignFrame \/ Update
    <3>1. UNCHANGED <<enabled, lost, call, component, fd>> /\ component # "destroyed"
      BY <2>1 DEF ForeignFrame, Update, busVars
    <3> QED
      BY <1>w, <3>1
  <2>2. CASE Configure \/ ConfigureFails \/ Cleanup
    <3>1. /\ UNCHANGED <<enabled, lost, call>> /\ component' # "destroyed"
          /\ component \in {"inactive", "unconfigured"} /\ call.op = "none"
      BY <2>2 DEF Configure, ConfigureFails, Cleanup, busVars, Idle
    <3> QED
      BY <1>w, <3>1
  <2>3. CASE ExitHangs
    <3>1. UNCHANGED <<enabled, lost, fd>> /\ fd = "unset" /\ component' = "hung" /\ call' = Idle
      BY <2>3 DEF ExitHangs, busVars
    <3> QED
      BY <1>v, <3>1 DEF Idle
  <2> QED
    BY <1>1, <2>1, <2>2, <2>3
<1>2. CASE Activate
  BY <1>0, <1>2 DEF Activate, busVars, Idle
<1>3. CASE StartWrite
  BY <1>0, <1>3 DEF StartWrite, busVars, Idle
<1>4. CASE Deactivate \/ Destroy
  BY <1>0, <1>4 DEF Deactivate, Destroy, BeginExit, busVars, Joints
<1>5. CASE ZeroFrame
  <2>1. UNCHANGED <<enabled, lost, fd>> /\ component = "inactive" /\ fd = "open"
    BY <1>5 DEF ZeroFrame, HTypes, CallInv, SocketInv
  <2>2. \/ call'.op = "start" /\ component' = component
        \/ call' = Idle /\ component' = "finalized"
    <3>1. PICK heard \in BOOLEAN, ok \in BOOLEAN : ZeroFrame!2!(heard, ok)
      BY <1>5 DEF ZeroFrame
    <3> QED
      BY <1>0, <1>5, <3>1 DEF ZeroFrame, Fail
  <2> QED
    BY <2>1, <2>2 DEF Idle
<1>6. CASE StartFrame
  BY <1>0, <1>6 DEF StartFrame, NextJoint, Fail, Idle, HTypes, CallInv, SocketInv
<1>7. CASE ExitFrame
  <2> PICK heard \in BOOLEAN, ok \in BOOLEAN : ExitFrame!2!(heard, ok)
    BY <1>7 DEF ExitFrame
  <2>0. call.op \in {"exit", "destroy"} /\ call.at \in Joints
    BY <1>0, <1>7 DEF ExitFrame
  <2>1. \A j \in Joints : enabled'[j] = (enabled[j] /\ (j = call.at => ~heard))
    BY <1>0, <2>0
  <2>l. lost' = IF heard THEN lost \ {call.at}
                ELSE IF fd = "open" THEN lost \cup {call.at} ELSE lost
    OBVIOUS
  <2>k. ASSUME NEW j \in Joints, enabled[j] => j \in lost
        PROVE  enabled'[j] => j \in lost'
    BY <2>0, <2>1, <2>l, <2>k
  <2>2. ASSUME NEW j \in Joints, j < call.at + 1, enabled'[j]
        PROVE  j \in lost'
    <3>1. CASE j = call.at
      <4>1. ~heard /\ enabled[j]
        BY <2>1, <2>2, <3>1
      <4>2. fd # "open" => j \in lost
        BY <1>v, <4>1
      <4> QED
        BY <2>l, <3>1, <4>1, <4>2
    <3>2. CASE j < call.at
      <4>1. enabled[j] => j \in lost
        BY <2>0, <3>2
      <4> QED
        BY <2>2, <2>k, <4>1
    <3> QED
      BY <2>0, <2>2, <3>1, <3>2 DEF Joints
  <2>4. fd' = fd /\ (fd # "open" => \A j \in Joints : enabled'[j] => j \in lost')
    BY <1>7, <1>v, <2>k DEF ExitFrame
  <2>5. component \in {"unconfigured", "hung"} => \A j \in Joints : enabled'[j] => j \in lost'
    BY <1>v, <2>k
  <2>6. CASE call.at < NumJoints /\ NextJoint(call.op) /\ component' = component
    <3>1. call' = [op |-> call.op, at |-> call.at + 1]
      BY <2>0, <2>6 DEF NextJoint, Joints
    <3>2. component # "destroyed"
      BY <2>0 DEF HTypes, CallInv
    <3> QED
      BY <2>0, <2>2, <2>4, <2>5, <2>6, <3>1, <3>2
  <2>7. CASE call.at = NumJoints /\ call' = Idle
    <3>1. \A j \in Joints : j < call.at + 1
      BY <2>7 DEF Joints
    <3>2. \A j \in Joints : enabled'[j] => j \in lost'
      BY <2>2, <3>1
    <3> QED
      BY <2>7, <3>2 DEF Idle
  <2> QED
    BY <1>7, <2>6, <2>7 DEF ExitFrame, Fail
<1>8. CASE SendCommand
  BY <1>0, <1>8 DEF SendCommand, Fail, Idle, HTypes, CallInv
<1>9. CASE ReadReply
  <2>1. Fail \/ (NextJoint("read") /\ component' = component)
    BY <1>9, ReadProceeds
  <2> QED
    BY <1>0, <1>9, <2>1 DEF ReadReply, NextJoint, Fail, Idle, HTypes, CallInv
<1>10. CASE Prepare \/ ResetJoint \/ AssignMode \/ Abandon \/ PerformSwitch
  BY <1>10 DEF Prepare, ResetJoint, AssignMode, Abandon, PerformSwitch, Elsewhere, busVars
<1>11. CASE UNCHANGED hwvars
  BY <1>11 DEF hwvars, busVars
<1> QED
  BY <1>1, <1>2, <1>3, <1>4, <1>5, <1>6, <1>7, <1>8, <1>9, <1>10, <1>11 DEF HNext

LEMMA OffInvariant == HSpec => []OffInv
BY OffInit, OffStep, HTypesInvariant, PTL DEF HSpec

\* The destructor's promise "Ensure on_deactivate is called and joints are
\* deactivated on SIGINT" (line 9): whatever state and call has failed before,
\* only a motor that did not hear its own exit frame is still enabled.
THEOREM DestructorTurnsOff == HSpec => []DestroyedMeansOff
BY OffInvariant, PTL DEF OffInv

-----------------------------------------------------------------------------
(* Switching controllers                                                    *)

\* The joints whose commands a switch has reset, and whose modes it has set.
Reset ==
  {j \in UNION {NamedIn[k] : k \in JointsOf(switching.stop)} :
     switching.stage = "reset" => j < switching.at}
Assigned == {j \in Joints : switching.stage = "modes" => j < switching.at}

\* Between two switches only the running controllers give joints a mode;
\* during one the modes that are set already are those of the controllers
\* that start.
ModeInv ==
  component \in {"unconfigured", "inactive", "active"} =>
    /\ switching.stage \in {"none", "refused"} /\ ~refused =>
         \A j \in Joints : mode[j] # "UNDEFINED" => j \in JointsOf(running)
    /\ switching.stage \in {"modes", "prepared"} =>
         \A j \in Assigned : mode[j] = NewMode(j)

\* The effort of a joint that no controller commands.
AtRest(j) == effort[j] = IF j \in untouched THEN Initial[j] ELSE 0

\* A joint has an effort only from its configuration, from a running controller
\* or from one that a stop overtook; one that the switch has reset, not from a
\* controller that stops.
StopInv ==
  component \in {"inactive", "active"} =>
    /\ \A j \in Joints \ overtaken :
         <<j, "effort">> \notin ClaimsOf(running) => AtRest(j)
    /\ switching.stage \in {"reset", "modes", "prepared"} =>
         \A j \in (Joints \cap Reset) \ overtaken :
           <<j, "effort">> \notin ClaimsOf(running \ switching.stop) => AtRest(j)

LEMMA NewModeClaimed ==
  ASSUME NEW j, NewMode(j) # "UNDEFINED"
  PROVE  j \in JointsOf(switching.start)
BY DEF NewMode, JointsOf

LEMMA ModeInit == HInit => ModeInv
BY DEF HInit, ModeInv, NoMode, NoSwitch

LEMMA ModeStep ==
  ASSUME HTypes, ModeInv, [HNext]_hwvars
  PROVE  ModeInv'
<1> USE DEF ModeInv, Assigned
<1>1. CASE mode' = mode /\ running' = running /\ switching' = switching
           /\ refused' = refused
           /\ (component \notin {"unconfigured", "inactive", "active"} =>
                 component' \notin {"unconfigured", "inactive", "active"})
  BY <1>1 DEF NewMode, ClaimsOf, JointsOf
<1>2. CASE Fail
  BY <1>2 DEF Fail
<1>3. ASSUME \/ ForeignFrame
             \/ Configure \/ ConfigureFails \/ Cleanup \/ ExitHangs \/ Update
             \/ Activate \/ StartWrite \/ Deactivate \/ Destroy
             \/ UNCHANGED hwvars
      PROVE  ModeInv'
  <2>1. UNCHANGED <<mode, running, switching, refused>>
    BY <1>3 DEF ForeignFrame, Configure, ConfigureFails, Cleanup, ExitHangs, Update, Activate,
       StartWrite, Deactivate, Destroy, BeginExit, hwvars, switchVars
  <2>2. component \notin {"unconfigured", "inactive", "active"} =>
          component' \notin {"unconfigured", "inactive", "active"}
    BY <1>3 DEF ForeignFrame, Configure, ConfigureFails, Cleanup, ExitHangs, Update, Activate,
       StartWrite, Deactivate, Destroy, BeginExit, hwvars, switchVars
  <2> QED
    BY <1>1, <2>1, <2>2
<1>4. ASSUME ZeroFrame \/ StartFrame \/ ExitFrame \/ SendCommand \/ ReadReply, ~Fail
      PROVE  ModeInv'
  <2>1. UNCHANGED <<mode, running, switching, refused>>
    BY <1>4 DEF ZeroFrame, StartFrame, ExitFrame, SendCommand, ReadReply, ReadJoint, ReadUnknown
  <2>2. component \notin {"unconfigured", "inactive", "active"} =>
          component' \notin {"unconfigured", "inactive", "active"}
    BY <1>4 DEF ZeroFrame, StartFrame, ExitFrame, SendCommand, ReadReply, ReadJoint, ReadUnknown, HTypes, CallInv
  <2> QED
    BY <1>1, <2>1, <2>2
<1>5. CASE Prepare
  BY <1>5 DEF Prepare, HTypes, SwitchTypes, Joints
<1>6. CASE ResetJoint
  BY <1>6 DEF ResetJoint, Elsewhere, Joints
<1>7. CASE AssignMode
  <2>1. mode' = [mode EXCEPT ![switching.at] = NewMode(switching.at)]
        /\ mode \in [Joints -> Modes] /\ switching.at \in Joints
    BY <1>7 DEF AssignMode, HTypes, DataTypes, SwitchTypes
  <2>2. switching'.start = switching.start /\ component' = component
    BY <1>7 DEF AssignMode, Elsewhere, HTypes, SwitchTypes, Switches
  <2>3. \A j : NewMode(j)' = NewMode(j)
    BY <2>2 DEF NewMode
  <2>4. \A j \in Joints : mode'[j] = IF j = switching.at THEN NewMode(j) ELSE mode[j]
    BY <2>1
  <2>5. \/ /\ switching'.stage = "modes" /\ switching'.at = switching.at + 1
        \/ switching'.stage = "prepared" /\ switching.at = NumJoints
    BY <1>7, <2>1, PluginAssumption DEF AssignMode, Joints, HTypes, SwitchTypes, Switches
  <2>6. ASSUME component \in {"unconfigured", "inactive", "active"},
               NEW j \in Joints, j < switching.at + 1
        PROVE  mode'[j] = NewMode(j)
    <3>1. j = switching.at \/ j < switching.at
      BY <2>1, <2>6 DEF Joints
    <3> QED
      BY <1>7, <2>4, <2>6, <3>1 DEF AssignMode
  <2> QED
    BY <2>1, <2>2, <2>3, <2>5, <2>6 DEF Joints
<1>8. CASE Abandon
  BY <1>8 DEF Abandon, Elsewhere, NoSwitch
<1>9. CASE PerformSwitch
  BY <1>9, NewModeClaimed DEF PerformSwitch, NoSwitch, JointsOf, ClaimsOf
<1> QED
  BY <1>2, <1>3, <1>4, <1>5, <1>6, <1>7, <1>8, <1>9 DEF HNext

LEMMA ModeInvariant == HSpec => []ModeInv
BY ModeInit, ModeStep, HTypesInvariant, PTL DEF HSpec

\* After a switch no joint keeps the mode, and with it the gains, of a
\* controller that is gone.
THEOREM ModesAreClaimed == HSpec => []ModeIsClaimed
<1>1. ModeInv => ModeIsClaimed
  BY DEF ModeInv, ModeIsClaimed, NoSwitch
<1> QED
  BY <1>1, ModeInvariant, PTL

LEMMA StopInit == HInit => StopInv
BY DEF HInit, StopInv, NoSwitch, AtRest

LEMMA StopStep ==
  ASSUME HTypes, StopInv, [HNext]_hwvars
  PROVE  StopInv'
<1> USE DEF StopInv, Reset
<1>1. CASE /\ UNCHANGED <<commandVars, running, switching>>
           /\ component \notin {"inactive", "active"} =>
                component' \notin {"inactive", "active"}
  BY <1>1 DEF commandVars, AtRest
<1>2. CASE Fail
  BY <1>2 DEF Fail
<1>3. ASSUME \/ ForeignFrame \/ ConfigureFails \/ Cleanup \/ ExitHangs
             \/ Activate \/ StartWrite \/ Deactivate \/ Destroy
             \/ UNCHANGED hwvars
      PROVE  StopInv'
  <2>1. UNCHANGED <<commandVars, running, switching>>
    BY <1>3 DEF ForeignFrame, ConfigureFails, Cleanup, ExitHangs, Activate,
       StartWrite, Deactivate, Destroy, BeginExit, hwvars, switchVars
  <2>2. component \notin {"inactive", "active"} => component' \notin {"inactive", "active"}
    BY <1>3 DEF ForeignFrame, ConfigureFails, Cleanup, ExitHangs, Activate,
       StartWrite, Deactivate, Destroy, BeginExit, hwvars, switchVars
  <2> QED
    BY <1>1, <2>1, <2>2
<1>4. ASSUME ZeroFrame \/ StartFrame \/ ExitFrame \/ SendCommand \/ ReadReply, ~Fail
      PROVE  StopInv'
  <2>1. UNCHANGED <<commandVars, running, switching>>
    BY <1>4 DEF ZeroFrame, StartFrame, ExitFrame, SendCommand, ReadReply, ReadJoint, ReadUnknown
  <2>2. component \notin {"inactive", "active"} => component' \notin {"inactive", "active"}
    BY <1>4 DEF ZeroFrame, StartFrame, ExitFrame, SendCommand, ReadReply, ReadJoint, ReadUnknown, HTypes, CallInv
  <2> QED
    BY <1>1, <2>1, <2>2
<1>5. CASE Configure
  <2>1. CASE component' = "inactive"
    <3>1. effort' = Initial /\ untouched' = {j \in Joints : Initial[j] # 0}
      BY <1>5, <2>1 DEF Configure
    <3>2. \A j \in Joints : AtRest(j)'
      BY <3>1 DEF AtRest
    <3> QED
      BY <3>2
  <2> QED
    BY <1>5, <2>1 DEF Configure
<1>6. CASE Update
  <2>1. PICK c \in running, e \in Efforts : Update!2!(c, e)
    BY <1>6 DEF Update
  <2> DEFINE J == {j \in Joints : <<j, "effort">> \in Claims[c]}
  <2>2. /\ effort' = [j \in Joints |-> IF j \in J THEN e ELSE effort[j]]
        /\ overtaken' = IF c \in switching.stop THEN overtaken \cup J ELSE overtaken
        /\ untouched' = untouched \ J
    BY <2>1
  <2>3. \A C : c \in C => \A j \in J : <<j, "effort">> \in ClaimsOf(C)
    BY DEF ClaimsOf
  <2>4. J \subseteq Joints
    OBVIOUS
  <2>5. component = "active" /\ UNCHANGED <<component, running, switching>>
    BY <1>6 DEF Update, switchVars
  <2> HIDE DEF J
  <2>6. ASSUME NEW j \in Joints \ overtaken', j \in J
        PROVE  <<j, "effort">> \in ClaimsOf(running) /\ <<j, "effort">> \in ClaimsOf(running \ switching.stop)
    BY <2>2, <2>3, <2>6
  <2>7. ASSUME NEW j \in Joints \ overtaken', j \notin J
        PROVE  j \notin overtaken /\ (AtRest(j)' <=> AtRest(j))
    BY <2>2, <2>7 DEF AtRest
  <2>8. ASSUME NEW j \in Joints \ overtaken', <<j, "effort">> \notin ClaimsOf(running)
        PROVE  AtRest(j)'
    BY <2>5, <2>6, <2>7, <2>8
  <2>9. ASSUME NEW j \in (Joints \cap Reset) \ overtaken',
               switching.stage \in {"reset", "modes", "prepared"},
               <<j, "effort">> \notin ClaimsOf(running \ switching.stop)
        PROVE  AtRest(j)'
    BY <2>5, <2>6, <2>7, <2>9
  <2> QED
    BY <2>5, <2>8, <2>9
<1>7. CASE Prepare
  <2>1. UNCHANGED <<component, running, effort, overtaken, untouched>>
    BY <1>7 DEF Prepare, commandVars
  <2>2. switching'.stage \in {"refused", "reset"} /\ switching'.at = 1
    BY <1>7 DEF Prepare
  <2>3. \A j : AtRest(j)' <=> AtRest(j)
    BY <2>1 DEF AtRest
  <2> QED
    BY <2>1, <2>2, <2>3 DEF Joints
<1>v. component \in {"inactive", "active"} =>
        \A j \in Joints \ overtaken :
          <<j, "effort">> \notin ClaimsOf(running) => AtRest(j)
  OBVIOUS
<1>w. component \in {"inactive", "active"} =>
        (switching.stage \in {"reset", "modes", "prepared"} =>
           \A j \in (Joints \cap Reset) \ overtaken :
             <<j, "effort">> \notin ClaimsOf(running \ switching.stop) => AtRest(j))
  OBVIOUS
<1>8. CASE ResetJoint
  <2> DEFINE R == UNION {NamedIn[k] : k \in JointsOf(switching.stop)}
  <2>1. /\ effort' = IF switching.at \in R THEN [effort EXCEPT ![switching.at] = 0] ELSE effort
        /\ overtaken' = IF switching.at \in R THEN overtaken \ {switching.at} ELSE overtaken
        /\ untouched' = IF switching.at \in R THEN untouched \ {switching.at} ELSE untouched
        /\ switching.stage = "reset" /\ UNCHANGED <<component, running>>
    BY <1>8 DEF ResetJoint, Elsewhere
  <2>2. switching.at \in Joints /\ switching'.stop = switching.stop
    BY <1>8 DEF ResetJoint, HTypes, SwitchTypes, Switches
  <2>3. \/ switching'.stage = "reset" /\ switching'.at = switching.at + 1
        \/ switching'.stage = "modes" /\ switching.at = NumJoints
    BY <1>8, <2>2, PluginAssumption DEF ResetJoint, Joints, HTypes, SwitchTypes, Switches
  <2>4. DOMAIN effort = Joints
    BY DEF HTypes, DataTypes
  <2>5. ASSUME NEW j \in Joints \ overtaken', j # switching.at \/ j \notin R
        PROVE  j \notin overtaken /\ (AtRest(j)' <=> AtRest(j))
    BY <2>1, <2>4, <2>5 DEF AtRest
  <2>6. ASSUME NEW j \in Joints, j = switching.at, j \in R
        PROVE  AtRest(j)'
    <3>1. effort'[j] = 0 /\ j \notin untouched'
      BY <2>1, <2>4, <2>6
    <3> QED
      BY <3>1 DEF AtRest
  <2>7. \A j \in Joints : (switching'.stage = "reset" => j < switching'.at) =>
          j = switching.at \/ j < switching.at
    BY <2>2, <2>3 DEF Joints
  <2>8. ASSUME component \in {"inactive", "active"}, NEW j \in Joints \ overtaken'
        PROVE  <<j, "effort">> \notin ClaimsOf(running) => AtRest(j)'
    BY <1>v, <2>2, <2>5, <2>6, <2>8
  <2>9. ASSUME component \in {"inactive", "active"}, NEW j \in Joints \ overtaken', j \in R,
               switching'.stage = "reset" => j < switching'.at
        PROVE  <<j, "effort">> \notin ClaimsOf(running \ switching.stop) => AtRest(j)'
    BY <1>w, <2>1, <2>5, <2>6, <2>7, <2>9
  <2> QED
    BY <2>1, <2>2, <2>8, <2>9
<1>9. CASE AssignMode
  <2>1. UNCHANGED <<component, running, effort, overtaken, untouched>> /\ switching.stage = "modes"
    BY <1>9 DEF AssignMode, Elsewhere, commandVars
  <2>2. switching'.stop = switching.stop /\ switching'.stage \in {"modes", "prepared"}
    BY <1>9 DEF AssignMode, HTypes, SwitchTypes, Switches
  <2>3. \A j : AtRest(j)' <=> AtRest(j)
    BY <2>1 DEF AtRest
  <2> QED
    BY <2>1, <2>2, <2>3
<1>10. CASE Abandon
  <2>1. \A j : AtRest(j)' <=> AtRest(j)
    BY <1>10 DEF Abandon, commandVars, AtRest
  <2> QED
    BY <1>10, <2>1 DEF Abandon, Elsewhere, NoSwitch, commandVars
<1>11. CASE PerformSwitch
  <2>1. /\ switching.stage = "prepared" /\ switching' = NoSwitch
        /\ running' = (running \ switching.stop) \cup switching.start
        /\ UNCHANGED <<component, effort, overtaken, untouched>>
    BY <1>11 DEF PerformSwitch, commandVars
  <2>2. ASSUME component \in {"inactive", "active"}, NEW j \in Joints \ overtaken,
               <<j, "effort">> \notin ClaimsOf(running')
        PROVE  AtRest(j)
    <3>1. <<j, "effort">> \notin ClaimsOf(running \ switching.stop)
      BY <2>1, <2>2 DEF ClaimsOf
    <3>2. CASE <<j, "effort">> \notin ClaimsOf(running)
      BY <2>2, <3>2
    <3>3. CASE <<j, "effort">> \in ClaimsOf(running)
      <4>1. <<j, "effort">> \in ClaimsOf(switching.stop)
        BY <3>1, <3>3 DEF ClaimsOf
      <4>2. <<j, "effort">>[1] = j
        OBVIOUS
      <4>3. j \in JointsOf(switching.stop)
        BY <4>1, <4>2 DEF JointsOf
      <4>4. j \in Reset
        BY <2>1, <4>3, PluginAssumption
      <4> QED
        BY <2>1, <2>2, <3>1, <4>4
    <3> QED
      BY <3>2, <3>3
  <2>3. switching'.stage = "none"
    BY <2>1 DEF NoSwitch
  <2>4. \A j : AtRest(j)' <=> AtRest(j)
    BY <2>1 DEF AtRest
  <2> QED
    BY <2>1, <2>2, <2>3, <2>4
<1> QED
  BY <1>2, <1>3, <1>4, <1>5, <1>6, <1>7, <1>8, <1>9, <1>10, <1>11 DEF HNext

LEMMA StopInvariant == HSpec => []StopInv
BY StopInit, StopStep, HTypesInvariant, PTL DEF HSpec

\* A joint without a controller gets no torque, in whatever mode it is, unless
\* a stopped controller commanded it once more after the reset or it still has
\* the initial effort of its configuration, which no controller has replaced.
THEOREM StoppedJointsAreLimp == HSpec => []StoppedEffortIsZero
<1>1. StopInv => StoppedEffortIsZero
  BY DEF StopInv, StoppedEffortIsZero, AtRest
<1> QED
  BY <1>1, StopInvariant, PTL

-----------------------------------------------------------------------------
(* The direction of the torque                                              *)

LEMMA Division ==
  ASSUME NEW a \in Nat, NEW b \in Nat \ {0}
  PROVE  a \div b \in Nat /\ (a \div b) * b <= a /\ a < (a \div b) * b + b
OBVIOUS

\* A torque of 12 bits survives the frame, whatever gain shares its byte.
LEMMA TorqueSurvives ==
  ASSUME NEW n, n.kd \in Int, n.t \in Nat, n.t < 4096
  PROVE  ReadV2(PackV2(n)).t = n.t
<1>1. PICK t \in Nat : t = n.t /\ t < 4096
  OBVIOUS
<1>2. PICK h \in 0 .. 15 : h = n.kd % 16
  OBVIOUS
<1>3. PICK l \in 0 .. 15 : l = t \div 256 /\ t = l * 256 + (t % 256)
  BY <1>1
<1>4. PackV2(n)[7] = Byte(Joined(h, l)) /\ PackV2(n)[8] = Byte(t)
  BY <1>1, <1>2, <1>3 DEF PackV2
<1>5. Joined(h, l) = 16 * h + l
  BY DEF Joined
<1>6. Byte(Joined(h, l)) % 16 = l
  BY <1>5 DEF Byte
<1> QED
  BY <1>1, <1>3, <1>4, <1>6 DEF ReadV2, Byte

\* A value below the upper end of its range keeps its sign through a number of
\* 12 bits, with the one step that the plugin and the motor differ by.
LEMMA ScaledSign ==
  ASSUME NEW lo \in Int, -4096 < lo, lo < 0, NEW hi \in Int, 0 < hi, hi < 4096,
         NEW c \in lo .. (hi - 1), NEW n, n = ((c - lo) * 4096) \div (hi - lo)
  PROVE  /\ n \in Nat /\ n < 4096
         /\ c > 0 => n * (hi - lo) + lo * 4095 > 0
         /\ c < 0 => n * (hi - lo) + lo * 4095 < 0
<1> DEFINE a == (c - lo) * 4096
           s == hi - lo
<1>1. a \in Nat /\ s \in Nat \ {0} /\ a <= 4096 * s - 4096 /\ n = a \div s
  OBVIOUS
<1> HIDE DEF a, s
<1>2. n \in Nat /\ n * s <= a /\ a < n * s + s
  BY <1>1, Division
<1>3. n < 4096
  <2>1. SUFFICES ASSUME n >= 4096 PROVE FALSE
    BY <1>2
  <2>2. n * s >= 4096 * s
    <3> DEFINE k == n - 4096
    <3>1. k \in Nat /\ n = 4096 + k
      BY <1>2, <2>1
    <3> HIDE DEF k
    <3>2. (4096 + k) * s = 4096 * s + k * s /\ k * s \in Nat
      BY <1>1, <3>1
    <3>3. n * s = 4096 * s + k * s
      BY <3>1, <3>2
    <3> QED
      BY <1>1, <3>2, <3>3
  <2> QED
    BY <1>1, <1>2, <2>2
<1>4. n * s \in Int
  BY <1>1, <1>2
<1>5. c > 0 => n * s + lo * 4095 > 0
  <2> DEFINE m == n * s
  <2> HIDE DEF m
  <2> QED
    BY <1>2, <1>4 DEF a, s, m
<1>6. c < 0 => n * s + lo * 4095 < 0
  <2> DEFINE m == n * s
  <2> HIDE DEF m
  <2> QED
    BY <1>2, <1>4 DEF a, s, m
<1> QED
  BY <1>2, <1>3, <1>5, <1>6 DEF s

\* The range of a torque that spans both directions.
Range12(r) ==
  r \in [lo : Int, hi : Int] /\ -4096 < r.lo /\ r.lo < 0 /\ 0 < r.hi /\ r.hi < 4096

LEMMA TorqueRange == Range12(Limits.t)
BY RangeAssumption DEF Fields, Range12

LEMMA ClampBelow ==
  ASSUME NEW r, Range12(r), NEW e \in Int, e < r.hi
  PROVE  /\ Clamp(e, r) \in r.lo .. (r.hi - 1)
         /\ e > 0 => Clamp(e, r) > 0
         /\ e < 0 => Clamp(e, r) < 0
BY DEF Clamp, Range12

\* What the motor reads has the sign of an effort below its maximum.
LEMMA TorqueSign ==
  ASSUME NEW r, Range12(r), NEW e \in Int, e < r.hi,
         NEW n, n = PluginFloatToUint(e, r, 4096)
  PROVE  /\ n \in Nat /\ n < 4096
         /\ e > 0 => SignOfUint(n, r, 4096) = 1
         /\ e < 0 => SignOfUint(n, r, 4096) = -1
<1>1. PICK lo \in Int, hi \in Int : lo = r.lo /\ hi = r.hi
  BY DEF Range12
<1>2. PICK c \in lo .. (hi - 1) :
        c = Clamp(e, r) /\ (e > 0 => c > 0) /\ (e < 0 => c < 0)
  BY <1>1, ClampBelow
<1>3. PICK m : m = ((c - lo) * 4096) \div (hi - lo)
  OBVIOUS
<1>4. n = m % 65536
  BY <1>1, <1>2, <1>3 DEF PluginFloatToUint
<1>5. /\ m \in Nat /\ m < 4096
      /\ c > 0 => m * (hi - lo) + lo * 4095 > 0
      /\ c < 0 => m * (hi - lo) + lo * 4095 < 0
  BY <1>1, <1>3, ScaledSign DEF Range12
<1>6. n = m
  BY <1>4, <1>5
<1>7. PICK y \in Int : y = n * (hi - lo) + lo * 4095
  BY <1>5, <1>6
<1>8. SignOfUint(n, r, 4096) = IF y < 0 THEN -1 ELSE IF y > 0 THEN 1 ELSE 0
  BY <1>1, <1>7 DEF SignOfUint
<1> QED
  BY <1>2, <1>5, <1>6, <1>7, <1>8

\* The effort a joint's motor is sent, in the direction of the motor.
MotorEffort(j) == IF j \in Invert THEN -effort[j] ELSE effort[j]

LEMMA FrameSign ==
  ASSUME HTypes, NEW j \in Joints, MotorEffort(j) < Limits.t.hi
  PROVE  /\ effort[j] > 0 => SignRead(j) > 0
         /\ effort[j] < 0 => SignRead(j) < 0
<1>1. effort[j] \in Int /\ MotorEffort(j) \in Int /\ mode[j] \in Modes
  <2>1. effort[j] \in AllEfforts /\ mode[j] \in Modes
    BY DEF HTypes, DataTypes
  <2>2. AllEfforts \subseteq Int
    BY EffortTypes
  <2>3. effort[j] \in Int
    BY <2>1, <2>2
  <2> QED
    BY <2>1, <2>3 DEF MotorEffort
<1>2. Others[mode[j]] \in [Fields -> Int]
  BY <1>1, OthersAssumption
<1>3. PICK c \in [Fields -> Int] : c = [Others[mode[j]] EXCEPT !.t = MotorEffort(j)]
  BY <1>1, <1>2 DEF Fields
<1>4. PICK n : n = [f \in Fields |-> PluginFloatToUint(c[f], Limits[f], Steps(f))]
  OBVIOUS
<1>5. Frame(j) = PackV2(n)
  BY <1>3, <1>4 DEF Frame, MotorEffort
<1>6. n.t = PluginFloatToUint(MotorEffort(j), Limits.t, 4096)
  BY <1>1, <1>2, <1>3, <1>4 DEF Fields, Steps
<1>7. n.kd \in Int
  <2>1. n.kd = PluginFloatToUint(c.kd, Limits.kd, 4096)
    BY <1>4 DEF Fields, Steps
  <2>2. PICK x \in Int, lo \in Int, hi \in Int : x = c.kd /\ lo = Limits.kd.lo /\ hi = Limits.kd.hi /\ lo < hi
    BY RangeAssumption DEF Fields
  <2>3. PICK d \in lo .. hi : d = Clamp(x, Limits.kd)
    BY <2>2 DEF Clamp
  <2>4. ((d - lo) * 4096) \div (hi - lo) \in Nat
    <3>1. (d - lo) * 4096 \in Nat /\ hi - lo \in Nat \ {0}
      BY <2>2
    <3> QED
      BY <3>1, Division
  <2>5. n.kd = (((d - lo) * 4096) \div (hi - lo)) % 65536
    BY <2>1, <2>2, <2>3 DEF PluginFloatToUint
  <2> QED
    BY <2>4, <2>5
<1>8. n.t \in Nat /\ n.t < 4096
  BY <1>1, <1>6, TorqueRange, TorqueSign
<1>9. PICK s : s = SignOfUint(n.t, Limits.t, 4096)
  OBVIOUS
<1>10. /\ MotorEffort(j) > 0 => s = 1
       /\ MotorEffort(j) < 0 => s = -1
  BY <1>1, <1>6, <1>9, TorqueRange, TorqueSign
<1>11. SignRead(j) = IF j \in Invert THEN -s ELSE s
  BY <1>5, <1>7, <1>8, <1>9, TorqueSurvives DEF SignRead, Steps
<1> QED
  BY <1>1, <1>10, <1>11 DEF MotorEffort

LEMMA DirectionInit == HInit => DirectionKept
<1>1. ASSUME HInit, NEW j \in Joints
      PROVE  SameDirection(executes[j])
  BY <1>1 DEF HInit, Nothing, SameDirection
<1> QED
  BY <1>1 DEF DirectionKept

LEMMA DirectionStep ==
  ASSUME HTypes, DirectionKept, [HNext]_hwvars
  PROVE  DirectionKept'
<1>1. CASE executes' = executes
  BY <1>1 DEF DirectionKept, SameDirection
<1>2. CASE SendCommand /\ executes' # executes
  <2> DEFINE k == WriteOrder[call.at]
  <2>1. executes' = [executes EXCEPT ![k] = [asked |-> effort[k], sign |-> SignRead(k)]]
    BY <1>2 DEF SendCommand
  <2> SUFFICES ASSUME NEW j \in Joints,
                      (IF j \in Invert THEN -executes'[j].asked ELSE executes'[j].asked)
                        < Limits.t.hi
               PROVE  SameDirection(executes'[j])
    BY DEF DirectionKept
  <2> HIDE DEF k
  <2>2. DOMAIN executes = Joints
    BY DEF HTypes, DataTypes
  <2>3. CASE j # k
    BY <2>1, <2>2, <2>3 DEF DirectionKept
  <2>4. CASE j = k
    <3>1. executes'[j] = [asked |-> effort[j], sign |-> SignRead(j)]
      BY <2>1, <2>2, <2>4
    <3>2. MotorEffort(j) < Limits.t.hi
      BY <3>1 DEF MotorEffort
    <3> QED
      BY <3>1, <3>2, FrameSign DEF SameDirection
  <2> QED
    BY <2>3, <2>4
<1>3. ASSUME [HNext]_hwvars, ~SendCommand
      PROVE  executes' = executes
  <2>1. CASE \/ ForeignFrame
             \/ Configure \/ ConfigureFails \/ Cleanup \/ ExitHangs \/ Update
             \/ Activate \/ StartWrite \/ Deactivate \/ Destroy
             \/ UNCHANGED hwvars
    BY <2>1 DEF ForeignFrame, Configure, ConfigureFails, Cleanup, ExitHangs, Update, Activate,
       StartWrite, Deactivate, Destroy, BeginExit, hwvars, busVars
  <2>2. CASE ZeroFrame \/ StartFrame \/ ExitFrame \/ ReadReply
    BY <2>2 DEF ZeroFrame, StartFrame, ExitFrame, ReadReply
  <2>3. CASE Prepare \/ ResetJoint \/ AssignMode \/ Abandon \/ PerformSwitch
    BY <2>3 DEF Prepare, ResetJoint, AssignMode, Abandon, PerformSwitch, Elsewhere, busVars
  <2> QED
    BY <1>3, <2>1, <2>2, <2>3 DEF HNext
<1> QED
  BY <1>1, <1>2, <1>3

\* The torque of a motor has the direction asked for, also beyond the limits and
\* with the joint inverted, as long as the motor's maximum is not reached.
THEOREM TorqueKeepsDirection == HSpec => []DirectionKept
BY DirectionInit, DirectionStep, HTypesInvariant, PTL DEF HSpec

-----------------------------------------------------------------------------
(* The frames of the node                                                   *)

\* The node's number of a value, in its limits or not, has the bits it is
\* given: the steps of its range are one less than those of the plugin.
LEMMA NodeNumberFits ==
  ASSUME NEW x \in Int, NEW r \in [lo : Int, hi : Int], r.lo < r.hi,
         NEW steps \in Nat \ {0}
  PROVE  /\ NodeFloatToUint(x, r, steps) \in Nat
         /\ NodeFloatToUint(x, r, steps) < steps
<1>1. PICK lo \in Int, hi \in Int : lo = r.lo /\ hi = r.hi /\ lo < hi
  OBVIOUS
<1>2. PICK c \in lo .. hi : c = Clamp(x, r)
  BY <1>1 DEF Clamp
<1>3. PICK a \in Nat, s \in Nat \ {0}, k \in Nat :
        a = c - lo /\ s = hi - lo /\ k = steps - 1 /\ a <= s
  BY <1>1, <1>2
<1>4. PICK n : n = (a * k) \div s
  OBVIOUS
<1>5. NodeFloatToUint(x, r, steps) = n
  BY <1>1, <1>2, <1>3, <1>4 DEF NodeFloatToUint
<1>6. n \in Nat /\ n * s <= a * k /\ a * k <= s * k
  <2>1. a * k \in Nat
    BY <1>3
  <2>2. n \in Nat /\ n * s <= a * k
    BY <1>3, <1>4, <2>1, Division
  <2>3. a * k <= s * k
    <3>1. PICK d \in Nat : s = a + d
      BY <1>3
    <3>2. (a + d) * k = a * k + d * k /\ d * k \in Nat
      BY <1>3
    <3> QED
      BY <1>3, <2>1, <3>1, <3>2
  <2> QED
    BY <2>2, <2>3
<1>7. n <= k
  <2>1. SUFFICES ASSUME n > k PROVE FALSE
    BY <1>3, <1>6
  <2>2. PICK d \in Nat : n = k + 1 + d
    <3>1. n - (k + 1) \in Nat /\ n = k + 1 + (n - (k + 1))
      BY <1>3, <1>6, <2>1
    <3> QED
      BY <3>1
  <2>3. (k + 1 + d) * s = s * k + s + d * s /\ d * s \in Nat /\ s * k \in Nat
    BY <1>3
  <2>4. n * s = s * k + s + d * s
    BY <2>2, <2>3
  <2>5. a * k \in Nat
    BY <1>3
  <2> QED
    BY <1>3, <1>6, <2>3, <2>4, <2>5
<1> QED
  BY <1>3, <1>5, <1>6, <1>7

\* A number of 16 bits in two bytes, one of 12 bits in a byte and a nibble in
\* front of it or behind, and two nibbles in one byte.
LEMMA TwoBytes ==
  ASSUME NEW n \in Nat, n < 65536
  PROVE  Byte(n \div 256) * 256 + Byte(n) = n
BY DEF Byte

LEMMA Nibbles ==
  ASSUME NEW v \in Nat, v < 4096, NEW k \in Nat, k < 4096
  PROVE  /\ Byte(v \div 16) * 16 + Byte(Joined(v % 16, k \div 256)) \div 16 = v
         /\ (Byte(Joined(v % 16, k \div 256)) % 16) * 256 + Byte(k) = k
<1>1. PICK a \in Nat, h \in 0 .. 15 : a = v \div 16 /\ h = v % 16 /\ v = a * 16 + h /\ a < 256
  OBVIOUS
<1>2. PICK l \in 0 .. 15, b \in 0 .. 255 : l = k \div 256 /\ b = k % 256 /\ k = l * 256 + b
  OBVIOUS
<1>3. Joined(h, l) = 16 * h + l
  BY DEF Joined
<1>4. Byte(16 * h + l) = 16 * h + l /\ (16 * h + l) \div 16 = h /\ (16 * h + l) % 16 = l
  BY DEF Byte
<1>5. Byte(v \div 16) = a /\ Byte(k) = b
  BY <1>1, <1>2 DEF Byte
<1> QED
  BY <1>1, <1>2, <1>3, <1>4, <1>5

\* Any command reaches a motor of either kind as the node computed it, for all
\* limits of a motor: out of its limits, at its maximum, or with every bit of
\* a neighbour in the same byte set.
THEOREM NodeFramesReachMotors ==
  ASSUME NEW C \in SUBSET [Fields -> Int],
         NEW r \in [Fields -> [lo : Int, hi : Int]],
         \A f \in Fields : r[f].lo < r[f].hi
  PROVE  NodeFramesAreExact(C, r)
<1> SUFFICES ASSUME NEW c \in C
             PROVE  LET n == NodeNumbers(c, r)
                    IN  ReadV2(PackV2(n)) = n /\ ReadV3(PackV3(n)) = n
  BY DEF NodeFramesAreExact
<1>1. PICK n : n = NodeNumbers(c, r)
  OBVIOUS
<1>2. /\ n.p \in Nat /\ n.v \in Nat /\ n.kp \in Nat /\ n.kd \in Nat /\ n.t \in Nat
      /\ n.p < 65536 /\ n.v < 4096 /\ n.kp < 4096 /\ n.kd < 4096 /\ n.t < 4096
  <2>1. ASSUME NEW f \in Fields
        PROVE  n[f] \in Nat /\ n[f] < Steps(f)
    <3>1. n[f] = NodeFloatToUint(c[f], r[f], Steps(f))
      BY <1>1 DEF NodeNumbers
    <3>2. c[f] \in Int /\ Steps(f) \in Nat \ {0}
      BY DEF Steps
    <3>3. r[f] \in [lo : Int, hi : Int] /\ r[f].lo < r[f].hi
      OBVIOUS
    <3> QED
      BY <3>1, <3>2, <3>3, NodeNumberFits
  <2>2. /\ n["p"] \in Nat /\ n["p"] < Steps("p")
        /\ \A f \in {"v", "kp", "kd", "t"} : n[f] \in Nat /\ n[f] < Steps(f)
    BY <2>1 DEF Fields
  <2>3. Steps("p") = 65536 /\ \A f \in {"v", "kp", "kd", "t"} : Steps(f) = 4096
    BY DEF Steps
  <2> QED
    BY <2>2, <2>3
<1>3. n = [p |-> n.p, v |-> n.v, kp |-> n.kp, kd |-> n.kd, t |-> n.t]
  BY <1>1 DEF NodeNumbers, Fields
<1>4. PICK p \in Nat, v \in Nat, kp \in Nat, kd \in Nat, t \in Nat :
        /\ p = n.p /\ v = n.v /\ kp = n.kp /\ kd = n.kd /\ t = n.t
        /\ p < 65536 /\ v < 4096 /\ kp < 4096 /\ kd < 4096 /\ t < 4096
  BY <1>2
<1>5. ReadV2(PackV2(n)) = n
  <2>1. ReadV2(PackV2(n)) =
          [p |-> Byte(p \div 256) * 256 + Byte(p),
           v |-> Byte(v \div 16) * 16 + Byte(Joined(v % 16, kp \div 256)) \div 16,
           kp |-> (Byte(Joined(v % 16, kp \div 256)) % 16) * 256 + Byte(kp),
           kd |-> Byte(kd \div 16) * 16 + Byte(Joined(kd % 16, t \div 256)) \div 16,
           t |-> (Byte(Joined(kd % 16, t \div 256)) % 16) * 256 + Byte(t)]
    BY <1>4 DEF ReadV2, PackV2
  <2> QED
    BY <1>3, <1>4, <2>1, TwoBytes, Nibbles
<1>6. ReadV3(PackV3(n)) = n
  <2>1. ReadV3(PackV3(n)) =
          [p |-> Byte(p \div 256) * 256 + Byte(p),
           v |-> Byte(v \div 16) * 16 + Byte(Joined(v % 16, t \div 256)) \div 16,
           kp |-> Byte(kp \div 16) * 16 + Byte(Joined(kp % 16, kd \div 256)) \div 16,
           kd |-> (Byte(Joined(kp % 16, kd \div 256)) % 16) * 256 + Byte(kd),
           t |-> (Byte(Joined(v % 16, t \div 256)) % 16) * 256 + Byte(t)]
    BY <1>4 DEF ReadV3, PackV3
  <2> QED
    BY <1>3, <1>4, <2>1, TwoBytes, Nibbles
<1> QED
  BY <1>1, <1>5, <1>6
=============================================================================
