-------------------------- MODULE JointDataProofs ---------------------------
(***************************************************************************)
(* Proofs about the data of the cycles, for every set of interfaces and    *)
(* every distribution of joints over them: parameter updates are atomic,   *)
(* and the published stamp is conservative and never goes back.            *)
(***************************************************************************)
EXTENDS JointData, WellFoundedInduction, TLAPS

\* Types of everything a step reads.
DataTypes ==
  /\ pc \in [Ifaces -> {"idle", "cycle", "received", "processed", "writing"}]
  /\ running \in [Ifaces -> BOOLEAN]
  /\ fresh \subseteq Joints /\ now \in 0 .. MaxTime
  /\ state \in [Joints -> [at : 0 .. MaxTime, scaled : 0 .. MaxScaled]]
  /\ msg \in [Joints -> [at : 0 .. MaxTime, scaled : 0 .. MaxScaled]]
  /\ rx \in [Joints -> 0 .. MaxTime]
  /\ exec \in {"idle", "locking", "applying", "calibrating"}

ParamTypes ==
  /\ limits \in [Joints -> [Fields -> Values]]
  /\ before \in [Joints -> [Fields -> Values]]
  /\ DOMAIN batch \subseteq Tuned \X Fields
  /\ \A x \in DOMAIN batch : batch[x] \in Values

\* Every joint whose limits differ from the earlier ones has them in order.
Improves(L, earlier) == \A j \in Joints : L[j] = earlier[j] \/ InOrder(L[j])

\* While the executor applies an update no cycle is under way, and what it has
\* applied together with what is left puts in order the limits it changes.
LockInv ==
  /\ exec = "applying" => CanWrite
  /\ exec # "applying" => before = limits
  /\ exec \in {"locking", "applying"} => Improves(Effective(batch), before)

-----------------------------------------------------------------------------
(* Types                                                                    *)

LEMMA ParamInit == JInit => DataTypes /\ ParamTypes /\ LockInv
<1> SUFFICES ASSUME JInit PROVE DataTypes /\ ParamTypes /\ LockInv
  OBVIOUS
<1>1. DataTypes
  BY DataAssumption DEF JInit, DataTypes, Unread
<1>2. ParamTypes
  BY DataAssumption DEF JInit, ParamTypes, Fields
<1>3. LockInv
  BY DEF JInit, LockInv
<1> QED
  BY <1>1, <1>2, <1>3

LEMMA ParamTypesStep ==
  ASSUME ParamTypes, [JNext]_jvars
  PROVE  ParamTypes'
<1> USE DEF ParamTypes, paramVars
<1>1. CASE \E i \in Ifaces : EnterCycle(i) \/ CycleStep(i)
  <2>1. UNCHANGED paramVars
    BY <1>1 DEF EnterCycle, CycleStep, ExchangeFails, Exchange, Process,
                BeginWriteBack, WriteBack
  <2> QED
    BY <2>1
<1>2. CASE Publish \/ Pause \/ Resume
  BY <1>2 DEF Publish, Pause, Resume
<1>3. CASE SetParameters
  BY <1>3 DEF SetParameters
<1>4. CASE LockParameters
  BY <1>4 DEF LockParameters
<1>5. CASE ApplyField
  BY <1>5, DataAssumption DEF ApplyField, Fields
<1>6. CASE UnlockParameters
  BY <1>6 DEF UnlockParameters
<1>7. CASE UNCHANGED jvars
  BY <1>7 DEF jvars
<1> QED
  BY <1>1, <1>2, <1>3, <1>4, <1>5, <1>6, <1>7 DEF JNext, UpdateStep

LEMMA DataTypesStep ==
  ASSUME DataTypes, [JNext]_jvars
  PROVE  DataTypes'
<1> USE DataAssumption
    DEF DataTypes, threadVars, sampleVars, dataVars, To, Return
<1>1. ASSUME NEW i \in Ifaces, EnterCycle(i)
      PROVE  DataTypes'
  BY <1>1 DEF EnterCycle
<1>2. ASSUME NEW i \in Ifaces, ExchangeFails(i)
      PROVE  DataTypes'
  BY <1>2 DEF ExchangeFails
<1>3. ASSUME NEW i \in Ifaces, Exchange(i)
      PROVE  DataTypes'
  <2>1. now' \in 0 .. MaxTime
    BY <1>3 DEF Exchange
  <2>2. PICK R \in SUBSET Of(i) : \E F \in SUBSET R :
          /\ \/ To(i, "received") /\ fresh' = fresh \cup F
             \/ F # Of(i) /\ Return(i)
          /\ state' = [j \in Joints |->
                         IF j \in R THEN [at |-> now', scaled |-> 0] ELSE state[j]]
    BY <1>3 DEF Exchange
  <2>3. state' \in [Joints -> [at : 0 .. MaxTime, scaled : 0 .. MaxScaled]]
    BY <2>1, <2>2
  <2>4. fresh' \subseteq Joints
    BY <2>2 DEF Of
  <2> QED
    BY <1>3, <2>1, <2>2, <2>3, <2>4 DEF Exchange
<1>4. ASSUME NEW i \in Ifaces, Process(i)
      PROVE  DataTypes'
  <2> DEFINE Sample == [at : 0 .. MaxTime, scaled : 0 .. MaxScaled]
  <2>1. \A s \in Sample : s.scaled < MaxScaled => Scaled(s) \in Sample
    BY DEF Scaled
  <2>2. \A j \in Joints : state[j] \in Sample
    OBVIOUS
  <2>3. state' \in [Joints -> Sample]
    <3> HIDE DEF Sample
    <3> QED
      BY <1>4, <2>1, <2>2 DEF Process
  <2> QED
    BY <1>4, <2>3 DEF Process
<1>5. ASSUME NEW i \in Ifaces, BeginWriteBack(i)
      PROVE  DataTypes'
  BY <1>5 DEF BeginWriteBack
<1>6. ASSUME NEW i \in Ifaces, WriteBack(i)
      PROVE  DataTypes'
  BY <1>6 DEF WriteBack
<1>7. CASE Publish \/ SetParameters \/ UpdateStep \/ Pause \/ Resume
  BY <1>7 DEF Publish, SetParameters, UpdateStep, LockParameters, ApplyField,
              UnlockParameters, Pause, Resume
<1>8. CASE UNCHANGED jvars
  BY <1>8 DEF jvars
<1> QED
  BY <1>1, <1>2, <1>3, <1>4, <1>5, <1>6, <1>7, <1>8 DEF JNext, CycleStep

-----------------------------------------------------------------------------
(* Updates                                                                  *)

\* A step of a cycle leaves the executor and the parameters alone, and only
\* EnterCycle makes an interface a reader.
LEMMA CycleKeepsLocks ==
  ASSUME DataTypes, NEW i \in Ifaces, EnterCycle(i) \/ CycleStep(i)
  PROVE  /\ UNCHANGED <<exec, paramVars>>
         /\ \/ exec # "applying"
            \/ \A k \in Ifaces : pc[k] = "idle" => pc'[k] = "idle"
<1> USE DEF DataTypes, To, Return
<1>1. CASE EnterCycle(i)
  BY <1>1 DEF EnterCycle, CanRead
<1>2. CASE CycleStep(i)
  BY <1>2 DEF CycleStep, ExchangeFails, Exchange, Process, BeginWriteBack,
              WriteBack
<1> QED
  BY <1>1, <1>2

\* Applying one field moves it from the batch to the limits.
LEMMA ApplyKeepsEffective ==
  ASSUME ParamTypes, ApplyField
  PROVE  Effective(batch)' = Effective(batch)
<1>1. PICK x \in DOMAIN batch :
        /\ limits' = [limits EXCEPT ![x[1]][x[2]] = batch[x]]
        /\ batch' = [y \in DOMAIN batch \ {x} |-> batch[y]]
  BY DEF ApplyField
<1>2. PICK k \in Joints, g \in Fields : x = <<k, g>>
  BY DataAssumption DEF ParamTypes
<1>3. \A j \in Joints, f \in Fields :
        limits'[j][f] = IF <<j, f>> = x THEN batch[x] ELSE limits[j][f]
  BY <1>1, <1>2 DEF ParamTypes
<1>4. \A j \in Joints, f \in Fields :
        (IF <<j, f>> \in DOMAIN batch' THEN batch'[<<j, f>>] ELSE limits'[j][f])
        = (IF <<j, f>> \in DOMAIN batch THEN batch[<<j, f>>] ELSE limits[j][f])
  BY <1>1, <1>3
<1> QED
  BY <1>4 DEF Effective

LEMMA LockInvStep ==
  ASSUME DataTypes, ParamTypes, LockInv, [JNext]_jvars
  PROVE  LockInv'
<1> USE DEF LockInv
<1>1. ASSUME NEW i \in Ifaces, EnterCycle(i) \/ CycleStep(i)
      PROVE  LockInv'
  <2>1. /\ UNCHANGED <<exec, paramVars>>
        /\ \/ exec # "applying"
           \/ \A k \in Ifaces : pc[k] = "idle" => pc'[k] = "idle"
    BY <1>1, CycleKeepsLocks
  <2>2. UNCHANGED Improves(Effective(batch), before)
    BY <2>1 DEF paramVars, Improves, Effective
  <2> QED
    BY <2>1, <2>2 DEF paramVars, CanWrite
<1>2. CASE Publish \/ Pause \/ Resume \/ UNCHANGED jvars
  <2>1. /\ UNCHANGED <<pc, paramVars>>
        /\ \/ UNCHANGED exec
           \/ exec \notin {"locking", "applying"} /\ exec' \notin {"locking", "applying"}
    BY <1>2 DEF Publish, Pause, Resume, jvars, threadVars
  <2>2. UNCHANGED <<Improves(Effective(batch), before), CanWrite>>
    BY <2>1 DEF paramVars, Improves, Effective, CanWrite
  <2> QED
    BY <2>1, <2>2 DEF paramVars
<1>3. CASE SetParameters
  <2>1. PICK P \in SUBSET (Tuned \X Fields) \ {{}} : \E u \in [P -> Values] :
          /\ \A x \in P : InOrder(Effective(u)[x[1]])
          /\ batch' = u
    BY <1>3 DEF SetParameters
  <2>2. exec' = "locking" /\ UNCHANGED <<limits, before>> /\ before = limits
    BY <1>3 DEF SetParameters
  <2>3. Effective(batch)' = Effective(batch')
    BY <2>2 DEF Effective
  <2>4. ASSUME NEW j \in Joints
        PROVE  Effective(batch')[j] = before[j] \/ InOrder(Effective(batch')[j])
    <3>1. CASE \E f \in Fields : <<j, f>> \in P
      <4>1. PICK f \in Fields : <<j, f>> \in P
        BY <3>1
      <4>2. <<j, f>>[1] = j
        OBVIOUS
      <4> QED
        BY <2>1, <4>1, <4>2
    <3>2. CASE ~\E f \in Fields : <<j, f>> \in P
      <4>1. \A f \in Fields : Effective(batch')[j][f] = limits[j][f]
        BY <2>1, <3>2 DEF Effective
      <4>2. Effective(batch')[j] = limits[j]
        BY <4>1 DEF Effective, ParamTypes
      <4> QED
        BY <2>2, <4>2
    <3> QED
      BY <3>1, <3>2
  <2>5. Improves(Effective(batch), before)'
    BY <2>2, <2>3, <2>4 DEF Improves
  <2> QED
    BY <2>2, <2>5
<1>4. CASE LockParameters
  <2>1. UNCHANGED <<limits, batch>> /\ before' = limits /\ before = limits
    BY <1>4 DEF LockParameters
  <2>2. Effective(batch)' = Effective(batch)
    BY <2>1 DEF Effective
  <2>3. Improves(Effective(batch), before)'
    BY <1>4, <2>1, <2>2 DEF LockParameters, Improves
  <2> QED
    BY <1>4, <2>1, <2>3 DEF LockParameters, CanWrite, threadVars
<1>5. CASE ApplyField
  <2>1. Improves(Effective(batch), before)'
    BY <1>5, ApplyKeepsEffective DEF Improves, ApplyField
  <2> QED
    BY <1>5, <2>1 DEF ApplyField, CanWrite, threadVars
<1>6. CASE UnlockParameters
  BY <1>6 DEF UnlockParameters
<1> QED
  BY <1>1, <1>2, <1>3, <1>4, <1>5, <1>6 DEF JNext, UpdateStep

ParamInv == DataTypes /\ ParamTypes /\ LockInv

LEMMA ParamInvariant == JSpec => []ParamInv
<1>1. JInit => ParamInv
  BY ParamInit DEF ParamInv
<1>2. ParamInv /\ [JNext]_jvars => ParamInv'
  BY DataTypesStep, ParamTypesStep, LockInvStep DEF ParamInv
<1> QED
  BY <1>1, <1>2, PTL DEF JSpec

\* The register as the abstract specification sees it.
Shown == IF exec = "applying" THEN before ELSE limits
Users == {i \in Ifaces : pc[i] # "idle"}

LEMMA RegisterInit == JInit => Register!RInit
<1> SUFFICES ASSUME JInit PROVE Register!RInit
  OBVIOUS
<1>1. Shown = Limits /\ Users = {}
  BY DEF JInit, Shown, Users
<1>2. Shown \in [Joints -> Register!Pairs]
  BY <1>1, DataAssumption DEF Register!Pairs
<1> QED
  BY <1>1, <1>2 DEF Register!RInit, Shown, Users

\* A cycle changes the readers by one interface, and never what they read.
LEMMA CycleIsEnterOrLeave ==
  ASSUME ParamInv, NEW i \in Ifaces, EnterCycle(i) \/ CycleStep(i)
  PROVE  /\ Shown' = Shown
         /\ Users' = Users \/ Users' = Users \cup {i} \/ Users' = Users \ {i}
<1> USE DEF ParamInv, DataTypes, To, Return
<1>1. UNCHANGED <<exec, limits, before>>
  BY CycleKeepsLocks DEF paramVars
<1>2. \E p \in {"idle", "cycle", "received", "processed", "writing"} :
        pc' = [pc EXCEPT ![i] = p]
  <2>1. CASE EnterCycle(i)
    BY <2>1 DEF EnterCycle
  <2>2. CASE CycleStep(i)
    BY <2>2 DEF CycleStep, ExchangeFails, Exchange, Process, BeginWriteBack,
                WriteBack
  <2> QED
    BY <2>1, <2>2
<1>3. PICK p : pc' = [pc EXCEPT ![i] = p]
  BY <1>2
<1>4. Users' = IF p = "idle" THEN Users \ {i} ELSE Users \cup {i}
  BY <1>3 DEF Users
<1> QED
  BY <1>1, <1>4 DEF Shown

LEMMA RegisterStep ==
  ASSUME ParamInv, ParamInv', [JNext]_jvars
  PROVE  [Register!RNext]_(Register!rvars)
<1> DEFINE Stutter == Shown' = Shown /\ Users' = Users
           Enter(i) == Shown' = Shown /\ Users' = Users \cup {i}
           Leave(i) == Shown' = Shown /\ Users' = Users \ {i}
           Update   == /\ Users = {} /\ Users' = Users
                       /\ Shown' \in [Joints -> Register!Pairs]
                       /\ \A j \in Joints : Shown'[j] # Shown[j] => InOrder(Shown'[j])
<1>1. SUFFICES Stutter \/ Update \/ \E i \in Ifaces : Enter(i) \/ Leave(i)
  BY <1>1 DEF Register!RNext, Register!rvars, Register!Update, Register!Enter,
              Register!Leave, Register!Pairs, InOrder, Shown, Users
<1>2. CASE \E i \in Ifaces : EnterCycle(i) \/ CycleStep(i)
  BY <1>2, CycleIsEnterOrLeave
<1>3. CASE Publish \/ SetParameters \/ Pause \/ Resume \/ UNCHANGED jvars
  <2>1. \/ UNCHANGED <<pc, limits>> /\ exec # "applying" /\ exec' # "applying"
        \/ UNCHANGED <<pc, limits, before, exec>>
    BY <1>3 DEF Publish, SetParameters, Pause, Resume, jvars, threadVars, paramVars
  <2> QED
    BY <2>1 DEF Shown, Users
<1>4. CASE LockParameters
  BY <1>4 DEF LockParameters, Shown, Users, threadVars
<1>5. CASE ApplyField
  BY <1>5 DEF ApplyField, Shown, Users, threadVars
<1>6. CASE UnlockParameters
  <2>1. Shown' = before' /\ before' = limits /\ UNCHANGED pc
    BY <1>6 DEF UnlockParameters, Shown, threadVars
  <2>2. Users = {} /\ Users' = Users
    BY <1>6, <2>1 DEF UnlockParameters, ParamInv, LockInv, CanWrite, Users
  <2>3. Shown' \in [Joints -> Register!Pairs]
    BY <2>1 DEF ParamInv, ParamTypes, Register!Pairs, Fields
  <2>4. \A j \in Joints : limits[j] = before[j] \/ InOrder(limits[j])
    <3>1. \A j \in Joints : Effective(batch)[j] = limits[j]
      <4>1. \A j \in Joints : \A f \in Fields : Effective(batch)[j][f] = limits[j][f]
        BY <1>6 DEF UnlockParameters, Effective
      <4> QED
        BY <4>1 DEF Effective, ParamInv, ParamTypes
    <3> QED
      BY <1>6, <3>1 DEF UnlockParameters, ParamInv, LockInv, Improves
  <2>5. Shown = before
    BY <1>6 DEF UnlockParameters, Shown
  <2> QED
    BY <2>1, <2>2, <2>3, <2>4, <2>5
<1> QED
  BY <1>2, <1>3, <1>4, <1>5, <1>6 DEF JNext, UpdateStep

\* However many cycles read them, the parameters change as a whole, between
\* cycles, and the limits of every joint that changes are in order.
THEOREM ParametersAreARegister == JSpec => UpdatesAreAtomic
<1>1. JInit => Register!RInit
  BY RegisterInit
<1>2. ParamInv /\ ParamInv' /\ [JNext]_jvars => [Register!RNext]_(Register!rvars)
  BY RegisterStep
<1> QED
  BY <1>1, <1>2, ParamInvariant, PTL
  DEF JSpec, UpdatesAreAtomic, Register!Register

-----------------------------------------------------------------------------
(* Samples and stamps                                                       *)

\* A time stamp is never newer than the value it stands for, in the vectors of
\* the cycles and in both messages.  Between Process and WriteBack the
\* unfiltered value is the one the time stamp is about to be taken from.
SampleInv ==
  /\ raw \in [Joints -> (1 .. MaxTime) \cup {NaN}]
  /\ \A j \in Joints :
       /\ rx[j] <= state[j].at /\ state[j].at <= now
       /\ rx[j] <= msg[j].at
       /\ raw[j] # NaN => rx[j] <= raw[j]
       /\ j \in fresh => state[j].at > 0
       /\ pc[IfaceOf[j]] \in {"processed", "writing"} =>
            raw[j] = IF j \in fresh THEN state[j].at ELSE NaN

\* The stamp published last still bounds the last reply of every joint.
StampInv ==
  /\ pub \in 0 .. MaxTime /\ pub <= now
  /\ pub > 0 => \A j \in Joints : rx[j] > 0 /\ pub <= rx[j]

Less == {ss \in Nat \X Nat : ss[1] < ss[2]}

LEMMA MinOfNaturals ==
  ASSUME NEW S, S \subseteq Nat, S # {}
  PROVE  Min(S) \in S /\ \A y \in S : Min(S) <= y
<1>1. IsWellFoundedOn(Less, Nat)
  BY NatLessThanWellFounded, Zenon DEF OpToRel, Less
<1>2. PICK x \in S : \A y \in S : ~(<<y, x>> \in Less)
  BY <1>1, WFMin, Zenon
<1>3. ASSUME NEW a \in Nat, NEW b \in Nat, a < b
      PROVE  <<a, b>> \in Less
  <2>1. <<a, b>> \in Nat \X Nat /\ <<a, b>>[1] = a /\ <<a, b>>[2] = b
    OBVIOUS
  <2> QED
    BY <2>1, <1>3, Zenon DEF Less
<1>4. \A y \in S : ~(y < x)
  BY <1>2, <1>3, Zenon
<1>5. \A y \in S : x <= y
  BY <1>4
<1> QED
  BY <1>5 DEF Min

\* The stamp is one of the last replies, if there is one, and bounds them all.
LEMMA StampBounds ==
  ASSUME DataTypes
  PROVE  /\ Stamp \in 0 .. MaxTime
         /\ \A j \in Replied : Stamp <= rx[j]
         /\ Replied = {} => Stamp = now
         /\ Replied # {} => \E j \in Replied : Stamp = rx[j]
<1> USE DataAssumption DEF DataTypes
<1>1. CASE Replied = {}
  BY <1>1 DEF Stamp
<1>2. CASE Replied # {}
  <2> DEFINE S == {rx[j] : j \in Replied}
  <2>0. \A j \in Replied : rx[j] \in 0 .. MaxTime /\ rx[j] \in Nat
    BY DEF Replied
  <2>1. S \subseteq 0 .. MaxTime /\ S \subseteq Nat /\ S # {}
    BY <1>2, <2>0
  <2>2. Stamp \in S /\ \A y \in S : Stamp <= y
    BY <1>2, <2>1, MinOfNaturals DEF Stamp
  <2> QED
    BY <1>2, <2>1, <2>2
<1> QED
  BY <1>1, <1>2

LEMMA SampleInit == JInit => SampleInv /\ StampInv
BY DataAssumption DEF JInit, SampleInv, StampInv, Unread, NaN

LEMMA SampleStep ==
  ASSUME DataTypes, SampleInv, [JNext]_jvars
  PROVE  SampleInv'
<1> USE DataAssumption
    DEF DataTypes, SampleInv, threadVars, sampleVars, dataVars, To, Return, Of, NaN
<1>1. ASSUME NEW i \in Ifaces, EnterCycle(i)
      PROVE  SampleInv'
  BY <1>1 DEF EnterCycle
<1>2. ASSUME NEW i \in Ifaces, ExchangeFails(i)
      PROVE  SampleInv'
  BY <1>2 DEF ExchangeFails
<1>3. ASSUME NEW i \in Ifaces, Exchange(i)
      PROVE  SampleInv'
  <2>1. now' \in 1 .. MaxTime /\ now <= now' /\ UNCHANGED <<msg, raw, rx>>
    BY <1>3 DEF Exchange
  <2>2. PICK R \in SUBSET Of(i) : \E F \in SUBSET R :
          /\ \/ To(i, "received") /\ fresh' = fresh \cup F
             \/ F # Of(i) /\ Return(i)
          /\ state' = [j \in Joints |->
                         IF j \in R THEN [at |-> now', scaled |-> 0] ELSE state[j]]
    BY <1>3 DEF Exchange
  <2>3. \A j \in Joints :
          state'[j].at = IF j \in R THEN now' ELSE state[j].at
    BY <2>2
  <2>4. \A j \in fresh' : j \in fresh \/ j \in R
    BY <2>2
  <2>5. \A j \in Joints : pc'[IfaceOf[j]] \in {"processed", "writing"} =>
          /\ pc'[IfaceOf[j]] = pc[IfaceOf[j]]
          /\ j \notin R /\ (j \in fresh' <=> j \in fresh)
    BY <2>2
  <2> QED
    BY <2>1, <2>3, <2>4, <2>5
<1>4. ASSUME NEW i \in Ifaces, Process(i)
      PROVE  SampleInv'
  <2>1. \A j \in Joints : state'[j].at = state[j].at
    BY <1>4 DEF Process, Scaled
  <2>2. UNCHANGED <<fresh, msg, rx, now>>
    BY <1>4 DEF Process
  <2>3. \A j \in Joints :
          raw'[j] = IF IfaceOf[j] # i THEN raw[j]
                    ELSE IF j \in fresh THEN state[j].at ELSE NaN
    BY <1>4 DEF Process
  <2>4. raw' \in [Joints -> (1 .. MaxTime) \cup {NaN}]
    BY <1>4 DEF Process
  <2>5. \A k \in Ifaces : k # i => pc'[k] = pc[k]
    BY <1>4 DEF Process
  <2> QED
    BY <2>1, <2>2, <2>3, <2>4, <2>5
<1>5. ASSUME NEW i \in Ifaces, BeginWriteBack(i)
      PROVE  SampleInv'
  BY <1>5 DEF BeginWriteBack
<1>6. ASSUME NEW i \in Ifaces, WriteBack(i)
      PROVE  SampleInv'
  <2>1. UNCHANGED <<state, raw, now>> /\ fresh' \subseteq fresh
    BY <1>6 DEF WriteBack
  <2>2. \A j \in Joints :
          /\ rx'[j] = IF IfaceOf[j] = i /\ j \in fresh THEN state[j].at ELSE rx[j]
          /\ msg'[j] = IF IfaceOf[j] = i THEN state[j] ELSE msg[j]
    BY <1>6 DEF WriteBack
  <2>3. \A j \in Joints : pc'[IfaceOf[j]] \in {"processed", "writing"} =>
          /\ pc'[IfaceOf[j]] = pc[IfaceOf[j]]
          /\ j \in fresh' <=> j \in fresh
    BY <1>6 DEF WriteBack
  <2>4. pc[i] = "writing"
    BY <1>6 DEF WriteBack
  <2> QED
    BY <2>1, <2>2, <2>3, <2>4
<1>7. CASE Publish \/ SetParameters \/ UpdateStep \/ Pause \/ Resume
  BY <1>7 DEF Publish, SetParameters, UpdateStep, LockParameters, ApplyField,
              UnlockParameters, Pause, Resume
<1>8. CASE UNCHANGED jvars
  BY <1>8 DEF jvars
<1> QED
  BY <1>1, <1>2, <1>3, <1>4, <1>5, <1>6, <1>7, <1>8 DEF JNext, CycleStep

\* The clock and the time stamps of the joints only grow.
LEMMA TimeGrows ==
  ASSUME DataTypes, SampleInv, [JNext]_jvars
  PROVE  now <= now' /\ \A j \in Joints : rx[j] <= rx'[j]
<1> USE DataAssumption DEF DataTypes, dataVars, sampleVars
<1>1. CASE \E i \in Ifaces : EnterCycle(i) \/ CycleStep(i)
  BY <1>1 DEF EnterCycle, CycleStep, ExchangeFails, Exchange, Process,
              BeginWriteBack, WriteBack, SampleInv
<1>2. CASE Publish \/ SetParameters \/ UpdateStep \/ Pause \/ Resume
  BY <1>2 DEF Publish, SetParameters, UpdateStep, LockParameters, ApplyField,
              UnlockParameters, Pause, Resume
<1>3. CASE UNCHANGED jvars
  BY <1>3 DEF jvars
<1> QED
  BY <1>1, <1>2, <1>3 DEF JNext

\* Only Publish sets the stamp, and it does not set it back.
LEMMA StampStep ==
  ASSUME DataTypes, SampleInv, StampInv, DataTypes', [JNext]_jvars
  PROVE  StampInv' /\ pub' >= pub
<1>1. now <= now' /\ \A j \in Joints : rx[j] <= rx'[j]
  BY TimeGrows
<1>2. CASE pub' = pub
  BY <1>1, <1>2, DataAssumption DEF StampInv, DataTypes
<1>3. CASE Publish
  <2>1. UNCHANGED <<now, rx>> /\ pub' = IF Replied = Joints THEN Stamp ELSE 0
    BY <1>3 DEF Publish, dataVars, sampleVars
  <2>2. Stamp \in 0 .. MaxTime /\ Stamp <= now
    BY StampBounds, DataAssumption DEF DataTypes, SampleInv, Replied
  <2>3. CASE Replied = Joints
    <3>1. Stamp >= pub
      BY <2>3, StampBounds, DataAssumption DEF StampInv, Replied, DataTypes
    <3> QED
      BY <2>1, <2>2, <2>3, <3>1, StampBounds DEF StampInv, Replied
  <2>4. CASE Replied # Joints
    BY <2>1, <2>4, DataAssumption DEF StampInv, Replied, DataTypes
  <2> QED
    BY <2>3, <2>4
<1>4. CASE ~Publish
  <2>1. UNCHANGED pub
    BY <1>4 DEF JNext, jvars, EnterCycle, CycleStep, ExchangeFails, Exchange,
                Process, BeginWriteBack, WriteBack, SetParameters, UpdateStep,
                LockParameters, ApplyField, UnlockParameters, Pause, Resume
  <2> QED
    BY <2>1, <1>2
<1> QED
  BY <1>3, <1>4

JInv == ParamInv /\ SampleInv /\ StampInv

LEMMA JInvStep == JInv /\ [JNext]_jvars => JInv'
BY DataTypesStep, ParamTypesStep, LockInvStep, SampleStep, StampStep
DEF JInv, ParamInv

LEMMA JInvariant == JSpec => []JInv
<1>1. JInit => JInv
  BY ParamInit, SampleInit DEF JInv, ParamInv
<1> QED
  BY <1>1, JInvStep, PTL DEF JSpec

\* Every variable of the cycles keeps its type.
THEOREM DataTypeCorrect == JSpec => []JTypeOK
<1>1. JInv => JTypeOK
  BY DEF JInv, ParamInv, DataTypes, ParamTypes, SampleInv, StampInv, JTypeOK
<1> QED
  BY <1>1, JInvariant, PTL

\* No published value is older than the stamp of its message.
THEOREM PublishedStampIsConservative == JSpec => []StampIsConservative
<1>1. JInv => Stamp <= Oldest
  <2> SUFFICES ASSUME JInv PROVE Stamp <= Oldest
    OBVIOUS
  <2> USE DataAssumption DEF JInv, ParamInv, DataTypes, SampleInv, Replied, NaN
  <2> DEFINE Ages == {now} \cup {msg[j].at : j \in Replied}
                       \cup {raw[j] : j \in {k \in Replied : raw[k] # NaN}}
  <2>1. Ages \subseteq Nat /\ Ages # {}
    OBVIOUS
  <2>2. Oldest \in Ages
    BY <2>1, MinOfNaturals DEF Oldest
  <2>3. \A a \in Ages : Stamp <= a
    BY StampBounds
  <2> QED
    BY <2>2, <2>3
<1>2. JInv => StampIsConservative
  BY <1>1 DEF StampIsConservative
<1> QED
  BY <1>2, JInvariant, PTL

\* Once every joint has replied, the stamps never go back.
THEOREM PublishedStampNeverGoesBack == JSpec => StampNeverGoesBack
<1>1. JInv /\ JInv' /\ [JNext]_jvars => [pub' >= pub]_jvars
  BY StampStep DEF JInv, ParamInv
<1> QED
  BY <1>1, JInvariant, PTL DEF JSpec, StampNeverGoesBack
=============================================================================
