------------------------- MODULE HardwareInterface --------------------------
(***************************************************************************)
(* The ros2_control plugin (class CubemarsHardwareInterface) with the      *)
(* motors on its bus, below a controller manager.  The manager's real-time *)
(* loop lets the running controllers write their commands and then calls   *)
(* write(); its service thread switches controllers at the same time.      *)
(*                                                                         *)
(* Of a joint's commands the model keeps the effort, which is sent in      *)
(* every mode; position, velocity and gains are constants.                 *)
(***************************************************************************)
EXTENDS Codec, FiniteSets, SequencesExt

CONSTANTS
  NumJoints,    \* joints, numbered in the order of the URDF
  CanId,        \* the CAN id of each
  Invert,       \* those with the parameter `invert'
  NamedIn,      \* NamedIn[j]: joints whose name occurs in the name of j
  Limits,       \* the range of each field of a command
  Others,       \* the commands other than the effort, for each mode
  Efforts,      \* efforts the controllers ask for
  Initial,      \* initial_value of each joint's effort interface, 0 without one
  SetZero,      \* set_zero_pos_on_startup
  Controllers,  \* controllers of the manager
  Claims,       \* the <<joint, interface>> pairs each of them commands
  MaxUnread,    \* bound: replies of one motor that nobody has read
  MaxForeign    \* bound: frames of other devices, while the socket is open

Joints == 1 .. NumJoints

\* What a command can ask for.
AllEfforts == Efforts \cup {Initial[j] : j \in Joints}

Modes == {"UNDEFINED", "POSITION", "VELOCITY", "EFFORT"}

ASSUME PluginAssumption ==
  /\ NumJoints \in Nat \ {0}
  /\ \A j, k \in Joints : CanId[j] = CanId[k] => j = k
  /\ Invert \subseteq Joints /\ \A j \in Joints : j \in NamedIn[j]
  /\ Efforts \subseteq Int /\ 0 \in Efforts /\ Initial \in [Joints -> Int]
  /\ MaxUnread \in Nat \ {0} /\ MaxForeign \in Nat

\* The ranges of a motor.  The unit of the effort is not finer than a step of its
\* field, so that no effort is rounded to zero.
ASSUME RangeAssumption ==
  /\ Limits \in [Fields -> [lo : Int, hi : Int]]
  /\ \A f \in Fields : Limits[f].lo < Limits[f].hi
  /\ -4096 < Limits.t.lo /\ Limits.t.lo < 0 /\ 0 < Limits.t.hi /\ Limits.t.hi < 4096

ASSUME OthersAssumption == Others \in [Modes -> [Fields -> Int]]

VARIABLES
  component,  \* lifecycle state of the component
  call,       \* the method in progress: [op, at], at the joint it has come to
  failed,     \* ret_val of on_deactivate is ERROR
  fd,         \* can_socket_fd_: "unset", "open" or "closed"
  effort,     \* hw_commands_effort_
  mode,       \* hw_control_level_
  switching,  \* the mode switch in progress: [stage, at, start, stop]
  running,    \* the manager's active controllers
  enabled,    \* which motors are in motor control mode
  executes,   \* the effort each motor was sent and the sign of what it read
  unread,     \* replies of each motor that nobody has read
  foreign,    \* frames of other devices that nobody has read
  displaced,  \* history: those that write() took for replies, since configured
  lost,       \* history: joints that did not hear the last exit frame and have
              \* not heard one, or a start frame, since
  overtaken,  \* history: joints commanded after a stop had reset them
  untouched,  \* history: joints with an initial effort nobody has replaced
  refused     \* history: the last switch came to nothing after its preparation

queueVars   == <<unread, foreign, displaced>>
busVars     == <<enabled, executes, queueVars>>
commandVars == <<effort, overtaken, untouched>>
switchVars  == <<mode, switching, refused>>
hwvars == <<component, call, failed, fd, commandVars, switchVars, running,
            busVars, lost>>

Idle     == [op |-> "none", at |-> 0]
NoSwitch == [stage |-> "none", at |-> 0, start |-> {}, stop |-> {}]
NoMode   == [j \in Joints |-> "UNDEFINED"]
Nothing  == [asked |-> 0, sign |-> 0]

HInit ==
  /\ component = "unconfigured" /\ call = Idle /\ failed = FALSE
  /\ fd = "unset"
  /\ effort = [j \in Joints |-> 0] /\ mode = NoMode
  /\ switching = NoSwitch /\ running = {}
  /\ enabled = [j \in Joints |-> FALSE]
  /\ executes = [j \in Joints |-> Nothing]
  /\ unread = [j \in Joints |-> 0] /\ foreign = 0 /\ displaced = 0
  /\ lost = {} /\ overtaken = {} /\ untouched = {} /\ refused = FALSE

\* sorted_idx_: the highest CAN id, of the lowest priority, first.
WriteOrder == SetToSortSeq(Joints, LAMBDA j, k : CanId[j] > CanId[k])

-----------------------------------------------------------------------------
(* The manager                                                              *)

ClaimsOf(C) == UNION {Claims[c] : c \in C}
JointsOf(C) == {x[1] : x \in ClaimsOf(C)}

\* The joint whose turn it is in a call moves on; the call ends after the last.
NextJoint(op) ==
  call' = IF call.at = NumJoints THEN Idle ELSE [op |-> op, at |-> call.at + 1]

\* A method returned ERROR.  The default on_error() fails, so the component is
\* finalized; the manager stops the controllers and forgets their switch.
Fail ==
  /\ component' = "finalized" /\ call' = Idle
  /\ running' = {} /\ switching' = NoSwitch

\* The commands are zero, then the initial values of the interfaces that have
\* one.  If the socket's options or a value are refused there is no next command.
Configure ==
  /\ component = "unconfigured" /\ call = Idle
  /\ fd' = "open"
  /\ \/ /\ component' = "inactive" /\ effort' = Initial
        /\ overtaken' = {} /\ untouched' = {j \in Joints : Initial[j] # 0}
     \/ component' = "finalized" /\ UNCHANGED commandVars
  /\ UNCHANGED <<call, failed, switchVars, running, busVars, lost>>

\* The socket itself cannot be created.
ConfigureFails ==
  /\ component = "unconfigured" /\ call = Idle
  /\ component' = "finalized"
  /\ UNCHANGED <<call, failed, fd, commandVars, switchVars, running, busVars,
                 lost>>

Cleanup ==
  /\ component = "inactive" /\ call = Idle
  /\ component' = "unconfigured" /\ fd' = "closed"
  /\ unread' = [j \in Joints |-> 0] /\ foreign' = 0 /\ displaced' = 0
  /\ UNCHANGED <<call, failed, commandVars, switchVars, running, enabled,
                 executes, lost>>

Activate ==
  /\ component = "inactive" /\ call = Idle
  /\ call' = [op |-> IF SetZero THEN "zero" ELSE "start", at |-> 1]
  /\ UNCHANGED <<component, failed, fd, commandVars, switchVars, running,
                 busVars, lost>>

\* on_deactivate(), which the destructor calls in any state.
BeginExit(op) ==
  /\ call' = [op |-> op, at |-> 1] /\ failed' = FALSE
  /\ UNCHANGED <<component, fd, commandVars, switchVars, running, busVars, lost>>

\* The manager has stopped the controllers before.
Deactivate ==
  /\ component = "active" /\ call = Idle
  /\ running = {} /\ switching = NoSwitch
  /\ BeginExit("exit")

Destroy ==
  /\ component \in {"unconfigured", "inactive", "active", "finalized"}
  /\ call = Idle /\ switching = NoSwitch
  /\ BeginExit("destroy")

\* A running controller commands the joints whose effort it has claimed.
Update ==
  /\ component = "active" /\ call = Idle
  /\ \E c \in running, e \in Efforts :
       LET J == {j \in Joints : <<j, "effort">> \in Claims[c]} IN
       /\ J # {}
       /\ effort' = [j \in Joints |-> IF j \in J THEN e ELSE effort[j]]
       /\ overtaken' = IF c \in switching.stop THEN overtaken \cup J
                                               ELSE overtaken
       /\ untouched' = untouched \ J
  /\ UNCHANGED <<component, call, failed, fd, switchVars, running, busVars,
                 lost>>

-----------------------------------------------------------------------------
(* The bus                                                                  *)

\* The filter compares the lower 11 bits only: extended and remote frames of
\* other devices, as of V3 motors, may have them in common with a joint.  (Once
\* the component has failed only exit frames follow, whose reads may fail anyway.)
ForeignFrame ==
  /\ component \in {"inactive", "active"}
  /\ foreign + displaced < MaxForeign
  /\ foreign' = foreign + 1
  /\ UNCHANGED <<component, call, failed, fd, commandVars, switchVars, running,
                 enabled, executes, unread, displaced, lost>>

\* The replies that nobody has read, each as a pair.
Tokens(u) == {x \in Joints \X (1 .. MaxUnread) : x[2] <= u[x[1]]}

-----------------------------------------------------------------------------
(* Control frames: on_activate, on_deactivate                               *)

\* The replies not read after the frame of a motor that does or does not hear
\* it and whose reply does or does not get lost.
UnreadAfter(j, heard) ==
  {unread} \cup
  (IF heard /\ unread[j] < MaxUnread
     THEN {[unread EXCEPT ![j] = @ + 1]} ELSE {})

\* One call of send_control_frame: the frame is written or not, heard or not;
\* then one frame is read: this reply, an older one, a foreign frame or none.
\* It returns ok.
ControlFrame(j, heard, ok) ==
  /\ IF fd = "open"
       THEN \E u \in UnreadAfter(j, heard) :
              \/ /\ ~ok /\ unread' = u
                 /\ foreign' \in {foreign, foreign - 1} \cap Nat
              \/ \E k \in Joints :
                   /\ u[k] > 0 /\ unread' = [u EXCEPT ![k] = @ - 1]
                   /\ ok => k = j
                   /\ UNCHANGED foreign
       ELSE ~ok /\ ~heard /\ UNCHANGED <<unread, foreign>>
  /\ UNCHANGED displaced

ZeroFrame ==
  /\ call.op = "zero"
  /\ \E heard, ok \in BOOLEAN :
       /\ ControlFrame(call.at, heard, ok)
       /\ \/ /\ ok /\ call' = [call EXCEPT !.op = "start"]
             /\ UNCHANGED <<component, running, switching>>
          \/ ~ok /\ Fail
  /\ UNCHANGED <<failed, fd, commandVars, mode, refused, enabled, executes,
                 lost>>

StartFrame ==
  /\ call.op = "start"
  /\ \E heard, ok \in BOOLEAN :
       /\ ControlFrame(call.at, heard, ok)
       /\ enabled' = [enabled EXCEPT ![call.at] = @ \/ heard]
       /\ lost' = IF heard THEN lost \ {call.at} ELSE lost
       /\ \/ /\ ok /\ NextJoint(IF SetZero THEN "zero" ELSE "start")
             /\ component' = IF call.at = NumJoints THEN "active"
                                                    ELSE component
             /\ UNCHANGED <<running, switching>>
          \/ ~ok /\ Fail
  /\ UNCHANGED <<failed, fd, commandVars, mode, refused, executes>>

\* Seeded bug: the first failure ends on_deactivate().
ExitFrameGivesUp ==
  /\ call.op \in {"exit", "destroy"}
  /\ \E heard, ok \in BOOLEAN :
       /\ ControlFrame(call.at, heard, ok)
       /\ enabled' = [enabled EXCEPT ![call.at] = @ /\ ~heard]
       /\ lost' = IF heard THEN lost \ {call.at}
                  ELSE IF fd = "open" THEN lost \cup {call.at} ELSE lost
       /\ failed' = (failed \/ ~ok)
  /\ \/ /\ call.at < NumJoints /\ ~failed' /\ NextJoint(call.op)
        /\ UNCHANGED <<component, running, switching>>
     \/ /\ call.at = NumJoints /\ call.op = "exit" /\ ~failed'
        /\ component' = "inactive" /\ call' = Idle
        /\ UNCHANGED <<running, switching>>
     \/ call.op = "exit" /\ failed' /\ Fail
     \/ /\ call.op = "destroy" /\ (failed' \/ call.at = NumJoints)
        /\ component' = "destroyed" /\ call' = Idle
        /\ UNCHANGED <<running, switching>>
  /\ UNCHANGED <<fd, commandVars, mode, refused, executes>>

\* A frame of on_deactivate(): a failure is remembered, the loop goes on.
ExitFrame ==
  /\ call.op \in {"exit", "destroy"}
  /\ \E heard, ok \in BOOLEAN :
       /\ ControlFrame(call.at, heard, ok)
       /\ enabled' = [enabled EXCEPT ![call.at] = @ /\ ~heard]
       /\ lost' = IF heard THEN lost \ {call.at}
                  ELSE IF fd = "open" THEN lost \cup {call.at} ELSE lost
       /\ failed' = (failed \/ ~ok)
  /\ \/ /\ call.at < NumJoints /\ NextJoint(call.op)
        /\ UNCHANGED <<component, running, switching>>
     \/ /\ call.at = NumJoints /\ call.op = "exit" /\ ~failed'
        /\ component' = "inactive" /\ call' = Idle
        /\ UNCHANGED <<running, switching>>
     \/ call.at = NumJoints /\ call.op = "exit" /\ failed' /\ Fail
     \/ /\ call.at = NumJoints /\ call.op = "destroy"
        /\ component' = "destroyed" /\ call' = Idle
        /\ UNCHANGED <<running, switching>>
  /\ UNCHANGED <<fd, commandVars, mode, refused, executes>>

\* The descriptor was never set: whatever file it names, a read may block.
ExitHangs ==
  /\ call.op = "destroy" /\ fd = "unset"
  /\ component' = "hung" /\ call' = Idle
  /\ UNCHANGED <<failed, fd, commandVars, switchVars, running, busVars, lost>>

-----------------------------------------------------------------------------
(* write()                                                                  *)

\* Seeded bug: the effort of an inverted joint is not inverted.
FrameNotInverted(j) ==
  LET c == [Others[mode[j]] EXCEPT !.t = effort[j]]
  IN PackV2([f \in Fields |-> PluginFloatToUint(c[f], Limits[f], Steps(f))])

\* pack_cmd for joint j: the frame of its commands in its present mode.
Frame(j) ==
  LET e == IF j \in Invert THEN -effort[j] ELSE effort[j]
      c == [Others[mode[j]] EXCEPT !.t = e]
  IN PackV2([f \in Fields |-> PluginFloatToUint(c[f], Limits[f], Steps(f))])

\* What the motor makes of it, in the direction of the joint.
SignRead(j) ==
  LET s == SignOfUint(ReadV2(Frame(j)).t, Limits.t, Steps("t"))
  IN IF j \in Invert THEN -s ELSE s

StartWrite ==
  /\ component \in {"inactive", "active"} /\ call = Idle
  /\ call' = [op |-> "send", at |-> 1]
  /\ UNCHANGED <<component, failed, fd, commandVars, switchVars, running,
                 busVars, lost>>

\* The commands of all joints are written before the first reply is read.
SendCommand ==
  LET j == WriteOrder[call.at] IN
  /\ call.op = "send"
  /\ \/ Fail /\ UNCHANGED <<executes, unread>>
     \/ \E heard \in BOOLEAN :
          /\ executes' = IF heard
               THEN [executes EXCEPT ![j] =
                       [asked |-> effort[j], sign |-> SignRead(j)]]
               ELSE executes
          /\ unread' \in UnreadAfter(j, heard)
          /\ call' = IF call.at = NumJoints THEN [op |-> "read", at |-> 1]
                                            ELSE [call EXCEPT !.at = @ + 1]
          /\ UNCHANGED <<component, running, switching>>
  /\ UNCHANGED <<failed, fd, commandVars, mode, refused, enabled, foreign,
                 displaced, lost>>

\* A read returns a joint's reply, which may report a fault ...
ReadJoint ==
  \E k \in Joints :
    /\ unread[k] > 0 /\ unread' = [unread EXCEPT ![k] = @ - 1]
    /\ \/ Fail
       \/ NextJoint("read") /\ UNCHANGED <<component, running, switching>>
    /\ UNCHANGED <<foreign, displaced>>

\* ... or a frame that is no joint's: unpack_reply() says so and finds no fault.
ReadUnknown ==
  /\ foreign > 0 /\ foreign' = foreign - 1 /\ displaced' = displaced + 1
  /\ NextJoint("read")
  /\ UNCHANGED <<component, running, switching, unread>>

\* Seeded bug: a read that fails counts as a read.
ReadReplySkipsTimeout ==
  /\ call.op = "read"
  /\ \/ NextJoint("read") /\ UNCHANGED <<component, running, switching, queueVars>>
     \/ ReadJoint
     \/ ReadUnknown
  /\ UNCHANGED <<failed, fd, commandVars, mode, refused, enabled, executes,
                 lost>>

\* One read for each joint, of whatever is there.
ReadReply ==
  /\ call.op = "read"
  /\ \/ Fail /\ UNCHANGED queueVars
     \/ ReadJoint
     \/ ReadUnknown
  /\ UNCHANGED <<failed, fd, commandVars, mode, refused, enabled, executes,
                 lost>>

-----------------------------------------------------------------------------
(* prepare_command_mode_switch, called by the manager's service thread      *)

\* Seeded bug: new_modes starts as a copy of the modes in use.
NewModeOnTopOfOld(j) ==
  LET I == {x[2] : x \in {x \in ClaimsOf(switching.start) : x[1] = j}} IN
  CASE "position" \in I -> "POSITION"
    [] "velocity" \in I -> "VELOCITY"
    [] "effort"   \in I -> "EFFORT"
    [] OTHER            -> mode[j]

\* new_modes of joint j: position over velocity over effort.
NewMode(j) ==
  LET I == {x[2] : x \in {x \in ClaimsOf(switching.start) : x[1] = j}} IN
  CASE "position" \in I -> "POSITION"
    [] "velocity" \in I -> "VELOCITY"
    [] "effort"   \in I -> "EFFORT"
    [] OTHER            -> "UNDEFINED"

Compatible(C) ==
  \A c, d \in C : c # d => Claims[c] \cap Claims[d] = {}

\* An interface that is none of the plugin's refuses the switch at once.  The
\* manager's services do not overlap, so no other call but write() is under way.
Prepare ==
  /\ component = "active" /\ call.op \in {"none", "send", "read"}
  /\ switching.stage = "none"
  /\ \E start \in SUBSET (Controllers \ running), stop \in SUBSET running :
       /\ start \cup stop # {}
       /\ Compatible((running \ stop) \cup start)
       /\ switching' = [stage |-> IF \E x \in ClaimsOf(start) : x[2] = "unknown"
                                    THEN "refused" ELSE "reset",
                        at |-> 1, start |-> start, stop |-> stop]
  /\ UNCHANGED <<component, call, failed, fd, commandVars, mode, refused,
                 running, busVars, lost>>

Elsewhere == UNCHANGED <<component, call, failed, fd, running, busVars, lost>>

\* Seeded bug: a joint that is started again keeps its commands.
ResetJointUnlessStarted ==
  LET j == switching.at
      R == UNION {NamedIn[k] : k \in JointsOf(switching.stop)}
             \ JointsOf(switching.start)
  IN
  /\ switching.stage = "reset"
  /\ effort' = IF j \in R THEN [effort EXCEPT ![j] = 0] ELSE effort
  /\ overtaken' = IF j \in R THEN overtaken \ {j} ELSE overtaken
  /\ untouched' = IF j \in R THEN untouched \ {j} ELSE untouched
  /\ switching' = IF j < NumJoints
                    THEN [switching EXCEPT !.at = @ + 1]
                    ELSE [switching EXCEPT !.at = 1, !.stage = "modes"]
  /\ UNCHANGED <<mode, refused>> /\ Elsewhere

\* The commands of the joints whose names occur in a stopped interface.
ResetJoint ==
  LET j == switching.at
      R == UNION {NamedIn[k] : k \in JointsOf(switching.stop)}
  IN
  /\ switching.stage = "reset"
  /\ effort' = IF j \in R THEN [effort EXCEPT ![j] = 0] ELSE effort
  /\ overtaken' = IF j \in R THEN overtaken \ {j} ELSE overtaken
  /\ untouched' = IF j \in R THEN untouched \ {j} ELSE untouched
  /\ switching' = IF j < NumJoints
                    THEN [switching EXCEPT !.at = @ + 1]
                    ELSE [switching EXCEPT !.at = 1, !.stage = "modes"]
  /\ UNCHANGED <<mode, refused>> /\ Elsewhere

\* Seeded bug: one element too many.
AssignModeTooFar ==
  /\ switching.stage = "modes"
  /\ mode' = [mode EXCEPT ![switching.at] = NewMode(switching.at)]
  /\ switching' = IF switching.at <= NumJoints
                    THEN [switching EXCEPT !.at = @ + 1]
                    ELSE [switching EXCEPT !.stage = "prepared"]
  /\ UNCHANGED <<commandVars, refused>> /\ Elsewhere

\* hw_control_level_ = new_modes, element by element.
AssignMode ==
  /\ switching.stage = "modes"
  /\ mode' = [mode EXCEPT ![switching.at] = NewMode(switching.at)]
  /\ switching' = IF switching.at < NumJoints
                    THEN [switching EXCEPT !.at = @ + 1]
                    ELSE [switching EXCEPT !.stage = "prepared"]
  /\ UNCHANGED <<commandVars, refused>> /\ Elsewhere

\* This component or, after its preparation, another one has refused.
Abandon ==
  /\ switching.stage \in {"refused", "prepared"}
  /\ refused' = (refused \/ switching.stage = "prepared")
  /\ switching' = NoSwitch
  /\ UNCHANGED <<commandVars, mode>> /\ Elsewhere

\* The real-time loop replaces the controllers.
PerformSwitch ==
  /\ switching.stage = "prepared" /\ call = Idle
  /\ running' = (running \ switching.stop) \cup switching.start
  /\ switching' = NoSwitch /\ refused' = FALSE
  /\ UNCHANGED <<component, call, failed, fd, commandVars, mode, busVars, lost>>

-----------------------------------------------------------------------------

HNext ==
  \/ ForeignFrame
  \/ Configure \/ ConfigureFails \/ Cleanup
  \/ Activate \/ Deactivate \/ Destroy
  \/ ZeroFrame \/ StartFrame \/ ExitFrame \/ ExitHangs
  \/ Update \/ StartWrite \/ SendCommand \/ ReadReply
  \/ Prepare \/ ResetJoint \/ AssignMode \/ Abandon \/ PerformSwitch

HSpec == HInit /\ [][HNext]_hwvars

-----------------------------------------------------------------------------
(* Properties                                                               *)

\* Types.
HTypeOK ==
  /\ component \in {"unconfigured", "inactive", "active", "finalized",
                    "destroyed", "hung"}
  /\ call \in [op : {"none", "zero", "start", "exit", "destroy", "send",
                     "read"}, at : 0 .. NumJoints]
  /\ fd \in {"unset", "open", "closed"} /\ {failed, refused} \subseteq BOOLEAN
  /\ effort \in [Joints -> AllEfforts]
  /\ mode \in [Joints -> Modes]
  /\ switching.stage \in {"none", "refused", "reset", "modes", "prepared"}
  /\ switching.at \in 0 .. NumJoints
  /\ running \cup switching.start \cup switching.stop \subseteq Controllers
  /\ enabled \in [Joints -> BOOLEAN] /\ unread \in [Joints -> 0 .. MaxUnread]
  /\ foreign \in Nat /\ displaced \in Nat /\ foreign + displaced <= MaxForeign
  /\ executes \in [Joints -> [asked : AllEfforts, sign : -1 .. 1]]
  /\ lost \cup overtaken \cup untouched \subseteq Joints

\* The destructor's promise "Ensure on_deactivate is called and joints are
\* deactivated on SIGINT" (line 9): whatever state and call has failed before,
\* only a motor that did not hear its own exit frame is still enabled.
DestroyedMeansOff ==
  component = "destroyed" => \A j \in Joints : enabled[j] => j \in lost

\* "to ensure alternating writes/reads" (line 364): between two calls no more
\* replies are left, to be taken for answers to later commands, than write() has
\* read frames of other devices in their place; without such frames there is none.
Alternates ==
  component \in {"inactive", "active"} /\ call = Idle
    => Cardinality(Tokens(unread)) <= displaced

\* After a switch no joint keeps the mode, and with it the gains, of a
\* controller that is gone.
ModeIsClaimed ==
  component \in {"inactive", "active"} /\ switching = NoSwitch /\ ~refused =>
    \A j \in Joints : mode[j] # "UNDEFINED" => j \in JointsOf(running)

\* A joint without a controller gets no torque, in whatever mode it is, unless
\* a stopped controller commanded it once more after the reset or it still has
\* the initial effort of its configuration, which no controller has replaced.
StoppedEffortIsZero ==
  component \in {"inactive", "active"} /\ switching = NoSwitch =>
    \A j \in Joints \ overtaken :
      <<j, "effort">> \notin ClaimsOf(running) =>
        effort[j] = IF j \in untouched THEN Initial[j] ELSE 0

SameDirection(x) ==
  (x.asked > 0 => x.sign > 0) /\ (x.asked < 0 => x.sign < 0)

\* The torque of a motor has the direction asked for, also beyond the limits,
\* as long as the motor's maximum is not reached.
DirectionKept ==
  \A j \in Joints :
    (IF j \in Invert THEN -executes[j].asked ELSE executes[j].asked)
      < Limits.t.hi => SameDirection(executes[j])

\* pack_cmd: "limit data to be within bounds"; float_to_uint: "Converts a float
\* to an unsigned int, given range and number of bits".
LimitedCommandIsKept == \A j \in Joints : SameDirection(executes[j])
=============================================================================
