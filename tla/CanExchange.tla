----------------------------- MODULE CanExchange ----------------------------
(***************************************************************************)
(* One CAN device (class CubemarsCan) with the motors on its bus: the      *)
(* control frames that enable, zero and disable a motor, and the cycle     *)
(* send_and_receive.  A reply may be lost or arrive late; the kernel keeps *)
(* it in the socket's queue until somebody reads a frame.                  *)
(***************************************************************************)
EXTENDS Integers, Sequences, FiniteSets

CONSTANTS
  NumJoints,    \* joints on this interface
  V3,           \* those of the V3 series; the others are V2
  ErrorFrames,  \* enable_can_error_frames
  MaxTrials,    \* can_initial_connection_trials
  MaxErrSkips,  \* error frames after which a cycle gives up on a reply: 16
  MaxInbox,     \* bound: frames in the socket's queue
  MaxLate       \* bound: replies of one motor that are under way

Joints == 1 .. NumJoints

ASSUME ExchangeAssumption ==
  /\ NumJoints \in Nat \ {0} /\ V3 \subseteq Joints /\ ErrorFrames \in BOOLEAN
  /\ {MaxTrials, MaxErrSkips, MaxInbox, MaxLate} \subseteq Nat \ {0}

VARIABLES
  task,         \* what the device's user is doing
  plan,         \* the motor control operations still to run
  frame,        \* the control frame the first of them is at
  waiting,      \* that frame is written, its reply not read
  trial,        \* failed trials of the first frame to a V3 motor
  longTimeout,  \* SO_RCVTIMEO is the ten seconds of a zero position
  mistaken,     \* history: V2 joints for whose reply to a control frame of this
                \* configuration somebody else's frame was taken
  next,         \* i of the loops of send_and_receive
  errSkips,     \* err_skips
  sendOk,       \* send_ok_
  status,       \* communication_status of each joint
  sample,       \* history: which command a joint's reply of this cycle answers
  before,       \* history: replies not read when the cycle began
  inbox,        \* the socket's receive queue
  wire,         \* replies of each motor that have not arrived
  on            \* whether a V2 motor is in motor control mode

planVars    == <<plan, frame, waiting, trial, longTimeout>>
controlVars == <<planVars, mistaken>>
loopVars    == <<next, errSkips>>
resultVars  == <<sendOk, status, sample, before>>
busVars     == <<inbox, wire, on>>
evars       == <<task, controlVars, loopVars, resultVars, busVars>>

Statuses == {"SUCCESS", "CAN_WRITE_FAILED", "CAN_READ_FAILED",
             "CAN_NO_RESPONSE", "CAN_WRITE_FAILED_BUT_RESPONSE_RECEIVED"}

\* Senders of frames besides the joints: the driver itself, reporting a bus
\* error, and anybody else whose frames pass the filter and carry no joint's id.
BusError == 0
Foreign  == NumJoints + 1

Operations == [op : {"start", "end"}, joint : Joints, zero : BOOLEAN]

Start(j, z) == [op |-> "start", joint |-> j, zero |-> z]
End(j)      == [op |-> "end", joint |-> j, zero |-> FALSE]

EndAll      == [j \in Joints |-> End(j)]
StartAll(Z) == [j \in Joints |-> Start(j, j \in Z)]

\* set_all_motors_origin_here disables and enables one joint after the other,
\* set_motor_origin_here first disables all and then zeroes only joint z.
ZeroEach    == [k \in 1 .. 2 * NumJoints |->
                  IF k % 2 = 1 THEN End((k + 1) \div 2)
                               ELSE Start(k \div 2, TRUE)]
ZeroOnly(z) == EndAll \o StartAll({z})

ControlTasks ==
  {"configure", "misconfigured", "calibrate", "emergency", "disable"}

\* Replies that nobody has read yet: those in the queue, at their places, and
\* those under way, of each motor the first, the second and so on.
Queued(q)   == {k \in DOMAIN q : q[k].from \in Joints}
UnderWay(w) == {x \in Joints \X (1 .. MaxLate) : x[2] <= Len(w[x[1]])}
Backlog     == Cardinality(Queued(inbox)) + Cardinality(UnderWay(wire))

\* The vectors of a new device and of the node's joint states.
NothingSent == [j \in Joints |-> FALSE]
FreshStatus == [j \in Joints |-> "SUCCESS"]
NoSample    == [j \in Joints |-> "none"]

EInit ==
  /\ task = "closed"
  /\ plan = <<>> /\ frame = "end" /\ waiting = FALSE /\ trial = 0
  /\ longTimeout = FALSE /\ mistaken = {}
  /\ next = 1 /\ errSkips = 0
  /\ sendOk = NothingSent /\ status = FreshStatus
  /\ sample = NoSample /\ before = 0
  /\ inbox = <<>>
  /\ wire = [j \in Joints |-> <<>>]
  /\ on = [j \in Joints |-> FALSE]

-----------------------------------------------------------------------------
(* Motor control operations                                                 *)

\* A V3 motor first gets a frame that may be repeated, then the zero
\* position, if asked for, then the frame that enables it.
FirstFrame(o) ==
  CASE o.op = "end"    -> "end"
    [] o.joint \in V3  -> "retry"
    [] o.zero          -> "zero"
    [] OTHER           -> "start"

\* Runs the operations of p, with the socket's timeout at its long value if
\* it was before or the first frame sets a zero position.
Begin(t, p, long) ==
  /\ task' = t /\ plan' = p
  /\ frame' = FirstFrame(Head(p)) /\ trial' = 0 /\ waiting' = FALSE
  /\ longTimeout' = (long \/ FirstFrame(Head(p)) = "zero")

Rest(t, long) ==
  /\ task' = t /\ plan' = <<>> /\ waiting' = FALSE /\ trial' = 0
  /\ frame' = "end" /\ longTimeout' = long

\* The first operation is over; t is the task from here on.  A configuration
\* tries every motor and disables them all if one has failed.
Advance(t, long) ==
  \/ Len(plan) > 1 /\ Begin(t, Tail(plan), long)
  \/ Len(plan) = 1 /\ t = "misconfigured" /\ Begin("disable", EndAll, long)
  \/ Len(plan) = 1 /\ t \in {"configure", "calibrate"} /\ Rest("idle", long)
  \/ Len(plan) = 1 /\ t \in {"emergency", "disable"} /\ Rest("closed", long)

\* An exception leaves the operation.  A calibration then disables all motors,
\* stops at the first that fails and leaves the rest to cleanup().
Throw ==
  \/ task \in {"configure", "misconfigured"}
       /\ Advance("misconfigured", longTimeout)
  \/ task = "calibrate" /\ Begin("emergency", EndAll, longTimeout)
  \/ task = "emergency" /\ Begin("disable", EndAll, longTimeout)
  \/ task = "disable" /\ Advance("disable", longTimeout)

\* Seeded bug: the trials are not counted.
DeviceErrorRetriesForever ==
  \/ /\ frame = "retry"
     /\ waiting' = FALSE
     /\ UNCHANGED <<task, plan, frame, trial, longTimeout>>
  \/ frame # "retry" /\ Throw

\* A can_device_error: nothing written, no reply, or another motor's reply.
DeviceError ==
  \/ /\ frame = "retry" /\ trial + 1 < MaxTrials
     /\ trial' = trial + 1 /\ waiting' = FALSE
     /\ UNCHANGED <<task, plan, frame, longTimeout>>
  \/ ~(frame = "retry" /\ trial + 1 < MaxTrials) /\ Throw

\* Seeded bug: the timeout of the zero position stays.
FrameConfirmedKeepsTimeout ==
  LET o == Head(plan) IN
  \/ /\ frame = "retry"
     /\ frame' = (IF o.zero THEN "zero" ELSE "start")
     /\ longTimeout' = (longTimeout \/ o.zero)
     /\ waiting' = FALSE /\ UNCHANGED <<task, plan, trial>>
  \/ /\ frame = "zero" /\ frame' = "start"
     /\ waiting' = FALSE /\ UNCHANGED <<task, plan, trial, longTimeout>>
  \/ frame \in {"start", "end"} /\ Advance(task, longTimeout)

\* The reply carries the motor's id and no fault.
FrameConfirmed ==
  LET o == Head(plan) IN
  \/ /\ frame = "retry"
     /\ frame' = (IF o.zero THEN "zero" ELSE "start")
     /\ longTimeout' = (longTimeout \/ o.zero)
     /\ waiting' = FALSE /\ UNCHANGED <<task, plan, trial>>
  \/ /\ frame = "zero" /\ frame' = "start"
     /\ waiting' = FALSE /\ UNCHANGED <<task, plan, trial, longTimeout>>
  \/ frame \in {"start", "end"} /\ Advance(task, longTimeout /\ ~o.zero)

\* Motor j hears a frame, which switches it to p, or does not; if it hears
\* the frame it replies, unless the reply is lost at once.
Transmit(j, fresh, p) ==
  \/ /\ on' \in {on, [on EXCEPT ![j] = p]}
     /\ UNCHANGED wire
  \/ /\ Len(wire[j]) < MaxLate
     /\ wire' = [wire EXCEPT ![j] = Append(@, fresh)]
     /\ on' = [on EXCEPT ![j] = p]

SwitchedTo(j) ==
  CASE frame = "start" -> TRUE [] frame = "end" -> FALSE [] OTHER -> on[j]

SendControl ==
  /\ task \in ControlTasks /\ ~waiting
  /\ \/ DeviceError /\ UNCHANGED <<wire, on>>
     \/ /\ waiting' = TRUE
        /\ Transmit(Head(plan).joint, FALSE, SwitchedTo(Head(plan).joint))
        /\ UNCHANGED <<task, plan, frame, trial, longTimeout>>
  /\ UNCHANGED <<mistaken, loopVars, resultVars, inbox>>

\* Whose frame may pass for the reply of motor j.  A V2 motor is recognised by
\* the first byte of whatever has arrived: in a V3 motor's reply this is the high
\* byte of the position, in a report of the driver a bit's number.  A V3 motor is
\* recognised by the lowest byte of the identifier: in a report, the error's class.
MayPassFor(j) ==
  {j} \cup (IF j \in V3 THEN {} ELSE V3) \cup (IF ErrorFrames THEN {BusError} ELSE {})

Mistake(s, j) ==
  mistaken' = IF task = "configure" /\ j \notin V3 /\ s # j
                THEN mistaken \cup {j} ELSE mistaken

\* Seeded bug: whatever arrives is taken for the motor's reply.
ReadControlAnyId ==
  LET j == Head(plan).joint IN
  /\ task \in ControlTasks /\ waiting
  /\ \/ DeviceError /\ UNCHANGED <<inbox, mistaken>>
     \/ /\ inbox # <<>> /\ inbox' = Tail(inbox)
        /\ FrameConfirmed \/ Throw
        /\ IF Head(inbox).from \in MayPassFor(j)
             THEN Mistake(Head(inbox).from, j) ELSE UNCHANGED mistaken
  /\ UNCHANGED <<loopVars, resultVars, wire, on>>

\* The read fails or times out, or returns a frame that is not taken for the
\* motor's reply, or one that is and that may report a fault (motor_error).
ReadControl ==
  LET j == Head(plan).joint IN
  /\ task \in ControlTasks /\ waiting
  /\ \/ DeviceError /\ UNCHANGED <<inbox, mistaken>>
     \/ /\ inbox # <<>> /\ inbox' = Tail(inbox)
        /\ Head(inbox).from # j /\ DeviceError
        /\ UNCHANGED mistaken
     \/ /\ inbox # <<>> /\ inbox' = Tail(inbox)
        /\ Head(inbox).from \in MayPassFor(j) /\ (FrameConfirmed \/ Throw)
        /\ Mistake(Head(inbox).from, j)
  /\ UNCHANGED <<loopVars, resultVars, wire, on>>

\* A new socket.  Replies to the frames of an earlier one are gone.
Configure ==
  /\ task = "closed"
  /\ \E Z \in SUBSET Joints : Begin("configure", StartAll(Z), FALSE)
  /\ inbox' = <<>> /\ wire' = [j \in Joints |-> <<>>]
  /\ sendOk' = NothingSent /\ status' = FreshStatus
  /\ sample' = NoSample /\ before' = 0 /\ mistaken' = {}
  /\ UNCHANGED <<loopVars, on>>

Ready == task \in {"idle", "done"}

ForgetCycle ==
  /\ sample' = NoSample /\ before' = 0 /\ mistaken' = {}
  /\ UNCHANGED <<sendOk, status>>

Calibrate ==
  /\ Ready
  /\ \/ Begin("calibrate", ZeroEach, longTimeout)
     \/ \E z \in Joints : Begin("calibrate", ZeroOnly(z), longTimeout)
  /\ ForgetCycle
  /\ UNCHANGED <<loopVars, busVars>>

Cleanup ==
  /\ Ready
  /\ Begin("disable", EndAll, longTimeout)
  /\ ForgetCycle
  /\ UNCHANGED <<loopVars, busVars>>

-----------------------------------------------------------------------------
(* send_and_receive                                                         *)

\* Whatever is under way or in the queue by now answers an earlier command.
StartCycle ==
  /\ Ready
  /\ task' = "write" /\ next' = 1
  /\ sample' = [j \in Joints |-> "none"] /\ before' = Backlog /\ mistaken' = {}
  /\ inbox' = [k \in DOMAIN inbox |-> [inbox[k] EXCEPT !.fresh = FALSE]]
  /\ wire' = [j \in Joints |-> [k \in DOMAIN wire[j] |-> FALSE]]
  /\ UNCHANGED <<planVars, errSkips, sendOk, status, on>>

\* Seeded bug: a written command does not reset the joint's status.
WriteCommandKeepsStatus ==
  /\ task = "write"
  /\ \/ /\ sendOk' = [sendOk EXCEPT ![next] = FALSE]
        /\ status' = [status EXCEPT ![next] = "CAN_WRITE_FAILED"]
        /\ UNCHANGED <<wire, on>>
     \/ /\ sendOk' = [sendOk EXCEPT ![next] = TRUE]
        /\ UNCHANGED status
        /\ Transmit(next, TRUE, on[next])
  /\ next' = (next % NumJoints) + 1
  /\ task' = (IF next = NumJoints THEN "read" ELSE "write")
  /\ UNCHANGED <<controlVars, errSkips, sample, before, inbox>>

\* Writes the command of joint next, which succeeds or not.
WriteCommand ==
  /\ task = "write"
  /\ \/ /\ sendOk' = [sendOk EXCEPT ![next] = FALSE]
        /\ status' = [status EXCEPT ![next] = "CAN_WRITE_FAILED"]
        /\ UNCHANGED <<wire, on>>
     \/ /\ sendOk' = [sendOk EXCEPT ![next] = TRUE]
        /\ status' = [status EXCEPT ![next] = "CAN_NO_RESPONSE"]
        /\ Transmit(next, TRUE, on[next])
  /\ next' = (next % NumJoints) + 1
  /\ task' = (IF next = NumJoints THEN "read" ELSE "write")
  /\ UNCHANGED <<controlVars, errSkips, sample, before, inbox>>

\* Seeded bug: one joint too many.
NextJointTooFar ==
  /\ errSkips' = 0
  /\ next' = next + 1
  /\ task' = (IF next > NumJoints THEN "done" ELSE "read")

\* The read loop goes on with the next joint.
NextJoint ==
  /\ errSkips' = 0
  /\ next' = (next % NumJoints) + 1
  /\ task' = (IF next = NumJoints THEN "done" ELSE "read")

Reading == task = "read" /\ sendOk[next]

SkipUnsent ==
  /\ task = "read" /\ ~sendOk[next]
  /\ NextJoint
  /\ UNCHANGED <<controlVars, resultVars, busVars>>

MarkReadFailed ==
  /\ status' = [status EXCEPT ![next] = "CAN_READ_FAILED"]
  /\ UNCHANGED <<sendOk, sample, before>>

\* recvmsg times out or fails: the joint the loop is at has no reply, even if
\* its reply has been read in the place of another's.
ReadFails ==
  /\ Reading
  /\ MarkReadFailed
  /\ NextJoint
  /\ UNCHANGED <<controlVars, busVars>>

\* Seeded bug: no guard against a storm of error frames.
ReadErrorFrameForever ==
  /\ Reading /\ inbox # <<>> /\ Head(inbox).from = BusError
  /\ inbox' = Tail(inbox)
  /\ UNCHANGED <<task, loopVars, resultVars, controlVars, wire, on>>

\* An error frame costs one more read, too many of them the reply.
ReadErrorFrame ==
  /\ Reading /\ inbox # <<>> /\ Head(inbox).from = BusError
  /\ inbox' = Tail(inbox)
  /\ \/ /\ errSkips + 1 < MaxErrSkips
        /\ errSkips' = errSkips + 1
        /\ UNCHANGED <<task, next, resultVars>>
     \/ errSkips + 1 >= MaxErrSkips /\ MarkReadFailed /\ NextJoint
  /\ UNCHANGED <<controlVars, wire, on>>

\* A frame that is no reply of a joint takes the place of a reply.
ReadForeignFrame ==
  /\ Reading /\ inbox # <<>> /\ Head(inbox).from = Foreign
  /\ inbox' = Tail(inbox)
  /\ NextJoint
  /\ UNCHANGED <<controlVars, resultVars, wire, on>>

\* Seeded bug: a reply makes a success even of a joint that was sent nothing.
ReadReplyAlwaysSuccess ==
  /\ Reading /\ inbox # <<>> /\ Head(inbox).from \in Joints
  /\ LET f == Head(inbox) IN
       /\ status' = [status EXCEPT ![f.from] = "SUCCESS"]
       /\ sample' = [sample EXCEPT ![f.from] =
                       IF f.fresh THEN "fresh" ELSE "stale"]
  /\ inbox' = Tail(inbox)
  /\ NextJoint
  /\ UNCHANGED <<controlVars, sendOk, before, wire, on>>

\* A reply goes to the joint whose id it carries, whatever joint the loop is
\* at and whatever command it answers.
ReadReply ==
  /\ Reading /\ inbox # <<>> /\ Head(inbox).from \in Joints
  /\ LET f == Head(inbox) IN
       /\ status' = [status EXCEPT ![f.from] =
                       IF sendOk[f.from] THEN "SUCCESS"
                       ELSE "CAN_WRITE_FAILED_BUT_RESPONSE_RECEIVED"]
       /\ sample' = [sample EXCEPT ![f.from] =
                       IF f.fresh THEN "fresh" ELSE "stale"]
  /\ inbox' = Tail(inbox)
  /\ NextJoint
  /\ UNCHANGED <<controlVars, sendOk, before, wire, on>>

-----------------------------------------------------------------------------
(* The bus                                                                  *)

BusUnchanged == UNCHANGED <<task, controlVars, loopVars, resultVars, on>>

\* The oldest reply of motor j arrives in the queue, which may be full.
Deliver(j) ==
  /\ task # "closed" /\ wire[j] # <<>> /\ Len(inbox) < MaxInbox
  /\ inbox' = Append(inbox, [from |-> j, fresh |-> Head(wire[j])])
  /\ wire' = [wire EXCEPT ![j] = Tail(@)]
  /\ BusUnchanged

Lose(j) ==
  /\ task # "closed" /\ wire[j] # <<>>
  /\ wire' = [wire EXCEPT ![j] = Tail(@)]
  /\ UNCHANGED inbox /\ BusUnchanged

Disturb ==
  /\ task # "closed" /\ Len(inbox) < MaxInbox
  /\ \E s \in {Foreign} \cup (IF ErrorFrames THEN {BusError} ELSE {}) :
       inbox' = Append(inbox, [from |-> s, fresh |-> FALSE])
  /\ UNCHANGED wire /\ BusUnchanged

DeviceStep ==
  \/ SendControl \/ ReadControl
  \/ WriteCommand
  \/ SkipUnsent \/ ReadFails \/ ReadErrorFrame \/ ReadForeignFrame
  \/ ReadReply

ENext ==
  \/ DeviceStep
  \/ Configure \/ Calibrate \/ Cleanup \/ StartCycle
  \/ \E j \in Joints : Deliver(j) \/ Lose(j)
  \/ Disturb

ESpec == EInit /\ [][ENext]_evars

\* A read returns at the latest with the socket's timeout.  Nothing is
\* assumed of the motors, of the bus or of the device's users.
EFairSpec == ESpec /\ WF_evars(DeviceStep)

-----------------------------------------------------------------------------
(* Properties                                                               *)

\* Types; the loops never leave the joints, a plan is never empty while it
\* runs, and neither trials nor error frames exceed what the code allows.
ETypeOK ==
  /\ task \in ControlTasks \cup {"closed", "idle", "write", "read", "done"}
  /\ plan \in Seq(Operations) /\ (task \in ControlTasks <=> plan # <<>>)
  /\ frame \in {"retry", "zero", "start", "end"}
  /\ {waiting, longTimeout} \subseteq BOOLEAN /\ mistaken \subseteq Joints \ V3
  /\ trial \in 0 .. MaxTrials - 1 /\ errSkips \in 0 .. MaxErrSkips - 1
  /\ next \in Joints
  /\ sendOk \in [Joints -> BOOLEAN] /\ status \in [Joints -> Statuses]
  /\ sample \in [Joints -> {"none", "stale", "fresh"}]
  /\ before \in Nat
  /\ inbox \in Seq([from : 0 .. NumJoints + 1, fresh : BOOLEAN])
  /\ wire \in [Joints -> Seq(BOOLEAN)] /\ on \in [Joints -> BOOLEAN]

\* After a cycle a joint's status tells whether its command was written and a
\* reply of it was read; only CAN_READ_FAILED leaves the second open, because
\* a failed read is charged to the joint the loop is at (cubemars_can.cpp:366).
StatusIsHonest ==
  task = "done" =>
    \A j \in Joints :
      /\ sendOk[j] <=> status[j] \notin
           {"CAN_WRITE_FAILED", "CAN_WRITE_FAILED_BUT_RESPONSE_RECEIVED"}
      /\ status[j] \in {"CAN_WRITE_FAILED", "CAN_NO_RESPONSE"}
           => sample[j] = "none"
      /\ status[j] \in {"SUCCESS", "CAN_WRITE_FAILED_BUT_RESPONSE_RECEIVED"}
           => sample[j] # "none"

\* Unread replies do not pile up behind good cycles: a cycle that reports
\* SUCCESS for every joint leaves no more of them than it found.  A lag of the
\* states behind the commands can only grow in a cycle the node counts as bad.
NoHiddenBacklog ==
  (task = "done" /\ \A j \in Joints : status[j] = "SUCCESS")
    => Backlog <= before

\* A cycle runs with the configured timeout, never with the ten seconds of a
\* zero position, though an exception in start_motor_control_mode skips the
\* reset at cubemars_can.cpp:598: the device is then always deleted.
CyclesWaitShortly == task \in {"write", "read"} => ~longTimeout

\* A configuration that succeeds has switched on every V2 motor, except one that
\* a late reply to the trials of a V3 motor, whose position's high byte is its id
\* (cubemars_can.cpp:202), or a report of a bus error has confirmed in its place.
ConfiguredMeansEnabled ==
  [][task = "configure" /\ task' = "idle"
       => \A j \in Joints \ V3 : on'[j] \/ j \in mistaken']_evars

\* Every cycle ends, also in a storm of error frames (the guard of
\* cubemars_can.cpp:357).
CycleEnds == task \in {"write", "read"} ~> task = "done"

\* Enabling, calibrating and disabling end, whatever the motors answer.
ControlEnds == task \in ControlTasks ~> task \in {"idle", "closed"}

\* The node calls a reply fresh when the status is SUCCESS: "Needs a fresh
\* reply this cycle" (cubemars_hardware_node.cpp:1110).
SuccessIsFresh ==
  task = "done" => \A j \in Joints : status[j] = "SUCCESS" => sample[j] = "fresh"
=============================================================================
