--------------------------- MODULE ExchangeProofs ---------------------------
(***************************************************************************)
(* Proofs about a CAN device with any number of motors, of either series,  *)
(* for every number of trials and of error frames, on a bus that loses,    *)
(* delays and adds frames: the loops stay within the joints and within     *)
(* their bounds, the status of a joint is honest, a good cycle leaves no   *)
(* more unread replies than it found, a cycle never waits with the timeout *)
(* of a zero position, a configuration that succeeds has switched on every *)
(* V2 motor but those for whose reply another frame was taken, and cycles  *)
(* and operations are over after boundedly many steps of the device.       *)
(***************************************************************************)
EXTENDS CanExchange, SequenceTheorems, FiniteSetTheorems, TLAPS

\* The loops of send_and_receive stay within the joints.
LEMMA NextIsJoint ==
  ASSUME NEW n \in Joints
  PROVE  (n % NumJoints) + 1 \in Joints
BY ExchangeAssumption DEF Joints

LEMMA NextIsSuccessor ==
  ASSUME NEW n \in Joints, n # NumJoints
  PROVE  (n % NumJoints) + 1 = n + 1
BY ExchangeAssumption DEF Joints

-----------------------------------------------------------------------------
(* The status of a joint                                                    *)

CycleTypes ==
  /\ next \in Joints
  /\ sendOk \in [Joints -> BOOLEAN] /\ status \in [Joints -> Statuses]
  /\ sample \in [Joints -> {"none", "stale", "fresh"}]

\* Success of the write, status and reply of a joint agree.
Agree(ok, st, reply) ==
  /\ ok <=> st \notin {"CAN_WRITE_FAILED", "CAN_WRITE_FAILED_BUT_RESPONSE_RECEIVED"}
  /\ st \in {"CAN_WRITE_FAILED", "CAN_NO_RESPONSE"} => reply = "none"
  /\ st \in {"SUCCESS", "CAN_WRITE_FAILED_BUT_RESPONSE_RECEIVED"} => reply # "none"

Honest(j) == Agree(sendOk[j], status[j], sample[j])

\* While the commands are written, those before the next one are honest and
\* no joint has a reply of this cycle.
HonestInv ==
  /\ task = "write" => /\ \A j \in 1 .. (next - 1) : Honest(j)
                       /\ \A j \in Joints : sample[j] = "none"
  /\ task \in {"read", "done"} => \A j \in Joints : Honest(j)

\* What the motor control operations leave of a cycle.
ControlFrame ==
  /\ task' \in ControlTasks \cup {"idle", "closed"}
  /\ UNCHANGED <<next, sendOk, status>>

LEMMA ControlLeavesCycle ==
  ASSUME SendControl \/ ReadControl
  PROVE  ControlFrame /\ UNCHANGED sample
<1> USE DEF ControlFrame, ControlTasks, loopVars, resultVars, Begin, Rest, Advance, Throw
<1>1. ASSUME DeviceError, task \in ControlTasks
      PROVE  task' \in ControlTasks \cup {"idle", "closed"}
  BY <1>1 DEF DeviceError
<1>2. ASSUME FrameConfirmed, task \in ControlTasks
      PROVE  task' \in ControlTasks \cup {"idle", "closed"}
  BY <1>2 DEF FrameConfirmed
<1>3. CASE SendControl
  BY <1>1, <1>3 DEF SendControl
<1>4. CASE ReadControl
  BY <1>1, <1>2, <1>4 DEF ReadControl
<1> QED
  BY <1>3, <1>4

\* The frames of the bus touch nothing of the device.
LEMMA BusLeavesDevice ==
  ASSUME (\E j \in Joints : Deliver(j) \/ Lose(j)) \/ Disturb
  PROVE  UNCHANGED <<task, controlVars, loopVars, resultVars, on>>
BY DEF Deliver, Lose, Disturb, BusUnchanged

LEMMA CycleTypesStep ==
  ASSUME CycleTypes, [ENext]_evars
  PROVE  CycleTypes'
<1> USE DEF CycleTypes, loopVars, resultVars, NextJoint, MarkReadFailed, Statuses,
            ForgetCycle, NoSample
<1>0. (next % NumJoints) + 1 \in Joints
  BY NextIsJoint
<1>1. CASE SendControl \/ ReadControl
  BY <1>1, ControlLeavesCycle DEF ControlFrame
<1>2. CASE WriteCommand
  BY <1>0, <1>2 DEF WriteCommand
<1>3. CASE SkipUnsent \/ ReadFails \/ ReadForeignFrame
  BY <1>0, <1>3 DEF SkipUnsent, ReadFails, ReadForeignFrame
<1>4. CASE ReadErrorFrame
  BY <1>0, <1>4 DEF ReadErrorFrame
<1>5. CASE ReadReply
  BY <1>0, <1>5 DEF ReadReply
<1>6. CASE Configure
  BY <1>6 DEF Configure, NothingSent, FreshStatus
<1>7. CASE Calibrate \/ Cleanup
  BY <1>7 DEF Calibrate, Cleanup
<1>8. CASE StartCycle
  BY <1>8, ExchangeAssumption DEF StartCycle, Joints
<1>9. CASE (\E j \in Joints : Deliver(j) \/ Lose(j)) \/ Disturb
  BY <1>9, BusLeavesDevice
<1>10. CASE UNCHANGED evars
  BY <1>10 DEF evars
<1> QED
  BY <1>1, <1>2, <1>3, <1>4, <1>5, <1>6, <1>7, <1>8, <1>9, <1>10
  DEF ENext, DeviceStep

LEMMA HonestStep ==
  ASSUME CycleTypes, HonestInv, [ENext]_evars
  PROVE  HonestInv'
<1> USE DEF CycleTypes, HonestInv, Honest, Agree, loopVars, resultVars
<1>1. CASE SendControl \/ ReadControl
  BY <1>1, ControlLeavesCycle DEF ControlFrame, ControlTasks
<1>2. CASE WriteCommand
  <2>1. /\ sendOk' = [sendOk EXCEPT ![next] = FALSE]
           /\ status' = [status EXCEPT ![next] = "CAN_WRITE_FAILED"]
        \/ /\ sendOk' = [sendOk EXCEPT ![next] = TRUE]
           /\ status' = [status EXCEPT ![next] = "CAN_NO_RESPONSE"]
    BY <1>2 DEF WriteCommand
  <2>2. sample' = sample /\ \A j \in Joints : sample[j] = "none"
    BY <1>2 DEF WriteCommand
  <2>3. \A j \in 1 .. (next - 1) : j \in Joints /\ j # next /\ Honest(j)
    BY <1>2, ExchangeAssumption DEF WriteCommand, Joints
  <2>4. Agree(sendOk'[next], status'[next], sample'[next])
    BY <2>1, <2>2
  <2>5. \A j \in 1 .. (next - 1) : Agree(sendOk'[j], status'[j], sample'[j])
    BY <2>1, <2>2, <2>3
  <2> HIDE DEF Agree
  <2>6. CASE next = NumJoints
    <3>1. task' = "read" /\ \A j \in Joints : j = next \/ j \in 1 .. (next - 1)
      BY <1>2, <2>6, ExchangeAssumption DEF WriteCommand, Joints
    <3> QED
      BY <2>4, <2>5, <3>1
  <2>7. CASE next # NumJoints
    <3>1. task' = "write" /\ next' = next + 1
      BY <1>2, <2>7, NextIsSuccessor DEF WriteCommand
    <3>2. \A j \in 1 .. (next' - 1) : j = next \/ j \in 1 .. (next - 1)
      BY <3>1, ExchangeAssumption DEF Joints
    <3> QED
      BY <2>2, <2>4, <2>5, <3>1, <3>2
  <2> QED
    BY <2>6, <2>7
<1>3. CASE SkipUnsent \/ ReadForeignFrame
  BY <1>3 DEF SkipUnsent, ReadForeignFrame, NextJoint, Reading
<1>4. CASE ReadFails \/ ReadErrorFrame
  BY <1>4 DEF ReadFails, ReadErrorFrame, MarkReadFailed, NextJoint, Reading, Statuses
<1>5. CASE ReadReply
  BY <1>5 DEF ReadReply, NextJoint, Reading, Statuses
<1>6. CASE Configure
  BY <1>6 DEF Configure, Begin
<1>7. CASE Calibrate \/ Cleanup
  BY <1>7 DEF Calibrate, Cleanup, Begin
<1>8. CASE StartCycle
  BY <1>8 DEF StartCycle
<1>9. CASE (\E j \in Joints : Deliver(j) \/ Lose(j)) \/ Disturb
  BY <1>9, BusLeavesDevice
<1>10. CASE UNCHANGED evars
  BY <1>10 DEF evars
<1> QED
  BY <1>1, <1>2, <1>3, <1>4, <1>5, <1>6, <1>7, <1>8, <1>9, <1>10
  DEF ENext, DeviceStep

\* However many joints there are, and whatever is lost, late or out of order,
\* after a cycle the status of each says whether its command was written and
\* a reply of it was read.
THEOREM StatusStaysHonest == ESpec => []StatusIsHonest
<1>1. EInit => CycleTypes /\ HonestInv
  BY ExchangeAssumption
  DEF EInit, CycleTypes, HonestInv, Joints, NothingSent, FreshStatus, NoSample, Statuses
<1>2. CycleTypes /\ HonestInv /\ [ENext]_evars => (CycleTypes /\ HonestInv)'
  BY CycleTypesStep, HonestStep
<1>3. HonestInv => StatusIsHonest
  BY DEF HonestInv, Honest, Agree, StatusIsHonest
<1> QED
  BY <1>1, <1>2, <1>3, PTL DEF ESpec

-----------------------------------------------------------------------------
(* The timeout of the socket                                                *)

\* The long timeout outlives an operation only on the way to deleting the
\* device.
TimeoutInv ==
  longTimeout # FALSE =>
    \/ task \in {"misconfigured", "emergency", "disable", "closed"}
    \/ /\ task \in {"configure", "calibrate"}
       /\ frame \in {"zero", "start"} /\ Head(plan).zero

\* The operations that have failed, and their way out.
GivenUp == {"misconfigured", "emergency", "disable", "closed"}

LEMMA ZeroFrame ==
  ASSUME NEW o, FirstFrame(o) = "zero"
  PROVE  o.zero
BY DEF FirstFrame

LEMMA BeginSetsTimeout ==
  ASSUME NEW t, NEW p, Begin(t, p, FALSE)
  PROVE  longTimeout' # FALSE => frame' = "zero" /\ Head(plan').zero
BY ZeroFrame DEF Begin

LEMMA AdvanceKeepsTimeout ==
  ASSUME NEW t \in ControlTasks, NEW long \in BOOLEAN, Advance(t, long),
         long => t \in GivenUp
  PROVE  TimeoutInv'
<1>1. CASE Len(plan) > 1 /\ Begin(t, Tail(plan), long)
  <2>1. CASE t \in GivenUp
    BY <1>1, <2>1 DEF Begin, TimeoutInv, GivenUp
  <2>2. CASE t \notin GivenUp
    <3>1. long = FALSE /\ t \in {"configure", "calibrate"}
      BY <2>2 DEF GivenUp, ControlTasks
    <3> QED
      BY <1>1, <3>1, BeginSetsTimeout DEF Begin, TimeoutInv
  <2> QED
    BY <2>1, <2>2
<1>2. CASE Begin("disable", EndAll, long)
  BY <1>2 DEF Begin, TimeoutInv
<1>3. CASE t \in {"configure", "calibrate"} /\ Rest("idle", long)
  BY <1>3 DEF Rest, TimeoutInv, GivenUp
<1>4. CASE Rest("closed", long)
  BY <1>4 DEF Rest, TimeoutInv
<1> QED
  BY <1>1, <1>2, <1>3, <1>4 DEF Advance

LEMMA ThrowKeepsTimeout ==
  ASSUME longTimeout \in BOOLEAN, Throw
  PROVE  TimeoutInv'
<1>1. CASE Advance("misconfigured", longTimeout) \/ Advance("disable", longTimeout)
  BY <1>1, AdvanceKeepsTimeout DEF GivenUp, ControlTasks
<1>2. CASE Begin("emergency", EndAll, longTimeout) \/ Begin("disable", EndAll, longTimeout)
  BY <1>2 DEF Begin, TimeoutInv
<1> QED
  BY <1>1, <1>2 DEF Throw

LEMMA ControlKeepsTimeout ==
  ASSUME longTimeout \in BOOLEAN, TimeoutInv, SendControl \/ ReadControl
  PROVE  longTimeout' \in BOOLEAN /\ TimeoutInv'
<1>1. ASSUME Throw PROVE longTimeout' \in BOOLEAN /\ TimeoutInv'
  BY <1>1, ThrowKeepsTimeout DEF Throw, Advance, Begin, Rest
<1>2. ASSUME DeviceError PROVE longTimeout' \in BOOLEAN /\ TimeoutInv'
  BY <1>1, <1>2 DEF DeviceError, TimeoutInv
<1>3. ASSUME FrameConfirmed, task \in ControlTasks
      PROVE  longTimeout' \in BOOLEAN /\ TimeoutInv'
  <2> DEFINE o == Head(plan)
  <2>1. CASE frame \in {"start", "end"}
    <3> DEFINE long == longTimeout /\ ~o.zero
    <3>1. Advance(task, long)
      BY <1>3, <2>1 DEF FrameConfirmed
    <3>2. long \in BOOLEAN /\ (long => task \in GivenUp)
      BY <2>1 DEF TimeoutInv, GivenUp
    <3>3. TimeoutInv'
      <4> HIDE DEF long
      <4> QED
        BY <1>3, <3>1, <3>2, AdvanceKeepsTimeout
    <3> QED
      BY <3>1, <3>2, <3>3 DEF Advance, Begin, Rest
  <2>2. CASE frame = "retry"
    <3>1. /\ frame' = (IF o.zero THEN "zero" ELSE "start")
          /\ longTimeout' = (longTimeout \/ o.zero) /\ UNCHANGED <<task, plan>>
      BY <1>3, <2>2 DEF FrameConfirmed
    <3>2. task \in GivenUp \/ task \in {"configure", "calibrate"}
      BY <1>3 DEF ControlTasks, GivenUp
    <3> QED
      BY <2>2, <3>1, <3>2 DEF TimeoutInv, GivenUp
  <2>3. CASE frame = "zero"
    BY <1>3, <2>3 DEF FrameConfirmed, TimeoutInv
  <2> QED
    BY <1>3, <2>1, <2>2, <2>3 DEF FrameConfirmed
<1>4. CASE SendControl
  BY <1>2, <1>4 DEF SendControl, TimeoutInv
<1>5. CASE ReadControl
  BY <1>1, <1>2, <1>3, <1>5 DEF ReadControl
<1> QED
  BY <1>4, <1>5

LEMMA TimeoutStep ==
  ASSUME longTimeout \in BOOLEAN, TimeoutInv, [ENext]_evars
  PROVE  longTimeout' \in BOOLEAN /\ TimeoutInv'
<1>1. CASE SendControl \/ ReadControl
  BY <1>1, ControlKeepsTimeout
<1>2. CASE WriteCommand \/ SkipUnsent \/ ReadFails \/ ReadErrorFrame
             \/ ReadForeignFrame \/ ReadReply
  <2>1. task \in {"write", "read"} /\ UNCHANGED controlVars
    BY <1>2 DEF WriteCommand, SkipUnsent, ReadFails, ReadErrorFrame,
                ReadForeignFrame, ReadReply, Reading
  <2> QED
    BY <2>1 DEF TimeoutInv, controlVars, planVars
<1>3. CASE Configure
  <2>1. PICK p : Begin("configure", p, FALSE)
    BY <1>3 DEF Configure
  <2> QED
    BY <2>1, BeginSetsTimeout DEF Begin, TimeoutInv
<1>4. CASE Calibrate
  <2>1. longTimeout = FALSE
    BY <1>4 DEF Calibrate, Ready, TimeoutInv
  <2>2. PICK p : Begin("calibrate", p, FALSE)
    BY <1>4, <2>1 DEF Calibrate
  <2> QED
    BY <2>2, BeginSetsTimeout DEF Begin, TimeoutInv
<1>5. CASE Cleanup
  BY <1>5 DEF Cleanup, Begin, TimeoutInv
<1>6. CASE StartCycle
  BY <1>6 DEF StartCycle, Ready, controlVars, planVars, TimeoutInv
<1>7. CASE (\E j \in Joints : Deliver(j) \/ Lose(j)) \/ Disturb
  BY <1>7, BusLeavesDevice DEF controlVars, planVars, TimeoutInv
<1>8. CASE UNCHANGED evars
  BY <1>8 DEF evars, controlVars, planVars, TimeoutInv
<1> QED
  BY <1>1, <1>2, <1>3, <1>4, <1>5, <1>6, <1>7, <1>8 DEF ENext, DeviceStep

\* No cycle runs with the ten seconds of a zero position, whatever operation
\* an exception has cut short before.
THEOREM CyclesAlwaysWaitShortly == ESpec => []CyclesWaitShortly
<1> DEFINE I == longTimeout \in BOOLEAN /\ TimeoutInv
<1>1. EInit => I
  BY DEF EInit, TimeoutInv
<1>2. I /\ [ENext]_evars => I'
  BY TimeoutStep
<1>3. I => CyclesWaitShortly
  BY DEF TimeoutInv, CyclesWaitShortly
<1> HIDE DEF I
<1> QED
  BY <1>1, <1>2, <1>3, PTL DEF ESpec

-----------------------------------------------------------------------------
(* A configuration                                                          *)

BusFrame == [from : 0 .. NumJoints + 1, fresh : BOOLEAN]

\* The motor whose operation a configuration is at.
Current == NumJoints - Len(plan) + 1

\* Of the replies q in the queue and w under way, none or at most one is of
\* motor j.
Silent(q, w, j) == w[j] = <<>> /\ \A k \in 1 .. Len(q) : q[k].from # j

OneReply(q, w, j) ==
  \/ /\ w[j] = <<>>
     /\ \A k, l \in 1 .. Len(q) : q[k].from = j /\ q[l].from = j => k = l
  \/ Len(w[j]) = 1 /\ \A k \in 1 .. Len(q) : q[k].from # j

ConfigTypes ==
  /\ inbox \in Seq(BusFrame) /\ wire \in [Joints -> Seq(BOOLEAN)]
  /\ waiting \in BOOLEAN
  /\ plan \in Seq(Operations) /\ Len(plan) \in 1 .. NumJoints
  /\ \A m \in 1 .. Len(plan) :
       plan[m].op = "start" /\ plan[m].joint = NumJoints - Len(plan) + m
  /\ frame \in {"retry", "zero", "start"}
  /\ frame = "retry" => Current \in V3

\* The V2 motors the configuration has done are on, those to come have not
\* been sent anything, and a reply to the frame that switches the current one
\* on is a reply to that frame, unless another's has been taken for one of them.
Switched ==
  \A j \in Joints \ V3 :
    /\ j < Current => on[j] \/ j \in mistaken
    /\ j > Current => Silent(inbox, wire, j)
    /\ j = Current =>
         \/ j \in mistaken
         \/ ~waiting /\ Silent(inbox, wire, j)
         \/ /\ waiting /\ OneReply(inbox, wire, j)
            /\ Silent(inbox, wire, j) \/ on[j] \/ frame # "start"

ConfigInv ==
  /\ on \in [Joints -> BOOLEAN]
  /\ task = "configure" => ConfigTypes /\ Switched

LEMMA PlanHead ==
  ASSUME ConfigTypes
  PROVE  /\ Head(plan).joint = Current /\ Head(plan).op = "start"
         /\ Current \in Joints
BY ExchangeAssumption DEF ConfigTypes, Current, Joints

\* The operation of the current motor begins.
LEMMA ConfigBegins ==
  ASSUME NEW p \in Seq(Operations), NEW long, Begin("configure", p, long),
         Len(p) \in 1 .. NumJoints,
         \A m \in 1 .. Len(p) : p[m].op = "start" /\ p[m].joint = NumJoints - Len(p) + m,
         inbox' \in Seq(BusFrame), wire' \in [Joints -> Seq(BOOLEAN)]
  PROVE  ConfigTypes' /\ waiting' = FALSE /\ Current' = NumJoints - Len(p) + 1
<1>1. /\ plan' = p /\ waiting' = FALSE /\ frame' = FirstFrame(Head(p))
      /\ Current' = NumJoints - Len(p) + 1
  BY DEF Begin, Current
<1>2. Head(p).op = "start" /\ Head(p).joint = Current'
  BY <1>1
<1>3. /\ FirstFrame(Head(p)) \in {"retry", "zero", "start"}
      /\ FirstFrame(Head(p)) = "retry" => Head(p).joint \in V3
  BY <1>2 DEF FirstFrame
<1> QED
  BY <1>1, <1>2, <1>3 DEF ConfigTypes

LEMMA ConfigureBegins ==
  ASSUME Configure
  PROVE  ConfigTypes' /\ Switched'
<1>1. PICK Z \in SUBSET Joints : Begin("configure", StartAll(Z), FALSE)
  BY DEF Configure
<1>2. /\ StartAll(Z) \in Seq(Operations) /\ Len(StartAll(Z)) = NumJoints
      /\ \A m \in 1 .. NumJoints :
           StartAll(Z)[m].op = "start" /\ StartAll(Z)[m].joint = m
  BY ExchangeAssumption DEF StartAll, Start, Operations, Joints
<1>3. inbox' = <<>> /\ wire' = [j \in Joints |-> <<>>]
  BY DEF Configure
<1>4. inbox' \in Seq(BusFrame) /\ wire' \in [Joints -> Seq(BOOLEAN)]
  BY <1>3
<1>5. ConfigTypes' /\ waiting' = FALSE /\ Current' = 1
  <2> DEFINE p == StartAll(Z)
  <2>1. /\ p \in Seq(Operations) /\ Len(p) \in 1 .. NumJoints
        /\ NumJoints - Len(p) + 1 = 1
        /\ \A m \in 1 .. Len(p) : p[m].op = "start" /\ p[m].joint = NumJoints - Len(p) + m
    BY <1>2, ExchangeAssumption
  <2> HIDE DEF p
  <2> QED
    BY <1>1, <1>4, <2>1, ConfigBegins DEF p
<1>6. \A j \in Joints : Silent(inbox', wire', j)
  BY <1>3 DEF Silent
<1> QED
  BY <1>5, <1>6, ExchangeAssumption DEF Switched, Joints

\* A frame to the current motor leaves the other motors alone, and its reply is
\* the only one of a V2 motor.
LEMMA TransmitKeepsSwitched ==
  ASSUME ConfigInv, task = "configure", ~waiting, waiting' = TRUE,
         Transmit(Head(plan).joint, FALSE, SwitchedTo(Head(plan).joint)),
         UNCHANGED <<task, plan, frame, inbox, mistaken>>
  PROVE  ConfigInv'
<1> USE DEF ConfigInv
<1>0. PICK c \in Joints : c = Current /\ Head(plan).joint = c
  BY PlanHead
<1>1. Current' = c
  BY <1>0 DEF Current
<1>2. SwitchedTo(c) \in BOOLEAN /\ (frame = "start" => SwitchedTo(c) = TRUE)
  BY DEF SwitchedTo
<1>3. \/ on' \in {on, [on EXCEPT ![c] = SwitchedTo(c)]} /\ wire' = wire
      \/ /\ wire' = [wire EXCEPT ![c] = Append(wire[c], FALSE)]
         /\ on' = [on EXCEPT ![c] = SwitchedTo(c)]
  BY <1>0 DEF Transmit
<1>4. on' \in [Joints -> BOOLEAN] /\ wire' \in [Joints -> Seq(BOOLEAN)]
  <2>1. wire \in [Joints -> Seq(BOOLEAN)] /\ on \in [Joints -> BOOLEAN]
    BY DEF ConfigTypes
  <2>2. Append(wire[c], FALSE) \in Seq(BOOLEAN)
    BY <2>1
  <2>3. on' \in [Joints -> BOOLEAN]
    BY <1>2, <1>3, <2>1
  <2> QED
    BY <1>3, <2>1, <2>2, <2>3
<1>5. ConfigTypes'
  BY <1>4, <1>1, <1>0 DEF ConfigTypes
<1>6. ASSUME NEW j \in Joints \ V3, j # c
      PROVE  on'[j] = on[j] /\ wire'[j] = wire[j]
  BY <1>3, <1>6 DEF ConfigTypes
<1>7. ASSUME c \notin V3, c \notin mistaken
      PROVE  /\ OneReply(inbox, wire', c)
             /\ Silent(inbox, wire', c) \/ on'[c] \/ frame # "start"
  <2>1. Silent(inbox, wire, c)
    BY <1>0, <1>7 DEF Switched
  <2>2. CASE wire' = wire
    BY <2>1, <2>2 DEF Silent, OneReply
  <2>3. CASE wire' # wire
    <3>1. wire'[c] = Append(<<>>, FALSE) /\ on'[c] = SwitchedTo(c)
      BY <1>3, <2>1, <2>3 DEF Silent, ConfigTypes
    <3> QED
      BY <1>2, <2>1, <3>1 DEF Silent, OneReply
  <2> QED
    BY <2>2, <2>3
<1>8. Switched'
  <2> SUFFICES ASSUME NEW j \in Joints \ V3
               PROVE  /\ j < c => on'[j] \/ j \in mistaken
                      /\ j > c => Silent(inbox, wire', j)
                      /\ j = c => \/ j \in mistaken
                                  \/ /\ OneReply(inbox, wire', j)
                                     /\ Silent(inbox, wire', j) \/ on'[j] \/ frame # "start"
    BY <1>1 DEF Switched
  <2>1. CASE j = c
    BY <1>7, <2>1, ExchangeAssumption DEF Joints
  <2>2. CASE j # c
    <3>1. /\ j < c => on[j] \/ j \in mistaken
          /\ j > c => Silent(inbox, wire, j)
      BY <1>0 DEF Switched
    <3> QED
      BY <1>6, <2>2, <3>1 DEF Silent
  <2> QED
    BY <2>1, <2>2
<1> QED
  BY <1>4, <1>5, <1>8

LEMMA TailOfOne ==
  ASSUME NEW q \in Seq(BOOLEAN), Len(q) = 1
  PROVE  Tail(q) = <<>>
<1>1. q # <<>>
  BY EmptySeq
<1>2. Tail(q) \in Seq(BOOLEAN) /\ Len(Tail(q)) = 0
  BY <1>1, HeadTailProperties
<1> QED
  BY <1>2, EmptySeq

\* What the bus does to the replies under way makes none of them twice.
LEMMA BusKeepsReplies ==
  ASSUME inbox \in Seq(BusFrame), wire \in [Joints -> Seq(BOOLEAN)], NEW j \in Joints,
         (\E d \in Joints : Deliver(d) \/ Lose(d)) \/ Disturb
  PROVE  /\ inbox' \in Seq(BusFrame) /\ wire' \in [Joints -> Seq(BOOLEAN)]
         /\ Silent(inbox, wire, j) => Silent(inbox', wire', j)
         /\ OneReply(inbox, wire, j) => OneReply(inbox', wire', j)
<1>1. ASSUME NEW d \in Joints, Deliver(d)
      PROVE  /\ inbox' \in Seq(BusFrame) /\ wire' \in [Joints -> Seq(BOOLEAN)]
             /\ Silent(inbox, wire, j) => Silent(inbox', wire', j)
             /\ OneReply(inbox, wire, j) => OneReply(inbox', wire', j)
  <2> DEFINE f == [from |-> d, fresh |-> Head(wire[d])]
  <2>1. wire[d] \in Seq(BOOLEAN) /\ wire[d] # <<>>
    BY <1>1 DEF Deliver
  <2>2. f \in BusFrame /\ f.from = d
    BY <2>1, ExchangeAssumption DEF BusFrame, Joints
  <2>3. inbox' = Append(inbox, f) /\ wire' = [wire EXCEPT ![d] = Tail(wire[d])]
    BY <1>1 DEF Deliver
  <2> HIDE DEF f
  <2>4. /\ Len(inbox') = Len(inbox) + 1 /\ inbox'[Len(inbox) + 1] = f
        /\ \A k \in 1 .. Len(inbox) : inbox'[k] = inbox[k]
    BY <2>2, <2>3
  <2>5. inbox' \in Seq(BusFrame) /\ wire' \in [Joints -> Seq(BOOLEAN)]
    <3>1. Tail(wire[d]) \in Seq(BOOLEAN)
      BY <2>1
    <3> QED
      BY <2>2, <2>3, <3>1
  <2>6. CASE j = d
    <3>1. wire'[j] = Tail(wire[j]) /\ Len(wire[j]) > 0
      BY <2>1, <2>3, <2>6
    <3>2. ~Silent(inbox, wire, j)
      BY <2>1, <2>6 DEF Silent
    <3>3. ASSUME OneReply(inbox, wire, j) PROVE OneReply(inbox', wire', j)
      <4>1. Len(wire[j]) = 1 /\ \A k \in 1 .. Len(inbox) : inbox[k].from # j
        BY <2>1, <2>6, <3>3 DEF OneReply
      <4>2. wire'[j] = <<>>
        BY <2>1, <2>6, <3>1, <4>1, TailOfOne
      <4>3. \A k \in 1 .. Len(inbox') : inbox'[k].from = j => k = Len(inbox) + 1
        <5>1. \A k \in 1 .. Len(inbox') : k = Len(inbox) + 1 \/ k \in 1 .. Len(inbox)
          BY <2>4
        <5> QED
          BY <2>4, <4>1, <5>1
      <4> QED
        BY <4>2, <4>3 DEF OneReply
    <3> QED
      BY <2>5, <3>2, <3>3
  <2>7. CASE j # d
    <3>1. wire'[j] = wire[j]
      BY <2>3, <2>7
    <3>2. \A k \in 1 .. Len(inbox') :
            inbox'[k].from = j => k \in 1 .. Len(inbox) /\ inbox[k].from = j
      BY <2>2, <2>4, <2>7
    <3> QED
      BY <2>5, <3>1, <3>2 DEF Silent, OneReply
  <2> QED
    BY <2>6, <2>7
<1>2. ASSUME NEW d \in Joints, Lose(d)
      PROVE  /\ inbox' \in Seq(BusFrame) /\ wire' \in [Joints -> Seq(BOOLEAN)]
             /\ Silent(inbox, wire, j) => Silent(inbox', wire', j)
             /\ OneReply(inbox, wire, j) => OneReply(inbox', wire', j)
  <2>1. wire[d] \in Seq(BOOLEAN) /\ wire[d] # <<>>
    BY <1>2 DEF Lose
  <2>2. Tail(wire[d]) \in Seq(BOOLEAN) /\ Len(Tail(wire[d])) = Len(wire[d]) - 1
    BY <2>1
  <2>3. inbox' = inbox /\ wire' = [wire EXCEPT ![d] = Tail(wire[d])]
    BY <1>2 DEF Lose
  <2>4. wire' \in [Joints -> Seq(BOOLEAN)]
    BY <2>2, <2>3
  <2>5. CASE j = d
    <3>0. Len(wire[d]) = 1 => Tail(wire[d]) = <<>>
      BY <2>1, TailOfOne
    <3>1. wire'[j] = Tail(wire[j]) /\ (Len(wire[j]) = 1 => wire'[j] = <<>>)
      BY <2>3, <2>5, <3>0
    <3> QED
      BY <2>1, <2>3, <2>4, <2>5, <3>1 DEF Silent, OneReply
  <2>6. CASE j # d
    BY <2>3, <2>4, <2>6 DEF Silent, OneReply
  <2> QED
    BY <2>5, <2>6
<1>3. CASE Disturb
  <2>1. PICK s \in {BusError, Foreign} :
          inbox' = Append(inbox, [from |-> s, fresh |-> FALSE])
    BY <1>3 DEF Disturb
  <2> DEFINE f == [from |-> s, fresh |-> FALSE]
  <2>2. f \in BusFrame /\ f.from # j /\ wire' = wire
    BY <1>3, ExchangeAssumption DEF Disturb, BusFrame, BusError, Foreign, Joints
  <2>3. inbox' = Append(inbox, f)
    BY <2>1
  <2> HIDE DEF f
  <2>4. inbox' \in Seq(BusFrame)
    BY <2>2, <2>3
  <2>5. /\ Len(inbox') = Len(inbox) + 1 /\ inbox'[Len(inbox) + 1] = f
        /\ \A k \in 1 .. Len(inbox) : inbox'[k] = inbox[k]
    BY <2>2, <2>3
  <2>6. \A k \in 1 .. Len(inbox') :
          inbox'[k].from = j => k \in 1 .. Len(inbox) /\ inbox[k].from = j
    BY <2>2, <2>5
  <2> QED
    BY <2>2, <2>4, <2>6 DEF Silent, OneReply
<1> QED
  BY <1>1, <1>2, <1>3

LEMMA BusKeepsSwitched ==
  ASSUME ConfigInv, task = "configure",
         (\E d \in Joints : Deliver(d) \/ Lose(d)) \/ Disturb
  PROVE  ConfigInv'
<1>1. UNCHANGED <<task, plan, frame, waiting, on, mistaken>> /\ Current' = Current
  BY BusLeavesDevice DEF controlVars, planVars, Current
<1>2. ConfigTypes'
  BY <1>1, BusKeepsReplies, PlanHead DEF ConfigInv, ConfigTypes
<1>3. Switched'
  BY <1>1, BusKeepsReplies DEF ConfigInv, ConfigTypes, Switched
<1> QED
  BY <1>1, <1>2, <1>3 DEF ConfigInv

\* Reading a reply of a motor that has at most one leaves none.
LEMMA ReadTakesReply ==
  ASSUME inbox \in Seq(BusFrame), inbox # <<>>, inbox' = Tail(inbox), wire' = wire
  PROVE  /\ inbox' \in Seq(BusFrame)
         /\ \A j \in Joints : Silent(inbox, wire, j) => Silent(inbox', wire', j)
         /\ \A j \in Joints : Head(inbox).from = j /\ OneReply(inbox, wire, j)
                                => Silent(inbox', wire', j)
<1>1. /\ inbox' \in Seq(BusFrame) /\ Len(inbox') = Len(inbox) - 1
      /\ Len(inbox) \in Nat /\ Len(inbox) >= 1 /\ Head(inbox) = inbox[1]
      /\ \A k \in 1 .. Len(inbox') : inbox'[k] = inbox[k + 1]
  BY HeadTailProperties, EmptySeq
<1>2. \A k \in 1 .. Len(inbox') : k + 1 \in 1 .. Len(inbox) /\ k + 1 # 1
  BY <1>1
<1>3. ASSUME NEW j \in Joints, Silent(inbox, wire, j)
      PROVE  Silent(inbox', wire', j)
  BY <1>1, <1>2, <1>3 DEF Silent
<1>4. ASSUME NEW j \in Joints, Head(inbox).from = j, OneReply(inbox, wire, j)
      PROVE  Silent(inbox', wire', j)
  <2>1. 1 \in 1 .. Len(inbox) /\ inbox[1].from = j
    BY <1>1, <1>4
  <2>2. /\ wire[j] = <<>>
        /\ \A k \in 1 .. Len(inbox) : inbox[k].from = j => k = 1
    BY <1>4, <2>1 DEF OneReply
  <2> QED
    BY <1>1, <1>2, <2>2 DEF Silent
<1> QED
  BY <1>1, <1>3, <1>4

\* A configuration goes on, with the motor after the current one.
LEMMA NextMotor ==
  ASSUME ConfigInv, task = "configure", NEW long, Advance("configure", long),
         inbox' \in Seq(BusFrame), UNCHANGED <<wire, on>>,
         \A j \in Joints : Silent(inbox, wire, j) => Silent(inbox', wire', j),
         mistaken \subseteq mistaken',
         Current \in V3 \/ on[Current] \/ Current \in mistaken'
  PROVE  /\ ConfigInv'
         /\ task' = "idle" => \A j \in Joints \ V3 : on'[j] \/ j \in mistaken'
<1> USE DEF ConfigInv
<1>0. PICK c \in Joints : c = Current
  BY PlanHead
<1>1. \A j \in Joints \ V3 : /\ j <= c => (on'[j] \/ j \in mistaken')
                             /\ j > c => Silent(inbox', wire', j)
  <2>0. on' = on
    OBVIOUS
  <2> TAKE j \in Joints \ V3
  <2>1. ASSUME j <= c
        PROVE  on[j] \/ j \in mistaken'
    <3>1. j < c \/ j = c
      BY <1>0, <2>1, ExchangeAssumption DEF Joints
    <3> QED
      BY <1>0, <3>1 DEF Switched
  <2>2. ASSUME j > c
        PROVE  Silent(inbox', wire', j)
    BY <1>0, <2>2 DEF Switched
  <2> QED
    BY <2>0, <2>1, <2>2
<1>2. CASE Len(plan) > 1 /\ Begin("configure", Tail(plan), long)
  <2> DEFINE p == Tail(plan)
  <2>1. /\ plan \in Seq(Operations) /\ plan # <<>>
        /\ Len(plan) \in 1 .. NumJoints /\ Len(plan) > 1
        /\ \A m \in 1 .. Len(plan) :
             plan[m].op = "start" /\ plan[m].joint = NumJoints - Len(plan) + m
    BY <1>2, EmptySeq DEF ConfigTypes
  <2>2. /\ p \in Seq(Operations) /\ Len(p) = Len(plan) - 1
        /\ \A m \in 1 .. Len(p) : p[m] = plan[m + 1]
    BY <2>1, HeadTailProperties
  <2>3. Len(p) \in 1 .. NumJoints
    BY <2>1, <2>2, ExchangeAssumption
  <2>4. \A m \in 1 .. Len(p) : p[m].op = "start" /\ p[m].joint = NumJoints - Len(p) + m
    <3> TAKE m \in 1 .. Len(p)
    <3>1. m + 1 \in 1 .. Len(plan) /\ NumJoints - Len(plan) + (m + 1) = NumJoints - Len(p) + m
      BY <2>1, <2>2, <2>3, ExchangeAssumption
    <3> QED
      BY <2>1, <2>2, <3>1
  <2>5. NumJoints - Len(p) + 1 = c + 1
    BY <1>0, <2>1, <2>2, ExchangeAssumption DEF Current
  <2>6. wire' \in [Joints -> Seq(BOOLEAN)] /\ Begin("configure", p, long)
    BY <1>2 DEF ConfigTypes
  <2> HIDE DEF p
  <2>7. ConfigTypes' /\ waiting' = FALSE /\ Current' = c + 1
    BY <2>2, <2>3, <2>4, <2>5, <2>6, ConfigBegins
  <2>8. ASSUME NEW j \in Joints \ V3
        PROVE  (j < c + 1 => j <= c) /\ (j >= c + 1 => j > c)
    BY <1>0, ExchangeAssumption DEF Joints
  <2>9. ASSUME NEW j \in Joints \ V3, j < c + 1
        PROVE  on'[j] \/ j \in mistaken'
    <3>1. j <= c
      BY <2>8, <2>9
    <3> QED
      BY <1>1, <3>1, Zenon
  <2>10. ASSUME NEW j \in Joints \ V3, j >= c + 1
         PROVE  Silent(inbox', wire', j)
    BY <1>1, <2>8, <2>10
  <2>11. /\ \A j \in Joints \ V3 : j > c + 1 => j >= c + 1
         /\ c + 1 >= c + 1
    BY <1>0, ExchangeAssumption DEF Joints
  <2>12. Switched'
    BY <2>7, <2>9, <2>10, <2>11, Zenon DEF Switched
  <2> QED
    BY <1>2, <2>7, <2>12 DEF Begin
<1>3. CASE Len(plan) = 1 /\ Rest("idle", long)
  <2>1. c = NumJoints /\ task' = "idle"
    BY <1>0, <1>3, ExchangeAssumption DEF Current, Rest
  <2>2. \A j \in Joints \ V3 : j <= c
    BY <2>1, ExchangeAssumption DEF Joints
  <2>3. \A j \in Joints \ V3 : on'[j] \/ j \in mistaken'
    BY <1>1, <2>2, Zenon
  <2> QED
    BY <2>1, <2>3
<1> QED
  BY <1>2, <1>3 DEF Advance

\* A frame is taken for the current motor's answer to its frame.
LEMMA ConfirmKeepsSwitched ==
  ASSUME ConfigInv, task = "configure", waiting, inbox # <<>>, inbox' = Tail(inbox),
         Mistake(Head(inbox).from, Head(plan).joint),
         FrameConfirmed, UNCHANGED <<wire, on>>
  PROVE  /\ ConfigInv'
         /\ task' = "idle" => \A j \in Joints \ V3 : on'[j] \/ j \in mistaken'
<1> USE DEF ConfigInv
<1>0. PICK c \in Joints : c = Current /\ Head(plan).joint = c
  BY PlanHead
<1>m. /\ mistaken \subseteq mistaken'
      /\ c \notin V3 /\ c \notin mistaken' => Head(inbox).from = c /\ c \notin mistaken
  BY <1>0 DEF Mistake
<1>1. /\ inbox' \in Seq(BusFrame)
      /\ \A j \in Joints : Silent(inbox, wire, j) => Silent(inbox', wire', j)
      /\ Head(inbox).from = c /\ OneReply(inbox, wire, c) => Silent(inbox', wire', c)
  BY <1>0, ReadTakesReply DEF ConfigTypes
<1>2. ASSUME c \notin V3, c \notin mistaken'
      PROVE  Silent(inbox', wire', c) /\ (frame = "start" => on[c])
  <2>1. /\ OneReply(inbox, wire, c)
        /\ Silent(inbox, wire, c) \/ on[c] \/ frame # "start"
    BY <1>0, <1>m, <1>2 DEF Switched
  <2>2. ~Silent(inbox, wire, c)
    <3>1. 1 \in 1 .. Len(inbox) /\ inbox[1].from = c
      BY <1>m, <1>2, HeadTailProperties, EmptySeq DEF ConfigTypes
    <3> QED
      BY <3>1 DEF Silent
  <2> QED
    BY <1>1, <1>m, <1>2, <2>1, <2>2
<1>3. CASE frame \in {"retry", "zero"}
  <2>1. /\ frame' \in {"zero", "start"} /\ waiting' = FALSE /\ UNCHANGED <<task, plan>>
        /\ Current' = c
    BY <1>0, <1>3 DEF FrameConfirmed, Current
  <2>2. ConfigTypes'
    BY <1>1, <2>1 DEF ConfigTypes
  <2>3. Switched'
    <3> SUFFICES ASSUME NEW j \in Joints \ V3
                 PROVE  /\ j < c => on[j] \/ j \in mistaken'
                        /\ j > c => Silent(inbox', wire', j)
                        /\ j = c => j \in mistaken' \/ Silent(inbox', wire', j)
      BY <2>1 DEF Switched
    <3>1. CASE j = c
      BY <1>2, <3>1, ExchangeAssumption DEF Joints
    <3>2. CASE j # c
      BY <1>0, <1>1, <1>m, <3>2 DEF Switched
    <3> QED
      BY <3>1, <3>2
  <2> QED
    BY <2>1, <2>2, <2>3
<1>4. CASE frame = "start"
  <2>1. Advance("configure", longTimeout /\ ~Head(plan).zero)
    BY <1>4 DEF FrameConfirmed
  <2> QED
    BY <1>0, <1>1, <1>2, <1>4, <1>m, <2>1, NextMotor
<1> QED
  BY <1>3, <1>4 DEF ConfigTypes

\* A frame that gets no reply of its motor is repeated, or the configuration
\* has failed.
LEMMA ErrorKeepsSwitched ==
  ASSUME ConfigInv, task = "configure", DeviceError, UNCHANGED <<wire, on, mistaken>>,
         inbox' = inbox \/ (inbox # <<>> /\ inbox' = Tail(inbox))
  PROVE  ConfigInv' /\ task' # "idle"
<1> USE DEF ConfigInv
<1>0. PICK c \in Joints : c = Current
  BY PlanHead
<1>1. /\ inbox' \in Seq(BusFrame)
      /\ \A j \in Joints : Silent(inbox, wire, j) => Silent(inbox', wire', j)
  BY ReadTakesReply DEF ConfigTypes
<1>2. CASE frame = "retry" /\ waiting' = FALSE /\ UNCHANGED <<task, plan, frame>>
  <2>1. ConfigTypes' /\ Current' = c /\ c \in V3
    BY <1>0, <1>1, <1>2 DEF ConfigTypes, Current
  <2>2. Switched'
    BY <1>0, <1>1, <1>2, <2>1 DEF Switched
  <2> QED
    BY <1>2, <2>1, <2>2
<1>3. CASE Throw
  <2>1. task' \in {"misconfigured", "disable"}
    BY <1>3 DEF Throw, Advance, Begin
  <2> QED
    BY <2>1
<1> QED
  BY <1>2, <1>3 DEF DeviceError

LEMMA OnlyConfigureStarts ==
  ASSUME task # "configure", SendControl \/ ReadControl
  PROVE  task' # "configure"
<1> USE DEF Begin, Rest, Advance, Throw
<1>1. ASSUME DeviceError PROVE task' # "configure"
  BY <1>1 DEF DeviceError
<1>2. ASSUME FrameConfirmed PROVE task' # "configure"
  BY <1>2 DEF FrameConfirmed
<1> QED
  BY <1>1, <1>2 DEF SendControl, ReadControl

LEMMA MotorsAreOnOrOff ==
  ASSUME on \in [Joints -> BOOLEAN], [ENext]_evars
  PROVE  on' \in [Joints -> BOOLEAN]
<1>1. CASE SendControl
  BY <1>1 DEF SendControl, Transmit, SwitchedTo
<1>2. CASE WriteCommand
  BY <1>2 DEF WriteCommand, Transmit
<1>3. CASE ~SendControl /\ ~WriteCommand
  <2>1. UNCHANGED on
    BY <1>3, BusLeavesDevice
    DEF ENext, DeviceStep, ReadControl, SkipUnsent, ReadFails, ReadErrorFrame,
        ReadForeignFrame, ReadReply, Configure, Calibrate, Cleanup, StartCycle,
        busVars, evars
  <2> QED
    BY <2>1
<1> QED
  BY <1>1, <1>2, <1>3

LEMMA ConfigStep ==
  ASSUME ConfigInv, [ENext]_evars
  PROVE  /\ ConfigInv'
         /\ task = "configure" /\ task' = "idle"
              => \A j \in Joints \ V3 : on'[j] \/ j \in mistaken'
<1>0. on' \in [Joints -> BOOLEAN]
  BY MotorsAreOnOrOff DEF ConfigInv
<1>1. CASE task # "configure" /\ (SendControl \/ ReadControl)
  BY <1>0, <1>1, OnlyConfigureStarts DEF ConfigInv
<1>2. CASE task = "configure" /\ SendControl
  <2>1. ~waiting /\ UNCHANGED <<inbox, mistaken>>
    BY <1>2 DEF SendControl, busVars
  <2>2. CASE DeviceError /\ UNCHANGED <<wire, on>>
    BY <1>2, <2>1, <2>2, ErrorKeepsSwitched
  <2>3. CASE /\ waiting' = TRUE
             /\ Transmit(Head(plan).joint, FALSE, SwitchedTo(Head(plan).joint))
             /\ UNCHANGED <<task, plan, frame, trial, longTimeout>>
    BY <1>2, <2>1, <2>3, TransmitKeepsSwitched
  <2> QED
    BY <1>2, <2>2, <2>3 DEF SendControl
<1>3. CASE task = "configure" /\ ReadControl
  <2>1. waiting /\ UNCHANGED <<wire, on>>
    BY <1>3 DEF ReadControl
  <2>2. CASE /\ DeviceError /\ UNCHANGED mistaken
             /\ inbox' = inbox \/ (inbox # <<>> /\ inbox' = Tail(inbox))
    BY <1>3, <2>1, <2>2, ErrorKeepsSwitched
  <2>3. CASE /\ inbox # <<>> /\ inbox' = Tail(inbox)
             /\ Mistake(Head(inbox).from, Head(plan).joint) /\ FrameConfirmed
    BY <1>3, <2>1, <2>3, ConfirmKeepsSwitched
  <2>4. CASE Throw
    BY <1>0, <1>3, <2>4 DEF Throw, Advance, Begin, ConfigInv
  <2> QED
    <3>1. CASE DeviceError /\ UNCHANGED <<inbox, mistaken>>
      BY <2>2, <3>1
    <3>2. CASE inbox # <<>> /\ inbox' = Tail(inbox) /\ DeviceError /\ UNCHANGED mistaken
      BY <2>2, <3>2
    <3> QED
      BY <1>3, <2>3, <2>4, <3>1, <3>2 DEF ReadControl
<1>4. CASE WriteCommand \/ SkipUnsent \/ ReadFails \/ ReadErrorFrame
             \/ ReadForeignFrame \/ ReadReply
  <2>1. task \in {"write", "read"} /\ task' \in {"write", "read", "done"}
    BY <1>4 DEF WriteCommand, SkipUnsent, ReadFails, ReadErrorFrame,
                ReadForeignFrame, ReadReply, Reading, NextJoint
  <2> QED
    BY <1>0, <2>1 DEF ConfigInv
<1>5. CASE Configure
  BY <1>0, <1>5, ConfigureBegins DEF Configure, ConfigInv
<1>6. CASE Calibrate \/ Cleanup \/ StartCycle
  BY <1>0, <1>6 DEF Calibrate, Cleanup, StartCycle, Begin, Ready, ConfigInv
<1>7. CASE (\E j \in Joints : Deliver(j) \/ Lose(j)) \/ Disturb
  BY <1>0, <1>7, BusKeepsSwitched, BusLeavesDevice DEF ConfigInv
<1>8. CASE UNCHANGED evars
  BY <1>0, <1>8
  DEF evars, controlVars, planVars, busVars, ConfigInv, ConfigTypes, Switched, Current
<1> QED
  BY <1>1, <1>2, <1>3, <1>4, <1>5, <1>6, <1>7, <1>8 DEF ENext, DeviceStep

\* A configuration that succeeds has switched on every V2 motor, except one in
\* whose place a V3 motor's late reply or a report of a bus error has confirmed a
\* frame (cubemars_can.cpp:202).
THEOREM ConfigurationEnables == ESpec => ConfiguredMeansEnabled
<1>1. EInit => ConfigInv
  BY DEF EInit, ConfigInv
<1>2. ConfigInv /\ [ENext]_evars => ConfigInv'
  BY ConfigStep
<1>3. ConfigInv /\ [ENext]_evars
        => [task = "configure" /\ task' = "idle"
              => \A j \in Joints \ V3 : on'[j] \/ j \in mistaken']_evars
  BY ConfigStep
<1> QED
  BY <1>1, <1>2, <1>3, PTL DEF ESpec, ConfiguredMeansEnabled

\* No motor is mistaken for another where each carries its id in its replies and
\* the driver reports no bus errors.
LEMMA NobodyMistaken ==
  ASSUME V3 = {}, ~ErrorFrames, mistaken = {}, [ENext]_evars
  PROVE  mistaken' = {}
<1>1. CASE ReadControl
  <2>1. \A j : MayPassFor(j) = {j}
    BY DEF MayPassFor
  <2> QED
    BY <1>1, <2>1 DEF ReadControl, Mistake
<1>2. CASE SendControl
  BY <1>2 DEF SendControl
<1>3. CASE WriteCommand \/ SkipUnsent \/ ReadFails \/ ReadErrorFrame
             \/ ReadForeignFrame \/ ReadReply
  BY <1>3 DEF WriteCommand, SkipUnsent, ReadFails, ReadErrorFrame, ReadForeignFrame,
     ReadReply, controlVars
<1>4. CASE Configure \/ Calibrate \/ Cleanup \/ StartCycle
  BY <1>4 DEF Configure, Calibrate, Cleanup, StartCycle, ForgetCycle
<1>5. CASE (\E j \in Joints : Deliver(j) \/ Lose(j)) \/ Disturb
  BY <1>5, BusLeavesDevice DEF controlVars
<1>6. CASE UNCHANGED evars
  BY <1>6 DEF evars, controlVars
<1> QED
  BY <1>1, <1>2, <1>3, <1>4, <1>5, <1>6 DEF ENext, DeviceStep

ConfiguredMeansAllEnabled ==
  [][task = "configure" /\ task' = "idle" => \A j \in Joints : on'[j]]_evars

\* On an interface with V2 motors only, without the reports of bus errors, a
\* configuration that succeeds has switched on every motor: no late or lost reply,
\* of this motor or of another, is taken for the reply to the frame that enables it.
THEOREM V2ConfigurationEnablesAll ==
  V3 = {} /\ ~ErrorFrames => (ESpec => ConfiguredMeansAllEnabled)
<1> SUFFICES ASSUME V3 = {}, ~ErrorFrames
             PROVE  ESpec => ConfiguredMeansAllEnabled
  OBVIOUS
<1> DEFINE I == ConfigInv /\ mistaken = {}
<1>1. EInit => I
  BY DEF EInit, ConfigInv
<1>2. I /\ [ENext]_evars => I'
  BY ConfigStep, NobodyMistaken
<1>3. I /\ [ENext]_evars
        => [task = "configure" /\ task' = "idle" => \A j \in Joints : on'[j]]_evars
  BY ConfigStep, NobodyMistaken
<1> HIDE DEF I
<1> QED
  BY <1>1, <1>2, <1>3, PTL DEF ESpec, ConfiguredMeansAllEnabled

-----------------------------------------------------------------------------
(* Types                                                                    *)

PlanTypes ==
  /\ task \in ControlTasks \cup {"closed", "idle", "write", "read", "done"}
  /\ plan \in Seq(Operations) /\ (task \in ControlTasks <=> plan # <<>>)
  /\ frame \in {"retry", "zero", "start", "end"}
  /\ waiting \in BOOLEAN /\ longTimeout \in BOOLEAN
  /\ trial \in 0 .. MaxTrials - 1

WireTypes ==
  /\ inbox \in Seq(BusFrame) /\ wire \in [Joints -> Seq(BOOLEAN)]
  /\ \A j \in Joints : Len(wire[j]) <= MaxLate

ExchangeTypes ==
  /\ CycleTypes /\ PlanTypes /\ WireTypes
  /\ on \in [Joints -> BOOLEAN]
  /\ errSkips \in 0 .. MaxErrSkips - 1
  /\ before \in Nat /\ mistaken \in SUBSET (Joints \ V3)

LEMMA Bounds ==
  /\ NumJoints \in Nat /\ NumJoints >= 1 /\ V3 \subseteq Joints
  /\ MaxTrials \in Nat /\ MaxTrials >= 1
  /\ MaxErrSkips \in Nat /\ MaxErrSkips >= 1
  /\ MaxLate \in Nat /\ MaxLate >= 1
BY ExchangeAssumption

\* The plans of operations are never empty.
LEMMA PlansOfOperations ==
  /\ EndAll \in Seq(Operations) /\ EndAll # <<>> /\ Len(EndAll) = NumJoints
  /\ \A Z : StartAll(Z) \in Seq(Operations) /\ StartAll(Z) # <<>>
  /\ ZeroEach \in Seq(Operations) /\ ZeroEach # <<>>
  /\ \A z : ZeroOnly(z) \in Seq(Operations) /\ ZeroOnly(z) # <<>>
<1>1. \A j \in Joints : End(j) \in Operations /\ \A z \in BOOLEAN : Start(j, z) \in Operations
  BY DEF End, Start, Operations
<1>2. EndAll \in Seq(Operations) /\ Len(EndAll) = NumJoints
  BY <1>1, ExchangeAssumption DEF EndAll, Joints
<1>3. \A Z : StartAll(Z) \in Seq(Operations) /\ Len(StartAll(Z)) = NumJoints
  BY ExchangeAssumption DEF StartAll, Start, Operations, Joints
<1>4. ZeroEach \in Seq(Operations) /\ Len(ZeroEach) = 2 * NumJoints
  <2>1. 2 * NumJoints \in Nat
    BY ExchangeAssumption
  <2>2. ASSUME NEW k \in 1 .. 2 * NumJoints
        PROVE  (IF k % 2 = 1 THEN End((k + 1) \div 2) ELSE Start(k \div 2, TRUE)) \in Operations
    <3>1. k % 2 = 1 => (k + 1) \div 2 \in Joints
      BY ExchangeAssumption DEF Joints
    <3>2. k % 2 # 1 => k \div 2 \in Joints
      BY ExchangeAssumption DEF Joints
    <3> QED
      BY <1>1, <3>1, <3>2
  <2> QED
    <3>1. ZeroEach \in [1 .. 2 * NumJoints -> Operations]
      BY <2>2 DEF ZeroEach
    <3> QED
      BY <2>1, <3>1
<1>5. ASSUME NEW z
      PROVE  ZeroOnly(z) \in Seq(Operations) /\ Len(ZeroOnly(z)) = 2 * NumJoints
  <2>1. /\ StartAll({z}) \in Seq(Operations) /\ Len(StartAll({z})) = NumJoints
        /\ NumJoints + NumJoints = 2 * NumJoints
    BY <1>3, Bounds
  <2> QED
    BY <1>2, <2>1, ConcatProperties DEF ZeroOnly
<1> QED
  BY <1>2, <1>3, <1>4, <1>5, EmptySeq, ExchangeAssumption

LEMMA BeginTypes ==
  ASSUME NEW t \in ControlTasks, NEW p \in Seq(Operations), p # <<>>,
         NEW long \in BOOLEAN, Begin(t, p, long)
  PROVE  PlanTypes'
<1>1. FirstFrame(Head(p)) \in {"retry", "zero", "start", "end"}
  BY DEF FirstFrame
<1>2. 0 \in 0 .. MaxTrials - 1
  BY ExchangeAssumption
<1> QED
  BY <1>1, <1>2 DEF Begin, PlanTypes

LEMMA AdvanceTypes ==
  ASSUME PlanTypes, task \in ControlTasks, NEW t \in ControlTasks,
         NEW long \in BOOLEAN, Advance(t, long)
  PROVE  PlanTypes'
<1>1. CASE Len(plan) > 1 /\ Begin(t, Tail(plan), long)
  <2>1. Tail(plan) \in Seq(Operations) /\ Tail(plan) # <<>>
    <3>1. plan \in Seq(Operations) /\ plan # <<>>
      BY DEF PlanTypes
    <3>2. Tail(plan) \in Seq(Operations) /\ Len(Tail(plan)) = Len(plan) - 1
      BY <3>1, HeadTailProperties
    <3>3. Len(Tail(plan)) # 0
      BY <1>1, <3>1, <3>2, LenProperties
    <3> QED
      BY <3>2, <3>3, EmptySeq
  <2> QED
    BY <1>1, <2>1, BeginTypes
<1>2. CASE Begin("disable", EndAll, long)
  BY <1>2, PlansOfOperations, BeginTypes DEF ControlTasks
<1>3. CASE Rest("idle", long) \/ Rest("closed", long)
  <2>1. /\ task' \in {"idle", "closed"} /\ plan' = <<>> /\ frame' = "end"
        /\ waiting' = FALSE /\ longTimeout' = long /\ trial' = 0
    BY <1>3 DEF Rest
  <2>2. trial' \in 0 .. MaxTrials - 1
    BY <2>1, Bounds
  <2>3. plan' \in Seq(Operations)
    BY <2>1, EmptySeq
  <2> QED
    BY <2>1, <2>2, <2>3 DEF PlanTypes, ControlTasks
<1> QED
  BY <1>1, <1>2, <1>3 DEF Advance

LEMMA ThrowTypes ==
  ASSUME PlanTypes, Throw
  PROVE  PlanTypes'
<1>1. longTimeout \in BOOLEAN
  BY DEF PlanTypes
<1>2. CASE Advance("misconfigured", longTimeout) /\ task \in ControlTasks
  BY <1>1, <1>2, AdvanceTypes DEF ControlTasks
<1>3. CASE Advance("disable", longTimeout) /\ task \in ControlTasks
  BY <1>1, <1>3, AdvanceTypes DEF ControlTasks
<1>4. CASE Begin("emergency", EndAll, longTimeout) \/ Begin("disable", EndAll, longTimeout)
  BY <1>1, <1>4, PlansOfOperations, BeginTypes DEF ControlTasks
<1> QED
  BY <1>2, <1>3, <1>4 DEF Throw, ControlTasks

LEMMA ControlTypes ==
  ASSUME PlanTypes, SendControl \/ ReadControl
  PROVE  PlanTypes'
<1>0. task \in ControlTasks /\ Head(plan) \in Operations
  <2>1. task \in ControlTasks
    BY DEF SendControl, ReadControl
  <2> QED
    BY <2>1, HeadTailProperties DEF PlanTypes
<1>1. ASSUME DeviceError PROVE PlanTypes'
  <2>1. CASE /\ trial + 1 < MaxTrials /\ trial' = trial + 1 /\ waiting' = FALSE
             /\ UNCHANGED <<task, plan, frame, longTimeout>>
    <3>1. trial' \in 0 .. MaxTrials - 1
      BY <2>1, Bounds DEF PlanTypes
    <3> QED
      BY <2>1, <3>1 DEF PlanTypes
  <2> QED
    BY <1>1, <2>1, ThrowTypes DEF DeviceError
<1>2. ASSUME FrameConfirmed PROVE PlanTypes'
  <2>1. Head(plan).zero \in BOOLEAN
    BY <1>0 DEF Operations
  <2>2. CASE frame \in {"start", "end"}
    <3> DEFINE long == longTimeout /\ ~Head(plan).zero
    <3>1. long \in BOOLEAN /\ Advance(task, long)
      BY <1>2, <2>2 DEF FrameConfirmed
    <3> HIDE DEF long
    <3> QED
      BY <1>0, <3>1, AdvanceTypes
  <2>3. CASE frame \notin {"start", "end"}
    <3>1. /\ frame' \in {"zero", "start"} /\ waiting' = FALSE
          /\ longTimeout' = longTimeout \/ longTimeout' = (longTimeout \/ Head(plan).zero)
          /\ UNCHANGED <<task, plan, trial>>
      BY <1>2, <2>3 DEF FrameConfirmed
    <3> QED
      BY <2>1, <3>1 DEF PlanTypes
  <2> QED
    BY <2>2, <2>3
<1>3. CASE SendControl
  <2>1. CASE waiting' = TRUE /\ UNCHANGED <<task, plan, frame, trial, longTimeout>>
    BY <2>1 DEF PlanTypes
  <2> QED
    BY <1>1, <1>3, <2>1 DEF SendControl
<1>4. CASE ReadControl
  BY <1>1, <1>2, <1>4, ThrowTypes DEF ReadControl
<1> QED
  BY <1>3, <1>4

\* A frame written to motor j brings at most one more reply of it.
LEMMA TransmitTypes ==
  ASSUME WireTypes, NEW j \in Joints, NEW b \in BOOLEAN, NEW p, Transmit(j, b, p),
         inbox' = inbox
  PROVE  WireTypes'
<1>1. CASE wire' = wire
  BY <1>1 DEF WireTypes
<1>2. CASE Len(wire[j]) < MaxLate /\ wire' = [wire EXCEPT ![j] = Append(wire[j], b)]
  <2>1. /\ wire[j] \in Seq(BOOLEAN) /\ Append(wire[j], b) \in Seq(BOOLEAN)
        /\ Len(Append(wire[j], b)) = Len(wire[j]) + 1
    BY DEF WireTypes
  <2>2. Len(Append(wire[j], b)) <= MaxLate
    BY <1>2, <2>1, ExchangeAssumption
  <2>3. wire' \in [Joints -> Seq(BOOLEAN)]
    BY <1>2, <2>1 DEF WireTypes
  <2>4. ASSUME NEW k \in Joints
        PROVE  Len(wire'[k]) <= MaxLate
    <3>1. CASE k = j
      BY <1>2, <2>2, <3>1 DEF WireTypes
    <3>2. CASE k # j
      BY <1>2, <3>2 DEF WireTypes
    <3> QED
      BY <3>1, <3>2
  <2>5. inbox' \in Seq(BusFrame)
    BY DEF WireTypes
  <2> QED
    BY <2>3, <2>4, <2>5 DEF WireTypes
<1> QED
  BY <1>1, <1>2 DEF Transmit

LEMMA ReadKeepsWire ==
  ASSUME WireTypes, UNCHANGED wire,
         UNCHANGED inbox \/ (inbox # <<>> /\ inbox' = Tail(inbox))
  PROVE  WireTypes'
<1>1. inbox' \in Seq(BusFrame)
  BY ReadTakesReply DEF WireTypes
<1> QED
  BY <1>1 DEF WireTypes

LEMMA BusTypes ==
  ASSUME WireTypes, (\E d \in Joints : Deliver(d) \/ Lose(d)) \/ Disturb
  PROVE  WireTypes'
<1>0. 1 \in Joints
  BY ExchangeAssumption DEF Joints
<1>1. inbox' \in Seq(BusFrame) /\ wire' \in [Joints -> Seq(BOOLEAN)]
  BY <1>0, BusKeepsReplies DEF WireTypes
<1>2. ASSUME NEW d \in Joints, wire[d] # <<>>, wire' = [wire EXCEPT ![d] = Tail(wire[d])]
      PROVE  \A j \in Joints : Len(wire'[j]) <= MaxLate
  <2>1. wire[d] \in Seq(BOOLEAN)
    BY DEF WireTypes
  <2>2. Len(Tail(wire[d])) = Len(wire[d]) - 1 /\ Len(wire[d]) \in Nat /\ Len(wire[d]) <= MaxLate
    BY <1>2, <2>1, HeadTailProperties, EmptySeq DEF WireTypes
  <2>3. Len(Tail(wire[d])) <= MaxLate
    BY <2>2, Bounds
  <2> SUFFICES ASSUME NEW j \in Joints
               PROVE  Len(wire'[j]) <= MaxLate
    OBVIOUS
  <2>4. CASE j = d
    BY <1>2, <2>3, <2>4 DEF WireTypes
  <2>5. CASE j # d
    BY <1>2, <2>5 DEF WireTypes
  <2> QED
    BY <2>4, <2>5
<1>3. CASE Disturb
  BY <1>1, <1>3 DEF Disturb, WireTypes
<1>4. CASE \E d \in Joints : Deliver(d) \/ Lose(d)
  BY <1>1, <1>2, <1>4 DEF Deliver, Lose, WireTypes
<1> QED
  BY <1>3, <1>4

LEMMA BacklogFinite ==
  ASSUME NEW q \in Seq(BusFrame), NEW w
  PROVE  /\ IsFiniteSet(Queued(q)) /\ Cardinality(Queued(q)) \in Nat
         /\ IsFiniteSet(UnderWay(w)) /\ Cardinality(UnderWay(w)) \in Nat
<1>1. Len(q) \in Nat /\ DOMAIN q = 1 .. Len(q)
  BY LenProperties
<1>2. IsFiniteSet(1 .. Len(q)) /\ Queued(q) \in SUBSET (1 .. Len(q))
  BY <1>1, FS_Interval DEF Queued
<1>3. IsFiniteSet(Joints) /\ IsFiniteSet(1 .. MaxLate)
  BY FS_Interval, Bounds DEF Joints
<1>4. IsFiniteSet(Joints \X (1 .. MaxLate))
  BY <1>3, FS_Product
<1>5. UnderWay(w) \in SUBSET (Joints \X (1 .. MaxLate))
  BY DEF UnderWay
<1>6. IsFiniteSet(Queued(q)) /\ IsFiniteSet(UnderWay(w))
  BY <1>2, <1>4, <1>5, FS_Subset
<1> QED
  BY <1>6, FS_CardinalityType

LEMMA MistakenTypes ==
  ASSUME PlanTypes, mistaken \in SUBSET (Joints \ V3), [ENext]_evars
  PROVE  mistaken' \in SUBSET (Joints \ V3)
<1>1. CASE ReadControl
  <2>1. plan \in Seq(Operations) /\ plan # <<>>
    BY <1>1 DEF ReadControl, PlanTypes
  <2>2. Head(plan).joint \in Joints
    <3>1. Head(plan) \in Operations
      BY <2>1, HeadTailProperties
    <3> QED
      BY <3>1 DEF Operations
  <2> QED
    BY <1>1, <2>2 DEF ReadControl, Mistake
<1>2. CASE SendControl
  BY <1>2 DEF SendControl
<1>3. CASE WriteCommand \/ SkipUnsent \/ ReadFails \/ ReadErrorFrame
             \/ ReadForeignFrame \/ ReadReply
  BY <1>3 DEF WriteCommand, SkipUnsent, ReadFails, ReadErrorFrame, ReadForeignFrame,
     ReadReply, controlVars
<1>4. CASE Configure \/ Calibrate \/ Cleanup \/ StartCycle
  BY <1>4 DEF Configure, Calibrate, Cleanup, StartCycle, ForgetCycle
<1>5. CASE (\E j \in Joints : Deliver(j) \/ Lose(j)) \/ Disturb
  BY <1>5, BusLeavesDevice DEF controlVars
<1>6. CASE UNCHANGED evars
  BY <1>6 DEF evars, controlVars
<1> QED
  BY <1>1, <1>2, <1>3, <1>4, <1>5, <1>6 DEF ENext, DeviceStep

LEMMA ExchangeTypesStep ==
  ASSUME ExchangeTypes, [ENext]_evars
  PROVE  ExchangeTypes'
<1>0. CycleTypes' /\ on' \in [Joints -> BOOLEAN] /\ mistaken' \in SUBSET (Joints \ V3)
  BY CycleTypesStep, MotorsAreOnOrOff, MistakenTypes DEF ExchangeTypes
<1>z. 0 \in 0 .. MaxErrSkips - 1 /\ 0 \in Nat
  BY Bounds
<1> SUFFICES /\ PlanTypes' /\ WireTypes'
             /\ errSkips' \in 0 .. MaxErrSkips - 1 /\ before' \in Nat
  BY <1>0 DEF ExchangeTypes
<1> USE DEF ExchangeTypes
<1>1. CASE SendControl \/ ReadControl
  <2>1. PlanTypes'
    BY <1>1, ControlTypes
  <2>2. UNCHANGED <<errSkips, before>>
    BY <1>1 DEF SendControl, ReadControl, loopVars, resultVars
  <2>3. ASSUME UNCHANGED wire, UNCHANGED inbox \/ (inbox # <<>> /\ inbox' = Tail(inbox))
        PROVE  WireTypes'
    BY <2>3, ReadKeepsWire
  <2>4. ASSUME UNCHANGED inbox,
               Transmit(Head(plan).joint, FALSE, SwitchedTo(Head(plan).joint))
        PROVE  WireTypes'
    <3>1. plan \in Seq(Operations) /\ plan # <<>>
      BY <1>1 DEF SendControl, ReadControl, PlanTypes
    <3>2. Head(plan).joint \in Joints
      <4>1. Head(plan) \in Operations
        BY <3>1, HeadTailProperties
      <4> QED
        BY <4>1 DEF Operations
    <3>3. PICK j \in Joints : \E p : Transmit(j, FALSE, p)
      BY <2>4, <3>2
    <3>4. PICK p : Transmit(j, FALSE, p)
      BY <3>3
    <3> QED
      BY <2>4, <3>4, TransmitTypes
  <2>5. WireTypes'
    BY <1>1, <2>3, <2>4 DEF SendControl, ReadControl
  <2> QED
    BY <2>1, <2>2, <2>5
<1>2. CASE WriteCommand \/ SkipUnsent \/ ReadFails \/ ReadErrorFrame
             \/ ReadForeignFrame \/ ReadReply
  <2>1. /\ task \in {"write", "read"} /\ task' \in {"write", "read", "done"}
        /\ UNCHANGED <<plan, frame, waiting, trial, longTimeout, before>>
    BY <1>2 DEF WriteCommand, SkipUnsent, ReadFails, ReadErrorFrame, ReadForeignFrame,
                ReadReply, Reading, NextJoint, MarkReadFailed, controlVars, planVars, resultVars
  <2>2. PlanTypes'
    BY <2>1 DEF PlanTypes, ControlTasks
  <2>3. errSkips' \in 0 .. MaxErrSkips - 1
    <3>1. \/ errSkips' = errSkips \/ errSkips' = 0
          \/ errSkips + 1 < MaxErrSkips /\ errSkips' = errSkips + 1
      BY <1>2 DEF WriteCommand, SkipUnsent, ReadFails, ReadErrorFrame, ReadForeignFrame,
                  ReadReply, NextJoint
    <3> QED
      BY <1>z, <3>1, Bounds
  <2>4. WireTypes'
    <3>1. ASSUME UNCHANGED wire, UNCHANGED inbox \/ (inbox # <<>> /\ inbox' = Tail(inbox))
          PROVE  WireTypes'
      BY <3>1, ReadKeepsWire
    <3>2. ASSUME Transmit(next, TRUE, on[next]), UNCHANGED inbox
          PROVE  WireTypes'
      BY <3>2, TransmitTypes DEF CycleTypes
    <3> QED
      BY <1>2, <3>1, <3>2
      DEF WriteCommand, SkipUnsent, ReadFails, ReadErrorFrame, ReadForeignFrame,
          ReadReply, Reading, busVars
  <2> QED
    BY <2>1, <2>2, <2>3, <2>4
<1>3. CASE Configure
  <2>1. PlanTypes'
    BY <1>3, PlansOfOperations, BeginTypes DEF Configure, ControlTasks
  <2>2. inbox' = <<>> /\ wire' = [j \in Joints |-> <<>>] /\ before' = 0 /\ errSkips' = errSkips
    BY <1>3 DEF Configure, loopVars
  <2>3. WireTypes'
    BY <2>2, Bounds, EmptySeq DEF WireTypes
  <2> QED
    BY <1>z, <2>1, <2>2, <2>3
<1>4. CASE Calibrate \/ Cleanup
  <2>1. PlanTypes'
    BY <1>4, PlansOfOperations, BeginTypes DEF Calibrate, Cleanup, ControlTasks, PlanTypes
  <2>2. UNCHANGED <<inbox, wire, errSkips>> /\ before' = 0
    BY <1>4 DEF Calibrate, Cleanup, ForgetCycle, busVars, loopVars
  <2> QED
    BY <1>z, <2>1, <2>2 DEF WireTypes
<1>5. CASE StartCycle
  <2>1. PlanTypes'
    BY <1>5 DEF StartCycle, Ready, controlVars, planVars, PlanTypes, ControlTasks
  <2>2. UNCHANGED errSkips /\ before' = Backlog
    BY <1>5 DEF StartCycle
  <2>3. Backlog \in Nat
    BY BacklogFinite DEF Backlog, WireTypes
  <2>4. WireTypes'
    <3>1. inbox' = [k \in 1 .. Len(inbox) |-> [inbox[k] EXCEPT !.fresh = FALSE]]
      BY <1>5 DEF StartCycle, WireTypes
    <3>2. \A k \in 1 .. Len(inbox) : [inbox[k] EXCEPT !.fresh = FALSE] \in BusFrame
      <4> TAKE k \in 1 .. Len(inbox)
      <4>1. inbox[k] \in BusFrame
        BY DEF WireTypes
      <4> QED
        BY <4>1 DEF BusFrame
    <3>3. inbox' \in Seq(BusFrame)
      BY <3>1, <3>2 DEF WireTypes
    <3>4. \A j \in Joints : wire'[j] = [k \in 1 .. Len(wire[j]) |-> FALSE]
      BY <1>5 DEF StartCycle, WireTypes
    <3>5. \A j \in Joints : wire'[j] \in Seq(BOOLEAN) /\ Len(wire'[j]) = Len(wire[j])
      <4> TAKE j \in Joints
      <4>1. Len(wire[j]) \in Nat
        BY DEF WireTypes
      <4>2. /\ [k \in 1 .. Len(wire[j]) |-> FALSE] \in Seq(BOOLEAN)
            /\ Len([k \in 1 .. Len(wire[j]) |-> FALSE]) = Len(wire[j])
        BY <4>1
      <4> QED
        BY <3>4, <4>1, <4>2
    <3>6. wire' \in [Joints -> Seq(BOOLEAN)]
      BY <1>5, <3>5 DEF StartCycle
    <3> QED
      BY <3>3, <3>5, <3>6 DEF WireTypes
  <2> QED
    BY <2>1, <2>2, <2>3, <2>4
<1>6. CASE (\E j \in Joints : Deliver(j) \/ Lose(j)) \/ Disturb
  <2>1. UNCHANGED <<task, controlVars, loopVars, resultVars, on>>
    BY <1>6, BusLeavesDevice
  <2> QED
    BY <1>6, <2>1, BusTypes DEF PlanTypes, controlVars, planVars, loopVars, resultVars
<1>7. CASE UNCHANGED evars
  BY <1>7 DEF evars, PlanTypes, WireTypes, controlVars, planVars, loopVars, resultVars, busVars
<1> QED
  BY <1>1, <1>2, <1>3, <1>4, <1>5, <1>6, <1>7 DEF ENext, DeviceStep

LEMMA ExchangeTypesInit == EInit => ExchangeTypes
<1> HAVE EInit
<1>1. /\ CycleTypes /\ on \in [Joints -> BOOLEAN] /\ before \in Nat
      /\ mistaken \in SUBSET (Joints \ V3)
  BY Bounds DEF EInit, CycleTypes, Joints, NothingSent, FreshStatus, NoSample, Statuses
<1>2. PlanTypes
  <2>1. trial \in 0 .. MaxTrials - 1
    BY Bounds DEF EInit
  <2> QED
    BY <2>1, EmptySeq DEF EInit, PlanTypes, ControlTasks
<1>3. inbox = <<>> /\ wire = [j \in Joints |-> <<>>]
  BY DEF EInit
<1>4. WireTypes
  BY <1>3, Bounds, EmptySeq DEF WireTypes
<1>5. errSkips \in 0 .. MaxErrSkips - 1
  BY Bounds DEF EInit
<1> QED
  BY <1>1, <1>2, <1>4, <1>5 DEF ExchangeTypes

\* Types, for every number of motors and every bound: the loops never leave the
\* joints, a plan is never empty while it runs, and neither the trials of a
\* frame nor the error frames of a read exceed what the code allows.
THEOREM ExchangeTypeCorrect == ESpec => []ETypeOK
<1>1. ExchangeTypes => ETypeOK
  BY DEF ExchangeTypes, CycleTypes, PlanTypes, WireTypes, BusFrame, ETypeOK
<1> QED
  BY <1>1, ExchangeTypesInit, ExchangeTypesStep, PTL DEF ESpec

-----------------------------------------------------------------------------
(* The backlog                                                              *)

\* A frame that arrives adds one reply to the queue, if it is one.
LEMMA QueuedAdded ==
  ASSUME NEW q \in Seq(BusFrame), NEW f \in BusFrame
  PROVE  /\ Cardinality(Queued(Append(q, f))) <= Cardinality(Queued(q)) + 1
         /\ f.from \notin Joints
              => Cardinality(Queued(Append(q, f))) <= Cardinality(Queued(q))
<1> DEFINE a == Append(q, f)
           n == Len(q) + 1
<1>1. /\ a \in Seq(BusFrame) /\ Len(q) \in Nat /\ DOMAIN a = 1 .. n /\ a[n] = f
      /\ DOMAIN q = 1 .. Len(q) /\ \A k \in 1 .. Len(q) : a[k] = q[k]
  OBVIOUS
<1>2. \A k \in 1 .. n : k = n \/ k \in 1 .. Len(q)
  BY <1>1
<1> HIDE DEF a, n
<1>3. /\ Queued(a) \subseteq Queued(q) \cup {n}
      /\ f.from \notin Joints => Queued(a) \subseteq Queued(q)
  BY <1>1, <1>2 DEF Queued
<1>4. /\ IsFiniteSet(Queued(q)) /\ Cardinality(Queued(q)) \in Nat
      /\ Cardinality(Queued(a)) \in Nat
  BY <1>1, BacklogFinite
<1>5. /\ IsFiniteSet(Queued(q) \cup {n})
      /\ Cardinality(Queued(q) \cup {n}) =
           IF n \in Queued(q) THEN Cardinality(Queued(q)) ELSE Cardinality(Queued(q)) + 1
  BY <1>4, FS_AddElement
<1>6. Cardinality(Queued(a)) <= Cardinality(Queued(q) \cup {n})
  BY <1>3, <1>5, FS_Subset
<1>7. Queued(a) \subseteq Queued(q) => Cardinality(Queued(a)) <= Cardinality(Queued(q))
  BY <1>4, FS_Subset
<1> QED
  BY <1>3, <1>4, <1>5, <1>6, <1>7 DEF a

\* A frame that is read takes its reply from the queue, if it is one.
LEMMA QueuedRead ==
  ASSUME NEW q \in Seq(BusFrame), q # <<>>
  PROVE  /\ Cardinality(Queued(Tail(q))) <= Cardinality(Queued(q))
         /\ Head(q).from \in Joints
              => Cardinality(Queued(Tail(q))) <= Cardinality(Queued(q)) - 1
<1> DEFINE t == Tail(q)
<1>1. /\ t \in Seq(BusFrame) /\ Len(t) = Len(q) - 1 /\ Len(q) \in Nat /\ Len(q) >= 1
      /\ Head(q) = q[1] /\ DOMAIN t = 1 .. Len(t) /\ DOMAIN q = 1 .. Len(q)
      /\ \A k \in 1 .. Len(t) : t[k] = q[k + 1]
  BY HeadTailProperties, EmptySeq, LenProperties
<1> HIDE DEF t
<1> DEFINE T == Queued(t)
           S == Queued(q) \ {1}
           g == [k \in T |-> k + 1]
<1>2. \A k \in T : k \in 1 .. Len(t) /\ k + 1 \in S
  <2> TAKE k \in T
  <2>1. k \in 1 .. Len(t) /\ t[k].from \in Joints
    BY <1>1 DEF Queued
  <2>2. k + 1 \in 1 .. Len(q) /\ k + 1 # 1 /\ q[k + 1].from \in Joints
    BY <1>1, <2>1
  <2> QED
    BY <1>1, <2>1, <2>2 DEF Queued
<1>3. g \in [T -> S] /\ \A k, l \in T : g[k] = g[l] => k = l
  BY <1>2
<1>4. g \in Injection(T, S)
  BY <1>3 DEF Injection, IsInjective
<1>5. IsFiniteSet(Queued(q)) /\ Cardinality(Queued(q)) \in Nat /\ Cardinality(T) \in Nat
  BY <1>1, BacklogFinite
<1>6. /\ IsFiniteSet(S)
      /\ Cardinality(S) = IF 1 \in Queued(q) THEN Cardinality(Queued(q)) - 1
                          ELSE Cardinality(Queued(q))
  BY <1>5, FS_RemoveElement
<1>7. Head(q).from \in Joints => 1 \in Queued(q)
  BY <1>1 DEF Queued
<1> HIDE DEF g, T, S
<1>8. Cardinality(T) <= Cardinality(S)
  BY <1>4, <1>6, FS_Injection
<1> QED
  BY <1>5, <1>6, <1>7, <1>8 DEF T, t

Replies == [Joints -> Seq(BOOLEAN)]

\* A reply that sets out, and one that arrives or is lost.
LEMMA UnderWayAdded ==
  ASSUME NEW w \in Replies, NEW v \in Replies, NEW j \in Joints,
         Len(v[j]) = Len(w[j]) + 1, \A k \in Joints \ {j} : v[k] = w[k]
  PROVE  Cardinality(UnderWay(v)) <= Cardinality(UnderWay(w)) + 1
<1> DEFINE n == Len(w[j]) + 1
<1>1. \A k \in Joints : Len(w[k]) \in Nat /\ Len(v[k]) \in Nat
  BY DEF Replies
<1>2. UnderWay(v) \subseteq UnderWay(w) \cup {<<j, n>>}
  <2> SUFFICES ASSUME NEW k \in Joints, NEW m \in 1 .. MaxLate, m <= Len(v[k]),
                      ~(m <= Len(w[k]))
               PROVE  <<k, m>> = <<j, n>>
    BY DEF UnderWay
  <2>1. k = j
    OBVIOUS
  <2> QED
    BY <1>1, <2>1
<1> HIDE DEF n
<1> DEFINE x == <<j, n>>
<1> HIDE DEF x
<1>3. /\ IsFiniteSet(UnderWay(w)) /\ Cardinality(UnderWay(w)) \in Nat
      /\ Cardinality(UnderWay(v)) \in Nat
  BY BacklogFinite, EmptySeq
<1>4. /\ IsFiniteSet(UnderWay(w) \cup {x})
      /\ Cardinality(UnderWay(w) \cup {x}) =
           IF x \in UnderWay(w) THEN Cardinality(UnderWay(w))
                                ELSE Cardinality(UnderWay(w)) + 1
  BY <1>3, FS_AddElement
<1>5. Cardinality(UnderWay(v)) <= Cardinality(UnderWay(w) \cup {x})
  BY <1>2, <1>4, FS_Subset DEF x
<1> QED
  BY <1>3, <1>4, <1>5

LEMMA UnderWayRemoved ==
  ASSUME NEW w \in Replies, NEW v \in Replies, NEW j \in Joints,
         Len(v[j]) = Len(w[j]) - 1, Len(w[j]) <= MaxLate,
         \A k \in Joints \ {j} : v[k] = w[k]
  PROVE  Cardinality(UnderWay(v)) <= Cardinality(UnderWay(w)) - 1
<1> DEFINE n == Len(w[j])
<1>1. \A k \in Joints : Len(w[k]) \in Nat /\ Len(v[k]) \in Nat
  BY DEF Replies
<1>2. n \in 1 .. MaxLate
  BY <1>1, Bounds
<1>3. UnderWay(v) \subseteq UnderWay(w) \ {<<j, n>>}
  <2> SUFFICES ASSUME NEW k \in Joints, NEW m \in 1 .. MaxLate, m <= Len(v[k])
               PROVE  m <= Len(w[k]) /\ <<k, m>> # <<j, n>>
    BY DEF UnderWay
  <2>1. CASE k = j
    BY <1>1, <2>1
  <2>2. CASE k # j
    BY <2>2
  <2> QED
    BY <2>1, <2>2
<1>4. <<j, n>> \in UnderWay(w)
  BY <1>2 DEF UnderWay
<1> DEFINE x == <<j, n>>
<1> HIDE DEF n, x
<1>5. /\ IsFiniteSet(UnderWay(w)) /\ Cardinality(UnderWay(w)) \in Nat
      /\ Cardinality(UnderWay(v)) \in Nat
  BY BacklogFinite, EmptySeq
<1>6. /\ IsFiniteSet(UnderWay(w) \ {x})
      /\ Cardinality(UnderWay(w) \ {x}) = Cardinality(UnderWay(w)) - 1
  BY <1>4, <1>5, FS_RemoveElement DEF x
<1>7. Cardinality(UnderWay(v)) <= Cardinality(UnderWay(w) \ {x})
  BY <1>3, <1>6, FS_Subset DEF x
<1> QED
  BY <1>5, <1>6, <1>7

LEMMA BacklogType ==
  ASSUME WireTypes
  PROVE  /\ Backlog \in Nat
         /\ Cardinality(Queued(inbox)) \in Nat /\ Cardinality(UnderWay(wire)) \in Nat
BY BacklogFinite DEF Backlog, WireTypes

\* On the way from the motor to the queue no reply becomes two.
LEMMA BusKeepsBacklog ==
  ASSUME WireTypes, (\E d \in Joints : Deliver(d) \/ Lose(d)) \/ Disturb
  PROVE  Backlog' <= Backlog
<1>0. WireTypes'
  BY BusTypes
<1>1. /\ Backlog \in Nat /\ Backlog' \in Nat
      /\ Cardinality(Queued(inbox)) \in Nat /\ Cardinality(UnderWay(wire)) \in Nat
      /\ Cardinality(Queued(inbox')) \in Nat /\ Cardinality(UnderWay(wire')) \in Nat
      /\ Backlog = Cardinality(Queued(inbox)) + Cardinality(UnderWay(wire))
      /\ Backlog' = Cardinality(Queued(inbox')) + Cardinality(UnderWay(wire'))
  <2>1. inbox \in Seq(BusFrame) /\ inbox' \in Seq(BusFrame)
    BY <1>0 DEF WireTypes
  <2>2. /\ Cardinality(Queued(inbox)) \in Nat /\ Cardinality(UnderWay(wire)) \in Nat
        /\ Cardinality(Queued(inbox')) \in Nat /\ Cardinality(UnderWay(wire')) \in Nat
    BY <2>1, BacklogFinite
  <2> QED
    BY <2>2 DEF Backlog
<1>2. ASSUME NEW d \in Joints, wire[d] # <<>>, wire' = [wire EXCEPT ![d] = Tail(wire[d])]
      PROVE  Cardinality(UnderWay(wire')) <= Cardinality(UnderWay(wire)) - 1
  <2>1. wire \in Replies /\ wire' \in Replies /\ wire[d] \in Seq(BOOLEAN)
    BY <1>0 DEF WireTypes, Replies
  <2>2. Len(Tail(wire[d])) = Len(wire[d]) - 1 /\ Len(wire[d]) <= MaxLate
    BY <1>2, <2>1, HeadTailProperties DEF WireTypes
  <2>3. wire'[d] = Tail(wire[d]) /\ \A k \in Joints \ {d} : wire'[k] = wire[k]
    BY <1>2 DEF WireTypes
  <2> QED
    BY <2>1, <2>2, <2>3, UnderWayRemoved
<1>3. ASSUME NEW d \in Joints, Deliver(d)
      PROVE  Backlog' <= Backlog
  <2>1. wire[d] \in Seq(BOOLEAN) /\ wire[d] # <<>>
    BY <1>3 DEF Deliver, WireTypes
  <2>2. [from |-> d, fresh |-> Head(wire[d])] \in BusFrame
    BY <2>1, HeadTailProperties, Bounds DEF BusFrame, Joints
  <2>3. Cardinality(Queued(inbox')) <= Cardinality(Queued(inbox)) + 1
    BY <1>3, <2>2, QueuedAdded DEF Deliver, WireTypes
  <2>4. Cardinality(UnderWay(wire')) <= Cardinality(UnderWay(wire)) - 1
    BY <1>2, <1>3 DEF Deliver
  <2> QED
    BY <1>1, <2>3, <2>4
<1>4. ASSUME NEW d \in Joints, Lose(d)
      PROVE  Backlog' <= Backlog
  <2>1. Cardinality(UnderWay(wire')) <= Cardinality(UnderWay(wire)) - 1
    BY <1>2, <1>4 DEF Lose
  <2>2. inbox' = inbox
    BY <1>4 DEF Lose
  <2> QED
    BY <1>1, <2>1, <2>2
<1>5. CASE Disturb
  <2>1. PICK s \in {BusError, Foreign} : inbox' = Append(inbox, [from |-> s, fresh |-> FALSE])
    BY <1>5 DEF Disturb
  <2>2. /\ [from |-> s, fresh |-> FALSE] \in BusFrame
        /\ [from |-> s, fresh |-> FALSE].from \notin Joints
    BY Bounds DEF BusFrame, BusError, Foreign, Joints
  <2>3. Cardinality(Queued(inbox')) <= Cardinality(Queued(inbox))
    BY <2>1, <2>2, QueuedAdded DEF WireTypes
  <2>4. wire' = wire
    BY <1>5 DEF Disturb
  <2> QED
    BY <1>1, <2>3, <2>4
<1> QED
  BY <1>3, <1>4, <1>5

LEMMA ReadTakesBacklog ==
  ASSUME WireTypes, inbox # <<>>, inbox' = Tail(inbox), wire' = wire
  PROVE  /\ Backlog' <= Backlog
         /\ Head(inbox).from \in Joints => Backlog' + 1 <= Backlog
<1>0. WireTypes'
  BY ReadKeepsWire
<1>1. /\ Cardinality(Queued(inbox)) \in Nat /\ Cardinality(UnderWay(wire)) \in Nat
      /\ Cardinality(Queued(inbox')) \in Nat
      /\ Backlog = Cardinality(Queued(inbox)) + Cardinality(UnderWay(wire))
      /\ Backlog' = Cardinality(Queued(inbox')) + Cardinality(UnderWay(wire))
  BY <1>0, BacklogFinite DEF Backlog, WireTypes
<1>2. /\ Cardinality(Queued(inbox')) <= Cardinality(Queued(inbox))
      /\ Head(inbox).from \in Joints
           => Cardinality(Queued(inbox')) <= Cardinality(Queued(inbox)) - 1
  BY QueuedRead DEF WireTypes
<1> QED
  BY <1>1, <1>2

LEMMA TransmitAddsOne ==
  ASSUME WireTypes, NEW j \in Joints, NEW p, Transmit(j, TRUE, p), inbox' = inbox
  PROVE  Backlog' <= Backlog + 1
<1>0. WireTypes'
  BY TransmitTypes
<1>1. /\ Cardinality(Queued(inbox)) \in Nat /\ Cardinality(UnderWay(wire)) \in Nat
      /\ Cardinality(UnderWay(wire')) \in Nat
      /\ Backlog = Cardinality(Queued(inbox)) + Cardinality(UnderWay(wire))
      /\ Backlog' = Cardinality(Queued(inbox)) + Cardinality(UnderWay(wire'))
  BY <1>0, BacklogFinite DEF Backlog, WireTypes
<1>2. CASE wire' = wire
  BY <1>1, <1>2
<1>3. CASE wire' = [wire EXCEPT ![j] = Append(wire[j], TRUE)]
  <2>1. wire \in Replies /\ wire' \in Replies /\ wire[j] \in Seq(BOOLEAN)
    BY <1>0 DEF WireTypes, Replies
  <2>2. Len(Append(wire[j], TRUE)) = Len(wire[j]) + 1
    BY <2>1
  <2>3. wire'[j] = Append(wire[j], TRUE) /\ \A k \in Joints \ {j} : wire'[k] = wire[k]
    BY <1>3 DEF WireTypes
  <2>4. Cardinality(UnderWay(wire')) <= Cardinality(UnderWay(wire)) + 1
    BY <2>1, <2>2, <2>3, UnderWayAdded
  <2> QED
    BY <1>1, <2>4
<1> QED
  BY <1>2, <1>3 DEF Transmit

\* A cycle begins with the replies it finds: they only grow old.
LEMMA StartKeepsBacklog ==
  ASSUME WireTypes, StartCycle
  PROVE  Backlog' = Backlog
<1>1. Queued(inbox') = Queued(inbox)
  <2>1. DOMAIN inbox' = DOMAIN inbox
    BY DEF StartCycle
  <2>2. \A k \in DOMAIN inbox : inbox'[k].from = inbox[k].from
    <3> TAKE k \in DOMAIN inbox
    <3>1. inbox[k] \in BusFrame
      BY DEF WireTypes
    <3>2. inbox'[k] = [inbox[k] EXCEPT !.fresh = FALSE]
      BY DEF StartCycle
    <3> QED
      BY <3>1, <3>2 DEF BusFrame
  <2> QED
    BY <2>1, <2>2 DEF Queued
<1>2. UnderWay(wire') = UnderWay(wire)
  <2>1. \A j \in Joints : Len(wire'[j]) = Len(wire[j])
    <3> TAKE j \in Joints
    <3>1. Len(wire[j]) \in Nat /\ wire'[j] = [k \in 1 .. Len(wire[j]) |-> FALSE]
      BY DEF StartCycle, WireTypes
    <3> QED
      BY <3>1
  <2> QED
    BY <2>1 DEF UnderWay
<1> QED
  BY <1>1, <1>2 DEF Backlog

-----------------------------------------------------------------------------

Successes(s) == {j \in Joints : s[j] = "SUCCESS"}

LEMMA SuccessCount ==
  ASSUME NEW s
  PROVE  /\ Cardinality(Successes(s)) \in Nat /\ IsFiniteSet(Successes(s))
         /\ (\A j \in Joints : s[j] = "SUCCESS") => Cardinality(Successes(s)) = NumJoints
         /\ (\A j \in Joints : s[j] # "SUCCESS") => Cardinality(Successes(s)) = 0
<1>1. IsFiniteSet(Joints) /\ Cardinality(Joints) = NumJoints
  BY FS_Interval, Bounds DEF Joints
<1>2. Successes(s) \in SUBSET Joints
  BY DEF Successes
<1>3. IsFiniteSet(Successes(s)) /\ Cardinality(Successes(s)) \in Nat
  BY <1>1, <1>2, FS_Subset, FS_CardinalityType
<1>4. (\A j \in Joints : s[j] = "SUCCESS") => Successes(s) = Joints
  BY DEF Successes
<1>5. (\A j \in Joints : s[j] # "SUCCESS") => Successes(s) = {}
  BY DEF Successes
<1> QED
  BY <1>1, <1>3, <1>4, <1>5, FS_EmptySet

\* The status of one joint makes at most one more success.
LEMMA OneMoreSuccess ==
  ASSUME NEW s \in [Joints -> Statuses], NEW j, NEW x
  PROVE  /\ Cardinality(Successes([s EXCEPT ![j] = x])) <= Cardinality(Successes(s)) + 1
         /\ x # "SUCCESS" =>
              Cardinality(Successes([s EXCEPT ![j] = x])) <= Cardinality(Successes(s))
<1> SUFFICES ASSUME NEW t, t = [s EXCEPT ![j] = x]
             PROVE  /\ Cardinality(Successes(t)) <= Cardinality(Successes(s)) + 1
                    /\ x # "SUCCESS" =>
                         Cardinality(Successes(t)) <= Cardinality(Successes(s))
  OBVIOUS
<1>1. /\ Successes(t) \subseteq Successes(s) \cup {j}
      /\ x # "SUCCESS" => Successes(t) \subseteq Successes(s)
  BY DEF Successes
<1>2. /\ IsFiniteSet(Successes(s)) /\ Cardinality(Successes(s)) \in Nat
      /\ Cardinality(Successes(t)) \in Nat
  BY SuccessCount
<1>3. /\ IsFiniteSet(Successes(s) \cup {j})
      /\ Cardinality(Successes(s) \cup {j}) =
           IF j \in Successes(s) THEN Cardinality(Successes(s))
                                 ELSE Cardinality(Successes(s)) + 1
  BY <1>2, FS_AddElement
<1>4. Cardinality(Successes(t)) <= Cardinality(Successes(s) \cup {j})
  BY <1>1, <1>3, FS_Subset
<1>5. Successes(t) \subseteq Successes(s) => Cardinality(Successes(t)) <= Cardinality(Successes(s))
  BY <1>2, FS_Subset
<1>6. Cardinality(Successes(t)) <= Cardinality(Successes(s)) + 1
  BY <1>2, <1>3, <1>4
<1> QED
  BY <1>1, <1>5, <1>6

\* Each command that was written may have added a reply, each joint that
\* succeeded has taken one away.
BacklogInv ==
  /\ task = "write" => Backlog <= before + (next - 1)
  /\ task \in {"read", "done"} =>
       Backlog + Cardinality(Successes(status)) <= before + NumJoints

LEMMA WriteKeepsBacklog ==
  ASSUME ExchangeTypes, HonestInv, HonestInv', BacklogInv, WriteCommand
  PROVE  BacklogInv'
<1>1. /\ task = "write" /\ before' = before /\ inbox' = inbox
      /\ next' = (next % NumJoints) + 1
      /\ task' = (IF next = NumJoints THEN "read" ELSE "write")
      /\ sample' = sample
  BY DEF WriteCommand
<1>2. before \in Nat /\ next \in Joints /\ WireTypes
  BY DEF ExchangeTypes, CycleTypes
<1>3. Backlog \in Nat /\ Backlog' \in Nat
  <2>1. WireTypes'
    <3>1. CASE wire' = wire
      BY <1>1, <1>2, <3>1, ReadKeepsWire
    <3>2. CASE Transmit(next, TRUE, on[next])
      BY <1>1, <1>2, <3>2, TransmitTypes
    <3> QED
      BY <3>1, <3>2 DEF WriteCommand
  <2> QED
    BY <1>2, <2>1, BacklogFinite DEF Backlog, WireTypes
<1>4. Backlog' <= Backlog + 1
  <2>1. CASE wire' = wire
    <3>1. Backlog' = Backlog
      BY <1>1, <2>1 DEF Backlog
    <3> QED
      BY <1>3, <3>1
  <2>2. CASE Transmit(next, TRUE, on[next])
    BY <1>1, <1>2, <2>2, TransmitAddsOne
  <2> QED
    BY <2>1, <2>2 DEF WriteCommand
<1>5. Backlog <= before + (next - 1)
  BY <1>1 DEF BacklogInv
<1>6. CASE next # NumJoints
  <2>1. task' = "write" /\ next' = next + 1
    BY <1>1, <1>2, <1>6, NextIsSuccessor
  <2>2. Backlog' <= before' + (next' - 1)
    BY <1>1, <1>2, <1>3, <1>4, <1>5, <2>1 DEF Joints
  <2> QED
    BY <2>1, <2>2 DEF BacklogInv
<1>7. CASE next = NumJoints
  <2>1. task' = "read" /\ Backlog' <= before' + NumJoints
    BY <1>1, <1>2, <1>3, <1>4, <1>5, <1>7, Bounds
  <2>2. \A j \in Joints : status'[j] # "SUCCESS"
    <3>1. \A j \in Joints : sample'[j] = "none"
      BY <1>1 DEF HonestInv
    <3> QED
      BY <2>1, <3>1 DEF HonestInv, Honest, Agree
  <2>3. Cardinality(Successes(status')) = 0
    BY <2>2, SuccessCount
  <2>4. Backlog' + Cardinality(Successes(status')) <= before' + NumJoints
    BY <1>3, <2>1, <2>3
  <2> QED
    BY <2>1, <2>4 DEF BacklogInv
<1> QED
  BY <1>6, <1>7

\* A joint succeeds only with a reply that is taken from the queue.
LEMMA ReadKeepsBacklog ==
  ASSUME ExchangeTypes, BacklogInv,
         SkipUnsent \/ ReadFails \/ ReadErrorFrame \/ ReadForeignFrame \/ ReadReply
  PROVE  BacklogInv'
<1>1. task = "read" /\ task' \in {"read", "done"} /\ before' = before /\ wire' = wire
  BY DEF SkipUnsent, ReadFails, ReadErrorFrame, ReadForeignFrame, ReadReply, Reading,
         NextJoint, MarkReadFailed, resultVars, busVars
<1>2. before \in Nat /\ status \in [Joints -> Statuses] /\ WireTypes
  BY DEF ExchangeTypes, CycleTypes
<1>3. inbox' = inbox \/ (inbox # <<>> /\ inbox' = Tail(inbox))
  BY DEF SkipUnsent, ReadFails, ReadErrorFrame, ReadForeignFrame, ReadReply, busVars
<1>4. WireTypes'
  BY <1>1, <1>2, <1>3, ReadKeepsWire
<1>5. /\ Backlog \in Nat /\ Backlog' \in Nat
      /\ Cardinality(Successes(status)) \in Nat /\ Cardinality(Successes(status')) \in Nat
  BY <1>2, <1>4, SuccessCount, BacklogFinite DEF Backlog, WireTypes
<1>6. Backlog + Cardinality(Successes(status)) <= before + NumJoints
  BY <1>1 DEF BacklogInv
<1>7. Backlog' <= Backlog
  <2>1. CASE inbox' = inbox
    <3>1. Backlog' = Backlog
      BY <1>1, <2>1 DEF Backlog
    <3> QED
      BY <1>5, <3>1
  <2>2. CASE inbox # <<>> /\ inbox' = Tail(inbox)
    BY <1>1, <1>2, <2>2, ReadTakesBacklog
  <2> QED
    BY <1>3, <2>1, <2>2
<1>8. CASE ~ReadReply
  <2>1. status' = status \/ status' = [status EXCEPT ![next] = "CAN_READ_FAILED"]
    BY <1>8 DEF SkipUnsent, ReadFails, ReadErrorFrame, ReadForeignFrame,
                MarkReadFailed, resultVars
  <2>2. Cardinality(Successes(status')) <= Cardinality(Successes(status))
    <3>1. CASE status' = status
      BY <1>5, <3>1
    <3>2. CASE status' = [status EXCEPT ![next] = "CAN_READ_FAILED"]
      BY <1>2, <3>2, OneMoreSuccess
    <3> QED
      BY <2>1, <3>1, <3>2
  <2>3. Backlog' + Cardinality(Successes(status')) <= before' + NumJoints
    BY <1>1, <1>2, <1>5, <1>6, <1>7, <2>2, Bounds
  <2> QED
    BY <1>1, <2>3 DEF BacklogInv
<1>9. CASE ReadReply
  <2>1. inbox # <<>> /\ inbox' = Tail(inbox) /\ Head(inbox).from \in Joints
    BY <1>9 DEF ReadReply
  <2>2. Backlog' + 1 <= Backlog
    BY <1>1, <1>2, <2>1, ReadTakesBacklog
  <2>3. PICK x : status' = [status EXCEPT ![Head(inbox).from] = x]
    BY <1>9 DEF ReadReply
  <2>4. Cardinality(Successes(status')) <= Cardinality(Successes(status)) + 1
    BY <1>2, <2>3, OneMoreSuccess
  <2>5. Backlog' + Cardinality(Successes(status')) <= before + NumJoints
    <3>1. before \in Nat /\ NumJoints \in Nat
      BY <1>2, Bounds
    <3>2. PICK a \in Nat, b \in Nat, c \in Nat, d \in Nat :
            /\ a = Backlog /\ b = Cardinality(Successes(status))
            /\ c = Backlog' /\ d = Cardinality(Successes(status'))
      BY <1>5
    <3>3. a + b <= before + NumJoints
      BY <1>6, <3>2
    <3>4. c + 1 <= a
      BY <2>2, <3>2
    <3>5. d <= b + 1
      BY <2>4, <3>2
    <3>6. c + d <= before + NumJoints
      BY <3>1, <3>3, <3>4, <3>5
    <3> QED
      BY <3>2, <3>6
  <2> QED
    BY <1>1, <2>5 DEF BacklogInv
<1> QED
  BY <1>8, <1>9

LEMMA BacklogStep ==
  ASSUME ExchangeTypes, HonestInv, BacklogInv, [ENext]_evars
  PROVE  BacklogInv'
<1>1. CASE WriteCommand
  <2>1. HonestInv'
    BY HonestStep DEF ExchangeTypes
  <2> QED
    BY <1>1, <2>1, WriteKeepsBacklog
<1>2. CASE SkipUnsent \/ ReadFails \/ ReadErrorFrame \/ ReadForeignFrame \/ ReadReply
  BY <1>2, ReadKeepsBacklog
<1>3. CASE SendControl \/ ReadControl
  BY <1>3, ControlLeavesCycle DEF ControlFrame, ControlTasks, BacklogInv
<1>4. CASE Configure \/ Calibrate \/ Cleanup
  BY <1>4 DEF Configure, Calibrate, Cleanup, Begin, BacklogInv
<1>5. CASE StartCycle
  <2>1. task' = "write" /\ next' = 1 /\ before' = Backlog /\ Backlog' = Backlog
    BY <1>5, StartKeepsBacklog DEF StartCycle, ExchangeTypes
  <2>2. Backlog \in Nat
    BY BacklogType DEF ExchangeTypes
  <2> QED
    BY <2>1, <2>2 DEF BacklogInv
<1>6. CASE (\E j \in Joints : Deliver(j) \/ Lose(j)) \/ Disturb
  <2>1. /\ UNCHANGED <<task, next, status, before>> /\ Backlog' <= Backlog
        /\ WireTypes /\ WireTypes'
    BY <1>6, BusLeavesDevice, BusKeepsBacklog, BusTypes
    DEF ExchangeTypes, loopVars, resultVars
  <2>2. /\ Backlog \in Nat /\ Backlog' \in Nat /\ before \in Nat /\ next \in Nat
        /\ Cardinality(Successes(status)) \in Nat
    <3>1. next \in Nat /\ before \in Nat
      BY Bounds DEF ExchangeTypes, CycleTypes, Joints
    <3>2. Backlog \in Nat /\ Backlog' \in Nat
      BY <2>1, BacklogFinite DEF Backlog, WireTypes
    <3> QED
      BY <3>1, <3>2, SuccessCount
  <2> QED
    BY <2>1, <2>2, Bounds DEF BacklogInv
<1>7. CASE UNCHANGED evars
  BY <1>7 DEF evars, loopVars, resultVars, busVars, Backlog, BacklogInv
<1> QED
  BY <1>1, <1>2, <1>3, <1>4, <1>5, <1>6, <1>7 DEF ENext, DeviceStep

\* A cycle that reports SUCCESS for every joint has read as many replies as its
\* commands can have added, whichever commands those replies answer: what the
\* states lag behind the commands grows in no cycle that looks good.
THEOREM GoodCyclesHideNothing == ESpec => []NoHiddenBacklog
<1> DEFINE I == ExchangeTypes /\ HonestInv /\ BacklogInv
<1>1. EInit => I
  BY ExchangeTypesInit DEF EInit, HonestInv, BacklogInv
<1>2. I /\ [ENext]_evars => I'
  BY ExchangeTypesStep, HonestStep, BacklogStep DEF ExchangeTypes
<1>3. I => NoHiddenBacklog
  <2> SUFFICES ASSUME I, task = "done", \A j \in Joints : status[j] = "SUCCESS"
               PROVE  Backlog <= before
    BY DEF NoHiddenBacklog
  <2>1. Cardinality(Successes(status)) = NumJoints
    BY SuccessCount
  <2>2. Backlog + NumJoints <= before + NumJoints
    BY <2>1 DEF BacklogInv
  <2>3. Backlog \in Nat /\ before \in Nat
    BY BacklogType DEF ExchangeTypes
  <2> QED
    BY <2>2, <2>3, Bounds
<1> HIDE DEF I
<1> QED
  BY <1>1, <1>2, <1>3, PTL DEF ESpec

-----------------------------------------------------------------------------
(* The loops over the bus                                                   *)

\* At most this many steps of send_and_receive are left of a cycle: a write per
\* joint, and per joint as many reads as the guard against error frames allows.
CycleLeft ==
  CASE task = "write" -> NumJoints * MaxErrSkips + (NumJoints + 1 - next)
    [] task = "read"  -> (NumJoints + 1 - next) * MaxErrSkips - errSkips
    [] OTHER          -> 0

\* Of the current operation: a write and a read for each trial and each frame.
FrameLeft ==
  (CASE frame = "retry" -> 2 * (MaxTrials - trial) + 4
     [] frame = "zero"  -> 4
     [] OTHER           -> 2) - (IF waiting THEN 1 ELSE 0)

\* Operations of this plan and of those that failures may lead to.
OpsLeft ==
  Len(plan) + (CASE task = "calibrate" -> 2 * NumJoints
                 [] task \in {"configure", "misconfigured", "emergency"} -> NumJoints
                 [] OTHER -> 0)

OpSteps == 2 * MaxTrials + 4

ControlLeft == IF task \in ControlTasks THEN OpsLeft * OpSteps + FrameLeft ELSE 0

LEMMA CycleLeftBounds ==
  ASSUME ExchangeTypes
  PROVE  /\ CycleLeft \in Nat /\ CycleLeft <= NumJoints * MaxErrSkips + NumJoints
         /\ task = "read" => CycleLeft >= 1
<1>1. PICK n \in Nat, e \in Nat, m \in Nat, k \in Nat :
        /\ n = NumJoints /\ e = MaxErrSkips /\ m = next - 1 /\ k = errSkips
        /\ m < n /\ k < e
  BY Bounds DEF ExchangeTypes, CycleTypes, Joints
<1>2. PICK d \in Nat : n = m + d + 1
  <2>1. n - m - 1 \in Nat /\ n = m + (n - m - 1) + 1
    BY <1>1
  <2> QED
    BY <2>1
<1>3. m * e \in Nat /\ d * e \in Nat /\ n * e = m * e + d * e + e /\ (d + 1) * e = d * e + e
  <2>1. (m + d + 1) * e = m * e + d * e + e
    BY <1>1, <1>2
  <2> QED
    BY <1>2, <2>1
<1>4. NumJoints + 1 - next = d + 1
  BY <1>1, <1>2, Bounds DEF ExchangeTypes, CycleTypes, Joints
<1>5. CASE task = "write"
  <2>1. CycleLeft = n * e + (d + 1)
    BY <1>1, <1>4, <1>5 DEF CycleLeft
  <2> QED
    BY <1>1, <1>2, <1>3, <1>5, <2>1
<1>6. CASE task = "read"
  <2>1. CycleLeft = (d + 1) * e - k
    BY <1>1, <1>4, <1>6 DEF CycleLeft
  <2> QED
    BY <1>1, <1>2, <1>3, <2>1
<1>7. CASE task \notin {"write", "read"}
  <2>1. CycleLeft = 0
    BY <1>7 DEF CycleLeft
  <2> QED
    BY <1>1, <1>2, <1>3, <1>7, <2>1
<1> QED
  BY <1>5, <1>6, <1>7

\* The read loop goes on with the next joint, or is done.
LEMMA NextJointShortens ==
  ASSUME ExchangeTypes, task = "read", NextJoint
  PROVE  task' \in {"read", "done"} /\ CycleLeft' < CycleLeft
<1>1. PICK e \in Nat, d \in Nat, k \in Nat :
        /\ e = MaxErrSkips /\ k = errSkips /\ k < e /\ NumJoints = next + d
  <2>1. /\ MaxErrSkips \in Nat /\ errSkips \in Nat /\ errSkips < MaxErrSkips
        /\ NumJoints - next \in Nat /\ NumJoints = next + (NumJoints - next)
    BY Bounds DEF ExchangeTypes, CycleTypes, Joints
  <2> QED
    BY <2>1
<1>2. next \in Nat /\ next \in Joints /\ d * e \in Nat /\ (d + 1) * e = d * e + e
  BY <1>1, Bounds DEF ExchangeTypes, CycleTypes, Joints
<1>3. CycleLeft = d * e + e - k
  <2>1. NumJoints + 1 - next = d + 1
    BY <1>1, <1>2
  <2> QED
    BY <1>1, <1>2, <2>1 DEF CycleLeft
<1>4. CASE next = NumJoints
  <2>1. task' = "done" /\ CycleLeft' = 0
    BY <1>4 DEF NextJoint, CycleLeft
  <2> QED
    BY <1>1, <1>2, <1>3, <2>1
<1>5. CASE next # NumJoints
  <2>1. task' = "read" /\ errSkips' = 0 /\ next' = next + 1
    BY <1>2, <1>5, NextIsSuccessor DEF NextJoint
  <2>2. NumJoints + 1 - next' = d
    BY <1>1, <1>2, <2>1
  <2>3. CycleLeft' = d * e - 0
    BY <1>1, <2>1, <2>2 DEF CycleLeft
  <2> QED
    BY <1>1, <1>2, <1>3, <2>1, <2>3
<1> QED
  BY <1>4, <1>5

LEMMA CycleShortens ==
  ASSUME ExchangeTypes, task \in {"write", "read"}, DeviceStep
  PROVE  task' \in {"write", "read", "done"} /\ CycleLeft' < CycleLeft
<1>1. CASE WriteCommand
  <2>1. /\ task = "write" /\ next' = (next % NumJoints) + 1 /\ errSkips' = errSkips
        /\ task' = (IF next = NumJoints THEN "read" ELSE "write")
    BY <1>1 DEF WriteCommand
  <2>2. PICK n \in Nat, p \in Nat, k \in Nat :
          /\ n = NumJoints /\ p = NumJoints * MaxErrSkips /\ k = errSkips
          /\ next \in Joints /\ next \in Nat /\ n >= next /\ n >= 1
    BY Bounds DEF ExchangeTypes, CycleTypes, Joints
  <2>3. CycleLeft = p + (n + 1 - next)
    BY <2>1, <2>2 DEF CycleLeft
  <2>4. CASE next = NumJoints
    <3>1. task' = "read" /\ next' = 1
      BY <2>1, <2>2, <2>4
    <3>2. CycleLeft' = (NumJoints + 1 - 1) * MaxErrSkips - k
      BY <2>1, <2>2, <3>1 DEF CycleLeft
    <3>3. NumJoints + 1 - 1 = NumJoints
      BY Bounds
    <3> QED
      BY <2>2, <2>3, <3>1, <3>2, <3>3
  <2>5. CASE next # NumJoints
    <3>1. task' = "write" /\ next' = next + 1
      BY <2>1, <2>2, <2>5, NextIsSuccessor
    <3>2. CycleLeft' = p + (n + 1 - (next + 1))
      BY <2>2, <3>1 DEF CycleLeft
    <3> QED
      BY <2>2, <2>3, <3>1, <3>2
  <2> QED
    BY <2>4, <2>5
<1>2. CASE SkipUnsent \/ ReadFails \/ ReadForeignFrame \/ ReadReply
  <2>1. task = "read" /\ NextJoint
    BY <1>2 DEF SkipUnsent, ReadFails, ReadForeignFrame, ReadReply, Reading
  <2> QED
    BY <2>1, NextJointShortens
<1>3. CASE ReadErrorFrame
  <2>1. task = "read"
    BY <1>3 DEF ReadErrorFrame, Reading
  <2>2. CASE errSkips' = errSkips + 1 /\ UNCHANGED <<task, next>>
    <3>1. PICK x \in Int, k \in Nat :
            x = (NumJoints + 1 - next) * MaxErrSkips /\ k = errSkips
      BY Bounds DEF ExchangeTypes, CycleTypes, Joints
    <3>2. CycleLeft = x - k /\ CycleLeft' = x - (k + 1)
      BY <2>1, <2>2, <3>1 DEF CycleLeft
    <3> QED
      BY <2>1, <2>2, <3>1, <3>2
  <2> QED
    BY <1>3, <2>1, <2>2, NextJointShortens DEF ReadErrorFrame
<1>4. ~(SendControl \/ ReadControl)
  BY DEF SendControl, ReadControl, ControlTasks
<1> QED
  BY <1>1, <1>2, <1>3, <1>4 DEF DeviceStep

\* What else happens during a cycle leaves it alone.
LEMMA OthersLeaveCycle ==
  ASSUME task \in {"write", "read"} \cup ControlTasks, [ENext]_evars, ~DeviceStep
  PROVE  UNCHANGED <<task, controlVars, loopVars>>
<1>1. ~(Configure \/ Calibrate \/ Cleanup \/ StartCycle)
  BY DEF Configure, Calibrate, Cleanup, StartCycle, Ready, ControlTasks
<1>2. CASE UNCHANGED evars
  BY <1>2 DEF evars
<1> QED
  BY <1>1, <1>2, BusLeavesDevice DEF ENext

\* Every cycle is over after a bounded number of steps of send_and_receive,
\* whatever the bus does in between, also in a storm of error frames.  What
\* CycleEnds needs beyond that is that the device takes its steps.
THEOREM CyclesTakeBoundedSteps ==
  ESpec => /\ [](CycleLeft \in Nat /\ CycleLeft <= NumJoints * MaxErrSkips + NumJoints)
           /\ [][(task \in {"write", "read"}) =>
                   IF DeviceStep
                     THEN task' \in {"write", "read", "done"} /\ CycleLeft' < CycleLeft
                     ELSE task' = task /\ CycleLeft' = CycleLeft]_evars
<1>1. ExchangeTypes /\ [ENext]_evars => ExchangeTypes'
  BY ExchangeTypesStep
<1>2. ExchangeTypes => CycleLeft \in Nat /\ CycleLeft <= NumJoints * MaxErrSkips + NumJoints
  BY CycleLeftBounds
<1>3. ExchangeTypes /\ [ENext]_evars =>
        [(task \in {"write", "read"}) =>
           IF DeviceStep
             THEN task' \in {"write", "read", "done"} /\ CycleLeft' < CycleLeft
             ELSE task' = task /\ CycleLeft' = CycleLeft]_evars
  <2> SUFFICES ASSUME ExchangeTypes, [ENext]_evars, task \in {"write", "read"}
               PROVE  IF DeviceStep
                        THEN task' \in {"write", "read", "done"} /\ CycleLeft' < CycleLeft
                        ELSE task' = task /\ CycleLeft' = CycleLeft
    OBVIOUS
  <2>1. CASE DeviceStep
    BY <2>1, CycleShortens
  <2>2. CASE ~DeviceStep
    <3>1. UNCHANGED <<task, next, errSkips>>
      BY <2>2, OthersLeaveCycle DEF loopVars
    <3> QED
      BY <2>2, <3>1 DEF CycleLeft
  <2> QED
    BY <2>1, <2>2
<1> QED
  BY <1>1, <1>2, <1>3, ExchangeTypesInit, PTL DEF ESpec

\* While an operation runs there is at least one more step at its frame.
LEMMA ControlLeftBounds ==
  ASSUME PlanTypes
  PROVE  /\ OpSteps \in Nat /\ FrameLeft \in Nat /\ FrameLeft >= 1
         /\ OpsLeft \in Nat /\ ControlLeft \in Nat
<1>1. MaxTrials \in Nat /\ trial \in Nat /\ trial < MaxTrials /\ NumJoints \in Nat
  BY Bounds DEF PlanTypes
<1>2. OpSteps \in Nat
  BY <1>1 DEF OpSteps
<1>3. FrameLeft \in Nat /\ FrameLeft >= 1
  BY <1>1 DEF FrameLeft, PlanTypes
<1>4. OpsLeft \in Nat
  <2>1. Len(plan) \in Nat
    BY LenProperties DEF PlanTypes
  <2> QED
    BY <1>1, <2>1 DEF OpsLeft
<1>5. ControlLeft \in Nat
  <2>1. OpsLeft * OpSteps \in Nat
    BY <1>2, <1>4
  <2> QED
    BY <1>3, <2>1 DEF ControlLeft
<1> QED
  BY <1>2, <1>3, <1>4, <1>5

\* The first frame of a new operation finds fewer operations left, or the
\* device's user has no more of them.
Shorter ==
  \/ task' \in {"idle", "closed"}
  \/ /\ task' \in ControlTasks
     /\ FrameLeft' \in Nat /\ FrameLeft' <= OpSteps
     /\ OpsLeft' \in Nat /\ OpsLeft' < OpsLeft

LEMMA FewerOperations ==
  ASSUME NEW a \in Nat, NEW b \in Nat, a < b,
         NEW k \in Nat, NEW g \in Nat, g <= k, NEW f \in Nat, f >= 1
  PROVE  a * k + g < b * k + f
<1>1. PICK d \in Nat : b = a + d + 1
  <2>1. b - a - 1 \in Nat /\ b = a + (b - a - 1) + 1
    OBVIOUS
  <2> QED
    BY <2>1
<1>2. b * k = a * k + d * k + k /\ a * k \in Nat /\ d * k \in Nat
  <2>1. (a + d + 1) * k = a * k + d * k + k
    OBVIOUS
  <2> QED
    BY <1>1, <2>1
<1> QED
  BY <1>2

LEMMA ShorterLowers ==
  ASSUME PlanTypes, task \in ControlTasks, Shorter
  PROVE  task' \in ControlTasks \cup {"idle", "closed"} /\ ControlLeft' < ControlLeft
<1>1. /\ OpSteps \in Nat /\ FrameLeft \in Nat /\ FrameLeft >= 1 /\ OpsLeft \in Nat
      /\ ControlLeft = OpsLeft * OpSteps + FrameLeft
  BY ControlLeftBounds DEF ControlLeft
<1>2. CASE task' \in {"idle", "closed"}
  <2>1. ControlLeft' = 0
    BY <1>2 DEF ControlLeft, ControlTasks
  <2>2. OpsLeft * OpSteps \in Nat
    BY <1>1
  <2> QED
    BY <1>1, <1>2, <2>1, <2>2
<1>3. CASE /\ task' \in ControlTasks /\ FrameLeft' \in Nat /\ FrameLeft' <= OpSteps
           /\ OpsLeft' \in Nat /\ OpsLeft' < OpsLeft
  <2>1. ControlLeft' = OpsLeft' * OpSteps + FrameLeft'
    BY <1>3 DEF ControlLeft, OpSteps
  <2> QED
    BY <1>1, <1>3, <2>1, FewerOperations
<1> QED
  BY <1>2, <1>3 DEF Shorter

\* What Begin leaves to do; the plan is p.
LEMMA BeginShortens ==
  ASSUME NEW t \in ControlTasks, NEW p, NEW long, Begin(t, p, long)
  PROVE  /\ task' = t /\ plan' = p
         /\ FrameLeft' \in Nat /\ FrameLeft' <= OpSteps
<1>1. MaxTrials \in Nat /\ trial' = 0 /\ waiting' = FALSE /\ task' = t /\ plan' = p
  BY Bounds DEF Begin
<1>2. frame' \in {"retry", "zero", "start", "end"}
  BY DEF Begin, FirstFrame
<1>3. FrameLeft' \in {2 * MaxTrials + 4, 4, 2}
  BY <1>1, <1>2 DEF FrameLeft
<1> QED
  BY <1>1, <1>3 DEF OpSteps

LEMMA AdvanceShortens ==
  ASSUME PlanTypes, task \in ControlTasks, NEW t \in ControlTasks, NEW long,
         t = task \/ (t = "misconfigured" /\ task = "configure"),
         Advance(t, long)
  PROVE  Shorter
<1>1. /\ plan \in Seq(Operations) /\ plan # <<>> /\ Len(plan) \in Nat /\ Len(plan) >= 1
      /\ NumJoints \in Nat /\ NumJoints >= 1
  BY Bounds, EmptySeq, LenProperties DEF PlanTypes
<1>2. CASE Len(plan) > 1 /\ Begin(t, Tail(plan), long)
  <2>1. Len(Tail(plan)) = Len(plan) - 1
    BY <1>1, HeadTailProperties
  <2>2. /\ task' = t /\ plan' = Tail(plan)
        /\ FrameLeft' \in Nat /\ FrameLeft' <= OpSteps
    BY <1>2, BeginShortens
  <2>3. OpsLeft' \in Nat /\ OpsLeft' < OpsLeft
    BY <1>1, <2>1, <2>2 DEF OpsLeft
  <2> QED
    BY <2>2, <2>3 DEF Shorter
<1>3. CASE t = "misconfigured" /\ Begin("disable", EndAll, long)
  <2>1. /\ task' = "disable" /\ plan' = EndAll
        /\ FrameLeft' \in Nat /\ FrameLeft' <= OpSteps
    BY <1>3, BeginShortens DEF ControlTasks
  <2>2. Len(plan') = NumJoints
    BY <2>1, PlansOfOperations
  <2>3. OpsLeft' \in Nat /\ OpsLeft' < OpsLeft
    BY <1>1, <1>3, <2>1, <2>2 DEF OpsLeft
  <2> QED
    BY <2>1, <2>3 DEF Shorter, ControlTasks
<1>4. CASE Rest("idle", long) \/ Rest("closed", long)
  BY <1>4 DEF Rest, Shorter
<1> QED
  BY <1>2, <1>3, <1>4 DEF Advance

LEMMA ThrowShortens ==
  ASSUME PlanTypes, task \in ControlTasks, Throw
  PROVE  Shorter
<1>1. CASE task \in {"configure", "misconfigured"} /\ Advance("misconfigured", longTimeout)
  BY <1>1, AdvanceShortens DEF ControlTasks
<1>2. CASE task = "disable" /\ Advance("disable", longTimeout)
  BY <1>2, AdvanceShortens DEF ControlTasks
<1>3. ASSUME NEW t \in {"emergency", "disable"}, Begin(t, EndAll, longTimeout),
             task = (IF t = "emergency" THEN "calibrate" ELSE "emergency")
      PROVE  Shorter
  <2>1. /\ Len(plan) \in Nat /\ Len(plan) >= 1 /\ NumJoints \in Nat
        /\ NumJoints >= 1 /\ Len(EndAll) = NumJoints
    BY Bounds, EmptySeq, LenProperties, PlansOfOperations DEF PlanTypes
  <2>2. /\ t \in ControlTasks /\ task' = t /\ plan' = EndAll
        /\ FrameLeft' \in Nat /\ FrameLeft' <= OpSteps
    BY <1>3, BeginShortens DEF ControlTasks
  <2>3. OpsLeft' \in Nat /\ OpsLeft' < OpsLeft
    BY <1>3, <2>1, <2>2 DEF OpsLeft
  <2> QED
    BY <2>2, <2>3 DEF Shorter
<1> QED
  BY <1>1, <1>2, <1>3 DEF Throw

\* Within an operation: a frame fewer, a trial fewer, or its write is done.
LEMMA FrameShortens ==
  ASSUME PlanTypes, task \in ControlTasks, UNCHANGED <<task, plan>>,
         FrameLeft' \in Int, FrameLeft' < FrameLeft
  PROVE  task' \in ControlTasks \cup {"idle", "closed"} /\ ControlLeft' < ControlLeft
<1>1. PICK x \in Nat, f \in Nat : x = OpsLeft * OpSteps /\ f = FrameLeft
  <2>1. OpsLeft \in Nat /\ OpSteps \in Nat /\ FrameLeft \in Nat
    BY ControlLeftBounds
  <2>2. OpsLeft * OpSteps \in Nat
    BY <2>1
  <2> QED
    BY <2>1, <2>2
<1>2. ControlLeft = x + f
  BY <1>1 DEF ControlLeft
<1>3. ControlLeft' = x + FrameLeft'
  BY <1>1 DEF ControlLeft, OpsLeft, OpSteps
<1> QED
  BY <1>1, <1>2, <1>3

LEMMA OperationShortens ==
  ASSUME PlanTypes, task \in ControlTasks, DeviceStep
  PROVE  task' \in ControlTasks \cup {"idle", "closed"} /\ ControlLeft' < ControlLeft
<1> DEFINE Lowers ==
      task' \in ControlTasks \cup {"idle", "closed"} /\ ControlLeft' < ControlLeft
<1>1. MaxTrials \in Nat /\ trial \in Nat /\ trial < MaxTrials /\ waiting \in BOOLEAN
  BY Bounds DEF PlanTypes
<1>2. ASSUME DeviceError
      PROVE  Lowers
  <2>1. CASE /\ frame = "retry" /\ trial + 1 < MaxTrials
             /\ trial' = trial + 1 /\ waiting' = FALSE
             /\ UNCHANGED <<task, plan, frame, longTimeout>>
    <3>1. /\ FrameLeft' = 2 * (MaxTrials - (trial + 1)) + 4
          /\ FrameLeft >= 2 * (MaxTrials - trial) + 4 - 1
      BY <1>1, <2>1 DEF FrameLeft
    <3>2. FrameLeft \in Nat
      BY ControlLeftBounds
    <3>3. FrameLeft' \in Int /\ FrameLeft' < FrameLeft
      BY <1>1, <3>1, <3>2
    <3> QED
      BY <2>1, <3>3, FrameShortens
  <2>2. CASE Throw
    BY <2>2, ThrowShortens, ShorterLowers
  <2> QED
    BY <1>2, <2>1, <2>2 DEF DeviceError
<1>3. ASSUME FrameConfirmed
      PROVE  Lowers
  <2>1. CASE /\ frame = "retry" /\ frame' \in {"zero", "start"}
             /\ waiting' = FALSE /\ UNCHANGED <<task, plan, trial>>
    <3>1. FrameLeft' \in {4, 2} /\ FrameLeft >= 2 * (MaxTrials - trial) + 4 - 1
      BY <1>1, <2>1 DEF FrameLeft
    <3>2. FrameLeft \in Nat
      BY ControlLeftBounds
    <3>3. FrameLeft' \in Int /\ FrameLeft' < FrameLeft
      BY <1>1, <3>1, <3>2
    <3> QED
      BY <2>1, <3>3, FrameShortens
  <2>2. CASE /\ frame = "zero" /\ frame' = "start"
             /\ waiting' = FALSE /\ UNCHANGED <<task, plan, trial>>
    <3>1. FrameLeft' = 2 /\ FrameLeft \in {4, 3}
      BY <1>1, <2>2 DEF FrameLeft
    <3> QED
      BY <2>2, <3>1, FrameShortens
  <2>3. CASE \E long : Advance(task, long)
    BY <2>3, AdvanceShortens, ShorterLowers
  <2> QED
    BY <1>3, <2>1, <2>2, <2>3 DEF FrameConfirmed
<1>4. ASSUME ~waiting, waiting' = TRUE, UNCHANGED <<task, plan, frame, trial>>
      PROVE  Lowers
  <2>1. FrameLeft' = FrameLeft - 1
    BY <1>1, <1>4, ControlLeftBounds DEF FrameLeft
  <2>2. FrameLeft \in Nat
    BY ControlLeftBounds
  <2> QED
    BY <1>4, <2>1, <2>2, FrameShortens
<1>5. CASE SendControl
  BY <1>2, <1>4, <1>5 DEF SendControl
<1>6. CASE ReadControl
  <2>1. CASE Throw
    BY <2>1, ThrowShortens, ShorterLowers
  <2> QED
    BY <1>2, <1>3, <1>6, <2>1 DEF ReadControl
<1>7. SendControl \/ ReadControl
  BY DEF DeviceStep, WriteCommand, SkipUnsent, ReadFails, ReadErrorFrame,
         ReadForeignFrame, ReadReply, Reading, ControlTasks
<1> QED
  BY <1>5, <1>6, <1>7

\* Enabling, calibrating and disabling a device's motors cannot go on for ever,
\* whatever the motors answer: each step of the device lowers a number that
\* nothing else touches, with the trials of a V3 motor and the operations that
\* a failure leads to counted in.  What ControlEnds needs beyond that is that
\* the device takes its steps.
THEOREM OperationsTakeBoundedSteps ==
  ESpec => /\ [](ControlLeft \in Nat)
           /\ [][(task \in ControlTasks) =>
                   IF DeviceStep
                     THEN /\ task' \in ControlTasks \cup {"idle", "closed"}
                          /\ ControlLeft' < ControlLeft
                     ELSE task' = task /\ ControlLeft' = ControlLeft]_evars
<1>1. ExchangeTypes /\ [ENext]_evars => ExchangeTypes'
  BY ExchangeTypesStep
<1>2. ExchangeTypes => ControlLeft \in Nat
  BY ControlLeftBounds DEF ExchangeTypes
<1>3. ExchangeTypes /\ [ENext]_evars =>
        [(task \in ControlTasks) =>
           IF DeviceStep
             THEN /\ task' \in ControlTasks \cup {"idle", "closed"}
                  /\ ControlLeft' < ControlLeft
             ELSE task' = task /\ ControlLeft' = ControlLeft]_evars
  <2> SUFFICES ASSUME ExchangeTypes, [ENext]_evars, task \in ControlTasks
               PROVE  IF DeviceStep
                        THEN /\ task' \in ControlTasks \cup {"idle", "closed"}
                             /\ ControlLeft' < ControlLeft
                        ELSE task' = task /\ ControlLeft' = ControlLeft
    OBVIOUS
  <2>1. CASE DeviceStep
    BY <2>1, OperationShortens DEF ExchangeTypes
  <2>2. CASE ~DeviceStep
    <3>1. UNCHANGED <<task, plan, frame, waiting, trial>>
      BY <2>2, OthersLeaveCycle DEF controlVars, planVars
    <3> QED
      BY <2>2, <3>1 DEF ControlLeft, OpsLeft, FrameLeft, OpSteps
  <2> QED
    BY <2>1, <2>2
<1> QED
  BY <1>1, <1>2, <1>3, ExchangeTypesInit, PTL DEF ESpec
=============================================================================
