----------------------------- MODULE JointData ------------------------------
(***************************************************************************)
(* The data of the cycles: the communication threads exchange frames,      *)
(* filter and scale what they read and write it to the messages the        *)
(* executor publishes, while the executor changes the parameters they use. *)
(* A thread reads the parameters under joint_params_mutex_, which prefers  *)
(* writers, and writes the messages under joint_state_msg_mutex_, both     *)
(* shared; the executor takes each of them exclusively.                    *)
(*                                                                         *)
(* The value of a joint is known by the time it was sampled and by how     *)
(* often it was scaled; of its parameters the model keeps the limits.      *)
(***************************************************************************)
EXTENDS Integers, FiniteSetsExt

CONSTANTS
  Ifaces,    \* the CAN interfaces
  NumJoints, \* joints, numbered in the order of an interface's vectors
  IfaceOf,   \* the interface of each joint
  Tuned,     \* joints whose limits are changed
  Values,    \* positions a limit may be set to
  Limits,    \* the limits of the configuration, which nothing compares
  MaxTime,   \* bound: instants of the clock
  MaxScaled  \* bound: scalings that are told apart

Joints == 1 .. NumJoints
Of(i)  == {j \in Joints : IfaceOf[j] = i}

ASSUME DataAssumption ==
  /\ NumJoints \in Nat /\ IfaceOf \in [Joints -> Ifaces]
  /\ Tuned \subseteq Joints /\ Values \subseteq Int
  /\ Limits \in [Joints -> [{"min", "max"} -> Values]]
  /\ MaxTime \in Nat \ {0} /\ MaxScaled \in Nat

VARIABLES
  pc,       \* where each communication thread is in its cycle
  running,  \* comm_threads_[i]->running
  fresh,    \* joints whose reply of the cycle under way is a SUCCESS
  state,    \* joint_states_per_can_interface_: [at, scaled]
  msg,      \* joint_state_msg_: [at, scaled]
  raw,      \* unfiltered_position_msg_: when its value was sampled, or NaN
  rx,       \* joint_rx_ns_, 0 before the first reply
  now,      \* the clock of the time stamps
  exec,     \* what the executor is doing
  limits,   \* pos_limit_min and pos_limit_max
  batch,    \* the update being applied: joint and field to new value
  before,   \* history: the limits when the executor locked them
  pub       \* the stamp published last, if every joint had replied, or 0

threadVars == <<pc, running>>
sampleVars == <<state, msg, raw, rx, now>>
dataVars   == <<fresh, sampleVars>>
paramVars  == <<limits, batch, before>>
jvars == <<threadVars, dataVars, exec, paramVars, pub>>

NaN    == -1
Unread == [at |-> 0, scaled |-> 0]
Fields == {"min", "max"}

InOrder(l) == l.min <= l.max

JInit ==
  /\ pc = [i \in Ifaces |-> "idle"]
  /\ running = [i \in Ifaces |-> TRUE]
  /\ fresh = {}
  /\ state = [j \in Joints |-> Unread] /\ msg = [j \in Joints |-> Unread]
  /\ raw = [j \in Joints |-> NaN] /\ rx = [j \in Joints |-> 0]
  /\ now = 0
  /\ exec = "idle"
  /\ limits = Limits /\ batch = <<>> /\ before = Limits
  /\ pub = 0

-----------------------------------------------------------------------------
(* The mutexes                                                              *)

\* Seeded bug: readers overtake a writer that waits.
CanReadBeforeWriter == exec # "applying"

\* joint_params_mutex_: a writer that waits keeps new readers out.
CanRead == exec \notin {"locking", "applying"}
CanWrite == \A i \in Ifaces : pc[i] = "idle"

\* joint_state_msg_mutex_.
CanCopy == \A i \in Ifaces : pc[i] # "writing"

-----------------------------------------------------------------------------
(* A cycle of interface i                                                   *)

To(i, p) == pc' = [pc EXCEPT ![i] = p] /\ UNCHANGED running

\* The end of a cycle; the next exchange sets every status anew.
Return(i) == To(i, "idle") /\ fresh' = fresh \ Of(i)

\* Seeded bug: the cycle does not lock the parameters.
EnterCycleUnlocked(i) ==
  /\ pc[i] = "idle" /\ running[i]
  /\ To(i, "cycle")
  /\ UNCHANGED <<dataVars, exec, paramVars, pub>>

EnterCycle(i) ==
  /\ pc[i] = "idle" /\ running[i] /\ CanRead
  /\ To(i, "cycle")
  /\ UNCHANGED <<dataVars, exec, paramVars, pub>>

\* The exchange throws, or there was no command: the cycle gives up.
ExchangeFails(i) ==
  /\ pc[i] = "cycle"
  /\ Return(i)
  /\ UNCHANGED <<sampleVars, exec, paramVars, pub>>

\* The joints in R reply; those in F have the status SUCCESS, the others' command
\* was not written or a later read failed in their turn.  After too many failures
\* the cycle gives up, too.
Exchange(i) ==
  /\ pc[i] = "cycle"
  /\ now' = IF now < MaxTime THEN now + 1 ELSE now
  /\ \E R \in SUBSET Of(i) : \E F \in SUBSET R :
       /\ \/ To(i, "received") /\ fresh' = fresh \cup F
          \/ F # Of(i) /\ Return(i)
       /\ state' = [j \in Joints |->
                      IF j \in R THEN [at |-> now', scaled |-> 0] ELSE state[j]]
  /\ UNCHANGED <<msg, raw, rx, exec, paramVars, pub>>

\* A sample scaled once more, by its transmission ratio.
Scaled(s) == [at |-> s.at, scaled |-> s.scaled + 1]

\* Seeded bug: a joint that did not reply has an unfiltered value, too.
ProcessUnguarded(i) ==
  /\ pc[i] = "received"
  /\ raw' = [j \in Joints |-> IF j \in Of(i) THEN state[j].at ELSE raw[j]]
  /\ state' = [j \in Joints |->
                 IF j \in Of(i) /\ state[j].at > 0 /\ state[j].scaled < MaxScaled
                   THEN Scaled(state[j]) ELSE state[j]]
  /\ To(i, "processed")
  /\ UNCHANGED <<fresh, msg, rx, now, exec, paramVars, pub>>

\* Filters, the unfiltered messages and the transmission ratios.  They write
\* the unfiltered values without joint_state_msg_mutex_.
Process(i) ==
  /\ pc[i] = "received"
  /\ raw' = [j \in Joints |-> IF j \notin Of(i) THEN raw[j]
                              ELSE IF j \in fresh THEN state[j].at ELSE NaN]
  /\ state' = [j \in Joints |->
                 IF j \in Of(i) /\ state[j].at > 0 /\ state[j].scaled < MaxScaled
                   THEN Scaled(state[j]) ELSE state[j]]
  /\ To(i, "processed")
  /\ UNCHANGED <<fresh, msg, rx, now, exec, paramVars, pub>>

\* With joint_state_msg_mutex_, unless the thread is to stop.
BeginWriteBack(i) ==
  /\ pc[i] = "processed"
  /\ \/ running[i] /\ To(i, "writing") /\ UNCHANGED fresh
     \/ ~running[i] /\ Return(i)
  /\ UNCHANGED <<sampleVars, exec, paramVars, pub>>

\* Seeded bug: the time stamp of a joint that did not reply is refreshed.
WriteBackRestamps(i) ==
  /\ pc[i] = "writing"
  /\ msg' = [j \in Joints |-> IF j \in Of(i) THEN state[j] ELSE msg[j]]
  /\ rx' = [j \in Joints |-> IF j \in Of(i) THEN now ELSE rx[j]]
  /\ Return(i)
  /\ UNCHANGED <<state, raw, now, exec, paramVars, pub>>

\* Seeded bug: a joint that did not reply loses its time stamp.
WriteBackForgets(i) ==
  /\ pc[i] = "writing"
  /\ msg' = [j \in Joints |-> IF j \in Of(i) THEN state[j] ELSE msg[j]]
  /\ rx' = [j \in Joints |-> IF j \notin Of(i) THEN rx[j]
                             ELSE IF j \in fresh THEN state[j].at ELSE 0]
  /\ Return(i)
  /\ UNCHANGED <<state, raw, now, exec, paramVars, pub>>

\* Value and time stamp of each joint, then the check of the position limits,
\* which ends the cycle either way.
WriteBack(i) ==
  /\ pc[i] = "writing"
  /\ msg' = [j \in Joints |-> IF j \in Of(i) THEN state[j] ELSE msg[j]]
  /\ rx' = [j \in Joints |->
              IF j \in Of(i) \cap fresh THEN state[j].at ELSE rx[j]]
  /\ Return(i)
  /\ UNCHANGED <<state, raw, now, exec, paramVars, pub>>

CycleStep(i) ==
  \/ ExchangeFails(i) \/ Exchange(i) \/ Process(i)
  \/ BeginWriteBack(i) \/ WriteBack(i)

-----------------------------------------------------------------------------
(* The executor                                                             *)

Replied == {j \in Joints : rx[j] > 0}

\* The oldest of the joints' last replies, the clock if there is none.
Stamp == IF Replied = {} THEN now ELSE Min({rx[j] : j \in Replied})

\* When the oldest of the values copied to the published messages was sampled.
Oldest == Min({now} \cup {msg[j].at : j \in Replied}
                    \cup {raw[j] : j \in {k \in Replied : raw[k] # NaN}})

CanPublish == exec = "idle" /\ CanCopy

Publish ==
  /\ CanPublish
  /\ pub' = IF Replied = Joints THEN Stamp ELSE 0
  /\ UNCHANGED <<threadVars, dataVars, exec, paramVars>>

Effective(u) ==
  [j \in Joints |-> [f \in Fields |->
     IF <<j, f>> \in DOMAIN u THEN u[<<j, f>>] ELSE limits[j][f]]]

\* A batch of new values, which is rejected unless it leaves in order the limits
\* of the joints it names; those of the others are not looked at.  (A field set
\* to the value it has adds nothing but this check.)
SetParameters ==
  /\ exec = "idle"
  /\ \E P \in SUBSET (Tuned \X Fields) \ {{}} : \E u \in [P -> Values] :
       /\ \A x \in P : u[x] # limits[x[1]][x[2]] /\ InOrder(Effective(u)[x[1]])
       /\ batch' = u
  /\ exec' = "locking"
  /\ UNCHANGED <<threadVars, dataVars, limits, before, pub>>

LockParameters ==
  /\ exec = "locking" /\ CanWrite
  /\ exec' = "applying" /\ before' = limits
  /\ UNCHANGED <<threadVars, dataVars, limits, batch, pub>>

\* One field of one joint.
ApplyField ==
  /\ exec = "applying"
  /\ \E x \in DOMAIN batch :
       /\ limits' = [limits EXCEPT ![x[1]][x[2]] = batch[x]]
       /\ batch' = [y \in DOMAIN batch \ {x} |-> batch[y]]
  /\ UNCHANGED <<threadVars, dataVars, exec, before, pub>>

UnlockParameters ==
  /\ exec = "applying" /\ DOMAIN batch = {}
  /\ exec' = "idle" /\ before' = limits
  /\ UNCHANGED <<threadVars, dataVars, limits, batch, pub>>

\* A calibration service stops some threads, waits for their cycles, and
\* starts them again.
Pause ==
  /\ exec = "idle"
  /\ \E I \in SUBSET Ifaces \ {{}} :
       running' = [i \in Ifaces |-> running[i] /\ i \notin I]
  /\ exec' = "calibrating"
  /\ UNCHANGED <<pc, dataVars, paramVars, pub>>

Resume ==
  /\ exec = "calibrating"
  /\ \A i \in Ifaces : running[i] \/ pc[i] = "idle"
  /\ running' = [i \in Ifaces |-> TRUE]
  /\ exec' = "idle"
  /\ UNCHANGED <<pc, dataVars, paramVars, pub>>

UpdateStep == LockParameters \/ ApplyField \/ UnlockParameters

JNext ==
  \/ \E i \in Ifaces : EnterCycle(i) \/ CycleStep(i)
  \/ Publish \/ SetParameters \/ UpdateStep \/ Pause \/ Resume

JSpec == JInit /\ [][JNext]_jvars

\* An exchange ends with the socket's timeout, and the executor goes on once
\* it has its lock.  Nothing makes a thread begin a cycle or a lock fair.
JFairSpec ==
  /\ JSpec
  /\ WF_jvars(UpdateStep)
  /\ \A i \in Ifaces : WF_jvars(CycleStep(i))

-----------------------------------------------------------------------------
(* Properties                                                               *)

\* Types.
JTypeOK ==
  /\ pc \in [Ifaces -> {"idle", "cycle", "received", "processed", "writing"}]
  /\ running \in [Ifaces -> BOOLEAN]
  /\ fresh \subseteq Joints /\ now \in 0 .. MaxTime
  /\ {state, msg} \subseteq [Joints -> [at : 0 .. MaxTime, scaled : 0 .. MaxScaled]]
  /\ raw \in [Joints -> (1 .. MaxTime) \cup {NaN}]
  /\ rx \in [Joints -> 0 .. MaxTime]
  /\ exec \in {"idle", "locking", "applying", "calibrating"}
  /\ {limits, before} \subseteq [Joints -> [Fields -> Values]]
  /\ DOMAIN batch \subseteq Tuned \X Fields
  /\ \A x \in DOMAIN batch : batch[x] \in Values
  /\ pub \in 0 .. MaxTime

\* "a conservative freshness bound (every joint value is no older than
\* `stamp`)": of the joints that have replied, in both kinds of messages,
\* though the threads write the one kind while it is copied.
StampIsConservative == CanPublish => Stamp <= Oldest

\* Once every joint has replied the stamps never go back, whichever joints
\* fail and in whatever order the interfaces write back.
StampNeverGoesBack == [][pub' >= pub]_jvars

\* Of the parameters the cycles see what was there before an update until the
\* update is complete.
Register == INSTANCE ParameterRegister WITH
  limits <- IF exec = "applying" THEN before ELSE limits,
  users  <- {i \in Ifaces : pc[i] # "idle"}

\* An update becomes visible as a whole, between the cycles, and leaves in order
\* the limits of every joint it changes.
UpdatesAreAtomic == Register!Register

\* "with constant 1 kHz x N readers in can_cycle_callback, a writer can starve
\* indefinitely": with writer preference an update is applied.
UpdateApplied == exec = "locking" ~> exec = "idle"

\* "on comm failure the pos/vel/effort values above are stale, so we keep the
\* joint's last successful sample time": a stale value is the last sample.
StaleValueIsLastSample ==
  CanPublish => \A j \in Joints : msg[j].at > 0 => msg[j].scaled = 1
=============================================================================
