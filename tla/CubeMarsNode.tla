---------------------------- MODULE CubeMarsNode ----------------------------
(***************************************************************************)
(* The lifecycle node of the CubeMars driver: what its threads do to the   *)
(* lifecycle state, the latest command, the CAN devices and the motors.    *)
(*                                                                         *)
(* One thread runs the executor's callbacks, one at a time: every timer,   *)
(* subscription and service is in the node's default callback group, which *)
(* is mutually exclusive.  Beside it runs one communication thread per CAN *)
(* interface, which sends and receives back to back and calls deactivate() *)
(* itself.  After Ctrl-C the main thread, which `Exec' stands for as well, *)
(* calls on_shutdown().                                                    *)
(*                                                                         *)
(* An action is what a thread does between two accesses to state that      *)
(* another thread can change.                                              *)
(***************************************************************************)
EXTENDS Integers, FiniteSets

CONSTANTS
  Ifaces,          \* the CAN interfaces, one communication thread each
  Exec,            \* the executor's thread
  Flaky,           \* the interfaces whose bus or motors may fail
  NumJoints,       \* motors per interface
  MaxErrors,       \* max_can_errors_before_motor_shutdown
  DampingOnError   \* damping_on_motor_error

ASSUME ConstantsAssumption ==
  /\ Exec \notin Ifaces
  /\ Flaky \subseteq Ifaces
  /\ NumJoints \in Nat \ {0}
  /\ MaxErrors \in Nat \ {0}
  /\ DampingOnError \in BOOLEAN

Threads == Ifaces \cup {Exec}

VARIABLES
  phase,            \* main(): spinning, exiting (after spin returned), down
  lifecycle,        \* get_current_state()
  pc,               \* where each thread is
  ret,              \* where each thread goes on after deactivate() returns
  running,          \* CommThread::running of each interface
  cmd,              \* joint_cmd_ptr_
  msgReceived,      \* msg_received_
  watchdog,         \* watchdog_timer_ exists
  cleanupRequested, \* cleanup_requested_
  open,             \* can_interfaces_ holds the CAN devices
  busLocked,        \* can_communication_mutex_ is held exclusively
  frame,            \* the commands this cycle of an interface sends
  bad,              \* joints of this cycle without communication SUCCESS
  errors,           \* num_can_errors_per_interfaces_
  motor             \* what the motors of each interface execute

lifeVars == <<phase, lifecycle>>
cmdVars  == <<cmd, msgReceived, watchdog>>
busVars  == <<open, busLocked, motor>>
commVars == <<frame, bad, errors>>
ctlVars  == <<pc, ret>>
vars == <<phase, lifecycle, pc, ret, running, cmd, msgReceived, watchdog,
          cleanupRequested, open, busLocked, frame, bad, errors, motor>>

PrimaryStates == {"unconfigured", "inactive", "active", "finalized"}
TransitionStates == {"configuring", "activating", "deactivating",
                     "cleaningup", "shuttingdown", "errorprocessing"}

\* What a command is: the zeros of on_configure, the damping of on_deactivate,
\* a joint_commands message, and that message converted to motor space.
Commands == {"zero", "damping", "joint_command"}
Frames   == Commands \cup {"motor_command"}

DeactivateLocs == {"d_call", "d_store", "d_reset", "d_finish"}
ExecLocs == {"idle", "configuring", "activating", "watchdog", "watchdog_end",
             "storing", "cleanup_call", "stop", "join", "lock", "teardown",
             "on_error", "finish", "exit", "gone"}
CommLocs == {"none", "loop", "entered", "built", "send", "exchange",
             "status", "count", "fatal", "writeback"}

Goto(t, loc) == pc' = [pc EXCEPT ![t] = loc]

\* A communication thread between the first and the last step of a cycle.
InCycle(i) == pc[i] \notin {"none", "loop"}

\* The executor may start a callback.
Idle == phase = "spinning" /\ pc[Exec] = "idle"

-----------------------------------------------------------------------------
(* deactivate(), called by any thread: change_state() triggers the          *)
(* transition only from ACTIVE, runs on_deactivate() in the calling thread  *)
(* and then finishes the transition.  on_shutdown() enters at d_store.      *)

\* Seeded bug: on_deactivate() is called instead of deactivate().
CallOnDeactivate(t, from) ==
  /\ Goto(t, "d_store")
  /\ ret' = [ret EXCEPT ![t] = from]

CallDeactivate(t, from) ==
  /\ Goto(t, "d_call")
  /\ ret' = [ret EXCEPT ![t] = from]

GoBack(t) ==
  /\ Goto(t, ret[t])
  /\ ret' = [ret EXCEPT ![t] = "none"]

TriggerDeactivate(t) ==
  /\ pc[t] = "d_call"
  /\ \/ /\ lifecycle = "active"
        /\ lifecycle' = "deactivating"
        /\ Goto(t, "d_store")
        /\ UNCHANGED ret
     \/ /\ lifecycle # "active"
        /\ GoBack(t)
        /\ UNCHANGED lifecycle
  /\ UNCHANGED <<phase, running, cmdVars, cleanupRequested, busVars, commVars>>

\* Seeded bug: the damping command is not published.
StoreNoDamping(t) ==
  /\ pc[t] = "d_store"
  /\ Goto(t, "d_reset")
  /\ UNCHANGED <<lifeVars, ret, running, cmdVars, cleanupRequested, busVars, commVars>>

StoreDamping(t) ==
  /\ pc[t] = "d_store"
  /\ cmd' = "damping"
  /\ Goto(t, "d_reset")
  /\ UNCHANGED <<lifeVars, ret, running, msgReceived, watchdog,
                 cleanupRequested, busVars, commVars>>

ResetWatchdog(t) ==
  /\ pc[t] = "d_reset"
  /\ watchdog' = FALSE
  /\ msgReceived' = FALSE
  /\ IF ret[t] = "stop" THEN GoBack(t)
                         ELSE Goto(t, "d_finish") /\ UNCHANGED ret
  /\ UNCHANGED <<lifeVars, running, cmd, cleanupRequested, busVars, commVars>>

FinishDeactivate(t) ==
  /\ pc[t] = "d_finish"
  /\ lifecycle' = "inactive"
  /\ GoBack(t)
  /\ UNCHANGED <<phase, running, cmdVars, cleanupRequested, busVars, commVars>>

Deactivate(t) ==
  \/ TriggerDeactivate(t)
  \/ StoreDamping(t)
  \/ ResetWatchdog(t)
  \/ FinishDeactivate(t)

-----------------------------------------------------------------------------
(* The lifecycle services: configure and activate.                          *)

RequestConfigure ==
  /\ Idle /\ lifecycle = "unconfigured"
  /\ lifecycle' = "configuring"
  /\ Goto(Exec, "configuring")
  /\ UNCHANGED <<phase, ret, running, cmdVars, cleanupRequested, busVars, commVars>>

\* The devices open, every motor answers, the threads start.
ConfigureSucceeds ==
  /\ pc[Exec] = "configuring"
  /\ cmd' = "zero"
  /\ open' = TRUE
  /\ motor' = [i \in Ifaces |-> "zero"]
  /\ errors' = [i \in Ifaces |-> 0]
  /\ running' = [i \in Ifaces |-> TRUE]
  /\ pc' = [t \in Threads |-> IF t = Exec THEN "finish" ELSE "loop"]
  /\ UNCHANGED <<lifeVars, ret, msgReceived, watchdog, cleanupRequested,
                 busLocked, frame, bad>>

\* A parameter is rejected (FAILURE), before or after the zeros were stored.
ConfigureRejected ==
  /\ pc[Exec] = "configuring"
  /\ cmd' \in {cmd, "zero"}
  /\ lifecycle' = "unconfigured"
  /\ Goto(Exec, "idle")
  /\ UNCHANGED <<phase, ret, running, msgReceived, watchdog,
                 cleanupRequested, busVars, commVars>>

\* A parameter is not set, a CAN device cannot be created, or a motor does not
\* answer and all are disabled again, as far as their bus allows (ERROR).
ConfigureErrors ==
  /\ pc[Exec] = "configuring"
  /\ \/ UNCHANGED motor
     \/ Flaky # {} /\ \E stuck \in SUBSET Flaky :
          motor' = [i \in Ifaces |-> IF i \notin stuck THEN "off"
                                     ELSE IF motor[i] = "off" THEN "zero"
                                     ELSE motor[i]]
  /\ lifecycle' = "errorprocessing"
  /\ Goto(Exec, "on_error")
  /\ UNCHANGED <<phase, ret, running, cmdVars, cleanupRequested, open,
                 busLocked, commVars>>

OnError ==
  /\ pc[Exec] = "on_error"
  /\ cmd' = "null"
  /\ Goto(Exec, "finish")
  /\ UNCHANGED <<lifeVars, ret, running, msgReceived, watchdog,
                 cleanupRequested, busVars, commVars>>

RequestActivate ==
  /\ Idle /\ lifecycle = "inactive"
  /\ lifecycle' = "activating"
  /\ Goto(Exec, "activating")
  /\ UNCHANGED <<phase, ret, running, cmdVars, cleanupRequested, busVars, commVars>>

\* Seeded bug: the timer of an earlier activation is expected to be there.
OnActivateWithoutTimer ==
  /\ pc[Exec] = "activating"
  /\ \/ /\ msgReceived
        /\ Goto(Exec, "finish")
        /\ UNCHANGED lifecycle
     \/ /\ ~msgReceived
        /\ lifecycle' = "inactive"
        /\ Goto(Exec, "idle")
  /\ UNCHANGED <<phase, ret, running, cmdVars, cleanupRequested, busVars, commVars>>

OnActivate ==
  /\ pc[Exec] = "activating"
  /\ \/ /\ msgReceived
        /\ watchdog' = TRUE
        /\ Goto(Exec, "finish")
        /\ UNCHANGED lifecycle
     \/ /\ ~msgReceived
        /\ lifecycle' = "inactive"
        /\ Goto(Exec, "idle")
        /\ UNCHANGED watchdog
  /\ UNCHANGED <<phase, ret, running, cmd, msgReceived, cleanupRequested,
                 busVars, commVars>>

\* A successful callback's transition arrives at its primary state.
Target(state) ==
  CASE state = "configuring"     -> "inactive"
    [] state = "activating"      -> "active"
    [] state = "shuttingdown"    -> "finalized"
    [] OTHER                     -> "unconfigured"

FinishTransition ==
  /\ pc[Exec] = "finish"
  /\ lifecycle' = Target(lifecycle)
  /\ Goto(Exec, "idle")
  /\ UNCHANGED <<phase, ret, running, cmdVars, cleanupRequested, busVars, commVars>>

-----------------------------------------------------------------------------
(* Deactivate, cleanup and shutdown: the services, the supervisor's timer   *)
(* and main() after Ctrl-C.                                                 *)

RequestDeactivate ==
  /\ Idle
  /\ CallDeactivate(Exec, "idle")
  /\ UNCHANGED <<lifeVars, running, cmdVars, cleanupRequested, busVars, commVars>>

RequestCleanup ==
  /\ Idle
  /\ Goto(Exec, "cleanup_call")
  /\ UNCHANGED <<lifeVars, ret, running, cmdVars, cleanupRequested, busVars, commVars>>

Supervisor ==
  /\ Idle /\ cleanupRequested
  /\ cleanupRequested' = FALSE
  /\ Goto(Exec, "cleanup_call")
  /\ UNCHANGED <<lifeVars, ret, running, cmdVars, busVars, commVars>>

TriggerCleanup ==
  /\ pc[Exec] = "cleanup_call"
  /\ \/ /\ lifecycle = "inactive"
        /\ lifecycle' = "cleaningup"
        /\ Goto(Exec, "stop")
     \/ /\ lifecycle # "inactive"
        /\ Goto(Exec, "idle")
        /\ UNCHANGED lifecycle
  /\ UNCHANGED <<phase, ret, running, cmdVars, cleanupRequested, busVars, commVars>>

\* on_shutdown(previous): deactivate and clean up what `previous' calls for.
EnterShutdown(last) ==
  /\ Goto(Exec, CASE lifecycle = "active"   -> "d_store"
                  [] lifecycle = "inactive" -> "stop"
                  [] OTHER                  -> last)
  /\ ret' = IF lifecycle = "active" THEN [ret EXCEPT ![Exec] = "stop"] ELSE ret
  /\ UNCHANGED <<running, cmdVars, cleanupRequested, busVars, commVars>>

RequestShutdown ==
  /\ Idle /\ lifecycle \in {"unconfigured", "inactive", "active"}
  /\ lifecycle' = "shuttingdown"
  /\ EnterShutdown("finish")
  /\ UNCHANGED phase

\* Ctrl-C: spin() returns between two callbacks and main() calls on_shutdown()
\* itself, which leaves the lifecycle state as it is.
Interrupt ==
  /\ Idle
  /\ phase' = "exiting"
  /\ EnterShutdown("exit")
  /\ UNCHANGED lifecycle

\* Seeded bug: the bus is locked before the threads are joined.
StopCommThreadsLocked ==
  /\ pc[Exec] = "stop"
  /\ \A i \in Ifaces : pc[i] # "exchange"
  /\ running' = [i \in Ifaces |-> FALSE]
  /\ busLocked' = TRUE
  /\ Goto(Exec, "join")
  /\ UNCHANGED <<lifeVars, ret, cmdVars, cleanupRequested, open, motor, commVars>>

\* Seeded bug: the threads are not told to stop.
StopCommThreadsSilently ==
  /\ pc[Exec] = "stop"
  /\ Goto(Exec, "join")
  /\ UNCHANGED <<lifeVars, ret, running, cmdVars, cleanupRequested, busVars, commVars>>

StopCommThreads ==
  /\ pc[Exec] = "stop"
  /\ running' = [i \in Ifaces |-> FALSE]
  /\ Goto(Exec, "join")
  /\ UNCHANGED <<lifeVars, ret, cmdVars, cleanupRequested, busVars, commVars>>

\* Seeded bug: the threads are signalled but not joined.
SkipJoin ==
  /\ pc[Exec] = "join"
  /\ Goto(Exec, "lock")
  /\ UNCHANGED <<lifeVars, ret, running, cmdVars, cleanupRequested, busVars, commVars>>

JoinCommThreads ==
  /\ pc[Exec] = "join"
  /\ \A i \in Ifaces : pc[i] = "none"
  /\ Goto(Exec, "lock")
  /\ UNCHANGED <<lifeVars, ret, running, cmdVars, cleanupRequested, busVars, commVars>>

LockBus ==
  /\ pc[Exec] = "lock"
  /\ \A i \in Ifaces : pc[i] # "exchange"
  /\ busLocked' = TRUE
  /\ Goto(Exec, "teardown")
  /\ UNCHANGED <<lifeVars, ret, running, cmdVars, cleanupRequested, open,
                 motor, commVars>>

\* Seeded bug: one try around the whole loop, so a motor that cannot be reached
\* ends it and the other interfaces keep their motors on.
TeardownUntilError ==
  /\ pc[Exec] = "teardown"
  /\ \E unreached \in SUBSET Flaky :
       motor' = [i \in Ifaces |-> IF unreached # {} THEN motor[i] ELSE "off"]
  /\ open' = FALSE
  /\ busLocked' = FALSE
  /\ errors' = [i \in Ifaces |-> 0]
  /\ cmd' = "null"
  /\ Goto(Exec, IF phase = "exiting" THEN "exit" ELSE "finish")
  /\ UNCHANGED <<lifeVars, ret, running, msgReceived, watchdog,
                 cleanupRequested, frame, bad>>

\* Every motor is disabled on its own; one that cannot be reached stays as it is.
Teardown ==
  /\ pc[Exec] = "teardown"
  /\ \E unreached \in SUBSET Flaky :
       motor' = [i \in Ifaces |-> IF i \in unreached THEN motor[i] ELSE "off"]
  /\ open' = FALSE
  /\ busLocked' = FALSE
  /\ errors' = [i \in Ifaces |-> 0]
  /\ cmd' = "null"
  /\ Goto(Exec, IF phase = "exiting" THEN "exit" ELSE "finish")
  /\ UNCHANGED <<lifeVars, ret, running, msgReceived, watchdog,
                 cleanupRequested, frame, bad>>

\* main() returns: whatever still runs ends with the process.
Exit ==
  /\ pc[Exec] = "exit"
  /\ phase' = "down"
  /\ pc' = [t \in Threads |-> IF t = Exec THEN "gone" ELSE "none"]
  /\ frame' = [i \in Ifaces |-> "none"]
  /\ bad' = [i \in Ifaces |-> 0]
  /\ ret' = [t \in Threads |-> "none"]
  /\ UNCHANGED <<lifecycle, running, cmdVars, cleanupRequested, busVars, errors>>

-----------------------------------------------------------------------------
(* The joint_commands subscription and the watchdog's timer.                *)

ReceiveCommand ==
  /\ Idle /\ open
  /\ msgReceived' = TRUE
  /\ Goto(Exec, IF lifecycle = "active" THEN "storing" ELSE "idle")
  /\ UNCHANGED <<lifeVars, ret, running, cmd, watchdog, cleanupRequested,
                 busVars, commVars>>

StoreCommand ==
  /\ pc[Exec] = "storing"
  /\ cmd' = "joint_command"
  /\ Goto(Exec, "idle")
  /\ UNCHANGED <<lifeVars, ret, running, msgReceived, watchdog,
                 cleanupRequested, busVars, commVars>>

\* The executor takes the timer; a thread may still reset the timer before
\* the callback starts.
WatchdogFires ==
  /\ Idle /\ watchdog
  /\ Goto(Exec, "watchdog")
  /\ UNCHANGED <<lifeVars, ret, running, cmdVars, cleanupRequested, busVars, commVars>>

WatchdogChecks ==
  /\ pc[Exec] = "watchdog"
  /\ \/ /\ ~msgReceived
        /\ CallDeactivate(Exec, "watchdog_end")
     \/ /\ msgReceived
        /\ Goto(Exec, "watchdog_end")
        /\ UNCHANGED ret
  /\ UNCHANGED <<lifeVars, running, cmdVars, cleanupRequested, busVars, commVars>>

\* Seeded bug: the flag is not taken back.
WatchdogEndsAsItIs ==
  /\ pc[Exec] = "watchdog_end"
  /\ Goto(Exec, "idle")
  /\ UNCHANGED <<lifeVars, ret, running, cmdVars, cleanupRequested, busVars, commVars>>

WatchdogEnds ==
  /\ pc[Exec] = "watchdog_end"
  /\ msgReceived' = FALSE
  /\ Goto(Exec, "idle")
  /\ UNCHANGED <<lifeVars, ret, running, cmd, watchdog, cleanupRequested,
                 busVars, commVars>>

-----------------------------------------------------------------------------
(* A communication thread: comm_loop() and can_cycle_callback().            *)

\* A return from the cycle, with nothing of it left over.
Return(i) ==
  /\ Goto(i, "loop")
  /\ frame' = [frame EXCEPT ![i] = "none"]
  /\ bad' = [bad EXCEPT ![i] = 0]

LeaveLoop(i) ==
  /\ pc[i] = "loop" /\ ~running[i]
  /\ Goto(i, "none")
  /\ UNCHANGED <<lifeVars, ret, running, cmdVars, cleanupRequested, busVars, commVars>>

\* A cycle in any other state returns at once and changes nothing.
EnterCycle(i) ==
  /\ pc[i] = "loop" /\ running[i]
  /\ lifecycle \in {"active", "inactive"}
  /\ Goto(i, "entered")
  /\ UNCHANGED <<lifeVars, ret, running, cmdVars, cleanupRequested, busVars, commVars>>

LoadCommand(i) ==
  /\ pc[i] = "entered"
  /\ \/ /\ running[i] /\ cmd # "null"
        /\ frame' = [frame EXCEPT ![i] = cmd]
        /\ Goto(i, "built")
     \/ /\ ~running[i] \/ cmd = "null"
        /\ Goto(i, "loop")
        /\ UNCHANGED frame
  /\ UNCHANGED <<lifeVars, ret, running, cmdVars, cleanupRequested, busVars,
                 bad, errors>>

\* Friction and transmission are applied only if the state is ACTIVE by now.
ConvertCommand(i) ==
  /\ pc[i] = "built"
  /\ frame' = IF lifecycle = "active" /\ frame[i] = "joint_command"
                THEN [frame EXCEPT ![i] = "motor_command"]
                ELSE frame
  /\ Goto(i, "send")
  /\ UNCHANGED <<lifeVars, ret, running, cmdVars, cleanupRequested, busVars,
                 bad, errors>>

AcquireBus(i) ==
  /\ pc[i] = "send" /\ ~busLocked
  /\ Goto(i, "exchange")
  /\ UNCHANGED <<lifeVars, ret, running, cmdVars, cleanupRequested, busVars, commVars>>

\* send_and_receive(): a motor that is enabled executes what reached it, and
\* on a bus that fails a frame or its reply may be lost.
SendAndReceive(i) ==
  /\ pc[i] = "exchange"
  /\ \E lost \in IF i \in Flaky THEN 0 .. NumJoints ELSE {0} :
       /\ bad' = [bad EXCEPT ![i] = lost]
       /\ \/ motor' = IF motor[i] = "off" THEN motor
                      ELSE [motor EXCEPT ![i] = frame[i]]
          \/ lost > 0 /\ UNCHANGED motor
  /\ frame' = [frame EXCEPT ![i] = "none"]
  /\ Goto(i, "status")
  /\ UNCHANGED <<lifeVars, ret, running, cmdVars, cleanupRequested, open,
                 busLocked, errors>>

SendAndReceiveThrows(i) ==
  /\ pc[i] = "exchange" /\ i \in Flaky
  /\ frame' = [frame EXCEPT ![i] = "none"]
  /\ Goto(i, "fatal")
  /\ UNCHANGED <<lifeVars, ret, running, cmdVars, cleanupRequested, busVars,
                 bad, errors>>

\* A joint reports a fault; the loop over the joints goes on afterwards.
DeviceFault(i) ==
  /\ pc[i] = "status"
  /\ lifecycle = "active" /\ DampingOnError
  /\ CallDeactivate(i, "status")
  /\ UNCHANGED <<lifeVars, running, cmdVars, cleanupRequested, busVars, commVars>>

StatusChecked(i) ==
  /\ pc[i] = "status"
  /\ Goto(i, "count")
  /\ UNCHANGED <<lifeVars, ret, running, cmdVars, cleanupRequested, busVars, commVars>>

\* Seeded bug: one error more than the maximum is let through.
CountErrorsOneMore(i) ==
  /\ pc[i] = "count"
  /\ \/ /\ bad[i] > 0 /\ errors[i] + bad[i] > MaxErrors
        /\ Goto(i, "fatal")
        /\ UNCHANGED errors
     \/ /\ bad[i] = 0 \/ errors[i] + bad[i] <= MaxErrors
        /\ errors' = [errors EXCEPT ![i] = IF bad[i] = 0 THEN 0 ELSE @ + bad[i]]
        /\ Goto(i, "writeback")
  /\ UNCHANGED <<lifeVars, ret, running, cmdVars, cleanupRequested, busVars,
                 frame, bad>>

\* Seeded bug: the errors of a cycle replace the count of the cycles before it.
CountErrorsAfresh(i) ==
  /\ pc[i] = "count"
  /\ \/ /\ bad[i] > 0 /\ errors[i] + bad[i] >= MaxErrors
        /\ Goto(i, "fatal")
        /\ UNCHANGED errors
     \/ /\ bad[i] = 0 \/ errors[i] + bad[i] < MaxErrors
        /\ errors' = [errors EXCEPT ![i] = 0]
        /\ Goto(i, "writeback")
  /\ UNCHANGED <<lifeVars, ret, running, cmdVars, cleanupRequested, busVars,
                 frame, bad>>

CountErrors(i) ==
  /\ pc[i] = "count"
  /\ \/ /\ bad[i] > 0 /\ errors[i] + bad[i] >= MaxErrors
        /\ Goto(i, "fatal")
        /\ UNCHANGED errors
     \/ /\ bad[i] = 0 \/ errors[i] + bad[i] < MaxErrors
        /\ errors' = [errors EXCEPT ![i] = IF bad[i] = 0 THEN 0 ELSE @ + bad[i]]
        /\ Goto(i, "writeback")
  /\ UNCHANGED <<lifeVars, ret, running, cmdVars, cleanupRequested, busVars,
                 frame, bad>>

\* Seeded bug: outside ACTIVE the cycle just returns.
FatalErrorIgnored(i) ==
  /\ pc[i] = "fatal"
  /\ bad' = [bad EXCEPT ![i] = 0]
  /\ \/ lifecycle = "active" /\ CallDeactivate(i, "loop")
     \/ lifecycle # "active" /\ Goto(i, "loop") /\ UNCHANGED ret
  /\ UNCHANGED <<lifeVars, running, cmdVars, cleanupRequested, busVars, frame, errors>>

\* Too many errors, or send_and_receive() threw: damping from ACTIVE,
\* otherwise the executor is asked to clean up.
FatalError(i) ==
  /\ pc[i] = "fatal"
  /\ bad' = [bad EXCEPT ![i] = 0]
  /\ \/ /\ lifecycle = "active"
        /\ CallDeactivate(i, "loop")
        /\ UNCHANGED cleanupRequested
     \/ /\ lifecycle # "active"
        /\ cleanupRequested' = TRUE
        /\ Goto(i, "loop")
        /\ UNCHANGED ret
  /\ UNCHANGED <<lifeVars, running, cmdVars, busVars, frame, errors>>

WriteBack(i) ==
  /\ pc[i] = "writeback"
  /\ Return(i)
  /\ UNCHANGED <<lifeVars, ret, running, cmdVars, cleanupRequested, busVars, errors>>

LimitViolated(i) ==
  /\ pc[i] = "writeback" /\ running[i]
  /\ lifecycle = "active"
  /\ CallDeactivate(i, "loop")
  /\ bad' = [bad EXCEPT ![i] = 0]
  /\ UNCHANGED <<lifeVars, running, cmdVars, cleanupRequested, busVars, frame, errors>>

Cycle(i) ==
  \/ EnterCycle(i) \/ LoadCommand(i) \/ ConvertCommand(i) \/ AcquireBus(i)
  \/ SendAndReceive(i) \/ SendAndReceiveThrows(i)
  \/ DeviceFault(i) \/ StatusChecked(i) \/ CountErrors(i) \/ FatalError(i)
  \/ WriteBack(i) \/ LimitViolated(i)

CommStep(i) == LeaveLoop(i) \/ Cycle(i) \/ Deactivate(i)

-----------------------------------------------------------------------------

\* What the outside may ask for at any time.
Request ==
  \/ RequestConfigure \/ RequestActivate \/ RequestDeactivate
  \/ RequestCleanup \/ RequestShutdown \/ Interrupt

\* A callback, once it has started, goes on.
ExecStep ==
  \/ ConfigureSucceeds \/ ConfigureRejected \/ ConfigureErrors \/ OnError
  \/ OnActivate \/ FinishTransition \/ Deactivate(Exec) \/ TriggerCleanup
  \/ StopCommThreads \/ JoinCommThreads \/ LockBus \/ Teardown \/ Exit
  \/ StoreCommand \/ WatchdogChecks \/ WatchdogEnds

Down ==
  /\ phase = "down"
  /\ UNCHANGED vars

Init ==
  /\ phase = "spinning"
  /\ lifecycle = "unconfigured"
  /\ pc = [t \in Threads |-> IF t = Exec THEN "idle" ELSE "none"]
  /\ ret = [t \in Threads |-> "none"]
  /\ running = [i \in Ifaces |-> FALSE]
  /\ cmd = "null"
  /\ msgReceived \in BOOLEAN      \* the constructor does not set it
  /\ watchdog = FALSE
  /\ cleanupRequested = FALSE
  /\ open = FALSE
  /\ busLocked = FALSE
  /\ frame = [i \in Ifaces |-> "none"]
  /\ bad = [i \in Ifaces |-> 0]
  /\ errors = [i \in Ifaces |-> 0]
  /\ motor = [i \in Ifaces |-> "off"]

Next ==
  \/ Request
  \/ ExecStep
  \/ ReceiveCommand
  \/ WatchdogFires
  \/ Supervisor
  \/ \E i \in Ifaces : CommStep(i)
  \/ Down

Spec == Init /\ [][Next]_vars

\* Every thread gets its turn: reads on the sockets time out and the executor
\* runs its callbacks to the end.  It collects ready timers before anything
\* else, so messages and services cannot keep a due timer waiting forever.
Fairness ==
  /\ \A i \in Ifaces : WF_vars(CommStep(i))
  /\ WF_vars(ExecStep)
  /\ SF_vars(WatchdogFires)
  /\ SF_vars(Supervisor)

FairSpec == Spec /\ Fairness

-----------------------------------------------------------------------------
(* Safety.                                                                  *)

TypeOK ==
  /\ phase \in {"spinning", "exiting", "down"}
  /\ lifecycle \in PrimaryStates \cup TransitionStates
  /\ pc \in [Threads -> ExecLocs \cup CommLocs \cup DeactivateLocs]
  /\ ret \in [Threads -> {"none", "idle", "watchdog_end", "stop", "status", "loop"}]
  /\ running \in [Ifaces -> BOOLEAN]
  /\ cmd \in Commands \cup {"null"}
  /\ msgReceived \in BOOLEAN
  /\ watchdog \in BOOLEAN
  /\ cleanupRequested \in BOOLEAN
  /\ open \in BOOLEAN
  /\ busLocked \in BOOLEAN
  /\ frame \in [Ifaces -> Frames \cup {"none"}]
  /\ bad \in [Ifaces -> 0 .. NumJoints]
  /\ errors \in [Ifaces -> 0 .. MaxErrors - 1]
  /\ motor \in [Ifaces -> Frames \cup {"off"}]

\* The thread is in the middle of a lifecycle transition.
InTransition(t) ==
  \/ pc[t] \in {"d_store", "d_reset", "d_finish"}
  \/ pc[t] \in {"configuring", "activating", "on_error", "stop", "join",
                "lock", "teardown", "finish"}

\* While the executor spins, a transition is the work of exactly one thread:
\* no on_deactivate() of a communication thread overlaps another callback.
OneTransition ==
  phase = "spinning" =>
    /\ \A s, t \in Threads : InTransition(s) /\ InTransition(t) => s = t
    /\ (\E t \in Threads : InTransition(t)) <=> lifecycle \in TransitionStates

\* A communication thread is in a cycle only while the CAN devices exist.
NoUseAfterFree == \A i \in Ifaces : InCycle(i) => open

\* ACTIVE is never without its watchdog (while the timers are served).
WatchdogArmed == phase = "spinning" /\ lifecycle = "active" => watchdog

\* UNCONFIGURED, and FINALIZED, are silent: no communication thread, no CAN
\* device, no watchdog, and the motors that can be reached are off.
UnconfiguredIsQuiet ==
  phase = "spinning" /\ lifecycle \in {"unconfigured", "finalized"} =>
    /\ ~open /\ ~watchdog
    /\ \A i \in Ifaces : pc[i] = "none"
    /\ \A i \in Ifaces \ Flaky : motor[i] = "off"

-----------------------------------------------------------------------------
(* Liveness.                                                                *)

\* A cleanup or shutdown transition joins the communication threads and takes
\* both mutexes, and still comes to an end.
CleanupTerminates ==
  lifecycle \in {"cleaningup", "shuttingdown"} ~>
    lifecycle \in {"unconfigured", "finalized"}

\* Without joint_commands the node leaves ACTIVE.
SilenceLeavesActive ==
  <>[][~ReceiveCommand]_vars => []<>(lifecycle # "active" \/ phase # "spinning")

\* Interface i never again ends a cycle in which all joints communicated.
BusStaysBad(i) == <>[]~(pc[i] = "writeback" /\ bad[i] = 0)

\* A bad bus takes the node out of ACTIVE, whatever the controller sends.
BadBusLeavesActive ==
  \A i \in Ifaces :
    BusStaysBad(i) => []<>(lifecycle # "active" \/ phase # "spinning")

\* A bad bus takes the node all the way to UNCONFIGURED once nobody activates
\* it any more: from ACTIVE into damping, from INACTIVE by the supervisor.
BadBusUnconfigures ==
  \A i \in Ifaces :
    BusStaysBad(i) /\ <>[][~RequestActivate]_vars =>
      []<>(lifecycle \in {"unconfigured", "finalized"} \/ phase # "spinning")

\* After Ctrl-C the process ends: main() can join every communication thread.
InterruptEndsProcess == phase = "exiting" ~> phase = "down"
=============================================================================
