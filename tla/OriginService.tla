--------------------------- MODULE OriginService ----------------------------
(***************************************************************************)
(* The two calibration services, set_all_motors_origin_here and            *)
(* set_motor_origin_here, next to everything the lifecycle node does.      *)
(* Both pause communication threads, take the bus exclusively, disable the *)
(* motors, enable them again with a new zero position and resume.          *)
(***************************************************************************)
EXTENDS CubeMarsNode

VARIABLES
  asked,        \* the interface whose joint set_motor_origin_here is
                \* calibrating, if any
  unwinding,    \* set_all_motors_origin_here failed and called cleanup()
  brokenMutex   \* can_communication_mutex_ was unlocked twice: on glibc the
                \* reader count wraps and no writer gets it any more

originVars == <<asked, unwinding, brokenMutex>>
ovars == <<vars, originVars>>

ServiceLocs == {"all_join", "all_lock", "all_set", "all_failed",
                "one_join", "one_lock", "one_set", "one_failed"}

OInit ==
  /\ Init
  /\ asked = {}
  /\ unwinding = FALSE
  /\ brokenMutex = FALSE

\* Takes can_communication_mutex_ exclusively.
LockFor(from, to) ==
  /\ pc[Exec] = from /\ ~brokenMutex
  /\ \A i \in Ifaces : pc[i] # "exchange"
  /\ busLocked' = TRUE
  /\ Goto(Exec, to)
  /\ UNCHANGED <<lifeVars, ret, running, cmdVars, cleanupRequested, open,
                 motor, commVars, originVars>>

\* A failed calibration leaves the motors of interface i disabled, partly
\* enabled or, if the first frame was lost, as they were.
HalfCalibrated(i) == {motor[i], "off", "zero"}

-----------------------------------------------------------------------------
(* set_all_motors_origin_here                                               *)

AllPause ==
  /\ Idle /\ lifecycle = "inactive"
  /\ running' = [i \in Ifaces |-> FALSE]
  /\ Goto(Exec, "all_join")
  /\ UNCHANGED <<lifeVars, ret, cmdVars, cleanupRequested, busVars, commVars,
                 asked, unwinding, brokenMutex>>

AllJoin ==
  /\ pc[Exec] = "all_join"
  /\ \A i \in Ifaces : pc[i] = "none"
  /\ Goto(Exec, "all_lock")
  /\ UNCHANGED <<lifeVars, ret, running, cmdVars, cleanupRequested, busVars,
                 commVars, originVars>>

AllLock == LockFor("all_lock", "all_set")

AllSucceeds ==
  /\ pc[Exec] = "all_set"
  /\ motor' = [i \in Ifaces |-> "zero"]
  /\ running' = [i \in Ifaces |-> TRUE]
  /\ pc' = [t \in Threads |-> IF t = Exec THEN "idle" ELSE "loop"]
  /\ busLocked' = FALSE
  /\ UNCHANGED <<lifeVars, ret, cmdVars, cleanupRequested, open, commVars,
                 asked, unwinding, brokenMutex>>

\* Interface i fails; those done before it have the new zero already.
AllFails ==
  /\ pc[Exec] = "all_set"
  /\ \E i \in Flaky : \E done \in SUBSET (Ifaces \ {i}), state \in HalfCalibrated(i) :
       motor' = [j \in Ifaces |-> IF j = i THEN state
                                  ELSE IF j \in done THEN "zero" ELSE motor[j]]
  /\ Goto(Exec, "all_failed")
  /\ UNCHANGED <<lifeVars, ret, running, cmdVars, cleanupRequested, open,
                 busLocked, commVars, originVars>>

\* The emergency loop disables interface by interface.  If one throws, the
\* rest keeps its motors and its devices and cleanup() is next.
AllEmergencyThrows ==
  /\ pc[Exec] = "all_failed"
  /\ \E broken \in Flaky : \E disabled \in SUBSET (Ifaces \ {broken}) :
       motor' = [i \in Ifaces |-> IF i \in disabled THEN "off" ELSE motor[i]]
  /\ busLocked' = FALSE
  /\ unwinding' = TRUE
  /\ Goto(Exec, "cleanup_call")
  /\ UNCHANGED <<lifeVars, ret, running, cmdVars, cleanupRequested, open,
                 commVars, asked, brokenMutex>>

\* If none throws the loop runs past the last interface and calls a method of
\* what lies behind the vector: the process ends.
AllEmergencyOverruns ==
  /\ pc[Exec] = "all_failed"
  /\ motor' = [i \in Ifaces |-> "off"]
  /\ phase' = "down"
  /\ pc' = [t \in Threads |-> IF t = Exec THEN "gone" ELSE "none"]
  /\ UNCHANGED <<lifecycle, ret, running, cmdVars, cleanupRequested, open,
                 busLocked, commVars, originVars>>

\* After cleanup() the callback goes on as if nothing had failed: there is no
\* interface left to resume, and the mutex, which nobody holds, is unlocked.
\* (It also turns the error it answered into success, which changes no state.)
AllGoesOn ==
  /\ pc[Exec] = "idle" /\ unwinding /\ phase = "spinning"
  /\ unwinding' = FALSE
  /\ brokenMutex' \in {brokenMutex, TRUE}
  /\ UNCHANGED <<vars, asked>>

-----------------------------------------------------------------------------
(* set_motor_origin_here                                                    *)

\* Seeded bug: the state is not looked at.
OnePauseInAnyState ==
  /\ Idle /\ open
  /\ \E i \in Ifaces :
       /\ asked' = {i}
       /\ running' = [running EXCEPT ![i] = FALSE]
  /\ Goto(Exec, "one_join")
  /\ UNCHANGED <<lifeVars, ret, cmdVars, cleanupRequested, busVars, commVars,
                 unwinding, brokenMutex>>

OnePause ==
  /\ Idle /\ lifecycle = "inactive"
  /\ \E i \in Ifaces :
       /\ asked' = {i}
       /\ running' = [running EXCEPT ![i] = FALSE]
  /\ Goto(Exec, "one_join")
  /\ UNCHANGED <<lifeVars, ret, cmdVars, cleanupRequested, busVars, commVars,
                 unwinding, brokenMutex>>

OneJoin ==
  /\ pc[Exec] = "one_join"
  /\ \A i \in asked : pc[i] = "none"
  /\ Goto(Exec, "one_lock")
  /\ UNCHANGED <<lifeVars, ret, running, cmdVars, cleanupRequested, busVars,
                 commVars, originVars>>

\* Seeded bug: the service forgets the mutex.
OneLockForgotten ==
  /\ pc[Exec] = "one_lock"
  /\ Goto(Exec, "one_set")
  /\ UNCHANGED <<lifeVars, ret, running, cmdVars, cleanupRequested, busVars,
                 commVars, originVars>>

OneLock == LockFor("one_lock", "one_set")

\* Seeded bug: the paused thread is not started again.
OneSucceedsPaused ==
  /\ pc[Exec] = "one_set"
  /\ motor' = [i \in Ifaces |-> IF i \in asked THEN "zero" ELSE motor[i]]
  /\ Goto(Exec, "idle")
  /\ asked' = {}
  /\ busLocked' = FALSE
  /\ UNCHANGED <<lifeVars, ret, running, cmdVars, cleanupRequested, open,
                 commVars, unwinding, brokenMutex>>

OneSucceeds ==
  /\ pc[Exec] = "one_set"
  /\ motor' = [i \in Ifaces |-> IF i \in asked THEN "zero" ELSE motor[i]]
  /\ running' = [i \in Ifaces |-> i \in asked \/ running[i]]
  /\ pc' = [t \in Threads |-> IF t = Exec THEN "idle"
                              ELSE IF t \in asked THEN "loop" ELSE pc[t]]
  /\ asked' = {}
  /\ busLocked' = FALSE
  /\ UNCHANGED <<lifeVars, ret, cmdVars, cleanupRequested, open, commVars,
                 unwinding, brokenMutex>>

OneFails ==
  /\ pc[Exec] = "one_set"
  /\ \E i \in asked \cap Flaky : \E state \in HalfCalibrated(i) :
       motor' = [motor EXCEPT ![i] = state]
  /\ Goto(Exec, "one_failed")
  /\ UNCHANGED <<lifeVars, ret, running, cmdVars, cleanupRequested, open,
                 busLocked, commVars, originVars>>

\* Every motor of every interface is disabled and the devices are deleted, or
\* one throws and the devices stay; the other interfaces' threads still run.
OneEmergency ==
  /\ pc[Exec] = "one_failed"
  /\ \/ /\ motor' = [i \in Ifaces |-> "off"]
        /\ open' = FALSE
     \/ /\ \E broken \in Flaky : \E disabled \in SUBSET (Ifaces \ {broken}) :
             motor' = [i \in Ifaces |-> IF i \in disabled THEN "off" ELSE motor[i]]
        /\ UNCHANGED open
  /\ asked' = {}
  /\ busLocked' = FALSE
  /\ Goto(Exec, "cleanup_call")
  /\ UNCHANGED <<lifeVars, ret, running, cmdVars, cleanupRequested, commVars,
                 unwinding, brokenMutex>>

-----------------------------------------------------------------------------

Service ==
  \/ AllPause \/ AllJoin \/ AllLock \/ AllSucceeds \/ AllFails
  \/ AllEmergencyThrows \/ AllEmergencyOverruns \/ AllGoesOn
  \/ OnePause \/ OneJoin \/ OneLock \/ OneSucceeds \/ OneFails \/ OneEmergency

\* The node's own steps.  The callback that called cleanup() goes on before
\* the executor takes another one, and nobody passes a broken mutex.
NodeStep ==
  /\ Next
  /\ ~(unwinding /\ Idle)
  /\ ~(brokenMutex /\ pc[Exec] = "lock")
  /\ UNCHANGED <<asked, unwinding, brokenMutex>>

ONext == NodeStep \/ Service

OSpec == OInit /\ [][ONext]_ovars

-----------------------------------------------------------------------------

OTypeOK ==
  /\ pc \in [Threads -> ExecLocs \cup CommLocs \cup DeactivateLocs \cup ServiceLocs]
  /\ asked \in SUBSET Ifaces
  /\ unwinding \in BOOLEAN
  /\ brokenMutex \in BOOLEAN
  /\ errors \in [Ifaces -> 0 .. MaxErrors - 1]
  /\ motor \in [Ifaces -> Frames \cup {"off"}]

\* While a service or a cleanup sends motors control frames, no interface has a
\* cycle on its bus, though set_motor_origin_here joins only the thread of the
\* interface it calibrates; and of that one the thread has ended.
ControlExcludesCycles ==
  /\ pc[Exec] \in {"all_set", "all_failed", "one_set", "one_failed", "teardown"} =>
       \A i \in Ifaces : pc[i] # "exchange"
  /\ pc[Exec] = "one_set" => \A i \in asked : pc[i] = "none"

\* Motors are never disabled and enabled for a calibration in another state
\* than INACTIVE, although the state is looked at only once.
CalibratesOnlyInactive ==
  pc[Exec] \in ServiceLocs /\ phase = "spinning" => lifecycle = "inactive"

\* Between two callbacks of a configured node every interface has its thread.
EveryInterfaceServed ==
  Idle /\ ~unwinding /\ lifecycle \in {"inactive", "active"} =>
    \A i \in Ifaces : running[i] /\ pc[i] # "none"
=============================================================================
