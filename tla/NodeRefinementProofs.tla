------------------------ MODULE NodeRefinementProofs ------------------------
(***************************************************************************)
(* Proof that CubeMarsNode implements MotorLifecycle, for every set of CAN *)
(* interfaces.  Two more layers are put on the inductive invariant of      *)
(* CubeMarsNodeProofs: what the executor's thread can be doing in each     *)
(* phase of main(), and where every motor is enabled.                      *)
(***************************************************************************)
EXTENDS NodeRefinement, CubeMarsNodeProofs

\* main() does nothing but on_shutdown() after Ctrl-C.
PhaseInv ==
  /\ phase = "spinning" => pc[Exec] \notin {"exit", "gone"}
  /\ phase = "exiting" =>
       /\ pc[Exec] \in {"d_store", "d_reset", "stop", "join", "lock", "teardown", "exit"}
       /\ pc[Exec] \in {"d_store", "d_reset"} => ret[Exec] = "stop"
  /\ phase = "down" => pc[Exec] = "gone"

\* A configured node has every motor enabled.
EnabledInv ==
  /\ phase = "spinning"
  /\ \/ lifecycle \in {"inactive", "active", "activating", "deactivating"}
     \/ lifecycle = "configuring" /\ pc[Exec] = "finish"
  => \A i \in Ifaces : motor[i] # "off"

RInv == IInv /\ PhaseInv /\ EnabledInv

-----------------------------------------------------------------------------

\* No callback starts once main() has left spin().
LEMMA PhaseStep ==
  ASSUME TypeInv, PhaseInv, [Next]_vars
  PROVE  PhaseInv'
<1> USE DEF PhaseInv,
            Threads, LocsOK, BackLocs, ExecLocs, CommLocs, DeactivateLocs, lifeVars,
            cmdVars, busVars, commVars, Goto
<1>0. /\ Exec \notin Ifaces /\ Flaky \subseteq Ifaces
      /\ pc \in [Threads -> ExecLocs \cup CommLocs \cup DeactivateLocs]
      /\ ret \in [Threads -> {"none", "idle", "watchdog_end", "stop", "status", "loop"}]
      /\ LocsOK
  BY ConstantsAssumption DEF TypeInv, TypeOK
<1>1. CASE RequestConfigure
  BY <1>1, <1>0 DEF RequestConfigure, Idle
<1>2. CASE RequestActivate
  BY <1>2, <1>0 DEF RequestActivate, Idle
<1>3. CASE RequestDeactivate
  BY <1>3, <1>0 DEF RequestDeactivate, CallDeactivate, Idle
<1>4. CASE RequestCleanup
  BY <1>4, <1>0 DEF RequestCleanup, Idle
<1>5. CASE RequestShutdown
  BY <1>5, <1>0 DEF RequestShutdown, EnterShutdown, Idle
<1>6. CASE Interrupt
  BY <1>6, <1>0 DEF Interrupt, EnterShutdown, Idle
<1>7. CASE ConfigureSucceeds
  BY <1>7, <1>0 DEF ConfigureSucceeds
<1>8. CASE ConfigureRejected
  BY <1>8, <1>0 DEF ConfigureRejected
<1>9. CASE ConfigureErrors
  BY <1>9, <1>0 DEF ConfigureErrors
<1>10. CASE OnError
  BY <1>10, <1>0 DEF OnError
<1>11. CASE OnActivate
  BY <1>11, <1>0 DEF OnActivate
<1>12. CASE FinishTransition
  BY <1>12, <1>0 DEF FinishTransition, Target
<1>13. CASE TriggerCleanup
  BY <1>13, <1>0 DEF TriggerCleanup
<1>14. CASE StopCommThreads
  BY <1>14, <1>0 DEF StopCommThreads
<1>15. CASE JoinCommThreads
  BY <1>15, <1>0 DEF JoinCommThreads
<1>16. CASE LockBus
  BY <1>16, <1>0 DEF LockBus
<1>17. CASE Teardown
  BY <1>17, <1>0 DEF Teardown
<1>18. CASE Exit
  BY <1>18, <1>0 DEF Exit
<1>19. CASE StoreCommand
  BY <1>19, <1>0 DEF StoreCommand
<1>20. CASE WatchdogChecks
  BY <1>20, <1>0 DEF WatchdogChecks, CallDeactivate
<1>21. CASE WatchdogEnds
  BY <1>21, <1>0 DEF WatchdogEnds
<1>22. CASE ReceiveCommand
  BY <1>22, <1>0 DEF ReceiveCommand, Idle
<1>23. CASE WatchdogFires
  BY <1>23, <1>0 DEF WatchdogFires, Idle
<1>24. CASE Supervisor
  BY <1>24, <1>0 DEF Supervisor, Idle
<1>25. ASSUME NEW t \in Threads, TriggerDeactivate(t) PROVE PhaseInv'
  BY <1>25, <1>0 DEF TriggerDeactivate, GoBack
<1>26. ASSUME NEW t \in Threads, StoreDamping(t) PROVE PhaseInv'
  BY <1>26, <1>0 DEF StoreDamping
<1>27. ASSUME NEW t \in Threads, ResetWatchdog(t) PROVE PhaseInv'
  BY <1>27, <1>0 DEF ResetWatchdog, GoBack
<1>28. ASSUME NEW t \in Threads, FinishDeactivate(t) PROVE PhaseInv'
  BY <1>28, <1>0 DEF FinishDeactivate, GoBack
<1>29. ASSUME NEW i \in Ifaces, LeaveLoop(i) PROVE PhaseInv'
  BY <1>29, <1>0 DEF LeaveLoop
<1>30. ASSUME NEW i \in Ifaces, EnterCycle(i) PROVE PhaseInv'
  BY <1>30, <1>0 DEF EnterCycle
<1>31. ASSUME NEW i \in Ifaces, LoadCommand(i) PROVE PhaseInv'
  BY <1>31, <1>0 DEF LoadCommand
<1>32. ASSUME NEW i \in Ifaces, ConvertCommand(i) PROVE PhaseInv'
  BY <1>32, <1>0 DEF ConvertCommand
<1>33. ASSUME NEW i \in Ifaces, AcquireBus(i) PROVE PhaseInv'
  BY <1>33, <1>0 DEF AcquireBus
<1>34. ASSUME NEW i \in Ifaces, SendAndReceive(i) PROVE PhaseInv'
  BY <1>34, <1>0 DEF SendAndReceive
<1>35. ASSUME NEW i \in Ifaces, SendAndReceiveThrows(i) PROVE PhaseInv'
  BY <1>35, <1>0 DEF SendAndReceiveThrows
<1>36. ASSUME NEW i \in Ifaces, DeviceFault(i) PROVE PhaseInv'
  BY <1>36, <1>0 DEF DeviceFault, CallDeactivate
<1>37. ASSUME NEW i \in Ifaces, StatusChecked(i) PROVE PhaseInv'
  BY <1>37, <1>0 DEF StatusChecked
<1>38. ASSUME NEW i \in Ifaces, CountErrors(i) PROVE PhaseInv'
  BY <1>38, <1>0 DEF CountErrors
<1>39. ASSUME NEW i \in Ifaces, FatalError(i) PROVE PhaseInv'
  BY <1>39, <1>0 DEF FatalError, CallDeactivate
<1>40. ASSUME NEW i \in Ifaces, WriteBack(i) PROVE PhaseInv'
  BY <1>40, <1>0 DEF WriteBack, Return
<1>41. ASSUME NEW i \in Ifaces, LimitViolated(i) PROVE PhaseInv'
  BY <1>41, <1>0 DEF LimitViolated, CallDeactivate
<1>42. CASE UNCHANGED vars
  BY <1>42 DEF vars, InTransition
<1>43. QED
  BY <1>1, <1>2, <1>3, <1>4, <1>5, <1>6, <1>7, <1>8, <1>9, <1>10, <1>11,
     <1>12, <1>13, <1>14, <1>15, <1>16, <1>17, <1>18, <1>19, <1>20, <1>21,
     <1>22, <1>23, <1>24, <1>25, <1>26, <1>27, <1>28, <1>29, <1>30, <1>31,
     <1>32, <1>33, <1>34, <1>35, <1>36, <1>37, <1>38, <1>39, <1>40, <1>41,
     <1>42
     DEF Next, Request, ExecStep, CommStep, Cycle, Deactivate, Down


\* Motors are not switched off behind the back of the lifecycle.
LEMMA EnabledStep ==
  ASSUME TypeInv, TransitionInv, PhaseInv, EnabledInv, [Next]_vars
  PROVE  EnabledInv'
<1> USE DEF EnabledInv, PhaseInv, FrameOK, Frames, Commands, TransitionInv, OneTransition, InTransition, ExecAgrees, TransitionStates,
            Threads, LocsOK, BackLocs, ExecLocs, CommLocs, DeactivateLocs, lifeVars,
            cmdVars, busVars, commVars, Goto
<1>0. /\ Exec \notin Ifaces /\ Flaky \subseteq Ifaces
      /\ pc \in [Threads -> ExecLocs \cup CommLocs \cup DeactivateLocs]
      /\ ret \in [Threads -> {"none", "idle", "watchdog_end", "stop", "status", "loop"}]
      /\ motor \in [Ifaces -> Frames \cup {"off"}] /\ frame \in [Ifaces -> Frames \cup {"none"}]
      /\ FrameOK
      /\ LocsOK
  BY ConstantsAssumption DEF TypeInv, TypeOK
<1>1. CASE RequestConfigure
  BY <1>1, <1>0 DEF RequestConfigure, Idle
<1>2. CASE RequestActivate
  BY <1>2, <1>0 DEF RequestActivate, Idle
<1>3. CASE RequestDeactivate
  BY <1>3, <1>0 DEF RequestDeactivate, CallDeactivate, Idle
<1>4. CASE RequestCleanup
  BY <1>4, <1>0 DEF RequestCleanup, Idle
<1>5. CASE RequestShutdown
  BY <1>5, <1>0 DEF RequestShutdown, EnterShutdown, Idle
<1>6. CASE Interrupt
  BY <1>6, <1>0 DEF Interrupt, EnterShutdown, Idle
<1>7. CASE ConfigureSucceeds
  BY <1>7, <1>0 DEF ConfigureSucceeds
<1>8. CASE ConfigureRejected
  BY <1>8, <1>0 DEF ConfigureRejected
<1>9. CASE ConfigureErrors
  BY <1>9, <1>0 DEF ConfigureErrors
<1>10. CASE OnError
  BY <1>10, <1>0 DEF OnError
<1>11. CASE OnActivate
  BY <1>11, <1>0 DEF OnActivate
<1>12. CASE FinishTransition
  BY <1>12, <1>0 DEF FinishTransition, Target
<1>13. CASE TriggerCleanup
  BY <1>13, <1>0 DEF TriggerCleanup
<1>14. CASE StopCommThreads
  BY <1>14, <1>0 DEF StopCommThreads
<1>15. CASE JoinCommThreads
  BY <1>15, <1>0 DEF JoinCommThreads
<1>16. CASE LockBus
  BY <1>16, <1>0 DEF LockBus
<1>17. CASE Teardown
  BY <1>17, <1>0 DEF Teardown
<1>18. CASE Exit
  BY <1>18, <1>0 DEF Exit
<1>19. CASE StoreCommand
  BY <1>19, <1>0 DEF StoreCommand
<1>20. CASE WatchdogChecks
  BY <1>20, <1>0 DEF WatchdogChecks, CallDeactivate
<1>21. CASE WatchdogEnds
  BY <1>21, <1>0 DEF WatchdogEnds
<1>22. CASE ReceiveCommand
  BY <1>22, <1>0 DEF ReceiveCommand, Idle
<1>23. CASE WatchdogFires
  BY <1>23, <1>0 DEF WatchdogFires, Idle
<1>24. CASE Supervisor
  BY <1>24, <1>0 DEF Supervisor, Idle
<1>25. ASSUME NEW t \in Threads, TriggerDeactivate(t) PROVE EnabledInv'
  BY <1>25, <1>0 DEF TriggerDeactivate, GoBack
<1>26. ASSUME NEW t \in Threads, StoreDamping(t) PROVE EnabledInv'
  BY <1>26, <1>0 DEF StoreDamping
<1>27. ASSUME NEW t \in Threads, ResetWatchdog(t) PROVE EnabledInv'
  BY <1>27, <1>0 DEF ResetWatchdog, GoBack
<1>28. ASSUME NEW t \in Threads, FinishDeactivate(t) PROVE EnabledInv'
  BY <1>28, <1>0 DEF FinishDeactivate, GoBack
<1>29. ASSUME NEW i \in Ifaces, LeaveLoop(i) PROVE EnabledInv'
  BY <1>29, <1>0 DEF LeaveLoop
<1>30. ASSUME NEW i \in Ifaces, EnterCycle(i) PROVE EnabledInv'
  BY <1>30, <1>0 DEF EnterCycle
<1>31. ASSUME NEW i \in Ifaces, LoadCommand(i) PROVE EnabledInv'
  BY <1>31, <1>0 DEF LoadCommand
<1>32. ASSUME NEW i \in Ifaces, ConvertCommand(i) PROVE EnabledInv'
  BY <1>32, <1>0 DEF ConvertCommand
<1>33. ASSUME NEW i \in Ifaces, AcquireBus(i) PROVE EnabledInv'
  BY <1>33, <1>0 DEF AcquireBus
<1>34. ASSUME NEW i \in Ifaces, SendAndReceive(i) PROVE EnabledInv'
  BY <1>34, <1>0 DEF SendAndReceive
<1>35. ASSUME NEW i \in Ifaces, SendAndReceiveThrows(i) PROVE EnabledInv'
  BY <1>35, <1>0 DEF SendAndReceiveThrows
<1>36. ASSUME NEW i \in Ifaces, DeviceFault(i) PROVE EnabledInv'
  BY <1>36, <1>0 DEF DeviceFault, CallDeactivate
<1>37. ASSUME NEW i \in Ifaces, StatusChecked(i) PROVE EnabledInv'
  BY <1>37, <1>0 DEF StatusChecked
<1>38. ASSUME NEW i \in Ifaces, CountErrors(i) PROVE EnabledInv'
  BY <1>38, <1>0 DEF CountErrors
<1>39. ASSUME NEW i \in Ifaces, FatalError(i) PROVE EnabledInv'
  BY <1>39, <1>0 DEF FatalError, CallDeactivate
<1>40. ASSUME NEW i \in Ifaces, WriteBack(i) PROVE EnabledInv'
  BY <1>40, <1>0 DEF WriteBack, Return
<1>41. ASSUME NEW i \in Ifaces, LimitViolated(i) PROVE EnabledInv'
  BY <1>41, <1>0 DEF LimitViolated, CallDeactivate
<1>42. CASE UNCHANGED vars
  BY <1>42 DEF vars, InTransition
<1>43. QED
  BY <1>1, <1>2, <1>3, <1>4, <1>5, <1>6, <1>7, <1>8, <1>9, <1>10, <1>11,
     <1>12, <1>13, <1>14, <1>15, <1>16, <1>17, <1>18, <1>19, <1>20, <1>21,
     <1>22, <1>23, <1>24, <1>25, <1>26, <1>27, <1>28, <1>29, <1>30, <1>31,
     <1>32, <1>33, <1>34, <1>35, <1>36, <1>37, <1>38, <1>39, <1>40, <1>41,
     <1>42
     DEF Next, Request, ExecStep, CommStep, Cycle, Deactivate, Down


\* Every step of a thread is a step of the promise or changes nothing of it.
LEMMA RefinementStep ==
  ASSUME RInv, [Next]_vars
  PROVE  [Abstract!Step]_(Abstract!mvars)
<1>0. /\ Exec \notin Ifaces /\ Flaky \subseteq Ifaces
      /\ phase \in {"spinning", "exiting", "down"}
      /\ lifecycle \in PrimaryStates \cup TransitionStates
      /\ motor \in [Ifaces -> Frames \cup {"off"}] /\ frame \in [Ifaces -> Frames \cup {"none"}]
      /\ LocsOK /\ FrameOK /\ OneTransition /\ ExecAgrees /\ QuietInv /\ PhaseInv /\ EnabledInv
  BY ConstantsAssumption DEF RInv, IInv, TypeInv, TypeOK, TransitionInv
<1>1. CASE RequestConfigure
  <2>1. /\ phase = "spinning" /\ UNCHANGED phase /\ UNCHANGED motor
        /\ lifecycle = "unconfigured" /\ lifecycle' = "configuring"
    BY <1>1, <1>0 DEF RequestConfigure, Idle, lifeVars, busVars, Goto
  <2>2. Abstract!Move
    BY <2>1 DEF Abstract!Move, Abstract!Successors
  <2>3. QED
    BY <2>2 DEF Abstract!Step
<1>2. CASE RequestActivate
  <2>1. /\ phase = "spinning" /\ UNCHANGED phase /\ UNCHANGED motor
        /\ lifecycle = "inactive" /\ lifecycle' = "activating"
    BY <1>2, <1>0 DEF RequestActivate, Idle, lifeVars, busVars, Goto
  <2>2. Abstract!Move
    BY <2>1 DEF Abstract!Move, Abstract!Successors
  <2>3. QED
    BY <2>2 DEF Abstract!Step
<1>3. CASE RequestDeactivate
  BY <1>3 DEF RequestDeactivate, CallDeactivate, lifeVars, busVars, Abstract!mvars
<1>4. CASE RequestCleanup
  BY <1>4 DEF RequestCleanup, lifeVars, busVars, Abstract!mvars
<1>5. CASE RequestShutdown
  <2>1. /\ phase = "spinning" /\ UNCHANGED phase /\ UNCHANGED motor
        /\ lifecycle \in {"unconfigured", "inactive", "active"}
        /\ lifecycle' = "shuttingdown"
    BY <1>5, <1>0 DEF RequestShutdown, EnterShutdown, Idle, lifeVars, busVars, Goto
  <2>2. Abstract!Move
    BY <2>1 DEF Abstract!Move, Abstract!Successors
  <2>3. QED
    BY <2>2 DEF Abstract!Step
<1>6. CASE Interrupt
  <2>1. /\ phase = "spinning" /\ phase' = "exiting"
        /\ UNCHANGED lifecycle /\ UNCHANGED motor /\ pc[Exec] = "idle"
    BY <1>6 DEF Interrupt, EnterShutdown, Idle, lifeVars, busVars
  <2>2. lifecycle \in {"unconfigured", "inactive", "active", "deactivating", "finalized"}
    <3>1. CASE \E t \in Threads : InTransition(t)
      <4>1. PICK t \in Threads : InTransition(t)
        BY <3>1
      <4>2. t \in Ifaces /\ pc[t] \in {"d_store", "d_reset", "d_finish"}
        BY <1>0, <2>1, <4>1 DEF InTransition, Threads, LocsOK, CommLocs, DeactivateLocs
      <4>3. QED
        BY <1>0, <2>1, <4>2 DEF ExecAgrees
    <3>2. CASE ~ \E t \in Threads : InTransition(t)
      BY <1>0, <2>1, <3>2 DEF OneTransition, TransitionStates, PrimaryStates
    <3>3. QED
      BY <3>1, <3>2
  <2>3. Abstract!Move
    BY <2>1, <2>2 DEF Abstract!Move, Abstract!Successors
  <2>4. QED
    BY <2>3 DEF Abstract!Step
<1>7. CASE ConfigureSucceeds
  <2>1. /\ phase = "spinning" /\ UNCHANGED phase /\ UNCHANGED lifecycle
        /\ lifecycle = "configuring"
        /\ motor' = [j \in Ifaces |-> "zero"]
    BY <1>7, <1>0 DEF ConfigureSucceeds, PhaseInv, ExecAgrees, lifeVars
  <2>2. {j \in Ifaces : motor'[j] # "off"} = Ifaces
    BY <2>1
  <2>3. Abstract!SwitchOn
    BY <2>1, <2>2 DEF Abstract!SwitchOn
  <2>4. QED
    BY <2>3 DEF Abstract!Step
<1>8. CASE ConfigureRejected
  <2>1. /\ phase = "spinning" /\ UNCHANGED phase /\ UNCHANGED motor
        /\ lifecycle = "configuring" /\ lifecycle' = "unconfigured"
        /\ pc[Exec] = "configuring"
    BY <1>8, <1>0 DEF ConfigureRejected, PhaseInv, ExecAgrees, busVars
  <2>2. {j \in Ifaces : motor[j] # "off"} \subseteq Flaky
    BY <1>0, <2>1 DEF QuietInv
  <2>3. Abstract!Move
    BY <2>1, <2>2 DEF Abstract!Move, Abstract!Successors
  <2>4. QED
    BY <2>3 DEF Abstract!Step
<1>9. CASE ConfigureErrors
  <2>1. /\ phase = "spinning" /\ UNCHANGED phase
        /\ lifecycle = "configuring" /\ lifecycle' = "errorprocessing"
        /\ pc[Exec] = "configuring"
    BY <1>9, <1>0 DEF ConfigureErrors, PhaseInv, ExecAgrees
  <2>2. {j \in Ifaces : motor[j] # "off"} \subseteq Flaky
    BY <1>0, <2>1 DEF QuietInv
  <2>3. {j \in Ifaces : motor'[j] # "off"} \subseteq Flaky
    <3>1. CASE UNCHANGED motor
      BY <2>2, <3>1
    <3>2. CASE ~ UNCHANGED motor
      <4>1. PICK stuck \in SUBSET Flaky :
              motor' = [j \in Ifaces |-> IF j \notin stuck THEN "off"
                                        ELSE IF motor[j] = "off" THEN "zero"
                                        ELSE motor[j]]
        BY <1>9, <3>2 DEF ConfigureErrors
      <4>2. QED
        BY <4>1
    <3>3. QED
      BY <3>1, <3>2
  <2>4. Abstract!GiveUp
    BY <2>1, <2>3 DEF Abstract!GiveUp
  <2>5. QED
    BY <2>4 DEF Abstract!Step
<1>10. CASE OnError
  BY <1>10 DEF OnError, lifeVars, busVars, Abstract!mvars
<1>11. CASE OnActivate
  <2>1. /\ phase = "spinning" /\ UNCHANGED phase /\ UNCHANGED motor
        /\ lifecycle = "activating"
        /\ lifecycle' \in {lifecycle, "inactive"}
    BY <1>11, <1>0 DEF OnActivate, PhaseInv, ExecAgrees, busVars
  <2>2. CASE UNCHANGED lifecycle
    BY <2>1, <2>2 DEF Abstract!mvars
  <2>3. CASE lifecycle' = "inactive"
    <3>1. {j \in Ifaces : motor[j] # "off"} = Ifaces
      BY <1>0, <2>1 DEF EnabledInv
    <3>2. Abstract!Move
      BY <2>1, <2>3, <3>1 DEF Abstract!Move, Abstract!Successors
    <3>3. QED
      BY <3>2 DEF Abstract!Step
  <2>4. QED
    BY <2>1, <2>2, <2>3
<1>12. CASE FinishTransition
  <2>1. /\ phase = "spinning" /\ UNCHANGED phase /\ UNCHANGED motor
        /\ pc[Exec] = "finish" /\ lifecycle' = Target(lifecycle)
    BY <1>12, <1>0 DEF FinishTransition, PhaseInv, busVars
  <2>2. lifecycle \in TransitionStates \ {"deactivating"}
    BY <1>0, <2>1 DEF OneTransition, ExecAgrees, InTransition, Threads
  <2>3. CASE lifecycle \in {"configuring", "activating"}
    <3>1. {j \in Ifaces : motor[j] # "off"} = Ifaces
      BY <1>0, <2>1, <2>3 DEF EnabledInv
    <3>2. \/ lifecycle = "configuring" /\ lifecycle' = "inactive"
          \/ lifecycle = "activating" /\ lifecycle' = "active"
      BY <2>1, <2>3 DEF Target
    <3>3. Abstract!Move
      BY <2>1, <3>1, <3>2 DEF Abstract!Move, Abstract!Successors
    <3>4. QED
      BY <3>3 DEF Abstract!Step
  <2>4. CASE lifecycle \in {"shuttingdown", "cleaningup", "errorprocessing"}
    <3>1. {j \in Ifaces : motor[j] # "off"} \subseteq Flaky
      BY <1>0, <2>1, <2>4 DEF QuietInv
    <3>2. \/ lifecycle = "shuttingdown" /\ lifecycle' = "finalized"
          \/ lifecycle \in {"cleaningup", "errorprocessing"} /\ lifecycle' = "unconfigured"
      BY <2>1, <2>4 DEF Target
    <3>3. Abstract!Move
      BY <2>1, <3>1, <3>2 DEF Abstract!Move, Abstract!Successors
    <3>4. QED
      BY <3>3 DEF Abstract!Step
  <2>5. QED
    BY <2>2, <2>3, <2>4 DEF TransitionStates
<1>13. CASE TriggerCleanup
  <2>1. /\ phase = "spinning" /\ UNCHANGED phase /\ UNCHANGED motor
        /\ UNCHANGED lifecycle \/ (lifecycle = "inactive" /\ lifecycle' = "cleaningup")
    BY <1>13, <1>0 DEF TriggerCleanup, PhaseInv, busVars
  <2>2. CASE UNCHANGED lifecycle
    BY <2>1, <2>2 DEF Abstract!mvars
  <2>3. CASE lifecycle = "inactive" /\ lifecycle' = "cleaningup"
    <3>1. Abstract!Move
      BY <2>1, <2>3 DEF Abstract!Move, Abstract!Successors
    <3>2. QED
      BY <3>1 DEF Abstract!Step
  <2>4. QED
    BY <2>1, <2>2, <2>3
<1>14. CASE StopCommThreads
  BY <1>14 DEF StopCommThreads, lifeVars, busVars, Abstract!mvars
<1>15. CASE JoinCommThreads
  BY <1>15 DEF JoinCommThreads, lifeVars, busVars, Abstract!mvars
<1>16. CASE LockBus
  BY <1>16 DEF LockBus, lifeVars, busVars, Abstract!mvars
<1>17. CASE Teardown
  <2>1. /\ phase # "down" /\ UNCHANGED phase /\ UNCHANGED lifecycle
        /\ phase = "spinning" => lifecycle \in {"cleaningup", "shuttingdown"}
    BY <1>17, <1>0 DEF Teardown, PhaseInv, ExecAgrees, lifeVars
  <2>2. PICK unreached \in SUBSET Flaky :
          motor' = [j \in Ifaces |-> IF j \in unreached THEN motor[j] ELSE "off"]
    BY <1>17 DEF Teardown
  <2>3. {j \in Ifaces : motor'[j] # "off"} \subseteq
          {j \in Ifaces : motor[j] # "off"} \cap Flaky
    BY <2>2
  <2>4. Abstract!SwitchOff
    BY <1>0, <2>1, <2>3 DEF Abstract!SwitchOff
  <2>5. QED
    BY <2>4 DEF Abstract!Step
<1>18. CASE Exit
  <2>1. /\ phase = "exiting" /\ phase' = "down" /\ UNCHANGED motor
    BY <1>18, <1>0 DEF Exit, PhaseInv, busVars
  <2>2. Abstract!Move
    BY <2>1 DEF Abstract!Move, Abstract!Successors
  <2>3. QED
    BY <2>2 DEF Abstract!Step
<1>19. CASE StoreCommand
  BY <1>19 DEF StoreCommand, lifeVars, busVars, Abstract!mvars
<1>20. CASE WatchdogChecks
  BY <1>20 DEF WatchdogChecks, CallDeactivate, lifeVars, busVars, Abstract!mvars
<1>21. CASE WatchdogEnds
  BY <1>21 DEF WatchdogEnds, lifeVars, busVars, Abstract!mvars
<1>22. CASE ReceiveCommand
  BY <1>22 DEF ReceiveCommand, lifeVars, busVars, Abstract!mvars
<1>23. CASE WatchdogFires
  BY <1>23 DEF WatchdogFires, lifeVars, busVars, Abstract!mvars
<1>24. CASE Supervisor
  BY <1>24 DEF Supervisor, lifeVars, busVars, Abstract!mvars
<1>25. ASSUME NEW t \in Threads, TriggerDeactivate(t) PROVE [Abstract!Step]_(Abstract!mvars)
  <2>1. /\ UNCHANGED phase /\ UNCHANGED motor
        /\ UNCHANGED lifecycle \/ (lifecycle = "active" /\ lifecycle' = "deactivating")
    BY <1>25 DEF TriggerDeactivate, busVars
  <2>2. CASE UNCHANGED lifecycle \/ phase # "spinning"
    BY <2>1, <2>2 DEF Abstract!mvars
  <2>3. CASE phase = "spinning" /\ lifecycle = "active" /\ lifecycle' = "deactivating"
    <3>1. Abstract!Move
      BY <2>1, <2>3 DEF Abstract!Move, Abstract!Successors
    <3>2. QED
      BY <3>1 DEF Abstract!Step
  <2>4. QED
    BY <2>1, <2>2, <2>3
<1>26. ASSUME NEW t \in Threads, StoreDamping(t) PROVE [Abstract!Step]_(Abstract!mvars)
  BY <1>26 DEF StoreDamping, lifeVars, busVars, Abstract!mvars
<1>27. ASSUME NEW t \in Threads, ResetWatchdog(t) PROVE [Abstract!Step]_(Abstract!mvars)
  BY <1>27 DEF ResetWatchdog, GoBack, lifeVars, busVars, Abstract!mvars
<1>28. ASSUME NEW t \in Threads, FinishDeactivate(t) PROVE [Abstract!Step]_(Abstract!mvars)
  <2>1. /\ UNCHANGED phase /\ UNCHANGED motor
        /\ lifecycle' = "inactive" /\ pc[t] = "d_finish"
    BY <1>28 DEF FinishDeactivate, busVars
  <2>2. CASE phase # "spinning"
    BY <2>1, <2>2 DEF Abstract!mvars
  <2>3. CASE phase = "spinning"
    <3>1. lifecycle = "deactivating"
      BY <1>0, <2>1, <2>3 DEF ExecAgrees, LocsOK, BackLocs, Threads
    <3>2. {j \in Ifaces : motor[j] # "off"} = Ifaces
      BY <1>0, <2>3, <3>1 DEF EnabledInv
    <3>3. Abstract!Move
      BY <2>1, <2>3, <3>1, <3>2 DEF Abstract!Move, Abstract!Successors
    <3>4. QED
      BY <3>3 DEF Abstract!Step
  <2>4. QED
    BY <2>2, <2>3
<1>29. ASSUME NEW i \in Ifaces, LeaveLoop(i) PROVE [Abstract!Step]_(Abstract!mvars)
  BY <1>29 DEF LeaveLoop, lifeVars, busVars, Abstract!mvars
<1>30. ASSUME NEW i \in Ifaces, EnterCycle(i) PROVE [Abstract!Step]_(Abstract!mvars)
  BY <1>30 DEF EnterCycle, lifeVars, busVars, Abstract!mvars
<1>31. ASSUME NEW i \in Ifaces, LoadCommand(i) PROVE [Abstract!Step]_(Abstract!mvars)
  BY <1>31 DEF LoadCommand, lifeVars, busVars, Abstract!mvars
<1>32. ASSUME NEW i \in Ifaces, ConvertCommand(i) PROVE [Abstract!Step]_(Abstract!mvars)
  BY <1>32 DEF ConvertCommand, lifeVars, busVars, Abstract!mvars
<1>33. ASSUME NEW i \in Ifaces, AcquireBus(i) PROVE [Abstract!Step]_(Abstract!mvars)
  BY <1>33 DEF AcquireBus, lifeVars, busVars, Abstract!mvars
<1>34. ASSUME NEW i \in Ifaces, SendAndReceive(i) PROVE [Abstract!Step]_(Abstract!mvars)
  <2>1. UNCHANGED phase /\ UNCHANGED lifecycle
    BY <1>34 DEF SendAndReceive, lifeVars
  <2>2. UNCHANGED motor \/ (motor[i] # "off" /\ motor' = [motor EXCEPT ![i] = frame[i]])
    BY <1>34 DEF SendAndReceive
  <2>3. frame[i] \in Frames
    BY <1>34, <1>0 DEF SendAndReceive, FrameOK
  <2>4. frame[i] # "off"
    BY <2>3 DEF Frames, Commands
  <2>5. {j \in Ifaces : motor'[j] # "off"} = {j \in Ifaces : motor[j] # "off"}
    BY <1>0, <2>2, <2>4
  <2>6. QED
    BY <2>1, <2>5 DEF Abstract!mvars
<1>35. ASSUME NEW i \in Ifaces, SendAndReceiveThrows(i) PROVE [Abstract!Step]_(Abstract!mvars)
  BY <1>35 DEF SendAndReceiveThrows, lifeVars, busVars, Abstract!mvars
<1>36. ASSUME NEW i \in Ifaces, DeviceFault(i) PROVE [Abstract!Step]_(Abstract!mvars)
  BY <1>36 DEF DeviceFault, CallDeactivate, lifeVars, busVars, Abstract!mvars
<1>37. ASSUME NEW i \in Ifaces, StatusChecked(i) PROVE [Abstract!Step]_(Abstract!mvars)
  BY <1>37 DEF StatusChecked, lifeVars, busVars, Abstract!mvars
<1>38. ASSUME NEW i \in Ifaces, CountErrors(i) PROVE [Abstract!Step]_(Abstract!mvars)
  BY <1>38 DEF CountErrors, lifeVars, busVars, Abstract!mvars
<1>39. ASSUME NEW i \in Ifaces, FatalError(i) PROVE [Abstract!Step]_(Abstract!mvars)
  BY <1>39 DEF FatalError, CallDeactivate, lifeVars, busVars, Abstract!mvars
<1>40. ASSUME NEW i \in Ifaces, WriteBack(i) PROVE [Abstract!Step]_(Abstract!mvars)
  BY <1>40 DEF WriteBack, Return, lifeVars, busVars, Abstract!mvars
<1>41. ASSUME NEW i \in Ifaces, LimitViolated(i) PROVE [Abstract!Step]_(Abstract!mvars)
  BY <1>41 DEF LimitViolated, CallDeactivate, lifeVars, busVars, Abstract!mvars
<1>42. CASE UNCHANGED vars
  BY <1>42 DEF vars, Abstract!mvars
<1>43. QED
  BY <1>1, <1>2, <1>3, <1>4, <1>5, <1>6, <1>7, <1>8, <1>9, <1>10, <1>11,
     <1>12, <1>13, <1>14, <1>15, <1>16, <1>17, <1>18, <1>19, <1>20, <1>21,
     <1>22, <1>23, <1>24, <1>25, <1>26, <1>27, <1>28, <1>29, <1>30, <1>31,
     <1>32, <1>33, <1>34, <1>35, <1>36, <1>37, <1>38, <1>39, <1>40, <1>41,
     <1>42
     DEF Next, Request, ExecStep, CommStep, Cycle, Deactivate, Down, Threads


-----------------------------------------------------------------------------

\* The initial states satisfy the invariant and start the promise.
LEMMA InitRInv == Init => RInv /\ Abstract!Start
<1> SUFFICES ASSUME Init PROVE RInv /\ Abstract!Start
  OBVIOUS
<1>1. IInv
  BY InitIInv
<1>2. PhaseInv /\ EnabledInv
  BY DEF Init, PhaseInv, EnabledInv, Threads
<1>3. {i \in Ifaces : motor[i] # "off"} = {}
  BY DEF Init
<1>4. Abstract!Start
  BY <1>3 DEF Init, Abstract!Start
<1>5. QED
  BY <1>1, <1>2, <1>4 DEF RInv

\* The threads of the node keep the promise of MotorLifecycle: motors are
\* switched on only by a configuration and off only by a cleanup, a shutdown or
\* the end of the process, and the lifecycle takes only the edges of a managed
\* node, each with the motors in the state that the edge calls for.
THEOREM NodeKeepsPromise == Spec => KeepsPromise
<1>1. RInv /\ [Next]_vars => RInv'
  <2>1. SUFFICES ASSUME RInv, [Next]_vars PROVE RInv'
    OBVIOUS
  <2>2. IInv'
    BY <2>1, TypeStep, DevicesStep, TransitionStep, WatchdogStep, QuietStep DEF RInv, IInv
  <2>3. PhaseInv' /\ EnabledInv'
    BY <2>1, PhaseStep, EnabledStep DEF RInv, IInv
  <2>4. QED
    BY <2>2, <2>3 DEF RInv
<1>2. RInv /\ [Next]_vars => [Abstract!Step]_(Abstract!mvars)
  BY RefinementStep
<1>3. QED
  BY InitRInv, <1>1, <1>2, PTL DEF Spec, KeepsPromise, Abstract!Promise

=============================================================================
