------------------------- MODULE CubeMarsNodeProofs -------------------------
(***************************************************************************)
(* Proofs about the lifecycle node for every set of CAN interfaces and     *)
(* every value of the other constants: the invariants of CubeMarsNode, by  *)
(* an inductive invariant in layers, each of which uses those before it.   *)
(***************************************************************************)
EXTENDS CubeMarsNode, TLAPS

\* Where thread t goes on after a deactivate() of its own.
BackLocs(t) == IF t = Exec THEN {"idle", "watchdog_end"} ELSE {"status", "loop"}

\* Every thread is in its own code and knows where deactivate() returns to.
LocsOK ==
  /\ pc[Exec] \in ExecLocs \cup DeactivateLocs
  /\ \A i \in Ifaces : pc[i] \in CommLocs \cup DeactivateLocs
  /\ \A t \in Threads :
       /\ pc[t] \in {"d_call", "d_finish"} => ret[t] \in BackLocs(t)
       /\ pc[t] \in {"d_store", "d_reset"} =>
            ret[t] \in BackLocs(t) \cup (IF t = Exec THEN {"stop"} ELSE {})

\* A cycle that is about to send has something to send.
FrameOK == \A i \in Ifaces : pc[i] \in {"built", "send", "exchange"} => frame[i] # "none"

TypeInv == TypeOK /\ LocsOK /\ FrameOK

\* The devices outlive the threads that use them.
DevicesInv ==
  /\ \A i \in Ifaces : pc[i] # "none" => open
  /\ pc[Exec] \in {"lock", "teardown"} => \A i \in Ifaces : pc[i] = "none"

\* What the executor's callback is doing is what the lifecycle state says.
ExecAgrees ==
  phase = "spinning" =>
    /\ pc[Exec] = "configuring" => lifecycle = "configuring"
    /\ pc[Exec] = "activating" => lifecycle = "activating"
    /\ pc[Exec] = "on_error" => lifecycle = "errorprocessing"
    /\ pc[Exec] = "finish" => lifecycle # "deactivating"
    /\ pc[Exec] \in {"stop", "join", "lock", "teardown"} =>
         lifecycle \in {"cleaningup", "shuttingdown"}
    /\ pc[Exec] \in {"d_store", "d_reset"} /\ ret[Exec] = "stop" =>
         lifecycle = "shuttingdown"
    /\ pc[Exec] \in {"d_store", "d_reset", "d_finish"} /\ ret[Exec] # "stop" =>
         lifecycle = "deactivating"
    /\ \A i \in Ifaces : pc[i] \in {"d_store", "d_reset", "d_finish"} =>
         lifecycle = "deactivating"

TransitionInv == OneTransition /\ ExecAgrees

\* on_activate() has made the timer before the transition to ACTIVE ends.
WatchdogInv ==
  phase = "spinning" =>
    /\ lifecycle = "active" => watchdog
    /\ lifecycle = "activating" /\ pc[Exec] = "finish" => watchdog

\* Where the devices and the timer may exist at all.
QuietInv ==
  /\ ~open => \A i \in Ifaces \ Flaky : motor[i] = "off"
  /\ phase = "spinning" /\ open =>
       \/ lifecycle \in {"inactive", "active", "activating", "deactivating"}
       \/ lifecycle = "configuring" /\ pc[Exec] = "finish"
       \/ lifecycle \in {"cleaningup", "shuttingdown"} /\
            pc[Exec] \in {"d_store", "d_reset", "stop", "join", "lock", "teardown"}
  /\ phase = "spinning" /\ watchdog =>
       \/ lifecycle = "active"
       \/ lifecycle = "deactivating" /\ \A t \in Threads : pc[t] # "d_finish"
       \/ lifecycle = "activating" /\ pc[Exec] = "finish"
       \/ lifecycle = "shuttingdown" /\ pc[Exec] \in {"d_store", "d_reset"}

IInv == TypeInv /\ DevicesInv /\ TransitionInv /\ WatchdogInv /\ QuietInv

-----------------------------------------------------------------------------
\* Every step keeps the types, the places of the threads and the frames.
LEMMA TypeStep ==
  ASSUME TypeInv, [Next]_vars
  PROVE  TypeInv'
<1> USE DEF TypeInv, LocsOK, FrameOK, BackLocs, TypeOK, Threads, PrimaryStates,
            TransitionStates, ExecLocs, CommLocs, DeactivateLocs, Commands, Frames,
            lifeVars, cmdVars, busVars, commVars, Goto
<1>0. /\ Exec \notin Ifaces /\ Flaky \subseteq Ifaces
      /\ 0 \in 0 .. NumJoints /\ 0 \in 0 .. MaxErrors - 1
  BY ConstantsAssumption
<1>1. CASE RequestConfigure
  BY <1>1, <1>0 DEF RequestConfigure, Idle
<1>2. CASE RequestActivate
  BY <1>2, <1>0 DEF RequestActivate, Idle
<1>3. CASE RequestDeactivate
  BY <1>3, <1>0 DEF RequestDeactivate, CallDeactivate, Idle
<1>4. CASE RequestCleanup
  BY <1>4, <1>0 DEF RequestCleanup, Idle
<1>5. CASE RequestShutdown
  BY <1>5, <1>0 DEF RequestShutdown, EnterShutdown, Idle
<1>6. CASE Interrupt
  BY <1>6, <1>0 DEF Interrupt, EnterShutdown, Idle
<1>7. CASE ConfigureSucceeds
  BY <1>7, <1>0 DEF ConfigureSucceeds
<1>8. CASE ConfigureRejected
  BY <1>8, <1>0 DEF ConfigureRejected
<1>9. CASE ConfigureErrors
  BY <1>9, <1>0 DEF ConfigureErrors
<1>10. CASE OnError
  BY <1>10, <1>0 DEF OnError
<1>11. CASE OnActivate
  <2>1. CASE msgReceived
    BY <1>0, <1>11, <2>1 DEF OnActivate
  <2>2. CASE ~msgReceived
    BY <1>0, <1>11, <2>2 DEF OnActivate
  <2>3. QED
    BY <2>1, <2>2
<1>12. CASE FinishTransition
  BY <1>12, <1>0 DEF FinishTransition, Target
<1>13. CASE TriggerCleanup
  BY <1>13, <1>0 DEF TriggerCleanup
<1>14. CASE StopCommThreads
  BY <1>14, <1>0 DEF StopCommThreads
<1>15. CASE JoinCommThreads
  BY <1>15, <1>0 DEF JoinCommThreads
<1>16. CASE LockBus
  BY <1>16, <1>0 DEF LockBus
<1>17. CASE Teardown
  <2>1. motor' \in [Ifaces -> Frames \cup {"off"}]
    BY <1>17 DEF Teardown
  <2>2. pc' \in [Threads -> ExecLocs \cup CommLocs \cup DeactivateLocs]
    BY <1>17 DEF Teardown
  <2>3. errors' \in [Ifaces -> 0 .. MaxErrors - 1]
    BY <1>0, <1>17 DEF Teardown
  <2>4. QED
    BY <1>0, <1>17, <2>1, <2>2, <2>3 DEF Teardown
<1>18. CASE Exit
  BY <1>18, <1>0 DEF Exit
<1>19. CASE StoreCommand
  BY <1>19, <1>0 DEF StoreCommand
<1>20. CASE WatchdogChecks
  BY <1>20, <1>0 DEF WatchdogChecks, CallDeactivate
<1>21. CASE WatchdogEnds
  <2>1. msgReceived' \in BOOLEAN
    BY <1>21 DEF WatchdogEnds
  <2>2. QED
    BY <1>0, <1>21, <2>1 DEF WatchdogEnds
<1>22. CASE ReceiveCommand
  BY <1>22, <1>0 DEF ReceiveCommand, Idle
<1>23. CASE WatchdogFires
  BY <1>23, <1>0 DEF WatchdogFires, Idle
<1>24. CASE Supervisor
  BY <1>24, <1>0 DEF Supervisor, Idle
<1>25. ASSUME NEW t \in Threads, TriggerDeactivate(t) PROVE TypeInv'
  BY <1>25, <1>0 DEF TriggerDeactivate, GoBack
<1>26. ASSUME NEW t \in Threads, StoreDamping(t) PROVE TypeInv'
  BY <1>26, <1>0 DEF StoreDamping
<1>27. ASSUME NEW t \in Threads, ResetWatchdog(t) PROVE TypeInv'
  <2>1. msgReceived' \in BOOLEAN /\ watchdog' \in BOOLEAN
    BY <1>27 DEF ResetWatchdog
  <2>2. CASE ret[t] = "stop"
    BY <1>0, <1>27, <2>1, <2>2 DEF ResetWatchdog, GoBack
  <2>3. CASE ret[t] # "stop"
    BY <1>0, <1>27, <2>1, <2>3 DEF ResetWatchdog
  <2>4. QED
    BY <2>2, <2>3
<1>28. ASSUME NEW t \in Threads, FinishDeactivate(t) PROVE TypeInv'
  BY <1>28, <1>0 DEF FinishDeactivate, GoBack
<1>29. ASSUME NEW i \in Ifaces, LeaveLoop(i) PROVE TypeInv'
  BY <1>29, <1>0 DEF LeaveLoop
<1>30. ASSUME NEW i \in Ifaces, EnterCycle(i) PROVE TypeInv'
  BY <1>30, <1>0 DEF EnterCycle
<1>31. ASSUME NEW i \in Ifaces, LoadCommand(i) PROVE TypeInv'
  BY <1>31, <1>0 DEF LoadCommand
<1>32. ASSUME NEW i \in Ifaces, ConvertCommand(i) PROVE TypeInv'
  BY <1>32, <1>0 DEF ConvertCommand
<1>33. ASSUME NEW i \in Ifaces, AcquireBus(i) PROVE TypeInv'
  BY <1>33, <1>0 DEF AcquireBus
<1>34. ASSUME NEW i \in Ifaces, SendAndReceive(i) PROVE TypeInv'
  <2>1. PICK lost \in IF i \in Flaky THEN 0 .. NumJoints ELSE {0} :
          /\ bad' = [bad EXCEPT ![i] = lost]
          /\ \/ motor' = IF motor[i] = "off" THEN motor
                         ELSE [motor EXCEPT ![i] = frame[i]]
             \/ lost > 0 /\ UNCHANGED motor
    BY <1>34 DEF SendAndReceive
  <2>2. lost \in 0 .. NumJoints
    BY <1>0
  <2>3. bad' \in [Ifaces -> 0 .. NumJoints]
    BY <2>1, <2>2
  <2>4. frame[i] \in Frames
    BY <1>34 DEF SendAndReceive
  <2>5. motor' \in [Ifaces -> Frames \cup {"off"}]
    BY <2>1, <2>4
  <2>6. QED
    BY <1>0, <1>34, <2>3, <2>5 DEF SendAndReceive
<1>35. ASSUME NEW i \in Ifaces, SendAndReceiveThrows(i) PROVE TypeInv'
  BY <1>35, <1>0 DEF SendAndReceiveThrows
<1>36. ASSUME NEW i \in Ifaces, DeviceFault(i) PROVE TypeInv'
  BY <1>36, <1>0 DEF DeviceFault, CallDeactivate
<1>37. ASSUME NEW i \in Ifaces, StatusChecked(i) PROVE TypeInv'
  BY <1>37, <1>0 DEF StatusChecked
<1>38. ASSUME NEW i \in Ifaces, CountErrors(i) PROVE TypeInv'
  <2>1. errors' \in [Ifaces -> 0 .. MaxErrors - 1]
    BY <1>0, ConstantsAssumption, <1>38 DEF CountErrors
  <2>2. QED
    BY <1>0, <1>38, <2>1 DEF CountErrors
<1>39. ASSUME NEW i \in Ifaces, FatalError(i) PROVE TypeInv'
  <2>1. bad' \in [Ifaces -> 0 .. NumJoints]
    BY <1>0, <1>39 DEF FatalError
  <2>2. CASE lifecycle = "active"
    BY <1>0, <1>39, <2>1, <2>2 DEF FatalError, CallDeactivate
  <2>3. CASE lifecycle # "active"
    <3>1. cleanupRequested' \in BOOLEAN
      BY <1>39, <2>3 DEF FatalError
    <3>2. QED
      BY <1>0, <1>39, <2>1, <2>3, <3>1 DEF FatalError
  <2>4. QED
    BY <2>2, <2>3
<1>40. ASSUME NEW i \in Ifaces, WriteBack(i) PROVE TypeInv'
  BY <1>40, <1>0 DEF WriteBack, Return
<1>41. ASSUME NEW i \in Ifaces, LimitViolated(i) PROVE TypeInv'
  BY <1>41, <1>0 DEF LimitViolated, CallDeactivate
<1>42. CASE UNCHANGED vars
  BY <1>42 DEF vars, InTransition
<1>43. QED
  BY <1>1, <1>2, <1>3, <1>4, <1>5, <1>6, <1>7, <1>8, <1>9, <1>10, <1>11,
     <1>12, <1>13, <1>14, <1>15, <1>16, <1>17, <1>18, <1>19, <1>20, <1>21,
     <1>22, <1>23, <1>24, <1>25, <1>26, <1>27, <1>28, <1>29, <1>30, <1>31,
     <1>32, <1>33, <1>34, <1>35, <1>36, <1>37, <1>38, <1>39, <1>40, <1>41,
     <1>42
     DEF Next, Request, ExecStep, CommStep, Cycle, Deactivate, Down


\* No step leaves a communication thread without its devices.
LEMMA DevicesStep ==
  ASSUME TypeInv, DevicesInv, [Next]_vars
  PROVE  DevicesInv'
<1> USE DEF DevicesInv,
            Threads, LocsOK, BackLocs, ExecLocs, CommLocs, DeactivateLocs, lifeVars,
            cmdVars, busVars, commVars, Goto
<1>0. /\ Exec \notin Ifaces /\ Flaky \subseteq Ifaces
      /\ pc \in [Threads -> ExecLocs \cup CommLocs \cup DeactivateLocs]
      /\ LocsOK
  BY ConstantsAssumption DEF TypeInv, TypeOK
<1>1. CASE RequestConfigure
  BY <1>1, <1>0 DEF RequestConfigure, Idle
<1>2. CASE RequestActivate
  BY <1>2, <1>0 DEF RequestActivate, Idle
<1>3. CASE RequestDeactivate
  BY <1>3, <1>0 DEF RequestDeactivate, CallDeactivate, Idle
<1>4. CASE RequestCleanup
  BY <1>4, <1>0 DEF RequestCleanup, Idle
<1>5. CASE RequestShutdown
  BY <1>5, <1>0 DEF RequestShutdown, EnterShutdown, Idle
<1>6. CASE Interrupt
  BY <1>6, <1>0 DEF Interrupt, EnterShutdown, Idle
<1>7. CASE ConfigureSucceeds
  BY <1>7, <1>0 DEF ConfigureSucceeds
<1>8. CASE ConfigureRejected
  BY <1>8, <1>0 DEF ConfigureRejected
<1>9. CASE ConfigureErrors
  BY <1>9, <1>0 DEF ConfigureErrors
<1>10. CASE OnError
  BY <1>10, <1>0 DEF OnError
<1>11. CASE OnActivate
  BY <1>11, <1>0 DEF OnActivate
<1>12. CASE FinishTransition
  BY <1>12, <1>0 DEF FinishTransition, Target
<1>13. CASE TriggerCleanup
  BY <1>13, <1>0 DEF TriggerCleanup
<1>14. CASE StopCommThreads
  BY <1>14, <1>0 DEF StopCommThreads
<1>15. CASE JoinCommThreads
  BY <1>15, <1>0 DEF JoinCommThreads
<1>16. CASE LockBus
  BY <1>16, <1>0 DEF LockBus
<1>17. CASE Teardown
  BY <1>17, <1>0 DEF Teardown
<1>18. CASE Exit
  BY <1>18, <1>0 DEF Exit
<1>19. CASE StoreCommand
  BY <1>19, <1>0 DEF StoreCommand
<1>20. CASE WatchdogChecks
  BY <1>20, <1>0 DEF WatchdogChecks, CallDeactivate
<1>21. CASE WatchdogEnds
  BY <1>21, <1>0 DEF WatchdogEnds
<1>22. CASE ReceiveCommand
  BY <1>22, <1>0 DEF ReceiveCommand, Idle
<1>23. CASE WatchdogFires
  BY <1>23, <1>0 DEF WatchdogFires, Idle
<1>24. CASE Supervisor
  BY <1>24, <1>0 DEF Supervisor, Idle
<1>25. ASSUME NEW t \in Threads, TriggerDeactivate(t) PROVE DevicesInv'
  BY <1>25, <1>0 DEF TriggerDeactivate, GoBack
<1>26. ASSUME NEW t \in Threads, StoreDamping(t) PROVE DevicesInv'
  BY <1>26, <1>0 DEF StoreDamping
<1>27. ASSUME NEW t \in Threads, ResetWatchdog(t) PROVE DevicesInv'
  BY <1>27, <1>0 DEF ResetWatchdog, GoBack
<1>28. ASSUME NEW t \in Threads, FinishDeactivate(t) PROVE DevicesInv'
  BY <1>28, <1>0 DEF FinishDeactivate, GoBack
<1>29. ASSUME NEW i \in Ifaces, LeaveLoop(i) PROVE DevicesInv'
  BY <1>29, <1>0 DEF LeaveLoop
<1>30. ASSUME NEW i \in Ifaces, EnterCycle(i) PROVE DevicesInv'
  BY <1>30, <1>0 DEF EnterCycle
<1>31. ASSUME NEW i \in Ifaces, LoadCommand(i) PROVE DevicesInv'
  BY <1>31, <1>0 DEF LoadCommand
<1>32. ASSUME NEW i \in Ifaces, ConvertCommand(i) PROVE DevicesInv'
  BY <1>32, <1>0 DEF ConvertCommand
<1>33. ASSUME NEW i \in Ifaces, AcquireBus(i) PROVE DevicesInv'
  BY <1>33, <1>0 DEF AcquireBus
<1>34. ASSUME NEW i \in Ifaces, SendAndReceive(i) PROVE DevicesInv'
  BY <1>34, <1>0 DEF SendAndReceive
<1>35. ASSUME NEW i \in Ifaces, SendAndReceiveThrows(i) PROVE DevicesInv'
  BY <1>35, <1>0 DEF SendAndReceiveThrows
<1>36. ASSUME NEW i \in Ifaces, DeviceFault(i) PROVE DevicesInv'
  BY <1>36, <1>0 DEF DeviceFault, CallDeactivate
<1>37. ASSUME NEW i \in Ifaces, StatusChecked(i) PROVE DevicesInv'
  BY <1>37, <1>0 DEF StatusChecked
<1>38. ASSUME NEW i \in Ifaces, CountErrors(i) PROVE DevicesInv'
  BY <1>38, <1>0 DEF CountErrors
<1>39. ASSUME NEW i \in Ifaces, FatalError(i) PROVE DevicesInv'
  BY <1>39, <1>0 DEF FatalError, CallDeactivate
<1>40. ASSUME NEW i \in Ifaces, WriteBack(i) PROVE DevicesInv'
  BY <1>40, <1>0 DEF WriteBack, Return
<1>41. ASSUME NEW i \in Ifaces, LimitViolated(i) PROVE DevicesInv'
  BY <1>41, <1>0 DEF LimitViolated, CallDeactivate
<1>42. CASE UNCHANGED vars
  BY <1>42 DEF vars, InTransition
<1>43. QED
  BY <1>1, <1>2, <1>3, <1>4, <1>5, <1>6, <1>7, <1>8, <1>9, <1>10, <1>11,
     <1>12, <1>13, <1>14, <1>15, <1>16, <1>17, <1>18, <1>19, <1>20, <1>21,
     <1>22, <1>23, <1>24, <1>25, <1>26, <1>27, <1>28, <1>29, <1>30, <1>31,
     <1>32, <1>33, <1>34, <1>35, <1>36, <1>37, <1>38, <1>39, <1>40, <1>41,
     <1>42
     DEF Next, Request, ExecStep, CommStep, Cycle, Deactivate, Down


\* No step starts a transition while another one is under way.
LEMMA TransitionStep ==
  ASSUME TypeInv, TransitionInv, [Next]_vars
  PROVE  TransitionInv'
<1> USE DEF TransitionInv, OneTransition, InTransition, ExecAgrees, TransitionStates,
            Threads, LocsOK, BackLocs, ExecLocs, CommLocs, DeactivateLocs, lifeVars,
            cmdVars, busVars, commVars, Goto
<1>0. /\ Exec \notin Ifaces /\ Flaky \subseteq Ifaces
      /\ pc \in [Threads -> ExecLocs \cup CommLocs \cup DeactivateLocs]
      /\ ret \in [Threads -> {"none", "idle", "watchdog_end", "stop", "status", "loop"}]
      /\ LocsOK
  BY ConstantsAssumption DEF TypeInv, TypeOK
<1>1. CASE RequestConfigure
  BY <1>1, <1>0 DEF RequestConfigure, Idle
<1>2. CASE RequestActivate
  BY <1>2, <1>0 DEF RequestActivate, Idle
<1>3. CASE RequestDeactivate
  BY <1>3, <1>0 DEF RequestDeactivate, CallDeactivate, Idle
<1>4. CASE RequestCleanup
  BY <1>4, <1>0 DEF RequestCleanup, Idle
<1>5. CASE RequestShutdown
  BY <1>5, <1>0 DEF RequestShutdown, EnterShutdown, Idle
<1>6. CASE Interrupt
  BY <1>6, <1>0 DEF Interrupt, EnterShutdown, Idle
<1>7. CASE ConfigureSucceeds
  BY <1>7, <1>0 DEF ConfigureSucceeds
<1>8. CASE ConfigureRejected
  BY <1>8, <1>0 DEF ConfigureRejected
<1>9. CASE ConfigureErrors
  BY <1>9, <1>0 DEF ConfigureErrors
<1>10. CASE OnError
  BY <1>10, <1>0 DEF OnError
<1>11. CASE OnActivate
  BY <1>11, <1>0 DEF OnActivate
<1>12. CASE FinishTransition
  BY <1>12, <1>0 DEF FinishTransition, Target
<1>13. CASE TriggerCleanup
  BY <1>13, <1>0 DEF TriggerCleanup
<1>14. CASE StopCommThreads
  BY <1>14, <1>0 DEF StopCommThreads
<1>15. CASE JoinCommThreads
  BY <1>15, <1>0 DEF JoinCommThreads
<1>16. CASE LockBus
  BY <1>16, <1>0 DEF LockBus
<1>17. CASE Teardown
  BY <1>17, <1>0 DEF Teardown
<1>18. CASE Exit
  BY <1>18, <1>0 DEF Exit
<1>19. CASE StoreCommand
  BY <1>19, <1>0 DEF StoreCommand
<1>20. CASE WatchdogChecks
  BY <1>20, <1>0 DEF WatchdogChecks, CallDeactivate
<1>21. CASE WatchdogEnds
  BY <1>21, <1>0 DEF WatchdogEnds
<1>22. CASE ReceiveCommand
  BY <1>22, <1>0 DEF ReceiveCommand, Idle
<1>23. CASE WatchdogFires
  BY <1>23, <1>0 DEF WatchdogFires, Idle
<1>24. CASE Supervisor
  BY <1>24, <1>0 DEF Supervisor, Idle
<1>25. ASSUME NEW t \in Threads, TriggerDeactivate(t) PROVE TransitionInv'
  BY <1>25, <1>0 DEF TriggerDeactivate, GoBack
<1>26. ASSUME NEW t \in Threads, StoreDamping(t) PROVE TransitionInv'
  BY <1>26, <1>0 DEF StoreDamping
<1>27. ASSUME NEW t \in Threads, ResetWatchdog(t) PROVE TransitionInv'
  BY <1>27, <1>0 DEF ResetWatchdog, GoBack
<1>28. ASSUME NEW t \in Threads, FinishDeactivate(t) PROVE TransitionInv'
  BY <1>28, <1>0 DEF FinishDeactivate, GoBack
<1>29. ASSUME NEW i \in Ifaces, LeaveLoop(i) PROVE TransitionInv'
  BY <1>29, <1>0 DEF LeaveLoop
<1>30. ASSUME NEW i \in Ifaces, EnterCycle(i) PROVE TransitionInv'
  BY <1>30, <1>0 DEF EnterCycle
<1>31. ASSUME NEW i \in Ifaces, LoadCommand(i) PROVE TransitionInv'
  BY <1>31, <1>0 DEF LoadCommand
<1>32. ASSUME NEW i \in Ifaces, ConvertCommand(i) PROVE TransitionInv'
  BY <1>32, <1>0 DEF ConvertCommand
<1>33. ASSUME NEW i \in Ifaces, AcquireBus(i) PROVE TransitionInv'
  BY <1>33, <1>0 DEF AcquireBus
<1>34. ASSUME NEW i \in Ifaces, SendAndReceive(i) PROVE TransitionInv'
  BY <1>34, <1>0 DEF SendAndReceive
<1>35. ASSUME NEW i \in Ifaces, SendAndReceiveThrows(i) PROVE TransitionInv'
  BY <1>35, <1>0 DEF SendAndReceiveThrows
<1>36. ASSUME NEW i \in Ifaces, DeviceFault(i) PROVE TransitionInv'
  BY <1>36, <1>0 DEF DeviceFault, CallDeactivate
<1>37. ASSUME NEW i \in Ifaces, StatusChecked(i) PROVE TransitionInv'
  BY <1>37, <1>0 DEF StatusChecked
<1>38. ASSUME NEW i \in Ifaces, CountErrors(i) PROVE TransitionInv'
  BY <1>38, <1>0 DEF CountErrors
<1>39. ASSUME NEW i \in Ifaces, FatalError(i) PROVE TransitionInv'
  BY <1>39, <1>0 DEF FatalError, CallDeactivate
<1>40. ASSUME NEW i \in Ifaces, WriteBack(i) PROVE TransitionInv'
  BY <1>40, <1>0 DEF WriteBack, Return
<1>41. ASSUME NEW i \in Ifaces, LimitViolated(i) PROVE TransitionInv'
  BY <1>41, <1>0 DEF LimitViolated, CallDeactivate
<1>42. CASE UNCHANGED vars
  BY <1>42 DEF vars, InTransition
<1>43. QED
  BY <1>1, <1>2, <1>3, <1>4, <1>5, <1>6, <1>7, <1>8, <1>9, <1>10, <1>11,
     <1>12, <1>13, <1>14, <1>15, <1>16, <1>17, <1>18, <1>19, <1>20, <1>21,
     <1>22, <1>23, <1>24, <1>25, <1>26, <1>27, <1>28, <1>29, <1>30, <1>31,
     <1>32, <1>33, <1>34, <1>35, <1>36, <1>37, <1>38, <1>39, <1>40, <1>41,
     <1>42
     DEF Next, Request, ExecStep, CommStep, Cycle, Deactivate, Down


\* Only a transition takes the watchdog away.
LEMMA WatchdogStep ==
  ASSUME TypeInv, TransitionInv, WatchdogInv, [Next]_vars
  PROVE  WatchdogInv'
<1> USE DEF WatchdogInv, TransitionInv, OneTransition, InTransition, ExecAgrees, TransitionStates,
            Threads, LocsOK, BackLocs, ExecLocs, CommLocs, DeactivateLocs, lifeVars,
            cmdVars, busVars, commVars, Goto
<1>0. /\ Exec \notin Ifaces /\ Flaky \subseteq Ifaces
      /\ pc \in [Threads -> ExecLocs \cup CommLocs \cup DeactivateLocs]
      /\ ret \in [Threads -> {"none", "idle", "watchdog_end", "stop", "status", "loop"}]
      /\ LocsOK
  BY ConstantsAssumption DEF TypeInv, TypeOK
<1>1. CASE RequestConfigure
  BY <1>1, <1>0 DEF RequestConfigure, Idle
<1>2. CASE RequestActivate
  BY <1>2, <1>0 DEF RequestActivate, Idle
<1>3. CASE RequestDeactivate
  BY <1>3, <1>0 DEF RequestDeactivate, CallDeactivate, Idle
<1>4. CASE RequestCleanup
  BY <1>4, <1>0 DEF RequestCleanup, Idle
<1>5. CASE RequestShutdown
  BY <1>5, <1>0 DEF RequestShutdown, EnterShutdown, Idle
<1>6. CASE Interrupt
  BY <1>6, <1>0 DEF Interrupt, EnterShutdown, Idle
<1>7. CASE ConfigureSucceeds
  BY <1>7, <1>0 DEF ConfigureSucceeds
<1>8. CASE ConfigureRejected
  BY <1>8, <1>0 DEF ConfigureRejected
<1>9. CASE ConfigureErrors
  BY <1>9, <1>0 DEF ConfigureErrors
<1>10. CASE OnError
  BY <1>10, <1>0 DEF OnError
<1>11. CASE OnActivate
  BY <1>11, <1>0 DEF OnActivate
<1>12. CASE FinishTransition
  BY <1>12, <1>0 DEF FinishTransition, Target
<1>13. CASE TriggerCleanup
  BY <1>13, <1>0 DEF TriggerCleanup
<1>14. CASE StopCommThreads
  BY <1>14, <1>0 DEF StopCommThreads
<1>15. CASE JoinCommThreads
  BY <1>15, <1>0 DEF JoinCommThreads
<1>16. CASE LockBus
  BY <1>16, <1>0 DEF LockBus
<1>17. CASE Teardown
  BY <1>17, <1>0 DEF Teardown
<1>18. CASE Exit
  BY <1>18, <1>0 DEF Exit
<1>19. CASE StoreCommand
  BY <1>19, <1>0 DEF StoreCommand
<1>20. CASE WatchdogChecks
  BY <1>20, <1>0 DEF WatchdogChecks, CallDeactivate
<1>21. CASE WatchdogEnds
  BY <1>21, <1>0 DEF WatchdogEnds
<1>22. CASE ReceiveCommand
  BY <1>22, <1>0 DEF ReceiveCommand, Idle
<1>23. CASE WatchdogFires
  BY <1>23, <1>0 DEF WatchdogFires, Idle
<1>24. CASE Supervisor
  BY <1>24, <1>0 DEF Supervisor, Idle
<1>25. ASSUME NEW t \in Threads, TriggerDeactivate(t) PROVE WatchdogInv'
  BY <1>25, <1>0 DEF TriggerDeactivate, GoBack
<1>26. ASSUME NEW t \in Threads, StoreDamping(t) PROVE WatchdogInv'
  BY <1>26, <1>0 DEF StoreDamping
<1>27. ASSUME NEW t \in Threads, ResetWatchdog(t) PROVE WatchdogInv'
  BY <1>27, <1>0 DEF ResetWatchdog, GoBack
<1>28. ASSUME NEW t \in Threads, FinishDeactivate(t) PROVE WatchdogInv'
  BY <1>28, <1>0 DEF FinishDeactivate, GoBack
<1>29. ASSUME NEW i \in Ifaces, LeaveLoop(i) PROVE WatchdogInv'
  BY <1>29, <1>0 DEF LeaveLoop
<1>30. ASSUME NEW i \in Ifaces, EnterCycle(i) PROVE WatchdogInv'
  BY <1>30, <1>0 DEF EnterCycle
<1>31. ASSUME NEW i \in Ifaces, LoadCommand(i) PROVE WatchdogInv'
  BY <1>31, <1>0 DEF LoadCommand
<1>32. ASSUME NEW i \in Ifaces, ConvertCommand(i) PROVE WatchdogInv'
  BY <1>32, <1>0 DEF ConvertCommand
<1>33. ASSUME NEW i \in Ifaces, AcquireBus(i) PROVE WatchdogInv'
  BY <1>33, <1>0 DEF AcquireBus
<1>34. ASSUME NEW i \in Ifaces, SendAndReceive(i) PROVE WatchdogInv'
  BY <1>34, <1>0 DEF SendAndReceive
<1>35. ASSUME NEW i \in Ifaces, SendAndReceiveThrows(i) PROVE WatchdogInv'
  BY <1>35, <1>0 DEF SendAndReceiveThrows
<1>36. ASSUME NEW i \in Ifaces, DeviceFault(i) PROVE WatchdogInv'
  BY <1>36, <1>0 DEF DeviceFault, CallDeactivate
<1>37. ASSUME NEW i \in Ifaces, StatusChecked(i) PROVE WatchdogInv'
  BY <1>37, <1>0 DEF StatusChecked
<1>38. ASSUME NEW i \in Ifaces, CountErrors(i) PROVE WatchdogInv'
  BY <1>38, <1>0 DEF CountErrors
<1>39. ASSUME NEW i \in Ifaces, FatalError(i) PROVE WatchdogInv'
  BY <1>39, <1>0 DEF FatalError, CallDeactivate
<1>40. ASSUME NEW i \in Ifaces, WriteBack(i) PROVE WatchdogInv'
  BY <1>40, <1>0 DEF WriteBack, Return
<1>41. ASSUME NEW i \in Ifaces, LimitViolated(i) PROVE WatchdogInv'
  BY <1>41, <1>0 DEF LimitViolated, CallDeactivate
<1>42. CASE UNCHANGED vars
  BY <1>42 DEF vars, InTransition
<1>43. QED
  BY <1>1, <1>2, <1>3, <1>4, <1>5, <1>6, <1>7, <1>8, <1>9, <1>10, <1>11,
     <1>12, <1>13, <1>14, <1>15, <1>16, <1>17, <1>18, <1>19, <1>20, <1>21,
     <1>22, <1>23, <1>24, <1>25, <1>26, <1>27, <1>28, <1>29, <1>30, <1>31,
     <1>32, <1>33, <1>34, <1>35, <1>36, <1>37, <1>38, <1>39, <1>40, <1>41,
     <1>42
     DEF Next, Request, ExecStep, CommStep, Cycle, Deactivate, Down


\* Devices and timer are gone before UNCONFIGURED is reached.
LEMMA QuietStep ==
  ASSUME TypeInv, DevicesInv, TransitionInv, QuietInv, [Next]_vars
  PROVE  QuietInv'
<1> USE DEF QuietInv, DevicesInv, TransitionInv, OneTransition, InTransition, ExecAgrees, TransitionStates,
            Threads, LocsOK, BackLocs, ExecLocs, CommLocs, DeactivateLocs, lifeVars,
            cmdVars, busVars, commVars, Goto
<1>0. /\ Exec \notin Ifaces /\ Flaky \subseteq Ifaces
      /\ pc \in [Threads -> ExecLocs \cup CommLocs \cup DeactivateLocs]
      /\ ret \in [Threads -> {"none", "idle", "watchdog_end", "stop", "status", "loop"}]
      /\ LocsOK
  BY ConstantsAssumption DEF TypeInv, TypeOK
<1>1. CASE RequestConfigure
  BY <1>1, <1>0 DEF RequestConfigure, Idle
<1>2. CASE RequestActivate
  BY <1>2, <1>0 DEF RequestActivate, Idle
<1>3. CASE RequestDeactivate
  BY <1>3, <1>0 DEF RequestDeactivate, CallDeactivate, Idle
<1>4. CASE RequestCleanup
  BY <1>4, <1>0 DEF RequestCleanup, Idle
<1>5. CASE RequestShutdown
  BY <1>5, <1>0 DEF RequestShutdown, EnterShutdown, Idle
<1>6. CASE Interrupt
  BY <1>6, <1>0 DEF Interrupt, EnterShutdown, Idle
<1>7. CASE ConfigureSucceeds
  BY <1>7, <1>0 DEF ConfigureSucceeds
<1>8. CASE ConfigureRejected
  BY <1>8, <1>0 DEF ConfigureRejected
<1>9. CASE ConfigureErrors
  BY <1>9, <1>0 DEF ConfigureErrors
<1>10. CASE OnError
  BY <1>10, <1>0 DEF OnError
<1>11. CASE OnActivate
  BY <1>11, <1>0 DEF OnActivate
<1>12. CASE FinishTransition
  <2>1. SUFFICES ASSUME phase = "spinning", UNCHANGED phase PROVE QuietInv'
    BY <1>12, <1>0 DEF FinishTransition
  <2>2. lifecycle \in TransitionStates \ {"deactivating"}
    BY <1>12, <1>0, <2>1 DEF FinishTransition
  <2>3. /\ lifecycle = "configuring" => lifecycle' = "inactive"
        /\ lifecycle = "activating" => lifecycle' = "active"
    BY <1>12 DEF FinishTransition, Target
  <2>4. QED
    BY <1>12, <1>0, <2>1, <2>2, <2>3 DEF FinishTransition
<1>13. CASE TriggerCleanup
  BY <1>13, <1>0 DEF TriggerCleanup
<1>14. CASE StopCommThreads
  BY <1>14, <1>0 DEF StopCommThreads
<1>15. CASE JoinCommThreads
  BY <1>15, <1>0 DEF JoinCommThreads
<1>16. CASE LockBus
  BY <1>16, <1>0 DEF LockBus
<1>17. CASE Teardown
  BY <1>17, <1>0 DEF Teardown
<1>18. CASE Exit
  BY <1>18, <1>0 DEF Exit
<1>19. CASE StoreCommand
  BY <1>19, <1>0 DEF StoreCommand
<1>20. CASE WatchdogChecks
  BY <1>20, <1>0 DEF WatchdogChecks, CallDeactivate
<1>21. CASE WatchdogEnds
  BY <1>21, <1>0 DEF WatchdogEnds
<1>22. CASE ReceiveCommand
  BY <1>22, <1>0 DEF ReceiveCommand, Idle
<1>23. CASE WatchdogFires
  BY <1>23, <1>0 DEF WatchdogFires, Idle
<1>24. CASE Supervisor
  BY <1>24, <1>0 DEF Supervisor, Idle
<1>25. ASSUME NEW t \in Threads, TriggerDeactivate(t) PROVE QuietInv'
  BY <1>25, <1>0 DEF TriggerDeactivate, GoBack
<1>26. ASSUME NEW t \in Threads, StoreDamping(t) PROVE QuietInv'
  BY <1>26, <1>0 DEF StoreDamping
<1>27. ASSUME NEW t \in Threads, ResetWatchdog(t) PROVE QuietInv'
  BY <1>27, <1>0 DEF ResetWatchdog, GoBack
<1>28. ASSUME NEW t \in Threads, FinishDeactivate(t) PROVE QuietInv'
  BY <1>28, <1>0 DEF FinishDeactivate, GoBack
<1>29. ASSUME NEW i \in Ifaces, LeaveLoop(i) PROVE QuietInv'
  BY <1>29, <1>0 DEF LeaveLoop
<1>30. ASSUME NEW i \in Ifaces, EnterCycle(i) PROVE QuietInv'
  BY <1>30, <1>0 DEF EnterCycle
<1>31. ASSUME NEW i \in Ifaces, LoadCommand(i) PROVE QuietInv'
  BY <1>31, <1>0 DEF LoadCommand
<1>32. ASSUME NEW i \in Ifaces, ConvertCommand(i) PROVE QuietInv'
  BY <1>32, <1>0 DEF ConvertCommand
<1>33. ASSUME NEW i \in Ifaces, AcquireBus(i) PROVE QuietInv'
  BY <1>33, <1>0 DEF AcquireBus
<1>34. ASSUME NEW i \in Ifaces, SendAndReceive(i) PROVE QuietInv'
  BY <1>34, <1>0 DEF SendAndReceive
<1>35. ASSUME NEW i \in Ifaces, SendAndReceiveThrows(i) PROVE QuietInv'
  BY <1>35, <1>0 DEF SendAndReceiveThrows
<1>36. ASSUME NEW i \in Ifaces, DeviceFault(i) PROVE QuietInv'
  BY <1>36, <1>0 DEF DeviceFault, CallDeactivate
<1>37. ASSUME NEW i \in Ifaces, StatusChecked(i) PROVE QuietInv'
  BY <1>37, <1>0 DEF StatusChecked
<1>38. ASSUME NEW i \in Ifaces, CountErrors(i) PROVE QuietInv'
  BY <1>38, <1>0 DEF CountErrors
<1>39. ASSUME NEW i \in Ifaces, FatalError(i) PROVE QuietInv'
  BY <1>39, <1>0 DEF FatalError, CallDeactivate
<1>40. ASSUME NEW i \in Ifaces, WriteBack(i) PROVE QuietInv'
  BY <1>40, <1>0 DEF WriteBack, Return
<1>41. ASSUME NEW i \in Ifaces, LimitViolated(i) PROVE QuietInv'
  BY <1>41, <1>0 DEF LimitViolated, CallDeactivate
<1>42. CASE UNCHANGED vars
  BY <1>42 DEF vars, InTransition
<1>43. QED
  BY <1>1, <1>2, <1>3, <1>4, <1>5, <1>6, <1>7, <1>8, <1>9, <1>10, <1>11,
     <1>12, <1>13, <1>14, <1>15, <1>16, <1>17, <1>18, <1>19, <1>20, <1>21,
     <1>22, <1>23, <1>24, <1>25, <1>26, <1>27, <1>28, <1>29, <1>30, <1>31,
     <1>32, <1>33, <1>34, <1>35, <1>36, <1>37, <1>38, <1>39, <1>40, <1>41,
     <1>42
     DEF Next, Request, ExecStep, CommStep, Cycle, Deactivate, Down


-----------------------------------------------------------------------------

\* The initial states satisfy the inductive invariant.
LEMMA InitIInv == Init => IInv
<1> SUFFICES ASSUME Init PROVE IInv
  OBVIOUS
<1> USE ConstantsAssumption
    DEF Init, Threads, PrimaryStates, TransitionStates, ExecLocs, CommLocs, DeactivateLocs
<1>1. TypeOK
  <2>1. /\ bad \in [Ifaces -> 0 .. NumJoints]
        /\ errors \in [Ifaces -> 0 .. MaxErrors - 1]
    OBVIOUS
  <2>2. watchdog \in BOOLEAN /\ cleanupRequested \in BOOLEAN
    OBVIOUS
  <2>3. open \in BOOLEAN /\ busLocked \in BOOLEAN
    OBVIOUS
  <2>4. running \in [Ifaces -> BOOLEAN]
    OBVIOUS
  <2>5. QED
    BY <2>1, <2>2, <2>3, <2>4 DEF TypeOK, Commands, Frames
<1>2. LocsOK /\ FrameOK
  BY DEF LocsOK, FrameOK
<1>3. DevicesInv
  BY DEF DevicesInv
<1>4. TransitionInv
  BY DEF TransitionInv, OneTransition, InTransition, ExecAgrees
<1>5. WatchdogInv /\ QuietInv
  BY DEF WatchdogInv, QuietInv
<1>6. QED
  BY <1>1, <1>2, <1>3, <1>4, <1>5 DEF IInv, TypeInv

\* The inductive invariant holds in every reachable state.
THEOREM InductiveInvariant == Spec => []IInv
<1>1. IInv /\ [Next]_vars => IInv'
  BY TypeStep, DevicesStep, TransitionStep, WatchdogStep, QuietStep DEF IInv
<1>2. QED
  BY InitIInv, <1>1, PTL DEF Spec

\* Every variable keeps its type: among others a cycle never sends a frame
\* that is not there, and the count of CAN errors stays below its maximum.
THEOREM TypeCorrect == Spec => []TypeOK
<1>1. IInv => TypeOK
  BY DEF IInv, TypeInv
<1>2. QED
  BY InductiveInvariant, <1>1, PTL

\* A lifecycle transition is the work of one thread, whichever threads call
\* deactivate() while the executor configures, cleans up or shuts down.
THEOREM OneTransitionAtATime == Spec => []OneTransition
<1>1. IInv => OneTransition
  BY DEF IInv, TransitionInv
<1>2. QED
  BY InductiveInvariant, <1>1, PTL

\* No communication thread uses a CAN device that cleanup has deleted.
THEOREM DevicesOutliveThreads == Spec => []NoUseAfterFree
<1>1. IInv => NoUseAfterFree
  BY DEF IInv, DevicesInv, NoUseAfterFree, InCycle
<1>2. QED
  BY InductiveInvariant, <1>1, PTL

\* ACTIVE always has its watchdog, however activations and the deactivations
\* of the communication threads interleave.
THEOREM ActiveIsWatched == Spec => []WatchdogArmed
<1>1. IInv => WatchdogArmed
  BY DEF IInv, WatchdogInv, WatchdogArmed
<1>2. QED
  BY InductiveInvariant, <1>1, PTL

\* After a cleanup or a failed configuration nothing runs and every motor that
\* can be reached is off.
THEOREM UnconfiguredStaysQuiet == Spec => []UnconfiguredIsQuiet
<1>1. IInv => UnconfiguredIsQuiet
  <2>1. SUFFICES ASSUME IInv, phase = "spinning",
                        lifecycle \in {"unconfigured", "finalized"}
                 PROVE  /\ ~open /\ ~watchdog
                        /\ \A i \in Ifaces : pc[i] = "none"
                        /\ \A i \in Ifaces \ Flaky : motor[i] = "off"
    BY DEF UnconfiguredIsQuiet
  <2>2. ~open /\ ~watchdog
    BY <2>1 DEF IInv, QuietInv
  <2>3. QED
    BY <2>1, <2>2 DEF IInv, QuietInv, DevicesInv
<1>2. QED
  BY InductiveInvariant, <1>1, PTL


=============================================================================
