---------------------------- MODULE OriginProofs ----------------------------
(***************************************************************************)
(* Proofs about the calibration services next to the lifecycle node, for   *)
(* every set of interfaces: the types, that no cycle is on the bus while a *)
(* service or a cleanup handles motors, that motors are calibrated only in *)
(* INACTIVE, and that every paused thread is resumed.                      *)
(***************************************************************************)
EXTENDS OriginService, TLAPS

\* Where deactivate() may return to: never into the exchange of a cycle, and
\* never into a service.
BackLocs == {"none", "idle", "watchdog_end", "stop", "status", "loop"}

\* Types of everything a step reads.
NodeTypes ==
  /\ pc \in [Threads -> ExecLocs \cup CommLocs \cup DeactivateLocs \cup ServiceLocs]
  /\ ret \in [Threads -> BackLocs]
  /\ cmd \in Commands \cup {"null"}
  /\ frame \in [Ifaces -> Frames \cup {"none"}]
  /\ bad \in [Ifaces -> 0 .. NumJoints]
  /\ errors \in [Ifaces -> 0 .. MaxErrors - 1]
  /\ motor \in [Ifaces -> Frames \cup {"off"}]

\* A cycle that is about to send has something to send.
FrameOK == \A i \in Ifaces : pc[i] \in {"built", "send", "exchange"} => frame[i] # "none"

ServiceTypes ==
  /\ asked \in SUBSET Ifaces
  /\ unwinding \in BOOLEAN
  /\ brokenMutex \in BOOLEAN

OTypes == NodeTypes /\ FrameOK /\ ServiceTypes

-----------------------------------------------------------------------------
(* Types                                                                    *)

LEMMA OTypesInit == OInit => OTypes
<1> SUFFICES ASSUME OInit PROVE OTypes
  OBVIOUS
<1>1. 0 \in 0 .. NumJoints /\ 0 \in 0 .. MaxErrors - 1
  BY ConstantsAssumption
<1>2. pc \in [Threads -> ExecLocs \cup CommLocs \cup DeactivateLocs \cup ServiceLocs]
  BY DEF OInit, Init, ExecLocs, CommLocs
<1>3. NodeTypes
  BY <1>1, <1>2 DEF OInit, Init, NodeTypes, BackLocs
<1>4. FrameOK
  BY ConstantsAssumption DEF OInit, Init, FrameOK, Threads
<1> QED
  BY <1>3, <1>4 DEF OInit, OTypes, ServiceTypes

LEMMA DeactivateKeepsTypes ==
  ASSUME NodeTypes, FrameOK, NEW t \in Threads, Deactivate(t)
  PROVE  NodeTypes' /\ FrameOK'
<1> USE DEF NodeTypes, FrameOK, lifeVars, cmdVars, busVars, commVars, Goto, GoBack
<1>1. BackLocs \subseteq ExecLocs \cup CommLocs
  BY DEF BackLocs, ExecLocs, CommLocs
<1>2. CASE TriggerDeactivate(t)
  BY <1>1, <1>2 DEF TriggerDeactivate, BackLocs, DeactivateLocs, Threads
<1>3. CASE StoreDamping(t)
  BY <1>3 DEF StoreDamping, DeactivateLocs, Commands, Threads
<1>4. CASE ResetWatchdog(t)
  BY <1>1, <1>4 DEF ResetWatchdog, BackLocs, DeactivateLocs, Threads
<1>5. CASE FinishDeactivate(t)
  BY <1>1, <1>5 DEF FinishDeactivate, BackLocs, Threads
<1> QED
  BY <1>2, <1>3, <1>4, <1>5 DEF Deactivate

\* A communication thread.
LEMMA CommKeepsTypes ==
  ASSUME NodeTypes, FrameOK, NEW i \in Ifaces, CommStep(i)
  PROVE  NodeTypes' /\ FrameOK'
<1> USE DEF NodeTypes, FrameOK, BackLocs, Threads, CommLocs, DeactivateLocs,
            Commands, Frames, lifeVars, cmdVars, busVars, commVars, Goto, GoBack,
            CallDeactivate, Return
<1>0. 0 \in 0 .. NumJoints /\ 0 \in 0 .. MaxErrors - 1
  BY ConstantsAssumption
<1>1. CASE LeaveLoop(i)
  BY <1>1 DEF LeaveLoop
<1>2. CASE EnterCycle(i)
  BY <1>2 DEF EnterCycle
<1>3. CASE LoadCommand(i)
  BY <1>3 DEF LoadCommand
<1>4. CASE ConvertCommand(i)
  BY <1>4 DEF ConvertCommand
<1>5. CASE AcquireBus(i)
  BY <1>5 DEF AcquireBus
<1>6. CASE SendAndReceive(i)
  <2>1. PICK lost \in 0 .. NumJoints :
          /\ bad' = [bad EXCEPT ![i] = lost]
          /\ motor' = motor \/ motor' = [motor EXCEPT ![i] = frame[i]]
    BY <1>0, <1>6 DEF SendAndReceive
  <2>2. motor' \in [Ifaces -> Frames \cup {"off"}]
    BY <1>6, <2>1 DEF SendAndReceive
  <2> QED
    BY <1>6, <2>1, <2>2 DEF SendAndReceive
<1>7. CASE SendAndReceiveThrows(i)
  BY <1>7 DEF SendAndReceiveThrows
<1>8. CASE DeviceFault(i) \/ StatusChecked(i)
  BY <1>8 DEF DeviceFault, StatusChecked
<1>9. CASE CountErrors(i)
  <2>1. errors' \in [Ifaces -> 0 .. MaxErrors - 1]
    BY <1>0, <1>9, ConstantsAssumption DEF CountErrors
  <2> QED
    BY <1>9, <2>1 DEF CountErrors
<1>10. CASE FatalError(i)
  BY <1>0, <1>10 DEF FatalError
<1>11. CASE WriteBack(i) \/ LimitViolated(i)
  BY <1>0, <1>11 DEF WriteBack, LimitViolated
<1>12. CASE Deactivate(i)
  BY <1>12, DeactivateKeepsTypes
<1> QED
  BY <1>1, <1>2, <1>3, <1>4, <1>5, <1>6, <1>7, <1>8, <1>9, <1>10, <1>11, <1>12
  DEF CommStep, Cycle

LEMMA NodeKeepsTypes ==
  ASSUME NodeTypes, FrameOK, Next
  PROVE  NodeTypes' /\ FrameOK'
<1> USE ConstantsAssumption
    DEF NodeTypes, FrameOK, BackLocs, Threads, ExecLocs, CommLocs, DeactivateLocs,
        Commands, Frames, lifeVars, cmdVars, busVars, commVars, Goto, GoBack,
        CallDeactivate, Idle
<1>0. 0 \in 0 .. NumJoints /\ 0 \in 0 .. MaxErrors - 1
  BY ConstantsAssumption
<1>1. CASE RequestConfigure \/ RequestActivate \/ RequestDeactivate \/ RequestCleanup
  BY <1>1 DEF RequestConfigure, RequestActivate, RequestDeactivate, RequestCleanup
<1>2. CASE RequestShutdown \/ Interrupt
  BY <1>2 DEF RequestShutdown, Interrupt, EnterShutdown
<1>3. CASE ConfigureSucceeds
  BY <1>0, <1>3 DEF ConfigureSucceeds
<1>4. CASE ConfigureRejected \/ OnError
  BY <1>4 DEF ConfigureRejected, OnError
<1>5. CASE ConfigureErrors
  <2>1. motor' \in [Ifaces -> Frames \cup {"off"}]
    BY <1>5 DEF ConfigureErrors
  <2> QED
    BY <1>5, <2>1 DEF ConfigureErrors
<1>6. CASE OnActivate \/ FinishTransition \/ TriggerCleanup
  BY <1>6 DEF OnActivate, FinishTransition, TriggerCleanup
<1>7. CASE Deactivate(Exec)
  BY <1>7, DeactivateKeepsTypes
<1>8. CASE StopCommThreads \/ JoinCommThreads \/ LockBus
  BY <1>8 DEF StopCommThreads, JoinCommThreads, LockBus
<1>9. CASE Teardown
  <2>1. motor' \in [Ifaces -> Frames \cup {"off"}]
    BY <1>9 DEF Teardown
  <2> QED
    BY <1>0, <1>9, <2>1 DEF Teardown
<1>10. CASE Exit
  BY <1>0, <1>10 DEF Exit
<1>11. CASE StoreCommand \/ WatchdogChecks \/ WatchdogEnds
  BY <1>11 DEF StoreCommand, WatchdogChecks, WatchdogEnds
<1>12. CASE ReceiveCommand \/ WatchdogFires \/ Supervisor
  BY <1>12 DEF ReceiveCommand, WatchdogFires, Supervisor
<1>13. CASE \E i \in Ifaces : CommStep(i)
  BY <1>13, CommKeepsTypes
<1>14. CASE Down
  BY <1>14 DEF Down, vars
<1> QED
  BY <1>1, <1>2, <1>3, <1>4, <1>5, <1>6, <1>7, <1>8, <1>9, <1>10, <1>11, <1>12,
     <1>13, <1>14
  DEF Next, Request, ExecStep

LEMMA ServiceKeepsTypes ==
  ASSUME OTypes, Service
  PROVE  OTypes'
<1> USE ConstantsAssumption
    DEF OTypes, NodeTypes, FrameOK, ServiceTypes, Threads, ServiceLocs, lifeVars,
        cmdVars, busVars, commVars, originVars, Goto, Idle, LockFor
<1>0. /\ {"idle", "gone", "cleanup_call"} \subseteq ExecLocs
      /\ {"none", "loop"} \subseteq CommLocs /\ "zero" \in Frames
  BY DEF ExecLocs, CommLocs, Frames, Commands
<1>1. CASE AllPause \/ AllJoin \/ AllLock
  BY <1>1 DEF AllPause, AllJoin, AllLock
<1>2. CASE AllSucceeds
  BY <1>0, <1>2 DEF AllSucceeds
<1>3. CASE AllFails
  <2>1. motor' \in [Ifaces -> Frames \cup {"off"}]
    <3>1. PICK i \in Ifaces : \E done \in SUBSET Ifaces, state \in HalfCalibrated(i) :
            motor' = [j \in Ifaces |-> IF j = i THEN state
                                       ELSE IF j \in done THEN "zero" ELSE motor[j]]
      BY <1>3 DEF AllFails
    <3>2. HalfCalibrated(i) \subseteq Frames \cup {"off"}
      BY <1>0 DEF HalfCalibrated
    <3> QED
      BY <1>0, <3>1, <3>2
  <2> QED
    BY <1>3, <2>1 DEF AllFails
<1>4. CASE AllEmergencyThrows
  <2>1. motor' \in [Ifaces -> Frames \cup {"off"}]
    BY <1>4 DEF AllEmergencyThrows
  <2> QED
    BY <1>0, <1>4, <2>1 DEF AllEmergencyThrows
<1>5. CASE AllEmergencyOverruns
  BY <1>0, <1>5 DEF AllEmergencyOverruns
<1>6. CASE AllGoesOn
  BY <1>6 DEF AllGoesOn, vars
<1>7. CASE OnePause \/ OneJoin \/ OneLock
  BY <1>7 DEF OnePause, OneJoin, OneLock
<1>8. CASE OneSucceeds
  BY <1>0, <1>8 DEF OneSucceeds
<1>9. CASE OneFails
  <2>1. motor' \in [Ifaces -> Frames \cup {"off"}]
    BY <1>0, <1>9 DEF OneFails, HalfCalibrated
  <2> QED
    BY <1>9, <2>1 DEF OneFails
<1>10. CASE OneEmergency
  <2>1. motor' \in [Ifaces -> Frames \cup {"off"}]
    BY <1>10 DEF OneEmergency
  <2> QED
    BY <1>0, <1>10, <2>1 DEF OneEmergency
<1> QED
  BY <1>1, <1>2, <1>3, <1>4, <1>5, <1>6, <1>7, <1>8, <1>9, <1>10 DEF Service

LEMMA OTypesStep == OTypes /\ [ONext]_ovars => OTypes'
<1> SUFFICES ASSUME OTypes, [ONext]_ovars PROVE OTypes'
  OBVIOUS
<1>1. CASE NodeStep
  BY <1>1, NodeKeepsTypes DEF NodeStep, OTypes, ServiceTypes
<1>2. CASE Service
  BY <1>2, ServiceKeepsTypes
<1>3. CASE UNCHANGED ovars
  BY <1>3 DEF ovars, vars, originVars, OTypes, NodeTypes, FrameOK, ServiceTypes
<1> QED
  BY <1>1, <1>2, <1>3 DEF ONext

LEMMA OTypesInvariant == OSpec => []OTypes
BY OTypesInit, OTypesStep, PTL DEF OSpec

\* Every variable of the node and of the services keeps its type.
THEOREM ServiceTypeCorrect == OSpec => []OTypeOK
<1>1. OTypes => OTypeOK
  BY DEF OTypes, NodeTypes, ServiceTypes, OTypeOK
<1> QED
  BY <1>1, OTypesInvariant, PTL

-----------------------------------------------------------------------------
(* The bus                                                                  *)

\* What handles the motors holds the mutex, and the mutex keeps cycles out.
BusInv ==
  /\ busLocked => \A i \in Ifaces : pc[i] # "exchange"
  /\ pc[Exec] \in {"all_set", "all_failed", "one_set", "one_failed", "teardown"}
       => busLocked
  /\ pc[Exec] \in {"one_lock", "one_set"} => \A i \in asked : pc[i] = "none"

\* A step of a communication thread takes it to the bus only if that is free.
LEMMA CommRespectsLock ==
  ASSUME OTypes, BusInv, NEW i \in Ifaces, CommStep(i), UNCHANGED asked
  PROVE  BusInv'
<1> USE ConstantsAssumption
    DEF OTypes, NodeTypes, ServiceTypes, BusInv, BackLocs, Threads, busVars, Goto,
        GoBack, CallDeactivate, Return, DeactivateLocs
<1>1. CASE AcquireBus(i)
  BY <1>1 DEF AcquireBus
<1>2. CASE LeaveLoop(i) \/ EnterCycle(i) \/ LoadCommand(i) \/ ConvertCommand(i)
  BY <1>2 DEF LeaveLoop, EnterCycle, LoadCommand, ConvertCommand
<1>3. CASE SendAndReceive(i) \/ SendAndReceiveThrows(i) \/ DeviceFault(i)
             \/ StatusChecked(i)
  BY <1>3 DEF SendAndReceive, SendAndReceiveThrows, DeviceFault, StatusChecked
<1>4. CASE CountErrors(i) \/ FatalError(i) \/ WriteBack(i) \/ LimitViolated(i)
  BY <1>4 DEF CountErrors, FatalError, WriteBack, LimitViolated
<1>5. CASE Deactivate(i)
  BY <1>5 DEF Deactivate, TriggerDeactivate, StoreDamping, ResetWatchdog,
              FinishDeactivate
<1> QED
  BY <1>1, <1>2, <1>3, <1>4, <1>5 DEF CommStep, Cycle

LEMMA NodeRespectsLock ==
  ASSUME OTypes, BusInv, Next, UNCHANGED asked
  PROVE  BusInv'
<1> USE ConstantsAssumption
    DEF OTypes, NodeTypes, ServiceTypes, BusInv, BackLocs, Threads, busVars, Goto,
        GoBack, CallDeactivate, DeactivateLocs, Idle
<1>1. CASE Request
  BY <1>1 DEF Request, RequestConfigure, RequestActivate, RequestDeactivate,
              RequestCleanup, RequestShutdown, Interrupt, EnterShutdown
<1>2. CASE ConfigureSucceeds \/ ConfigureRejected \/ ConfigureErrors \/ OnError
  BY <1>2 DEF ConfigureSucceeds, ConfigureRejected, ConfigureErrors, OnError
<1>3. CASE OnActivate \/ FinishTransition \/ TriggerCleanup
  BY <1>3 DEF OnActivate, FinishTransition, TriggerCleanup
<1>4. CASE Deactivate(Exec)
  BY <1>4 DEF Deactivate, TriggerDeactivate, StoreDamping, ResetWatchdog,
              FinishDeactivate
<1>5. CASE StopCommThreads \/ JoinCommThreads \/ LockBus \/ Teardown \/ Exit
  BY <1>5 DEF StopCommThreads, JoinCommThreads, LockBus, Teardown, Exit
<1>6. CASE StoreCommand \/ WatchdogChecks \/ WatchdogEnds
  BY <1>6 DEF StoreCommand, WatchdogChecks, WatchdogEnds
<1>7. CASE ReceiveCommand \/ WatchdogFires \/ Supervisor
  BY <1>7 DEF ReceiveCommand, WatchdogFires, Supervisor
<1>8. CASE \E i \in Ifaces : CommStep(i)
  BY <1>8, CommRespectsLock
<1>9. CASE Down
  BY <1>9 DEF Down, vars
<1> QED
  BY <1>1, <1>2, <1>3, <1>4, <1>5, <1>6, <1>7, <1>8, <1>9 DEF Next, ExecStep

LEMMA ServiceRespectsLock ==
  ASSUME OTypes, BusInv, Service
  PROVE  BusInv'
<1> USE ConstantsAssumption
    DEF OTypes, NodeTypes, ServiceTypes, BusInv, Threads, busVars, originVars, Goto,
        LockFor, Idle
<1>1. CASE AllPause \/ AllJoin \/ AllFails
  BY <1>1 DEF AllPause, AllJoin, AllFails
<1>5. CASE AllLock
  BY <1>5 DEF AllLock
<1>6. CASE AllSucceeds
  <2>1. pc'[Exec] = "idle" /\ ~busLocked'
    BY <1>6 DEF AllSucceeds
  <2> QED
    BY <2>1
<1>2. CASE AllEmergencyThrows
  <2>1. pc'[Exec] = "cleanup_call" /\ ~busLocked'
    BY <1>2 DEF AllEmergencyThrows
  <2> QED
    BY <2>1
<1>8. CASE AllGoesOn
  BY <1>8 DEF AllGoesOn, vars
<1>7. CASE AllEmergencyOverruns
  <2>1. pc'[Exec] = "gone" /\ \A i \in Ifaces : pc'[i] = "none"
    BY <1>7 DEF AllEmergencyOverruns
  <2> QED
    BY <2>1
<1>3. CASE OnePause \/ OneJoin \/ OneLock \/ OneSucceeds
  BY <1>3 DEF OnePause, OneJoin, OneLock, OneSucceeds
<1>4. CASE OneFails \/ OneEmergency
  BY <1>4 DEF OneFails, OneEmergency
<1> QED
  BY <1>1, <1>2, <1>3, <1>4, <1>5, <1>6, <1>7, <1>8 DEF Service

\* No frame of a cycle gets between the control frames of a service or of a
\* cleanup, not even one of an interface the service does not pause.
THEOREM ControlFramesAreAlone == OSpec => []ControlExcludesCycles
<1>1. OInit => BusInv
  BY ConstantsAssumption DEF OInit, Init, BusInv, Threads
<1>2. OTypes /\ BusInv /\ [ONext]_ovars => BusInv'
  <2>1. ASSUME UNCHANGED ovars, BusInv PROVE BusInv'
    BY <2>1 DEF ovars, vars, originVars, BusInv
  <2>2. ASSUME NodeStep, OTypes, BusInv PROVE BusInv'
    BY <2>2, NodeRespectsLock DEF NodeStep
  <2> QED
    BY <2>1, <2>2, ServiceRespectsLock DEF ONext
<1>3. BusInv => ControlExcludesCycles
  BY DEF BusInv, ControlExcludesCycles
<1> QED
  BY <1>1, <1>2, <1>3, OTypesInvariant, PTL DEF OSpec

-----------------------------------------------------------------------------
(* The state of the node                                                    *)

\* A communication thread changes the state only in a deactivate() from ACTIVE
\* or at the end of one, which is INACTIVE again.
LEMMA CommLeavesInactive ==
  ASSUME OTypes, CalibratesOnlyInactive, NEW i \in Ifaces, CommStep(i)
  PROVE  CalibratesOnlyInactive'
<1> USE ConstantsAssumption
    DEF OTypes, NodeTypes, CalibratesOnlyInactive, Threads, lifeVars, Goto, GoBack,
        CallDeactivate, Return
<1>1. CASE LeaveLoop(i) \/ EnterCycle(i) \/ LoadCommand(i) \/ ConvertCommand(i)
             \/ AcquireBus(i)
  BY <1>1 DEF LeaveLoop, EnterCycle, LoadCommand, ConvertCommand, AcquireBus
<1>2. CASE SendAndReceive(i) \/ SendAndReceiveThrows(i) \/ DeviceFault(i)
             \/ StatusChecked(i)
  BY <1>2 DEF SendAndReceive, SendAndReceiveThrows, DeviceFault, StatusChecked
<1>3. CASE CountErrors(i) \/ FatalError(i) \/ WriteBack(i) \/ LimitViolated(i)
  BY <1>3 DEF CountErrors, FatalError, WriteBack, LimitViolated
<1>4. CASE Deactivate(i)
  BY <1>4 DEF Deactivate, TriggerDeactivate, StoreDamping, ResetWatchdog,
              FinishDeactivate
<1> QED
  BY <1>1, <1>2, <1>3, <1>4 DEF CommStep, Cycle

\* The node's own callbacks are not part of a service.
LEMMA NodeLeavesService ==
  ASSUME OTypes, CalibratesOnlyInactive, Next
  PROVE  CalibratesOnlyInactive'
<1> USE ConstantsAssumption
    DEF OTypes, NodeTypes, BackLocs, CalibratesOnlyInactive, Threads, ServiceLocs,
        lifeVars, Goto, GoBack, CallDeactivate
<1>1. CASE Request
  BY <1>1 DEF Request, RequestConfigure, RequestActivate, RequestDeactivate,
              RequestCleanup, RequestShutdown, Interrupt, EnterShutdown
<1>2. CASE ConfigureSucceeds \/ ConfigureRejected \/ ConfigureErrors \/ OnError
  BY <1>2 DEF ConfigureSucceeds, ConfigureRejected, ConfigureErrors, OnError
<1>3. CASE OnActivate \/ FinishTransition \/ TriggerCleanup
  BY <1>3 DEF OnActivate, FinishTransition, TriggerCleanup
<1>4. CASE Deactivate(Exec)
  BY <1>4 DEF Deactivate, TriggerDeactivate, StoreDamping, ResetWatchdog,
              FinishDeactivate
<1>5. CASE StopCommThreads \/ JoinCommThreads \/ LockBus \/ Teardown \/ Exit
  BY <1>5 DEF StopCommThreads, JoinCommThreads, LockBus, Teardown, Exit
<1>6. CASE StoreCommand \/ WatchdogChecks \/ WatchdogEnds
  BY <1>6 DEF StoreCommand, WatchdogChecks, WatchdogEnds
<1>7. CASE ReceiveCommand \/ WatchdogFires \/ Supervisor
  BY <1>7 DEF ReceiveCommand, WatchdogFires, Supervisor
<1>8. CASE \E i \in Ifaces : CommStep(i)
  BY <1>8, CommLeavesInactive
<1>9. CASE Down
  BY <1>9 DEF Down, vars
<1> QED
  BY <1>1, <1>2, <1>3, <1>4, <1>5, <1>6, <1>7, <1>8, <1>9 DEF Next, ExecStep

\* A service starts in INACTIVE and does not change the state.
LEMMA ServiceStaysInactive ==
  ASSUME OTypes, CalibratesOnlyInactive, Service
  PROVE  CalibratesOnlyInactive'
<1> USE ConstantsAssumption
    DEF OTypes, NodeTypes, CalibratesOnlyInactive, Threads, ServiceLocs, lifeVars,
        Goto, LockFor, Idle
<1>1. CASE AllPause \/ AllJoin \/ AllLock \/ AllSucceeds \/ AllFails
  BY <1>1 DEF AllPause, AllJoin, AllLock, AllSucceeds, AllFails
<1>2. CASE AllEmergencyThrows \/ AllEmergencyOverruns \/ AllGoesOn
  BY <1>2 DEF AllEmergencyThrows, AllEmergencyOverruns, AllGoesOn, vars
<1>3. CASE OnePause \/ OneJoin \/ OneLock \/ OneSucceeds
  BY <1>3 DEF OnePause, OneJoin, OneLock, OneSucceeds
<1>4. CASE OneFails \/ OneEmergency
  BY <1>4 DEF OneFails, OneEmergency
<1> QED
  BY <1>1, <1>2, <1>3, <1>4 DEF Service

\* No motor is disabled and enabled for a calibration unless the node is, and
\* stays until the end of it, INACTIVE.
THEOREM CalibrationNeedsInactive == OSpec => []CalibratesOnlyInactive
<1>1. OInit => CalibratesOnlyInactive
  BY ConstantsAssumption
  DEF OInit, Init, CalibratesOnlyInactive, Threads, ServiceLocs
<1>2. OTypes /\ CalibratesOnlyInactive /\ [ONext]_ovars => CalibratesOnlyInactive'
  <2>1. ASSUME UNCHANGED ovars, CalibratesOnlyInactive PROVE CalibratesOnlyInactive'
    BY <2>1 DEF ovars, vars, CalibratesOnlyInactive
  <2> QED
    BY <2>1, NodeLeavesService, ServiceStaysInactive DEF ONext, NodeStep
<1> QED
  BY <1>1, <1>2, OTypesInvariant, PTL DEF OSpec

-----------------------------------------------------------------------------
(* The communication threads                                                *)

\* A communication thread that calls deactivate() goes on with its cycle.
CallsBack == \A i \in Ifaces : pc[i] \in DeactivateLocs => ret[i] \in {"status", "loop"}

\* Inside on_deactivate() or about to finish its transition.
Deactivating(t) == pc[t] \in {"d_store", "d_reset", "d_finish"}

\* At each place of a transition's callback the state is that transition's.
ExecAgrees ==
  /\ pc[Exec] = "configuring" => lifecycle = "configuring"
  /\ pc[Exec] = "on_error" => lifecycle = "errorprocessing"
  /\ pc[Exec] = "activating" => lifecycle = "activating"
  /\ pc[Exec] \in {"stop", "join", "lock", "teardown"} =>
       lifecycle \in {"cleaningup", "shuttingdown"}
  /\ pc[Exec] = "finish" => lifecycle \in TransitionStates \ {"deactivating"}
  /\ Deactivating(Exec) =>
       lifecycle = IF ret[Exec] = "stop" THEN "shuttingdown" ELSE "deactivating"
  /\ pc[Exec] \in {"d_call", "d_finish"} => ret[Exec] # "stop"

CommAgrees ==
  /\ \A i \in Ifaces : Deactivating(i) => lifecycle = "deactivating"
  /\ \A s, t \in Threads : Deactivating(s) /\ Deactivating(t) => s = t

Runs(i) == running[i] /\ pc[i] # "none"
Served  == \A i \in Ifaces : Runs(i)

\* From a configuration to the next cleanup every thread runs, except the ones
\* a service has paused; a service that fails leads straight to the cleanup.
ServedInv ==
  /\ lifecycle \in {"inactive", "active", "activating", "deactivating"} =>
       Served \/ unwinding \/ pc[Exec] \in ServiceLocs \cup {"cleanup_call"}
  /\ pc[Exec] = "cleanup_call" /\ lifecycle \in {"active", "activating", "deactivating"} => Served
  /\ pc[Exec] = "finish" /\ lifecycle = "configuring" => Served
  /\ pc[Exec] \in {"one_join", "one_lock", "one_set"} =>
       \A i \in Ifaces \ asked : Runs(i)
  /\ unwinding =>
       \/ pc[Exec] = "cleanup_call" /\ lifecycle = "inactive"
       \/ /\ pc[Exec] \in {"stop", "join", "lock", "teardown", "finish"}
          /\ lifecycle = "cleaningup"
       \/ pc[Exec] = "idle" /\ lifecycle = "unconfigured"

ThreadInv ==
  /\ CallsBack
  /\ phase = "spinning" => ExecAgrees /\ CommAgrees /\ ServedInv

LEMMA ThreadInit == OInit => ThreadInv
<1> SUFFICES ASSUME OInit PROVE ThreadInv
  OBVIOUS
<1>1. pc[Exec] = "idle" /\ \A i \in Ifaces : pc[i] = "none"
  BY ConstantsAssumption DEF OInit, Init, Threads
<1>2. lifecycle = "unconfigured" /\ unwinding = FALSE
  BY DEF OInit, Init
<1> QED
  BY <1>1, <1>2 DEF ThreadInv, CallsBack, ExecAgrees, CommAgrees, ServedInv, Deactivating,
     DeactivateLocs, Threads

\* deactivate(), on the way in any thread.
LEMMA DeactivateKeepsThreads ==
  ASSUME OTypes, CalibratesOnlyInactive, ThreadInv, NEW t \in Threads, Deactivate(t),
         UNCHANGED <<asked, unwinding>>
  PROVE  ThreadInv'
<1> USE ConstantsAssumption
    DEF OTypes, NodeTypes, ThreadInv, CallsBack, ExecAgrees, CommAgrees, ServedInv, Served,
        Runs, Deactivating, DeactivateLocs, Threads, ServiceLocs, TransitionStates,
        BackLocs, lifeVars, Goto, GoBack
<1>1. CASE TriggerDeactivate(t)
  BY <1>1 DEF TriggerDeactivate
<1>2. CASE StoreDamping(t)
  BY <1>2 DEF StoreDamping
<1>3. CASE ResetWatchdog(t)
  BY <1>3 DEF ResetWatchdog
<1>4. CASE FinishDeactivate(t)
  BY <1>4 DEF FinishDeactivate
<1> QED
  BY <1>1, <1>2, <1>3, <1>4 DEF Deactivate

LEMMA CommKeepsThreads ==
  ASSUME OTypes, CalibratesOnlyInactive, ThreadInv, NEW i \in Ifaces, CommStep(i),
         UNCHANGED <<asked, unwinding>>
  PROVE  ThreadInv'
<1> USE ConstantsAssumption
    DEF OTypes, NodeTypes, ThreadInv, CallsBack, ExecAgrees, CommAgrees, ServedInv, Served,
        Runs, Deactivating, DeactivateLocs, Threads, ServiceLocs, TransitionStates,
        lifeVars, Goto, CallDeactivate, Return
<1>1. CASE LeaveLoop(i)
  BY <1>1 DEF LeaveLoop
<1>2. CASE EnterCycle(i) \/ LoadCommand(i) \/ ConvertCommand(i) \/ AcquireBus(i)
  BY <1>2 DEF EnterCycle, LoadCommand, ConvertCommand, AcquireBus
<1>3. CASE SendAndReceive(i) \/ SendAndReceiveThrows(i)
  BY <1>3 DEF SendAndReceive, SendAndReceiveThrows
<1>4. CASE DeviceFault(i) \/ StatusChecked(i) \/ CountErrors(i)
  BY <1>4 DEF DeviceFault, StatusChecked, CountErrors
<1>5. CASE FatalError(i) \/ WriteBack(i) \/ LimitViolated(i)
  BY <1>5 DEF FatalError, WriteBack, LimitViolated
<1>6. CASE Deactivate(i)
  BY <1>6, DeactivateKeepsThreads
<1> QED
  BY <1>1, <1>2, <1>3, <1>4, <1>5, <1>6 DEF CommStep, Cycle

LEMMA NodeKeepsThreads ==
  ASSUME OTypes, CalibratesOnlyInactive, ThreadInv, NodeStep
  PROVE  ThreadInv'
<1> USE ConstantsAssumption
    DEF OTypes, NodeTypes, ThreadInv, CallsBack, ExecAgrees, CommAgrees, ServedInv, Served,
        Runs, Deactivating, DeactivateLocs, Threads, ServiceLocs, TransitionStates,
        lifeVars, Goto, CallDeactivate, Idle
<1>0. Next /\ UNCHANGED <<asked, unwinding>> /\ ~(unwinding /\ Idle)
  BY DEF NodeStep
<1>1. CASE RequestConfigure \/ RequestActivate \/ RequestDeactivate \/ RequestCleanup
  BY <1>0, <1>1 DEF RequestConfigure, RequestActivate, RequestDeactivate, RequestCleanup
<1>2. CASE RequestShutdown
  BY <1>0, <1>2 DEF RequestShutdown, EnterShutdown
<1>3. CASE Interrupt
  BY <1>0, <1>3 DEF Interrupt, EnterShutdown
<1>4. CASE ConfigureSucceeds
  BY <1>0, <1>4 DEF ConfigureSucceeds
<1>5. CASE ConfigureRejected \/ ConfigureErrors \/ OnError
  BY <1>0, <1>5 DEF ConfigureRejected, ConfigureErrors, OnError
<1>6. CASE OnActivate
  BY <1>0, <1>6 DEF OnActivate
<1>7. CASE FinishTransition
  BY <1>0, <1>7 DEF FinishTransition, Target
<1>8. CASE TriggerCleanup
  BY <1>0, <1>8 DEF TriggerCleanup
<1>9. CASE Deactivate(Exec)
  BY <1>0, <1>9, DeactivateKeepsThreads
<1>10. CASE StopCommThreads \/ JoinCommThreads \/ LockBus
  BY <1>0, <1>10 DEF StopCommThreads, JoinCommThreads, LockBus
<1>11. CASE Teardown \/ Exit
  BY <1>0, <1>11 DEF Teardown, Exit
<1>12. CASE StoreCommand \/ WatchdogChecks \/ WatchdogEnds
  BY <1>0, <1>12 DEF StoreCommand, WatchdogChecks, WatchdogEnds
<1>13. CASE ReceiveCommand \/ WatchdogFires \/ Supervisor
  BY <1>0, <1>13 DEF ReceiveCommand, WatchdogFires, Supervisor
<1>14. CASE \E i \in Ifaces : CommStep(i)
  BY <1>0, <1>14, CommKeepsThreads
<1>15. CASE Down
  BY <1>0, <1>15 DEF Down, vars
<1> QED
  BY <1>0, <1>1, <1>2, <1>3, <1>4, <1>5, <1>6, <1>7, <1>8, <1>9, <1>10, <1>11, <1>12,
     <1>13, <1>14, <1>15
  DEF Next, Request, ExecStep

LEMMA ServiceKeepsThreads ==
  ASSUME OTypes, CalibratesOnlyInactive, ThreadInv, Service
  PROVE  ThreadInv'
<1> USE ConstantsAssumption
    DEF OTypes, NodeTypes, ServiceTypes, ThreadInv, CallsBack, ExecAgrees, CommAgrees,
        ServedInv, Served, Runs, Deactivating, DeactivateLocs, Threads, ServiceLocs,
        TransitionStates, CalibratesOnlyInactive, lifeVars, originVars, Goto, LockFor, Idle
<1>1. CASE AllPause \/ AllJoin \/ AllLock \/ AllFails
  BY <1>1 DEF AllPause, AllJoin, AllLock, AllFails
<1>2. CASE AllSucceeds
  BY <1>2 DEF AllSucceeds
<1>3. CASE AllEmergencyThrows
  BY <1>3 DEF AllEmergencyThrows
<1>4. CASE AllEmergencyOverruns
  BY <1>4 DEF AllEmergencyOverruns
<1>5. CASE AllGoesOn
  BY <1>5 DEF AllGoesOn, vars
<1>6. CASE OnePause
  BY <1>6 DEF OnePause
<1>7. CASE OneJoin \/ OneLock
  BY <1>7 DEF OneJoin, OneLock
<1>8. CASE OneSucceeds
  BY <1>8 DEF OneSucceeds
<1>9. CASE OneFails \/ OneEmergency
  BY <1>9 DEF OneFails, OneEmergency
<1> QED
  BY <1>1, <1>2, <1>3, <1>4, <1>5, <1>6, <1>7, <1>8, <1>9 DEF Service

\* Between two callbacks every interface of a configured node has its running
\* thread, also after a calibration that paused some of them or failed halfway.
THEOREM InterfacesAreServed == OSpec => []EveryInterfaceServed
<1>1. OTypes /\ CalibratesOnlyInactive /\ ThreadInv /\ [ONext]_ovars => ThreadInv'
  <2>1. ASSUME UNCHANGED ovars, ThreadInv PROVE ThreadInv'
    BY <2>1 DEF ovars, vars, originVars, ThreadInv, CallsBack, ExecAgrees, CommAgrees,
       ServedInv, Served, Runs, Deactivating
  <2> QED
    BY <2>1, NodeKeepsThreads, ServiceKeepsThreads DEF ONext
<1>2. ThreadInv => EveryInterfaceServed
  BY DEF ThreadInv, ServedInv, Served, Runs, EveryInterfaceServed, Idle, ServiceLocs
<1> QED
  BY <1>1, <1>2, ThreadInit, OTypesInvariant, CalibrationNeedsInactive, PTL DEF OSpec
=============================================================================
