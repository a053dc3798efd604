---------------------------- MODULE HistoryProofs ---------------------------
(***************************************************************************)
(* Proofs about the lifecycle node that relate a state to what happened    *)
(* before it: how long ACTIVE tolerates silence, what INACTIVE has to send *)
(* and in what state the process leaves the motors.  They use the          *)
(* inductive invariant of CubeMarsNodeProofs.                              *)
(***************************************************************************)
EXTENDS NodeHistory, CubeMarsNodeProofs

\* What a step of a communication thread may do to the rest of the node.
CommFrame ==
  /\ pc'[Exec] = pc[Exec] /\ ret'[Exec] = ret[Exec] /\ phase' = phase
  /\ msgReceived' = msgReceived \/ msgReceived' = FALSE
  /\ lifecycle' = lifecycle \/ lifecycle' \in {"deactivating", "inactive"}

LEMMA CommTouches ==
  ASSUME TypeInv, NEW i \in Ifaces, CommStep(i)
  PROVE  CommFrame
<1> USE ConstantsAssumption
    DEF TypeInv, TypeOK, CommFrame, Threads, lifeVars, cmdVars, busVars, commVars,
        Goto, GoBack, CallDeactivate, Return
<1>1. CASE LeaveLoop(i) \/ EnterCycle(i) \/ LoadCommand(i) \/ ConvertCommand(i)
             \/ AcquireBus(i)
  BY <1>1 DEF LeaveLoop, EnterCycle, LoadCommand, ConvertCommand, AcquireBus
<1>2. CASE SendAndReceive(i) \/ SendAndReceiveThrows(i) \/ DeviceFault(i)
             \/ StatusChecked(i)
  BY <1>2 DEF SendAndReceive, SendAndReceiveThrows, DeviceFault, StatusChecked
<1>3. CASE CountErrors(i) \/ FatalError(i) \/ WriteBack(i) \/ LimitViolated(i)
  BY <1>3 DEF CountErrors, FatalError, WriteBack, LimitViolated
<1>4. CASE Deactivate(i)
  BY <1>4 DEF Deactivate, TriggerDeactivate, StoreDamping, ResetWatchdog,
              FinishDeactivate
<1> QED
  BY <1>1, <1>2, <1>3, <1>4 DEF CommStep, Cycle

LEMMA HistoryIInv == HSpec => []IInv
<1>1. HInit => IInv
  BY InitIInv DEF HInit
<1>2. IInv /\ [Next /\ Watch]_hvars => IInv'
  BY TypeStep, DevicesStep, TransitionStep, WatchdogStep, QuietStep
  DEF IInv, hvars
<1> QED
  BY <1>1, <1>2, PTL DEF HSpec

-----------------------------------------------------------------------------
(* The silence of the watchdog                                              *)

\* After a callback without a message the flag is down, so the next one does
\* not get past deactivate() in ACTIVE.
SilenceInv ==
  /\ silentTicks \in 0 .. MaxTicks
  /\ silentTicks # 0 => msgReceived = FALSE
  /\ phase = "spinning" /\ lifecycle = "active" =>
       silentTicks \in 0 .. 1 /\ (pc[Exec] = "watchdog_end" => silentTicks = 0)
  /\ phase = "spinning" /\ lifecycle = "activating" /\ pc[Exec] = "finish" =>
       silentTicks = 0

LEMMA SilenceStep ==
  ASSUME IInv, SilenceInv, [Next /\ Watch]_hvars
  PROVE  SilenceInv'
<1> USE ConstantsAssumption
    DEF SilenceInv, MaxTicks, Threads, lifeVars, cmdVars, Goto, GoBack,
        CallDeactivate, Idle
<1>0. /\ pc \in [Threads -> ExecLocs \cup CommLocs \cup DeactivateLocs]
      /\ ret[Exec] # "finish"
      /\ msgReceived \in BOOLEAN
  BY DEF IInv, TypeInv, TypeOK
<1>1. CASE UNCHANGED hvars
  BY <1>1 DEF hvars, history, vars
<1> SUFFICES ASSUME Next, Watch PROVE SilenceInv'
  BY <1>1
<1>2. \/ silentTicks' \in {0, silentTicks}
      \/ /\ pc[Exec] = "watchdog_end" /\ pc'[Exec] = "idle"
         /\ silentTicks < MaxTicks /\ silentTicks' = silentTicks + 1
  BY DEF Watch, Moves
<1>3. CASE \E i \in Ifaces : CommStep(i)
  <2>1. CommFrame
    BY <1>3, CommTouches DEF IInv
  <2>2. silentTicks' \in {0, silentTicks}
    BY <2>1, <1>2 DEF CommFrame, Watch, Moves
  <2> QED
    BY <2>1, <2>2 DEF CommFrame
<1>4. CASE WatchdogEnds
  <2>1. msgReceived' = FALSE /\ UNCHANGED lifeVars /\ pc'[Exec] = "idle"
        /\ pc[Exec] = "watchdog_end"
    BY <1>0, <1>4 DEF WatchdogEnds
  <2>2. silentTicks' \in 0 .. MaxTicks
    BY <1>2
  <2>3. phase = "spinning" /\ lifecycle = "active" => silentTicks' \in 0 .. 1
    BY <1>2, <2>1
  <2> QED
    BY <2>1, <2>2, <2>3
<1>5. CASE ReceiveCommand
  <2>1. silentTicks' = 0
    BY <1>5 DEF Watch
  <2> QED
    BY <2>1
<1>6. CASE OnActivate
  BY <1>0, <1>2, <1>6 DEF OnActivate, Watch, Moves
<1>7. CASE Deactivate(Exec)
  BY <1>0, <1>2, <1>7 DEF Deactivate, TriggerDeactivate, StoreDamping,
     ResetWatchdog, FinishDeactivate
<1>8. CASE FinishTransition
  BY <1>0, <1>2, <1>8 DEF FinishTransition, Target
<1>9. CASE Request
  BY <1>0, <1>2, <1>9 DEF Request, RequestConfigure, RequestActivate,
     RequestDeactivate, RequestCleanup, RequestShutdown, Interrupt, EnterShutdown
<1>10. CASE ConfigureSucceeds \/ ConfigureRejected \/ ConfigureErrors \/ OnError
  <2>1. phase = "spinning" => lifecycle \in {"configuring", "errorprocessing"}
    BY <1>10 DEF IInv, TransitionInv, ExecAgrees, ConfigureSucceeds,
                 ConfigureRejected, ConfigureErrors, OnError
  <2> QED
    BY <1>0, <1>2, <1>10, <2>1
    DEF ConfigureSucceeds, ConfigureRejected, ConfigureErrors, OnError
<1>11. CASE TriggerCleanup \/ StopCommThreads \/ JoinCommThreads \/ LockBus
  BY <1>0, <1>2, <1>11 DEF TriggerCleanup, StopCommThreads, JoinCommThreads, LockBus
<1>12. CASE Teardown
  <2>1. phase = "spinning" => lifecycle \in {"cleaningup", "shuttingdown"}
    BY <1>12 DEF IInv, TransitionInv, ExecAgrees, Teardown
  <2> QED
    BY <1>0, <1>2, <1>12, <2>1 DEF Teardown
<1>13. CASE Exit
  BY <1>0, <1>2, <1>13 DEF Exit
<1>14. CASE StoreCommand \/ WatchdogFires \/ Supervisor
  BY <1>0, <1>2, <1>14 DEF StoreCommand, WatchdogFires, Supervisor
<1>15. CASE WatchdogChecks
  BY <1>0, <1>2, <1>15 DEF WatchdogChecks
<1>16. CASE Down
  BY <1>2, <1>16 DEF Down, vars
<1> QED
  BY <1>3, <1>4, <1>5, <1>6, <1>7, <1>8, <1>9, <1>10, <1>11, <1>12, <1>13, <1>14,
     <1>15, <1>16
  DEF Next, ExecStep

\* Two watchdog callbacks without a message never find the node ACTIVE,
\* however the activations and the communication threads interleave.
THEOREM SilenceIsBounded == HSpec => []SilenceBounded
<1>1. HInit => SilenceInv
  BY DEF HInit, Init, SilenceInv, MaxTicks
<1>2. IInv /\ SilenceInv /\ [Next /\ Watch]_hvars => SilenceInv'
  BY SilenceStep
<1>3. SilenceInv => SilenceBounded
  BY DEF SilenceInv, SilenceBounded
<1> QED
  BY <1>1, <1>2, <1>3, HistoryIInv, PTL DEF HSpec

-----------------------------------------------------------------------------
(* The command of INACTIVE                                                  *)

\* Zeros or damping on every way into INACTIVE.
CommandInv ==
  phase = "spinning" /\ ~overtaken =>
    /\ lifecycle = "inactive" => cmd \in {"zero", "damping"}
    /\ lifecycle = "activating" /\ pc[Exec] = "activating" =>
         cmd \in {"zero", "damping"}
    /\ lifecycle = "configuring" /\ pc[Exec] = "finish" =>
         cmd \in {"zero", "damping"}
    /\ lifecycle = "deactivating" /\ (\E t \in Threads : pc[t] \in {"d_reset", "d_finish"}) =>
         cmd \in {"zero", "damping"}

\* deactivate() of any thread, while the executor may be storing a message.
LEMMA DeactivateKeepsCommand ==
  ASSUME IInv, CommandInv, NEW t \in Threads, Deactivate(t), overtaken => overtaken'
  PROVE  CommandInv'
<1> USE ConstantsAssumption
    DEF CommandInv, Threads, lifeVars, cmdVars, Goto, GoBack
<1>1. /\ pc \in [Threads -> ExecLocs \cup CommLocs \cup DeactivateLocs]
      /\ ret[t] \notin {"d_reset", "d_finish", "activating", "finish"}
  BY DEF IInv, TypeInv, TypeOK
<1>2. CASE TriggerDeactivate(t)
  <2>1. phase = "spinning" /\ lifecycle = "active" =>
          \A s \in Threads : pc[s] \notin {"d_reset", "d_finish"}
    BY DEF IInv, TransitionInv, OneTransition, InTransition, TransitionStates
  <2> QED
    BY <1>1, <1>2, <2>1 DEF TriggerDeactivate
<1>3. CASE StoreDamping(t)
  BY <1>1, <1>3 DEF StoreDamping
<1>4. CASE ResetWatchdog(t)
  BY <1>1, <1>4 DEF ResetWatchdog
<1>5. CASE FinishDeactivate(t)
  <2>1. phase = "spinning" => lifecycle = "deactivating"
    BY <1>5 DEF FinishDeactivate, IInv, TransitionInv, ExecAgrees, TypeInv, LocsOK, BackLocs
  <2> QED
    BY <1>1, <1>5, <2>1 DEF FinishDeactivate
<1> QED
  BY <1>2, <1>3, <1>4, <1>5 DEF Deactivate

\* The other steps of a communication thread leave the command and the state.
LEMMA CycleKeepsCommand ==
  ASSUME TypeInv, NEW i \in Ifaces, LeaveLoop(i) \/ Cycle(i)
  PROVE  /\ UNCHANGED <<phase, lifecycle, cmd>> /\ pc'[Exec] = pc[Exec]
         /\ \A t \in Threads : pc'[t] \in {"d_reset", "d_finish"} => pc'[t] = pc[t]
<1> USE ConstantsAssumption
    DEF TypeInv, TypeOK, Threads, lifeVars, cmdVars, Goto, CallDeactivate, Return
<1>1. CASE LeaveLoop(i) \/ EnterCycle(i) \/ LoadCommand(i) \/ ConvertCommand(i)
             \/ AcquireBus(i)
  BY <1>1 DEF LeaveLoop, EnterCycle, LoadCommand, ConvertCommand, AcquireBus
<1>2. CASE SendAndReceive(i) \/ SendAndReceiveThrows(i) \/ DeviceFault(i)
             \/ StatusChecked(i)
  BY <1>2 DEF SendAndReceive, SendAndReceiveThrows, DeviceFault, StatusChecked
<1>3. CASE CountErrors(i) \/ FatalError(i) \/ WriteBack(i) \/ LimitViolated(i)
  BY <1>3 DEF CountErrors, FatalError, WriteBack, LimitViolated
<1> QED
  BY <1>1, <1>2, <1>3 DEF Cycle

LEMMA CommandStep ==
  ASSUME IInv, CommandInv, [Next /\ Watch]_hvars
  PROVE  CommandInv'
<1>1. CASE UNCHANGED hvars
  BY <1>1 DEF hvars, history, vars, CommandInv
<1> SUFFICES ASSUME Next, Watch PROVE CommandInv'
  BY <1>1
<1> USE ConstantsAssumption
    DEF CommandInv, Threads, lifeVars, cmdVars, Goto, CallDeactivate, Idle
<1>0. pc \in [Threads -> ExecLocs \cup CommLocs \cup DeactivateLocs]
  BY DEF IInv, TypeInv, TypeOK
<1>2. CASE ~Moves(Exec, {"configuring", "activating"}, {"finish"})
  <2>0. (overtaken => overtaken') /\ (StoreCommand /\ lifecycle # "active" => overtaken')
    BY <1>2 DEF Watch
  <2>1. CASE \E i \in Ifaces : CommStep(i)
    BY <2>0, <2>1, DeactivateKeepsCommand, CycleKeepsCommand DEF CommStep, IInv
  <2>2. CASE Request
    <3>1. CASE RequestShutdown \/ Interrupt
      BY <1>0, <2>0, <3>1 DEF RequestShutdown, Interrupt, EnterShutdown
    <3>2. CASE RequestConfigure \/ RequestActivate \/ RequestDeactivate \/ RequestCleanup
      BY <1>0, <2>0, <3>2
      DEF RequestConfigure, RequestActivate, RequestDeactivate, RequestCleanup
    <3> QED
      BY <2>2, <3>1, <3>2 DEF Request
  <2>3. CASE ConfigureSucceeds \/ OnError
    BY <1>0, <1>2, <2>0, <2>3
    DEF ConfigureSucceeds, OnError, Moves, IInv, TransitionInv, ExecAgrees
  <2>4. CASE ConfigureRejected \/ ConfigureErrors
    BY <1>0, <2>0, <2>4 DEF ConfigureRejected, ConfigureErrors
  <2>5. CASE OnActivate
    BY <1>0, <1>2, <2>0, <2>5 DEF OnActivate, Moves, IInv, TransitionInv, ExecAgrees
  <2>6. CASE FinishTransition
    <3>1. phase = "spinning" => lifecycle # "deactivating"
      BY <2>6 DEF FinishTransition, IInv, TransitionInv, ExecAgrees
    <3> QED
      BY <1>0, <2>0, <2>6, <3>1 DEF FinishTransition, Target
  <2>7. CASE Deactivate(Exec)
    BY <2>0, <2>7, DeactivateKeepsCommand
  <2>8. CASE TriggerCleanup \/ StopCommThreads \/ JoinCommThreads \/ LockBus
    BY <1>0, <2>0, <2>8
    DEF TriggerCleanup, StopCommThreads, JoinCommThreads, LockBus, busVars
  <2>9. CASE Teardown
    BY <1>0, <2>9 DEF Teardown, IInv, TransitionInv, ExecAgrees
  <2>10. CASE Exit \/ Down
    BY <2>10 DEF Exit, Down, vars
  <2>11. CASE StoreCommand
    BY <1>0, <2>0, <2>11 DEF StoreCommand
  <2>12. CASE WatchdogChecks \/ WatchdogEnds \/ ReceiveCommand \/ WatchdogFires
               \/ Supervisor
    BY <1>0, <2>0, <2>12
    DEF WatchdogChecks, WatchdogEnds, ReceiveCommand, WatchdogFires, Supervisor
  <2> QED
    BY <2>1, <2>2, <2>3, <2>4, <2>5, <2>6, <2>7, <2>8, <2>9, <2>10, <2>11, <2>12
    DEF Next, ExecStep
<1>3. CASE Moves(Exec, {"configuring", "activating"}, {"finish"})
  <2>1. ConfigureSucceeds \/ OnActivate
    <3>1. pc[Exec] \in {"configuring", "activating"} /\ pc'[Exec] = "finish"
      BY <1>3 DEF Moves
    <3>2. ~ \E i \in Ifaces : CommStep(i)
      BY <3>1, CommTouches DEF IInv, CommFrame
    <3>3. ~Request /\ ~ReceiveCommand /\ ~WatchdogFires /\ ~Supervisor
      BY <3>1 DEF Request, RequestConfigure, RequestActivate, RequestDeactivate,
                  RequestCleanup, RequestShutdown, Interrupt, ReceiveCommand,
                  WatchdogFires, Supervisor
    <3>4. ~Down /\ ~Deactivate(Exec)
      BY <3>1 DEF Down, vars, Deactivate, TriggerDeactivate, StoreDamping,
                  ResetWatchdog, FinishDeactivate
    <3>5. ConfigureSucceeds \/ OnActivate \/ ConfigureRejected \/ ConfigureErrors
      BY <3>1, <3>2, <3>3, <3>4
      DEF Next, ExecStep, OnError, FinishTransition, TriggerCleanup, StopCommThreads,
          JoinCommThreads, LockBus, Teardown, Exit, StoreCommand, WatchdogChecks,
          WatchdogEnds
    <3> QED
      BY <1>0, <3>1, <3>5 DEF ConfigureRejected, ConfigureErrors
  <2>2. CASE ConfigureSucceeds
    BY <1>0, <2>2 DEF ConfigureSucceeds, IInv, TransitionInv, ExecAgrees
  <2>3. CASE OnActivate
    <3>1. /\ phase = "spinning" => lifecycle = "activating"
          /\ pc[Exec] = "activating" /\ pc'[Exec] = "finish" /\ UNCHANGED lifeVars
      BY <1>0, <1>3, <2>3 DEF OnActivate, Moves, IInv, TransitionInv, ExecAgrees
    <3> QED
      BY <3>1
  <2> QED
    BY <2>1, <2>2, <2>3
<1> QED
  BY <1>2, <1>3

\* In INACTIVE the motors get zeros or damping, unless a message was stored
\* after the state had left ACTIVE.
THEOREM InactiveCommandStaysSafe == HSpec => []InactiveCommandIsSafe
<1>1. HInit => CommandInv
  BY DEF HInit, Init, CommandInv
<1>2. IInv /\ CommandInv /\ [Next /\ Watch]_hvars => CommandInv'
  BY CommandStep
<1>3. CommandInv => InactiveCommandIsSafe
  BY DEF CommandInv, InactiveCommandIsSafe
<1> QED
  BY <1>1, <1>2, <1>3, HistoryIInv, PTL DEF HSpec

-----------------------------------------------------------------------------
(* The end of the process                                                   *)

MotorsOff == \A i \in Ifaces \ Flaky : motor[i] = "off"

AllJoined == \A i \in Ifaces : pc[i] = "none"

\* The ways of on_shutdown() after Ctrl-C, except in a deactivate(): through
\* the damping, through the cleanup, or past both with nothing running.
ExitInv ==
  /\ phase = "spinning" => pc[Exec] # "exit"
  /\ phase = "down" => pc[Exec] = "gone"
  /\ phase # "spinning" /\ endedFrom # "deactivating" =>
       \/ pc[Exec] \in {"d_store", "d_reset"} /\ ret[Exec] = "stop"
       \/ pc[Exec] \in {"stop", "join", "lock", "teardown"}
       \/ pc[Exec] \in {"exit", "gone"} /\ AllJoined /\ MotorsOff

\* A communication thread that is gone does nothing any more.
LEMMA CommHasNotEnded ==
  ASSUME NEW i \in Ifaces, CommStep(i)
  PROVE  pc[i] # "none"
BY DEF CommStep, Cycle, LeaveLoop, EnterCycle, LoadCommand, ConvertCommand,
       AcquireBus, SendAndReceive, SendAndReceiveThrows, DeviceFault, StatusChecked,
       CountErrors, FatalError, WriteBack, LimitViolated, Deactivate,
       TriggerDeactivate, StoreDamping, ResetWatchdog, FinishDeactivate

\* Ctrl-C between two callbacks, with no deactivate() under way.
LEMMA InterruptFindsQuiet ==
  ASSUME IInv, Idle, lifecycle \notin {"active", "inactive", "deactivating"}
  PROVE  AllJoined /\ MotorsOff
<1>1. \A t \in Threads : ~InTransition(t)
  <2>1. ~InTransition(Exec)
    BY DEF Idle, InTransition
  <2>2. \A i \in Ifaces : ~InTransition(i)
    BY DEF Idle, IInv, TransitionInv, ExecAgrees, InTransition, TypeInv, LocsOK,
           CommLocs, DeactivateLocs
  <2> QED
    BY <2>1, <2>2 DEF Threads
<1>2. lifecycle \in {"unconfigured", "finalized"}
  BY <1>1 DEF Idle, IInv, TransitionInv, OneTransition, TypeInv, TypeOK,
              PrimaryStates
<1>3. ~open
  BY <1>2 DEF Idle, IInv, QuietInv
<1> QED
  BY <1>3 DEF IInv, QuietInv, DevicesInv, AllJoined, MotorsOff

LEMMA ExitStep ==
  ASSUME IInv, ExitInv, [Next /\ Watch]_hvars
  PROVE  ExitInv'
<1>1. CASE UNCHANGED hvars
  BY <1>1 DEF hvars, history, vars, ExitInv, AllJoined, MotorsOff
<1> SUFFICES ASSUME Next, Watch PROVE ExitInv'
  BY <1>1
<1> USE ConstantsAssumption DEF ExitInv, Threads, lifeVars, cmdVars, busVars, Goto
<1>0. /\ pc \in [Threads -> ExecLocs \cup CommLocs \cup DeactivateLocs]
      /\ ret \in [Threads -> {"none", "idle", "watchdog_end", "stop", "status", "loop"}]
      /\ phase \in {"spinning", "exiting", "down"}
  BY DEF IInv, TypeInv, TypeOK
<1>2. CASE phase = "spinning"
  <2>1. CASE Interrupt
    <3>1. phase' = "exiting" /\ endedFrom' = lifecycle /\ UNCHANGED motor
      BY <2>1, <1>2 DEF Interrupt, EnterShutdown, Watch
    <3>2. CASE lifecycle = "active"
      BY <1>0, <2>1, <3>1, <3>2 DEF Interrupt, EnterShutdown
    <3>3. CASE lifecycle = "inactive"
      BY <1>0, <2>1, <3>1, <3>3 DEF Interrupt, EnterShutdown
    <3>4. CASE lifecycle \notin {"active", "inactive", "deactivating"}
      <4>1. AllJoined /\ MotorsOff
        BY <2>1, <3>4, InterruptFindsQuiet DEF Interrupt
      <4>2. pc'[Exec] = "exit" /\ \A i \in Ifaces : pc'[i] = pc[i]
        BY <1>0, <2>1, <3>4 DEF Interrupt, EnterShutdown
      <4> QED
        BY <3>1, <4>1, <4>2 DEF AllJoined, MotorsOff
    <3>5. CASE lifecycle = "deactivating"
      BY <3>1, <3>5
    <3> QED
      BY <3>2, <3>3, <3>4, <3>5
  <2>2. CASE ~Interrupt /\ ~Exit
    <3>1. phase' = "spinning" /\ pc'[Exec] # "exit"
      <4>1. CASE \E i \in Ifaces : CommStep(i)
        BY <1>2, <4>1, CommTouches DEF IInv, CommFrame
      <4>2. CASE Request
        BY <1>0, <1>2, <2>2, <4>2
        DEF Request, RequestConfigure, RequestActivate, RequestDeactivate,
            RequestCleanup, RequestShutdown, EnterShutdown, CallDeactivate
      <4>3. CASE ExecStep
        BY <1>0, <1>2, <2>2, <4>3
        DEF ExecStep, ConfigureSucceeds, ConfigureRejected, ConfigureErrors, OnError,
            OnActivate, FinishTransition, Deactivate, TriggerDeactivate,
            StoreDamping, ResetWatchdog, FinishDeactivate, TriggerCleanup,
            StopCommThreads, JoinCommThreads, LockBus, Teardown, StoreCommand,
            WatchdogChecks, WatchdogEnds, GoBack, CallDeactivate
      <4>4. CASE ReceiveCommand \/ WatchdogFires \/ Supervisor \/ Down
        BY <1>0, <1>2, <4>4 DEF ReceiveCommand, WatchdogFires, Supervisor, Down
      <4> QED
        BY <4>1, <4>2, <4>3, <4>4 DEF Next
    <3> QED
      BY <3>1
  <2>3. ~Exit
    BY <1>2 DEF Exit
  <2> QED
    BY <2>1, <2>2, <2>3
<1>3. CASE phase # "spinning"
  <2>0. endedFrom' = endedFrom
    BY <1>3 DEF Watch
  <2>1. ~Request /\ ~ReceiveCommand /\ ~WatchdogFires /\ ~Supervisor
    BY <1>3 DEF Request, RequestConfigure, RequestActivate, RequestDeactivate,
                RequestCleanup, RequestShutdown, Interrupt, ReceiveCommand,
                WatchdogFires, Supervisor, Idle
  <2>2. CASE \E i \in Ifaces : CommStep(i)
    <3>1. CommFrame /\ ~AllJoined
      BY <2>2, CommTouches, CommHasNotEnded DEF IInv, AllJoined
    <3> QED
      BY <1>3, <2>0, <3>1 DEF CommFrame
  <2>3. CASE Deactivate(Exec)
    BY <1>0, <1>3, <2>0, <2>3
    DEF Deactivate, TriggerDeactivate, StoreDamping, ResetWatchdog,
        FinishDeactivate, GoBack
  <2>4. CASE StopCommThreads \/ JoinCommThreads \/ LockBus
    BY <1>0, <1>3, <2>0, <2>4 DEF StopCommThreads, JoinCommThreads, LockBus
  <2>5. CASE Teardown
    <3>1. pc'[Exec] = "exit" /\ phase' = "exiting"
      BY <1>0, <1>3, <2>5 DEF Teardown
    <3>2. AllJoined'
      BY <1>0, <2>5 DEF Teardown, AllJoined, IInv, DevicesInv
    <3>3. MotorsOff'
      BY <2>5 DEF Teardown, MotorsOff
    <3> QED
      BY <3>1, <3>2, <3>3
  <2>6. CASE Exit
    <3>1. pc'[Exec] = "gone" /\ UNCHANGED motor /\ AllJoined'
      BY <2>6 DEF Exit, AllJoined
    <3> QED
      BY <1>3, <2>0, <2>6, <3>1 DEF Exit, MotorsOff
  <2>7. CASE Down
    BY <2>0, <2>7 DEF Down, vars, AllJoined, MotorsOff
  <2>8. CASE ConfigureSucceeds \/ ConfigureRejected \/ ConfigureErrors \/ OnError
               \/ OnActivate \/ FinishTransition \/ TriggerCleanup \/ StoreCommand
               \/ WatchdogChecks \/ WatchdogEnds
    BY <1>0, <1>3, <2>0, <2>8
    DEF ConfigureSucceeds, ConfigureRejected, ConfigureErrors, OnError, OnActivate,
        FinishTransition, TriggerCleanup, StoreCommand, WatchdogChecks,
        WatchdogEnds, CallDeactivate
  <2> QED
    BY <2>1, <2>2, <2>3, <2>4, <2>5, <2>6, <2>7, <2>8 DEF Next, ExecStep
<1> QED
  BY <1>2, <1>3

\* When the process is gone every motor that can be reached is off, unless
\* Ctrl-C fell into a deactivate() of a communication thread.
THEOREM ExitLeavesMotorsOff == HSpec => []ExitDisablesMotors
<1>1. HInit => ExitInv
  BY ConstantsAssumption DEF HInit, Init, ExitInv, Threads
<1>2. IInv /\ ExitInv /\ [Next /\ Watch]_hvars => ExitInv'
  BY ExitStep
<1>3. ExitInv => ExitDisablesMotors
  BY DEF ExitInv, ExitDisablesMotors, MotorsOff
<1> QED
  BY <1>1, <1>2, <1>3, HistoryIInv, PTL DEF HSpec
=============================================================================
