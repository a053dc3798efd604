# TLA+ model of the CubeMars driver node

This directory holds a model of `cubemars_driver_node`, a ROS 2 lifecycle node
that drives CubeMars motors over several CAN interfaces. `*.tla` are the
modules, `MC*.tla` give them model values, `*.cfg` are the TLC runs, and the
`*Proofs.tla` modules are checked by TLAPS. `PROJECT.json` is the index: which
run checks what, which line of the source each definition stands for, and which
hazards of the code each property is for.

## 1. The system

| component | state it keeps | operations | talks to |
|---|---|---|---|
| **lifecycle node** (`cubemars_hardware_node.cpp`) | lifecycle state, `msg_received_`, `watchdog_timer_`, `cleanup_requested_`, `joint_cmd_ptr_`, the vectors made by `on_configure` | `on_configure`, `on_activate`, `on_deactivate`, `on_cleanup`, `on_shutdown`, `on_error`, watchdog, supervisor, `joint_commands` subscription, `main()` | starts and joins the communication threads; services and timers come from the executor |
| **communication threads** (same file) | `CommThread::running`, `num_can_errors_per_interfaces_`, the interface's command and state vectors | `comm_loop`, `can_cycle_callback` | read the lifecycle state and the command, call `deactivate()` themselves, set `cleanup_requested_` |
| **CAN device** (`cubemars_can.cpp`) | the socket and its receive queue, per joint status and time stamps | constructor (trials), `send_and_receive`, `start_motor_control_mode`, `end_motor_control_mode`, `collect_tx_timestamps` | one thread at a time, under `can_communication_mutex_` |
| **calibration services** | `running` of the paused threads, the answer | `set_all_motors_origin_here`, `set_motor_origin_here` | pause threads, lock the bus, call `cleanup()` after a failure |
| **runtime parameters** | `joint_parameters_`, filters, `WritePreferringSharedMutex` | `on_set_parameters_callback` | excludes the cycles |
| **joint states** | `joint_state_msg_`, RX time stamps, diagnostics | write back of a cycle, `joint_state_publish_callback` | `joint_state_msg_mutex_` |
| **filters** (`filters.hpp`) | windows, alpha-beta state | `update`, `resize` | the cycle |
| **ros2_control plugin** (`cubemars_hardware_interface.cpp`) | command modes and values, its own socket | `on_init` ... `on_deactivate`, `read`, `write`, mode switches | independent of the node |
| test tool, configuration, packaging | - | - | - |

What is hard about it:

* **Interleaving.** The node's callbacks are in one mutually exclusive callback
  group, so they never overlap each other, but every communication thread runs
  beside them and may call `deactivate()`, and with it `on_deactivate`, at any
  time, also while the executor is in the middle of something else.
* **Teardown.** `on_cleanup` joins threads that may be inside `deactivate()`,
  takes a mutex the cycles share, and deletes the devices they use.
* **Failure.** Buses fail partly (single joints) or wholly (an exception), also
  during configuration, calibration and cleanup. After Ctrl-C `main()` calls
  `on_shutdown()` itself.
* **Ordering.** A message, the watchdog, a fault and a request of the user race
  for the lifecycle state and for the latest command.

What makes each component correct: transitions do not overlap; devices outlive
their users; ACTIVE is watched and ends in silence or on a bad bus; INACTIVE
sends zeros or damping; UNCONFIGURED is quiet and its motors are off; a
calibration has the bus for itself and resumes what it paused; a cycle's status
tells what was read, and every loop over the bus ends; a parameter update is
applied wholly or not at all; no published value is older than its stamp; a
window's output is the median or the mean of the last samples; the plugin leaves
no motor enabled, no reply unread and no joint in the mode or with the torque of
a controller that is gone.

## 2. The modules

* `CubeMarsNode` - the lifecycle node with its communication threads.
* `MotorLifecycle` - the abstract specification: the promise about the motors,
  sequential, without threads.
* `NodeRefinement` - the refinement mapping from the first to the second.
* `NodeHistory` - `CubeMarsNode` with history variables (a message was heard,
  watchdog ticks in silence, a message overtaken by a deactivation, the state
  Ctrl-C found). They only watch.
* `OriginService` - composes `CubeMarsNode` with the two calibration services.
* `CanExchange` - one CAN device with its motors and its socket's queue. It
  stands below `CubeMarsNode`, whose `SendAndReceive` and `Teardown` keep of it
  only what reached the motors and how many joints failed.
* `JointData` - what the cycles do with their data: samples, filters and scaling,
  write back, stamps; publishing; parameter updates; pauses by a calibration.
* `ParameterRegister` - the abstract specification of a parameter update: one
  step between the cycles. `JointData` implements it.
* `Filters` - the median and the moving average of `filters.hpp`.
* `HardwareInterface` - the ros2_control plugin with its motors, below the two
  threads of a controller manager.
* `Codec` - the fixed-point numbers and the frames of the node and the plugin,
  as plain operators.
* `CubeMarsNodeProofs`, `HistoryProofs`, `NodeRefinementProofs`, `OriginProofs`,
  `ExchangeProofs`, `JointDataProofs`, `HardwareProofs`, `FiltersProofs` -
  theorems.
* `MCNode`, `MCHistory`, `MCOrigin`, `MCJointData`, `MCFilters`, `MCHardware` -
  model values for TLC.

### State and code

| variable | code |
|---|---|
| `lifecycle` | `get_current_state()`, with the transition states of rclcpp_lifecycle |
| `phase` | `main()`: in `spin()`, in `on_shutdown()` after it, gone |
| `pc[t]`, `ret[t]` | where a thread is; where `deactivate()` returns to |
| `running[i]` | `CommThread::running` |
| `cmd` | `joint_cmd_ptr_`: null, the zeros of `on_configure`, damping, or a message |
| `msgReceived`, `watchdog`, `cleanupRequested` | `msg_received_`, `watchdog_timer_`, `cleanup_requested_` |
| `open`, `busLocked` | `can_interfaces_` holds devices; `can_communication_mutex_` held exclusively |
| `frame[i]`, `bad[i]`, `errors[i]` | the commands this cycle sends, its failed joints, `num_can_errors_per_interfaces_` |
| `motor[i]` | what the interface's motors execute, `"off"` when disabled |

One thread, `Exec`, stands for the executor and for `main()`, which only acts
after `spin()` has returned. An action is what a thread does between two
accesses to something another thread can change, so `on_deactivate` is two
actions (the command is published; the timer and the flag are reset), while
`on_activate` is one. `change_state()` of rclcpp_lifecycle checks and enters the
transition state in one step, runs the callback in the calling thread and then
leaves it; a request that does not fit the state has no effect.

In `CanExchange` the user of the device (`task`) runs a `plan` of motor control
operations or one cycle; each write and each read of a frame is an action, and
between them replies arrive or are lost. `inbox` is the socket's receive queue,
`wire[j]` what motor `j` has sent and has not arrived, `frame`, `waiting`,
`trial` and `longTimeout` are where `start_motor_control_mode` is, `next`,
`errSkips`, `sendOk`, `status` the variables of `send_and_receive`. A reply
carries its sender and whether it answers this cycle's command; `sample` and
`before` only record. A read may fail at any time (timeout, interface down).
Two assumptions about the bus: a motor's replies keep their order, and none is
so late that it reaches the socket of the next configuration.

A control frame's reply is told from other frames by one byte: for a V2 motor the
first byte of whatever was read (`cubemars_can.cpp:202`), for a V3 motor the lowest
byte of the identifier (`cubemars_can.hpp:137`). A V3 motor's reply has the high
byte of the position first, and in a report of a bus error both bytes say what went
wrong, so either may pass for a V2 motor's reply, and the report also for a V3
motor's: `MayPassFor`. A V2 motor's reply never passes for another motor's, since
its first byte is its own id and its identifier (that id or 0) is no V3 motor's. `Foreign`
stands for the frames of anybody else, which the filter (exact in its identifiers)
lets through only on the identifiers of V2 replies; that they carry no joint's id
in the first byte is an assumption about the bus. `mistaken` records the V2 motors
for whose reply another frame was taken.

In `JointData` a value is the time at which it was sampled and how often it was
scaled since; of the parameters it keeps the position limits, the only fields
whose validation relates two of them and that the plain cycle compares with.
`limits` changes field by field (`ApplyField`), as the code assigns; a cycle is
`EnterCycle` (joint_params_mutex_ shared), `Exchange`, `Process`,
`BeginWriteBack` (joint_state_msg_mutex_ shared), `WriteBack`. The executor is
publishing, updating or calibrating, one at a time, because its callbacks are in
one callback group. The model starts configured and does not unconfigure. `on_configure` does not
compare the two limits of a joint and an update checks only the joints of its batch
(`InOrder`), so limits that were swapped in the configuration stay swapped until an
update names them. The stamps come from `CLOCK_REALTIME`; the model's clock never
steps back, so what is said of them does not hold across a correction of the
system's time.

`Filters` has one window; the parameter callback and the cycles exclude each
other by `joint_params_mutex_`, so updates and resizes are whole actions.
`cap` is `size_` or `buffersize_`, which the moving average does not lower when
it shrinks. `recent` and `since` only record. Samples are integers, so that the
sum has no rounding error.

In `HardwareInterface` the manager's real-time loop runs `Update` of the
controllers and then `write()`, frame by frame (`SendCommand`, `ReadReply`);
its service thread runs `prepare_command_mode_switch` beside it, joint by joint
(`ResetJoint`, `AssignMode`), and the real-time loop performs the switch. The
other methods do not overlap anything. A frame is really packed and read
(`Codec`), with an effort of the controller and constants for the rest;
`executes` keeps the effort asked for and the sign the motor reads. `on_configure`
sets each command to its interface's `initial_value` (`Initial`, 0 where there is
none); `untouched` are the joints that still have such an effort. The filter
compares 11 bits of the identifier only, so frames of other devices reach the
socket (`ForeignFrame`): a control frame takes one for a wrong reply and fails, but
for `write()` it counts as a read (`ReadUnknown`), because `unpack_reply` reports
no fault for a device it does not know, and a joint's reply stays in the socket.
`displaced` counts these. A method
that returns ERROR ends in FINALIZED, because the default `on_error` fails.

What is abstracted: all joints of an interface carry one command; a
configuration succeeds, is rejected (FAILURE) or fails (ERROR); which joints of
a cycle fail is a number; an interface outside `Flaky` never fails. Rejected
requests of the outside and messages of the wrong length change nothing and are
no actions.

Undefined behaviour is a choice: `msg_received_` starts with either value; the
mutex that `set_all_motors_origin_here` unlocks twice may or may not be broken
afterwards; the loop that runs past the last interface ends the process.

## 3. The runs

| run | checks | states |
|---|---|---|
| `node_safety` | type invariant, the safety invariants of the node and the refinement of `MotorLifecycle`, two interfaces | 2.8 M |
| `node_liveness` | liveness under `FairSpec`, one interface that may fail, `MaxErrors = 2` | 38 k |
| `origin_safety` | the calibration services next to the node, two interfaces | 2.9 M |
| `exchange` | safety and liveness of one CAN device, a V2 and a V3 motor | 845 k |
| `joint_data` | stamps, atomic updates, the refinement of `ParameterRegister` and its liveness, three joints on two interfaces | 2.0 M |
| `filters` | both windows, up to four samples | 42 k |
| `plugin` | the ros2_control plugin, two motors, four controllers, frames of another device | 9.6 M |
| `inactive`, `origin_devices`, `exchange_fresh`, `codec_max`, `rescaled` | one statement of the documentation each, which the code does not keep | - |

**Bounds.** `can0` may fail and `can1` does not, because the questions are what
a bad bus does to a good one and what is promised for motors that can be
reached. Two communication threads and the executor are enough for every
pairwise race, and two threads that deactivate at once while the executor acts.
`NumJoints = 1` per interface. `MaxErrors = 2` of `node_liveness` lets the count
rise over several cycles and reset; the runs that do not depend on counting use
`MaxErrors = 1`, where every failed cycle is one too many.
`MaxTicks = 2` of `NodeHistory` bounds the counter of silent ticks above what
`SilenceBounded` tells apart. `exchange` has two joints, so that a reply can be
read in the place of another's, one motor of each series, because only V3
motors get trials and leave replies behind; two trials and two error frames
(16 in the code) make the last one and the one before differ. `MaxInbox = 2`
and `MaxLate = 1` hold four unread replies, twice what a cycle reads; what does
not fit is lost, as in the kernel.

`joint_data` has an interface with two joints, so that one can answer and the
other not, and one with a single joint; `MaxTime = 2` gives every joint an older
and a newer sample, and a clock that has stopped at its bound only makes stamps
equal that would be ordered. One joint is tuned with two values per limit, so
that a batch of two fields is valid only as a whole; another one, which nobody
tunes, was configured with its limits swapped. `MaxScaled` is 0 where
scaling does not matter and 2 in `rescaled`. `filters` has windows of 0 to 4
samples, among them 3, for which the unsigned index arithmetic goes wrong, and
three values, which orders any window; `since` counts to `Settled`, two full
windows. In `plugin` the second motor is inverted, has the higher CAN id and a
name that contains the first one's; a controller commands a joint's effort, one
commands position and effort of the other joint, one only velocity, and one
claims an interface the plugin does not know; the second motor has an initial
effort beyond its limits. `MaxUnread = 2` replies per motor, twice what a call
should leave; `MaxForeign = 1` frame of another device, waiting or taken for a
reply, is enough to displace one for good. `CodecAssumption` of `MCHardware` evaluates the
node's codec on the corners and middles of all ranges for V2 and V3: no field
spills into another (`NodeFramesReachMotors` proves it for all commands).
`Codec` joins two shifted fields arithmetically (`Joined`), because the provers
know no bitwise operators; `JoinedAssumption` compares it with the `|` of the
code on every pair that occurs.

**Safety** (`node_safety`). `OneTransition`, `NoUseAfterFree`, `WatchdogArmed`
and `UnconfiguredIsQuiet` are described at their definitions. `SilenceBounded`:
ACTIVE survives one whole watchdog period without a message and never two.
`InactiveCommandIsSafe`: INACTIVE has zeros or damping to send, unless a message
was overtaken (see findings). `ExitDisablesMotors`: after Ctrl-C every reachable
motor is off, unless the signal fell into a `deactivate()` of a communication
thread: `on_shutdown` then sees DEACTIVATING, for which it does nothing.

**Liveness** (`node_liveness`). Weak fairness of each communication thread
(`recv` returns at the latest with the socket's timeout, the threads are
scheduled with real-time priority) and of the executor's started callback;
strong fairness of taking the watchdog's and the supervisor's timer, because
the executor collects ready timers before anything else, so services and
messages cannot keep a due timer waiting forever. No fairness of requests or
messages. `CleanupTerminates` and `InterruptEndsProcess`: joining threads that
deactivate or send never hangs. `SilenceLeavesActive`, `BadBusLeavesActive`,
`BadBusUnconfigures`: the driver reacts, where the second needs no failure
pattern other than "no cycle of the interface is clean any more".

**Calibration** (`origin_safety`). `ControlExcludesCycles`: while a service, its
emergency branch or `on_cleanup` sends control frames no interface has a cycle on
its bus, though `set_motor_origin_here` joins one thread only (a service that
forgets the mutex is its mutant). `CalibratesOnlyInactive` (the services look at
the state once, and no thread changes INACTIVE meanwhile),
`EveryInterfaceServed` (each way out of a service resumes what it paused).
`CHECK_DEADLOCK` is off in the `origin_*` runs because the node really may
stop: a `std::shared_mutex` that was unlocked without being locked can block
every later cleanup.

**CAN device** (`exchange`). `StatusIsHonest`: what a status says of writing and
reading, and that only `CAN_READ_FAILED` leaves open whether the joint's reply
was read. `NoHiddenBacklog`: a lag of states behind commands grows only in
cycles that the node counts as bad. `CyclesWaitShortly`: the ten seconds of a
zero position never reach a cycle, because whoever skips the reset deletes the
device. `ConfiguredMeansEnabled`: a configuration that succeeds has switched on
every V2 motor, unless a V3 motor's late reply, to one of its trials, or a report
of a bus error was taken for the reply (`mistaken`). That case is real: at a
position of 25.6 to 51.1 degrees a V3 motor's reply begins with 1 and confirms the
V2 motor with `can_id` 1, which may have heard nothing. What the property says is
that nothing else goes wrong: no lost reply, no late reply of the motor itself or
of another V2 motor, no failed trial. `CycleEnds` and `ControlEnds` need weak
fairness of the device's own steps only, which `SO_RCVTIMEO` justifies; bus and
motors may do anything.

**Data of the cycles** (`joint_data`). `StampIsConservative`: the stamp bounds
the age of every joint that has replied, in the joint states and in the
unfiltered messages, which are written without the mutex they are copied under.
`StampNeverGoesBack` once all joints have replied. `UpdatesAreAtomic` is the
refinement of `ParameterRegister`: an update falls between the cycles and leaves in
order the limits of each joint it changes; for a joint it does not name it promises
nothing. `UpdateApplied` is what the writer-preferring
mutex is for: it needs that cycles end (the socket's timeout) and that the
executor goes on when it has its lock, but no fairness of the lock itself and
nothing of how often cycles begin; with a mutex that prefers readers it fails.

**Filters** (`filters`). `MedianOfWindow` and `SumIsExact` hold through every
resize. `WindowIsRecent` says how far the moving average recovers: after a
shrinking the wrong samples may be kept (`(index_ - size) % length` is computed
without sign), and the window grows to its old length again, as `buffersize_`
stays; when its entries have been replaced twice it holds the last samples.

**Plugin** (`plugin`). `DestroyedMeansOff`: whatever failed before, the
destructor switches off each motor that hears its frame, and one failure does
not stop the others' frames. `Alternates`: between two calls of a component that
is in use no more replies wait in the socket than `write()` has taken frames of
other devices for replies; without such frames none waits. `ModeIsClaimed` and
`StoppedEffortIsZero` (a joint without a controller has no effort, or still the
initial one) are about the switch that runs beside `write()`, each with the case
it cannot promise: a switch that another component refused after this
one prepared it leaves the new modes, and a controller that is stopped may
command once more after its joints were reset. `DirectionKept`: signs survive
inversion, limits and the frame. `CHECK_DEADLOCK` is off because a destroyed
plugin stops.

**Findings.** Each violation run refutes a sentence of the README or of a
comment; `PROJECT.json` quotes it. (1) `inactive`: the message callback checks
the state and then stores; a `deactivate()` in between is undone and INACTIVE
sends the joint command, even unconverted. (2) `origin_devices`: the emergency
branch of `set_motor_origin_here` deletes devices other threads use. (3)
`exchange_fresh`: `SUCCESS` is taken for a fresh reply of this cycle, but a late
reply counts as well, and as each cycle reads at most one frame per joint the lag
then stays. (4) `codec_max`: in the plugin a value at its maximum becomes
`2^bits`, so a saturated effort is read as the opposite one. (5) `rescaled`: the
state of a joint that does not answer is scaled again in each cycle.

Three more were seen on the way and have no run: `msg_received_` is neither
initialised nor reset by a cleanup, so a node can become active without a
message (README line 42); a cleanup request can outlive the cleanup that is under
way and undo the next configuration (comment at line 359); a failed
`set_all_motors_origin_here` goes on to line 1309 and answers success.

Every property of a passing run has a mutant, an operator with a seeded bug
next to the operator it replaces ("Seeded bug" in its comment); TLC finds the
property violated with it.

## 4. The proofs

`CubeMarsNodeProofs` proves, for every finite or infinite set of interfaces,
every number of joints and every maximum of errors, from `ConstantsAssumption`
only:

* `TypeCorrect` (`TypeOK`), `OneTransitionAtATime` (`OneTransition`),
  `DevicesOutliveThreads` (`NoUseAfterFree`), `ActiveIsWatched`
  (`WatchdogArmed`), `UnconfiguredStaysQuiet` (`UnconfiguredIsQuiet`).

None of them is inductive alone. The inductive invariant `IInv` has layers,
each proved from those before it, one step per action:

1. `TypeInv`: types; every thread is in its own code; a thread inside
   `deactivate()` knows a place of its own code to return to; a cycle that is
   about to send has a frame. Without the last part a motor could be given no
   command at all and `TypeOK` would not be inductive.
2. `DevicesInv`: a communication thread exists only with open devices, and from
   the join on there is none. This is the whole argument for `NoUseAfterFree`.
3. `TransitionInv`: `OneTransition` and what each place of a callback says
   about the lifecycle state. Only a step from ACTIVE enters a transition in a
   communication thread, so no one enters while another is in one.
4. `WatchdogInv`: from `on_activate` on the timer exists; whoever deletes it is
   in a transition, hence the state is not ACTIVE.
5. `QuietInv`: in which states devices and timer may exist, and that motors are
   off where there is no device.

`NodeRefinementProofs` proves `NodeKeepsPromise`: `Spec => KeepsPromise`, the
refinement of `MotorLifecycle`. It adds `PhaseInv` (after Ctrl-C `main()` does
nothing but `on_shutdown`) and `EnabledInv` (every motor of a configured node is
enabled), and shows for each action which step of the promise it is, or that it
changes neither the abstract state nor the set of enabled motors.

`HistoryProofs` proves what relates a state to what happened before it. Its
specification restricts the steps of the node (`Next /\ Watch`), so `IInv` holds
in it too (`HistoryIInv`).

* `SilenceIsBounded` (`SilenceBounded`). `SilenceInv`: a callback without a
  message leaves the flag down, and in ACTIVE there has been at most one such
  callback, none while the timer callback is at its end. Entering ACTIVE resets
  the count, which is why `on_activate` needs a part of its own.
* `InactiveCommandStaysSafe` (`InactiveCommandIsSafe`). `CommandInv`: zeros or
  damping on every way into INACTIVE, from `configuring`, `activating` and each
  place of `deactivate()` past the store, unless a message was stored behind it
  (`overtaken`). `OneTransition` makes sure that it is one thread's way.
* `ExitLeavesMotorsOff` (`ExitDisablesMotors`). `ExitInv`: after Ctrl-C the
  executor is on its way through the damping, through the cleanup, or past them
  with nothing running and all motors off.

`OriginProofs` proves, for every set of interfaces, `ServiceTypeCorrect`
(`OTypeOK`), `ControlFramesAreAlone` (`ControlExcludesCycles`),
`CalibrationNeedsInactive` (`CalibratesOnlyInactive`) and `InterfacesAreServed`
(`EveryInterfaceServed`). The second needs `BusInv`: who sends control frames has
the mutex, whoever has it keeps cycles out, and a joined thread stays away until
its service restarts it; the third is inductive given the types. Both rest on where
`deactivate()` may return to: never into the exchange of a cycle and never into
a service, so a communication thread gets onto the bus by `AcquireBus` only, and
the executor cannot leave a service but by its own steps. The last needs
`ThreadInv`: at each place of a transition's callback the state is that
transition's (`ExecAgrees`, `CommAgrees`), a thread that calls `deactivate()` goes
on with its cycle (`CallsBack`), and from a configuration to the next cleanup
every thread runs, except those a service has paused or whose service has
failed and is on its way to the cleanup (`ServedInv`).

`ExchangeProofs` proves, for every number of motors of either series, every
number of trials and of error frames, from `ExchangeAssumption`:

* `ExchangeTypeCorrect` (`ETypeOK`). `ExchangeTypes` adds the bound of what a motor
  has on the wire. The plans of all operations have entries, and the last one
  ends its task, so no step takes the head of an empty plan.
* `StatusStaysHonest` (`StatusIsHonest`). `HonestInv`: while the commands are
  written, the joints before the next one are honest and no joint has a reply;
  while the replies are read, all are honest.
* `CyclesAlwaysWaitShortly` (`CyclesWaitShortly`). `TimeoutInv`: the long timeout
  outlives its operation only on the way to deleting the device.
* `ConfigurationEnables` (`ConfiguredMeansEnabled`). `ConfigInv` with its part
  `Switched`: the V2 motors done are on or `mistaken`, those to come have been sent
  nothing, and of the current one, unless it is `mistaken`, at most one reply is
  under way, on the wire or in the socket, and only while `configure` waits for it.
  Hence a reply that is the current motor's is a reply to the frame just sent. The
  argument fails for V3 motors, which are sent several frames; the property does
  not speak of these. `V2ConfigurationEnablesAll`: on an interface with V2 motors
  only and without reports of bus errors nothing can be mistaken for a reply
  (`NobodyMistaken`), and every motor is on.
* `GoodCyclesHideNothing` (`NoHiddenBacklog`). `BacklogInv` counts the replies of
  the motors, in the queue and on the wire: while a cycle writes, at most one
  more than before for each joint it has passed; while it reads, the replies
  and the joints that are `SUCCESS` together are at most what was there before
  and one per joint. A joint becomes `SUCCESS` only by a reply that was read, so
  a cycle that ends with all joints `SUCCESS` has taken out as many as it let
  in. The sets `Queued` and `UnderWay` are counted through bijections and the
  removal of one element.
* `CyclesTakeBoundedSteps`. `CycleLeft` - a write per joint and per joint as many
  reads as the guard against error frames allows - is lowered by every step of
  the device in a cycle and touched by nothing else, so a cycle ends after at
  most `NumJoints * (MaxErrSkips + 1)` steps of the device.
* `OperationsTakeBoundedSteps`. `ControlLeft` is the same for enabling, calibrating
  and disabling: the operations left in the plan and in those a failure leads to
  (`OpsLeft`; a calibration that fails disables all motors, and once more if that
  fails too), and the frames and trials left of the current one (`FrameLeft`).

The last two are the safety part of `CycleEnds` and `ControlEnds`: what these add
is that the device takes its steps, which is fairness and stays with TLC.

`JointDataProofs` proves, for every set of interfaces, every distribution of
joints over them and every configuration of limits, from `DataAssumption`:

* `ParametersAreARegister` (`UpdatesAreAtomic`). `LockInv`: while an update is
  applied no cycle is under way, and of each joint in the update the limits changed
  so far together with the fields still in the batch are ordered. Nothing is
  assumed of the order of the configured limits. Without the second part the values at
  the end of an update would be unknown. `ApplyKeepsEffective` carries it over
  each field. The register's value is `before` while the update is applied and
  `limits` otherwise; its one step is `UnlockParameters`.
* `DataTypeCorrect` (`JTypeOK`), `PublishedStampIsConservative`
  (`StampIsConservative`), `PublishedStampNeverGoesBack` (`StampNeverGoesBack`).
  `SampleInv`: a joint's time stamp is never newer than the value it stands for,
  in the cycle's vectors and in both messages, and between `Process` and
  `WriteBack` the unfiltered value is the one the stamp is about to be taken
  from. `StampInv`: the last stamp bounds every joint's last reply.
  `MinOfNaturals` gives the minimum that `Stamp` chooses.

`HardwareProofs` proves, for every number of motors, every set of controllers and
whatever they claim, from `PluginAssumption`, `RangeAssumption` (each range has
two ends, and the torque's spans both directions and is smaller than the 4096
steps of its number, in the unit of the model: otherwise one unit could vanish
in one step) and `OthersAssumption`:

* `PluginTypeCorrect` (`HTypeOK`). `HTypes` with `CallInv`: in which states of the
  component each method runs and at which joint, `SwitchTypes`: where a switch
  is.
* `WritesAndReadsAlternate` (`Alternates`). `ReplyInv`: at most `displaced` replies
  wait between two calls, and in `write()` one more for each command sent and not
  yet read, from whichever motor: the replies are counted (`Tokens`), since one
  read may take another joint's. A read either takes one of them away or adds to
  `displaced`. A deactivation or a destructor that met an error leaves replies
  behind, but no component in use. `QuietBusAlternates`: without frames of other
  devices (`MaxForeign = 0`) none waits.
* `DestructorTurnsOff` (`DestroyedMeansOff`). `OffInv`: before a
  configuration, in INACTIVE and without a socket only a motor that did not hear
  its last exit frame is enabled, and the same holds of each one the destructor has
  passed.
* `ModesAreClaimed` (`ModeIsClaimed`), `StoppedJointsAreLimp`
  (`StoppedEffortIsZero`). `ModeInv` and `StopInv` follow a switch through its
  stages beside `write()`: the modes assigned already are those of the controllers
  that start, and a joint that was reset has an effort only from a controller
  that goes on running, unless one that stops commanded again (`overtaken`), and
  one without a controller has none but its initial effort (`AtRest`).
* `TorqueKeepsDirection` (`DirectionKept`): the number of a torque below its
  maximum is within one step of it (`ScaledSign`), and a number of 12 bits
  survives the frame whatever gain shares its byte (`TorqueSurvives`).
* `NodeFramesReachMotors`: for all commands, within their limits or not, and all
  limits, the node's frames for V2 and V3 decode to the numbers they were made
  of (`NodeFramesAreExact`). `NodeNumberFits` is what the plugin lacks.

`FiltersProofs` proves, for windows of every size and all integer samples, from
`FilterAssumption`:

* `WindowsAreWritable` (`FTypeOK`). `FTypes`: the next entry to write is one of the
  window, and the first of a moving average that is not full; a median that is
  not full writes behind its last entry.
* `SumStaysExact` (`SumIsExact`). The lemmas say what `Sum` does to sequences: it
  adds over concatenation (`SumConcat`), so a rotation keeps it, and a replaced
  entry changes it by the difference.
* `WindowHoldsLatest` (`WindowIsRecent`). `WindowInv`: as far back as there were
  updates since a shrinking, the sample of `d` updates ago is `d` places before
  the next entry, around the window (`Place`). An update moves every sample one
  place back, a growing window moves the oldest one to the front. Once there
  were as many updates as entries the window holds the latest samples; `Settled`
  is more than that.
* `MedianIsOfLatest` (`MedianOfWindow`). `OrderExists`: numbering the entries by
  their values, and equal ones by their places, is a bijection that orders them.
  `NthInOrder`: what `std::nth_element` gives is at its place in any order, since
  exactly those entries that are smaller are in front of it. `NthOfWindow`: the
  ring is a permutation of the latest samples, by `WindowInv`.

About `Sum`, a recursive function, induction was needed. The induction theorems of
the library take an operator, which the provers cannot instantiate; the lemmas
argue by a smallest counterexample instead (`LeastNatural`, from the
well-foundedness of `<`), once for the existence, once for the uniqueness of the
partial sums (`TotalsExist`, `TotalsUnique`) and once for concatenation.

Only model-checked: the liveness properties of `node_liveness`, `exchange` and
`joint_data` (TLAPS proves no liveness under fairness and no `ENABLED`). Each
invariant and action property of a passing run is a theorem. The violation runs
need no proof, each counterexample is one. What ties the models to the bits of
the code, `JoinedAssumption`, is evaluated by TLC on its whole domain.

## 5. What is not modelled, and the plan

Left out for good: transmit time stamps (kernel queues) and the diagnostics made
of them, `motor_sine_tester.py` (a test tool; `ReceiveCommand` stands for any
controller), configuration files and packaging, the arithmetic of friction,
transmission and the alpha-beta filter, and the states the plugin reads.
Reader preference of `std::shared_mutex` could make a calibration wait for the
bus, or the publisher for the joint states, forever behind two busy interfaces;
the models grant these locks at will and claim no liveness for them.
`max_can_errors_before_motor_shutdown = 0`, which `on_configure` does not reject,
is excluded by `ConstantsAssumption`.

Plan, in this order:

1. *(done)* `CubeMarsNode`, `NodeHistory`, their runs and invariants.
2. *(done)* `OriginService`. *(done)* `MotorLifecycle` and its refinement.
3. *(done)* `CanExchange`. *(done)* `JointData` with `ParameterRegister` and their
   theorems. *(done)* `HardwareInterface`, `Codec`, `Filters`.
4. *(done)* Theorems about `OriginService`, `NodeHistory`, `CanExchange`,
   `HardwareInterface` and `Filters` for every number of interfaces, joints,
   controllers and every size of a window.
5. *(done)* The measures that decrease in a loop over the bus, the part of
   `CycleEnds` and `ControlEnds` that needs no fairness.
6. `Configure`: the vectors filled by `on_configure` over FAILURE, ERROR and
   retry.
