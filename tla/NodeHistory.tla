---------------------------- MODULE NodeHistory -----------------------------
(***************************************************************************)
(* The lifecycle node with history variables, for properties that relate a *)
(* state to what happened before it.  History only watches: it never       *)
(* disables a step of CubeMarsNode.                                        *)
(***************************************************************************)
EXTENDS CubeMarsNode

VARIABLES
  silentTicks, \* whole watchdog callbacks since the last message
  overtaken,   \* a message was stored after the state had left ACTIVE
  endedFrom    \* the lifecycle state in which Ctrl-C found the node

history == <<silentTicks, overtaken, endedFrom>>
hvars == <<vars, history>>

\* More ticks than this are not told apart.
MaxTicks == 2

HInit ==
  /\ Init
  /\ silentTicks = 0
  /\ overtaken = FALSE
  /\ endedFrom = "none"

\* pc[t] moves from one of `from' to one of `to'.
Moves(t, from, to) == pc[t] \in from /\ pc'[t] \in to

Watch ==
  /\ silentTicks' =
       IF Moves(Exec, {"activating"}, {"finish"}) \/ ReceiveCommand THEN 0
       ELSE IF Moves(Exec, {"watchdog_end"}, {"idle"}) /\ silentTicks < MaxTicks
         THEN silentTicks + 1
       ELSE silentTicks
  /\ overtaken' =
       IF Moves(Exec, {"configuring", "activating"}, {"finish"}) THEN FALSE
       ELSE overtaken \/ (StoreCommand /\ lifecycle # "active")
  /\ endedFrom' = IF phase = "spinning" /\ phase' = "exiting"
                    THEN lifecycle ELSE endedFrom

HSpec == HInit /\ [][Next /\ Watch]_hvars

-----------------------------------------------------------------------------

\* The watchdog of ACTIVE tolerates one period without a message, not two.
SilenceBounded == phase = "spinning" /\ lifecycle = "active" => silentTicks <= 1

\* In INACTIVE the command to send is zeros or damping, unless the callback of
\* a message that found the node ACTIVE stored it only afterwards.
InactiveCommandIsSafe ==
  phase = "spinning" /\ lifecycle = "inactive" /\ ~overtaken =>
    cmd \in {"zero", "damping"}

\* When the process is gone, the motors that can be reached are off, unless
\* Ctrl-C fell into a deactivate() of a communication thread.
ExitDisablesMotors ==
  phase = "down" /\ endedFrom # "deactivating" =>
    \A i \in Ifaces \ Flaky : motor[i] = "off"

\* README: in configured "only zeros are transmitted", and after an error or a
\* deactivation "the driver sends a damping command".
InactiveSendsNoJointCommand ==
  phase = "spinning" /\ lifecycle = "inactive" => cmd \in {"zero", "damping"}

=============================================================================
