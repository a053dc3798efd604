--------------------------- MODULE MotorLifecycle ----------------------------
(***************************************************************************)
(* What the driver promises about its motors, without a thread in sight:   *)
(* they are switched on only by a configuration, off only by a cleanup, a  *)
(* shutdown or the end of the process, all of them are on in INACTIVE and  *)
(* ACTIVE, and only those that cannot be reached are on in UNCONFIGURED    *)
(* and FINALIZED.                                                          *)
(***************************************************************************)
CONSTANTS
  Ifaces,   \* the CAN interfaces
  Flaky     \* those whose motors may be out of reach

VARIABLES
  state,    \* the lifecycle state, or exiting or down after Ctrl-C
  enabled   \* the interfaces with an enabled motor

mvars == <<state, enabled>>

\* The states of a managed node and where each of them leads.
Successors ==
  [ unconfigured    |-> {"configuring", "shuttingdown", "exiting"},
    configuring     |-> {"inactive", "unconfigured", "errorprocessing"},
    errorprocessing |-> {"unconfigured"},
    inactive        |-> {"activating", "cleaningup", "shuttingdown", "exiting"},
    activating      |-> {"active", "inactive"},
    active          |-> {"deactivating", "shuttingdown", "exiting"},
    deactivating    |-> {"inactive", "exiting"},
    cleaningup      |-> {"unconfigured"},
    shuttingdown    |-> {"finalized"},
    finalized       |-> {"exiting"},
    exiting         |-> {"down"},
    down            |-> {} ]

Start == state = "unconfigured" /\ enabled = {}

Move ==
  /\ state' \in Successors[state]
  /\ state' \in {"inactive", "active"} => enabled = Ifaces
  /\ state' \in {"unconfigured", "finalized"} => enabled \subseteq Flaky
  /\ UNCHANGED enabled

SwitchOn ==
  /\ state = "configuring"
  /\ enabled' = Ifaces
  /\ UNCHANGED state

\* A configuration that fails takes back what it had switched on.
GiveUp ==
  /\ state = "configuring"
  /\ state' = "errorprocessing"
  /\ enabled' \subseteq Flaky

SwitchOff ==
  /\ state \in {"cleaningup", "shuttingdown", "exiting"}
  /\ enabled' \subseteq enabled \cap Flaky
  /\ UNCHANGED state

Step == Move \/ SwitchOn \/ GiveUp \/ SwitchOff

Promise == Start /\ [][Step]_mvars
=============================================================================
