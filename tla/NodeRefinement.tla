--------------------------- MODULE NodeRefinement ----------------------------
(* The threads of CubeMarsNode keep the promise of MotorLifecycle.           *)
EXTENDS CubeMarsNode

Abstract == INSTANCE MotorLifecycle WITH
  state   <- IF phase = "spinning" THEN lifecycle ELSE phase,
  enabled <- {i \in Ifaces : motor[i] # "off"}

\* Motors are switched on and off only where the lifecycle says so, whatever
\* the communication threads do in the meantime.
KeepsPromise == Abstract!Promise
=============================================================================
