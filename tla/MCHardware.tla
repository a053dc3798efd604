----------------------------- MODULE MCHardware -----------------------------
(***************************************************************************)
(* Two AK10-9 motors: the second inverted, with the higher CAN id, with a  *)
(* name that contains the name of the first, and with an initial effort.   *)
(***************************************************************************)
EXTENDS HardwareInterface, Bitwise

MCCanId   == <<1, 2>>
MCInvert  == {2}
MCNamedIn == <<{1}, {1, 2}>>

\* Units: 0.1 rad, 0.1 rad/s, 1, 0.1 and 1 Nm.
MCLimits ==
  [p |-> [lo |-> -125, hi |-> 125], v |-> [lo |-> -500, hi |-> 500],
   kp |-> [lo |-> 0, hi |-> 500], kd |-> [lo |-> 0, hi |-> 50],
   t |-> [lo |-> -65, hi |-> 65]]

\* The gains a mode leaves of kp = 20, kd = 1.
MCOthers ==
  LET C(kp, kd) == [p |-> 10, v |-> 0, kp |-> kp, kd |-> kd, t |-> 0]
  IN [POSITION |-> C(20, 10), VELOCITY |-> C(0, 10),
      EFFORT |-> C(0, 0), UNDEFINED |-> C(0, 0)]

\* One effort within the limits, and one that is clamped for the second motor.
MCEfforts == {0, 30}
MCInitial == <<0, 70>>

\* One that saturates the second motor.
MCGreatEfforts == {-70, 0}

MCControllers == {"effort1", "position2", "velocity1", "foreign"}
MCClaims ==
  [effort1   |-> {<<1, "effort">>},
   position2 |-> {<<2, "position">>, <<2, "effort">>},
   velocity1 |-> {<<1, "velocity">>},
   foreign   |-> {<<2, "unknown">>}]

\* The node's codec on the corners and the middle of every range, and beyond.
MCCommands ==
  [p : {-126, -125, 0, 125}, v : {-500, 7, 500, 600}, kp : {-1, 0, 20, 500},
   kd : {0, 10, 50, 51}, t : {-70, -65, 0, 30, 65}]

\* Two shifted values are joined as C does it.
ASSUME JoinedAssumption ==
  \A h \in 0 .. 15, l \in 0 .. 31 : Joined(h, l) = ((h * 16) | l)

ASSUME CodecAssumption == NodeFramesAreExact(MCCommands, MCLimits)
=============================================================================
