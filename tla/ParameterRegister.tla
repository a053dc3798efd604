------------------------- MODULE ParameterRegister --------------------------
(***************************************************************************)
(* What a runtime parameter update promises: it is one step, it orders the *)
(* limits of every joint it changes, and it falls between the cycles of    *)
(* the CAN interfaces, which therefore see one value from start to end.    *)
(***************************************************************************)
EXTENDS Integers

CONSTANTS Ifaces, Joints, Values

VARIABLES
  limits,  \* the least and the greatest position of each joint
  users    \* interfaces with a cycle under way

rvars == <<limits, users>>

Pairs == [{"min", "max"} -> Values]

RInit ==
  /\ limits \in [Joints -> Pairs]
  /\ users = {}

Enter(i) == users' = users \cup {i} /\ UNCHANGED limits

Leave(i) == users' = users \ {i} /\ UNCHANGED limits

Update ==
  /\ users = {}
  /\ limits' \in [Joints -> Pairs]
  /\ \A j \in Joints : limits'[j] # limits[j] => limits'[j].min <= limits'[j].max
  /\ UNCHANGED users

RNext == Update \/ \E i \in Ifaces : Enter(i) \/ Leave(i)

Register == RInit /\ [][RNext]_rvars
=============================================================================
