---------------------------- MODULE MCJointData -----------------------------
(* Two interfaces: two joints on the first, one on the second.  The        *)
(* configuration swaps the limits of a joint that nobody tunes.            *)
EXTENDS JointData

MCIfaces  == {"can0", "can1"}
MCIfaceOf == <<"can0", "can0", "can1">>
MCTuned   == {1}
MCValues  == {0, 1}
MCLimits  == [j \in 1 .. 3 |-> IF j = 2 THEN [min |-> 1, max |-> 0]
                               ELSE [min |-> 0, max |-> 1]]
=============================================================================
