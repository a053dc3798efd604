----------------------------- MODULE MCHistory ------------------------------
(* Model values for the interfaces: one whose bus may fail, one that works. *)
EXTENDS NodeHistory, NodeRefinement

CONSTANTS can0, can1

MCIfaces == {can0, can1}
MCFlaky  == {can0}
=============================================================================
