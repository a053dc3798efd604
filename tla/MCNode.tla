------------------------------- MODULE MCNode -------------------------------
(* Model values for the interfaces: one whose bus may fail, one that works. *)
EXTENDS CubeMarsNode

CONSTANTS can0, can1

MCIfaces == {can0, can1}
MCFlaky  == {can0}
MCOneIface == {can0}
=============================================================================
