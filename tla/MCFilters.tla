----------------------------- MODULE MCFilters ------------------------------
(* Windows of up to four samples with three different values.              *)
EXTENDS Filters

MCSamples == {-1, 0, 2}
=============================================================================
