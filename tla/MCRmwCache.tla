----------------------------- MODULE MCRmwCache -----------------------------
(* The instance of RmwCache for TLC: its model values.                     *)
EXTENDS RmwCache, TLC

CONSTANT conf   \* MBF_PAR_FILTRATION_CONF: cached, else read live

MCBase == [k \in Keys |-> "cached"]

TaskSymmetry == Permutations(Polls) \cup Permutations(Writers)
=============================================================================
