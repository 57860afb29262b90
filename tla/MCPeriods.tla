------------------------------ MODULE MCPeriods ------------------------------
(* A few months, entries and requests: the bounds are given in the .cfg.     *)
EXTENDS Periods, TLC

RequestSymmetry == Permutations(Requests)
=============================================================================
