------------------------------- MODULE MCTill --------------------------------
(* One till, two requests in flight: the bounds are given in the .cfg.       *)
EXTENDS Till, TLC

RequestSymmetry == Permutations(Requests)
=============================================================================
