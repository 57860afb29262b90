------------------------------ MODULE MCBanking -------------------------------
(* Two requests, a loan and a bill: the bounds are given in the .cfg.        *)
EXTENDS Banking, TLC

RequestSymmetry == Permutations(Requests)
=============================================================================
