------------------------------ MODULE MCPayables -----------------------------
(* A few suppliers and purchases: the bounds are given in the .cfg.          *)
EXTENDS Payables, TLC

SupplierSymmetry == Permutations(Suppliers)
=============================================================================
