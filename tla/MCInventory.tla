---------------------------- MODULE MCInventory -----------------------------
(* One variant, small enough to explore: the bounds are given in the .cfg.  *)
EXTENDS Inventory
=============================================================================
