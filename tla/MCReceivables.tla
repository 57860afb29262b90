--------------------------- MODULE MCReceivables ----------------------------
(* One customer, a few small credit sales: the bounds are given in the .cfg. *)
EXTENDS Receivables
=============================================================================
