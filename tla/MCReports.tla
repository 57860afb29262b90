----------------------------- MODULE MCReports ------------------------------
(* One variant, two batches whose pieces cost 1 and 2, a month of two days   *)
(* and the first day of the next.                                            *)
EXTENDS Reports

MCPackSize == <<1, 2>>
MCPackCost == <<1, 3>>
=============================================================================
