----------------------------- MODULE MoneyPosition -----------------------------
(***************************************************************************)
(* What the three pockets of the shop promise together.  The shop has cash,  *)
(* wherever it is kept, and claims on the people it lent cash to.  Moving    *)
(* cash between pockets changes neither ("the money has changed pockets, not *)
(* left the business"); lending swaps cash for a claim; only trade, and      *)
(* correcting the books, make the shop richer or poorer.                     *)
(***************************************************************************)
EXTENDS Integers

VARIABLES
  cash,    \* in the drawer, held at the shop and in the bank together
  claims,  \* lent and not repaid
  earned   \* what trade and corrections have brought in, on balance

vars == <<cash, claims, earned>>

Init == cash = 0 /\ claims = 0 /\ earned = 0

Trade ==
  /\ cash' - cash = earned' - earned
  /\ UNCHANGED claims

Lend ==
  /\ claims' > claims
  /\ cash' + claims' = cash + claims
  /\ UNCHANGED earned

Collect ==
  /\ claims' >= 0 /\ claims' < claims
  /\ cash' + claims' = cash + claims
  /\ UNCHANGED earned

Next == Trade \/ Lend \/ Collect

Spec == Init /\ [][Next]_vars
=============================================================================
