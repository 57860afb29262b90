-------------------------------- MODULE Sums --------------------------------
(***************************************************************************)
(* Sums over rows 1..n of a table column, in row order.  A column is a     *)
(* function whose domain contains 1..n.  The recursion is a recursive      *)
(* function, so that the prover can unfold it (module SumsProofs).         *)
(***************************************************************************)
EXTENDS Integers

\* RunningSum(f, n)[i] is f[1] + ... + f[i]; the 0th entry is 0.
RunningSum(f, n) ==
  LET s[i \in 0..n] == IF i = 0 THEN 0 ELSE s[i - 1] + f[i]
  IN  s

Total(f, n) == RunningSum(f, n)[n]

\* The sum of column f over those of its rows 1..n that are in S.
SumOver(f, n, S) == Total([i \in 1..n |-> IF i \in S THEN f[i] ELSE 0], n)

AtLeastZero(x) == IF x < 0 THEN 0 ELSE x

Lesser(x, y) == IF x < y THEN x ELSE y

(***************************************************************************)
(* The greedy walk the code uses for FIFO consumption and for settling     *)
(* invoices: go through the rows in order, take from each row what it      *)
(* holds until `amount' is reached.  Row i is reached with whatever the    *)
(* earlier rows left unmet.                                                *)
(***************************************************************************)
Greedy(f, n, amount) ==
  LET before == RunningSum(f, n)
  IN  [i \in 1..n |-> Lesser(f[i], AtLeastZero(amount - before[i - 1]))]
=============================================================================
