------------------------- MODULE ReceivablesProofs --------------------------
(***************************************************************************)
(* Proofs about module Receivables, for every number of sales, every price *)
(* and every set of credit limits.                                         *)
(***************************************************************************)
EXTENDS Receivables, SumsProofs

-----------------------------------------------------------------------------
(* What allocateToInvoices returns. *)

\* Only sales that stand owe anything, so what is open is what is due.
LEMMA OpenDueIsDue ==
  ASSUME TypeOK, InvoicesExplained
  PROVE  /\ OpenDue = amountDue
         /\ MaxSales \in Nat
         /\ \A s \in 1..MaxSales : OpenDue[s] \in Nat
BY ReceivablesConstants DEF TypeOK, InvoicesExplained, OpenDue, Sales

\* An allocation of no more than what is owed takes exactly that, from each
\* invoice at most what it owes, and in order.
LEMMA AllocationTakes ==
  ASSUME TypeOK, InvoicesExplained, NEW amount \in Nat, NEW p \in Sales \cup {NoSale},
         amount <= Total(amountDue, MaxSales)
  PROVE  /\ \A s \in Sales : AllocateToInvoices(amount, p)[s] \in 0..amountDue[s]
         /\ Total(AllocateToInvoices(amount, p), MaxSales) = amount
         /\ \A s \in Sales \ {p} :
              AllocateToInvoices(amount, p)[s] > 0 =>
                \A r \in Sales : (r = p \/ r < s) =>
                  AllocateToInvoices(amount, p)[r] = amountDue[r]
<1> DEFINE others == [s \in Sales |-> IF s = p THEN 0 ELSE OpenDue[s]]
           e == Earmarked(amount, p)
           rest == Greedy(others, MaxSales, amount - e)
           A == AllocateToInvoices(amount, p)
<1>1. /\ OpenDue = amountDue
      /\ MaxSales \in Nat
      /\ \A s \in 1..MaxSales : amountDue[s] \in Nat
  BY OpenDueIsDue
<1>2. /\ e \in Nat /\ e <= amount
      /\ p \in Sales => e <= amountDue[p] /\ (e = amountDue[p] \/ e = amount)
      /\ p \notin Sales => e = 0
  BY <1>1 DEF Earmarked, Lesser, Sales
<1>3. \A s \in 1..MaxSales : others[s] = IF s = p THEN 0 ELSE amountDue[s]
  BY <1>1 DEF Sales
<1>4. A = [s \in Sales |-> IF s = p THEN e ELSE rest[s]]
  BY DEF AllocateToInvoices
<1>5. \A s \in 1..MaxSales : others[s] \in Nat
  BY <1>1, <1>3
<1> HIDE DEF e, others
<1>6. amount - e \in Nat
  BY <1>2
<1>7. /\ \A s \in 1..MaxSales : rest[s] \in 0..others[s]
      /\ \A s \in 1..MaxSales : rest[s] > 0 => \A r \in 1..(s - 1) : rest[r] = others[r]
      /\ Total(rest, MaxSales) = Lesser(amount - e, Total(others, MaxSales))
  BY <1>1, <1>5, <1>6, GreedyTakes
<1> HIDE DEF rest, A
<1>8. Total(others, MaxSales)
        = Total(amountDue, MaxSales) - (IF p \in Sales THEN amountDue[p] ELSE 0)
  <2>1. CASE p \in Sales
    <3> DEFINE d == -amountDue[p]
    <3>1. d \in Int /\ p \in 1..MaxSales
      BY <1>1, <2>1 DEF Sales
    <3>2. \A s \in 1..MaxSales : others[s] = IF s = p THEN amountDue[s] + d ELSE amountDue[s]
      BY <1>1, <1>3
    <3>3. \A s \in 1..MaxSales : amountDue[s] \in Int
      BY <1>1
    <3> HIDE DEF d
    <3>4. Total(others, MaxSales) = Total(amountDue, MaxSales) + d
      BY ONLY <1>1, <3>1, <3>2, <3>3, TotalChangeAt
    <3>5. Total(amountDue, MaxSales) \in Int
      BY <1>1, <3>3, TotalType
    <3> QED BY <1>1, <2>1, <3>1, <3>4, <3>5 DEF d
  <2>2. CASE p \notin Sales
    <3>1. \A s \in 1..MaxSales : amountDue[s] \in Int /\ others[s] = amountDue[s]
      BY <1>1, <1>3, <2>2 DEF Sales
    <3>2. Total(others, MaxSales) = Total(amountDue, MaxSales)
      BY <1>1, <3>1, TotalSame
    <3>3. Total(amountDue, MaxSales) \in Int
      BY <1>1, <3>1, TotalType
    <3> QED BY <2>2, <3>2, <3>3
  <2> QED BY <2>1, <2>2
<1>9. Total(amountDue, MaxSales) \in Nat /\ Total(others, MaxSales) \in Nat
  BY <1>1, <1>5, TotalNat
\* With the earmark served, what is left fits in the other invoices.
<1>10. Total(rest, MaxSales) = amount - e
  <2>1. CASE p \in Sales
    <3>1. amountDue[p] \in Nat /\ (e = amountDue[p] \/ e = amount)
      BY <1>1, <1>2, <2>1 DEF Sales
    <3>2. Total(others, MaxSales) = Total(amountDue, MaxSales) - amountDue[p]
      BY <1>8, <2>1
    <3>3. amount - e <= Total(others, MaxSales)
      BY <1>6, <1>9, <3>1, <3>2
    <3> QED BY <1>6, <1>7, <1>9, <3>3 DEF Lesser
  <2>2. CASE p \notin Sales
    BY <1>2, <1>6, <1>7, <1>8, <1>9, <2>2 DEF Lesser
  <2> QED BY <2>1, <2>2
<1>11. Total(A, MaxSales) = amount
  <2>1. \A s \in 1..MaxSales : rest[s] \in Int
    BY <1>5, <1>7
  <2>2. CASE p \in Sales
    <3>1. rest[p] = 0 /\ p \in 1..MaxSales
      BY <1>3, <1>7, <2>2 DEF Sales
    <3>2. \A s \in 1..MaxSales : A[s] = IF s = p THEN rest[s] + e ELSE rest[s]
      BY <1>2, <1>4, <3>1 DEF Sales
    <3>3. e \in Int /\ MaxSales \in Nat /\ p \in 1..MaxSales
      BY <1>1, <1>2, <3>1
    <3>4. Total(A, MaxSales) = Total(rest, MaxSales) + e
      BY ONLY <2>1, <3>2, <3>3, TotalChangeAt
    <3> QED BY <1>2, <1>10, <3>4
  <2>3. CASE p \notin Sales
    <3>1. \A s \in 1..MaxSales : rest[s] \in Int /\ A[s] = rest[s]
      BY <1>4, <2>1, <2>3 DEF Sales
    <3>2. Total(A, MaxSales) = Total(rest, MaxSales)
      BY <1>1, <3>1, TotalSame
    <3> QED BY <1>2, <1>10, <2>3, <3>2
  <2> QED BY <2>2, <2>3
<1>12. \A s \in Sales : A[s] \in 0..amountDue[s]
  BY <1>1, <1>2, <1>3, <1>4, <1>7 DEF Sales
<1>13. ASSUME NEW s \in Sales \ {p}, A[s] > 0, NEW r \in Sales, r = p \/ r < s
       PROVE  A[r] = amountDue[r]
  <2>1. A[s] = rest[s] /\ rest[s] > 0 /\ s \in 1..MaxSales
    BY <1>4, <1>13 DEF Sales
  \* Something reached s, so the earmark took all its invoice owed.
  <2>2. p \in Sales => e = amountDue[p]
    <3>1. SUFFICES ASSUME p \in Sales, e = amount PROVE FALSE
      BY <1>2
    <3>2. Total(rest, MaxSales) = 0 /\ \A i \in 1..MaxSales : rest[i] \in Nat
      BY <1>2, <1>5, <1>7, <1>10, <3>1
    <3>3. rest[s] <= 0
      BY <1>1, <2>1, <3>2, TotalNat
    <3> QED BY <2>1, <3>2, <3>3
  <2>3. CASE r = p
    BY <1>4, <2>2, <2>3, <1>13
  <2>4. CASE r # p /\ r < s
    <3>1. r \in 1..MaxSales /\ r \in 1..(s - 1)
      BY <2>4 DEF Sales
    <3>2. rest[r] = others[r]
      BY <1>7, <2>1, <3>1
    <3> QED BY <1>3, <1>4, <2>4, <3>1, <3>2 DEF Sales
  <2> QED BY <1>13, <2>3, <2>4
<1> QED BY <1>11, <1>12, <1>13 DEF A

-----------------------------------------------------------------------------
(* The invariant IInv. *)

\* The account after an allocation, whichever operation makes it.
LEMMA SettleKeepsAccount ==
  ASSUME IInv, NEW amount \in Nat, NEW p \in Sales \cup {NoSale}, amount <= balance,
         Settle(amount, p)
  PROVE  /\ balance' \in Nat /\ takenOff' \in Nat
         /\ amountDue' \in [Sales -> Nat] /\ settled' \in [Sales -> Nat]
         /\ \A s \in Sales : amountDue'[s] + settled'[s] = amountDue[s] + settled[s]
         /\ \A s \in Sales : amountDue[s] = 0 => amountDue'[s] = 0
         /\ BalanceIsSumDue' /\ NothingUnallocated'
<1> DEFINE A == AllocateToInvoices(amount, p)
<1>1. TypeOK /\ InvoicesExplained /\ balance = Total(amountDue, MaxSales)
      /\ takenOff = Total(settled, MaxSales)
  BY DEF IInv, BalanceIsSumDue, NothingUnallocated
<1>2. /\ \A s \in Sales : A[s] \in 0..amountDue[s]
      /\ Total(A, MaxSales) = amount
  BY <1>1, AllocationTakes
<1>3. /\ balance' = balance - amount /\ takenOff' = takenOff + amount
      /\ amountDue' = [s \in Sales |-> amountDue[s] - A[s]]
      /\ settled' = [s \in Sales |-> settled[s] + A[s]]
  BY DEF Settle
<1> HIDE DEF A
<1>4. /\ MaxSales \in Nat
      /\ \A s \in 1..MaxSales : amountDue[s] \in Nat /\ settled[s] \in Nat /\ A[s] \in Nat
      /\ \A s \in 1..MaxSales : amountDue'[s] \in Int /\ settled'[s] \in Int
      /\ \A s \in 1..MaxSales : amountDue[s] = amountDue'[s] + A[s]
      /\ \A s \in 1..MaxSales : settled'[s] = settled[s] + A[s]
  <2>1. MaxSales \in Nat /\ Sales = 1..MaxSales
    BY ReceivablesConstants DEF Sales
  <2>2. ASSUME NEW s \in Sales
        PROVE  /\ amountDue[s] \in Nat /\ settled[s] \in Nat /\ A[s] \in Nat
               /\ amountDue'[s] = amountDue[s] - A[s] /\ settled'[s] = settled[s] + A[s]
    <3>1. amountDue[s] \in Nat /\ settled[s] \in Nat
      BY <1>1 DEF TypeOK
    <3> QED BY <1>2, <1>3, <3>1
  <2>3. ASSUME NEW s \in Sales
        PROVE  amountDue'[s] \in Int /\ settled'[s] \in Int
               /\ amountDue[s] = amountDue'[s] + A[s]
    BY <2>2
  <2> QED BY <2>1, <2>2, <2>3
<1>5. Total(amountDue, MaxSales) = Total(amountDue', MaxSales) + Total(A, MaxSales)
  BY ONLY <1>4, TotalAdd
<1>6. Total(settled', MaxSales) = Total(settled, MaxSales) + Total(A, MaxSales)
  BY ONLY <1>4, TotalAdd
<1>7. Total(amountDue', MaxSales) \in Int /\ Total(settled', MaxSales) \in Int
  BY <1>4, TotalType
<1>8. balance \in Nat /\ takenOff \in Nat
  BY <1>1 DEF TypeOK
<1>9. BalanceIsSumDue' /\ NothingUnallocated'
  BY <1>1, <1>2, <1>3, <1>5, <1>6, <1>7, <1>8 DEF BalanceIsSumDue, NothingUnallocated
<1>10. amountDue' \in [Sales -> Nat] /\ settled' \in [Sales -> Nat]
  BY <1>1, <1>2, <1>3 DEF TypeOK
<1>11. \A s \in Sales : /\ amountDue'[s] + settled'[s] = amountDue[s] + settled[s]
                        /\ amountDue[s] = 0 => amountDue'[s] = 0
  BY <1>1, <1>2, <1>3 DEF TypeOK
<1> QED BY <1>3, <1>8, <1>9, <1>10, <1>11

\* A refund is a natural number of cents, within half a cent a piece of the exact
\* price of what comes back.
LEMMA RefundRounds ==
  ASSUME TypeOK, NEW s \in Sales, NEW n \in Nat
  PROVE  /\ Refund(s, n) \in Nat
         /\ LET off == 2 * quantity[s] * Refund(s, n) - 2 * lineTotal[s] * n
            IN  -quantity[s] < off /\ off <= quantity[s]
<1> DEFINE q == quantity[s]
           x == lineTotal[s] * n
           r == Refund(s, n)
<1>1. q \in Nat /\ q > 0 /\ x \in Nat
  BY DEF TypeOK
<1>2. r = (2 * x + q) \div (2 * q)
  BY DEF Refund, TypeOK
<1> HIDE DEF q, x, r
<1>3. ASSUME NEW a \in Nat, NEW b \in Nat, b > 0
      PROVE  a \div b \in Nat /\ b * (a \div b) <= a /\ a < b * (a \div b) + b
  BY <1>3
<1>4. 2 * x + q \in Nat /\ 2 * q \in Nat /\ 2 * q > 0
  BY <1>1
<1>5. r \in Nat /\ (2 * q) * r <= 2 * x + q /\ 2 * x + q < (2 * q) * r + 2 * q
  BY <1>2, <1>3, <1>4
<1>6. -q < (2 * q) * r - 2 * x /\ (2 * q) * r - 2 * x <= q
  BY <1>1, <1>4, <1>5
<1>7. 2 * q * r = (2 * q) * r /\ 2 * lineTotal[s] * n = 2 * x
  BY <1>1, <1>5 DEF x, TypeOK
<1> QED BY <1>5, <1>6, <1>7 DEF q, r

\* A new customer owes nothing.
LEMMA InitHolds == Init => IInv /\ RefundsFollowPrice
<1> SUFFICES ASSUME Init PROVE IInv /\ RefundsFollowPrice
  OBVIOUS
<1>1. TypeOK /\ InvoicesExplained
  BY DEF Init, TypeOK, InvoicesExplained, Zeros
<1>2. MaxSales \in Nat /\ \A s \in 1..MaxSales : Zeros[s] = 0
  BY ReceivablesConstants DEF Zeros, Sales
<1>3. Total(Zeros, MaxSales) = 0
  BY <1>2, TotalZero
<1>4. BalanceIsSumDue /\ NothingUnallocated
  BY <1>3 DEF Init, BalanceIsSumDue, NothingUnallocated
<1>6. UnmadeUntouched
  BY DEF Init, UnmadeUntouched, Zeros
<1>5. RefundsFollowPrice
  BY DEF Init, RefundsFollowPrice, Zeros
<1> QED BY <1>1, <1>4, <1>5, <1>6 DEF IInv

\* An allocation moves what an invoice owes to what it was settled by.
LEMMA SettledStaysExplained ==
  ASSUME TypeOK, TypeOK', InvoicesExplained, UnmadeUntouched,
         UNCHANGED <<status, total, amountPaid>>,
         \A s \in Sales : status[s] = "none" =>
           returnedQty'[s] = returnedQty[s] /\ refunded'[s] = refunded[s],
         \A s \in Sales : amountDue'[s] + settled'[s] = amountDue[s] + settled[s],
         \A s \in Sales : amountDue[s] = 0 => amountDue'[s] = 0
  PROVE  InvoicesExplained' /\ UnmadeUntouched'
<1>1. ASSUME NEW s \in Sales
      PROVE  /\ status'[s] = status[s] /\ total'[s] = total[s]
             /\ amountPaid'[s] = amountPaid[s]
             /\ amountDue[s] \in Nat /\ amountDue'[s] \in Nat
             /\ settled[s] \in Nat /\ settled'[s] \in Nat
             /\ total[s] \in Nat /\ amountPaid[s] \in Nat
             /\ amountDue'[s] + settled'[s] = amountDue[s] + settled[s]
             /\ amountDue[s] = 0 => amountDue'[s] = 0
  BY DEF TypeOK
<1>2. InvoicesExplained'
  BY <1>1 DEF InvoicesExplained
<1>3. UnmadeUntouched'
  <2>1. ASSUME NEW s \in Sales, status[s] = "none" PROVE settled'[s] = 0
    BY <1>1, <2>1 DEF InvoicesExplained, UnmadeUntouched
  <2> QED BY <1>1, <2>1 DEF UnmadeUntouched
<1> QED BY <1>2, <1>3

\* The invariant is inductive.  A sale that stands owes its total less what was
\* paid and settled; recording, settling, voiding and returning each keep that,
\* and with it the balance as the sum of what the invoices owe.
LEMMA Inductive == IInv /\ [Next]_vars => IInv'
<1> SUFFICES ASSUME IInv, [Next]_vars PROVE IInv'
  OBVIOUS
<1>1. TypeOK /\ InvoicesExplained /\ UnmadeUntouched
  BY DEF IInv
<1>a. balance = Total(amountDue, MaxSales) /\ takenOff = Total(settled, MaxSales)
  BY DEF IInv, BalanceIsSumDue, NothingUnallocated
<1>b. /\ MaxSales \in Nat /\ Sales = 1..MaxSales
      /\ \A s \in 1..MaxSales : amountDue[s] \in Nat
  BY <1>1, ReceivablesConstants DEF TypeOK, Sales
<1>2. ASSUME NEW s \in Sales, NEW price \in 0..MaxPrice, NEW discount \in 0..MaxPrice,
             NEW down \in 0..MaxPrice, NEW n \in 1..MaxQty,
             CreateCreditSale(s, price, n, discount, down)
      PROVE  IInv'
  <2> DEFINE due == price - discount - down
  <2>1. due \in Nat /\ price \in Nat /\ price - discount \in Nat /\ down \in Nat
        /\ n \in Nat \ {0}
    BY <1>2, ReceivablesConstants DEF CreateCreditSale
  <2>2. /\ amountDue[s] = 0 /\ amountDue' = [amountDue EXCEPT ![s] = due]
        /\ balance' = balance + due
    BY <1>1, <1>2 DEF CreateCreditSale, InvoicesExplained
  <2> HIDE DEF due
  <2>3. TypeOK'
    BY <1>1, <1>2, <2>1, <2>2 DEF CreateCreditSale, TypeOK, terms
  <2>4. InvoicesExplained' /\ UnmadeUntouched'
    <3>1. ASSUME NEW r \in Sales
          PROVE  /\ status'[r] = IF r = s THEN "COMPLETED" ELSE status[r]
                 /\ total'[r] = IF r = s THEN price - discount ELSE total[r]
                 /\ amountPaid'[r] = IF r = s THEN down ELSE amountPaid[r]
                 /\ amountDue'[r] = IF r = s THEN due ELSE amountDue[r]
                 /\ settled'[r] = settled[r] /\ settled[s] = 0
                 /\ returnedQty'[r] = returnedQty[r] /\ refunded'[r] = refunded[r]
      BY <1>1, <1>2, <2>2 DEF CreateCreditSale, TypeOK, UnmadeUntouched
    <3>2. due = (price - discount) - down - 0
      BY <2>1 DEF due
    <3> QED BY <1>1, <3>1, <3>2 DEF InvoicesExplained, UnmadeUntouched
  <2>5. Total(amountDue', MaxSales) = Total(amountDue, MaxSales) + due
    <3>1. \A r \in 1..MaxSales : amountDue'[r] = IF r = s THEN amountDue[r] + due ELSE amountDue[r]
      BY <1>1, <1>b, <2>1, <2>2 DEF TypeOK
    <3>2. due \in Int /\ s \in 1..MaxSales /\ MaxSales \in Nat
          /\ \A r \in 1..MaxSales : amountDue[r] \in Int
      BY <1>b, <2>1
    <3> QED BY ONLY <3>1, <3>2, TotalChangeAt
  <2>6. BalanceIsSumDue' /\ NothingUnallocated'
    BY <1>a, <1>2, <2>2, <2>5 DEF CreateCreditSale, BalanceIsSumDue, NothingUnallocated
  <2> QED BY <2>3, <2>4, <2>6 DEF IInv
<1>3. ASSUME NEW p \in Sales \cup {NoSale}, NEW amount \in 1..balance, RecordPayment(amount, p)
      PROVE  IInv'
  <2>1. amount \in Nat /\ amount <= balance /\ Settle(amount, p)
    BY <1>1, <1>3 DEF RecordPayment, TypeOK
  <2>2. /\ balance' \in Nat /\ takenOff' \in Nat
        /\ amountDue' \in [Sales -> Nat] /\ settled' \in [Sales -> Nat]
        /\ \A s \in Sales : amountDue'[s] + settled'[s] = amountDue[s] + settled[s]
        /\ \A s \in Sales : amountDue[s] = 0 => amountDue'[s] = 0
        /\ BalanceIsSumDue' /\ NothingUnallocated'
    BY <2>1, SettleKeepsAccount
  <2>3. TypeOK'
    BY <1>1, <1>3, <2>2 DEF RecordPayment, TypeOK, terms, saleTerms
  <2>4. UNCHANGED <<status, total, amountPaid, returnedQty, refunded>>
    BY <1>3 DEF RecordPayment, saleTerms
  <2>5. InvoicesExplained' /\ UnmadeUntouched'
    BY <1>1, <2>2, <2>3, <2>4, SettledStaysExplained
  <2> QED BY <2>2, <2>3, <2>5 DEF IInv
<1>4. ASSUME NEW s \in Sales, VoidSale(s) PROVE IInv'
  <2> DEFINE d == -amountDue[s]
  <2>1. d \in Int /\ s \in 1..MaxSales /\ MaxSales \in Nat
        /\ \A r \in 1..MaxSales : amountDue[r] \in Int
    BY <1>b
  <2>2. \A r \in 1..MaxSales : amountDue'[r] = IF r = s THEN amountDue[r] + d ELSE amountDue[r]
    BY <1>1, <1>b, <1>4 DEF VoidSale, TypeOK
  <2> HIDE DEF d
  <2>3. Total(amountDue', MaxSales) = Total(amountDue, MaxSales) + d
    BY ONLY <2>1, <2>2, TotalChangeAt
  \* The clamp at zero never bites.
  <2>4. amountDue[s] <= balance
    BY <1>a, <1>b, TotalNat
  <2>5. balance' = balance - amountDue[s]
    BY <1>1, <1>4, <2>4 DEF VoidSale, AtLeastZero, TypeOK
  <2>6. TypeOK'
    BY <1>1, <1>4, <2>4, <2>5 DEF VoidSale, TypeOK, terms, saleTerms
  <2>7. InvoicesExplained' /\ UnmadeUntouched'
    BY <1>1, <1>4 DEF VoidSale, InvoicesExplained, UnmadeUntouched, TypeOK, saleTerms
  <2>8. BalanceIsSumDue' /\ NothingUnallocated'
    BY <1>1, <1>a, <1>4, <2>3, <2>5 DEF VoidSale, BalanceIsSumDue, NothingUnallocated, d, TypeOK
  <2> QED BY <2>6, <2>7, <2>8 DEF IInv
<1>5. ASSUME NEW s \in Sales, NEW n \in 1..MaxQty, ReturnSale(s, n) PROVE IInv'
  <2> DEFINE amount == Lesser(Refund(s, n), balance)
  <2>1. n \in Nat /\ Refund(s, n) \in Nat
    BY <1>1, RefundRounds
  <2>2. amount \in Nat /\ amount <= balance /\ Settle(amount, s)
    BY <1>1, <1>5, <2>1 DEF ReturnSale, Lesser, TypeOK
  <2> HIDE DEF amount
  <2>3. /\ balance' \in Nat /\ takenOff' \in Nat
        /\ amountDue' \in [Sales -> Nat] /\ settled' \in [Sales -> Nat]
        /\ \A r \in Sales : amountDue'[r] + settled'[r] = amountDue[r] + settled[r]
        /\ \A r \in Sales : amountDue[r] = 0 => amountDue'[r] = 0
        /\ BalanceIsSumDue' /\ NothingUnallocated'
    BY <2>2, SettleKeepsAccount
  <2>r. refunded' \in [Sales -> Nat] /\ returnedQty' \in [Sales -> Nat]
    BY <1>1, <1>5, <2>1 DEF ReturnSale, TypeOK
  <2>4. TypeOK'
    BY <1>1, <1>5, <2>3, <2>r DEF ReturnSale, TypeOK, terms, saleTerms
  <2>5. /\ UNCHANGED <<status, total, amountPaid>>
        /\ \A r \in Sales : status[r] = "none" =>
             returnedQty'[r] = returnedQty[r] /\ refunded'[r] = refunded[r]
    BY <1>1, <1>5 DEF ReturnSale, TypeOK, saleTerms
  <2>6. InvoicesExplained' /\ UnmadeUntouched'
    BY <1>1, <2>3, <2>4, <2>5, SettledStaysExplained
  <2> QED BY <2>3, <2>4, <2>6 DEF IInv
<1>6. ASSUME NEW limit \in Limits \cup {Unlimited}, NEW active \in BOOLEAN,
             UpdateCustomer(limit, active)
      PROVE  IInv'
  BY <1>1, <1>a, <1>6
  DEF UpdateCustomer, IInv, TypeOK, InvoicesExplained, BalanceIsSumDue, NothingUnallocated,
      UnmadeUntouched, saleTerms
<1>7. CASE UNCHANGED vars
  BY <1>1, <1>a, <1>7
  DEF vars, terms, saleTerms, IInv, TypeOK, InvoicesExplained, BalanceIsSumDue,
      NothingUnallocated, UnmadeUntouched
<1> QED BY <1>2, <1>3, <1>4, <1>5, <1>6, <1>7 DEF Next

\* The inductive invariant holds of every account.
THEOREM InvariantHolds == Spec => []IInv
BY InitHolds, Inductive, PTL DEF Spec

\* No balance, invoice or refund is ever negative: in particular an invoice is
\* never settled by more than it owes.
THEOREM TypeCorrect == Spec => []TypeOK
BY InvariantHolds, PTL DEF IInv

\* "balance == SUM(amountDue)", the identity the schema and the services state.
THEOREM BalanceStaysSumDue == Spec => []BalanceIsSumDue
BY InvariantHolds, PTL DEF IInv

\* What is repaid or credited always comes off some invoice: an allocation never
\* runs out of invoices to settle.
THEOREM NothingLeftUnallocated == Spec => []NothingUnallocated
BY InvariantHolds, PTL DEF IInv

-----------------------------------------------------------------------------
(* Properties of steps. *)

\* Repayments and credits from returns settle the earmarked invoice, then the
\* oldest: no invoice is touched past one that is left open.
THEOREM SettlesOldestFirst == Spec => OldestFirst
<1>1. ASSUME IInv, NEW amount \in Nat, NEW p \in Sales \cup {NoSale}, amount <= balance,
             Settle(amount, p)
      PROVE  SettledInOrder(p)
  <2>1. TypeOK /\ InvoicesExplained /\ balance = Total(amountDue, MaxSales)
    BY <1>1 DEF IInv, BalanceIsSumDue
  <2>2. \A s \in Sales \ {p} :
          AllocateToInvoices(amount, p)[s] > 0 =>
            \A r \in Sales : (r = p \/ r < s) =>
              AllocateToInvoices(amount, p)[r] = amountDue[r]
    BY <1>1, <2>1, AllocationTakes
  <2>3. \A s \in Sales : AllocateToInvoices(amount, p)[s] \in 0..amountDue[s]
    BY <1>1, <2>1, AllocationTakes
  <2>4. ASSUME NEW s \in Sales
        PROVE  /\ amountDue[s] \in Nat
               /\ amountDue'[s] = amountDue[s] - AllocateToInvoices(amount, p)[s]
    BY <1>1, <2>1 DEF Settle, TypeOK
  <2> QED BY <2>2, <2>3, <2>4 DEF SettledInOrder
<1>2. ASSUME IInv, NEW p \in Sales \cup {NoSale}, Allocating(p) PROVE SettledInOrder(p)
  <2>1. CASE \E amount \in 1..balance : RecordPayment(amount, p)
    <3>1. PICK amount \in 1..balance : RecordPayment(amount, p)
      BY <2>1
    <3>2. amount \in Nat /\ amount <= balance /\ Settle(amount, p)
      BY <1>2, <3>1 DEF RecordPayment, IInv, TypeOK
    <3> QED BY <1>1, <1>2, <3>2
  <2>2. CASE p # NoSale /\ \E n \in 1..MaxQty : ReturnSale(p, n)
    <3>1. PICK n \in 1..MaxQty : ReturnSale(p, n)
      BY <2>2
    <3>2. p \in Sales /\ n \in Nat /\ TypeOK
      BY <1>2, <2>2, <3>1 DEF IInv
    <3>3. Refund(p, n) \in Nat
      BY <3>2, RefundRounds
    <3>4. /\ Lesser(Refund(p, n), balance) \in Nat
          /\ Lesser(Refund(p, n), balance) <= balance
      BY <3>2, <3>3 DEF Lesser, TypeOK
    <3>5. Settle(Lesser(Refund(p, n), balance), p)
      BY <3>1 DEF ReturnSale
    <3> QED BY <1>1, <1>2, <3>4, <3>5
  <2> QED BY <1>2, <2>1, <2>2 DEF Allocating
<1>3. IInv /\ [Next]_vars =>
        [\A p \in Sales \cup {NoSale} : Allocating(p) => SettledInOrder(p)]_vars
  BY <1>2
<1> QED BY <1>3, InvariantHolds, PTL DEF Spec, OldestFirst

\* However a line comes back, piece by piece or at once, what was refunded stays
\* within half a cent a piece of its price.
THEOREM RefundsStayClose == Spec => []RefundsFollowPrice
<1>1. IInv /\ RefundsFollowPrice /\ [Next]_vars => RefundsFollowPrice'
  <2> SUFFICES ASSUME IInv, RefundsFollowPrice, [Next]_vars PROVE RefundsFollowPrice'
    OBVIOUS
  <2>1. TypeOK /\ UnmadeUntouched
    BY DEF IInv
  <2>2. ASSUME UNCHANGED <<saleTerms, returnedQty, refunded>> PROVE RefundsFollowPrice'
    BY <2>2 DEF RefundsFollowPrice, saleTerms
  <2>3. ASSUME NEW s \in Sales, NEW price \in 0..MaxPrice, NEW discount \in 0..MaxPrice,
               NEW down \in 0..MaxPrice, NEW n \in 1..MaxQty,
               CreateCreditSale(s, price, n, discount, down)
        PROVE  RefundsFollowPrice'
    <3>1. ASSUME NEW r \in Sales, r # s
          PROVE  /\ lineTotal'[r] = lineTotal[r] /\ quantity'[r] = quantity[r]
                 /\ returnedQty'[r] = returnedQty[r] /\ refunded'[r] = refunded[r]
      BY <2>1, <2>3, <3>1 DEF CreateCreditSale, TypeOK
    <3>2. /\ lineTotal'[s] = price /\ quantity'[s] = n
          /\ returnedQty'[s] = 0 /\ refunded'[s] = 0
      BY <2>1, <2>3 DEF CreateCreditSale, TypeOK, UnmadeUntouched
    <3>3. price \in Nat /\ n \in Nat
      BY ReceivablesConstants
    <3>4. 2 * n * 0 - 2 * price * 0 \in (-(n * 0))..(n * 0)
      BY <3>3
    <3> QED BY <3>1, <3>2, <3>4 DEF RefundsFollowPrice
  <2>4. ASSUME NEW s \in Sales, NEW n \in 1..MaxQty, ReturnSale(s, n)
        PROVE  RefundsFollowPrice'
    <3> DEFINE q == quantity[s]
               x == lineTotal[s]
               k == returnedQty[s]
               g == refunded[s]
               r == Refund(s, n)
    <3>1. q \in Nat /\ q > 0 /\ x \in Nat /\ k \in Nat /\ g \in Nat /\ n \in Nat /\ n > 0
      BY <2>1 DEF TypeOK
    <3>2. r \in Nat /\ -q < 2 * q * r - 2 * x * n /\ 2 * q * r - 2 * x * n <= q
      BY <2>1, <3>1, RefundRounds
    <3>3. 2 * q * g - 2 * x * k \in (-(q * k))..(q * k)
      BY DEF RefundsFollowPrice
    <3>4. ASSUME NEW t \in Sales, t # s
          PROVE  /\ lineTotal'[t] = lineTotal[t] /\ quantity'[t] = quantity[t]
                 /\ returnedQty'[t] = returnedQty[t] /\ refunded'[t] = refunded[t]
      BY <2>1, <2>4, <3>4 DEF ReturnSale, TypeOK, saleTerms
    <3>5. /\ lineTotal'[s] = x /\ quantity'[s] = q
          /\ returnedQty'[s] = k + n /\ refunded'[s] = g + r
      BY <2>1, <2>4 DEF ReturnSale, TypeOK, saleTerms
    <3> HIDE DEF q, x, k, g, r
    <3>6. 2 * q * (g + r) - 2 * x * (k + n) \in (-(q * (k + n)))..(q * (k + n))
      <4>1. /\ 2 * q * (g + r) = 2 * q * g + 2 * q * r
            /\ 2 * x * (k + n) = 2 * x * k + 2 * x * n
            /\ q * (k + n) = q * k + q * n
            /\ q <= q * n
        BY <3>1, <3>2
      <4>2. /\ 2 * q * g \in Int /\ 2 * q * r \in Int /\ 2 * x * k \in Int
            /\ 2 * x * n \in Int /\ q * k \in Int /\ q * n \in Int /\ q \in Int
        BY <3>1, <3>2
      <4> HIDE <3>1
      <4> QED BY <3>2, <3>3, <4>1, <4>2
    <3> QED BY <3>4, <3>5, <3>6 DEF RefundsFollowPrice
  <2> QED
    BY <2>2, <2>3, <2>4
    DEF Next, RecordPayment, VoidSale, UpdateCustomer, vars
<1> QED BY <1>1, InitHolds, InvariantHolds, PTL DEF Spec

\* Only a sale raises a balance, and only a sale within the limit.
THEOREM CreditLimitKept == Spec => CreditLimitRespected
<1>1. ASSUME IInv, [Next]_vars, ~ OverLimit, OverLimit', creditLimit' = creditLimit
      PROVE  FALSE
  <2>1. TypeOK /\ balance = Total(amountDue, MaxSales)
    BY <1>1 DEF IInv, BalanceIsSumDue
  <2>2. balance' > balance
    <3>1. creditLimit \in Int /\ balance \in Nat /\ balance' > creditLimit
          /\ balance <= creditLimit
      BY <1>1, <2>1, ReceivablesConstants DEF OverLimit, TypeOK, Unlimited
    <3>2. IInv'
      BY <1>1, Inductive
    <3> QED BY <3>1, <3>2 DEF IInv, TypeOK
  <2>3. ASSUME NEW s \in Sales, NEW price \in 0..MaxPrice, NEW discount \in 0..MaxPrice,
               NEW down \in 0..MaxPrice, NEW n \in 1..MaxQty,
               CreateCreditSale(s, price, n, discount, down)
        PROVE  FALSE
    <3>1. balance' = balance + (price - discount - down)
          /\ WithinLimit(price - discount - down)
      BY <2>3 DEF CreateCreditSale
    <3>2. price - discount - down \in Int /\ balance \in Int
      BY <2>1, ReceivablesConstants DEF TypeOK
    <3>3. creditLimit \in Int /\ creditLimit # Unlimited
      BY <1>1, <2>1, ReceivablesConstants DEF OverLimit, TypeOK, Unlimited
    <3> QED BY <1>1, <2>2, <3>1, <3>2, <3>3 DEF WithinLimit, OverLimit
  <2>4. ASSUME NEW p \in Sales \cup {NoSale}, NEW amount \in 1..balance, RecordPayment(amount, p)
        PROVE  FALSE
    BY <2>1, <2>2, <2>4 DEF RecordPayment, Settle, TypeOK
  <2>5. ASSUME NEW s \in Sales, VoidSale(s) PROVE FALSE
    <3>1. amountDue[s] \in Nat /\ balance \in Nat
      BY <2>1 DEF TypeOK
    <3> QED BY <2>2, <2>5, <3>1 DEF VoidSale, AtLeastZero
  <2>6. ASSUME NEW s \in Sales, NEW n \in 1..MaxQty, ReturnSale(s, n) PROVE FALSE
    <3>1. Refund(s, n) \in Nat /\ balance \in Nat
      BY <2>1, RefundRounds DEF TypeOK
    <3> QED BY <2>2, <2>6, <3>1 DEF ReturnSale, Settle, Lesser
  <2>7. ASSUME UNCHANGED balance PROVE FALSE
    BY <2>1, <2>2, <2>7 DEF TypeOK
  <2>8. CASE \E limit \in Limits \cup {Unlimited}, active \in BOOLEAN : UpdateCustomer(limit, active)
    BY <2>7, <2>8 DEF UpdateCustomer
  <2>9. CASE UNCHANGED vars
    BY <2>7, <2>9 DEF vars
  <2> QED
    BY <1>1, <2>3, <2>4, <2>5, <2>6, <2>8, <2>9 DEF Next
<1>2. IInv /\ [Next]_vars =>
        [~ OverLimit /\ OverLimit' => creditLimit' # creditLimit]_vars
  BY <1>1
<1> QED BY <1>2, InvariantHolds, PTL DEF Spec, CreditLimitRespected
=============================================================================
