---------------------------- MODULE Receivables -----------------------------
(***************************************************************************)
(* One customer's credit account: the denormalised Customer.balance, the    *)
(* amountDue of every credit sale, and the operations that move them        *)
(* (selling on credit, repaying, voiding, returning, editing the customer). *)
(*                                                                          *)
(* Each operation runs inside PrismaService.runSerializable and is one      *)
(* action; one the code refuses is not enabled.  Customers share no account *)
(* state.  The till is taken to be open and the month not closed; modules   *)
(* Till and Periods are about those.  Money is in cents, and a sale has one *)
(* line.  Sales are numbered in the order they were created, which is the   *)
(* order allocateToInvoices settles them in.                                *)
(***************************************************************************)
EXTENDS Integers, Sums

CONSTANTS
  MaxSales,   \* credit sales the customer may ever make
  MaxPrice,   \* largest line total, in cents
  MaxQty,     \* largest quantity of a line
  Limits      \* credit limits the owner may set

ASSUME ReceivablesConstants ==
  /\ MaxSales \in Nat \ {0}
  /\ MaxPrice \in Nat
  /\ MaxQty \in Nat \ {0}
  /\ Limits \subseteq Nat

Sales == 1..MaxSales
NoSale == 0
Unlimited == -1      \* Customer.creditLimit is null

VARIABLES
  balance,      \* Customer.balance
  creditLimit,  \* Customer.creditLimit
  isActive,     \* Customer.isActive
  status,       \* Sale.status ("none": not made yet)
  lineTotal,    \* SaleItem.lineTotal, after the line's own discount
  quantity,     \* SaleItem.quantity
  returnedQty,  \* SaleItem.returnedQuantity
  total,        \* Sale.total, after the order discount as well
  amountPaid,   \* Sale.amountPaid: the down payment
  amountDue,    \* Sale.amountDue
  refunded,     \* sum of SaleReturn.totalRefund of the sale
  settled,      \* history: taken off the sale's amountDue by allocations
  takenOff      \* history: repaid, or credited by returns, on the account

terms == <<creditLimit, isActive>>
saleTerms == <<lineTotal, quantity, total, amountPaid>>
vars == <<balance, terms, saleTerms, status, returnedQty, amountDue, refunded,
          settled, takenOff>>

Zeros == [s \in Sales |-> 0]

Init ==
  /\ balance = 0 /\ takenOff = 0
  /\ creditLimit \in Limits \cup {Unlimited}
  /\ isActive = TRUE
  /\ status = [s \in Sales |-> "none"]
  /\ lineTotal = Zeros /\ quantity = [s \in Sales |-> 1] /\ returnedQty = Zeros
  /\ total = Zeros /\ amountPaid = Zeros /\ amountDue = Zeros
  /\ refunded = Zeros /\ settled = Zeros

-----------------------------------------------------------------------------
(* CustomersService.allocateToInvoices. *)

\* The open invoices, oldest first.
OpenDue == [s \in Sales |-> IF status[s] = "COMPLETED" THEN amountDue[s] ELSE 0]

\* What the earmarked sale takes, before the others.
Earmarked(amount, p) == IF p \in Sales THEN Lesser(amount, OpenDue[p]) ELSE 0

\* Mutant: newest invoice first.
AllocateNewest(amount, p) ==
  LET after == [s \in Sales |-> Total(OpenDue, MaxSales) - RunningSum(OpenDue, MaxSales)[s]]
  IN  [s \in Sales |-> Lesser(OpenDue[s], AtLeastZero(amount - after[s]))]

\* What each invoice is settled by: the earmarked one first, then oldest first.
AllocateToInvoices(amount, p) ==
  LET others == [s \in Sales |-> IF s = p THEN 0 ELSE OpenDue[s]]
      rest == Greedy(others, MaxSales, amount - Earmarked(amount, p))
  IN  [s \in Sales |-> IF s = p THEN Earmarked(amount, p) ELSE rest[s]]

\* The allocation and the balance that goes with it.
Settle(amount, p) ==
  /\ balance' = balance - amount
  /\ amountDue' = [s \in Sales |-> amountDue[s] - AllocateToInvoices(amount, p)[s]]
  /\ settled' = [s \in Sales |-> settled[s] + AllocateToInvoices(amount, p)[s]]
  /\ takenOff' = takenOff + amount

-----------------------------------------------------------------------------
(* SalesService.create with paymentMethod CREDIT. *)

\* The limit only binds a sale that leaves something owing.
WithinLimit(due) ==
  creditLimit = Unlimited \/ due = 0 \/ balance + due <= creditLimit

CreateCreditSale(s, price, n, discount, down) ==
  LET due == price - discount - down IN
  /\ status[s] = "none" /\ \A r \in 1..(s - 1) : status[r] # "none"
  /\ isActive
  /\ discount <= price
  /\ down <= price - discount
  /\ WithinLimit(due)
  /\ status' = [status EXCEPT ![s] = "COMPLETED"]
  /\ lineTotal' = [lineTotal EXCEPT ![s] = price]
  /\ quantity' = [quantity EXCEPT ![s] = n]
  /\ total' = [total EXCEPT ![s] = price - discount]
  /\ amountPaid' = [amountPaid EXCEPT ![s] = down]
  /\ amountDue' = [amountDue EXCEPT ![s] = due]
  /\ balance' = balance + due
  /\ UNCHANGED <<terms, returnedQty, refunded, settled, takenOff>>

(* CustomersService.recordPayment, earmarked for sale p or for none. *)

RecordPayment(amount, p) ==
  /\ amount <= balance
  /\ p # NoSale => status[p] # "none"
  /\ Settle(amount, p)
  /\ UNCHANGED <<terms, saleTerms, status, returnedQty, refunded>>

(* SalesService.void: what is still owed on the sale is no longer owed. *)

\* Mutant: the customer's balance is left as it was.
VoidKeepsBalance(s) ==
  /\ status[s] = "COMPLETED"
  /\ returnedQty[s] = 0
  /\ amountDue' = [amountDue EXCEPT ![s] = 0]
  /\ status' = [status EXCEPT ![s] = "VOIDED"]
  /\ UNCHANGED <<balance, terms, saleTerms, returnedQty, refunded, settled, takenOff>>

\* Mutant: the voided sale keeps its amountDue.
VoidKeepsDue(s) ==
  /\ status[s] = "COMPLETED"
  /\ returnedQty[s] = 0
  /\ balance' = AtLeastZero(balance - amountDue[s])
  /\ status' = [status EXCEPT ![s] = "VOIDED"]
  /\ UNCHANGED <<terms, saleTerms, returnedQty, amountDue, refunded, settled, takenOff>>

VoidSale(s) ==
  /\ status[s] = "COMPLETED"
  /\ returnedQty[s] = 0
  /\ balance' = AtLeastZero(balance - amountDue[s])
  /\ amountDue' = [amountDue EXCEPT ![s] = 0]
  /\ status' = [status EXCEPT ![s] = "VOIDED"]
  /\ UNCHANGED <<terms, saleTerms, returnedQty, refunded, settled, takenOff>>

(* SalesService.returnSale: refund at the line's net unit price, rounded half *)
(* up; taken off what the customer owes, this sale first, and the rest in cash. *)

\* Mutant: the whole line's price whatever part of it comes back.
RefundWholeLine(s, n) == lineTotal[s]

Refund(s, n) == (2 * lineTotal[s] * n + quantity[s]) \div (2 * quantity[s])

ReturnSale(s, n) ==
  /\ status[s] = "COMPLETED"
  /\ n <= quantity[s] - returnedQty[s]
  /\ Settle(Lesser(Refund(s, n), balance), s)
  /\ returnedQty' = [returnedQty EXCEPT ![s] = @ + n]
  /\ refunded' = [refunded EXCEPT ![s] = @ + Refund(s, n)]
  /\ UNCHANGED <<terms, saleTerms, status>>

(* CustomersService.update: the terms may change whatever is owed. *)

UpdateCustomer(limit, active) ==
  /\ creditLimit' = limit
  /\ isActive' = active
  /\ UNCHANGED <<balance, saleTerms, status, returnedQty, amountDue, refunded,
                 settled, takenOff>>

Next ==
  \/ \E s \in Sales, price, discount, down \in 0..MaxPrice, n \in 1..MaxQty :
       CreateCreditSale(s, price, n, discount, down)
  \/ \E p \in Sales \cup {NoSale}, amount \in 1..balance : RecordPayment(amount, p)
  \/ \E s \in Sales : VoidSale(s) \/ \E n \in 1..MaxQty : ReturnSale(s, n)
  \/ \E limit \in Limits \cup {Unlimited}, active \in BOOLEAN : UpdateCustomer(limit, active)

Spec == Init /\ [][Next]_vars

-----------------------------------------------------------------------------
TypeOK ==
  /\ balance \in Nat /\ takenOff \in Nat
  /\ creditLimit \in Limits \cup {Unlimited}
  /\ isActive \in BOOLEAN
  /\ status \in [Sales -> {"none", "COMPLETED", "VOIDED"}]
  /\ lineTotal \in [Sales -> Nat] /\ quantity \in [Sales -> Nat \ {0}]
  /\ returnedQty \in [Sales -> Nat]
  /\ total \in [Sales -> Nat] /\ amountPaid \in [Sales -> Nat]
  /\ amountDue \in [Sales -> Nat]
  /\ refunded \in [Sales -> Nat] /\ settled \in [Sales -> Nat]

\* "Maintains balance == SUM(amountDue)": the denormalised balance of the
\* customer is what the invoices say is owed, however sales, earmarked
\* repayments, voids and returns interleave.
BalanceIsSumDue == balance = Total(amountDue, MaxSales)

\* What is repaid, or credited by a return, comes off some invoice, whatever was
\* sold, returned and voided before: recordPayment compares the amount with the
\* balance only, and allocateToInvoices stops without a word when it finds no
\* more invoices.
NothingUnallocated == takenOff = Total(settled, MaxSales)

\* Helpers of the proof.  An invoice that stands owes its total less what was
\* paid and settled, one that does not stand owes nothing; and nothing happens
\* to a sale before it is made.
InvoicesExplained ==
  \A s \in Sales :
    IF status[s] = "COMPLETED"
      THEN amountDue[s] = total[s] - amountPaid[s] - settled[s]
      ELSE amountDue[s] = 0

UnmadeUntouched ==
  \A s \in Sales :
    status[s] = "none" => settled[s] = 0 /\ returnedQty[s] = 0 /\ refunded[s] = 0

IInv ==
  TypeOK /\ BalanceIsSumDue /\ InvoicesExplained /\ NothingUnallocated /\ UnmadeUntouched

\* However a line's quantity is split over returns, their refunds differ from
\* the line's price by at most half a cent a piece.
RefundsFollowPrice ==
  \A s \in Sales :
    LET exact == 2 * lineTotal[s] * returnedQty[s]
        given == 2 * quantity[s] * refunded[s]
        slack == quantity[s] * returnedQty[s]
    IN  given - exact \in (-slack)..slack

\* Only a lower limit takes a customer from within the credit limit to beyond it.
OverLimit == creditLimit # Unlimited /\ balance > creditLimit

CreditLimitRespected ==
  [][~ OverLimit /\ OverLimit' => creditLimit' # creditLimit]_vars

\* An allocation settles the earmarked invoice first, then the oldest: any other
\* invoice it touches has the earmarked one and every older one settled.
SettledInOrder(p) ==
  \A s \in Sales \ {p} :
    amountDue'[s] < amountDue[s] =>
      \A r \in Sales : (r = p \/ r < s) => amountDue'[r] = 0

Allocating(p) ==
  \/ \E amount \in 1..balance : RecordPayment(amount, p)
  \/ p # NoSale /\ \E n \in 1..MaxQty : ReturnSale(p, n)

OldestFirst ==
  [][\A p \in Sales \cup {NoSale} : Allocating(p) => SettledInOrder(p)]_vars

-----------------------------------------------------------------------------
(* What the repository says and the code does not keep. *)

\* SalesService.returnSale: "refunds the net (post-discount) amount from the
\* till", so a sale never gives back more than its total, rounding aside.
RefundWithinTotal == \A s \in Sales : 2 * refunded[s] <= 2 * total[s] + returnedQty[s]
=============================================================================
