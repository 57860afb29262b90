------------------------------ MODULE Payables -------------------------------
(***************************************************************************)
(* What the shop owes its suppliers: the denormalised Supplier.balance, the  *)
(* amountDue of every purchase, and the operations that move them (buying,   *)
(* paying a supplier, undoing a purchase).                                   *)
(*                                                                          *)
(* Each operation runs inside PrismaService.runSerializable and is one       *)
(* action; one the code refuses is not enabled.  A purchase can also not be  *)
(* undone for its month, its till or its stock: modules Periods, Till and    *)
(* Inventory are about those, and here it may be refused at any time by not  *)
(* being taken.                                                              *)
(***************************************************************************)
EXTENDS Integers, Sums

CONSTANTS
  Suppliers,
  NoSupplier,    \* Purchase.supplierId is null
  MaxPurchases,  \* purchases ever recorded
  MaxCost        \* largest totalCost

ASSUME PayablesConstants ==
  /\ NoSupplier \notin Suppliers
  /\ MaxPurchases \in Nat \ {0}
  /\ MaxCost \in Nat

Purchases == 1..MaxPurchases
NoPurchase == 0

VARIABLES
  supplierBalance, \* Supplier.balance
  paid,        \* sum of the supplier's SupplierPayment rows
  status,      \* Purchase.status ("none": not recorded yet)
  supplier,    \* Purchase.supplierId
  totalCost,   \* Purchase.totalCost
  amountPaid,  \* Purchase.amountPaid: what was paid for it at once
  amountDue,   \* Purchase.amountDue
  earmarked    \* sum of the SupplierPayment rows that name the purchase

terms == <<supplier, totalCost, amountPaid>>
payablesVars == <<supplierBalance, paid, status, terms, amountDue, earmarked>>

Zeros == [p \in Purchases |-> 0]

PayablesInit ==
  /\ supplierBalance = [s \in Suppliers |-> 0] /\ paid = [s \in Suppliers |-> 0]
  /\ status = [p \in Purchases |-> "none"]
  /\ supplier = [p \in Purchases |-> NoSupplier]
  /\ totalCost = Zeros /\ amountPaid = Zeros /\ amountDue = Zeros /\ earmarked = Zeros

-----------------------------------------------------------------------------
\* PurchasesService.create: in cash, or on credit with a part paid at once.
CreatePurchase(p, s, cost, now) ==
  /\ status[p] = "none" /\ \A q \in 1..(p - 1) : status[q] # "none"
  /\ now <= cost
  /\ now < cost => s # NoSupplier
  /\ status' = [status EXCEPT ![p] = "COMPLETED"]
  /\ supplier' = [supplier EXCEPT ![p] = s]
  /\ totalCost' = [totalCost EXCEPT ![p] = cost]
  /\ amountPaid' = [amountPaid EXCEPT ![p] = now]
  /\ amountDue' = [amountDue EXCEPT ![p] = cost - now]
  /\ supplierBalance' = [t \in Suppliers |-> supplierBalance[t] + (IF t = s THEN cost - now ELSE 0)]
  /\ UNCHANGED <<paid, earmarked>>

\* Mutant: what is owed is not looked at.
OverpaySupplier(s, n, p) ==
  /\ p # NoPurchase => supplier[p] = s
  /\ supplierBalance' = [supplierBalance EXCEPT ![s] = AtLeastZero(@ - n)]
  /\ paid' = [paid EXCEPT ![s] = @ + n]
  /\ earmarked' = [q \in Purchases |-> earmarked[q] + (IF q = p THEN n ELSE 0)]
  /\ UNCHANGED <<status, terms, amountDue>>

\* SuppliersService.recordPayment.  The purchase it names, if any, only has to be
\* one of the supplier's: standing or undone, paid or not.
RecordPayment(s, n, p) ==
  /\ n <= supplierBalance[s]
  /\ p # NoPurchase => supplier[p] = s
  /\ supplierBalance' = [supplierBalance EXCEPT ![s] = @ - n]
  /\ paid' = [paid EXCEPT ![s] = @ + n]
  /\ earmarked' = [q \in Purchases |-> earmarked[q] + (IF q = p THEN n ELSE 0)]
  /\ UNCHANGED <<status, terms, amountDue>>

\* Mutant: the purchase goes on being owed.
VoidKeepsDue(p) ==
  /\ status[p] = "COMPLETED"
  /\ earmarked[p] = 0
  /\ status' = [status EXCEPT ![p] = "VOIDED"]
  /\ supplierBalance' = [t \in Suppliers |->
       IF t = supplier[p] THEN AtLeastZero(supplierBalance[t] - amountDue[p]) ELSE supplierBalance[t]]
  /\ UNCHANGED <<paid, terms, amountDue, earmarked>>

\* PurchasesService.void: refused once a payment names the purchase; the balance
\* is clamped at zero, for it may have been paid down by payments that name none.
VoidPurchase(p) ==
  /\ status[p] = "COMPLETED"
  /\ earmarked[p] = 0
  /\ status' = [status EXCEPT ![p] = "VOIDED"]
  /\ supplierBalance' = [t \in Suppliers |->
       IF t = supplier[p] THEN AtLeastZero(supplierBalance[t] - amountDue[p]) ELSE supplierBalance[t]]
  /\ amountDue' = [amountDue EXCEPT ![p] = 0]
  /\ UNCHANGED <<paid, terms, earmarked>>

PayablesNext ==
  \/ \E p \in Purchases, s \in Suppliers \cup {NoSupplier}, cost, now \in 0..MaxCost :
       CreatePurchase(p, s, cost, now)
  \/ \E s \in Suppliers, n \in 1..(MaxCost * MaxPurchases), p \in Purchases \cup {NoPurchase} :
       RecordPayment(s, n, p)
  \/ \E p \in Purchases : VoidPurchase(p)

PayablesSpec == PayablesInit /\ [][PayablesNext]_payablesVars

-----------------------------------------------------------------------------
PayablesTypeOK ==
  /\ supplierBalance \in [Suppliers -> Nat] /\ paid \in [Suppliers -> Nat]
  /\ status \in [Purchases -> {"none", "COMPLETED", "VOIDED"}]
  /\ supplier \in [Purchases -> Suppliers \cup {NoSupplier}]
  /\ totalCost \in [Purchases -> Nat] /\ amountPaid \in [Purchases -> Nat]
  /\ amountDue \in [Purchases -> Nat] /\ earmarked \in [Purchases -> Nat]

Of(s, f) == [p \in Purchases |-> IF supplier[p] = s THEN f[p] ELSE 0]

SumDue(s) == Total(Of(s, amountDue), MaxPurchases)

\* Credit ever taken from the supplier, on purchases undone since as well.
Credit == [p \in Purchases |-> totalCost[p] - amountPaid[p]]
EverOwed(s) == Total(Of(s, Credit), MaxPurchases)

\* A purchase not recorded yet owes nothing.
Unrecorded ==
  \A p \in Purchases :
    status[p] = "none" => totalCost[p] = 0 /\ amountPaid[p] = 0 /\ amountDue[p] = 0

\* The balance never claims more than the purchases that stand, and falls short
\* of them by no more than was paid, whatever was undone after it was paid.
BalanceExplained ==
  \A s \in Suppliers : SumDue(s) - paid[s] <= supplierBalance[s] /\ supplierBalance[s] <= SumDue(s)

\* However purchases are undone around the payments, no supplier is paid more
\* than the credit ever taken from it.
NeverOverpaid == \A s \in Suppliers : paid[s] + supplierBalance[s] <= EverOwed(s)

PayablesInv == PayablesTypeOK /\ Unrecorded /\ BalanceExplained /\ NeverOverpaid

-----------------------------------------------------------------------------
(* What the repository says and the code does not keep. *)

\* PurchasesService.void: "Clearing amountDue keeps supplier.balance ==
\* SUM(amountDue) true."
BalanceIsSumDue == \A s \in Suppliers : supplierBalance[s] = SumDue(s)
=============================================================================
