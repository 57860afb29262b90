-------------------------------- MODULE Banking --------------------------------
(***************************************************************************)
(* Where the shop's money is: the drawer of the shared till, the cash held   *)
(* at the shop, the bank, and loans to shop members.                         *)
(*                                                                          *)
(* Held cash and bank are ledgers; their balance is the sum of their rows,   *)
(* and is what is kept here.  What runs inside runSerializable is one        *)
(* action.  Correcting a ledger, recording its opening balance and deleting  *)
(* an expense check first and write later: each is a request of two actions. *)
(*                                                                          *)
(* The drawer here is one number, what it should hold while the till is open *)
(* and what stayed in it while it is closed; module Till is about sessions   *)
(* and how that number is worked out.  A bill here is paid from held cash;   *)
(* paying one from the till is part of the drawer's own trade.               *)
(***************************************************************************)
EXTENDS Integers, Sums

CONSTANTS
  Requests,   \* requests in flight at once
  MaxLoans,   \* loans ever issued
  MaxBills,   \* expenses ever recorded that held cash pays or may pay
  MaxAmount,  \* largest amount of one row, loans aside
  MaxLoan,    \* largest loan
  MaxDrawer,  \* most money the drawer is followed to hold, or to owe
  MaxHeld     \* most money a ledger is followed to hold, or to owe

ASSUME BankingConstants ==
  /\ MaxLoans \in Nat \ {0}
  /\ MaxBills \in Nat \ {0}
  /\ MaxAmount \in Nat \ {0}
  /\ MaxLoan \in Nat \ {0}
  /\ MaxDrawer \in Nat
  /\ MaxHeld \in Nat

Ledgers == {"bank", "hand"}
Loans == 1..MaxLoans
Bills == 1..MaxBills
Amounts == 1..MaxAmount
Signed == ((-MaxAmount)..MaxAmount) \ {0}

VARIABLES
  tillOpen,    \* whether a session is open
  drawer,      \* what the drawer holds
  balance,     \* SUM(amount) of each ledger
  openings,    \* OPENING_BALANCE rows of each ledger
  lent,        \* Loan.amount (0: not issued yet)
  repaid,      \* sum of the loan's LoanRepayment rows
  loanStatus,  \* Loan.status
  bill,        \* whether each Expense row exists
  due,         \* Expense.amountDue
  spentOn,     \* held cash SPENT rows that name the expense
  spentLater,  \* held cash SPENT rows that name one of its payments
  request,     \* what each request in flight has checked and is about to write
  earned,      \* history: net worth that trade and corrections brought in
  stray        \* history: held cash spent on bills since deleted, not returned

till == <<tillOpen, drawer>>
ledgerVars == <<balance, openings>>
loanVars == <<lent, repaid, loanStatus>>
billVars == <<bill, due, spentOn, spentLater, stray>>
vars == <<till, ledgerVars, loanVars, billVars, request, earned>>

Asks(what, ledger, n, b) == [do |-> what, ledger |-> ledger, amount |-> n, bill |-> b]

Idle == Asks("idle", "bank", 0, 0)

RequestType ==
  [do : {"idle", "opening", "correct", "delete"},
   ledger : Ledgers, amount : Int, bill : Bills \cup {0}]

Init ==
  /\ tillOpen = FALSE /\ drawer = 0
  /\ balance = [k \in Ledgers |-> 0] /\ openings = [k \in Ledgers |-> 0]
  /\ lent = [l \in Loans |-> 0] /\ repaid = [l \in Loans |-> 0]
  /\ loanStatus = [l \in Loans |-> "OUTSTANDING"]
  /\ bill = [b \in Bills |-> "none"] /\ due = [b \in Bills |-> 0]
  /\ spentOn = [b \in Bills |-> 0] /\ spentLater = [b \in Bills |-> 0]
  /\ request = [r \in Requests |-> Idle]
  /\ earned = 0 /\ stray = 0

-----------------------------------------------------------------------------
(* assertTillCovers and the two assertCovers: a pocket never gives more than *)
(* it holds.                                                                 *)

TillCovers(n) == n <= drawer
Covers(ledger, n) == n <= balance[ledger]

AddToLedger(ledger, n) == balance' = [balance EXCEPT ![ledger] = @ + n]

\* Money going from one ledger to the other.
MoveBetween(from, to, n) ==
  balance' = [balance EXCEPT ![from] = @ - n, ![to] = @ + n]

DrawerInRange(n) == n \in (-MaxDrawer)..MaxDrawer
InRange(n) == n \in (-MaxHeld)..MaxHeld

-----------------------------------------------------------------------------
(* The till, as seen from here. *)

OpenTill(float) ==
  /\ ~ tillOpen
  /\ tillOpen' = TRUE
  /\ drawer' = float
  /\ earned' = earned + float - drawer
  /\ UNCHANGED <<ledgerVars, loanVars, billVars, request>>

\* Sales, refunds, payments, purchases, expenses, deposits and withdrawals.
TradeThroughTill(n) ==
  /\ tillOpen
  /\ DrawerInRange(drawer + n)
  /\ drawer' = drawer + n
  /\ earned' = earned + n
  /\ UNCHANGED <<tillOpen, ledgerVars, loanVars, billVars, request>>

\* CashService.close: what is taken out after the count is held or banked.
CloseTill(actual, withdrawal, to) ==
  /\ tillOpen
  /\ withdrawal <= actual
  /\ InRange(balance[to] + withdrawal)
  /\ tillOpen' = FALSE
  /\ drawer' = actual - withdrawal
  /\ AddToLedger(to, withdrawal)
  /\ earned' = earned + actual - drawer
  /\ UNCHANGED <<openings, loanVars, billVars, request>>

-----------------------------------------------------------------------------
(* Moves between pockets: BankService.transferToBank and transferToTill,     *)
(* HandService.bankHeldCash and returnToTill.                                *)

\* Mutant: the till's half of the move, without the bank's.
TransferToBankHalf(n) ==
  /\ tillOpen
  /\ TillCovers(n)
  /\ drawer' = drawer - n
  /\ UNCHANGED <<tillOpen, ledgerVars, loanVars, billVars, request, earned>>

TransferToBank(n) ==
  /\ tillOpen
  /\ TillCovers(n)
  /\ InRange(balance["bank"] + n)
  /\ drawer' = drawer - n
  /\ AddToLedger("bank", n)
  /\ UNCHANGED <<tillOpen, openings, loanVars, billVars, request, earned>>

\* transferToTill from the bank, returnToTill from held cash.
MoveToTill(from, n) ==
  /\ tillOpen
  /\ Covers(from, n)
  /\ DrawerInRange(drawer + n)
  /\ drawer' = drawer + n
  /\ AddToLedger(from, -n)
  /\ UNCHANGED <<tillOpen, openings, loanVars, billVars, request, earned>>

\* Mutant: held cash is not counted before the bank trip.
BankUncounted(n) ==
  /\ InRange(balance["bank"] + n)
  /\ MoveBetween("hand", "bank", n)
  /\ UNCHANGED <<till, openings, loanVars, billVars, request, earned>>

BankHeldCash(n) ==
  /\ Covers("hand", n)
  /\ InRange(balance["bank"] + n)
  /\ MoveBetween("hand", "bank", n)
  /\ UNCHANGED <<till, openings, loanVars, billVars, request, earned>>

-----------------------------------------------------------------------------
(* LoansService. *)

Outstanding(l) == lent[l] - repaid[l]

IssueLoan(l, n, from) ==
  /\ lent[l] = 0 /\ \A m \in 1..(l - 1) : lent[m] > 0
  /\ \/ /\ from = "till"
        /\ tillOpen /\ TillCovers(n)
        /\ drawer' = drawer - n
        /\ UNCHANGED balance
     \/ /\ from = "bank"
        /\ Covers("bank", n)
        /\ AddToLedger("bank", -n)
        /\ UNCHANGED drawer
  /\ lent' = [lent EXCEPT ![l] = n]
  /\ UNCHANGED <<tillOpen, openings, repaid, loanStatus, billVars, request, earned>>

\* Where the money of a repayment goes.
TakeRepayment(n, to) ==
  \/ /\ to = "till"
     /\ tillOpen /\ DrawerInRange(drawer + n)
     /\ drawer' = drawer + n
     /\ UNCHANGED balance
  \/ /\ to = "bank"
     /\ InRange(balance["bank"] + n)
     /\ AddToLedger("bank", n)
     /\ UNCHANGED drawer

\* Mutant: only a repayment of the whole loan at once settles it.
RepaySettlesWhole(l, n, to) ==
  /\ n <= Outstanding(l)
  /\ TakeRepayment(n, to)
  /\ repaid' = [repaid EXCEPT ![l] = @ + n]
  /\ loanStatus' = [loanStatus EXCEPT ![l] = IF n = lent[l] THEN "REPAID" ELSE "OUTSTANDING"]
  /\ UNCHANGED <<tillOpen, openings, lent, billVars, request, earned>>

RepayLoan(l, n, to) ==
  /\ n <= Outstanding(l)
  /\ TakeRepayment(n, to)
  /\ repaid' = [repaid EXCEPT ![l] = @ + n]
  /\ loanStatus' = [loanStatus EXCEPT ![l] = IF n = Outstanding(l) THEN "REPAID" ELSE "OUTSTANDING"]
  /\ UNCHANGED <<tillOpen, openings, lent, billVars, request, earned>>

-----------------------------------------------------------------------------
(* Bills paid from held cash: recordPaid and createOfficePurchase, and       *)
(* payOfficePurchase on what is still owed.                                  *)

SpendHeld(n) ==
  /\ Covers("hand", n)
  /\ AddToLedger("hand", -n)
  /\ earned' = earned - n

RecordBill(b, n, owed) ==
  /\ bill[b] = "none" /\ \A c \in 1..(b - 1) : bill[c] # "none"
  /\ n + owed > 0
  /\ n = 0 \/ Covers("hand", n)
  /\ AddToLedger("hand", -n)
  /\ earned' = earned - n
  /\ bill' = [bill EXCEPT ![b] = "standing"]
  /\ due' = [due EXCEPT ![b] = owed]
  /\ spentOn' = [spentOn EXCEPT ![b] = n]
  /\ UNCHANGED <<till, openings, loanVars, spentLater, stray, request>>

PayBill(b, n) ==
  /\ bill[b] = "standing"
  /\ n <= due[b]
  /\ SpendHeld(n)
  /\ due' = [due EXCEPT ![b] = @ - n]
  /\ spentLater' = [spentLater EXCEPT ![b] = @ + n]
  /\ UNCHANGED <<till, openings, loanVars, bill, spentOn, stray, request>>

-----------------------------------------------------------------------------
(* Requests: setOpeningBalance and correct of either ledger, and             *)
(* ExpensesService.remove.                                                   *)

Begin(r, what) ==
  /\ request[r] = Idle
  /\ request' = [request EXCEPT ![r] = what]
  /\ UNCHANGED <<till, ledgerVars, loanVars, billVars, earned>>

End(r) == request' = [request EXCEPT ![r] = Idle]

CheckNoOpening(r, ledger, n) ==
  /\ openings[ledger] = 0
  /\ Begin(r, Asks("opening", ledger, n, 0))

CheckCorrection(r, ledger, n) ==
  /\ n > 0 \/ Covers(ledger, -n)
  /\ Begin(r, Asks("correct", ledger, n, 0))

WriteToLedger(r) ==
  LET q == request[r] IN
  /\ q.do \in {"opening", "correct"}
  /\ InRange(balance[q.ledger] + q.amount)
  /\ AddToLedger(q.ledger, q.amount)
  /\ openings' = [openings EXCEPT ![q.ledger] = @ + (IF q.do = "opening" THEN 1 ELSE 0)]
  /\ earned' = earned + q.amount
  /\ End(r)
  /\ UNCHANGED <<till, loanVars, billVars>>

\* loadEditable refuses an expense with payments recorded against it.
CheckDeletable(r, b) ==
  /\ bill[b] = "standing"
  /\ spentLater[b] = 0
  /\ Begin(r, Asks("delete", "hand", 0, b))

\* What the expense took from held cash goes back; its payments' rows stay.
DeleteBill(r) ==
  LET b == request[r].bill IN
  /\ request[r].do = "delete"
  /\ bill[b] = "standing"
  /\ InRange(balance["hand"] + spentOn[b])
  /\ AddToLedger("hand", spentOn[b])
  /\ earned' = earned + spentOn[b]
  /\ bill' = [bill EXCEPT ![b] = "deleted"]
  /\ due' = [due EXCEPT ![b] = 0]
  /\ stray' = stray + spentLater[b]
  /\ End(r)
  /\ UNCHANGED <<till, openings, loanVars, spentOn, spentLater>>

DeleteRefused(r) ==
  /\ request[r].do = "delete"
  /\ bill[request[r].bill] # "standing"
  /\ End(r)
  /\ UNCHANGED <<till, ledgerVars, loanVars, billVars, earned>>

-----------------------------------------------------------------------------
TillDay ==
  \/ \E float \in 0..MaxAmount : OpenTill(float)
  \/ \E n \in Signed : TradeThroughTill(n)
  \/ \E actual, withdrawal \in 0..MaxAmount, to \in Ledgers : CloseTill(actual, withdrawal, to)

Moves ==
  \E n \in Amounts :
    TransferToBank(n) \/ BankHeldCash(n) \/ \E from \in Ledgers : MoveToTill(from, n)

Lending ==
  \E l \in Loans, n \in 1..MaxLoan, at \in {"till", "bank"} :
    IssueLoan(l, n, at) \/ RepayLoan(l, n, at)

Spending ==
  \E b \in Bills :
    \/ \E n, owed \in 0..MaxAmount : RecordBill(b, n, owed)
    \/ \E n \in Amounts : PayBill(b, n)

Checks(r) ==
  \/ \E k \in Ledgers :
       \/ \E n \in 0..MaxAmount : CheckNoOpening(r, k, n)
       \/ \E n \in Signed : CheckCorrection(r, k, n)
  \/ \E b \in Bills : CheckDeletable(r, b)

Writes(r) == WriteToLedger(r) \/ DeleteBill(r) \/ DeleteRefused(r)

Next ==
  TillDay \/ Moves \/ Lending \/ Spending \/ \E r \in Requests : Checks(r) \/ Writes(r)

Spec == Init /\ [][Next]_vars

-----------------------------------------------------------------------------
TypeOK ==
  /\ tillOpen \in BOOLEAN /\ drawer \in Int
  /\ balance \in [Ledgers -> Int] /\ openings \in [Ledgers -> Nat]
  /\ lent \in [Loans -> Nat] /\ repaid \in [Loans -> Nat]
  /\ loanStatus \in [Loans -> {"OUTSTANDING", "REPAID"}]
  /\ bill \in [Bills -> {"none", "standing", "deleted"}]
  /\ due \in [Bills -> Nat]
  /\ spentOn \in [Bills -> Nat] /\ spentLater \in [Bills -> Nat]
  /\ request \in [Requests -> RequestType]
  /\ earned \in Int /\ stray \in Nat

\* A loan is marked repaid exactly when its repayments add up to it, whatever
\* mixture of till and bank they went to, and never exceed it.
LoansAddUp ==
  \A l \in Loans :
    /\ repaid[l] <= lent[l]
    /\ loanStatus[l] = "REPAID" <=> lent[l] > 0 /\ repaid[l] = lent[l]

\* A request about a bill names one, and no opening balance is negative.
Sound(q) ==
  /\ q.do = "delete" => q.bill \in Bills
  /\ q.do = "opening" => q.amount >= 0

RequestRules == \A r \in Requests : Sound(request[r])

IInv == TypeOK /\ LoansAddUp /\ RequestRules

Correcting(r, k) ==
  request[r].do = "correct" /\ request[r].ledger = k /\ request'[r] = Idle

\* A move between pockets, a loan or a bill never leaves a pocket short: a ledger
\* goes below zero only by a correction checked against an older balance, and
\* the drawer only by the shop's own trade.
NoOverdraft ==
  [][/\ \A k \in Ledgers :
          balance'[k] < 0 /\ balance'[k] < balance[k] => \E r \in Requests : Correcting(r, k)
     /\ drawer' < 0 /\ drawer' < drawer => earned' # earned]_vars

\* "The money has changed pockets, not left the business": seen as cash, claims
\* and earnings, every operation trades, lends, collects, or changes nothing.
Cash == drawer + balance["bank"] + balance["hand"]
Claims == Total([l \in Loans |-> Outstanding(l)], MaxLoans)

Position == INSTANCE MoneyPosition WITH cash <- Cash, claims <- Claims

ImplementsMoneyPosition == Position!Spec

-----------------------------------------------------------------------------
(* What the repository says and the code does not keep. *)

\* BankService.assertCovers: "Refuses a movement that would push the balance
\* below zero."
BalancesNeverNegative == \A k \in Ledgers : balance[k] >= 0

\* BankService.setOpeningBalance: "The starting point, recorded once."
OpeningRecordedOnce == \A k \in Ledgers : openings[k] <= 1

\* ExpensesService.remove: "without it the cash would stay spent on a bill that
\* no longer exists."
NothingSpentOnDeletedBills == stray = 0
=============================================================================
