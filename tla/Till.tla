-------------------------------- MODULE Till ---------------------------------
(***************************************************************************)
(* The shop's one shared till: cash sessions opened and closed, and the      *)
(* cash rows posted to them.                                                 *)
(*                                                                          *)
(* What the code does inside PrismaService.runSerializable is one action.   *)
(* Some operations check first and write later, outside one transaction:    *)
(* opening a session, a cash movement, recording, editing and deleting an   *)
(* expense.  Each of those is a request with two actions, and anything may   *)
(* happen between them.  A request whose write is refused simply ends.       *)
(*                                                                          *)
(* Amounts are whole; a session's rows that nothing ever changes again are   *)
(* kept as one sum, those that can still be undone as sums of their own.     *)
(***************************************************************************)
EXTENDS Integers, Sums

CONSTANTS
  Requests,     \* requests in flight at once
  MaxSessions,  \* sessions ever opened
  MaxExpenses,  \* ordinary expenses ever recorded
  MaxAmount,    \* largest amount of one row
  MaxCount,     \* largest float or count of the drawer
  MaxTurnover   \* cash a session may see before it moves again

ASSUME TillConstants ==
  /\ MaxSessions \in Nat \ {0}
  /\ MaxExpenses \in Nat \ {0}
  /\ MaxAmount \in Nat \ {0}
  /\ MaxCount \in Nat
  /\ MaxTurnover \in Nat

Sessions == 1..MaxSessions
Expenses == 1..MaxExpenses
Amounts == 1..MaxAmount
Signed == (-MaxAmount)..MaxAmount
NoSession == 0        \* a null cashSessionId, and "no session open"
Pockets == Sessions \cup {NoSession}    \* held cash belongs to no session

VARIABLES
  status,     \* CashSession.status ("none": not opened yet), in opening order
  opening,    \* CashSession.openingBalance
  left,       \* actualAmount - leftWithdrawal: what stayed in the drawer
  posted,     \* net of the session's rows that are never undone
  sold,       \* amountPaid of its sales that stand
  bought,     \* amountPaid of its purchases that stand
  spent,      \* Expense.amountPaid
  owing,      \* Expense.amountDue: what an office purchase on credit still owes
  payments,   \* ExpensePayment rows of an expense, summed per till that paid
  chargedTo,  \* Expense.cashSessionId
  recorded,   \* whether each expense row was ever written
  request     \* what each request in flight has checked and is about to write

rows == <<posted, sold, bought>>
expenseRows == <<spent, owing, payments, chargedTo, recorded>>
vars == <<status, opening, left, rows, expenseRows, request>>

Asks(what, s, n, e) == [do |-> what, session |-> s, amount |-> n, expense |-> e]

Idle == Asks("idle", NoSession, 0, 0)

RequestType ==
  [do : {"idle", "open", "carry", "movement", "expense", "edit", "delete"},
   session : Pockets, amount : Int, expense : Expenses \cup {0}]

NoPayments == [p \in Pockets |-> 0]

Init ==
  /\ status = [s \in Sessions |-> "none"]
  /\ opening = [s \in Sessions |-> 0]
  /\ left = [s \in Sessions |-> 0]
  /\ posted = [s \in Sessions |-> 0]
  /\ sold = [s \in Sessions |-> 0] /\ bought = [s \in Sessions |-> 0]
  /\ spent = [e \in Expenses |-> 0] /\ owing = [e \in Expenses |-> 0]
  /\ payments = [e \in Expenses |-> NoPayments]
  /\ chargedTo = [e \in Expenses |-> NoSession]
  /\ recorded = [e \in Expenses |-> FALSE]
  /\ request = [r \in Requests |-> Idle]

-----------------------------------------------------------------------------
Open(s) == status[s] = "OPEN"
Closed(s) == status[s] = "CLOSED"
SomeOpen == \E s \in Sessions : Open(s)

\* computeBreakdown: what the drawer should hold.  An expense is charged to its
\* own session with all its amountPaid, each later payment to the session it names.
Charges(s) ==
  [e \in Expenses |-> (IF chargedTo[e] = s THEN spent[e] ELSE 0) + payments[e][s]]

Expected(s) ==
  opening[s] + posted[s] + sold[s] - bought[s] - Total(Charges(s), MaxExpenses)

\* suggestedOpeningFloat: what stayed in the drawer at the last close.
LastClosed(s) == Closed(s) /\ \A t \in Sessions : Closed(t) => t <= s

SuggestedFloat(float) ==
  \/ \E s \in Sessions : LastClosed(s) /\ float = left[s]
  \/ (\A s \in Sessions : ~ Closed(s)) /\ float = 0

Turnover(s) == sold[s] + bought[s] + (IF posted[s] < 0 THEN -posted[s] ELSE posted[s])

Room(s) == Turnover(s) < MaxTurnover

Begin(r, what) ==
  /\ request[r] = Idle
  /\ request' = [request EXCEPT ![r] = what]
  /\ UNCHANGED <<status, opening, left, rows, expenseRows>>

End(r) == request' = [request EXCEPT ![r] = Idle]

-----------------------------------------------------------------------------
(* CashService.open: look for an open session and work out the float; then  *)
(* create, which the partial unique index refuses if one is open by then.   *)

CheckNoneOpen(r, float) ==
  /\ ~ SomeOpen
  /\ \/ Begin(r, Asks("open", NoSession, float, 0))
     \/ SuggestedFloat(float) /\ Begin(r, Asks("carry", NoSession, float, 0))

Opening(r) == request[r].do \in {"open", "carry"}

\* Mutant: no unique index.
CreateSessionUnguarded(r, s) ==
  /\ Opening(r)
  /\ status[s] = "none" /\ \A t \in 1..(s - 1) : status[t] # "none"
  /\ status' = [status EXCEPT ![s] = "OPEN"]
  /\ opening' = [opening EXCEPT ![s] = request[r].amount]
  /\ End(r)
  /\ UNCHANGED <<left, rows, expenseRows>>

CreateSession(r, s) ==
  /\ Opening(r)
  /\ ~ SomeOpen
  /\ status[s] = "none" /\ \A t \in 1..(s - 1) : status[t] # "none"
  /\ status' = [status EXCEPT ![s] = "OPEN"]
  /\ opening' = [opening EXCEPT ![s] = request[r].amount]
  /\ End(r)
  /\ UNCHANGED <<left, rows, expenseRows>>

CreateRefused(r) ==
  /\ Opening(r)
  /\ SomeOpen
  /\ End(r)
  /\ UNCHANGED <<status, opening, left, rows, expenseRows>>

(* CashService.addMovement: the session is checked, then the row written. *)

CheckMovement(r, s, n) ==
  /\ Open(s) /\ Room(s)
  /\ Begin(r, Asks("movement", s, n, 0))

InsertMovement(r) ==
  LET s == request[r].session IN
  /\ request[r].do = "movement"
  /\ posted' = [posted EXCEPT ![s] = @ + request[r].amount]
  /\ End(r)
  /\ UNCHANGED <<status, opening, left, sold, bought, expenseRows>>

(* CashService.close, under a row lock: the breakdown is computed and noted  *)
(* (expectedAmount, which is Expected at this moment), as are the count and  *)
(* what was taken out of the drawer after it.                                *)

Close(s, actual, withdrawal) ==
  /\ Open(s)
  /\ withdrawal <= actual
  /\ status' = [status EXCEPT ![s] = "CLOSED"]
  /\ left' = [left EXCEPT ![s] = actual - withdrawal]
  /\ UNCHANGED <<opening, rows, expenseRows, request>>

-----------------------------------------------------------------------------
(* Posted inside one transaction to the session found open in it.  Sales and *)
(* purchases can be undone later; customer and supplier payments, returns,   *)
(* transfers and loans cannot.                                               *)

Sell(s, n) ==
  /\ Open(s) /\ Room(s)
  /\ sold' = [sold EXCEPT ![s] = @ + n]
  /\ UNCHANGED <<status, opening, left, posted, bought, expenseRows, request>>

\* SalesService.void does not look at the session: it may be closed.
VoidSale(s, n) ==
  /\ n <= sold[s]
  /\ sold' = [sold EXCEPT ![s] = @ - n]
  /\ UNCHANGED <<status, opening, left, posted, bought, expenseRows, request>>

Buy(s, n) ==
  /\ Open(s) /\ Room(s)
  /\ bought' = [bought EXCEPT ![s] = @ + n]
  /\ UNCHANGED <<status, opening, left, posted, sold, expenseRows, request>>

\* Mutant: undoes a purchase paid from a till since counted.
UndoAnyPurchase(s, n) ==
  /\ n <= bought[s]
  /\ bought' = [bought EXCEPT ![s] = @ - n]
  /\ UNCHANGED <<status, opening, left, posted, sold, expenseRows, request>>

\* PurchasesService.void refuses once the till that paid is closed.
UndoPurchase(s, n) ==
  /\ n <= bought[s]
  /\ ~ Closed(s)
  /\ bought' = [bought EXCEPT ![s] = @ - n]
  /\ UNCHANGED <<status, opening, left, posted, sold, expenseRows, request>>

Post(s, n) ==
  /\ Open(s) /\ Room(s)
  /\ posted' = [posted EXCEPT ![s] = @ + n]
  /\ UNCHANGED <<status, opening, left, sold, bought, expenseRows, request>>

-----------------------------------------------------------------------------
(* Expenses.  ExpensesService.recordPaid and createOfficePurchase look for   *)
(* an open session when something is paid from the till, then write the row  *)
(* in a transaction of its own; with no till open, or paid from held cash,   *)
(* or wholly on credit, the expense is charged to none.  Only an office      *)
(* purchase owes anything; one paid in full at once is here an expense.      *)

OpenOrNone ==
  IF SomeOpen THEN CHOOSE s \in Sessions : Open(s) ELSE NoSession

FindSession(r, n) ==
  \/ n > 0 /\ Begin(r, Asks("expense", OpenOrNone, n, 0))
  \/ Begin(r, Asks("expense", NoSession, n, 0))

InsertExpense(r, e, due) ==
  /\ request[r].do = "expense"
  /\ request[r].amount + due > 0
  /\ ~ recorded[e] /\ \A f \in 1..(e - 1) : recorded[f]
  /\ recorded' = [recorded EXCEPT ![e] = TRUE]
  /\ spent' = [spent EXCEPT ![e] = request[r].amount]
  /\ owing' = [owing EXCEPT ![e] = due]
  /\ chargedTo' = [chargedTo EXCEPT ![e] = request[r].session]
  /\ End(r)
  /\ UNCHANGED <<status, opening, left, rows, payments>>

\* The row is there: its amount is above zero.
Stands(e) == spent[e] + owing[e] > 0

\* payOfficePurchase, one transaction: from the till open now or from held cash.
PayOfficePurchase(e, p, n) ==
  /\ n <= owing[e]
  /\ p # NoSession => Open(p)
  /\ payments' = [payments EXCEPT ![e][p] = @ + n]
  /\ spent' = [spent EXCEPT ![e] = @ + n]
  /\ owing' = [owing EXCEPT ![e] = @ - n]
  /\ UNCHANGED <<status, opening, left, rows, chargedTo, recorded, request>>

\* Mutant: the session's status is not looked at.
NeverFrozen(e) == FALSE

\* loadEditable: refuses an expense with payments, or of a closed session; the
\* write comes later, outside the check.
Frozen(e) == chargedTo[e] # NoSession /\ Closed(chargedTo[e])

HasPayments(e) == \E p \in Pockets : payments[e][p] > 0

\* The amount of an itemized office purchase cannot be edited.
CheckEditable(r, e, what, n) ==
  /\ Stands(e)
  /\ what = "edit" => owing[e] = 0
  /\ ~ HasPayments(e)
  /\ ~ Frozen(e)
  /\ Begin(r, Asks(what, chargedTo[e], n, e))

UpdateExpense(r) ==
  LET e == request[r].expense IN
  /\ request[r].do = "edit"
  /\ Stands(e)
  /\ spent' = [spent EXCEPT ![e] = request[r].amount]
  /\ End(r)
  /\ UNCHANGED <<status, opening, left, rows, owing, payments, chargedTo, recorded>>

\* The payments of a deleted expense go with it (onDelete: Cascade).
DeleteExpense(r) ==
  LET e == request[r].expense IN
  /\ request[r].do = "delete"
  /\ Stands(e)
  /\ spent' = [spent EXCEPT ![e] = 0]
  /\ owing' = [owing EXCEPT ![e] = 0]
  /\ payments' = [payments EXCEPT ![e] = NoPayments]
  /\ End(r)
  /\ UNCHANGED <<status, opening, left, rows, chargedTo, recorded>>

\* The row was deleted meanwhile.
ExpenseGone(r) ==
  /\ request[r].do \in {"edit", "delete"}
  /\ ~ Stands(request[r].expense)
  /\ End(r)
  /\ UNCHANGED <<status, opening, left, rows, expenseRows>>

-----------------------------------------------------------------------------
Checks(r) ==
  \/ \E float \in 0..MaxCount : CheckNoneOpen(r, float)
  \/ \E s \in Sessions, n \in Signed \ {0} : CheckMovement(r, s, n)
  \/ \E n \in 0..MaxAmount : FindSession(r, n)
  \/ \E e \in Expenses, n \in Amounts :
       CheckEditable(r, e, "edit", n) \/ CheckEditable(r, e, "delete", n)

Writes(r) ==
  \/ \E s \in Sessions : CreateSession(r, s)
  \/ CreateRefused(r)
  \/ InsertMovement(r)
  \/ \E e \in Expenses, due \in 0..MaxAmount : InsertExpense(r, e, due)
  \/ UpdateExpense(r) \/ DeleteExpense(r) \/ ExpenseGone(r)

Trade(s) ==
  \/ \E n \in Amounts : Sell(s, n) \/ VoidSale(s, n) \/ Buy(s, n) \/ UndoPurchase(s, n)
  \/ \E n \in Signed \ {0} : Post(s, n)

Next ==
  \/ \E r \in Requests : Checks(r) \/ Writes(r)
  \/ \E e \in Expenses, p \in Pockets, n \in Amounts : PayOfficePurchase(e, p, n)
  \/ \E s \in Sessions : \/ Trade(s)
                         \/ \E actual, withdrawal \in 0..MaxCount : Close(s, actual, withdrawal)

Spec == Init /\ [][Next]_vars

-----------------------------------------------------------------------------
TypeOK ==
  /\ status \in [Sessions -> {"none", "OPEN", "CLOSED"}]
  /\ opening \in [Sessions -> Nat]
  /\ left \in [Sessions -> Nat]
  /\ posted \in [Sessions -> Int]
  /\ sold \in [Sessions -> Nat] /\ bought \in [Sessions -> Nat]
  /\ spent \in [Expenses -> Nat] /\ owing \in [Expenses -> Nat]
  /\ payments \in [Expenses -> [Pockets -> Nat]]
  /\ chargedTo \in [Expenses -> Pockets]
  /\ recorded \in [Expenses -> BOOLEAN]
  /\ request \in [Requests -> RequestType]

\* "At most one OPEN session may exist at a time", however many stations press
\* Open together.
OneOpenSession == \A s, t \in Sessions : Open(s) /\ Open(t) => s = t

\* What the writes of requests rest on: a movement names the session it was
\* checked against, an edit or deletion the session its expense is charged to.
Sound(q) ==
  /\ q.do \in {"open", "carry"} => q.amount >= 0
  /\ q.do = "movement" => q.session \in Sessions
  /\ q.do \in {"expense", "edit"} => q.amount >= 0
  /\ q.do \in {"edit", "delete"} =>
       /\ q.expense \in Expenses
       /\ q.session = chargedTo[q.expense]
       /\ recorded[q.expense]

RequestRules ==
  /\ \A r \in Requests : Sound(request[r])
  /\ \A e \in Expenses :
       ~ recorded[e] => spent[e] = 0 /\ owing[e] = 0 /\ payments[e] = NoPayments

IInv == TypeOK /\ OneOpenSession /\ RequestRules

\* A request that has passed its check writes what it checked, to that session;
\* a deletion also takes along the payments made since.
Reaches(q, s) ==
  /\ q.do \notin {"idle", "open", "carry"}
  /\ \/ q.session = s
     \/ q.do = "delete" /\ payments[q.expense][s] > 0

\* Once a session is closed, its reconciliation moves only when one of its sales
\* is voided, when a purchase part-paid from it is paid some more, or when a
\* request checked while it was still open gets to write; and no request passes
\* its check against it any more.  Undone purchases, edited and deleted expenses
\* never reach it otherwise.
Moved(s) ==
  \/ sold'[s] < sold[s]
  \/ \E e \in Expenses : chargedTo[e] = s /\ owing[e] > 0 /\ spent'[e] > spent[e]
  \/ \E r \in Requests : Reaches(request[r], s) /\ request'[r] = Idle

FrozenOnceClosed ==
  [][\A s \in Sessions : Closed(s) =>
       /\ Expected(s)' # Expected(s) => Moved(s)
       /\ \A r \in Requests : request[r] = Idle => ~ Reaches(request'[r], s)]_vars

-----------------------------------------------------------------------------
(* What the repository says and the code does not keep. *)

\* What the tills are charged for an expense, over all sessions.
TillCharges(e) ==
  (IF chargedTo[e] = NoSession THEN 0 ELSE spent[e]) + Total(payments[e], MaxSessions)

\* computeBreakdown: "Only the cash actually paid out of this drawer", so the
\* tills are together charged no more for a purchase than was paid for it.
ChargedOnlyCashPaid == \A e \in Expenses : TillCharges(e) <= spent[e]

\* CashService.open: "When no float is supplied, carry over the previous shift's
\* counted cash", that is what stayed in the drawer after it.
FloatCarriesOver ==
  [][\A r \in Requests, s \in Sessions :
       request[r].do = "carry" /\ CreateSession(r, s) => SuggestedFloat(opening'[s])]_vars

\* ExpensesService.update: "Nothing tied to a closed cash session may change",
\* what is still owed on a purchase aside.
ClosedExpensesNeverChange ==
  [][\A e \in Expenses : Frozen(e) /\ owing[e] = 0 => UNCHANGED spent[e]]_vars
=============================================================================
