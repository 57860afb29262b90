------------------------------- MODULE Periods -------------------------------
(***************************************************************************)
(* The monthly books: closing and reopening a month, the figures a close     *)
(* signs off, and every write that dates an entry in a month.                *)
(*                                                                          *)
(* Nothing here is one transaction: AccountingPeriodsService.close and       *)
(* reopen read, check and write in separate statements, and assertOpen reads *)
(* on its own connection even when its caller is inside a transaction.  Each *)
(* operation is a request that checks and writes in separate actions; what   *)
(* keeps a request from writing at all (no rights, no stock, a counted till) *)
(* is left to the other modules, so a request may write whenever it likes.   *)
(*                                                                          *)
(* A month is open until it has been closed.  Entries carry one amount; the  *)
(* figures of a month are the sums of its standing entries, kind by kind.    *)
(***************************************************************************)
EXTENDS Integers, Sums

CONSTANTS
  Requests,     \* requests in flight at once
  LastMonth,    \* months 1, 2, ... the calendar runs through
  MaxEntries,   \* entries ever recorded
  MaxAmount     \* largest amount of one entry

ASSUME PeriodsConstants ==
  LastMonth \in Nat \ {0} /\ MaxEntries \in Nat \ {0} /\ MaxAmount \in Nat

Months == 1..LastMonth
Entries == 1..MaxEntries
Amounts == 1..MaxAmount

\* Returns and stock adjustments are corrections: dated when they are made, and
\* never changed.  An office purchase is an expense.
Kinds == {"sale", "correction", "expense", "purchase"}

VARIABLES
  now,       \* the month it is
  status,    \* AccountingPeriod.status of each month
  snapshot,  \* the figures in its AccountingPeriod row
  kind,      \* which table the entry is in
  month,     \* createdAt, expenseDate or purchaseDate, by month
  amount,    \* total, amount or totalCost
  state,     \* "none": no such row, "COMPLETED", "VOIDED"; "deleted": no row any more
  request    \* what each request in flight has checked and is about to write

books == <<status, snapshot>>
rows == <<kind, month, amount, state>>
vars == <<now, books, rows, request>>

NoMonth == 0
NoEntry == 0
NoFigures == [k \in Kinds |-> 0]

Idle == [do |-> "idle", kind |-> "sale", entry |-> NoEntry, from |-> NoMonth,
         to |-> NoMonth, amount |-> 0, figures |-> NoFigures]

RequestType ==
  [do : {"idle", "insert", "edit", "undo", "close", "computed", "reopen"},
   kind : Kinds, entry : Entries \cup {NoEntry},
   from : Months \cup {NoMonth}, to : Months \cup {NoMonth},
   amount : Nat, figures : [Kinds -> Int]]

Init ==
  /\ now = 1
  /\ status = [m \in Months |-> "OPEN"]
  /\ snapshot = [m \in Months |-> NoFigures]
  /\ kind = [e \in Entries |-> "sale"] /\ month = [e \in Entries |-> 1]
  /\ amount = [e \in Entries |-> 0] /\ state = [e \in Entries |-> "none"]
  /\ request = [r \in Requests |-> Idle]

-----------------------------------------------------------------------------
Closed(m) == status[m] = "CLOSED"
Stands(e) == state[e] = "COMPLETED"

\* computeFigures: the sums over the month, each over one table.
Column(m, k) ==
  [e \in Entries |-> IF Stands(e) /\ month[e] = m /\ kind[e] = k THEN amount[e] ELSE 0]

Figures(m) == [k \in Kinds |-> Total(Column(m, k), MaxEntries)]

\* earliestActivity: the books begin with the first sale, voided or not, or the
\* first expense; and firstOpenMonthBefore: from there on none may be open.
Activity(e) ==
  \/ kind[e] = "sale" /\ state[e] \in {"COMPLETED", "VOIDED"}
  \/ kind[e] = "expense" /\ Stands(e)

GapBefore(m) ==
  \E k \in 1..(m - 1) : ~ Closed(k) /\ \E e \in Entries : Activity(e) /\ month[e] <= k

Begin(r, what) ==
  /\ request[r] = Idle
  /\ request' = [request EXCEPT ![r] = what]
  /\ UNCHANGED <<now, books, rows>>

End(r) == request' = [request EXCEPT ![r] = Idle]

Fresh(e) == state[e] = "none" /\ \A f \in 1..(e - 1) : state[f] # "none"

Insert(e, k, m, n) ==
  /\ Fresh(e)
  /\ kind' = [kind EXCEPT ![e] = k]
  /\ month' = [month EXCEPT ![e] = m]
  /\ amount' = [amount EXCEPT ![e] = n]
  /\ state' = [state EXCEPT ![e] = "COMPLETED"]

-----------------------------------------------------------------------------
(* Entries dated by hand: expenses, salaries and purchases, which may be     *)
(* backdated.  assertOpen first, then the transaction that writes.           *)

CheckDated(r, k, m, n) ==
  /\ k \in {"expense", "purchase"}
  /\ ~ Closed(m)
  /\ Begin(r, [Idle EXCEPT !.do = "insert", !.kind = k, !.to = m, !.amount = n])

\* Mutant: the purchase date is not checked.
CheckDatedExpenses(r, k, m, n) ==
  /\ k \in {"expense", "purchase"}
  /\ k = "expense" => ~ Closed(m)
  /\ Begin(r, [Idle EXCEPT !.do = "insert", !.kind = k, !.to = m, !.amount = n])

(* Entries stamped with the time they are made: sales, returns, adjustments. *)
(* The row carries the time of its statement and appears when its            *)
(* transaction commits.                                                      *)

Stamp(r, k, n) ==
  /\ k \in {"sale", "correction"}
  /\ Begin(r, [Idle EXCEPT !.do = "insert", !.kind = k, !.to = now, !.amount = n])

InsertEntry(r, e) ==
  /\ request[r].do = "insert"
  /\ Insert(e, request[r].kind, request[r].to, request[r].amount)
  /\ End(r)
  /\ UNCHANGED <<now, books>>

\* ExpensesService.createOfficePurchase: the date is not checked at all.
RecordOfficePurchase(e, m, n) ==
  /\ Insert(e, "expense", m, n)
  /\ UNCHANGED <<now, books, request>>

-----------------------------------------------------------------------------
(* ExpensesService.update and updateSalary: the month the expense is in and  *)
(* the one it moves to must be open; the row is then updated unconditionally. *)
(* A date or an amount left out of the request (0) stays as it is.           *)

CheckEdit(r, e, m, n) ==
  /\ Stands(e) /\ kind[e] = "expense"
  /\ ~ Closed(month[e])
  /\ m # NoMonth => ~ Closed(m)
  /\ Begin(r, [Idle EXCEPT !.do = "edit", !.kind = "expense", !.entry = e,
                           !.from = month[e], !.to = m, !.amount = n])

UpdateExpense(r) ==
  LET q == request[r] IN
  /\ q.do = "edit"
  /\ Stands(q.entry)
  /\ month' = [month EXCEPT ![q.entry] = IF q.to = NoMonth THEN @ ELSE q.to]
  /\ amount' = [amount EXCEPT ![q.entry] = IF q.amount = 0 THEN @ ELSE q.amount]
  /\ End(r)
  /\ UNCHANGED <<now, books, kind, state>>

(* SalesService.void, PurchasesService.void and ExpensesService.remove.      *)

\* Mutant: the month of a sale or purchase is not looked at.
CheckUndoExpense(r, e) ==
  /\ Stands(e) /\ kind[e] # "correction"
  /\ kind[e] = "expense" => ~ Closed(month[e])
  /\ Begin(r, [Idle EXCEPT !.do = "undo", !.kind = kind[e], !.entry = e,
                           !.from = month[e], !.to = month[e]])

CheckUndo(r, e) ==
  /\ Stands(e) /\ kind[e] # "correction"
  /\ ~ Closed(month[e])
  /\ Begin(r, [Idle EXCEPT !.do = "undo", !.kind = kind[e], !.entry = e,
                           !.from = month[e], !.to = month[e]])

\* A void keeps the row, the deletion of an expense does not.
Undo(r) ==
  LET e == request[r].entry IN
  /\ request[r].do = "undo"
  /\ Stands(e)
  /\ state' = [state EXCEPT ![e] = IF kind[e] = "expense" THEN "deleted" ELSE "VOIDED"]
  /\ End(r)
  /\ UNCHANGED <<now, books, kind, month, amount>>

\* Undone meanwhile: the write is refused, or finds no row.
EntryGone(r) ==
  /\ request[r].do \in {"edit", "undo"}
  /\ ~ Stands(request[r].entry)
  /\ End(r)
  /\ UNCHANGED <<now, books, rows>>

-----------------------------------------------------------------------------
(* AccountingPeriodsService.close and reopen. *)

CheckClose(r, m) ==
  /\ m < now
  /\ ~ Closed(m)
  /\ ~ GapBefore(m)
  /\ Begin(r, [Idle EXCEPT !.do = "close", !.to = m])

ComputeFigures(r) ==
  /\ request[r].do = "close"
  /\ request' = [request EXCEPT ![r].do = "computed", ![r].figures = Figures(request[r].to)]
  /\ UNCHANGED <<now, books, rows>>

WriteClose(r) ==
  /\ request[r].do = "computed"
  /\ snapshot' = [snapshot EXCEPT ![request[r].to] = request[r].figures]
  /\ status' = [status EXCEPT ![request[r].to] = "CLOSED"]
  /\ End(r)
  /\ UNCHANGED <<now, rows>>

\* A later month closed keeps an earlier one from being reopened.
CheckReopen(r, m) ==
  /\ Closed(m)
  /\ \A k \in Months : k > m => ~ Closed(k)
  /\ Begin(r, [Idle EXCEPT !.do = "reopen", !.to = m])

WriteReopen(r) ==
  /\ request[r].do = "reopen"
  /\ status' = [status EXCEPT ![request[r].to] = "OPEN"]
  /\ End(r)
  /\ UNCHANGED <<now, snapshot, rows>>

MonthEnds ==
  /\ now < LastMonth
  /\ now' = now + 1
  /\ UNCHANGED <<books, rows, request>>

-----------------------------------------------------------------------------
Checks(r) ==
  \/ \E k \in Kinds, n \in Amounts :
       Stamp(r, k, n) \/ \E m \in Months : CheckDated(r, k, m, n)
  \/ \E e \in Entries :
       \/ CheckUndo(r, e)
       \/ \E m \in Months \cup {NoMonth}, n \in Amounts \cup {0} : CheckEdit(r, e, m, n)
  \/ \E m \in Months : CheckClose(r, m) \/ CheckReopen(r, m)

Writes(r) ==
  \/ \E e \in Entries : InsertEntry(r, e)
  \/ UpdateExpense(r) \/ Undo(r) \/ EntryGone(r)
  \/ WriteClose(r) \/ WriteReopen(r)

Next ==
  \/ MonthEnds
  \/ \E r \in Requests : Checks(r) \/ ComputeFigures(r) \/ Writes(r)
  \/ \E e \in Entries, m \in Months, n \in Amounts : RecordOfficePurchase(e, m, n)

Spec == Init /\ [][Next]_vars

-----------------------------------------------------------------------------
TypeOK ==
  /\ now \in Months
  /\ status \in [Months -> {"OPEN", "CLOSED"}]
  /\ snapshot \in [Months -> [Kinds -> Int]]
  /\ kind \in [Entries -> Kinds]
  /\ month \in [Entries -> Months]
  /\ amount \in [Entries -> Nat]
  /\ state \in [Entries -> {"none", "COMPLETED", "VOIDED", "deleted"}]
  /\ request \in [Requests -> RequestType]

\* close: "you can only close a month once it has ended".  It is why sales,
\* returns and adjustments, dated when they are made, need not ask whether their
\* month is open.
ClosedOnlyOnceEnded == \A m \in Months : Closed(m) => m < now

\* What a request in flight has found out.
Sound(q) ==
  /\ q.do = "insert" => q.to \in Months
  /\ q.do = "edit" => q.entry \in Entries /\ q.from \in Months
  /\ q.do = "undo" => q.entry \in Entries /\ q.from \in Months
  /\ q.do \in {"close", "computed"} => q.to \in Months /\ q.to < now
  /\ q.do = "reopen" => q.to \in Months

RequestsSound == \A r \in Requests : Sound(request[r])

IInv == TypeOK /\ ClosedOnlyOnceEnded /\ RequestsSound

\* The months assertOpen found open for a request, or that it stamped.
Asserted(q) ==
  CASE q.do = "insert" -> {q.to}
    [] q.do = "edit" -> {q.from, q.to} \ {NoMonth}
    [] q.do = "undo" -> {q.from}
    [] OTHER -> {}

\* The expense a request is about to write was moved to m by another since.
MovedMeanwhile(q, m) ==
  q.do \in {"edit", "undo"} /\ month[q.entry] = m /\ q.from # m

\* "freezes the entries behind them": the figures of a closed month move only by
\* an office purchase dated in it, by a write whose check still found that month
\* open, or by one whose expense was moved there meanwhile; and no request finds
\* a closed month open.
FrozenOnceClosed ==
  [][\A m \in Months : Closed(m) =>
       /\ Figures(m)' # Figures(m) =>
            \/ \E e \in Entries, n \in Amounts : RecordOfficePurchase(e, m, n)
            \/ \E r \in Requests :
                 /\ m \in Asserted(request[r]) \/ MovedMeanwhile(request[r], m)
                 /\ request'[r] = Idle
       /\ \A r \in Requests : request[r] = Idle => m \notin Asserted(request'[r])]_vars

-----------------------------------------------------------------------------
(* What the repository says and the code does not keep. *)

\* assertOpen is "Called by every write that would change a month's reported
\* figures": whatever moves those of a closed month had asked before.
EveryWriteAsks ==
  [][\A m \in Months : Closed(m) /\ Figures(m)' # Figures(m) =>
       \E r \in Requests : Asserted(request[r]) # {} /\ request'[r] = Idle]_vars
=============================================================================
