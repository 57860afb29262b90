---------------------------- MODULE PeriodsProofs -----------------------------
(***************************************************************************)
(* Proofs about module Periods, for any number of stations, months and      *)
(* entries.                                                                 *)
(***************************************************************************)
EXTENDS Periods, SumsProofs

\* The figures of a month are integers, kind by kind.
LEMMA FiguresType ==
  ASSUME TypeOK, NEW m \in Months
  PROVE  Figures(m) \in [Kinds -> Int]
<1>1. ASSUME NEW k \in Kinds PROVE Total(Column(m, k), MaxEntries) \in Int
  <2>1. MaxEntries \in Nat /\ \A e \in 1..MaxEntries : Column(m, k)[e] \in Int
    BY PeriodsConstants DEF TypeOK, Column, Entries
  <2> QED BY <2>1, TotalType
<1> QED BY <1>1 DEF Figures

\* An idle request is one.
LEMMA IdleType == Idle \in RequestType /\ Idle.do = "idle"
BY DEF Idle, RequestType, NoFigures, Kinds, NoEntry, NoMonth

\* The books start in month 1, with no month closed.
LEMMA InitHolds == Init => IInv
<1>1. 1 \in Months /\ "sale" \in Kinds /\ NoFigures \in [Kinds -> Int]
  BY PeriodsConstants DEF Months, Kinds, NoFigures
<1>2. Idle \in RequestType /\ Idle.do = "idle"
  BY IdleType
<1> HIDE DEF Idle
<1> QED
  BY <1>1, <1>2 DEF Init, IInv, TypeOK, ClosedOnlyOnceEnded, Closed, RequestsSound, Sound

\* A request whose writes leave the books' calendar alone.
LEMMA BeginKeeps ==
  ASSUME IInv, NEW r \in Requests, NEW q \in RequestType, Sound(q), Begin(r, q)
  PROVE  IInv'
<1>1. TypeOK /\ ClosedOnlyOnceEnded /\ RequestsSound
  BY DEF IInv
<1>2. TypeOK'
  BY <1>1 DEF Begin, TypeOK, books, rows
<1>3. ClosedOnlyOnceEnded'
  BY <1>1 DEF Begin, ClosedOnlyOnceEnded, Closed, books
<1>4. RequestsSound'
  BY <1>1 DEF Begin, RequestsSound, Sound, TypeOK
<1> QED BY <1>2, <1>3, <1>4 DEF IInv

\* A request that ends leaves the others as sound as they were.
LEMMA EndSound ==
  ASSUME TypeOK, RequestsSound, NEW r \in Requests, End(r), UNCHANGED now
  PROVE  RequestsSound' /\ request' \in [Requests -> RequestType]
<1>1. Idle \in RequestType /\ Idle.do = "idle"
  BY IdleType
<1> HIDE DEF Idle
<1>2. request' \in [Requests -> RequestType]
  BY <1>1 DEF End, TypeOK
<1>3. ASSUME NEW p \in Requests PROVE Sound(request[p])'
  <2>1. CASE p = r
    BY <1>1, <2>1 DEF End, TypeOK, Sound
  <2>2. CASE p # r
    BY <2>2 DEF End, TypeOK, RequestsSound, Sound
  <2> QED BY <2>1, <2>2
<1> QED BY <1>2, <1>3 DEF RequestsSound

\* What each check notes, and what it can have asserted.
LEMMA CheckNotes ==
  ASSUME IInv, NEW r \in Requests, Checks(r)
  PROVE  \E q \in RequestType : /\ Sound(q) /\ Begin(r, q)
                                /\ \A m \in Months : Closed(m) => m \notin Asserted(q)
<1> USE PeriodsConstants
<1>1. /\ TypeOK /\ ClosedOnlyOnceEnded /\ now \in Months
      /\ \A m \in Months : m # NoMonth /\ m \in Int
      /\ NoFigures \in [Kinds -> Int]
  BY DEF IInv, TypeOK, Months, NoMonth, NoFigures
<1> DEFINE Good(q) == /\ q \in RequestType /\ Sound(q)
                      /\ \A m \in Months : Closed(m) => m \notin Asserted(q)
<1>2. ASSUME NEW k \in Kinds, NEW m \in Months, NEW n \in Nat, ~ Closed(m)
      PROVE  Good([Idle EXCEPT !.do = "insert", !.kind = k, !.to = m, !.amount = n])
  BY <1>1, <1>2 DEF Idle, RequestType, Sound, Asserted, NoEntry, NoMonth
<1>3. ASSUME NEW m \in Months \cup {NoMonth}, NEW n \in Nat, NEW e \in Entries,
             ~ Closed(month[e]), m # NoMonth => ~ Closed(m)
      PROVE  Good([Idle EXCEPT !.do = "edit", !.kind = "expense", !.entry = e,
                               !.from = month[e], !.to = m, !.amount = n])
  <2>1. month[e] \in Months /\ "expense" \in Kinds
    BY <1>1 DEF TypeOK, Kinds
  <2> QED BY <1>1, <1>3, <2>1 DEF Idle, RequestType, Sound, Asserted, NoEntry
<1>4. ASSUME NEW e \in Entries, ~ Closed(month[e])
      PROVE  Good([Idle EXCEPT !.do = "undo", !.kind = kind[e], !.entry = e,
                               !.from = month[e], !.to = month[e]])
  <2>1. month[e] \in Months /\ kind[e] \in Kinds
    BY <1>1 DEF TypeOK
  <2> QED BY <1>1, <1>4, <2>1 DEF Idle, RequestType, Sound, Asserted, NoEntry
<1>5. ASSUME NEW m \in Months, NEW what \in {"close", "reopen"}, what = "close" => m < now
      PROVE  Good([Idle EXCEPT !.do = what, !.to = m])
  <2>1. "sale" \in Kinds
    BY DEF Kinds
  <2> QED BY <1>1, <1>5, <2>1 DEF Idle, RequestType, Sound, Asserted, NoEntry, NoMonth
\* The month it is has not ended, so it is not closed.
<1>6. ~ Closed(now)
  BY <1>1 DEF ClosedOnlyOnceEnded, Months
<1> HIDE DEF Good
<1>7. \A n \in Amounts : n \in Nat
  BY DEF Amounts
<1>8. \E q : Good(q) /\ Begin(r, q)
  BY <1>1, <1>2, <1>3, <1>4, <1>5, <1>6, <1>7
  DEF Checks, Stamp, CheckDated, CheckEdit, CheckUndo, CheckClose, CheckReopen
<1> QED BY <1>8 DEF Good

\* Only closing a month needs its number to have passed.
LEMMA WritesKeep ==
  ASSUME IInv, NEW r \in Requests, Writes(r)
  PROVE  IInv'
<1> USE PeriodsConstants
<1>1. TypeOK /\ ClosedOnlyOnceEnded /\ RequestsSound
  BY DEF IInv
<1>2. Sound(request[r]) /\ request[r] \in RequestType
  BY <1>1 DEF RequestsSound, TypeOK
<1>3. End(r) /\ UNCHANGED now
  BY DEF Writes, InsertEntry, UpdateExpense, Undo, EntryGone, WriteClose, WriteReopen
<1>4. RequestsSound' /\ request' \in [Requests -> RequestType]
  BY <1>1, <1>3, EndSound
<1>5. ASSUME UNCHANGED books,
             /\ kind' \in [Entries -> Kinds] /\ month' \in [Entries -> Months]
             /\ amount' \in [Entries -> Nat]
             /\ state' \in [Entries -> {"none", "COMPLETED", "VOIDED", "deleted"}]
      PROVE  IInv'
  <2>1. TypeOK'
    BY <1>1, <1>3, <1>4, <1>5 DEF TypeOK, books
  <2>2. ClosedOnlyOnceEnded'
    BY <1>1, <1>3, <1>5 DEF ClosedOnlyOnceEnded, Closed, books
  <2> QED BY <1>4, <2>1, <2>2 DEF IInv
<1>6. ASSUME NEW e \in Entries, InsertEntry(r, e) PROVE IInv'
  <2>1. request[r].to \in Months /\ request[r].kind \in Kinds /\ request[r].amount \in Nat
    BY <1>2, <1>6 DEF InsertEntry, Sound, RequestType
  <2> QED BY <1>1, <1>5, <1>6, <2>1 DEF InsertEntry, Insert, TypeOK
<1>7. ASSUME UpdateExpense(r) PROVE IInv'
  <2>1. /\ request[r].entry \in Entries /\ request[r].to \in Months \cup {NoMonth}
        /\ request[r].amount \in Nat
    BY <1>2, <1>7 DEF UpdateExpense, Sound, RequestType
  <2> QED BY <1>1, <1>5, <1>7, <2>1 DEF UpdateExpense, TypeOK, Entries
<1>8. ASSUME Undo(r) PROVE IInv'
  BY <1>1, <1>5, <1>8 DEF Undo, TypeOK
<1>9. ASSUME EntryGone(r) PROVE IInv'
  BY <1>1, <1>5, <1>9 DEF EntryGone, TypeOK, rows
<1>10. ASSUME WriteClose(r) PROVE IInv'
  <2>1. /\ request[r].to \in Months /\ request[r].to < now
        /\ request[r].figures \in [Kinds -> Int]
    BY <1>2, <1>10 DEF WriteClose, Sound, RequestType
  <2>2. TypeOK'
    BY <1>1, <1>4, <1>10, <2>1 DEF WriteClose, TypeOK, rows
  <2>3. ClosedOnlyOnceEnded'
    BY <1>1, <1>10, <2>1 DEF WriteClose, ClosedOnlyOnceEnded, Closed, TypeOK
  <2> QED BY <1>4, <2>2, <2>3 DEF IInv
<1>11. ASSUME WriteReopen(r) PROVE IInv'
  <2>1. TypeOK'
    BY <1>1, <1>4, <1>11 DEF WriteReopen, TypeOK, rows
  <2>2. ClosedOnlyOnceEnded'
    BY <1>1, <1>11 DEF WriteReopen, ClosedOnlyOnceEnded, Closed, TypeOK
  <2> QED BY <1>4, <2>1, <2>2 DEF IInv
<1> QED BY <1>6, <1>7, <1>8, <1>9, <1>10, <1>11 DEF Writes

\* Every step keeps the inductive invariant.
LEMMA Inductive == IInv /\ [Next]_vars => IInv'
<1> USE PeriodsConstants
<1>1. SUFFICES ASSUME IInv, [Next]_vars PROVE IInv'
  OBVIOUS
<1>2. TypeOK /\ ClosedOnlyOnceEnded /\ RequestsSound
  BY <1>1 DEF IInv
<1>3. ASSUME UNCHANGED vars PROVE IInv'
  BY <1>1, <1>3
  DEF vars, books, rows, IInv, TypeOK, ClosedOnlyOnceEnded, Closed, RequestsSound, Sound
<1>4. ASSUME MonthEnds PROVE IInv'
  <2>1. now' = now + 1 /\ now \in Int /\ now' \in Months /\ UNCHANGED <<books, rows, request>>
    BY <1>2, <1>4 DEF MonthEnds, TypeOK, Months
  <2>2. TypeOK'
    BY <1>2, <2>1 DEF TypeOK, books, rows
  <2>3. ClosedOnlyOnceEnded'
    BY <1>2, <2>1 DEF ClosedOnlyOnceEnded, Closed, books, Months
  <2>4. ASSUME NEW q \in Requests PROVE Sound(request[q])'
    <3>1. Sound(request[q])
      BY <1>2 DEF RequestsSound
    <3>2. request[q].to \in Months => request[q].to \in Int
      BY DEF Months
    <3> QED BY <2>1, <3>1, <3>2 DEF Sound
  <2> QED BY <2>2, <2>3, <2>4 DEF IInv, RequestsSound
<1>5. ASSUME NEW r \in Requests, Checks(r) PROVE IInv'
  BY <1>1, <1>5, CheckNotes, BeginKeeps
<1>6. ASSUME NEW r \in Requests, ComputeFigures(r) PROVE IInv'
  <2>1. Sound(request[r]) /\ request[r] \in RequestType
    BY <1>2 DEF RequestsSound, TypeOK
  <2>2. Figures(request[r].to) \in [Kinds -> Int]
    BY <1>2, <1>6, <2>1, FiguresType DEF ComputeFigures, Sound
  <2> DEFINE q == [request[r] EXCEPT !.do = "computed", !.figures = Figures(request[r].to)]
  <2>3. q \in RequestType /\ Sound(q)
    BY <1>6, <2>1, <2>2 DEF ComputeFigures, Sound, RequestType
  <2>4. request' = [request EXCEPT ![r] = q] /\ UNCHANGED <<now, books, rows>>
    BY <1>2, <1>6 DEF ComputeFigures, TypeOK
  <2> HIDE DEF q
  <2>5. TypeOK'
    BY <1>2, <2>3, <2>4 DEF TypeOK, books, rows
  <2>6. ClosedOnlyOnceEnded'
    BY <1>2, <2>4 DEF ClosedOnlyOnceEnded, Closed, books
  <2>7. RequestsSound'
    BY <1>2, <2>3, <2>4 DEF RequestsSound, Sound, TypeOK
  <2> QED BY <2>5, <2>6, <2>7 DEF IInv
<1>7. ASSUME NEW r \in Requests, Writes(r) PROVE IInv'
  BY <1>1, <1>7, WritesKeep
<1>8. ASSUME NEW e \in Entries, NEW m \in Months, NEW n \in Amounts,
             RecordOfficePurchase(e, m, n)
      PROVE  IInv'
  <2>1. n \in Nat /\ "expense" \in Kinds
    BY DEF Amounts, Kinds
  <2>2. TypeOK'
    BY <1>2, <1>8, <2>1 DEF RecordOfficePurchase, Insert, TypeOK, books
  <2>3. ClosedOnlyOnceEnded' /\ RequestsSound'
    BY <1>2, <1>8
    DEF RecordOfficePurchase, ClosedOnlyOnceEnded, Closed, RequestsSound, Sound, books
  <2> QED BY <2>2, <2>3 DEF IInv
<1> QED BY <1>1, <1>3, <1>4, <1>5, <1>6, <1>7, <1>8 DEF Next

\* The inductive invariant holds throughout.
THEOREM InvariantHolds == Spec => []IInv
BY InitHolds, Inductive, PTL DEF Spec

\* Every row's month is one of the calendar, and amounts are never negative.
THEOREM TypeCorrect == Spec => []TypeOK
BY InvariantHolds, PTL DEF IInv

\* No month is closed before it has ended, so nothing dated when it is made ever
\* falls in a closed month.
THEOREM MonthsCloseAfterTheyEnd == Spec => []ClosedOnlyOnceEnded
BY InvariantHolds, PTL DEF IInv

-----------------------------------------------------------------------------
(* A closed month stays as it was signed off. *)

\* A month's figures follow the entries that stand in it.
LEMMA SameFigures ==
  ASSUME NEW m \in Months,
         \A e \in Entries : LET counts == Stands(e) /\ month[e] = m
                            IN  /\ counts' = counts
                                /\ counts => kind'[e] = kind[e] /\ amount'[e] = amount[e]
  PROVE  Figures(m)' = Figures(m)
<1>1. ASSUME NEW k \in Kinds PROVE Column(m, k)' = Column(m, k)
  BY DEF Column
<1>2. ASSUME NEW k \in Kinds
      PROVE  Total(Column(m, k)', MaxEntries) = Total(Column(m, k), MaxEntries)
  BY <1>1
<1> QED BY <1>2 DEF Figures

\* No request that starts finds a closed month open.
LEMMA NoneFindsItOpen ==
  ASSUME IInv, NEW m \in Months, Closed(m), [Next]_vars,
         NEW r \in Requests, request[r] = Idle
  PROVE  m \notin Asserted(request'[r])
<1>1. request \in [Requests -> RequestType] /\ Idle.do = "idle"
  BY IdleType DEF IInv, TypeOK
<1> HIDE DEF Idle
<1>2. ASSUME request'[r] = Idle PROVE m \notin Asserted(request'[r])
  BY <1>1, <1>2 DEF Asserted
<1>3. ASSUME Checks(r) PROVE m \notin Asserted(request'[r])
  <2>1. PICK q \in RequestType : Begin(r, q) /\ m \notin Asserted(q)
    BY <1>3, CheckNotes
  <2>2. request'[r] = q
    BY <1>1, <2>1 DEF Begin
  <2> QED BY <2>1, <2>2
<1>4. ASSUME NEW p \in Requests, p # r, NEW x, request' = [request EXCEPT ![p] = x]
      PROVE  request'[r] = Idle
  BY <1>1, <1>4
<1>5. ASSUME NEW p \in Requests, p # r, Checks(p) PROVE request'[r] = Idle
  <2>1. PICK q \in RequestType : Begin(p, q)
    BY <1>5, CheckNotes
  <2> QED BY <1>4, <1>5, <2>1 DEF Begin
<1>6. ASSUME NEW p \in Requests, Writes(p) PROVE request'[r] = Idle
  <2>1. End(p)
    BY <1>6 DEF Writes, InsertEntry, UpdateExpense, Undo, EntryGone, WriteClose, WriteReopen
  <2> QED BY <1>1, <2>1 DEF End
<1>7. ASSUME NEW p \in Requests, ComputeFigures(p) PROVE request'[r] = Idle
  <2>1. p # r
    BY <1>1, <1>7 DEF ComputeFigures
  <2>2. request'[r] = request[r]
    BY <1>1, <1>7, <2>1 DEF ComputeFigures
  <2> QED BY <2>2
<1>8. ASSUME UNCHANGED request PROVE request'[r] = Idle
  BY <1>8
<1> QED
  BY <1>2, <1>3, <1>5, <1>6, <1>7, <1>8 DEF Next, MonthEnds, RecordOfficePurchase, vars

\* What can still move the figures of a closed month: an office purchase, and
\* the requests that found it open or whose expense was moved there since.
THEOREM ClosedStaysFrozen == Spec => FrozenOnceClosed
<1> DEFINE Excused(m) ==
      \/ \E e \in Entries, n \in Amounts : RecordOfficePurchase(e, m, n)
      \/ \E r \in Requests :
           /\ m \in Asserted(request[r]) \/ MovedMeanwhile(request[r], m)
           /\ request'[r] = Idle
<1>1. ASSUME IInv, NEW m \in Months, [Next]_vars, ~ Excused(m)
      PROVE  Figures(m)' = Figures(m)
  <2>1. TypeOK /\ RequestsSound
    BY <1>1 DEF IInv
  <2>2. ASSUME UNCHANGED rows PROVE Figures(m)' = Figures(m)
    BY <2>2, SameFigures DEF rows, Stands
  <2>3. ASSUME NEW r \in Requests, Checks(r) PROVE Figures(m)' = Figures(m)
    <3>1. PICK q \in RequestType : Begin(r, q)
      BY <1>1, <2>3, CheckNotes
    <3> QED BY <2>2, <3>1 DEF Begin
  \* A row that did not exist counted nowhere; put in another month, it does not
  \* count in this one.
  <2>4. ASSUME NEW e \in Entries, NEW k, NEW x, NEW n, Insert(e, k, x, n), x # m
        PROVE  Figures(m)' = Figures(m)
    <3>1. ~ Stands(e) /\ month'[e] # m
      BY <2>1, <2>4 DEF Insert, Fresh, Stands, TypeOK
    <3>2. \A f \in Entries \ {e} :
            /\ kind'[f] = kind[f] /\ month'[f] = month[f]
            /\ amount'[f] = amount[f] /\ state'[f] = state[f]
      BY <2>1, <2>4 DEF Insert, TypeOK
    <3> QED BY <3>1, <3>2, SameFigures DEF Stands
  <2>5. ASSUME NEW r \in Requests, Writes(r) PROVE Figures(m)' = Figures(m)
    <3>1. request'[r] = Idle /\ Sound(request[r]) /\ request[r] \in RequestType
      BY <2>1, <2>5
      DEF Writes, InsertEntry, UpdateExpense, Undo, EntryGone, WriteClose, WriteReopen,
          End, TypeOK, RequestsSound
    <3>2. m \notin Asserted(request[r]) /\ ~ MovedMeanwhile(request[r], m)
      BY <1>1, <3>1
    <3>3. ASSUME NEW e \in Entries, InsertEntry(r, e) PROVE Figures(m)' = Figures(m)
      <4>1. request[r].to # m
        BY <3>2, <3>3 DEF InsertEntry, Asserted
      <4> QED BY <2>4, <3>3, <4>1 DEF InsertEntry
    <3>4. ASSUME UpdateExpense(r) \/ Undo(r) PROVE Figures(m)' = Figures(m)
      <4> DEFINE x == request[r].entry
      <4>1. x \in Entries /\ request[r].from # m
        BY <3>1, <3>2, <3>4 DEF UpdateExpense, Undo, Sound, Asserted, Months, NoMonth
      <4>2. month[x] # m
        BY <3>2, <3>4, <4>1 DEF UpdateExpense, Undo, MovedMeanwhile
      <4>3. month'[x] # m
        <5>1. CASE UpdateExpense(r)
          <6>1. request[r].to # m
            BY <3>2, <5>1 DEF UpdateExpense, Asserted, Months, NoMonth
          <6> QED BY <2>1, <4>1, <4>2, <5>1, <6>1 DEF UpdateExpense, TypeOK
        <5>2. CASE Undo(r)
          BY <4>2, <5>2 DEF Undo
        <5> QED BY <3>4, <5>1, <5>2
      <4>4. \A f \in Entries \ {x} :
              /\ kind'[f] = kind[f] /\ month'[f] = month[f]
              /\ amount'[f] = amount[f] /\ state'[f] = state[f]
        BY <2>1, <3>4 DEF UpdateExpense, Undo, TypeOK
      <4> QED BY <4>2, <4>3, <4>4, SameFigures DEF Stands
    <3> QED
      BY <2>2, <2>5, <3>3, <3>4 DEF Writes, EntryGone, WriteClose, WriteReopen
  <2>6. ASSUME NEW e \in Entries, NEW x \in Months, NEW n \in Amounts,
               RecordOfficePurchase(e, x, n)
        PROVE  Figures(m)' = Figures(m)
    <3>1. x # m
      BY <1>1, <2>6
    <3> QED BY <2>4, <2>6, <3>1 DEF RecordOfficePurchase
  <2> QED
    BY <1>1, <2>2, <2>3, <2>5, <2>6 DEF Next, MonthEnds, ComputeFigures, vars
<1>2. IInv /\ [Next]_vars =>
        [\A m \in Months : Closed(m) =>
           /\ Figures(m)' # Figures(m) => Excused(m)
           /\ \A r \in Requests : request[r] = Idle => m \notin Asserted(request'[r])]_vars
  BY <1>1, NoneFindsItOpen
<1> QED BY <1>2, InvariantHolds, PTL DEF Spec, FrozenOnceClosed
=============================================================================
