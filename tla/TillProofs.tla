----------------------------- MODULE TillProofs ------------------------------
(***************************************************************************)
(* Proofs about module Till, for any number of stations, sessions and       *)
(* expenses, and any amounts.                                               *)
(***************************************************************************)
EXTENDS Till, SumsProofs

\* The expected amount of a session is a number.
LEMMA ExpectedType ==
  ASSUME TypeOK, NEW s \in Sessions
  PROVE  /\ Total(Charges(s), MaxExpenses) \in Int
         /\ Expected(s) \in Int
<1>1. MaxExpenses \in Nat /\ \A e \in 1..MaxExpenses : Charges(s)[e] \in Int
  BY TillConstants DEF TypeOK, Charges, Expenses, Pockets
<1>2. Total(Charges(s), MaxExpenses) \in Int
  BY <1>1, TotalType
<1> QED BY <1>2 DEF Expected, TypeOK

\* A request carries a session, an amount and perhaps an expense.
LEMMA AsksType ==
  ASSUME NEW what \in {"idle", "open", "carry", "movement", "expense", "edit", "delete"},
         NEW s \in Pockets, NEW n \in Int, NEW e \in Expenses \cup {0}
  PROVE  /\ Asks(what, s, n, e) \in RequestType
         /\ Asks(what, s, n, e).do = what /\ Asks(what, s, n, e).session = s
         /\ Asks(what, s, n, e).amount = n /\ Asks(what, s, n, e).expense = e
BY DEF Asks, RequestType

\* An idle request is one.
LEMMA IdleType == Idle \in RequestType /\ Idle.do = "idle"
BY AsksType DEF Idle, Pockets

\* No session was opened yet.
LEMMA InitHolds == Init => IInv
<1>1. Idle \in RequestType /\ Idle.do = "idle"
  BY IdleType
<1> HIDE DEF Idle
<1>2. Init => TypeOK
  BY <1>1 DEF Init, TypeOK, NoPayments, Pockets
<1>3. Init => OneOpenSession /\ RequestRules
  BY <1>1 DEF Init, OneOpenSession, RequestRules, Sound, Open
<1> QED BY <1>2, <1>3 DEF IInv


\* What a check notes is sound.
LEMMA CheckNotes ==
  ASSUME IInv, NEW r \in Requests, Checks(r)
  PROVE  \E q \in RequestType : Sound(q) /\ Begin(r, q)
<1>1. TypeOK /\ RequestRules
  BY DEF IInv
<1>2. ASSUME NEW float \in Nat, CheckNoneOpen(r, float)
      PROVE  \E q \in RequestType : Sound(q) /\ Begin(r, q)
  <2>1. ASSUME NEW what \in {"open", "carry"}
        PROVE  Asks(what, NoSession, float, 0) \in RequestType
                 /\ Sound(Asks(what, NoSession, float, 0))
    BY AsksType DEF Sound, Pockets
  <2> QED BY <1>2, <2>1 DEF CheckNoneOpen
<1>4. ASSUME NEW s \in Sessions, NEW n \in Signed, CheckMovement(r, s, n)
      PROVE  \E q \in RequestType : Sound(q) /\ Begin(r, q)
  <2>1. n \in Int
    BY TillConstants DEF Signed
  <2>2. Asks("movement", s, n, 0) \in RequestType /\ Sound(Asks("movement", s, n, 0))
    BY <2>1, AsksType DEF Sound, Pockets
  <2> QED BY <1>4, <2>2 DEF CheckMovement
<1>5. ASSUME NEW n \in 0..MaxAmount, FindSession(r, n)
      PROVE  \E q \in RequestType : Sound(q) /\ Begin(r, q)
  <2>1. OpenOrNone \in Pockets /\ NoSession \in Pockets
    BY DEF OpenOrNone, SomeOpen, Pockets
  <2>2. n \in Int /\ n >= 0
    BY TillConstants
  <2> HIDE DEF OpenOrNone
  <2>3. ASSUME NEW p \in Pockets
        PROVE  Asks("expense", p, n, 0) \in RequestType /\ Sound(Asks("expense", p, n, 0))
    BY <2>2, AsksType DEF Sound
  <2> QED BY <1>5, <2>1, <2>3 DEF FindSession
<1>6. ASSUME NEW e \in Expenses, NEW n \in Amounts, NEW what \in {"edit", "delete"},
             CheckEditable(r, e, what, n)
      PROVE  \E q \in RequestType : Sound(q) /\ Begin(r, q)
  <2>1. /\ chargedTo[e] \in Pockets /\ recorded[e]
        /\ n \in Int /\ n > 0
    BY <1>1, <1>6, TillConstants
    DEF CheckEditable, Stands, TypeOK, RequestRules, Amounts
  <2>2. Asks(what, chargedTo[e], n, e) \in RequestType
          /\ Sound(Asks(what, chargedTo[e], n, e))
    BY <2>1, AsksType DEF Sound
  <2> QED BY <1>6, <2>2 DEF CheckEditable
<1> QED
  BY <1>2, <1>4, <1>5, <1>6, TillConstants DEF Checks

\* A check changes nothing but its own request.
LEMMA BeginKeeps ==
  ASSUME IInv, NEW r \in Requests, NEW q \in RequestType, Sound(q), Begin(r, q)
  PROVE  IInv'
<1>1. TypeOK /\ RequestRules /\ OneOpenSession
  BY DEF IInv
<1>2. TypeOK'
  BY <1>1 DEF Begin, TypeOK, rows, expenseRows
<1>3. OneOpenSession'
  BY <1>1 DEF Begin, OneOpenSession, Open
<1>4. RequestRules'
  BY <1>1 DEF Begin, RequestRules, Sound, TypeOK, expenseRows
<1> QED BY <1>2, <1>3, <1>4 DEF IInv

\* Ending a request with the expense rows, or one of their amounts, as they were.
LEMMA EndKeepsRules ==
  ASSUME TypeOK, RequestRules, NEW r \in Requests, End(r),
         UNCHANGED <<chargedTo, recorded>>,
         \A e \in Expenses : ~ recorded[e] =>
           spent'[e] = spent[e] /\ owing'[e] = owing[e] /\ payments'[e] = payments[e]
  PROVE  RequestRules' /\ request' \in [Requests -> RequestType]
<1>1. Idle \in RequestType /\ Idle.do = "idle"
  BY IdleType
<1>2. request' \in [Requests -> RequestType]
  BY <1>1 DEF End, TypeOK
<1> QED BY <1>1, <1>2 DEF RequestRules, Sound, End, TypeOK

\* What requests write: sessions, movements and expenses.
LEMMA WritesKeep ==
  ASSUME IInv, NEW r \in Requests, Writes(r)
  PROVE  IInv'
<1> USE TillConstants
<1>1. TypeOK /\ RequestRules /\ OneOpenSession
  BY DEF IInv
<1>2. Sound(request[r]) /\ request[r] \in RequestType
  BY <1>1 DEF RequestRules, TypeOK
<1>3. ASSUME NEW s \in Sessions, CreateSession(r, s) PROVE IInv'
  <2>1. request[r].amount \in Nat
    BY <1>2, <1>3 DEF CreateSession, Opening, Sound, RequestType
  <2>2. RequestRules' /\ request' \in [Requests -> RequestType]
    BY <1>1, <1>3, EndKeepsRules DEF CreateSession, expenseRows
  <2>3. TypeOK'
    BY <1>1, <1>3, <2>1, <2>2 DEF CreateSession, TypeOK, rows, expenseRows
  \* No session was open, so the new one is the only one.
  <2>4. OneOpenSession'
    BY <1>1, <1>3 DEF CreateSession, SomeOpen, OneOpenSession, Open, TypeOK
  <2> QED BY <2>2, <2>3, <2>4 DEF IInv
<1>4. ASSUME End(r), UNCHANGED <<status, opening, left, rows, expenseRows>> PROVE IInv'
  <2>1. RequestRules' /\ request' \in [Requests -> RequestType]
    BY <1>1, <1>4, EndKeepsRules DEF expenseRows
  <2>2. TypeOK'
    BY <1>1, <1>4, <2>1 DEF TypeOK, rows, expenseRows
  <2>3. OneOpenSession'
    BY <1>1, <1>4 DEF OneOpenSession, Open
  <2> QED BY <2>1, <2>2, <2>3 DEF IInv
<1>5. ASSUME InsertMovement(r) PROVE IInv'
  <2>1. request[r].session \in Sessions /\ request[r].amount \in Int
    BY <1>2, <1>5 DEF InsertMovement, Sound, RequestType
  <2>2. RequestRules' /\ request' \in [Requests -> RequestType]
    BY <1>1, <1>5, EndKeepsRules DEF InsertMovement, expenseRows
  <2>3. posted' \in [Sessions -> Int]
    BY <1>1, <1>5, <2>1 DEF InsertMovement, TypeOK
  <2>4. TypeOK'
    BY <1>1, <1>5, <2>2, <2>3 DEF InsertMovement, TypeOK, expenseRows
  <2>5. OneOpenSession'
    BY <1>1, <1>5 DEF InsertMovement, OneOpenSession, Open
  <2> QED BY <2>2, <2>4, <2>5 DEF IInv
<1>6. ASSUME NEW e \in Expenses, NEW due \in 0..MaxAmount, InsertExpense(r, e, due)
      PROVE  IInv'
  <2>1. /\ request[r].session \in Pockets /\ due \in Nat
        /\ request[r].amount \in Nat
    BY <1>2, <1>6 DEF InsertExpense, Sound, RequestType
  <2>2. Idle \in RequestType /\ Idle.do = "idle"
    BY IdleType
  <2>3. request' \in [Requests -> RequestType]
    BY <1>1, <1>6, <2>2 DEF InsertExpense, End, TypeOK
  <2>4. TypeOK'
    BY <1>1, <1>6, <2>1, <2>3 DEF InsertExpense, TypeOK, rows
  <2>5. OneOpenSession'
    BY <1>1, <1>6 DEF InsertExpense, OneOpenSession, Open
  <2>6. RequestRules'
    <3>1. ASSUME NEW q \in Requests PROVE Sound(request[q])'
      <4>1. CASE q = r
        BY <1>1, <1>6, <2>2, <4>1 DEF InsertExpense, End, Sound, TypeOK
      <4>2. CASE q # r
        BY <1>1, <1>6, <4>2 DEF InsertExpense, End, Sound, RequestRules, TypeOK
      <4> QED BY <4>1, <4>2
    <3>2. \A f \in Expenses : ~ recorded'[f] =>
             spent'[f] = 0 /\ owing'[f] = 0 /\ payments'[f] = NoPayments
      BY <1>1, <1>6 DEF InsertExpense, RequestRules, TypeOK
    <3> QED BY <3>1, <3>2 DEF RequestRules, NoPayments, Pockets, Sessions
  <2> QED BY <2>4, <2>5, <2>6 DEF IInv
<1>7. ASSUME UpdateExpense(r) \/ DeleteExpense(r) PROVE IInv'
  <2>1. /\ request[r].expense \in Expenses /\ recorded[request[r].expense]
        /\ request[r].do = "edit" => request[r].amount \in Nat
    BY <1>2, <1>7 DEF UpdateExpense, DeleteExpense, Sound, RequestType
  <2>2. NoPayments \in [Pockets -> Nat]
    BY DEF NoPayments
  <2> HIDE DEF NoPayments
  <2> DEFINE x == request[r].expense
  <2>7. /\ spent' \in [Expenses -> Nat] /\ owing' \in [Expenses -> Nat]
        /\ payments' \in [Expenses -> [Pockets -> Nat]]
    <3>1. CASE UpdateExpense(r)
      BY <1>1, <2>1, <3>1 DEF UpdateExpense, TypeOK
    <3>2. CASE DeleteExpense(r)
      BY <1>1, <2>1, <2>2, <3>2 DEF DeleteExpense, TypeOK
    <3> QED BY <1>7, <3>1, <3>2
  <2>8. \A e \in Expenses \ {x} :
          spent'[e] = spent[e] /\ owing'[e] = owing[e] /\ payments'[e] = payments[e]
    BY <1>1, <1>7, <2>1 DEF UpdateExpense, DeleteExpense, TypeOK
  <2>6. /\ spent' \in [Expenses -> Nat] /\ owing' \in [Expenses -> Nat]
        /\ payments' \in [Expenses -> [Pockets -> Nat]]
        /\ \A e \in Expenses : ~ recorded[e] =>
             spent'[e] = spent[e] /\ owing'[e] = owing[e] /\ payments'[e] = payments[e]
    BY <2>1, <2>7, <2>8
  <2>3. RequestRules' /\ request' \in [Requests -> RequestType]
    BY <1>1, <1>7, <2>6, EndKeepsRules DEF UpdateExpense, DeleteExpense
  <2>4. TypeOK'
    BY <1>1, <1>7, <2>6, <2>3 DEF UpdateExpense, DeleteExpense, TypeOK, rows
  <2>5. OneOpenSession'
    BY <1>1, <1>7 DEF UpdateExpense, DeleteExpense, OneOpenSession, Open
  <2> QED BY <2>3, <2>4, <2>5 DEF IInv
<1> QED
  BY <1>3, <1>4, <1>5, <1>6, <1>7 DEF Writes, CreateRefused, ExpenseGone

\* A payment on an office purchase is no more than what it still owes.
LEMMA PaymentKeeps ==
  ASSUME IInv, NEW e \in Expenses, NEW p \in Pockets, NEW n \in Amounts,
         PayOfficePurchase(e, p, n)
  PROVE  IInv'
<1> USE TillConstants
<1>1. TypeOK /\ RequestRules /\ OneOpenSession
  BY DEF IInv
<1>2. n \in Nat /\ owing[e] - n \in Nat /\ n > 0
  BY <1>1 DEF Amounts, PayOfficePurchase, TypeOK
<1>3. payments' \in [Expenses -> [Pockets -> Nat]]
  BY <1>1, <1>2 DEF PayOfficePurchase, TypeOK
<1>4. TypeOK'
  BY <1>1, <1>2, <1>3 DEF PayOfficePurchase, TypeOK, rows
<1>5. OneOpenSession'
  BY <1>1 DEF PayOfficePurchase, OneOpenSession, Open
\* Only an expense that was recorded owes anything.
<1>6. recorded[e]
  BY <1>1, <1>2 DEF RequestRules, PayOfficePurchase, TypeOK
<1>7. RequestRules'
  BY <1>1, <1>6 DEF RequestRules, Sound, PayOfficePurchase, TypeOK, NoPayments, Pockets
<1> QED BY <1>4, <1>5, <1>7 DEF IInv

\* What is done in one transaction touches no request and no expense.
LEMMA TransactionsKeep ==
  ASSUME IInv, NEW s \in Sessions,
         Trade(s) \/ \E actual, withdrawal \in 0..MaxCount : Close(s, actual, withdrawal)
  PROVE  IInv'
<1> USE TillConstants
<1>1. TypeOK /\ RequestRules /\ OneOpenSession
  BY DEF IInv
<1>2. ASSUME NEW n \in Amounts, Sell(s, n) \/ VoidSale(s, n) \/ Buy(s, n) \/ UndoPurchase(s, n)
      PROVE  TypeOK' /\ UNCHANGED <<status, expenseRows, request>>
  <2>1. UNCHANGED <<status, opening, left, posted, expenseRows, request>>
    BY <1>2 DEF Sell, VoidSale, Buy, UndoPurchase
  <2>2. sold' \in [Sessions -> Nat] /\ bought' \in [Sessions -> Nat]
    <3>1. /\ sold \in [Sessions -> Nat] /\ bought \in [Sessions -> Nat]
          /\ n \in Nat /\ sold[s] \in Nat /\ bought[s] \in Nat
      BY <1>1 DEF TypeOK, Amounts
    <3>2. CASE Sell(s, n) \/ VoidSale(s, n)
      BY ONLY <3>1, <3>2, s \in Sessions DEF Sell, VoidSale
    <3>3. CASE Buy(s, n) \/ UndoPurchase(s, n)
      BY ONLY <3>1, <3>3, s \in Sessions DEF Buy, UndoPurchase
    <3> QED BY <1>2, <3>2, <3>3
  <2> QED BY <1>1, <2>1, <2>2 DEF TypeOK, expenseRows
<1>3. ASSUME NEW n \in Signed, Post(s, n)
      PROVE  TypeOK' /\ UNCHANGED <<status, expenseRows, request>>
  BY <1>1, <1>3 DEF Post, TypeOK, expenseRows, Signed
<1>4. ASSUME UNCHANGED <<status, expenseRows, request>> PROVE OneOpenSession' /\ RequestRules'
  BY <1>1, <1>4 DEF OneOpenSession, Open, RequestRules, Sound, expenseRows, NoPayments, Pockets
<1>5. ASSUME NEW actual \in 0..MaxCount, NEW withdrawal \in 0..MaxCount,
             Close(s, actual, withdrawal)
      PROVE  IInv'
  <2>1. actual - withdrawal \in Nat /\ Expected(s) \in Int
    BY <1>1, <1>5, ExpectedType DEF Close
  <2>2. TypeOK'
    BY <1>1, <1>5, <2>1 DEF Close, TypeOK, rows, expenseRows
  <2>3. OneOpenSession' /\ RequestRules'
    BY <1>1, <1>5 DEF Close, OneOpenSession, Open, RequestRules, Sound, expenseRows, TypeOK
  <2> QED BY <2>2, <2>3 DEF IInv
<1> QED BY <1>2, <1>3, <1>4, <1>5 DEF Trade, IInv

\* Every step keeps the inductive invariant.
LEMMA Inductive == IInv /\ [Next]_vars => IInv'
<1>1. ASSUME IInv, UNCHANGED vars PROVE IInv'
  BY <1>1
  DEF vars, rows, expenseRows, IInv, TypeOK, OneOpenSession, Open, RequestRules, Sound
<1> QED
  BY <1>1, CheckNotes, BeginKeeps, WritesKeep, PaymentKeeps, TransactionsKeep DEF Next

\* The inductive invariant holds throughout.
THEOREM InvariantHolds == Spec => []IInv
BY InitHolds, Inductive, PTL DEF Spec

\* Floats, sales, purchases and what stays in the drawer are never negative.
THEOREM TypeCorrect == Spec => []TypeOK
BY InvariantHolds, PTL DEF IInv

\* At most one session is open, whatever the requests in flight had seen.
THEOREM TillStaysSingle == Spec => []OneOpenSession
BY InvariantHolds, PTL DEF IInv

-----------------------------------------------------------------------------
(* A counted session stays as it was counted. *)

\* What a session is expected to hold follows its own rows only.
LEMMA SameExpected ==
  ASSUME NEW s \in Sessions,
         opening'[s] = opening[s], posted'[s] = posted[s],
         sold'[s] = sold[s], bought'[s] = bought[s],
         \A e \in Expenses : (chargedTo[e] = s \/ chargedTo'[e] = s) =>
           chargedTo'[e] = chargedTo[e] /\ spent'[e] = spent[e],
         \A e \in Expenses : payments'[e][s] = payments[e][s]
  PROVE  Expected(s)' = Expected(s)
<1>1. Charges(s)' = Charges(s)
  BY DEF Charges
<1>2. Total(Charges(s)', MaxExpenses) = Total(Charges(s), MaxExpenses)
  BY <1>1
<1> QED BY <1>2 DEF Expected

\* What an idle request notes of its check never reaches a closed session.
LEMMA NoneBeginsOnClosed ==
  ASSUME IInv, NEW s \in Sessions, Closed(s), [Next]_vars,
         NEW r \in Requests, request[r] = Idle
  PROVE  ~ Reaches(request'[r], s)
<1> USE TillConstants
<1>1. TypeOK /\ RequestRules /\ ~ Open(s) /\ s # NoSession
  BY DEF IInv, Closed, Open, Sessions, NoSession
<1>2. Idle.do = "idle"
  BY IdleType
<1> HIDE DEF Idle
<1>3. ASSUME request'[r] = Idle PROVE ~ Reaches(request'[r], s)
  BY <1>2, <1>3 DEF Reaches
<1>4. ASSUME NEW q \in Requests, q # r, NEW x, request' = [request EXCEPT ![q] = x]
      PROVE  request'[r] = Idle
  BY <1>1, <1>4 DEF TypeOK
<1>5. ASSUME NEW x, Begin(r, x) PROVE request'[r] = x
  BY <1>1, <1>5 DEF Begin, TypeOK
<1>6. ASSUME Checks(r) PROVE ~ Reaches(request'[r], s)
  <2>1. ASSUME NEW float \in 0..MaxCount, CheckNoneOpen(r, float)
        PROVE  ~ Reaches(request'[r], s)
    <3>1. ASSUME NEW what \in {"open", "carry"}, Begin(r, Asks(what, NoSession, float, 0))
          PROVE  ~ Reaches(request'[r], s)
      BY <3>1, <1>5, AsksType DEF Reaches, Pockets
    <3> QED BY <2>1, <3>1 DEF CheckNoneOpen
  <2>2. ASSUME NEW t \in Sessions, NEW n \in Signed \ {0}, CheckMovement(r, t, n)
        PROVE  ~ Reaches(request'[r], s)
    <3>1. t # s /\ request'[r] = Asks("movement", t, n, 0) /\ n \in Int /\ t \in Pockets
      BY <1>1, <1>5, <2>2 DEF CheckMovement, Signed, Pockets
    <3> QED BY <3>1, AsksType DEF Reaches
  <2>3. ASSUME NEW n \in 0..MaxAmount, FindSession(r, n) PROVE ~ Reaches(request'[r], s)
    <3>1. /\ OpenOrNone \in Pockets /\ NoSession \in Pockets
          /\ OpenOrNone # s /\ NoSession # s
      BY <1>1 DEF OpenOrNone, SomeOpen, Pockets
    <3> HIDE DEF OpenOrNone
    <3>2. ASSUME NEW p \in Pockets, p # s, Begin(r, Asks("expense", p, n, 0))
          PROVE  ~ Reaches(request'[r], s)
      BY <3>2, <1>5, AsksType DEF Reaches
    <3> QED BY <2>3, <3>1, <3>2 DEF FindSession
  <2>4. ASSUME NEW e \in Expenses, NEW n \in Amounts, NEW what \in {"edit", "delete"},
               CheckEditable(r, e, what, n)
        PROVE  ~ Reaches(request'[r], s)
    <3>1. /\ chargedTo[e] \in Pockets /\ chargedTo[e] # s
          /\ payments[e][s] = 0 /\ n \in Int
      BY <1>1, <2>4 DEF CheckEditable, Frozen, HasPayments, TypeOK, Amounts, Pockets
    <3>2. request'[r] = Asks(what, chargedTo[e], n, e)
      BY <1>5, <2>4 DEF CheckEditable
    <3>3. LET q == request'[r]
          IN  q.session = chargedTo[e] /\ q.expense = e /\ q.do = what
      BY <3>1, <3>2, AsksType
    <3> QED BY <3>1, <3>3 DEF Reaches
  <2> QED BY <1>6, <2>1, <2>2, <2>3, <2>4 DEF Checks
<1>7. ASSUME NEW q \in Requests, Checks(q), q # r PROVE request'[r] = Idle
  <2>1. \E x \in RequestType : Begin(q, x)
    BY <1>7, CheckNotes
  <2> QED BY <1>4, <1>7, <2>1 DEF Begin
<1>8. ASSUME NEW q \in Requests, Writes(q) PROVE request'[r] = Idle
  <2>1. End(q)
    BY <1>8 DEF Writes, CreateSession, CreateRefused, InsertMovement, InsertExpense,
                UpdateExpense, DeleteExpense, ExpenseGone
  <2> QED BY <1>1, <2>1 DEF End, TypeOK
<1>9. ASSUME UNCHANGED request PROVE request'[r] = Idle
  BY <1>9
<1> QED
  BY <1>3, <1>6, <1>7, <1>8, <1>9
  DEF Next, PayOfficePurchase, Trade, Close, Sell, VoidSale, Buy, UndoPurchase, Post, vars

\* Only voided sales, further payments of a purchase part-paid from it, and
\* requests that had passed their check before the close, move the
\* reconciliation of a closed session, and no request passes its check after it.
THEOREM ClosedStaysFrozen == Spec => FrozenOnceClosed
<1> USE TillConstants
<1>1. ASSUME IInv, NEW s \in Sessions, Closed(s), [Next]_vars, ~ Moved(s)
      PROVE  Expected(s)' = Expected(s)
  <2>1. TypeOK /\ RequestRules /\ ~ Open(s) /\ s # NoSession /\ s \in Pockets
    BY <1>1 DEF IInv, Closed, Open, Sessions, NoSession, Pockets
  <2>2. ASSUME UNCHANGED <<opening, rows, expenseRows>> PROVE Expected(s)' = Expected(s)
    BY <2>2, SameExpected DEF rows, expenseRows
  <2>3. ASSUME NEW r \in Requests, Checks(r) PROVE Expected(s)' = Expected(s)
    <3>1. \E q \in RequestType : Begin(r, q)
      BY <1>1, <2>3, CheckNotes
    <3> QED BY <2>2, <3>1 DEF Begin
  <2>4. ASSUME NEW r \in Requests, Writes(r) PROVE Expected(s)' = Expected(s)
    <3>1. Sound(request[r]) /\ request[r] \in RequestType
      BY <2>1 DEF RequestRules, TypeOK
    <3>2. ASSUME End(r) PROVE ~ Reaches(request[r], s)
      BY <1>1, <2>1, <3>2 DEF End, Moved, TypeOK
    <3>3. ASSUME NEW t \in Sessions, CreateSession(r, t) PROVE Expected(s)' = Expected(s)
      <4>1. t # s
        BY <1>1, <3>3 DEF CreateSession, Closed
      <4> QED
        BY <2>1, <3>3, <4>1, SameExpected DEF CreateSession, TypeOK, rows, expenseRows
    <3>4. ASSUME InsertMovement(r) PROVE Expected(s)' = Expected(s)
      <4>1. request[r].session # s
        BY <3>2, <3>4 DEF InsertMovement, Reaches
      <4> QED
        BY <2>1, <3>4, <4>1, SameExpected DEF InsertMovement, TypeOK, expenseRows
    <3>5. ASSUME NEW e \in Expenses, NEW due \in 0..MaxAmount, InsertExpense(r, e, due)
          PROVE  Expected(s)' = Expected(s)
      <4>1. request[r].session # s
        BY <3>2, <3>5 DEF InsertExpense, Reaches
      \* The new row had charged nothing before.
      <4>2. /\ spent[e] = 0 /\ payments' = payments
            /\ \A f \in Expenses \ {e} : chargedTo'[f] = chargedTo[f] /\ spent'[f] = spent[f]
            /\ chargedTo'[e] = request[r].session
        BY <2>1, <3>5 DEF InsertExpense, RequestRules, TypeOK
      <4>3. Charges(s)' = Charges(s)
        BY <4>1, <4>2 DEF Charges
      <4>4. Total(Charges(s)', MaxExpenses) = Total(Charges(s), MaxExpenses)
        BY <4>3
      <4> QED BY <3>5, <4>4 DEF Expected, InsertExpense, rows
    <3>6. ASSUME UpdateExpense(r) \/ DeleteExpense(r) PROVE Expected(s)' = Expected(s)
      <4>1. /\ request[r].expense \in Expenses
            /\ request[r].session # s /\ request[r].session = chargedTo[request[r].expense]
        BY <3>1, <3>2, <3>6 DEF UpdateExpense, DeleteExpense, Sound, Reaches
      \* A deletion that takes payments of this session along would reach it.
      <4>2. DeleteExpense(r) => payments[request[r].expense][s] = 0
        BY <2>1, <3>2, <4>1 DEF DeleteExpense, Reaches, TypeOK
      <4>3. \A e \in Expenses : payments'[e][s] = payments[e][s]
        <5>1. payments' = payments \/ DeleteExpense(r)
          BY <3>6 DEF UpdateExpense
        <5>2. ASSUME NEW e \in Expenses, DeleteExpense(r)
              PROVE  payments'[e] = IF e = request[r].expense THEN NoPayments ELSE payments[e]
          BY <2>1, <4>1, <5>2 DEF DeleteExpense, TypeOK
        <5>3. NoPayments[s] = 0
          BY <2>1 DEF NoPayments
        <5> QED BY <4>2, <5>1, <5>2, <5>3
      <4> QED
        BY <2>1, <3>6, <4>1, <4>3, SameExpected DEF UpdateExpense, DeleteExpense, TypeOK, rows
    <3> QED
      BY <2>2, <2>4, <3>3, <3>4, <3>5, <3>6 DEF Writes, CreateRefused, ExpenseGone
  <2>5. ASSUME NEW t \in Sessions, Trade(t) PROVE Expected(s)' = Expected(s)
    <3>1. ASSUME NEW n \in Amounts, VoidSale(t, n) PROVE t # s
      <4>1. n > 0 /\ n \in Int /\ sold[t] \in Int
        BY <2>1 DEF Amounts, TypeOK
      <4>2. sold'[t] < sold[t]
        BY <2>1, <3>1, <4>1 DEF VoidSale, TypeOK
      <4> QED BY <1>1, <4>2 DEF Moved
    <3>2. t # s /\ UNCHANGED <<opening, expenseRows>>
      BY <1>1, <2>1, <2>5, <3>1 DEF Trade, Sell, VoidSale, Buy, UndoPurchase, Post
    <3>3. /\ posted'[s] = posted[s] /\ sold'[s] = sold[s] /\ bought'[s] = bought[s]
      BY <2>1, <2>5, <3>2 DEF Trade, Sell, VoidSale, Buy, UndoPurchase, Post, TypeOK
    <3> QED BY <3>2, <3>3, SameExpected DEF expenseRows
  <2>6. ASSUME NEW e \in Expenses, NEW p \in Pockets, NEW n \in Amounts,
               PayOfficePurchase(e, p, n)
        PROVE  Expected(s)' = Expected(s)
    <3>1. p # s
      BY <2>1, <2>6 DEF PayOfficePurchase
    <3>2. n \in Int /\ n > 0 /\ owing[e] > 0 /\ spent'[e] > spent[e]
      BY <2>1, <2>6 DEF PayOfficePurchase, Amounts, TypeOK
    <3>3. chargedTo[e] # s
      BY <1>1, <3>2 DEF Moved
    <3>4. \A f \in Expenses : payments'[f][s] = payments[f][s]
      BY <2>1, <2>6, <3>1 DEF PayOfficePurchase, TypeOK
    <3> QED
      BY <2>1, <2>6, <3>3, <3>4, SameExpected DEF PayOfficePurchase, TypeOK, rows
  <2> QED
    BY <1>1, <2>2, <2>3, <2>4, <2>5, <2>6 DEF Next, Close, vars
<1>2. ASSUME IInv, NEW s \in Sessions, Closed(s), [Next]_vars,
             NEW r \in Requests, request[r] = Idle
      PROVE  ~ Reaches(request'[r], s)
  BY <1>2, NoneBeginsOnClosed
<1>3. IInv /\ [Next]_vars =>
        [\A s \in Sessions : Closed(s) =>
           /\ Expected(s)' # Expected(s) => Moved(s)
           /\ \A r \in Requests : request[r] = Idle => ~ Reaches(request'[r], s)]_vars
  BY <1>1, <1>2
<1> QED BY <1>3, InvariantHolds, PTL DEF Spec, FrozenOnceClosed
=============================================================================
