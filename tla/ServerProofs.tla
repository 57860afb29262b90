---------------------------- MODULE ServerProofs ----------------------------
(***************************************************************************)
(* Proofs about what lies between a station and the server, and on the     *)
(* server's disk: keyed writes (Requests, and OnceOnly which it implements), *)
(* tokens (Sessions) and copies (Backup), for any number of requests, keys, *)
(* tabs, users, tokens, files kept and failures.                           *)
(***************************************************************************)
EXTENDS Requests, Sessions, Backup, SequenceTheorems, FiniteSetTheorems, TLAPS

(* Keyed writes. *)

\* A transaction past its reservation holds its sequence row, unchanged since.
Locked ==
    \A r \in Requests :
        pc[r] \in {"insert", "commit"} =>
            lock[series[r]] = r /\ base[r][series[r]] = seq[series[r]]

\* Before a commit nothing is booked under its key, nor about to be by another.
Fresh ==
    \A r \in Requests : pc[r] = "commit" =>
        /\ \A d \in docs : key[r] = NoKey \/ d.key # key[r]
        /\ \A q \in Requests : pc[q] = "commit" /\ q # r =>
               key[r] = NoKey \/ key[q] # key[r]

\* A document carries the key of the request that booked it, which is past its
\* transaction.
Owned ==
    \A d \in docs :
        d.key = key[d.by] /\ pc[d.by] \in {"committed", "answered", "cut"}

\* A request that was shown a document was shown its own or its key's.
ToldOwn ==
    \A r \in Requests : told[r] # NoDoc =>
        /\ pc[r] = "answered"
        /\ told[r] \in docs
        /\ told[r].by = r \/ (key[r] # NoKey /\ told[r].key = key[r])

\* A request on the server has a key, or is known to have none.
Sent == \A r \in Requests : pc[r] # "idle" => key[r] # Unsent

IInv == TypeOK /\ OncePerKey /\ Gapless /\ Locked /\ Fresh /\ Owned /\ ToldOwn /\ Sent

-----------------------------------------------------------------------------
USE RequestsAssumption

\* The document a transaction is about to commit is a document.
LEMMA DocOfTyped ==
    ASSUME TypeOK, Sent, NEW r \in Requests, pc[r] = "commit"
    PROVE  /\ DocOf(r) \in Docs
           /\ DocOf(r).key = key[r]
           /\ DocOf(r).series = series[r]
           /\ DocOf(r).number = base[r][series[r]] + 1
           /\ DocOf(r).by = r
  BY DEF TypeOK, Sent, DocOf, Docs

\* The initial states are typed and nothing is booked in them.
LEMMA InitIInv == ASSUME Init PROVE IInv
  BY DEF Init, OnceInit, IInv, TypeOK, OncePerKey, Gapless, Locked, Fresh, Owned,
         ToldOwn, Sent, NoSeries, NoBase

\* Every step keeps the types.
LEMMA NextTyped == ASSUME TypeOK, Sent, [Next]_vars PROVE TypeOK'
  <1>0. NoSeries \in Series /\ NoBase \in [Series -> Nat]
    BY DEF NoSeries, NoBase
  <1>1. ASSUME NEW r \in Requests, NEW k \in Keys \union {NoKey}, Send(r, k) PROVE TypeOK'
    BY <1>1 DEF Send, Ask, TypeOK
  <1>2. ASSUME NEW r \in Requests, Check(r) PROVE TypeOK'
    BY <1>2 DEF Check, TypeOK
  <1>3. ASSUME NEW r \in Requests, Found(r) PROVE TypeOK'
    BY <1>0, <1>3 DEF Found, Booked, Answer, Forget, TypeOK
  <1>4. ASSUME NEW r \in Requests, NEW s \in Series, Begin(r, s) PROVE TypeOK'
    BY <1>4 DEF Begin, TypeOK
  <1>5. ASSUME NEW r \in Requests, Reserve(r) PROVE TypeOK'
    BY <1>5 DEF Reserve, TypeOK
  <1>6. ASSUME NEW r \in Requests, Insert(r) PROVE TypeOK'
    BY <1>6 DEF Insert, TypeOK
  <1>7. ASSUME NEW r \in Requests, Commit(r) PROVE TypeOK'
    <2>1. pc[r] = "commit" BY <1>7 DEF Commit
    <2>2. DocOf(r) \in Docs /\ DocOf(r).number \in Nat
      BY <2>1, DocOfTyped DEF TypeOK
    <2>3. docs' \subseteq Docs BY <1>7, <2>2 DEF Commit, TypeOK
    <2>4. seq' \in [Series -> Nat] BY <1>7, <2>2 DEF Commit, TypeOK
    <2>5. lock' \in [Series -> Requests \union {Free}] BY <1>7 DEF Commit, Unlock, TypeOK
    <2>6. /\ series' \in [Requests -> Series]
          /\ base' \in [Requests -> [Series -> Nat]]
          /\ tries' \in [Requests -> 0..MaxRetries]
      BY <1>0, <1>7 DEF Commit, Forget, TypeOK
    <2> QED BY <1>7, <2>3, <2>4, <2>5, <2>6 DEF Commit, TypeOK
  <1>8. ASSUME NEW r \in Requests, Return(r) PROVE TypeOK'
    BY <1>0, <1>8 DEF Return, Answer, Forget, TypeOK
  <1>9. ASSUME NEW r \in Requests, Retry(r) PROVE TypeOK'
    <2>1. lock' \in [Series -> Requests \union {Free}] BY <1>9 DEF Retry, Unlock, TypeOK
    <2>2. tries' \in [Requests -> 0..MaxRetries] BY <1>9 DEF Retry, TypeOK
    <2> QED BY <1>0, <1>9, <2>1, <2>2 DEF Retry, TypeOK
  <1>10. ASSUME NEW r \in Requests, NEW how \in {"refused", "cut"}, End(r, how)
         PROVE TypeOK'
    <2>1. lock' \in [Series -> Requests \union {Free}] BY <1>10 DEF End, Unlock, TypeOK
    <2> QED BY <1>0, <1>10, <2>1 DEF End, Forget, TypeOK
  <1>11. CASE UNCHANGED vars BY <1>11 DEF vars, TypeOK
  <1> QED BY <1>1, <1>2, <1>3, <1>4, <1>5, <1>6, <1>7, <1>8, <1>9, <1>10, <1>11
       DEF Next, Step, GiveUp, Refuse, Cut

-----------------------------------------------------------------------------
\* The steps that leave the book, the keys and the answers alone.
Quiet(r) ==
    \/ Check(r) \/ (\E s \in Series : Begin(r, s)) \/ Reserve(r) \/ Insert(r)
    \/ Retry(r) \/ (\E how \in {"refused", "cut"} : InTx(r) /\ End(r, how))
    \/ (pc[r] \in {"check", "begin", "committed"} /\ End(r, "cut"))

\* The steps that end in an answer.
Told(r) == Found(r) \/ Return(r)

\* Every step is one of four kinds.
LEMMA Kinds ==
    ASSUME TypeOK, Next
    PROVE  \E r \in Requests :
               \/ \E k \in Keys \union {NoKey} : Send(r, k)
               \/ Quiet(r) \/ Told(r) \/ Commit(r)
  <1>1. PICK r \in Requests :
           \/ \E k \in Keys \union {NoKey} : Send(r, k)
           \/ Step(r) \/ Refuse(r) \/ Cut(r)
    BY DEF Next
  <1>2. CASE Cut(r)
    <2>1. pc[r] \in {"check", "begin", "committed"} \/ InTx(r)
      BY <1>2 DEF Cut, Over, InTx, TypeOK
    <2> QED BY <1>2, <2>1 DEF Cut, Quiet
  <1> QED BY <1>1, <1>2 DEF Step, Refuse, GiveUp, Quiet, Told

\* What a quiet step does to the book and to the request it is of.
LEMMA QuietFrame ==
    ASSUME TypeOK, NEW r \in Requests, Quiet(r)
    PROVE  /\ UNCHANGED <<key, docs, seq, told>>
           /\ pc[r] \notin {"idle", "answered", "refused", "cut"}
           /\ \A q \in Requests \ {r} : pc'[q] = pc[q]
           /\ pc'[r] \in {"begin", "reserve", "insert", "commit", "refused", "cut"}
           /\ pc[r] = "committed" => pc'[r] = "cut"
  BY DEF Quiet, Check, Begin, Reserve, Insert, Retry, End, InTx, TypeOK

\* What an answer does to the book and to the request it is of.
LEMMA ToldFrame ==
    ASSUME TypeOK, NEW r \in Requests, Told(r)
    PROVE  /\ UNCHANGED <<key, docs, seq, lock>>
           /\ pc[r] \in {"check", "begin", "committed"}
           /\ pc' = [pc EXCEPT ![r] = "answered"]
           /\ \E d \in docs :
                  /\ told' = [told EXCEPT ![r] = d]
                  /\ d.by = r \/ (key[r] # NoKey /\ d.key = key[r])
           /\ \A q \in Requests \ {r} : series'[q] = series[q] /\ base'[q] = base[q]
  <1>1. CASE Found(r)
    <2>1. PICK d \in Booked(r) : Answer(r, d) BY <1>1 DEF Found
    <2> QED BY <1>1, <2>1 DEF Found, Booked, Answer, Forget, TypeOK
  <1>2. CASE Return(r)
    <2>1. PICK d \in docs : d.by = r /\ Answer(r, d) BY <1>2 DEF Return
    <2> QED BY <1>2, <2>1 DEF Return, Answer, Forget, TypeOK
  <1> QED BY <1>1, <1>2 DEF Told

\* What a commit does: everything is unlocked and forgotten but the document.
LEMMA CommitFrame ==
    ASSUME TypeOK, Sent, Locked, NEW r \in Requests, Commit(r)
    PROVE  /\ UNCHANGED <<key, told>>
           /\ pc[r] = "commit"
           /\ pc' = [pc EXCEPT ![r] = "committed"]
           /\ docs' = docs \union {DocOf(r)}
           /\ DocOf(r).number = seq[series[r]] + 1
           /\ seq' = [seq EXCEPT ![series[r]] = seq[series[r]] + 1]
           /\ \A q \in Requests \ {r} : series'[q] = series[q] /\ base'[q] = base[q]
           /\ \A s \in Series : lock[s] # r => lock'[s] = lock[s]
  <1>1. pc[r] = "commit" BY DEF Commit
  <1>2. DocOf(r).number = seq[series[r]] + 1
    BY <1>1, DocOfTyped DEF Locked, TypeOK
  <1> QED BY <1>1, <1>2 DEF Commit, Unlock, Forget, TypeOK

-----------------------------------------------------------------------------
\* A request keeps its key once it is sent.
LEMMA NextSent == ASSUME TypeOK, Sent, Next PROVE Sent'
  <1>1. PICK r \in Requests :
           \/ \E k \in Keys \union {NoKey} : Send(r, k)
           \/ Quiet(r) \/ Told(r) \/ Commit(r)
    BY Kinds
  <1>2. ASSUME NEW k \in Keys \union {NoKey}, Send(r, k) PROVE Sent'
    BY <1>2 DEF Send, Ask, Sent, TypeOK
  <1>3. CASE Quiet(r) BY <1>3, QuietFrame DEF Sent
  <1>4. CASE Told(r) BY <1>4, ToldFrame DEF Sent, TypeOK
  <1>5. CASE Commit(r) BY <1>5 DEF Commit, Sent, TypeOK
  <1> QED BY <1>1, <1>2, <1>3, <1>4, <1>5

\* A row stays locked, and as the snapshot showed it, until its holder is done:
\* nobody else can take the lock, and only the holder moves the number.
LEMMA NextLocked == ASSUME TypeOK, Sent, Locked, Next PROVE Locked'
  <1>1. PICK r \in Requests :
           \/ \E k \in Keys \union {NoKey} : Send(r, k)
           \/ Quiet(r) \/ Told(r) \/ Commit(r)
    BY Kinds
  <1>2. ASSUME NEW k \in Keys \union {NoKey}, Send(r, k) PROVE Locked'
    BY <1>2 DEF Send, Ask, Locked, TypeOK
  <1>3. CASE Quiet(r)
    <2>1. CASE Check(r) BY <2>1 DEF Check, Locked, TypeOK
    <2>2. ASSUME NEW s \in Series, Begin(r, s) PROVE Locked'
      BY <2>2 DEF Begin, Locked, TypeOK
    <2>3. CASE Reserve(r)
      <3>1. \A q \in Requests : pc[q] \in {"insert", "commit"} => series[q] # series[r]
        BY <2>3 DEF Reserve, Locked
      <3> QED BY <2>3, <3>1 DEF Reserve, Locked, TypeOK
    <2>4. CASE Insert(r) BY <2>4 DEF Insert, Locked, TypeOK
    <2>5. CASE Retry(r) BY <2>5 DEF Retry, Unlock, Locked, TypeOK
    <2>6. ASSUME NEW how \in {"refused", "cut"}, End(r, how) PROVE Locked'
      BY <2>6 DEF End, Unlock, Forget, Locked, TypeOK
    <2> QED BY <1>3, <2>1, <2>2, <2>3, <2>4, <2>5, <2>6 DEF Quiet
  <1>4. CASE Told(r) BY <1>4, ToldFrame DEF Locked, TypeOK
  <1>5. CASE Commit(r)
    <2>1. \A q \in Requests \ {r} : pc[q] \in {"insert", "commit"} =>
             series[q] # series[r]
      BY <1>5, CommitFrame DEF Locked
    <2> QED BY <1>5, <2>1, CommitFrame DEF Locked, TypeOK
  <1> QED BY <1>1, <1>2, <1>3, <1>4, <1>5

\* Nothing is booked under the key of a transaction that is about to commit: the
\* unique index let it in when nothing was, and nobody else in since.
LEMMA NextFresh == ASSUME TypeOK, Sent, Locked, Fresh, Next PROVE Fresh'
  <1>1. PICK r \in Requests :
           \/ \E k \in Keys \union {NoKey} : Send(r, k)
           \/ Quiet(r) \/ Told(r) \/ Commit(r)
    BY Kinds
  <1>2. ASSUME NEW k \in Keys \union {NoKey}, Send(r, k) PROVE Fresh'
    BY <1>2 DEF Send, Ask, Fresh, TypeOK
  <1>3. CASE Quiet(r)
    <2>1. CASE Insert(r)
      BY <2>1 DEF Insert, Booked, Inserted, Fresh, TypeOK
    <2>2. CASE ~Insert(r)
      <3>1. pc'[r] # "commit"
        BY <1>3, <2>2 DEF Quiet, Check, Begin, Reserve, Retry, End, TypeOK
      <3> QED BY <1>3, <3>1, QuietFrame DEF Fresh
    <2> QED BY <2>1, <2>2
  <1>4. CASE Told(r) BY <1>4, ToldFrame DEF Fresh, TypeOK
  <1>5. CASE Commit(r)
    <2>1. /\ key' = key /\ pc[r] = "commit" /\ pc' = [pc EXCEPT ![r] = "committed"]
          /\ docs' = docs \union {DocOf(r)} /\ DocOf(r).key = key[r]
      BY <1>5, CommitFrame, DocOfTyped
    <2>2. \A q \in Requests : pc'[q] = "commit" => pc[q] = "commit" /\ q # r
      BY <2>1 DEF TypeOK
    <2> QED BY <2>1, <2>2 DEF Fresh
  <1> QED BY <1>1, <1>2, <1>3, <1>4, <1>5

\* A document stays with the request that booked it.
LEMMA NextOwned == ASSUME TypeOK, Sent, Locked, Owned, Next PROVE Owned'
  <1>0. \A d \in docs : d.by \in Requests BY DEF TypeOK, Docs
  <1>1. PICK r \in Requests :
           \/ \E k \in Keys \union {NoKey} : Send(r, k)
           \/ Quiet(r) \/ Told(r) \/ Commit(r)
    BY Kinds
  <1>2. ASSUME NEW k \in Keys \union {NoKey}, Send(r, k) PROVE Owned'
    BY <1>0, <1>2 DEF Send, Ask, Owned, TypeOK
  <1>3. CASE Quiet(r) BY <1>0, <1>3, QuietFrame DEF Owned
  <1>4. CASE Told(r)
    <2>1. \A q \in Requests : pc'[q] = IF q = r THEN "answered" ELSE pc[q]
      BY <1>4, ToldFrame DEF TypeOK
    <2>2. docs' = docs /\ key' = key BY <1>4, ToldFrame
    <2> QED BY <1>0, <2>1, <2>2 DEF Owned
  <1>5. CASE Commit(r)
    <2>1. \A q \in Requests : pc'[q] = IF q = r THEN "committed" ELSE pc[q]
      BY <1>5, CommitFrame DEF TypeOK
    <2>2. docs' = docs \union {DocOf(r)} /\ key' = key BY <1>5, CommitFrame
    <2>3. DocOf(r).key = key[r] /\ DocOf(r).by = r BY <1>5, CommitFrame, DocOfTyped
    <2>4. pc[r] = "commit" BY <1>5, CommitFrame
    <2> HIDE DEF DocOf
    <2> QED BY <1>0, <2>1, <2>2, <2>3, <2>4 DEF Owned
  <1> QED BY <1>1, <1>2, <1>3, <1>4, <1>5

\* An answer keeps showing the document it showed.
LEMMA NextToldOwn == ASSUME TypeOK, Sent, Locked, ToldOwn, Next PROVE ToldOwn'
  <1>1. PICK r \in Requests :
           \/ \E k \in Keys \union {NoKey} : Send(r, k)
           \/ Quiet(r) \/ Told(r) \/ Commit(r)
    BY Kinds
  <1>2. ASSUME NEW k \in Keys \union {NoKey}, Send(r, k) PROVE ToldOwn'
    BY <1>2 DEF Send, Ask, ToldOwn, TypeOK
  <1>3. CASE Quiet(r) BY <1>3, QuietFrame DEF ToldOwn
  <1>4. CASE Told(r) BY <1>4, ToldFrame DEF ToldOwn, TypeOK
  <1>5. CASE Commit(r) BY <1>5, CommitFrame DEF ToldOwn, TypeOK
  <1> QED BY <1>1, <1>2, <1>3, <1>4, <1>5

\* No second document is booked under a key, or by a request.
LEMMA NextOncePerKey ==
    ASSUME TypeOK, Sent, Locked, Fresh, Owned, OncePerKey, Next
    PROVE  OncePerKey'
  <1>1. PICK r \in Requests :
           \/ \E k \in Keys \union {NoKey} : Send(r, k)
           \/ Quiet(r) \/ Told(r) \/ Commit(r)
    BY Kinds
  <1>2. CASE UNCHANGED docs BY <1>2 DEF OncePerKey
  <1>3. CASE Commit(r)
    <2>1. \A d \in docs : d.by # r /\ (key[r] = NoKey \/ d.key # key[r])
      BY <1>3, CommitFrame DEF Fresh, Owned
    <2> QED BY <1>3, <2>1, CommitFrame, DocOfTyped DEF OncePerKey
  <1> QED BY <1>1, <1>2, <1>3, QuietFrame, ToldFrame DEF Send, Ask

\* A committed document takes the number after the last one of its series.
LEMMA NextGapless ==
    ASSUME TypeOK, Sent, Locked, Gapless, Next
    PROVE  Gapless'
  <1>1. PICK r \in Requests :
           \/ \E k \in Keys \union {NoKey} : Send(r, k)
           \/ Quiet(r) \/ Told(r) \/ Commit(r)
    BY Kinds
  <1>2. CASE UNCHANGED <<docs, seq>> BY <1>2 DEF Gapless
  <1>3. CASE Commit(r)
    <2> DEFINE s0 == series[r]
               d0 == DocOf(r)
    <2>1. /\ s0 \in Series /\ seq[s0] \in Nat
          /\ d0.series = s0 /\ d0.number = seq[s0] + 1
          /\ docs' = docs \union {d0}
          /\ seq' = [seq EXCEPT ![s0] = seq[s0] + 1]
      BY <1>3, CommitFrame, DocOfTyped DEF TypeOK
    <2>2. \A d \in docs : d.number \in Nat BY DEF TypeOK, Docs
    <2> HIDE DEF d0, s0
    <2> SUFFICES ASSUME NEW s \in Series
                 PROVE /\ \A n \in 1..seq'[s] :
                              \E d \in docs' : d.series = s /\ d.number = n
                       /\ \A d \in docs' : d.series = s => d.number \in 1..seq'[s]
                       /\ \A d, e \in docs' :
                            d.series = s /\ e.series = s /\ d.number = e.number => d = e
      BY DEF Gapless
    <2>3. CASE s # s0 BY <2>1, <2>3 DEF Gapless, TypeOK
    <2>4. CASE s = s0
      <3>1. seq'[s] = seq[s] + 1 BY <2>1, <2>4 DEF TypeOK
      <3>2. \A n \in 1..seq'[s] : n \in 1..seq[s] \/ n = seq[s] + 1
        BY <2>1, <2>4, <3>1
      <3>3. \A n \in 1..seq'[s] : \E d \in docs' : d.series = s /\ d.number = n
        BY <2>1, <2>4, <3>2 DEF Gapless
      <3>4. \A d \in docs : d.series = s => d.number \in 1..seq[s]
        BY DEF Gapless
      <3>5. \A d \in docs' : d.series = s => d.number \in 1..seq'[s]
        BY <2>1, <2>2, <2>4, <3>1, <3>4
      <3>6. \A d \in docs : d.series = s => d.number # d0.number
        BY <2>1, <2>2, <2>4, <3>4
      <3>7. \A d, e \in docs' :
               d.series = s /\ e.series = s /\ d.number = e.number => d = e
        BY <2>1, <2>4, <3>6 DEF Gapless
      <3> QED BY <3>3, <3>5, <3>7
    <2> QED BY <2>3, <2>4
  <1> QED BY <1>1, <1>2, <1>3, QuietFrame, ToldFrame DEF Send, Ask

-----------------------------------------------------------------------------
\* The invariant holds of every reachable state.
LEMMA Inductive == Spec => []IInv
  <1>1. Init => IInv BY InitIInv
  <1>2. IInv /\ [Next]_vars => IInv'
    <2> SUFFICES ASSUME IInv, [Next]_vars PROVE IInv' OBVIOUS
    <2>1. CASE Next
      BY <2>1, NextTyped, NextSent, NextLocked, NextFresh, NextOwned, NextToldOwn,
         NextOncePerKey, NextGapless DEF IInv
    <2>2. CASE UNCHANGED vars
      BY <2>2, NextTyped DEF vars, IInv, OncePerKey, Gapless, Locked, Fresh, Owned,
         ToldOwn, Sent
    <2> QED BY <2>1, <2>2
  <1> QED BY <1>1, <1>2, PTL DEF Spec

\* Every reachable state has its types.
THEOREM Typed == Spec => []TypeOK
  <1>1. IInv => TypeOK BY DEF IInv
  <1> QED BY <1>1, Inductive, PTL

\* For any number of requests that overlap, are retried or are sent again, at
\* most one document is booked under a key, and at most one by a request.
THEOREM BookedOnce == Spec => []OncePerKey
  <1>1. IInv => OncePerKey BY DEF IInv
  <1> QED BY <1>1, Inductive, PTL

\* The numbers of every series run from 1 with no gap and no repetition.
THEOREM NumberedInOrder == Spec => []Gapless
  <1>1. IInv => Gapless BY DEF IInv
  <1> QED BY <1>1, Inductive, PTL

\* All who are answered under one key are shown one document.
THEOREM AnsweredAlike == Spec => []SameAnswer
  <1>1. IInv => SameAnswer
    <2> SUFFICES ASSUME IInv, NEW r \in Requests, NEW q \in Requests,
                        told[r] # NoDoc, told[q] # NoDoc,
                        key[r] # NoKey, key[r] = key[q]
                 PROVE  told[r] = told[q]
      BY DEF SameAnswer
    <2>1. told[r] \in docs /\ told[r].key = key[r] BY DEF IInv, ToldOwn, Owned
    <2>2. told[q] \in docs /\ told[q].key = key[q] BY DEF IInv, ToldOwn, Owned
    <2> QED BY <2>1, <2>2 DEF IInv, OncePerKey
  <1> QED BY <1>1, Inductive, PTL

\* An error is the answer of a request that booked nothing.
THEOREM NothingLeftBehind == Spec => []RefusedLeavesNothing
  <1>1. IInv => RefusedLeavesNothing BY DEF IInv, Owned, RefusedLeavesNothing
  <1> QED BY <1>1, Inductive, PTL

\* What the server does step by step is what OnceOnly does in one: a commit books,
\* an answer tells, and everything before is invisible.
THEOREM ImplementsOnceOnly == Spec => OnceSpec
  <1>1. Init => OnceInit BY DEF Init
  <1>2. IInv /\ [Next]_vars => [OnceNext]_onceVars
    <2> SUFFICES ASSUME IInv, [Next]_vars PROVE [OnceNext]_onceVars OBVIOUS
    <2> USE DEF IInv
    <2>1. ASSUME NEW r \in Requests, NEW k \in Keys \union {NoKey}, Send(r, k)
          PROVE  OnceNext
      BY <2>1 DEF Send, OnceNext
    <2>2. ASSUME NEW r \in Requests, Quiet(r) PROVE UNCHANGED onceVars
      BY <2>2, QuietFrame DEF onceVars
    <2>3. ASSUME NEW r \in Requests, Told(r) PROVE OnceNext
      <3>1. told[r] = NoDoc BY <2>3, ToldFrame DEF ToldOwn
      <3>2. PICK d \in docs :
               /\ told' = [told EXCEPT ![r] = d]
               /\ d.by = r \/ (key[r] # NoKey /\ d.key = key[r])
        BY <2>3, ToldFrame
      <3>3. Tell(r, d) BY <2>3, <3>1, <3>2, ToldFrame DEF Tell
      <3> QED BY <3>3 DEF OnceNext
    <2>4. ASSUME NEW r \in Requests, Commit(r) PROVE OnceNext
      <3>1. \A d \in docs : d.by # r /\ (key[r] = NoKey \/ d.key # key[r])
        BY <2>4, CommitFrame DEF Fresh, Owned
      <3>2. key[r] # Unsent BY <2>4, CommitFrame DEF Sent
      <3>3. DocOf(r) = [key |-> key[r], series |-> series[r],
                        number |-> seq[series[r]] + 1, by |-> r]
        BY <2>4, CommitFrame DEF DocOf, Locked
      <3>4. series[r] \in Series BY DEF TypeOK
      <3>5. Book(r, series[r]) BY <2>4, <3>1, <3>2, <3>3, CommitFrame DEF Book
      <3> QED BY <3>4, <3>5 DEF OnceNext
    <2>5. CASE UNCHANGED vars BY <2>5 DEF vars, onceVars
    <2> QED BY <2>1, <2>2, <2>3, <2>4, <2>5, Kinds
  <1> QED BY <1>1, <1>2, Inductive, PTL DEF Spec, OnceSpec

-----------------------------------------------------------------------------
(* Tokens. *)

Steps == {"none", "sent", "found", "issued", "done", "failed"}
Renewals == [token : Pairs \union {NoPair}, stage : Steps, pair : Pairs \union {NoPair}]

SessionsShape ==
    /\ row \in [Pairs -> Rows]
    /\ store \in [Tabs -> Pairs \union {NoPair}]
    /\ user = [t \in Tabs |-> user[t]]
    /\ refreshing \in [Tabs -> Renewals]
    /\ leaving \subseteq Tabs /\ undermined \in BOOLEAN

\* The tab has a pair coming: the server has issued it and the tab does not hold it yet.
Coming(t) == refreshing[t].stage \in {"issued", "done"}

Good(n) == row[n] \in {"live", "gone"}

\* A refresh presents the token the tab holds, and never while the tab signs out; what
\* it brings is good, and so is what the tab holds while it is not being rotated.
TabStands(t) ==
    /\ t \in leaving => refreshing[t] = NoRefresh
    /\ IF refreshing[t].token = NoPair THEN refreshing[t].stage \in {"none", "failed"}
                                      ELSE refreshing[t].token = store[t]
    /\ store[t] # NoPair =>
        /\ row[store[t]] # "unissued"
        /\ \/ Good(store[t]) \/ t \in leaving
           \/ refreshing[t].token = store[t] /\ refreshing[t].stage \in {"done", "failed"}
    /\ Coming(t) => refreshing[t].pair \in Pairs /\ Good(refreshing[t].pair)
                    /\ refreshing[t].pair # store[t]
    /\ (user[t] = NoUser) <=> (store[t] = NoPair)

\* No two tabs hold, or are about to hold, the same pair.
Apart(s, t) ==
    /\ store[s] # NoPair => store[s] # store[t]
    /\ Coming(s) => refreshing[s].pair # store[t]
    /\ Coming(s) /\ Coming(t) => refreshing[s].pair # refreshing[t].pair

Honest == \A t \in Tabs : TabStands(t) /\ \A s \in Tabs \ {t} : Apart(s, t)

SessionsInv == SessionsShape /\ (~undermined => Honest)

\* What stands for no pair and no user is none.
LEMMA PairsAreNumbers == NoPair \notin Pairs /\ NoUser \notin Users
  BY SessionsAssumption DEF SessionsAssumption

\* The invariant is what makes a held token stand.
LEMMA TokensStand == SessionsInv => HeldTokenStands
  BY DEF SessionsInv, Honest, TabStands, Good, HeldTokenStands

\* Nobody is signed in yet.
LEMMA SessionsStart == SessionsInit => SessionsInv
<1> SUFFICES ASSUME SessionsInit PROVE SessionsInv
  OBVIOUS
<1>1. NoRefresh \in Renewals
  BY DEF NoRefresh, Renewals, Steps
<1>2. SessionsShape
  BY <1>1 DEF SessionsInit, SessionsShape, Rows
<1>3. \A t \in Tabs : ~Coming(t) /\ refreshing[t].token = NoPair /\ refreshing[t].stage = "none"
  BY DEF SessionsInit, NoRefresh, Coming
<1>4. Honest
  BY <1>3 DEF SessionsInit, Honest, TabStands, Apart
<1> QED BY <1>2, <1>4 DEF SessionsInv

\* What tab t may come to hold or to await: what it held or awaited, or a pair just issued.
Unused(n) == row[n] = "unissued"
Holds(t) == {store[t]} \union (IF Coming(t) THEN {refreshing[t].pair} ELSE {})

\* A step of one tab that spoils nothing but the pair it holds leaves all of them standing.
LEMMA OneTab ==
  ASSUME SessionsShape, SessionsShape', Honest, NEW t \in Tabs,
         \A s \in Tabs \ {t} : /\ store'[s] = store[s] /\ user'[s] = user[s]
                               /\ refreshing'[s] = refreshing[s]
                               /\ (s \in leaving') <=> (s \in leaving),
         \A n \in Pairs : /\ n # store[t] => (Good(n) => Good(n)')
                          /\ ~Unused(n) => ~Unused(n)',
         TabStands(t)',
         \A n \in Holds(t)' : n = NoPair \/ n \in Holds(t) \/ Unused(n)
  PROVE  Honest'
<1>1. ASSUME NEW s \in Tabs \ {t}
      PROVE  /\ TabStands(s) /\ Apart(s, t) /\ Apart(t, s)
             /\ Coming(s)' <=> Coming(s)
             /\ store[s] \in Pairs \/ store[s] = NoPair
             /\ Coming(s) => refreshing[s].pair \in Pairs /\ ~Unused(refreshing[s].pair)
             /\ store[s] # NoPair => ~Unused(store[s])
  BY DEF Honest, SessionsShape, TabStands, Coming, Good, Unused
<1>2. ASSUME NEW s \in Tabs \ {t}
      PROVE  TabStands(s)'
  <2>1. store[s] # NoPair => store[s] \in Pairs /\ ~Unused(store[s])' /\ (Good(store[s]) => Good(store[s])')
    BY <1>1 DEF Apart
  <2>2. Coming(s) => (Good(refreshing[s].pair) => Good(refreshing[s].pair)')
    BY <1>1 DEF Apart
  <2> QED BY <1>1, <2>1, <2>2 DEF TabStands, Good, Unused
<1>3. \A s \in Tabs \ {t} : Apart(s, t)' /\ Apart(t, s)'
  <2> SUFFICES ASSUME NEW s \in Tabs \ {t} PROVE Apart(s, t)' /\ Apart(t, s)'
    OBVIOUS
  <2>1. \A m \in Holds(t) : /\ m = NoPair \/ store[s] = NoPair \/ m # store[s]
                            /\ m = NoPair \/ ~Coming(s) \/ m # refreshing[s].pair
    BY <1>1 DEF Holds, Apart
  <2>2. \A m \in Holds(t)' : /\ m = NoPair \/ store[s] = NoPair \/ m # store[s]
                             /\ m = NoPair \/ ~Coming(s) \/ m # refreshing[s].pair
    BY <1>1, <2>1
  <2>3. store'[t] \in Holds(t)' /\ (Coming(t)' => refreshing'[t].pair \in Holds(t)' /\ refreshing'[t].pair \in Pairs)
    BY DEF Holds, TabStands
  <2> QED BY <1>1, <2>2, <2>3, PairsAreNumbers DEF Apart
<1>4. \A s, r \in Tabs \ {t} : s # r => Apart(s, r)'
  BY <1>1 DEF Honest, Apart
<1> QED BY <1>2, <1>3, <1>4 DEF Honest

-----------------------------------------------------------------------------
\* A refresh that only moves on.
LEMMA Moved ==
  ASSUME SessionsShape, NEW t \in Tabs, NEW stage \in Steps, Refresh(t, stage)
  PROVE  /\ refreshing' \in [Tabs -> Renewals]
         /\ refreshing'[t].token = refreshing[t].token /\ refreshing'[t].pair = refreshing[t].pair
         /\ refreshing'[t].stage = stage
         /\ \A s \in Tabs \ {t} : refreshing'[s] = refreshing[s]
  BY DEF SessionsShape, Refresh, Renewals

\* A refresh that has not begun, and one that fails for want of a token.
LEMMA NoneYet == NoRefresh \in Renewals /\ NoRefresh.token = NoPair /\ NoRefresh.stage = "none"
                 /\ [NoRefresh EXCEPT !.stage = "failed"] \in Renewals
                 /\ [NoRefresh EXCEPT !.stage = "failed"].token = NoPair
                 /\ [NoRefresh EXCEPT !.stage = "failed"].stage = "failed"
  BY DEF NoRefresh, Renewals, Steps

\* A login stores a pair nobody has had.
LEMMA LoginStands ==
  ASSUME SessionsInv, NEW t \in Tabs, NEW u \in Users, Login(t, u)
  PROVE  SessionsInv'
<1>1. PICK n \in Unissued : Issue(n, u) /\ store' = [store EXCEPT ![t] = n]
  BY DEF Login
<1>2. /\ user[t] = NoUser /\ user' = [user EXCEPT ![t] = u] /\ refreshing' = refreshing
      /\ leaving' = leaving /\ undermined' = undermined
  BY DEF Login
<1>3. n \in Pairs /\ Unused(n) /\ row' = [row EXCEPT ![n] = "live"]
  BY <1>1 DEF Unissued, Issue, Unused
<1>4. SessionsShape'
  BY <1>1, <1>2, <1>3 DEF SessionsInv, SessionsShape, Rows
<1>5. ASSUME Honest PROVE Honest'
  <2>1. TabStands(t)
    BY <1>5 DEF Honest
  <2>2. store[t] = NoPair /\ refreshing[t].token = NoPair /\ ~Coming(t)
    BY <1>2, <2>1, <1>3 DEF TabStands, Coming, SessionsInv, SessionsShape
  <2>3. TabStands(t)'
    BY <1>1, <1>2, <1>3, <2>1, <2>2, PairsAreNumbers DEF TabStands, Coming, Good,
         SessionsInv, SessionsShape
  <2>4. \A m \in Pairs : (m # store[t] => (Good(m) => Good(m)')) /\ (~Unused(m) => ~Unused(m)')
    BY <1>3 DEF Good, Unused, SessionsInv, SessionsShape
  <2>5. \A m \in Holds(t)' : m = NoPair \/ m \in Holds(t) \/ Unused(m)
    BY <1>1, <1>2, <1>3, <2>2 DEF Holds, Coming, SessionsInv, SessionsShape
  <2>6. \A s \in Tabs \ {t} : /\ store'[s] = store[s] /\ user'[s] = user[s]
                              /\ refreshing'[s] = refreshing[s]
                              /\ (s \in leaving') <=> (s \in leaving)
    BY <1>1, <1>2 DEF SessionsInv, SessionsShape
  <2> QED BY <1>4, <1>5, <2>3, <2>4, <2>5, <2>6, OneTab DEF SessionsInv
<1> QED BY <1>2, <1>4, <1>5 DEF SessionsInv

\* A refresh begins with the token the tab holds; none begins beside it.
LEMMA HandleStands ==
  ASSUME SessionsInv, NEW t \in Tabs, NEW q \in Calls, Handle(t, q)
  PROVE  SessionsInv'
<1>1. /\ undermined' = (undermined \/ t \in leaving) /\ row' = row /\ user' = user /\ store' = store
      /\ leaving' = leaving
  BY DEF Handle, server
<1>2. \/ refreshing'[t] = refreshing[t]
      \/ store[t] = NoPair /\ refreshing[t] = NoRefresh /\ refreshing'[t] = [NoRefresh EXCEPT !.stage = "failed"]
      \/ /\ store[t] # NoPair /\ refreshing[t] = NoRefresh
         /\ refreshing'[t] = [token |-> store[t], stage |-> "sent", pair |-> NoPair]
  BY DEF Handle, SessionsInv, SessionsShape
<1>3. refreshing'[t] \in Renewals
  BY <1>2, NoneYet DEF SessionsInv, SessionsShape, Renewals, Steps
<1>4. refreshing' = [refreshing EXCEPT ![t] = refreshing'[t]]
  BY DEF Handle, SessionsInv, SessionsShape
<1>5. SessionsShape'
  BY <1>1, <1>3, <1>4 DEF SessionsInv, SessionsShape
<1>6. ASSUME Honest, ~undermined' PROVE Honest'
  <2>1. TabStands(t) /\ t \notin leaving
    BY <1>1, <1>6 DEF Honest
  <2>2. TabStands(t)' /\ (Coming(t)' => Coming(t) /\ refreshing'[t] = refreshing[t])
    <3>1. CASE refreshing'[t] = refreshing[t]
      BY <1>1, <2>1, <3>1 DEF TabStands, Coming, Good
    <3>2. CASE store[t] = NoPair /\ refreshing'[t] = [NoRefresh EXCEPT !.stage = "failed"]
      BY <1>1, <2>1, <3>2, NoneYet DEF TabStands, Coming, Good
    <3>3. CASE /\ store[t] # NoPair /\ refreshing[t] = NoRefresh
               /\ refreshing'[t] = [token |-> store[t], stage |-> "sent", pair |-> NoPair]
      BY <1>1, <2>1, <3>3, NoneYet DEF TabStands, Coming, Good
    <3> QED BY <1>2, <3>1, <3>2, <3>3
  <2>3. \A m \in Holds(t)' : m \in Holds(t)
    BY <1>1, <2>2 DEF Holds
  <2>4. \A s \in Tabs \ {t} : refreshing'[s] = refreshing[s]
    BY <1>4 DEF SessionsInv, SessionsShape
  <2>5. \A m \in Pairs : (Good(m) => Good(m)') /\ (~Unused(m) => ~Unused(m)')
    BY <1>1 DEF Good, Unused
  <2> QED BY <1>1, <1>5, <1>6, <2>2, <2>3, <2>4, <2>5, OneTab DEF SessionsInv
<1> QED BY <1>1, <1>5, <1>6 DEF SessionsInv

\* A token that is presented is good: nothing is revoked for its reuse.
LEMMA FindStands ==
  ASSUME SessionsInv, NEW t \in Tabs, Find(t)
  PROVE  SessionsInv'
<1> DEFINE n == refreshing[t].token
<1>1. /\ refreshing[t].stage = "sent" /\ user' = user /\ store' = store
      /\ leaving' = leaving /\ undermined' = undermined
      /\ \E stage \in {"found", "failed"} : Refresh(t, stage)
  BY DEF Find
<1>2. PICK stage \in {"found", "failed"} : Refresh(t, stage)
  BY <1>1
<1>3. stage \in Steps
  BY DEF Steps
<1>4. /\ refreshing' \in [Tabs -> Renewals]
      /\ refreshing'[t].token = n /\ refreshing'[t].pair = refreshing[t].pair
      /\ refreshing'[t].stage = stage
      /\ \A s \in Tabs \ {t} : refreshing'[s] = refreshing[s]
  BY <1>2, <1>3, Moved DEF SessionsInv
<1>5. /\ row' \in [Pairs -> Rows]
      /\ row[n] \in {"live", "gone"} => row' = row
  BY DEF Find, SessionsInv, SessionsShape, Rows
<1>6. SessionsShape'
  BY <1>1, <1>4, <1>5 DEF SessionsInv, SessionsShape
<1>7. ASSUME Honest PROVE Honest'
  <2>1. TabStands(t)
    BY <1>7 DEF Honest
  <2>2. n = store[t] /\ n # NoPair /\ t \notin leaving /\ row[n] \in {"live", "gone"}
    BY <1>1, <2>1, NoneYet DEF TabStands, Good
  <2>3. row' = row
    BY <1>5, <2>2
  <2>4. TabStands(t)' /\ ~Coming(t)'
    BY <1>1, <1>4, <2>1, <2>2, <2>3 DEF TabStands, Coming, Good
  <2>5. \A m \in Holds(t)' : m \in Holds(t)
    BY <1>1, <2>4 DEF Holds
  <2>6. \A m \in Pairs : (Good(m) => Good(m)') /\ (~Unused(m) => ~Unused(m)')
    BY <2>3 DEF Good, Unused
  <2> QED BY <1>1, <1>4, <1>6, <1>7, <2>4, <2>5, <2>6, OneTab DEF SessionsInv
<1> QED BY <1>1, <1>6, <1>7 DEF SessionsInv

\* The pair issued for a refresh is one nobody has had.
LEMMA IssueStands ==
  ASSUME SessionsInv, NEW t \in Tabs, IssueNew(t)
  PROVE  SessionsInv'
<1>1. PICK n \in Unissued : /\ row' = [row EXCEPT ![n] = "live"]
                            /\ refreshing' = [refreshing EXCEPT ![t].stage = "issued", ![t].pair = n]
  BY DEF IssueNew, Issue
<1>2. /\ refreshing[t].stage = "found" /\ user' = user /\ store' = store
      /\ leaving' = leaving /\ undermined' = undermined
  BY DEF IssueNew
<1>3. n \in Pairs /\ Unused(n)
  BY DEF Unissued, Unused
<1>4. /\ refreshing' \in [Tabs -> Renewals]
      /\ refreshing'[t].token = refreshing[t].token /\ refreshing'[t].pair = n
      /\ refreshing'[t].stage = "issued"
      /\ \A s \in Tabs \ {t} : refreshing'[s] = refreshing[s]
  BY <1>1, <1>3 DEF SessionsInv, SessionsShape, Renewals, Steps
<1>5. SessionsShape'
  BY <1>1, <1>2, <1>3, <1>4 DEF SessionsInv, SessionsShape, Rows
<1>6. ASSUME Honest PROVE Honest'
  <2>1. TabStands(t)
    BY <1>6 DEF Honest
  <2>2. /\ refreshing[t].token = store[t] /\ store[t] # NoPair /\ t \notin leaving
        /\ Good(store[t]) /\ store[t] # n
    BY <1>2, <1>3, <2>1, NoneYet DEF TabStands, Good, Unused
  <2>3. \A m \in Pairs : (Good(m) => Good(m)') /\ (~Unused(m) => ~Unused(m)')
    BY <1>1, <1>3 DEF Good, Unused, SessionsInv, SessionsShape
  <2>4. store[t] \in Pairs /\ Good(n)'
    BY <1>1, <1>3, <2>2 DEF Good, SessionsInv, SessionsShape
  <2>5. TabStands(t)'
    BY <1>2, <1>3, <1>4, <2>1, <2>2, <2>3, <2>4 DEF TabStands, Coming, Good
  <2>6. \A m \in Holds(t)' : m \in Holds(t) \/ Unused(m)
    BY <1>2, <1>3, <1>4 DEF Holds, Coming
  <2> QED BY <1>2, <1>4, <1>5, <1>6, <2>3, <2>5, <2>6, OneTab DEF SessionsInv
<1> QED BY <1>2, <1>5, <1>6 DEF SessionsInv

\* The token given up is the tab's own; the pair that comes is another one.
LEMMA RotateStands ==
  ASSUME SessionsInv, NEW t \in Tabs, Rotate(t)
  PROVE  SessionsInv'
<1> DEFINE n == refreshing[t].token
<1>1. /\ refreshing[t].stage = "issued" /\ user' = user /\ store' = store
      /\ leaving' = leaving /\ undermined' = undermined
      /\ row' = [row EXCEPT ![n] = IF @ = "live" THEN "revoked" ELSE @]
      /\ Refresh(t, "done")
  BY DEF Rotate
<1>2. "done" \in Steps
  BY DEF Steps
<1>3. /\ refreshing' \in [Tabs -> Renewals]
      /\ refreshing'[t].token = n /\ refreshing'[t].pair = refreshing[t].pair
      /\ refreshing'[t].stage = "done"
      /\ \A s \in Tabs \ {t} : refreshing'[s] = refreshing[s]
  BY <1>1, <1>2, Moved DEF SessionsInv
<1> HIDE DEF n
<1>4. row' \in [Pairs -> Rows] /\ \A m \in Pairs : (m # n => row'[m] = row[m]) /\ (~Unused(m) => ~Unused(m)')
  BY <1>1 DEF SessionsInv, SessionsShape, Rows, Unused
<1>5. SessionsShape'
  BY <1>1, <1>3, <1>4 DEF SessionsInv, SessionsShape
<1>6. ASSUME Honest PROVE Honest'
  <2>1. TabStands(t)
    BY <1>6 DEF Honest
  <2>2. /\ n = store[t] /\ store[t] \in Pairs /\ t \notin leaving /\ ~Unused(store[t])
        /\ refreshing[t].pair \in Pairs /\ Good(refreshing[t].pair) /\ refreshing[t].pair # store[t]
    BY <1>1, <2>1, NoneYet DEF TabStands, Coming, Unused, SessionsInv, SessionsShape,
         n
  <2>3. \A m \in Pairs : (m # store[t] => (Good(m) => Good(m)')) /\ (~Unused(m) => ~Unused(m)')
    BY <1>4, <2>2 DEF Good
  <2>4. TabStands(t)'
    BY <1>1, <1>3, <2>1, <2>2, <2>3, PairsAreNumbers DEF TabStands, Coming, Unused
  <2>5. \A m \in Holds(t)' : m \in Holds(t)
    BY <1>1, <1>3 DEF Holds, Coming
  <2> QED BY <1>1, <1>3, <1>5, <1>6, <2>3, <2>4, <2>5, OneTab DEF SessionsInv
<1> QED BY <1>1, <1>5, <1>6 DEF SessionsInv

\* A refresh that fails leaves the tab the token it presented.
LEMMA FailureStands ==
  ASSUME SessionsInv, NEW t \in Tabs, Stumble(t) \/ LoseRefresh(t)
  PROVE  SessionsInv'
<1>1. /\ refreshing[t].stage \in {"found", "issued", "sent", "done"} /\ user' = user /\ store' = store
      /\ leaving' = leaving /\ undermined' = undermined /\ row' = row
      /\ Refresh(t, "failed")
  BY DEF Stumble, LoseRefresh, server
<1>2. "failed" \in Steps
  BY DEF Steps
<1>3. /\ refreshing' \in [Tabs -> Renewals]
      /\ refreshing'[t].token = refreshing[t].token /\ refreshing'[t].pair = refreshing[t].pair
      /\ refreshing'[t].stage = "failed"
      /\ \A s \in Tabs \ {t} : refreshing'[s] = refreshing[s]
  BY <1>1, <1>2, Moved DEF SessionsInv
<1>4. SessionsShape'
  BY <1>1, <1>3 DEF SessionsInv, SessionsShape
<1>5. ASSUME Honest PROVE Honest'
  <2>1. TabStands(t)
    BY <1>5 DEF Honest
  <2>2. refreshing[t].token = store[t] /\ store[t] # NoPair /\ t \notin leaving
    BY <1>1, <2>1, NoneYet DEF TabStands
  <2>3. TabStands(t)' /\ ~Coming(t)'
    BY <1>1, <1>3, <2>1, <2>2 DEF TabStands, Coming, Good
  <2>4. \A m \in Holds(t)' : m \in Holds(t)
    BY <1>1, <2>3 DEF Holds
  <2>5. \A m \in Pairs : (Good(m) => Good(m)') /\ (~Unused(m) => ~Unused(m)')
    BY <1>1 DEF Good, Unused
  <2> QED BY <1>1, <1>3, <1>4, <1>5, <2>3, <2>4, <2>5, OneTab DEF SessionsInv
<1> QED BY <1>1, <1>4, <1>5 DEF SessionsInv

\* The pair that arrives is stored, and is good.
LEMMA RenewedStands ==
  ASSUME SessionsInv, NEW t \in Tabs, Renewed(t)
  PROVE  SessionsInv'
<1>1. /\ refreshing[t].stage = "done" /\ store' = [store EXCEPT ![t] = refreshing[t].pair]
      /\ refreshing' = [refreshing EXCEPT ![t] = NoRefresh]
      /\ user' = user /\ leaving' = leaving /\ undermined' = undermined /\ row' = row
  BY DEF Renewed, Resume, server
<1>2. refreshing[t].pair \in Pairs \union {NoPair}
  BY DEF SessionsInv, SessionsShape, Renewals
<1>3. SessionsShape'
  BY <1>1, <1>2, NoneYet DEF SessionsInv, SessionsShape
<1>4. ASSUME Honest PROVE Honest'
  <2>1. TabStands(t)
    BY <1>4 DEF Honest
  <2>2. /\ refreshing[t].token # NoPair /\ store[t] # NoPair /\ t \notin leaving
        /\ refreshing[t].pair \in Pairs /\ Good(refreshing[t].pair)
    BY <1>1, <2>1, NoneYet DEF TabStands, Coming
  <2>3. store'[t] = refreshing[t].pair /\ refreshing'[t] = NoRefresh
    BY <1>1 DEF SessionsInv, SessionsShape
  <2>4. TabStands(t)' /\ ~Coming(t)'
    BY <1>1, <2>1, <2>2, <2>3, NoneYet, PairsAreNumbers DEF TabStands, Coming, Good
  <2>5. \A m \in Holds(t)' : m \in Holds(t)
    BY <1>1, <2>3, <2>4 DEF Holds, Coming
  <2>6. \A m \in Pairs : (Good(m) => Good(m)') /\ (~Unused(m) => ~Unused(m)')
    BY <1>1 DEF Good, Unused
  <2>7. \A s \in Tabs \ {t} : store'[s] = store[s] /\ refreshing'[s] = refreshing[s]
    BY <1>1 DEF SessionsInv, SessionsShape
  <2> QED BY <1>1, <1>3, <1>4, <2>4, <2>5, <2>6, <2>7, OneTab DEF SessionsInv
<1> QED BY <1>1, <1>3, <1>4 DEF SessionsInv

\* A tab that holds nothing any more.
LEMMA SignOutStands ==
  ASSUME SessionsInv, NEW t \in Tabs, NotRenewed(t) \/ Left(t)
  PROVE  SessionsInv'
<1>1. /\ store' = [store EXCEPT ![t] = NoPair] /\ user' = [user EXCEPT ![t] = NoUser]
      /\ undermined' = undermined /\ row' = row
  BY DEF NotRenewed, Left, SignedOut, server
<1>2. \/ leaving' = leaving /\ refreshing' = [refreshing EXCEPT ![t] = NoRefresh]
      \/ t \in leaving /\ leaving' = leaving \ {t} /\ refreshing' = refreshing
  BY DEF NotRenewed, Left, Resume
<1>3. SessionsShape'
  BY <1>1, <1>2, NoneYet DEF SessionsInv, SessionsShape
<1>4. ASSUME Honest PROVE Honest'
  <2>1. TabStands(t)
    BY <1>4 DEF Honest
  <2>2. refreshing'[t] = NoRefresh
    BY <1>2, <2>1 DEF TabStands, SessionsInv, SessionsShape
  <2>3. store'[t] = NoPair /\ user'[t] = NoUser
    BY <1>1 DEF SessionsInv, SessionsShape
  <2>4. TabStands(t)' /\ ~Coming(t)'
    BY <2>2, <2>3, NoneYet DEF TabStands, Coming
  <2>5. \A m \in Holds(t)' : m = NoPair
    BY <2>3, <2>4 DEF Holds
  <2>6. \A m \in Pairs : (Good(m) => Good(m)') /\ (~Unused(m) => ~Unused(m)')
    BY <1>1 DEF Good, Unused
  <2>7. \A s \in Tabs \ {t} : /\ store'[s] = store[s] /\ user'[s] = user[s]
                              /\ refreshing'[s] = refreshing[s]
                              /\ (s \in leaving') <=> (s \in leaving)
    BY <1>1, <1>2 DEF SessionsInv, SessionsShape
  <2> QED BY <1>3, <1>4, <2>4, <2>5, <2>6, <2>7, OneTab DEF SessionsInv
<1> QED BY <1>1, <1>3, <1>4 DEF SessionsInv

\* A sign-out revokes a token of this tab only, with no refresh under way.
LEMMA LogoutStands ==
  ASSUME SessionsInv, NEW t \in Tabs, Logout(t)
  PROVE  SessionsInv'
<1>1. /\ user[t] # NoUser /\ leaving' = leaving \union {t}
      /\ row' = row \/ row' = [row EXCEPT ![store[t]] = IF @ = "live" THEN "revoked" ELSE @]
      /\ undermined' = (undermined \/ refreshing[t] # NoRefresh)
      /\ user' = user /\ store' = store /\ refreshing' = refreshing
  BY DEF Logout
<1>2. row' \in [Pairs -> Rows] /\ \A m \in Pairs : /\ m # store[t] => row'[m] = row[m]
                                                   /\ ~Unused(m) => ~Unused(m)'
  BY <1>1 DEF SessionsInv, SessionsShape, Rows, Unused
<1>3. SessionsShape'
  BY <1>1, <1>2 DEF SessionsInv, SessionsShape
<1>4. ASSUME Honest, ~undermined' PROVE Honest'
  <2>0. refreshing[t] = NoRefresh /\ TabStands(t) /\ store[t] \in Pairs \union {NoPair}
    BY <1>1, <1>4 DEF Honest, SessionsInv, SessionsShape
  <2>1. TabStands(t) /\ refreshing[t] = NoRefresh /\ store[t] \in Pairs
    BY <1>1, <2>0 DEF TabStands
  <2>2. TabStands(t)' /\ ~Coming(t)'
    BY <1>1, <1>2, <2>1, NoneYet DEF TabStands, Coming, Unused
  <2>3. \A m \in Holds(t)' : m \in Holds(t)
    BY <1>1, <2>2 DEF Holds
  <2>4. \A m \in Pairs : m # store[t] => (Good(m) => Good(m)')
    BY <1>2 DEF Good
  <2> QED BY <1>1, <1>2, <1>3, <1>4, <2>2, <2>3, <2>4, OneTab DEF SessionsInv
<1> QED BY <1>1, <1>3, <1>4 DEF SessionsInv

\* A reload with no refresh and no sign-out under way loses nothing.
LEMMA ReloadStands ==
  ASSUME SessionsInv, NEW t \in Tabs, Reload(t)
  PROVE  SessionsInv'
<1>1. /\ refreshing' = [refreshing EXCEPT ![t] = NoRefresh]
      /\ undermined' = (undermined \/ refreshing[t] # NoRefresh \/ t \in leaving)
      /\ user' = user /\ store' = store /\ row' = row /\ leaving' = leaving \ {t}
  BY DEF Reload, server
<1>2. SessionsShape'
  BY <1>1, NoneYet DEF SessionsInv, SessionsShape
<1>3. ASSUME ~undermined' PROVE ~undermined /\ refreshing' = refreshing /\ leaving' = leaving
  BY <1>1, <1>3 DEF SessionsInv, SessionsShape
<1>4. ASSUME Honest, refreshing' = refreshing, leaving' = leaving PROVE Honest'
  BY <1>1, <1>4 DEF Honest, TabStands, Apart, Coming, Good
<1> QED BY <1>1, <1>2, <1>3, <1>4 DEF SessionsInv

-----------------------------------------------------------------------------
\* The rows of a removed user are gone, which no tab is thrown out for nothing by.
LEMMA RemoveStands ==
  ASSUME SessionsInv, NEW u \in Users, RemoveUser(u)
  PROVE  SessionsInv'
<1>1. /\ row' = [n \in Pairs |-> IF owner[n] = u THEN "gone" ELSE row[n]]
      /\ UNCHANGED <<user, store, refreshing, leaving, undermined>>
  BY DEF RemoveUser, tabs
<1>2. SessionsShape'
  BY <1>1 DEF SessionsInv, SessionsShape, Rows
<1>3. \A m \in Pairs : (Good(m) => Good(m)') /\ (row[m] # "unissued" => row'[m] # "unissued")
  BY <1>1 DEF Good
<1>4. ASSUME Honest PROVE Honest'
  <2>1. ASSUME NEW t \in Tabs PROVE TabStands(t)'
    <3>1. TabStands(t) /\ (store[t] = NoPair \/ store[t] \in Pairs)
      BY <1>4 DEF Honest, SessionsInv, SessionsShape
    <3> QED BY <1>1, <1>3, <3>1 DEF TabStands, Coming
  <2>2. \A s, t \in Tabs : Apart(s, t) => Apart(s, t)'
    BY <1>1 DEF Apart, Coming
  <2> QED BY <1>4, <2>1, <2>2 DEF Honest
<1> QED BY <1>1, <1>2, <1>4 DEF SessionsInv

\* A step that leaves the tabs alone.
LEMMA SessionsRest ==
  ASSUME SessionsInv, row' \in [Pairs -> Rows], row' = row \/ undermined',
         UNCHANGED <<user, store, refreshing, leaving>>, undermined' = undermined \/ undermined' = TRUE
  PROVE  SessionsInv'
<1>1. SessionsShape'
  BY DEF SessionsInv, SessionsShape
<1>2. ASSUME Honest, row' = row PROVE Honest'
  BY <1>2 DEF Honest, TabStands, Apart, Coming, Good
<1> QED BY <1>1, <1>2 DEF SessionsInv, SessionsShape

\* Every step of tabs, server and administrators keeps the invariant.
LEMMA SessionsSteps == SessionsInv /\ [SessionsNext]_sessionsVars => SessionsInv'
<1> SUFFICES ASSUME SessionsInv, [SessionsNext]_sessionsVars PROVE SessionsInv'
  OBVIOUS
<1>1. row \in [Pairs -> Rows]
  BY DEF SessionsInv, SessionsShape
<1>2. CASE UNCHANGED sessionsVars
  BY <1>1, <1>2, SessionsRest DEF sessionsVars, server, tabs
<1>3. ASSUME \/ \E t \in Tabs, q \in Calls : Call(t, q) \/ Serve(t, q)
             \/ \E u \in Users, state \in {"active", "inactive"} : SetActive(u, state)
      PROVE  SessionsInv'
  <2>1. UNCHANGED <<row, user, store, refreshing, leaving, undermined>>
    BY <1>3 DEF Call, Serve, SetActive, server, tabs
  <2> QED BY <1>1, <2>1, SessionsRest
<1>4. ASSUME NEW u \in Users, ChangePassword(u)
      PROVE  SessionsInv'
  <2>1. row' \in [Pairs -> Rows] /\ undermined' = TRUE /\ UNCHANGED <<user, store, refreshing, leaving>>
    BY <1>1, <1>4 DEF ChangePassword, tabs, Rows
  <2> QED BY <2>1, SessionsRest
<1> HIDE DEF SessionsInv, Login, Call, Serve, Handle, Find, IssueNew, Rotate, Stumble,
     Renewed, NotRenewed,
             LoseRefresh, Logout, Left, Reload, SetActive, ChangePassword, RemoveUser
<1> QED BY <1>2, <1>3, <1>4, LoginStands, HandleStands, FindStands, IssueStands,
     RotateStands,
           FailureStands, RenewedStands, SignOutStands, LogoutStands, ReloadStands, RemoveStands
        DEF SessionsNext, Refreshing

\* For any number of tabs, users and requests: a token that is presented for a refresh is never one
\* the server has revoked, so reuse detection throws nobody out for nothing.
THEOREM SessionsKeepTokens == SessionsSpec => []HeldTokenStands
<1> QED BY TokensStand, SessionsStart, SessionsSteps, PTL DEF SessionsSpec

-----------------------------------------------------------------------------
(* Copies. *)

Doings == {"idle", "starting", "dumping", "verifying", "recording"}

\* Each writer is at one file at most, and only while it dumps or verifies.
BackupInv ==
    /\ doing \in [Writers -> Doings]
    /\ folder \in Seq(Files)
    /\ \A i, j \in DOMAIN folder : folder[i] = folder[j] /\ folder[i] \in Writers => i = j
    /\ \A i \in DOMAIN folder : folder[i] \in Writers => doing[folder[i]] \in {"dumping", "verifying"}
    /\ AlwaysACopy

\* What is assumed of the writers and of the number of files to keep.
LEMMA BackupBounds ==
    Keep \in Nat /\ Keep >= 1 /\ Writers = {timer, admin} /\ timer # admin
    /\ "good" \notin Writers /\ "partial" \notin Writers
<1>1. Keep \in 1..30
  BY BackupAssumption DEF BackupAssumption
<1>2. timer # admin /\ "good" \notin Writers /\ "partial" \notin Writers
  BY BackupAssumption DEF BackupAssumption
<1> QED BY <1>1, <1>2 DEF Writers

\* An element of a sequence taken to its end.
ToTheEnd(s, k, e) == Append(RemoveAt(s, k), e)

\* It keeps the length; later elements move up one, the element comes last.
LEMMA TakenToTheEnd ==
  ASSUME NEW S, NEW s \in Seq(S), NEW k \in 1..Len(s), NEW e \in S
  PROVE  /\ ToTheEnd(s, k, e) \in Seq(S) /\ Len(ToTheEnd(s, k, e)) = Len(s)
         /\ \A i \in 1..Len(s) : ToTheEnd(s, k, e)[i] =
                IF i < k THEN s[i] ELSE IF i < Len(s) THEN s[i + 1] ELSE e
<1> DEFINE n == Len(s)
           a == SubSeq(s, 1, k - 1)
           b == SubSeq(s, k + 1, n)
<1>0. n \in Nat /\ k \in 1..n /\ \A i \in 1..n : s[i] \in S
  OBVIOUS
<1>1. a \in Seq(S) /\ Len(a) = k - 1 /\ \A i \in 1..(k - 1) : a[i] = s[i]
  <2>1. 1 \in Int /\ k - 1 \in Int /\ \A i \in 1..(k - 1) : s[i] \in S
    BY <1>0
  <2>2. /\ a \in Seq(S) /\ Len(a) = IF 1 <= k - 1 THEN k - 1 - 1 + 1 ELSE 0
        /\ \A i \in 1..(k - 1 - 1 + 1) : a[i] = s[1 + i - 1]
    BY <2>1, SubSeqProperties
  <2> QED BY <1>0, <2>2
<1>2. b \in Seq(S) /\ Len(b) = n - k /\ \A i \in 1..(n - k) : b[i] = s[k + i]
  <2>1. k + 1 \in Int /\ n \in Int /\ \A i \in (k + 1)..n : s[i] \in S
    BY <1>0
  <2>2. /\ b \in Seq(S) /\ Len(b) = IF k + 1 <= n THEN n - (k + 1) + 1 ELSE 0
        /\ \A i \in 1..(n - (k + 1) + 1) : b[i] = s[(k + 1) + i - 1]
    BY <2>1, SubSeqProperties
  <2> HIDE DEF b
  <2>3. \A i \in 1..(n - k) : b[i] = s[k + i]
    <3> TAKE i \in 1..(n - k)
    <3>1. i \in 1..(n - (k + 1) + 1) /\ (k + 1) + i - 1 = k + i
      BY <1>0
    <3> QED BY <2>2, <3>1
  <2> QED BY <1>0, <2>2, <2>3
<1> HIDE DEF a, b
<1>3. /\ a \o b \in Seq(S) /\ Len(a \o b) = n - 1
      /\ \A i \in 1..(n - 1) : (a \o b)[i] = IF i < k THEN s[i] ELSE s[i + 1]
  <2>1. /\ a \o b \in Seq(S) /\ Len(a \o b) = Len(a) + Len(b)
        /\ \A i \in 1..(Len(a) + Len(b)) : (a \o b)[i] = IF i <= Len(a) THEN a[i] ELSE b[i - Len(a)]
    BY <1>1, <1>2, ConcatProperties
  <2>2. Len(a) + Len(b) = n - 1
    BY <1>0, <1>1, <1>2
  <2>3. \A i \in 1..(n - 1) : (a \o b)[i] = IF i < k THEN s[i] ELSE s[i + 1]
    <3> TAKE i \in 1..(n - 1)
    <3>1. ASSUME i < k PROVE (a \o b)[i] = s[i]
      BY <1>0, <1>1, <2>1, <2>2, <3>1
    <3>2. ASSUME ~(i < k) PROVE (a \o b)[i] = s[i + 1]
      <4>1. i - (k - 1) \in 1..(n - k) /\ k + (i - (k - 1)) = i + 1
        BY <1>0, <3>2
      <4>2. (a \o b)[i] = b[i - (k - 1)]
        BY <1>0, <1>1, <2>1, <2>2, <3>2
      <4>3. b[i - (k - 1)] = s[i + 1]
        BY <1>2, <4>1
      <4> QED BY <4>2, <4>3
    <3> HIDE DEF n
    <3> QED BY <3>1, <3>2, Zenon
  <2> QED BY <2>1, <2>2, <2>3
<1> DEFINE d == Append(a \o b, e)
<1>4. /\ d \in Seq(S) /\ Len(d) = n
      /\ \A i \in 1..(n - 1) : d[i] = (a \o b)[i]
      /\ d[n] = e
  BY <1>0, <1>3, AppendProperties
<1> HIDE DEF d
<1>5. \A i \in 1..n : d[i] = IF i < k THEN s[i] ELSE IF i < n THEN s[i + 1] ELSE e
  <2> TAKE i \in 1..n
  <2>1. ASSUME i < n PROVE d[i] = IF i < k THEN s[i] ELSE s[i + 1]
    <3>1. i \in 1..(n - 1)
      BY <1>0, <2>1
    <3> QED BY <1>3, <1>4, <3>1
  <2>2. ASSUME ~(i < n) PROVE i = n /\ ~(i < k) /\ d[i] = e
    BY <1>0, <1>4, <2>2
  <2> QED BY <2>1, <2>2
<1>6. d = ToTheEnd(s, k, e)
  BY DEF d, a, b, RemoveAt, ToTheEnd
<1> QED BY <1>4, <1>5, <1>6

\* The folder is empty and no backup was verified.
LEMMA BackupStarts == BackupInit => BackupInv
  BY DEF BackupInit, BackupInv, AlwaysACopy, Doings

\* A copy, or the failures that cost it, are still there after a step that verifies
\* nothing and leaves every file that is nobody's in some place of its own.
LEMMA StillACopy ==
  ASSUME AlwaysACopy, verified' = verified, folder \in Seq(Files), folder' \in Seq(Files),
         Len(folder') >= Len(folder),
         NEW to \in [DOMAIN folder -> DOMAIN folder'],
         \A i, j \in DOMAIN folder : to[i] = to[j] => i = j,
         \A i \in DOMAIN folder : folder[i] \in {"good", "partial"} => folder'[to[i]] = folder[i]
  PROVE  AlwaysACopy'
<1>1. CASE ~verified
  BY <1>1 DEF AlwaysACopy
<1>2. CASE Contains(folder, "good")
  <2>1. PICK i \in DOMAIN folder : folder[i] = "good"
    BY <1>2 DEF Contains
  <2>2. to[i] \in DOMAIN folder' /\ folder'[to[i]] = "good"
    BY <2>1
  <2>3. to[i] \in 1..Len(folder')
    BY <2>2
  <2>4. Contains(folder', "good")
    BY <2>2, <2>3, Zenon DEF Contains
  <2> QED BY <2>4 DEF AlwaysACopy
<1>3. CASE Len(folder) >= Keep /\ Cardinality(Partials) >= Keep - 1
  <2> DEFINE f == [i \in Partials |-> to[i]]
  <2>1. f \in [Partials -> Partials'] /\ \A i, j \in Partials : f[i] = f[j] => i = j
    BY DEF Partials
  <2> HIDE DEF f
  <2>2. f \in Injection(Partials, Partials')
    BY <2>1 DEF Injection, IsInjective
  <2>3. IsFiniteSet(1..Len(folder)) /\ IsFiniteSet(1..Len(folder'))
    BY FS_Interval
  <2>4. Partials \in SUBSET (1..Len(folder)) /\ Partials' \in SUBSET (1..Len(folder'))
    BY DEF Partials
  <2>5. IsFiniteSet(Partials) /\ IsFiniteSet(Partials')
    BY ONLY <2>3, <2>4, FS_Subset
  <2>6. Cardinality(Partials) <= Cardinality(Partials')
    BY ONLY <2>2, <2>5, FS_Injection
  <2>7. Cardinality(Partials) \in Nat /\ Cardinality(Partials') \in Nat
    BY ONLY <2>5, FS_CardinalityType
  <2>8. Len(folder') >= Keep /\ Cardinality(Partials') >= Keep - 1
    BY <1>3, <2>6, <2>7, BackupBounds
  <2> QED BY <2>8 DEF AlwaysACopy
<1> QED BY <1>1, <1>2, <1>3 DEF AlwaysACopy

\* The file that is written to goes to the end, and no other one goes.
LEMMA TouchMoves ==
  ASSUME NEW w \in Writers, folder \in Seq(Files),
         \A i, j \in DOMAIN folder : folder[i] = folder[j] /\ folder[i] \in Writers => i = j
  PROVE  /\ Touched(w) \in Seq(Files)
         /\ \A i, j \in DOMAIN Touched(w) :
                Touched(w)[i] = Touched(w)[j] /\ Touched(w)[i] \in Writers => i = j
         /\ \A i \in DOMAIN Touched(w) : \E j \in DOMAIN folder : Touched(w)[i] = folder[j]
         /\ Len(Touched(w)) = Len(folder)
         /\ \E to \in [DOMAIN folder -> DOMAIN Touched(w)] :
                /\ \A i, j \in DOMAIN folder : to[i] = to[j] => i = j
                /\ \A j \in DOMAIN folder : Touched(w)[to[j]] = folder[j]
<1>1. CASE ~Contains(folder, w)
  <2>1. Touched(w) = folder
    BY <1>1 DEF Touched
  <2> DEFINE to == [j \in DOMAIN folder |-> j]
  <2>2. /\ to \in [DOMAIN folder -> DOMAIN folder]
        /\ \A i, j \in DOMAIN folder : to[i] = to[j] => i = j
        /\ \A j \in DOMAIN folder : folder[to[j]] = folder[j]
    OBVIOUS
  <2> HIDE DEF to
  <2> QED BY <2>1, <2>2
<1>2. CASE Contains(folder, w)
  <2> DEFINE k == CHOOSE i \in DOMAIN folder : folder[i] = w
             n == Len(folder)
             d == Touched(w)
  <2>1. k \in DOMAIN folder /\ folder[k] = w
    BY <1>2 DEF Contains
  <2>2. k \in 1..n /\ n \in Nat /\ DOMAIN folder = 1..n
    BY <2>1
  <2>3. w \in Files
    BY DEF Files
  <2>4. d = ToTheEnd(folder, k, w)
    BY <1>2 DEF Touched, ToTheEnd
  <2> HIDE DEF k, d
  <2>5. folder \in Seq(Files) /\ k \in 1..Len(folder)
    BY <2>2
  <2> HIDE DEF n
  <2>6. /\ ToTheEnd(folder, k, w) \in Seq(Files) /\ Len(ToTheEnd(folder, k, w)) = Len(folder)
        /\ \A i \in 1..Len(folder) : ToTheEnd(folder, k, w)[i] =
               IF i < k THEN folder[i] ELSE IF i < Len(folder) THEN folder[i + 1] ELSE w
    BY ONLY <2>3, <2>5, TakenToTheEnd
  <2>7. d \in Seq(Files) /\ Len(d) = n
    BY <2>4, <2>6, Zenon DEF n
  <2>8. \A i \in 1..n : d[i] = IF i < k THEN folder[i] ELSE IF i < n THEN folder[i + 1] ELSE w
    BY <2>4, <2>6, Zenon DEF n
  <2>9. DOMAIN d = 1..n
    BY <2>2, <2>7
  <2> DEFINE from(i) == IF i < k THEN i ELSE IF i < n THEN i + 1 ELSE k
  <2>10. \A i \in 1..n : from(i) \in 1..n /\ d[i] = folder[from(i)]
    BY <2>1, <2>2, <2>8
  <2>11. \A i, j \in 1..n : from(i) = from(j) => i = j
    BY <2>2
  <2> DEFINE to == [j \in 1..n |-> IF j < k THEN j ELSE IF j = k THEN n ELSE j - 1]
  <2>12. \A j \in 1..n : to[j] \in 1..n /\ from(to[j]) = j
    BY <2>2
  <2>16. to \in [1..n -> 1..n]
    BY <2>2
  <2> HIDE DEF to
  <2> HIDE DEF from
  <2>13. \A i, j \in DOMAIN d : d[i] = d[j] /\ d[i] \in Writers => i = j
    BY <2>2, <2>9, <2>10, <2>11
  <2>14. \A i \in DOMAIN d : \E j \in DOMAIN folder : d[i] = folder[j]
    BY <2>2, <2>9, <2>10
  <2>15. /\ to \in [DOMAIN folder -> DOMAIN d]
         /\ \A i, j \in DOMAIN folder : to[i] = to[j] => i = j
         /\ \A j \in DOMAIN folder : d[to[j]] = folder[j]
    BY <2>2, <2>9, <2>10, <2>12, <2>16
  <2> QED BY <2>7, <2>13, <2>14, <2>15 DEF d, n
<1> QED BY <1>1, <1>2

\* The newest files are the last of them.
LEMMA NewestLast ==
  ASSUME NEW files \in Seq(Files), Len(files) > Keep
  PROVE  /\ Newest(files) \in Seq(Files) /\ Len(Newest(files)) = Keep
         /\ \A i \in 1..Keep : Newest(files)[i] = files[i + (Len(files) - Keep)]
<1> DEFINE n == Len(files)
           m == n - Keep + 1
           p == SubSeq(files, m, n)
<1>0. n \in Nat /\ (\A i \in 1..n : files[i] \in Files) /\ Keep \in Nat /\ Keep >= 1
  BY BackupBounds
<1>1. p = Newest(files)
  BY DEF Newest
<1>2. m \in Int /\ n \in Int /\ \A i \in m..n : files[i] \in Files
  BY <1>0
<1>3. /\ p \in Seq(Files) /\ Len(p) = IF m <= n THEN n - m + 1 ELSE 0
      /\ \A i \in 1..(n - m + 1) : p[i] = files[m + i - 1]
  BY <1>2, SubSeqProperties
<1> HIDE DEF p
<1>4. Len(p) = Keep
  BY <1>0, <1>3
<1>5. \A i \in 1..Keep : p[i] = files[i + (n - Keep)]
  <2> TAKE i \in 1..Keep
  <2>1. i \in 1..(n - m + 1) /\ m + i - 1 = i + (n - Keep)
    BY <1>0
  <2> QED BY <1>3, <2>1
<1> QED BY <1>1, <1>3, <1>4, <1>5

\* What stays of the files when the older ones go, or some of them: all, or as many as are
\* kept at least, each in a place of its own.
LEMMA PruneLeaves ==
  ASSUME NEW files \in Seq(Files), NEW p, p = prune(files) \/ p \in PruneSkipped(files)
  PROVE  /\ p \in Seq(Files)
         /\ p = files \/ Len(p) >= Keep
         /\ \E to \in [1..Len(p) -> 1..Len(files)] :
                /\ \A i, j \in 1..Len(p) : to[i] = to[j] => i = j
                /\ \A i \in 1..Len(p) : p[i] = files[to[i]]
<1> DEFINE n == Len(files)
<1>0. n \in Nat /\ (\A i \in 1..n : files[i] \in Files) /\ Keep \in Nat /\ Keep >= 1
  BY BackupBounds
<1>1. CASE p = files
  <2> DEFINE to == [i \in 1..n |-> i]
  <2>1. /\ to \in [1..n -> 1..n] /\ \A i, j \in 1..n : to[i] = to[j] => i = j
        /\ \A i \in 1..n : p[i] = files[to[i]]
    BY <1>1
  <2> HIDE DEF to
  <2> QED BY <1>1, <2>1
<1>2. CASE p # files /\ p = prune(files)
  <2>1. n > Keep /\ p = Newest(files)
    BY <1>0, <1>2 DEF prune
  <2> DEFINE to == [i \in 1..Keep |-> i + (n - Keep)]
  <2>2. /\ to \in [1..Keep -> 1..n] /\ \A i, j \in 1..Keep : to[i] = to[j] => i = j
        /\ \A i \in 1..Keep : to[i] = i + (n - Keep)
    BY <1>0, <2>1
  <2> HIDE DEF to
  <2>3. p \in Seq(Files) /\ Len(p) = Keep /\ \A i \in 1..Keep : p[i] = files[i + (n - Keep)]
    BY <2>1, NewestLast
  <2>4. \A i \in 1..Keep : p[i] = files[to[i]]
    BY ONLY <2>2, <2>3
  <2>5. Len(p) >= Keep
    BY <1>0, <2>3
  <2> QED BY <2>2, <2>3, <2>4, <2>5, Zenon
<1>3. CASE p \in PruneSkipped(files)
  <2>1. PICK left \in 1..(n - Keep) : p = SubSeq(files, 1, left) \o Newest(files)
    BY <1>3 DEF PruneSkipped
  <2>2. left \in Nat /\ left >= 1 /\ left + Keep <= n /\ n > Keep
    BY <1>0
  <2> DEFINE a == SubSeq(files, 1, left)
             b == Newest(files)
  <2>3. a \in Seq(Files) /\ Len(a) = left /\ \A i \in 1..left : a[i] = files[i]
    <3>1. 1 \in Int /\ left \in Int /\ \A i \in 1..left : files[i] \in Files
      BY <1>0, <2>2
    <3>2. /\ a \in Seq(Files) /\ Len(a) = IF 1 <= left THEN left - 1 + 1 ELSE 0
          /\ \A i \in 1..(left - 1 + 1) : a[i] = files[1 + i - 1]
      BY <3>1, SubSeqProperties
    <3> HIDE DEF a
    <3> QED BY <2>2, <3>2
  <2>4. b \in Seq(Files) /\ Len(b) = Keep /\ \A i \in 1..Keep : b[i] = files[i + (n - Keep)]
    BY <2>2, NewestLast
  <2>5. p = a \o b
    BY <2>1
  <2> HIDE DEF a, b
  <2>6. /\ p \in Seq(Files) /\ Len(p) = left + Keep
        /\ \A i \in 1..(left + Keep) : p[i] = IF i <= left THEN a[i] ELSE b[i - left]
    <3>1. /\ a \o b \in Seq(Files) /\ Len(a \o b) = Len(a) + Len(b)
          /\ \A i \in 1..(Len(a) + Len(b)) : (a \o b)[i] = IF i <= Len(a) THEN a[i] ELSE b[i - Len(a)]
      BY <2>3, <2>4, ConcatProperties
    <3> QED BY ONLY <2>3, <2>4, <2>5, <3>1
  <2> DEFINE to == [i \in 1..(left + Keep) |-> IF i <= left THEN i ELSE i - left + (n - Keep)]
  <2>7. /\ to \in [1..(left + Keep) -> 1..n]
        /\ \A i, j \in 1..(left + Keep) : to[i] = to[j] => i = j
        /\ \A i \in 1..(left + Keep) : to[i] = IF i <= left THEN i ELSE i - left + (n - Keep)
    BY <1>0, <2>2
  <2> HIDE DEF to, n
  <2>8. \A i \in 1..(left + Keep) : p[i] = files[to[i]]
    <3> TAKE i \in 1..(left + Keep)
    <3>1. CASE i <= left
      <4>1. i \in 1..left
        BY <2>2, <3>1
      <4> QED BY <2>3, <2>6, <2>7, <3>1, <4>1
    <3>2. CASE ~(i <= left)
      <4>1. i - left \in 1..Keep
        BY <1>0, <2>2, <3>2
      <4> QED BY <2>4, <2>6, <2>7, <3>2, <4>1
    <3> QED BY <3>1, <3>2
  <2>9. p \in Seq(Files) /\ Len(p) >= Keep
    BY <1>0, <2>2, <2>6
  <2>10. 1..Len(p) = 1..(left + Keep)
    BY <2>6, Zenon
  <2>11. /\ to \in [1..Len(p) -> 1..Len(files)]
         /\ \A i, j \in 1..Len(p) : to[i] = to[j] => i = j
         /\ \A i \in 1..Len(p) : p[i] = files[to[i]]
    BY <2>7, <2>8, <2>10, Zenon DEF n
  <2> QED BY <2>9, <2>11, Zenon
<1> QED BY <1>1, <1>2, <1>3

\* w's file becomes somebody else's or nobody's.
LEMMA TurnsOne ==
  ASSUME folder \in Seq(Files), NEW w \in Writers, NEW f \in {"good", "partial"}
  PROVE  /\ Turned(w, f) \in Seq(Files) /\ DOMAIN Turned(w, f) = DOMAIN folder
         /\ Len(Turned(w, f)) = Len(folder)
         /\ \A i \in DOMAIN folder : Turned(w, f)[i] = IF folder[i] = w THEN f ELSE folder[i]
<1>1. DOMAIN folder = 1..Len(folder) /\ Len(folder) \in Nat /\ \A i \in DOMAIN folder : folder[i] \in Files
  OBVIOUS
<1>2. f \in Files
  BY DEF Files
<1>3. Turned(w, f) \in [1..Len(folder) -> Files]
  BY <1>1, <1>2 DEF Turned
<1>4. Turned(w, f) \in Seq(Files) /\ Len(Turned(w, f)) = Len(folder)
  BY <1>1, <1>3
<1> QED BY <1>4 DEF Turned

-----------------------------------------------------------------------------
\* A writer that begins has no file yet.
LEMMA Begins ==
  ASSUME BackupInv, CheckDue \/ BackUpNow
  PROVE  BackupInv'
<1>1. /\ folder' = folder /\ verified' = verified
      /\ \E w \in Writers : doing[w] = "idle" /\ doing' = [doing EXCEPT ![w] = "starting"]
  BY BackupBounds DEF CheckDue, BackUpNow
<1>2. doing' \in [Writers -> Doings]
      /\ \A w \in Writers : doing[w] \in {"dumping", "verifying"} => doing'[w] = doing[w]
  BY <1>1 DEF BackupInv, Doings
<1>3. AlwaysACopy'
  BY <1>1 DEF BackupInv, AlwaysACopy, Partials
<1> QED BY <1>1, <1>2, <1>3 DEF BackupInv

\* A new file is the newest.
LEMMA Opens ==
  ASSUME BackupInv, NEW w \in Writers, StartDump(w)
  PROVE  BackupInv'
<1> DEFINE n == Len(folder)
<1>1. /\ doing[w] = "starting" /\ doing' = [doing EXCEPT ![w] = "dumping"]
      /\ folder' = Append(folder, w) /\ verified' = verified
  BY DEF StartDump
<1>2. w \in Files /\ folder \in Seq(Files) /\ n \in Nat /\ DOMAIN folder = 1..n
  BY DEF Files, BackupInv
<1>3. /\ folder' \in Seq(Files) /\ DOMAIN folder' = 1..(n + 1) /\ folder'[n + 1] = w
      /\ \A i \in 1..n : folder'[i] = folder[i]
  BY <1>1, <1>2, AppendProperties
<1>4. \A i \in 1..n : folder[i] # w
  BY <1>1, <1>2 DEF BackupInv
<1> HIDE DEF n
<1>5. \A i, j \in 1..(n + 1) : folder'[i] = folder'[j] /\ folder'[i] \in Writers => i = j
  BY <1>2, <1>3, <1>4 DEF BackupInv
<1>6. \A i \in 1..(n + 1) : folder'[i] \in Writers => doing'[folder'[i]] \in {"dumping", "verifying"}
  BY <1>1, <1>2, <1>3, <1>4 DEF BackupInv
<1>7. AlwaysACopy'
  <2> DEFINE to == [i \in DOMAIN folder |-> i]
  <2>1. /\ to \in [DOMAIN folder -> DOMAIN folder']
        /\ \A i, j \in DOMAIN folder : to[i] = to[j] => i = j
        /\ \A i \in DOMAIN folder : folder'[to[i]] = folder[i]
    BY <1>2, <1>3
  <2> HIDE DEF to
  <2>2. AlwaysACopy /\ verified' = verified /\ Len(folder') >= Len(folder)
    BY <1>1, <1>2, <1>3 DEF BackupInv, n
  <2> QED BY <1>2, <1>3, <2>1, <2>2, StillACopy
<1>8. doing' \in [Writers -> Doings]
  BY <1>1 DEF BackupInv, Doings
<1> QED BY <1>1, <1>3, <1>5, <1>6, <1>7, <1>8 DEF BackupInv

\* A file that is written to is the newest.
LEMMA WritesOn ==
  ASSUME BackupInv, NEW w \in Writers, WriteDump(w) \/ EndDump(w)
  PROVE  BackupInv'
<1>1. /\ folder' = Touched(w) /\ verified' = verified
      /\ doing[w] = "dumping" /\ doing' \in {doing, [doing EXCEPT ![w] = "verifying"]}
  BY DEF WriteDump, EndDump
<1>0. /\ folder \in Seq(Files)
      /\ \A i, j \in DOMAIN folder : folder[i] = folder[j] /\ folder[i] \in Writers => i = j
  BY DEF BackupInv
<1>2. /\ folder' \in Seq(Files)
      /\ \A i, j \in DOMAIN folder' : folder'[i] = folder'[j] /\ folder'[i] \in Writers => i = j
      /\ \A i \in DOMAIN folder' : \E j \in DOMAIN folder : folder'[i] = folder[j]
      /\ Len(folder') = Len(folder)
      /\ \E to \in [DOMAIN folder -> DOMAIN folder'] :
             /\ \A i, j \in DOMAIN folder : to[i] = to[j] => i = j
             /\ \A j \in DOMAIN folder : folder'[to[j]] = folder[j]
  BY <1>0, <1>1, TouchMoves, Zenon
<1>3. doing' \in [Writers -> Doings] /\ \A v \in Writers :
          doing[v] \in {"dumping", "verifying"} => doing'[v] \in {"dumping", "verifying"}
  BY <1>1 DEF BackupInv, Doings
<1>4. \A i \in DOMAIN folder' : folder'[i] \in Writers => doing'[folder'[i]] \in {"dumping", "verifying"}
  BY <1>2, <1>3 DEF BackupInv
<1>5. AlwaysACopy'
  <2>1. PICK to \in [DOMAIN folder -> DOMAIN folder'] :
            /\ \A i, j \in DOMAIN folder : to[i] = to[j] => i = j
            /\ \A j \in DOMAIN folder : folder'[to[j]] = folder[j]
    BY <1>2
  <2>2. AlwaysACopy /\ folder \in Seq(Files) /\ Len(folder') >= Len(folder)
    BY <1>2 DEF BackupInv
  <2> QED BY <1>1, <1>2, <2>1, <2>2, StillACopy
<1> QED BY <1>1, <1>2, <1>3, <1>4, <1>5 DEF BackupInv

\* After the pruning the new copy is there, or as many files as are kept are, none of them
\* verified: then only one is a writer's, for the one that pruned has none any more.
LEMMA VerifyKeepsACopy ==
  ASSUME BackupInv, NEW w \in Writers, Verify(w)
  PROVE  BackupInv'
<1> DEFINE turned == Turned(w, "good")
           n == Len(folder)
           m == Len(folder')
<1>1. /\ folder' = prune(turned) \/ folder' \in PruneSkipped(turned)
      /\ doing[w] = "verifying" /\ doing' = [doing EXCEPT ![w] = "recording"]
      /\ \E i \in 1..n : folder[i] = w
  BY DEF Verify, Contains
<1>2. folder \in Seq(Files) /\ n \in Nat /\ DOMAIN folder = 1..n
  BY DEF BackupInv
<1>3. /\ turned \in Seq(Files) /\ Len(turned) = n
      /\ \A i \in 1..n : turned[i] = IF folder[i] = w THEN "good" ELSE folder[i]
  BY <1>2, TurnsOne
<1> HIDE DEF turned
<1>4. /\ folder' \in Seq(Files)
      /\ folder' = turned \/ m >= Keep
      /\ \E to \in [1..m -> 1..Len(turned)] :
             /\ \A i, j \in 1..m : to[i] = to[j] => i = j
             /\ \A i \in 1..m : folder'[i] = turned[to[i]]
  <2> DEFINE p == folder'
  <2>1. turned \in Seq(Files) /\ (p = prune(turned) \/ p \in PruneSkipped(turned))
    BY <1>1, <1>3
  <2> HIDE DEF p
  <2>2. /\ p \in Seq(Files)
        /\ p = turned \/ Len(p) >= Keep
        /\ \E to \in [1..Len(p) -> 1..Len(turned)] :
               /\ \A i, j \in 1..Len(p) : to[i] = to[j] => i = j
               /\ \A i \in 1..Len(p) : p[i] = turned[to[i]]
    BY ONLY <2>1, PruneLeaves, Zenon
  <2> QED BY <2>2, Zenon DEF p
<1>5. PICK to \in [1..m -> 1..n] :
             /\ \A i, j \in 1..m : to[i] = to[j] => i = j
             /\ \A i \in 1..m : folder'[i] = turned[to[i]]
  BY <1>3, <1>4
<1>6. m \in Nat /\ DOMAIN folder' = 1..m
  BY <1>4
<1> HIDE DEF n, m
<1>7. \A i \in 1..m : to[i] \in 1..n /\ folder'[i] = IF folder[to[i]] = w THEN "good" ELSE folder[to[i]]
  BY <1>3, <1>5
<1>8. \A i \in 1..m : folder'[i] \in Writers => folder'[i] = folder[to[i]] /\ folder'[i] # w
  BY <1>7, BackupBounds
<1>9. \A i, j \in 1..m : folder'[i] = folder'[j] /\ folder'[i] \in Writers => i = j
  <2> SUFFICES ASSUME NEW i \in 1..m, NEW j \in 1..m, folder'[i] = folder'[j], folder'[i] \in Writers
               PROVE  i = j
    OBVIOUS
  <2>1. to[i] = to[j]
    BY <1>2, <1>7, <1>8 DEF BackupInv
  <2> QED BY <1>5, <2>1
<1>10. \A i \in 1..m : folder'[i] \in Writers => doing'[folder'[i]] \in {"dumping", "verifying"}
  <2> SUFFICES ASSUME NEW i \in 1..m, folder'[i] \in Writers
               PROVE  doing'[folder'[i]] \in {"dumping", "verifying"}
    OBVIOUS
  <2>1. doing[folder'[i]] \in {"dumping", "verifying"} /\ folder'[i] # w
    BY <1>2, <1>7, <1>8 DEF BackupInv
  <2> QED BY <1>1, <2>1 DEF BackupInv
<1>11. ASSUME ~Contains(folder', "good")
       PROVE  m >= Keep /\ Cardinality(Partials') >= Keep - 1
  <2>1. \A i \in 1..m : folder'[i] # "good"
    BY <1>11 DEF Contains, m
  <2>2. folder' # turned
    <3>1. PICK k \in 1..n : turned[k] = "good"
      BY <1>1, <1>3 DEF n
    <3> QED BY <1>3, <2>1, <3>1 DEF m
  <2>3. m >= Keep
    BY <1>4, <2>2 DEF m
  <2>4. \A i \in 1..m : folder'[i] \in Writers \ {w} \/ folder'[i] = "partial"
    BY <1>4, <1>6, <1>8, <2>1 DEF Files
  <2>5. \A i, j \in 1..m : folder'[i] \in Writers /\ folder'[j] \in Writers => i = j
    <3>1. \A u, v \in Writers \ {w} : u = v
      BY BackupBounds
    <3> QED BY <1>8, <1>9, <3>1
  <2>6. PICK i0 : \A i \in 1..m : i # i0 => folder'[i] = "partial"
    <3>1. CASE \E i \in 1..m : folder'[i] \in Writers
      BY <2>4, <2>5, <3>1
    <3>2. CASE \A i \in 1..m : folder'[i] \notin Writers
      BY <2>4, <3>2
    <3> QED BY <3>1, <3>2
  <2>7. (1..m) \ {i0} \in SUBSET Partials' /\ Partials' \in SUBSET (1..m)
    BY <1>6, <2>6 DEF Partials
  <2>8. IsFiniteSet(1..m) /\ Cardinality(1..m) = m
    BY <1>6, FS_Interval
  <2>9. Cardinality((1..m) \ {i0}) = IF i0 \in 1..m THEN Cardinality(1..m) - 1 ELSE Cardinality(1..m)
    BY ONLY <2>8, FS_RemoveElement
  <2>10. IsFiniteSet(Partials')
    BY ONLY <2>7, <2>8, FS_Subset
  <2>11. Cardinality((1..m) \ {i0}) <= Cardinality(Partials')
    BY ONLY <2>7, <2>10, FS_Subset
  <2>12. Cardinality(Partials') \in Nat
    BY ONLY <2>10, FS_CardinalityType
  <2> QED BY <1>6, <2>3, <2>8, <2>9, <2>11, <2>12, BackupBounds
<1>12. AlwaysACopy'
  BY <1>11 DEF AlwaysACopy, m
<1>13. doing' \in [Writers -> Doings]
  BY <1>1 DEF BackupInv, Doings
<1> QED BY <1>4, <1>6, <1>9, <1>10, <1>12, <1>13 DEF BackupInv

\* A failed attempt leaves its file behind as nobody's.
LEMMA BreaksOff ==
  ASSUME BackupInv, NEW w \in Writers, BreakOff(w)
  PROVE  BackupInv'
<1>1. /\ folder' = Turned(w, "partial") /\ verified' = verified
      /\ doing' = [doing EXCEPT ![w] = "idle"]
  BY DEF BreakOff
<1>2. /\ folder' \in Seq(Files) /\ DOMAIN folder' = DOMAIN folder
      /\ Len(folder') = Len(folder)
      /\ \A i \in DOMAIN folder : folder'[i] = IF folder[i] = w THEN "partial" ELSE folder[i]
  BY <1>1, TurnsOne DEF BackupInv
<1>3. \A i \in DOMAIN folder : /\ folder'[i] \in Writers => folder'[i] = folder[i] /\ folder'[i] # w
                               /\ folder[i] \in {"good", "partial"} => folder'[i] = folder[i]
  BY <1>2, BackupBounds
<1>4. doing' \in [Writers -> Doings] /\ \A v \in Writers : v # w => doing'[v] = doing[v]
  BY <1>1 DEF BackupInv, Doings
<1>5. AlwaysACopy'
  <2> DEFINE to == [i \in DOMAIN folder |-> i]
  <2>1. /\ to \in [DOMAIN folder -> DOMAIN folder']
        /\ \A i, j \in DOMAIN folder : to[i] = to[j] => i = j
        /\ \A i \in DOMAIN folder : folder[i] \in {"good", "partial"} => folder'[to[i]] = folder[i]
    BY <1>2, <1>3
  <2> HIDE DEF to
  <2>2. AlwaysACopy /\ folder \in Seq(Files) /\ Len(folder') >= Len(folder)
    BY <1>2 DEF BackupInv
  <2> QED BY <1>1, <1>2, <2>1, <2>2, StillACopy
<1> QED BY <1>1, <1>2, <1>3, <1>4, <1>5 DEF BackupInv

\* A power cut leaves every file behind as nobody's.
LEMMA PowerGoes ==
  ASSUME BackupInv, PowerCut
  PROVE  BackupInv'
<1>1. /\ folder' = [i \in DOMAIN folder |-> IF folder[i] \in Writers THEN "partial" ELSE folder[i]]
      /\ doing' = [w \in Writers |-> "idle"] /\ verified' = verified
  BY DEF PowerCut
<1>2. DOMAIN folder = 1..Len(folder) /\ Len(folder) \in Nat /\ \A i \in DOMAIN folder : folder[i] \in Files
  BY DEF BackupInv
<1>3. folder' \in [1..Len(folder) -> Files]
  BY <1>1, <1>2 DEF Files
<1>4. /\ folder' \in Seq(Files) /\ DOMAIN folder' = DOMAIN folder /\ Len(folder') = Len(folder)
      /\ \A i \in DOMAIN folder : /\ folder'[i] \notin Writers
                                  /\ folder[i] \in {"good", "partial"} => folder'[i] = folder[i]
  BY <1>1, <1>2, <1>3, BackupBounds
<1>5. doing' \in [Writers -> Doings]
  BY <1>1 DEF Doings
<1>6. AlwaysACopy'
  <2> DEFINE to == [i \in DOMAIN folder |-> i]
  <2>1. /\ to \in [DOMAIN folder -> DOMAIN folder']
        /\ \A i, j \in DOMAIN folder : to[i] = to[j] => i = j
        /\ \A i \in DOMAIN folder : folder[i] \in {"good", "partial"} => folder'[to[i]] = folder[i]
    BY <1>4
  <2> HIDE DEF to
  <2>2. AlwaysACopy /\ folder \in Seq(Files) /\ Len(folder') >= Len(folder)
    BY <1>2, <1>4 DEF BackupInv
  <2> QED BY <1>1, <1>4, <2>1, <2>2, StillACopy
<1> QED BY <1>1, <1>4, <1>5, <1>6 DEF BackupInv

\* Every step of timer, button and disk keeps the invariant.
LEMMA BackupSteps == BackupInv /\ [BackupNext]_backupVars => BackupInv'
<1> SUFFICES ASSUME BackupInv, [BackupNext]_backupVars PROVE BackupInv'
  OBVIOUS
<1>1. ASSUME UNCHANGED <<doing, folder, verified>> PROVE BackupInv'
  BY <1>1 DEF BackupInv, AlwaysACopy, Partials
<1>2. ASSUME NEW w \in Writers, Record(w) PROVE BackupInv'
  <2>1. /\ doing[w] = "recording" /\ doing' = [doing EXCEPT ![w] = "idle"]
        /\ folder' = folder /\ verified' = verified
    BY <1>2 DEF Record
  <2>2. doing' \in [Writers -> Doings] /\ \A v \in Writers : v # w => doing'[v] = doing[v]
    BY <2>1 DEF BackupInv, Doings
  <2>3. AlwaysACopy'
    BY <2>1 DEF BackupInv, AlwaysACopy, Partials
  <2> QED BY <2>1, <2>2, <2>3 DEF BackupInv
<1>3. ASSUME NEW w \in Writers, Fail(w) \/ FindGone(w) PROVE BreakOff(w)
  BY <1>3 DEF Fail, FindGone
<1>4. ASSUME \/ PowerOn \/ Tick
             \/ \E enabled \in BOOLEAN, time \in Times : Configure(enabled, time)
             \/ \E enabled \in BOOLEAN, time \in Times, last \in {Never} \union 0..MaxTime,
                   status \in Statuses : Restore(enabled, time, last, status)
      PROVE  UNCHANGED <<doing, folder, verified>>
  BY <1>4 DEF PowerOn, Tick, Configure, Restore
<1>5. ASSUME UNCHANGED backupVars PROVE UNCHANGED <<doing, folder, verified>>
  BY <1>5 DEF backupVars
<1> HIDE DEF BackupInv, CheckDue, BackUpNow, StartDump, EndDump, Verify, Record,
     FindGone, WriteDump, Fail,
             PowerCut, PowerOn, Tick, Configure, Restore
<1> QED BY <1>1, <1>2, <1>3, <1>4, <1>5, Begins, Opens, WritesOn, VerifyKeepsACopy,
     BreaksOff, PowerGoes
        DEF BackupNext, Proceed

\* For any number of files kept: once a backup was verified a good copy stays, whoever prunes
\* while the other writes and wherever a pruning stops, until the files that failures left
\* are all that is kept but one.
THEOREM BackupKeepsACopy == BackupSpec => []AlwaysACopy
<1>1. BackupInv => AlwaysACopy
  BY DEF BackupInv
<1> QED BY <1>1, BackupStarts, BackupSteps, PTL DEF BackupSpec
=============================================================================
