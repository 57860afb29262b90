------------------------------ MODULE Requests ------------------------------
(***************************************************************************)
(* A keyed write as the server runs it: SalesService.create and its        *)
(* sisters look the key up, open a serializable transaction                *)
(* (PrismaService.runSerializable), look it up again, reserve the          *)
(* document's number on the sequence row (SequenceService.next), insert    *)
(* the row under the unique index on the key and commit; a transaction     *)
(* the database refuses is run again, a bounded number of times.  Requests *)
(* overlap in every order, repeat each other's keys, fail and are cut off. *)
(***************************************************************************)
EXTENDS OnceOnly

CONSTANTS Free,       \* the value of a lock nobody holds
          MaxRetries  \* how often runSerializable runs a refused transaction again

ASSUME RequestsAssumption ==
    /\ Series # {}
    /\ MaxRetries \in Nat
    /\ NoKey \notin Keys /\ Unsent \notin Keys /\ Unsent # NoKey
    /\ Free \notin Requests
    /\ NoDoc \notin Docs

VARIABLES pc,      \* how far each request is
          series,  \* the series its document belongs to
          base,    \* the last numbers its transaction's snapshot shows
          tries,   \* the times its transaction was run again
          lock     \* the request that holds each sequence row

vars == <<key, docs, seq, told, pc, series, base, tries, lock>>

\* A request is in its transaction from its first read to its end.
InTx(r) == pc[r] \in {"reserve", "insert", "commit"}

\* It holds an uncommitted row, whose key the unique index already shows it.
Inserted(r) == pc[r] = "commit"

Over(r) == pc[r] \in {"answered", "refused", "cut"}

\* What a request holds of a transaction when it has none.
NoSeries == CHOOSE s \in Series : TRUE
NoBase == [s \in Series |-> 0]

Init ==
    /\ OnceInit
    /\ pc = [r \in Requests |-> "idle"]
    /\ series = [r \in Requests |-> NoSeries]
    /\ base = [r \in Requests |-> NoBase]
    /\ tries = [r \in Requests |-> 0]
    /\ lock = [s \in Series |-> Free]

-----------------------------------------------------------------------------
\* The documents booked under a request's key; a keyless one has none.
Booked(r) == {d \in docs : key[r] # NoKey /\ d.key = key[r]}

\* Another transaction committed since this one's snapshot, or runs beside it.
Overlapped(r) ==
    \/ base[r] # seq
    \/ \E q \in Requests \ {r} : InTx(q)

\* A request's locks go when its transaction ends, either way.
Unlock(r) == lock' = [s \in Series |-> IF lock[s] = r THEN Free ELSE lock[s]]

\* Its transaction, and the count of the times it was run, are forgotten.
Forget(r) ==
    /\ series' = [series EXCEPT ![r] = NoSeries]
    /\ base' = [base EXCEPT ![r] = NoBase]
    /\ tries' = [tries EXCEPT ![r] = 0]

\* The request comes to an end without a document to show.
End(r, how) ==
    /\ pc' = [pc EXCEPT ![r] = how]
    /\ Unlock(r)
    /\ Forget(r)
    /\ UNCHANGED <<key, docs, seq, told>>

\* The request is answered with a document.
Answer(r, d) ==
    /\ told' = [told EXCEPT ![r] = d]
    /\ pc' = [pc EXCEPT ![r] = "answered"]
    /\ Forget(r)
    /\ UNCHANGED <<key, docs, seq, lock>>

-----------------------------------------------------------------------------
\* A client sends a request, under a new key, a key already used or none.
Send(r, k) ==
    /\ pc[r] = "idle"
    /\ Ask(r, k)
    /\ pc' = [pc EXCEPT ![r] = "check"]
    /\ UNCHANGED <<series, base, tries, lock>>

\* Before any transaction: no document is committed under the key.
Check(r) ==
    /\ pc[r] = "check"
    /\ Booked(r) = {}
    /\ pc' = [pc EXCEPT ![r] = "begin"]
    /\ UNCHANGED <<key, docs, seq, told, series, base, tries, lock>>

\* Before the transaction or first thing in it, a document committed under the
\* key is the answer.
Found(r) ==
    /\ pc[r] \in {"check", "begin"}
    /\ \E d \in Booked(r) : Answer(r, d)

\* The transaction begins: its first read fixes its snapshot and looks again.
\* The series is the month it is by then, or the one the request is dated in.
Begin(r, s) ==
    /\ pc[r] = "begin"
    /\ Booked(r) = {}
    /\ pc' = [pc EXCEPT ![r] = "reserve"]
    /\ series' = [series EXCEPT ![r] = s]
    /\ base' = [base EXCEPT ![r] = seq]
    /\ UNCHANGED <<key, docs, seq, told, tries, lock>>

\* Mutant: the number is drawn outside the transaction.
ReserveOutsideTx(r) ==
    /\ pc[r] = "reserve"
    /\ base' = [base EXCEPT ![r] = seq]
    /\ seq' = [seq EXCEPT ![series[r]] = seq[series[r]] + 1]
    /\ pc' = [pc EXCEPT ![r] = "insert"]
    /\ UNCHANGED <<key, docs, told, series, tries, lock>>

\* Mutant: the number is read first and written back later.
ReserveReadFirst(r) ==
    /\ pc[r] = "reserve"
    /\ lock[series[r]] = Free
    /\ lock' = [lock EXCEPT ![series[r]] = r]
    /\ pc' = [pc EXCEPT ![r] = "insert"]
    /\ UNCHANGED <<key, docs, seq, told, series, base, tries>>

\* The number is reserved by updating the sequence row: it must be nobody
\* else's, and as the snapshot shows it.
Reserve(r) ==
    /\ pc[r] = "reserve"
    /\ lock[series[r]] = Free
    /\ seq[series[r]] = base[r][series[r]]
    /\ lock' = [lock EXCEPT ![series[r]] = r]
    /\ pc' = [pc EXCEPT ![r] = "insert"]
    /\ UNCHANGED <<key, docs, seq, told, series, base, tries>>

\* Mutant: there is no unique index on the key.
InsertNoIndex(r) ==
    /\ pc[r] = "insert"
    /\ pc' = [pc EXCEPT ![r] = "commit"]
    /\ UNCHANGED <<key, docs, seq, told, series, base, tries, lock>>

\* The row is inserted: the unique index lets it in unless the key is there,
\* and makes it wait for a row under the key that is not committed yet.
Insert(r) ==
    /\ pc[r] = "insert"
    /\ Booked(r) = {}
    /\ \A q \in Requests : Inserted(q) => key[r] = NoKey \/ key[q] # key[r]
    /\ pc' = [pc EXCEPT ![r] = "commit"]
    /\ UNCHANGED <<key, docs, seq, told, series, base, tries, lock>>

\* The document a request is about to commit.
DocOf(r) == [key |-> key[r], series |-> series[r],
             number |-> base[r][series[r]] + 1, by |-> r]

\* The transaction commits: the row, its number and the rest in one step.
Commit(r) ==
    /\ pc[r] = "commit"
    /\ docs' = docs \union {DocOf(r)}
    /\ seq' = [seq EXCEPT ![series[r]] = DocOf(r).number]
    /\ pc' = [pc EXCEPT ![r] = "committed"]
    /\ Unlock(r)
    /\ Forget(r)
    /\ UNCHANGED <<key, told>>

\* Mutant: the last document of the book is read back, not its own.
ReturnLast(r) ==
    /\ pc[r] = "committed"
    /\ \E d \in docs : d.number = seq[d.series] /\ Answer(r, d)

\* The handler returns what it booked.
Return(r) ==
    /\ pc[r] = "committed"
    /\ \E d \in docs : d.by = r /\ Answer(r, d)

\* Mutant: the bound on the retries is off by one.
RetryOnceMore(r) ==
    /\ InTx(r)
    /\ Overlapped(r)
    /\ tries[r] <= MaxRetries
    /\ tries' = [tries EXCEPT ![r] = tries[r] + 1]
    /\ pc' = [pc EXCEPT ![r] = "begin"]
    /\ series' = [series EXCEPT ![r] = NoSeries]
    /\ base' = [base EXCEPT ![r] = NoBase]
    /\ Unlock(r)
    /\ UNCHANGED <<key, docs, seq, told>>

\* Mutant: the refused transaction is not rolled back before the next.
RetryHolding(r) ==
    /\ InTx(r)
    /\ Overlapped(r)
    /\ tries[r] < MaxRetries
    /\ tries' = [tries EXCEPT ![r] = tries[r] + 1]
    /\ pc' = [pc EXCEPT ![r] = "begin"]
    /\ series' = [series EXCEPT ![r] = NoSeries]
    /\ base' = [base EXCEPT ![r] = NoBase]
    /\ UNCHANGED <<key, docs, seq, told, lock>>

\* The database refuses the transaction for what ran beside it (P2034, 40001,
\* 40P01): it is rolled back and run again.
Retry(r) ==
    /\ InTx(r)
    /\ Overlapped(r)
    /\ tries[r] < MaxRetries
    /\ tries' = [tries EXCEPT ![r] = tries[r] + 1]
    /\ pc' = [pc EXCEPT ![r] = "begin"]
    /\ series' = [series EXCEPT ![r] = NoSeries]
    /\ base' = [base EXCEPT ![r] = NoBase]
    /\ Unlock(r)
    /\ UNCHANGED <<key, docs, seq, told>>

\* It was run again as often as it may be: the conflict is the answer.
GiveUp(r) ==
    /\ InTx(r)
    /\ Overlapped(r)
    /\ tries[r] = MaxRetries
    /\ End(r, "refused")

\* Mutant: a step after the commit fails the request as well.
RefuseAfterCommit(r) == (InTx(r) \/ pc[r] = "committed") /\ End(r, "refused")

\* Anything else fails the transaction and is not retried: a business rule, the
\* unique index on the key (P2002), the timeout of the transaction.
Refuse(r) == InTx(r) /\ End(r, "refused")

\* The server dies or the connection drops before the answer is out: what is not
\* committed is rolled back, and nothing remembers the request.
Cut(r) == pc[r] # "idle" /\ ~Over(r) /\ End(r, "cut")

-----------------------------------------------------------------------------
\* The steps a request takes by itself once it is on the server.
Step(r) ==
    \/ \E s \in Series : Begin(r, s)
    \/ Check(r) \/ Found(r) \/ Reserve(r) \/ Insert(r)
    \/ Commit(r) \/ Return(r) \/ Retry(r) \/ GiveUp(r)

Next ==
    \E r \in Requests :
        \/ \E k \in Keys \union {NoKey} : Send(r, k)
        \/ Step(r)
        \/ Refuse(r) \/ Cut(r)

Spec == Init /\ [][Next]_vars

\* The event loop and the database take every request that can move further;
\* nothing makes a client send one, a transaction fail or a connection drop.
Fairness == \A r \in Requests : WF_vars(Step(r))

FairSpec == Spec /\ Fairness

-----------------------------------------------------------------------------
\* Every variable has its type.
TypeOK ==
    /\ key \in [Requests -> Keys \union {NoKey, Unsent}]
    /\ docs \subseteq Docs
    /\ seq \in [Series -> Nat]
    /\ told \in [Requests -> Docs \union {NoDoc}]
    /\ pc \in [Requests -> {"idle", "check", "begin", "reserve", "insert", "commit",
                           "committed", "answered", "refused", "cut"}]
    /\ series \in [Requests -> Series]
    /\ base \in [Requests -> [Series -> Nat]]
    /\ tries \in [Requests -> 0..MaxRetries]
    /\ lock \in [Series -> Requests \union {Free}]

\* However requests under one key overlap, are retried or are sent again, one
\* document is booked under it; a request without a key books one at most.
OncePerKey ==
    \A d, e \in docs :
        d.by = e.by \/ (d.key # NoKey /\ d.key = e.key) => d = e

\* The numbers of a series are 1, 2, 3, ... with none missing and none given
\* twice, whatever was rolled back after a number was reserved.
Gapless ==
    \A s \in Series :
        /\ \A n \in 1..seq[s] : \E d \in docs : d.series = s /\ d.number = n
        /\ \A d \in docs : d.series = s => d.number \in 1..seq[s]
        /\ \A d, e \in docs :
               d.series = s /\ e.series = s /\ d.number = e.number => d = e

\* Two requests that carried one key and were both answered were shown the same
\* document, whichever of them booked it.
SameAnswer ==
    \A r, q \in Requests :
        /\ told[r] # NoDoc /\ told[q] # NoDoc
        /\ key[r] # NoKey /\ key[r] = key[q]
        => told[r] = told[q]

\* A request that was answered with an error booked nothing: no attempt of it
\* that runSerializable ran before left its document behind.
RefusedLeavesNothing ==
    \A r \in Requests : pc[r] = "refused" => \A d \in docs : d.by # r

\* Every request on the server comes to an end, an answer, an error or a cut:
\* the row locks, the waits on the unique index and the retries never leave two
\* of them waiting for each other, or one of them going round for ever.
EveryRequestEnds == \A r \in Requests : pc[r] = "check" ~> Over(r)
=============================================================================
