------------------------------ MODULE OnceOnly ------------------------------
(***************************************************************************)
(* What a keyed write promises its callers, with no word on how: a         *)
(* document is booked in one step under the next number of its series, at  *)
(* most one for a key and at most one for a request, and whoever is        *)
(* answered is shown the document its request or its key booked.           *)
(***************************************************************************)
EXTENDS Naturals

CONSTANTS Requests,  \* the HTTP requests that may ever be sent
          Keys,      \* the idempotency keys clients make up
          NoKey,     \* the key of a request that carries none
          Unsent,    \* the key of a request nobody has sent yet
          Series,    \* the (type, period) pairs documents are numbered in
          NoDoc      \* what a request that was not answered holds

VARIABLES key,   \* the key each request carries
          docs,  \* the documents booked
          seq,   \* the last number given out in each series
          told   \* the document each request was answered with

onceVars == <<key, docs, seq, told>>

Docs == [key : Keys \union {NoKey}, series : Series, number : Nat, by : Requests]

OnceInit ==
    /\ key = [r \in Requests |-> Unsent]
    /\ docs = {}
    /\ seq = [s \in Series |-> 0]
    /\ told = [r \in Requests |-> NoDoc]

\* A client sends a request under a key, its own or one it has used before.
Ask(r, k) ==
    /\ key[r] = Unsent
    /\ key' = [key EXCEPT ![r] = k]
    /\ UNCHANGED <<docs, seq, told>>

\* A request books its document: it has booked none, and nobody under its key.
Book(r, s) ==
    /\ key[r] # Unsent
    /\ \A d \in docs : d.by # r /\ (key[r] = NoKey \/ d.key # key[r])
    /\ docs' = docs \union
                 {[key |-> key[r], series |-> s, number |-> seq[s] + 1, by |-> r]}
    /\ seq' = [seq EXCEPT ![s] = seq[s] + 1]
    /\ UNCHANGED <<key, told>>

\* A request is answered, once, with the document it or its key booked.
Tell(r, d) ==
    /\ told[r] = NoDoc
    /\ d.by = r \/ (key[r] # NoKey /\ d.key = key[r])
    /\ told' = [told EXCEPT ![r] = d]
    /\ UNCHANGED <<key, docs, seq>>

OnceNext ==
    \/ \E r \in Requests, k \in Keys \union {NoKey} : Ask(r, k)
    \/ \E r \in Requests, s \in Series : Book(r, s)
    \/ \E r \in Requests : \E d \in docs : Tell(r, d)

OnceSpec == OnceInit /\ [][OnceNext]_onceVars
=============================================================================
