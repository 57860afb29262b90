------------------------------ MODULE Catalogue ------------------------------
(***************************************************************************)
(* Removing variants of a product or options of a service, or all of it,   *)
(* statement by statement, while it is traded, its variants are switched   *)
(* on and off and others remove too.  Part 0 stands for the product or     *)
(* service itself, the other parts for its variants.                       *)
(***************************************************************************)
EXTENDS Integers, FiniteSets

CONSTANTS Variants,   \* its variants
          Removers    \* requests to remove

VARIABLES kind,        \* "product" or "service"
          stage,       \* of each part: "active", "inactive" or "gone"
          used,        \* variants with history: sold, bought, counted or adjusted
          removal,     \* how far each removal has come
          lateUse,     \* variants traded after a removal had looked for history
          overlapped   \* two removals overlapped

catalogueVars == <<kind, stage, used, removal, lateUse, overlapped>>

Parts == Variants \union {0}
Waiting == [at |-> "waiting", of |-> 0]
Ended == [at |-> "ended", of |-> 0]

CatalogueInit ==
    /\ kind \in {"product", "service"}
    /\ stage = [p \in Parts |-> "active"]
    /\ used = {} /\ lateUse = {}
    /\ removal = [r \in Removers |-> Waiting]
    /\ overlapped = FALSE

Exists == {p \in Parts : stage[p] # "gone"}
Left == Exists \ {0}

UnderWay(r) == removal[r] \notin {Waiting, Ended}

-----------------------------------------------------------------------------
\* deactivate, reactivate, update: of the whole or of a variant, at any time.
SetStatus(p) ==
    /\ p \in Exists
    /\ stage' = [stage EXCEPT ![p] = IF @ = "active" THEN "inactive" ELSE "active"]
    /\ UNCHANGED <<kind, used, removal, lateUse, overlapped>>

LookedAt(p) == \E r \in Removers : \/ removal[r] = [at |-> "checked", of |-> p]
                                   \/ removal[r].at = "checkedAll"

\* A variant is sold, bought or counted; the till sells what is active.
Use(p) ==
    /\ p \in Left \ used /\ stage[p] = "active" /\ stage[0] = "active"
    /\ used' = used \union {p}
    /\ lateUse' = IF LookedAt(p) THEN lateUse \union {p} ELSE lateUse
    /\ UNCHANGED <<kind, stage, removal, overlapped>>

-----------------------------------------------------------------------------
Goes(r, at, p) == removal' = [removal EXCEPT ![r] = [at |-> at, of |-> p]]
Ends(r) == removal' = [removal EXCEPT ![r] = Ended]

\* removeVariant: the variants there are are counted, and one must be left.
Count(r, p) ==
    /\ removal[r] = Waiting
    /\ p \in Left
    /\ IF Cardinality(Left) <= 1 THEN Ends(r) ELSE Goes(r, "counted", p)
    /\ overlapped' = (overlapped \/ \E s \in Removers \ {r} : UnderWay(s))
    /\ UNCHANGED <<kind, stage, used, lateUse>>

\* Mutant: a variant may go with its history.
CheckNothing(r) ==
    /\ removal[r].at = "counted"
    /\ Goes(r, "checked", removal[r].of)
    /\ UNCHANGED <<kind, stage, used, lateUse, overlapped>>

\* assertNoVariantHistory, or the sales of an option.
CheckHistory(r) ==
    /\ removal[r].at = "counted"
    /\ IF removal[r].of \in used THEN Ends(r) ELSE Goes(r, "checked", removal[r].of)
    /\ UNCHANGED <<kind, stage, used, lateUse, overlapped>>

\* remove: the history of all its variants is looked for.
CheckAll(r) ==
    /\ removal[r] = Waiting
    /\ 0 \in Exists
    /\ IF used = {} THEN Goes(r, "checkedAll", 0) ELSE Ends(r)
    /\ UNCHANGED <<kind, stage, used, lateUse, overlapped>>

\* What the foreign keys let go: a variant of a product is held by its history, an option
\* of a service is not, and its sale lines lose it.
MayGo(parts) == kind = "service" \/ parts \intersect used = {}

\* What a removal deletes, in one transaction.
Doomed(r) == IF removal[r].at = "checkedAll" THEN Exists ELSE {removal[r].of}

\* The rows are deleted, or it fails: one of them is gone already, or held.
Delete(r) ==
    /\ removal[r].at \in {"checked", "checkedAll"}
    /\ stage' = IF removal[r].of \in Exists /\ MayGo(Doomed(r))
                THEN [p \in Parts |-> IF p \in Doomed(r) THEN "gone" ELSE stage[p]] ELSE stage
    /\ Ends(r)
    /\ UNCHANGED <<kind, used, lateUse, overlapped>>

CatalogueNext ==
    \/ \E p \in Parts : SetStatus(p) \/ Use(p)
    \/ \E r \in Removers : \/ \E p \in Parts : Count(r, p)
                           \/ CheckHistory(r) \/ CheckAll(r) \/ Delete(r)

-----------------------------------------------------------------------------
\* What was traded keeps its history: a product's variant with any is never deleted,
\* though it may be traded between the look and the deletion; an option of a service is
\* deleted only if it was sold after the removal had looked.  "A product must keep at
\* least one variant" (products.service.ts), and a service an option: one is left
\* without only if two removals overlapped, and none is left without its product.
RemovedUnusedOnly ==
    /\ \A p \in used : stage[p] = "gone" => kind = "service" /\ p \in lateUse
    /\ 0 \in Exists => Left # {} \/ overlapped
    /\ 0 \notin Exists => Left = {}
=============================================================================
