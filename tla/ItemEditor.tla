----------------------------- MODULE ItemEditor -----------------------------
(***************************************************************************)
(* The page that edits a product or a service: it is filled in once, from  *)
(* the cache if there is an answer in it, and saves with one request after *)
(* another, any of which may fail, while others change the same rows, the  *)
(* user types on, or leaves the page and opens it again.                   *)
(* Part 0 stands for the fields of the product or service itself, the      *)
(* other parts for its variants.  Creating one, which is a single request, *)
(* is left out.                                                            *)
(***************************************************************************)
EXTENDS Integers, FiniteSetsExt

CONSTANTS MaxVariants,     \* bound: variants ever
          MaxEdits,        \* bound: values typed and parts switched on or off, here or elsewhere
          MaxMishaps       \* bound: requests or answers lost, forms left while they are saved

Parts == 0..MaxVariants
Unsaved == -1                            \* a row of the form that has no id yet
Keys == 0..(MaxVariants + MaxEdits)      \* rows of the form: parts, then rows added

VARIABLES kind,        \* "product" or "service"
          part,        \* the parts, in the database
          copy,        \* the answer to useProduct or useService in the cache
          editor,      \* the form
          saves,       \* the save of the form that is open ("here"), and that of a form left
          typed,       \* what the user typed into the form, by row
          edits,       \* changes so far, anywhere: what is typed is the number of its change
          repeatable,  \* rows added by a save that failed later: they got no id
          mishaps

editorVars == <<kind, part, copy, editor, saves, typed, edits, repeatable, mishaps>>

NoEditor == [open |-> FALSE, rows |-> <<>>, dropped |-> {}]
\* A save has the rows as they were when it began; for the properties, also what was typed
\* by then, and the parts others have changed since.
NoSave == [stage |-> "none", rows |-> <<>>, dropped |-> {}, todo |-> {}, meant |-> <<>>, disturbed |-> {}]
NoCopy == [held |-> FALSE, rows |-> <<>>]

Part(stage, value, from) == [stage |-> stage, value |-> value, from |-> from]

Live == {p \in Parts : part[p].stage \in {"active", "inactive"}}
LiveVariants == Live \ {0}

EditorInit ==
    /\ kind \in {"product", "service"}
    /\ part = [p \in Parts |-> Part(IF p \in {0, 1} THEN "active" ELSE "none", 0, p)]
    /\ copy = NoCopy
    /\ editor = NoEditor
    /\ saves = [w \in {"here", "left"} |-> NoSave]
    /\ typed = <<>>
    /\ edits = 0
    /\ repeatable = {}
    /\ mishaps = 0

Mishap == mishaps < MaxMishaps /\ mishaps' = mishaps + 1

-----------------------------------------------------------------------------
\* The page that edits.
Loaded(c) == [k \in DOMAIN c.rows |-> [id |-> k, value |-> c.rows[k]]]

\* Mutant: the form is filled in again from every answer.
FetchClobbers ==
    /\ copy' = [held |-> TRUE, rows |-> [p \in Live |-> part[p].value]]
    /\ editor' = IF editor.open THEN [editor EXCEPT !.rows = Loaded(copy')] ELSE editor
    /\ UNCHANGED <<kind, part, saves, typed, repeatable, edits, mishaps>>

\* The answer to useProduct or useService, which is asked for again once it is old or
\* invalidated; until then, and while it is asked for, the page has the one before.  A form
\* that is open keeps what it holds.
Fetch ==
    /\ copy' = [held |-> TRUE, rows |-> [p \in Live |-> part[p].value]]
    /\ UNCHANGED <<kind, part, editor, saves, typed, repeatable, edits, mishaps>>

\* The page opens, and is filled in once, from the cache if there is an answer in it.
OpenEditor ==
    /\ ~editor.open /\ copy.held
    /\ 0 \in Live
    /\ editor' = [NoEditor EXCEPT !.open = TRUE, !.rows = Loaded(copy)]
    /\ typed' = <<>>
    /\ UNCHANGED <<kind, part, copy, saves, repeatable, edits, mishaps>>

\* The form goes, and its save goes on without it.
CloseForm(behind) ==
    /\ editor' = NoEditor
    /\ typed' = <<>>
    /\ saves' = [here |-> NoSave, left |-> behind]

\* The page is left: Cancel is disabled while saving, the links around it are not.
\* Bound: one save at a time is left behind.
LeaveEditor ==
    /\ editor.open
    /\ \/ saves["here"].stage = "none" /\ CloseForm(saves["left"]) /\ UNCHANGED mishaps
       \/ saves["left"].stage = "none" /\ CloseForm(saves["here"]) /\ Mishap
    /\ UNCHANGED <<kind, part, copy, repeatable, edits>>

\* The page is loaded anew: saves stop where they are, and the cache is empty.
ReloadEditor ==
    /\ CloseForm(NoSave)
    /\ copy' = NoCopy
    /\ UNCHANGED <<kind, part, repeatable, edits, mishaps>>

With(f, k, v) == [j \in DOMAIN f \union {k} |-> IF j = k THEN v ELSE f[j]]
Without(f, k) == [j \in DOMAIN f \ {k} |-> f[j]]

\* A row is typed into, also while the form is being saved.
EditRow(k) ==
    /\ editor.open /\ k \in DOMAIN editor.rows
    /\ edits < MaxEdits
    /\ edits' = edits + 1
    /\ editor' = [editor EXCEPT !.rows[k].value = edits + 1]
    /\ typed' = With(typed, k, edits + 1)
    /\ UNCHANGED <<kind, part, copy, saves, repeatable, mishaps>>

\* addRow.
AddRow ==
    /\ editor.open
    /\ edits < MaxEdits
    /\ edits' = edits + 1
    /\ LET k == MaxVariants + edits + 1
       IN  /\ editor' = [editor EXCEPT !.rows = With(@, k, [id |-> Unsaved, value |-> edits + 1])]
           /\ typed' = With(typed, k, edits + 1)
    /\ UNCHANGED <<kind, part, copy, saves, repeatable, mishaps>>

\* dropRow, removeRow: a row that was never saved goes; a saved option of a service is
\* remembered, to be deactivated by the next save.  The last row has no button.
DropRow(k) ==
    /\ editor.open /\ k \in DOMAIN editor.rows \ {0}
    /\ DOMAIN editor.rows # {0, k}
    /\ LET saved == editor.rows[k].id # Unsaved
       IN  /\ saved => kind = "service"
           /\ editor' = [editor EXCEPT !.rows = Without(@, k),
                                       !.dropped = IF saved THEN @ \union {k} ELSE @]
    /\ typed' = Without(typed, k)
    /\ UNCHANGED <<kind, part, copy, saves, repeatable, edits, mishaps>>

\* What a save has to do, in the order of the rows: the fields, each row, then, for a
\* service, the options dropped (keys past the rows), for a product, the picture.
DroppedKey(p) == Max(Keys) + p
PictureKey == Max(Keys) + 1
Steps(e) ==
    DOMAIN e.rows \union (IF kind = "service" THEN {DroppedKey(p) : p \in e.dropped} ELSE {PictureKey})

\* submit, with the rows as they are.  At least one variant is wanted; the button is
\* disabled while a save of this form is under way.
Save ==
    /\ editor.open /\ DOMAIN editor.rows # {0}
    /\ saves["here"].stage = "none"
    /\ saves' = [saves EXCEPT !["here"] =
                     [stage |-> "going", rows |-> editor.rows, dropped |-> editor.dropped,
                      todo |-> Steps(editor), meant |-> typed, disturbed |-> {}]]
    /\ UNCHANGED <<kind, part, copy, editor, typed, repeatable, edits, mishaps>>

Unborn == {p \in Parts : part[p].stage = "none"}

\* What the server does for step k of save e: part after it, or {} if it refuses.
\* update, updateVariant, addVariant, deactivateVariant, setImage.
Done(e, k) ==
    IF k \in DOMAIN e.rows
    THEN LET row == e.rows[k]
         IN  IF row.id = Unsaved
             THEN IF 0 \in Live /\ Unborn # {}
                  THEN {[part EXCEPT ![Min(Unborn)] = Part("active", row.value, k)]} ELSE {}
             ELSE IF row.id \in Live THEN {[part EXCEPT ![row.id].value = row.value]} ELSE {}
    ELSE IF kind = "product" THEN (IF 0 \in Live THEN {part} ELSE {})
    ELSE LET p == k - Max(Keys) IN IF p \in Live THEN {[part EXCEPT ![p].stage = "inactive"]} ELSE {}

\* Parts changed: for every save under way but w's, someone else did it.
Disturbs(ps, w, new) ==
    saves' = [v \in DOMAIN saves |->
                 IF v = w THEN new
                 ELSE IF saves[v].stage = "none" THEN saves[v]
                 ELSE [saves[v] EXCEPT !.disturbed = @ \union ps]]

Changed == {p \in Parts : part'[p] # part[p]}

Going(w) == saves[w].stage = "going" /\ saves[w].todo # {}

\* The next request of a save is made.
Step(w) ==
    /\ Going(w)
    /\ LET e == saves[w]
           k == Min(e.todo)
       IN  /\ part' \in Done(e, k)
           /\ Disturbs(Changed, w, [e EXCEPT !.todo = @ \ {k},
                                             !.stage = IF e.todo = {k} THEN "done" ELSE @])
    /\ UNCHANGED <<kind, copy, editor, typed, repeatable, edits, mishaps>>

\* Rows this attempt has added.
AddedBy(e) == {k \in DOMAIN e.rows \ e.todo : e.rows[k].id = Unsaved}

\* The save stops where it is, and says so; its form, if it is still open, stays as it is.
Stops(w, also) ==
    /\ Disturbs(Changed, w, NoSave)
    /\ repeatable' = repeatable \union AddedBy(saves[w]) \union also

\* It is refused, as the part is gone.
StepRefused(w) ==
    /\ Going(w)
    /\ Done(saves[w], Min(saves[w].todo)) = {}
    /\ part' = part /\ Stops(w, {})
    /\ UNCHANGED <<kind, copy, editor, typed, edits, mishaps>>

\* It is lost, or its answer is: the save stops, the request done or not.
StepLost(w) ==
    /\ Going(w)
    /\ Mishap
    /\ LET e == saves[w]
           k == Min(e.todo)
           adds == k \in DOMAIN e.rows /\ e.rows[k].id = Unsaved
       IN  \/ part' = part /\ Stops(w, {})
           \/ part' \in Done(e, k) /\ Stops(w, IF adds THEN {k} ELSE {})
    /\ UNCHANGED <<kind, copy, editor, typed, edits>>

\* The last answer: "saved" is shown, and the page the save began on goes to the list or to
\* the product; so does any form that was opened since.
Finish(w) ==
    /\ saves[w].stage = "done"
    /\ CloseForm(IF w = "left" THEN saves["here"] ELSE saves["left"])
    /\ UNCHANGED <<kind, part, copy, repeatable, edits, mishaps>>

-----------------------------------------------------------------------------
\* What others do.
Elsewhere(p) == Disturbs({p}, "nobody", NoSave)

\* Another desk saves a part.
EditElsewhere(p) ==
    /\ p \in Live
    /\ edits < MaxEdits
    /\ edits' = edits + 1
    /\ part' = [part EXCEPT ![p].value = edits + 1]
    /\ Elsewhere(p)
    /\ UNCHANGED <<kind, copy, editor, typed, repeatable, mishaps>>

\* deactivateOne, reactivateOne: at once, by whoever holds the key.
SetStatus(p) ==
    /\ p \in LiveVariants
    /\ edits < MaxEdits
    /\ edits' = edits + 1
    /\ part' = [part EXCEPT ![p].stage = IF @ = "active" THEN "inactive" ELSE "active"]
    /\ Elsewhere(p)
    /\ UNCHANGED <<kind, copy, editor, typed, repeatable, mishaps>>

CanRemove(p) == kind = "product" /\ p \in LiveVariants /\ Cardinality(LiveVariants) > 1
Gone(p) == part' = [part EXCEPT ![p].stage = "gone"]

\* confirmDeleteVariant: a saved variant is removed for good, and its row goes.
RemoveHere(p) ==
    /\ editor.open /\ p \in DOMAIN editor.rows
    /\ CanRemove(p) /\ Gone(p)
    /\ editor' = [editor EXCEPT !.rows = Without(@, p)]
    /\ typed' = Without(typed, p)
    /\ UNCHANGED <<kind, copy, saves, repeatable, edits, mishaps>>

\* Another desk removes one (Catalogue has the statements).
RemoveElsewhere(p) ==
    /\ CanRemove(p) /\ Gone(p)
    /\ UNCHANGED <<kind, copy, editor, saves, typed, repeatable, edits, mishaps>>

-----------------------------------------------------------------------------
EditorNext ==
    \/ Fetch \/ OpenEditor \/ LeaveEditor \/ ReloadEditor \/ AddRow \/ Save
    \/ \E w \in DOMAIN saves : Step(w) \/ StepRefused(w) \/ StepLost(w) \/ Finish(w)
    \/ \E k \in Keys : EditRow(k) \/ DropRow(k)
    \/ \E p \in Parts : EditElsewhere(p) \/ SetStatus(p) \/ RemoveHere(p) \/ RemoveElsewhere(p)

-----------------------------------------------------------------------------
\* A product or service said to be saved is what the user had typed when the save began:
\* every row typed into has its value, every row added is there once, and an option that
\* was dropped is off, after any number of attempts, whatever was fetched or typed
\* meanwhile and whether or not the page was left, but for parts someone else, or the
\* save of a form left, changed since the save began.  A row added by an attempt that
\* failed later got no id and is added again by the next.
SavedAsTyped ==
    \A w \in DOMAIN saves : saves[w].stage = "done" =>
        LET s == saves[w]
        IN  /\ \A k \in DOMAIN s.meant :
                   IF k \in Parts THEN k \in s.disturbed \/ part[k].value = s.meant[k]
                   ELSE LET made == {p \in Parts : part[p].from = k}
                        IN  /\ made # {}
                            /\ k \notin repeatable =>
                                   /\ Cardinality(made) = 1
                                   /\ Max(made) \in s.disturbed \/ part[Max(made)].value = s.meant[k]
            /\ \A p \in s.dropped \ s.disturbed : part[p].stage = "inactive"

-----------------------------------------------------------------------------
\* What the code does not keep.
\* A save leaves alone what the user did not type: it sends every row as the form was
\* filled in, from the cache.  For a service no mutation invalidates useService, so a
\* form opened again within the five minutes the cache keeps it undoes the last save.
OnlyTypedChanges ==
    [][\A w \in DOMAIN saves : Step(w) =>
           \A p \in Live : part'[p].value # part[p].value => p \in DOMAIN saves[w].meant]_editorVars

\* A row added is added once.
AddedOnce == \A p, q \in Live : p # q => part[p].from # part[q].from

\* What is typed, added or dropped while the form is being saved is saved: the fields
\* stay enabled, the save has the rows as they were, and the page goes when it ends
\* (ProductFormPage.tsx:209-229, ServiceFormPage.tsx:170-213).
SavedAsShown ==
    [][Finish("here") => typed = saves["here"].meant /\ editor.dropped = saves["here"].dropped]_editorVars

\* A save that was left does not put back what a later one has saved, and does not
\* close the form that was opened since.
LeftSaveStays ==
    [][/\ Step("left") => LET e == saves["here"]
                           IN  \A k \in (DOMAIN e.meant \intersect Parts) \ e.todo : part'[k].value = part[k].value
       /\ Finish("left") => ~editor.open]_editorVars
=============================================================================
