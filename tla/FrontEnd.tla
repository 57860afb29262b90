------------------------------ MODULE FrontEnd ------------------------------
(***************************************************************************)
(* A station of the shop: what its pages show, what they ask of whom, what *)
(* is entered in their forms, and the catalogue they edit.  The parts meet *)
(* only in the tables of forms, pages and endpoints, so one of them is     *)
(* watched at a time, whichever it is, and the others rest.                *)
(***************************************************************************)
EXTENDS Integers

CONSTANTS MaxOps, MaxTroubles,                            \* ViewCache
          DeskRows, MaxInputs, MaxSends, MaxSetbacks,     \* Desk
          MaxVariants, MaxEdits, MaxMishaps,              \* ItemEditor
          Variants, Removers                              \* Catalogue

ASSUME FrontEndAssumption ==
    /\ {MaxOps, MaxTroubles, MaxInputs, MaxSends, MaxSetbacks, MaxEdits, MaxMishaps} \subseteq Nat
    /\ DeskRows \subseteq Nat \ {0} /\ MaxVariants \in Nat \ {0}
    /\ 0 \notin Variants /\ Variants # {}

VARIABLES scene,   \* the part that is watched
          watched, mounted, data, invalid, fetch, op, missed, troubles,
          page, granted, believed, signedIn, refused,
          form, open, fields, inputs, sends, setbacks,
          kind, part, copy, editor, saves, typed, edits, repeatable, mishaps,
          stage, used, removal, lateUse, overlapped

Screen == INSTANCE ViewCache
Visit == INSTANCE Access
Counter == INSTANCE Desk
Editor == INSTANCE ItemEditor
Removal == INSTANCE Catalogue

screen == <<watched, mounted, data, invalid, fetch, op, missed, troubles>>
visit == <<page, granted, believed, signedIn, refused>>
counter == <<form, open, fields, inputs, sends, setbacks>>
item == <<part, copy, editor, saves, typed, edits, repeatable, mishaps>>
rows == <<stage, used, removal, lateUse, overlapped>>

vars == <<scene, screen, visit, counter, kind, item, rows>>

Any(S) == {CHOOSE x \in S : TRUE}

\* A part that rests is in one of its initial states.
Init ==
    /\ scene \in {"screen", "visit", "counter", "editor", "removal"}
    /\ watched \in IF scene = "screen" THEN DOMAIN Screen!Views ELSE Any(DOMAIN Screen!Views)
    /\ page \in IF scene = "visit" THEN DOMAIN Visit!Pages ELSE Any(DOMAIN Visit!Pages)
    /\ granted \in IF scene = "visit" THEN Visit!Accounts(page) ELSE Any(Visit!Accounts(page))
    /\ form \in IF scene = "counter" THEN DOMAIN Counter!Forms ELSE Any(DOMAIN Counter!Forms)
    /\ kind \in IF scene \in {"editor", "removal"} THEN {"product", "service"} ELSE {"product"}
    /\ Screen!Init /\ Visit!AccessInit /\ Counter!DeskInit /\ Editor!EditorInit /\ Removal!CatalogueInit

Next ==
    /\ UNCHANGED scene
    /\ \/ scene = "screen" /\ Screen!Next /\ UNCHANGED <<visit, counter, kind, item, rows>>
       \/ scene = "visit" /\ Visit!AccessNext /\ UNCHANGED <<screen, counter, kind, item, rows>>
       \/ scene = "counter" /\ Counter!DeskNext /\ UNCHANGED <<screen, visit, kind, item, rows>>
       \/ scene = "editor" /\ Editor!EditorNext /\ UNCHANGED <<screen, visit, counter, rows>>
       \/ scene = "removal" /\ Removal!CatalogueNext /\ UNCHANGED <<screen, visit, counter, item>>

\* The server answers, and the interval of a polled view runs.
Fairness == WF_screen(Screen!Poll) /\ WF_screen(Screen!Read) /\ WF_screen(Screen!Arrive)

Spec == Init /\ [][Next]_vars /\ Fairness

-----------------------------------------------------------------------------
\* Who makes a change sees it (ViewCache).
OwnChangesShown == Screen!OwnChangesShown

\* A station notices what others do to the till (ViewCache).
StationNotices == Screen!StationNotices

\* Pages ask for and offer what the server admits (Access).
NothingAskedInVain == Visit!NothingAskedInVain

\* An input makes one entry, for the row it was typed for (Desk).
EnteredAsMeant == Counter!EnteredAsMeant

\* A product or service saved is what was typed into its page (ItemEditor).
SavedAsTyped == Editor!SavedAsTyped

\* Nothing that was traded loses its variant, and no product its last one (Catalogue).
RemovedUnusedOnly == Removal!RemovedUnusedOnly
=============================================================================
