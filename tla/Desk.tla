-------------------------------- MODULE Desk --------------------------------
(***************************************************************************)
(* Someone at a desk filling in a form: dialogs opened, closed and opened  *)
(* again for another row while a request is under way, buttons disabled    *)
(* while it is (but not always the Enter key), answers that come after the *)
(* dialog was closed or its row went, failures and answers that are lost,  *)
(* the page left and come back to.  One form of the table is watched,      *)
(* whichever it is.  An input stands for what the user means to enter      *)
(* once: typing anew is a new input.                                       *)
(***************************************************************************)
EXTENDS Integers, Forms

CONSTANTS DeskRows,      \* the rows of a page
          MaxInputs,     \* bound: things to enter
          MaxSends,      \* bound: requests sent
          MaxSetbacks    \* bound: refusals and lost answers

NoRow == 0
NoInput == 0
Closed == -1

VARIABLES form,      \* the form
          open,      \* the row its dialog is open for, NoRow if it needs none, or Closed
          fields,    \* [input, row]: what the fields hold, and the row they were filled in for
          inputs,    \* inputs typed so far
          sends,     \* the requests
          setbacks

deskVars == <<form, open, fields, inputs, sends, setbacks>>

Empty == [input |-> NoInput, row |-> NoRow]
Unsent == [stage |-> "none", input |-> NoInput, meant |-> NoRow, row |-> NoRow, at |-> "gone"]

RowsOf(f) == IF Forms[f].rows THEN DeskRows ELSE {NoRow}

DeskInit ==
    /\ form \in DOMAIN Forms
    /\ open = Closed
    /\ fields = Empty
    /\ inputs = 0
    /\ sends = [s \in 1..MaxSends |-> Unsent]
    /\ setbacks = 0

\* Whom an answer finds ("at"): the "form" that awaits it; or only its "page", for the form
\* was put up anew since; or it is "gone", or nothing is awaited.  While the form awaits one
\* its button is disabled.
Pending == \E s \in DOMAIN sends : sends[s].at = "form" /\ sends[s].stage \in {"sent", "applied", "repeated"}

Setback == setbacks < MaxSetbacks /\ setbacks' = setbacks + 1

-----------------------------------------------------------------------------
\* Mutant: the fields are left as they were.
OpenAsLeft(r) ==
    /\ open = Closed
    /\ open' = r
    /\ UNCHANGED <<form, fields, inputs, sends, setbacks>>

\* The dialog opens, whatever is under way, and its effect fills in or empties the fields.
Open(r) ==
    /\ open = Closed
    /\ open' = r
    /\ fields' = IF Forms[form].fields \in {"opened", "bare"} THEN [Empty EXCEPT !.row = r] ELSE fields
    /\ UNCHANGED <<form, inputs, sends, setbacks>>

\* The user types, or makes up their mind to confirm.
Type ==
    /\ open # Closed
    /\ inputs < MaxInputs
    /\ inputs' = inputs + 1
    /\ fields' = [input |-> inputs + 1, row |-> open]
    /\ UNCHANGED <<form, open, sends, setbacks>>

\* Escape, the backdrop or the cross: also while a request is under way.
Close ==
    /\ open # Closed /\ Forms[form].fields # "page"
    /\ open' = Closed
    /\ fields' = IF Forms[form].fields = "manager" THEN Empty ELSE fields
    /\ UNCHANGED <<form, inputs, sends, setbacks>>

\* The view the form follows shows another row: the till's session was closed elsewhere
\* and the next one opened between two polls.
Switch ==
    /\ Forms[form].follows /\ open # Closed
    /\ \E r \in RowsOf(form) \ {open} : open' = r
    /\ UNCHANGED <<form, fields, inputs, sends, setbacks>>

\* The view shows no row for a while: the dialog is taken down with its fields, and put up
\* again for the next row, open if it was.  A request goes on, and will find the page.
Vanish ==
    /\ Forms[form].follows
    /\ IF open = Closed THEN UNCHANGED open ELSE open' \in RowsOf(form)
    /\ fields' = Empty
    /\ sends' = [s \in DOMAIN sends |-> [sends[s] EXCEPT !.at = IF @ = "form" THEN "page" ELSE @]]
    /\ UNCHANGED <<form, inputs, setbacks>>

\* The page is left and come back to: its state is gone, a request goes on.
Leave ==
    /\ open' = Closed
    /\ fields' = Empty
    /\ sends' = [s \in DOMAIN sends |-> [sends[s] EXCEPT !.at = "gone"]]
    /\ UNCHANGED <<form, inputs, setbacks>>

\* The form is sent, for the row the dialog is open for.
Submit(s) ==
    /\ open # Closed /\ fields.input # NoInput
    /\ Pending => Forms[form].eager
    /\ sends[s] = Unsent /\ \A t \in 1..(s - 1) : sends[t] # Unsent
    /\ sends' = [sends EXCEPT ![s] = [stage |-> "sent", input |-> fields.input, meant |-> fields.row,
                                      row |-> open, at |-> "form"]]
    /\ UNCHANGED <<form, open, fields, inputs, setbacks>>

\* The server makes the entry, or finds it made for this row.
Apply(s) ==
    /\ sends[s].stage = "sent"
    /\ LET made == \E t \in DOMAIN sends \ {s} :
                       /\ sends[t].input = sends[s].input /\ sends[t].row = sends[s].row
                       /\ sends[t].stage \in {"applied", "answered", "unheard"}
       IN  sends' = [sends EXCEPT ![s].stage =
                        CASE ~made \/ Forms[form].repeat = "again"  -> "applied"
                          [] made /\ Forms[form].repeat = "same"    -> "repeated"
                          [] made /\ Forms[form].repeat = "refused" -> "failed"]
    /\ UNCHANGED <<form, open, fields, inputs, setbacks>>

\* The server refuses, and says so: the dialog stays with what was typed.
Refuse(s) ==
    /\ sends[s].stage = "sent"
    /\ Setback
    /\ sends' = [sends EXCEPT ![s].stage = "failed"]
    /\ UNCHANGED <<form, open, fields, inputs>>

\* The answer comes: if the page is still there the dialog closes, whichever row it is open
\* for by now, and if the form is, it is emptied, unless it leaves that to its going.
Answer(s) ==
    /\ sends[s].stage = "applied" \/ (sends[s].stage = "repeated" /\ sends[s].at # "gone")
    /\ sends' = [sends EXCEPT ![s].stage = IF @ = "applied" THEN "answered" ELSE @, ![s].at = "gone"]
    /\ open' = IF sends[s].at = "gone" \/ Forms[form].fields \in {"manager", "page"} THEN open ELSE Closed
    /\ fields' = IF sends[s].at = "form" /\ Forms[form].fields \in {"kept", "manager", "page"}
                 THEN Empty ELSE fields
    /\ UNCHANGED <<form, inputs, setbacks>>

\* The answer is lost: an error is shown for what was done, and what was typed stays.
LoseAnswer(s) ==
    /\ sends[s].stage = "applied"
    /\ Setback
    /\ sends' = [sends EXCEPT ![s].stage = "unheard"]
    /\ UNCHANGED <<form, open, fields, inputs>>

DeskNext ==
    \/ \E r \in RowsOf(form) : Open(r)
    \/ Type \/ Close \/ Switch \/ Vanish \/ Leave
    \/ \E s \in DOMAIN sends : Submit(s) \/ Apply(s) \/ Refuse(s) \/ Answer(s) \/ LoseAnswer(s)

-----------------------------------------------------------------------------
Made(s) == sends[s].stage \in {"applied", "answered", "unheard"}

\* What is entered is what was meant: an input makes an entry once, and for the row it
\* was typed for, however dialogs were closed, reopened and answered late, and however
\* often Enter is pressed meanwhile.  An input whose answer was lost may be sent again, and
\* a form that follows a view may find another row under what was typed, or under what was
\* entered for the row before.
EnteredAsMeant ==
    /\ \A s \in DOMAIN sends : Made(s) => sends[s].row = sends[s].meant \/ Forms[form].follows
    /\ \A s, t \in DOMAIN sends :
           s # t /\ Made(s) /\ Made(t) /\ sends[s].input = sends[t].input
               => \/ "unheard" \in {sends[s].stage, sends[t].stage}
                  \/ Forms[form].follows /\ sends[s].row # sends[t].row

-----------------------------------------------------------------------------
\* What the code does not keep.  The count of the session that was closed stays in the
\* dialog until the view shows no session: if another station has opened the next one by
\* then, it is there to be entered for that one too (CashPage.tsx:405-430).
EnteredOnce ==
    \A s, t \in DOMAIN sends :
        s # t /\ Made(s) /\ Made(t) /\ sends[s].input = sends[t].input
            => "unheard" \in {sends[s].stage, sends[t].stage}

\* An answer that comes late closes the dialog reopened meanwhile, and empties fields that
\* outlive it, so what was typed since is lost.
NothingTypedLost ==
    [][\A s \in DOMAIN sends : Answer(s) => fields.input \in {NoInput, sends[s].input}]_deskVars
=============================================================================
