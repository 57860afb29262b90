--------------------------- MODULE FrontEndProofs ---------------------------
(***************************************************************************)
(* Proofs about a station's pages (FrontEnd: ViewCache, Desk, ItemEditor,  *)
(* Catalogue) and about a sale at its counter (Checkout), for any number of *)
(* rows, variants, inputs, submissions, prices and mishaps.                *)
(***************************************************************************)
EXTENDS FrontEnd, Checkout, FiniteSetTheorems, SumsProofs, TLAPS

(* What is traded and what is removed (Catalogue). *)

\* A removal of a variant that is under way.
OneUnderWay(r) == removal[r].at \in {"counted", "checked"}

RemovalStates == [at : {"waiting", "counted", "checked", "checkedAll", "ended"}, of : Removal!Parts]

RemovalTypeOK ==
    /\ kind \in {"product", "service"}
    /\ stage \in [Removal!Parts -> {"active", "inactive", "gone"}]
    /\ used \subseteq Variants /\ overlapped \in BOOLEAN
    /\ removal \in [Removers -> RemovalStates]
    /\ \A r \in Removers : removal[r].of = 0 <=> ~OneUnderWay(r)

\* What was traded since it was looked for is late; until two removals overlap, at most one
\* variant is being removed, and it is not the last.
RemovalInv ==
    /\ RemovalTypeOK
    /\ \A r \in Removers : removal[r].at = "checked" /\ removal[r].of \in used => removal[r].of \in lateUse
    /\ \A r \in Removers : removal[r].at = "checkedAll" => used \subseteq lateUse
    /\ \A r, s \in Removers : r # s /\ OneUnderWay(r) /\ OneUnderWay(s) => overlapped
    /\ \A r \in Removers : OneUnderWay(r) /\ 0 \in Removal!Exists
           => Removal!Left \ {removal[r].of} # {} \/ overlapped
    /\ Removal!RemovedUnusedOnly

\* What is assumed of the variants.
LEMMA SomeVariants == Variants # {} /\ 0 \notin Variants
  BY FrontEndAssumption DEF FrontEndAssumption

\* Nothing is traded and nobody removes anything yet.
LEMMA RemovalInit == Removal!CatalogueInit => RemovalInv
<1> SUFFICES ASSUME Removal!CatalogueInit PROVE RemovalInv
  OBVIOUS
<1> USE SomeVariants
<1>1. Removal!Exists = Removal!Parts /\ Removal!Left = Variants
  BY DEF Removal!CatalogueInit, Removal!Exists, Removal!Left, Removal!Parts
<1>2. \A r \in Removers : removal[r] = [at |-> "waiting", of |-> 0]
  BY DEF Removal!CatalogueInit, Removal!Waiting
<1>3. RemovalTypeOK
  BY <1>2 DEF Removal!CatalogueInit, Removal!Waiting, RemovalTypeOK, RemovalStates,
       OneUnderWay, Removal!Parts
<1>4. Removal!RemovedUnusedOnly
  BY <1>1 DEF Removal!CatalogueInit, Removal!RemovedUnusedOnly, Removal!Parts
<1> QED BY <1>2, <1>3, <1>4 DEF RemovalInv, OneUnderWay

\* Switching a part on or off removes none.
LEMMA RemovalSetStatus ==
  ASSUME RemovalInv, NEW p \in Removal!Parts, Removal!SetStatus(p)
  PROVE  RemovalInv'
<1> USE SomeVariants
<1>1. Removal!Exists' = Removal!Exists /\ Removal!Left' = Removal!Left
  BY DEF RemovalInv, RemovalTypeOK, RemovalStates, Removal!SetStatus, Removal!Exists,
       Removal!Left
<1>2. RemovalTypeOK'
  BY DEF RemovalInv, RemovalTypeOK, RemovalStates, Removal!SetStatus, Removal!Exists,
       OneUnderWay
<1>3. Removal!RemovedUnusedOnly'
  BY <1>1 DEF RemovalInv, RemovalTypeOK, RemovalStates, Removal!SetStatus,
       Removal!Exists, Removal!RemovedUnusedOnly, Removal!Parts
<1> QED BY <1>1, <1>2, <1>3 DEF RemovalInv, Removal!SetStatus, OneUnderWay

\* What is traded under a removal that had looked is late.
LEMMA RemovalUse ==
  ASSUME RemovalInv, NEW p \in Removal!Parts, Removal!Use(p)
  PROVE  RemovalInv'
<1> USE SomeVariants
<1>1. Removal!Exists' = Removal!Exists /\ Removal!Left' = Removal!Left
  BY DEF Removal!Use, Removal!Exists, Removal!Left
<1>2. RemovalTypeOK'
  BY DEF RemovalInv, RemovalTypeOK, RemovalStates, Removal!Use, Removal!Left,
       Removal!Exists, Removal!Parts, OneUnderWay
<1>3. stage[p] # "gone" /\ \A r \in Removers : removal[r].at = "checkedAll" \/ removal[r] = [at |-> "checked", of |-> p]
          => p \in lateUse'
  BY DEF Removal!Use, Removal!LookedAt
<1>4. Removal!RemovedUnusedOnly'
  BY <1>1, <1>3 DEF RemovalInv, RemovalTypeOK, RemovalStates, Removal!Use,
       Removal!RemovedUnusedOnly
<1>5. \A r \in Removers : removal[r].at = "checked" /\ removal[r].of = p => removal[r] = [at |-> "checked", of |-> p]
  BY DEF RemovalInv, RemovalTypeOK, RemovalStates
<1> QED BY <1>1, <1>2, <1>3, <1>4, <1>5 DEF RemovalInv, Removal!Use, OneUnderWay

\* Catalogue counts with its own instance of FiniteSets.
LEMMA CountedAlike == ASSUME NEW S PROVE Removal!Cardinality(S) = Cardinality(S)
  BY DEF Removal!Cardinality, Cardinality

\* A removal that begins finds another variant left, or overlaps.
LEMMA RemovalCount ==
  ASSUME RemovalInv, NEW r \in Removers, NEW p \in Removal!Parts, Removal!Count(r, p)
  PROVE  RemovalInv'
<1> USE SomeVariants
<1>0. /\ removal[r] = Removal!Waiting /\ p \in Removal!Left
      /\ IF Cardinality(Removal!Left) <= 1 THEN Removal!Ends(r) ELSE Removal!Goes(r, "counted", p)
  BY CountedAlike, Zenon DEF Removal!Count
<1>9. /\ overlapped => overlapped'
      /\ \A s \in Removers \ {r} : Removal!UnderWay(s) => overlapped'
  BY Zenon DEF Removal!Count
<1>1. Removal!Exists' = Removal!Exists /\ Removal!Left' = Removal!Left /\ UNCHANGED <<kind, stage, used, lateUse>>
  BY DEF Removal!Count, Removal!Exists, Removal!Left
<1>2. p \in Removal!Left /\ p \in Variants
  BY <1>0 DEF Removal!Left, Removal!Exists, Removal!Parts
<1>3. Cardinality(Removal!Left) <= 1 \/ Removal!Left \ {p} # {}
  <2>1. Removal!Left \ {p} = {} => Removal!Left = {p}
    BY <1>2
  <2>2. Cardinality({p}) = 1
    BY FS_Singleton
  <2> QED BY <2>1, <2>2
<1>4. \/ removal' = [removal EXCEPT ![r] = [at |-> "ended", of |-> 0]]
      \/ removal' = [removal EXCEPT ![r] = [at |-> "counted", of |-> p]] /\ Removal!Left \ {p} # {}
  BY <1>0, <1>3 DEF Removal!Ends, Removal!Ended, Removal!Goes
<1>5. RemovalTypeOK'
  <2>1. /\ kind' \in {"product", "service"} /\ stage' \in [Removal!Parts -> {"active", "inactive", "gone"}]
        /\ used' \subseteq Variants /\ overlapped' \in BOOLEAN
    <3>1. overlapped' \in BOOLEAN
      BY Zenon DEF Removal!Count
    <3>2. RemovalTypeOK
      BY DEF RemovalInv
    <3> QED BY <1>1, <3>1, <3>2 DEF RemovalTypeOK
  <2>2. removal' \in [Removers -> RemovalStates]
    <3>1. [at |-> "ended", of |-> 0] \in RemovalStates /\ [at |-> "counted", of |-> p] \in RemovalStates
      BY DEF RemovalStates, Removal!Parts
    <3>2. removal \in [Removers -> RemovalStates]
      BY DEF RemovalInv, RemovalTypeOK
    <3> QED BY <1>4, <3>1, <3>2
  <2>3. \A s \in Removers : (removal'[s].of = 0 <=> ~OneUnderWay(s)')
    BY <1>2, <1>4 DEF RemovalInv, RemovalTypeOK, RemovalStates, OneUnderWay
  <2> QED BY <2>1, <2>2, <2>3 DEF RemovalTypeOK, RemovalStates, OneUnderWay
<1>6. \A s \in Removers \ {r} : OneUnderWay(s) => overlapped'
  BY <1>9 DEF Removal!UnderWay, OneUnderWay, Removal!Waiting, Removal!Ended
<1>8. Removal!RemovedUnusedOnly'
  BY <1>1, <1>9 DEF RemovalInv, Removal!RemovedUnusedOnly
<1> QED BY <1>1, <1>4, <1>5, <1>6, <1>8, <1>9 DEF RemovalInv, RemovalTypeOK,
     RemovalStates, OneUnderWay

\* What the look finds ends the removal.
LEMMA RemovalCheck ==
  ASSUME RemovalInv, NEW r \in Removers, Removal!CheckHistory(r) \/ Removal!CheckAll(r)
  PROVE  RemovalInv'
<1> USE SomeVariants
<1>1. Removal!Exists' = Removal!Exists /\ Removal!Left' = Removal!Left
      /\ UNCHANGED <<kind, stage, used, lateUse, overlapped>>
  BY DEF Removal!CheckHistory, Removal!CheckAll, Removal!Exists, Removal!Left
<1>2. \/ removal' = [removal EXCEPT ![r] = [at |-> "ended", of |-> 0]]
      \/ /\ removal[r].at = "counted" /\ removal[r].of \notin used
         /\ removal' = [removal EXCEPT ![r] = [at |-> "checked", of |-> removal[r].of]]
      \/ used = {} /\ removal' = [removal EXCEPT ![r] = [at |-> "checkedAll", of |-> 0]]
  BY DEF Removal!CheckHistory, Removal!CheckAll, Removal!Ends, Removal!Ended,
       Removal!Goes
<1>3. RemovalTypeOK'
  BY <1>1, <1>2 DEF RemovalInv, RemovalTypeOK, RemovalStates, Removal!Parts,
       OneUnderWay
<1>4. Removal!RemovedUnusedOnly'
  BY <1>1 DEF RemovalInv, Removal!RemovedUnusedOnly
<1>5. \A s \in Removers : OneUnderWay(s)' => OneUnderWay(s) /\ removal'[s].of = removal[s].of
  BY <1>2 DEF RemovalInv, RemovalTypeOK, RemovalStates, OneUnderWay
<1>6. \A s \in Removers : (removal'[s].at = "checked" => removal'[s] = removal[s] \/ removal'[s].of \notin used)
                           /\ (removal'[s].at = "checkedAll" => removal'[s] = removal[s] \/ used = {})
  BY <1>2 DEF RemovalInv, RemovalTypeOK
<1> QED BY <1>1, <1>3, <1>4, <1>5, <1>6 DEF RemovalInv

\* What is deleted was found untraded, and leaves a variant unless another is being removed.
LEMMA RemovalDelete ==
  ASSUME RemovalInv, NEW r \in Removers, Removal!Delete(r)
  PROVE  RemovalInv'
<1> USE SomeVariants
<1>1. /\ removal' = [removal EXCEPT ![r] = [at |-> "ended", of |-> 0]]
      /\ UNCHANGED <<kind, used, lateUse, overlapped>>
  BY DEF Removal!Delete, Removal!Ends, Removal!Ended
<1>2. stage' \in [Removal!Parts -> {"active", "inactive", "gone"}]
  BY DEF Removal!Delete, RemovalInv, RemovalTypeOK
<1>3. RemovalTypeOK'
  BY <1>1, <1>2 DEF RemovalInv, RemovalTypeOK, RemovalStates, Removal!Parts,
       OneUnderWay
<1>4. CASE stage' = stage
  <2>1. Removal!Exists' = Removal!Exists /\ Removal!Left' = Removal!Left
    BY <1>4 DEF Removal!Exists, Removal!Left
  <2>2. Removal!RemovedUnusedOnly'
    BY <1>1, <1>4, <2>1 DEF RemovalInv, Removal!RemovedUnusedOnly
  <2> QED BY <1>1, <1>3, <2>1, <2>2 DEF RemovalInv, RemovalTypeOK, RemovalStates,
       OneUnderWay
<1>5. CASE stage' # stage
  <2> DEFINE doomed == Removal!Doomed(r)
  <2>1. /\ removal[r].at \in {"checked", "checkedAll"} /\ removal[r].of \in Removal!Exists
        /\ kind = "service" \/ doomed \intersect used = {}
        /\ stage' = [p \in Removal!Parts |-> IF p \in doomed THEN "gone" ELSE stage[p]]
    BY <1>5 DEF Removal!Delete, Removal!MayGo
  <2>2. \A p \in used : p \in doomed => kind = "service" /\ p \in lateUse
    BY <2>1 DEF RemovalInv, Removal!Doomed
  <2>3. Removal!Exists' = Removal!Exists \ doomed /\ Removal!Left' = Removal!Left \ doomed
    BY <2>1 DEF Removal!Exists, Removal!Left
  <2>4. CASE removal[r].at = "checkedAll"
    <3>1. Removal!Exists' = {} /\ Removal!Left' = {}
      BY <2>3, <2>4 DEF Removal!Doomed, Removal!Left
    <3>2. Removal!RemovedUnusedOnly'
      BY <1>1, <2>1, <2>2, <3>1 DEF RemovalInv, RemovalTypeOK, RemovalStates,
           Removal!RemovedUnusedOnly, Removal!Parts
    <3> QED BY <1>1, <1>3, <3>1, <3>2 DEF RemovalInv, RemovalTypeOK, RemovalStates,
         OneUnderWay
  <2>5. CASE removal[r].at = "checked"
    <3>1. doomed = {removal[r].of} /\ removal[r].of # 0 /\ OneUnderWay(r)
      BY <2>5 DEF Removal!Doomed, RemovalInv, RemovalTypeOK, RemovalStates,
           OneUnderWay
    <3>2. (0 \in Removal!Exists)' <=> 0 \in Removal!Exists
      BY <2>3, <3>1
    <3>3. (0 \in Removal!Exists)' => Removal!Left' # {} \/ overlapped'
      BY <1>1, <2>3, <3>1, <3>2 DEF RemovalInv
    <3>4. Removal!RemovedUnusedOnly'
      BY <1>1, <2>1, <2>2, <2>3, <3>2, <3>3 DEF RemovalInv, RemovalTypeOK,
           RemovalStates, Removal!RemovedUnusedOnly, Removal!Parts
    <3>5. \A s \in Removers : OneUnderWay(s)' => overlapped'
      BY <1>1, <3>1 DEF RemovalInv, RemovalTypeOK, RemovalStates, OneUnderWay
    <3> QED BY <1>1, <1>3, <3>4, <3>5 DEF RemovalInv, RemovalTypeOK, RemovalStates,
         OneUnderWay
  <2> QED BY <2>1, <2>4, <2>5
<1> QED BY <1>4, <1>5

\* Every step of a catalogue keeps the invariant.
LEMMA RemovalNext == RemovalInv /\ Removal!CatalogueNext => RemovalInv'
  BY RemovalSetStatus, RemovalUse, RemovalCount, RemovalCheck, RemovalDelete
       DEF Removal!CatalogueNext

\* ... and so does every step of another part.
LEMMA RemovalRests == RemovalInv /\ UNCHANGED <<kind, rows>> => RemovalInv'
  BY DEF RemovalInv, RemovalTypeOK, RemovalStates, OneUnderWay, rows,
       Removal!RemovedUnusedOnly, Removal!Exists, Removal!Left

-----------------------------------------------------------------------------
(* Inputs and entries (Desk). *)

\* A form that waits for its answer, and does not keep what it has entered.
Careful(f) == ~f.eager /\ f.fields # "mounted"

\* A form of the table: what its row says is one of the things that can be said, and what is
\* typed for a row of a page does not outlive the dialog, unless the form follows a view.  One
\* that is not careful is for entries the server makes once.
GoodForm(f) ==
    /\ f.fields \in {"opened", "kept", "mounted", "manager", "bare", "page"}
    /\ f.repeat \in {"same", "refused", "again"}
    /\ f.rows \in BOOLEAN /\ f.follows \in BOOLEAN /\ f.eager \in BOOLEAN
    /\ f.rows /\ ~f.follows => f.fields \in {"opened", "bare", "page"}
    /\ ~Careful(f) => f.repeat = "refused"

\* Every form of the table is a good one.
LEMMA FormsGood == \A f \in DOMAIN Counter!Forms : GoodForm(Counter!Forms[f])
<1>1. ASSUME NEW on, NEW when, NEW asked, NEW asks,
             NEW lives \in {"opened", "kept", "manager", "bare", "page"},
             NEW twice \in {"same", "refused", "again"}
      PROVE  /\ GoodForm(Counter!Form(on, when, asked, asks, lives, twice))
             /\ GoodForm(Counter!Following(Counter!Form(on, when, asked, asks, lives, twice)))
             /\ GoodForm(Counter!Following(Counter!Form(on, when, asked, asks, "mounted", "refused")))
             /\ GoodForm(Counter!Eager(Counter!Form(on, when, asked, asks, lives, "refused")))
  BY DEF GoodForm, Careful, Counter!Form, Counter!Following, Counter!Eager
<1>2. ASSUME NEW on, NEW when, NEW asked, NEW asks,
             NEW lives \in {"opened", "bare", "page"}, NEW twice \in {"same", "refused", "again"}
      PROVE  GoodForm(Counter!RowForm(on, when, asked, asks, lives, twice))
  BY DEF GoodForm, Careful, Counter!Form, Counter!RowForm
<1> QED
  BY SMTT(60), <1>1, <1>2 DEF Counter!Forms, Counter!OpenSessionModal,
       Counter!CloseSessionModal, Counter!MovementModal, Counter!MoveMoneyModal,
       Counter!OpeningBalanceModal, Counter!CorrectionModal, Counter!HeldCashModal,
       Counter!HandOpeningBalanceModal, Counter!HandCorrectionModal,
       Counter!IssueLoanModal, Counter!RepayModal, Counter!ExpenseFormModal,
       Counter!EditExpenseModal, Counter!DeleteExpenseDialog,
       Counter!ExpenseCategoryManagerModal, Counter!CreateOfficePurchaseModal,
       Counter!PayOfficePurchaseModal, Counter!SalaryFormModal,
       Counter!EditSalaryModal, Counter!DeleteSalaryDialog, Counter!AdjustStockModal,
       Counter!OpeningStockForm, Counter!WastageModal, Counter!CheckoutForm,
       Counter!ReturnModal, Counter!VoidModal, Counter!CreatePurchaseForm,
       Counter!UndoModal, Counter!ManageUnitsModal, Counter!CustomerFormModal,
       Counter!EditCustomerModal, Counter!CustomerPaymentForm,
       Counter!SupplierFormModal, Counter!EditSupplierModal,
       Counter!SupplierPaymentForm, Counter!CategoryManagerModal, Counter!NewCategoryField, Counter!ProductForm,
       Counter!ProductDialogs, Counter!ServiceForm, Counter!ServiceDialogs,
       Counter!UserFormModal, Counter!EditUserModal, Counter!PasswordModal,
       Counter!UserDialogs, Counter!BusinessTab, Counter!OpeningStockSection,
       Counter!AutoBackupSection, Counter!StartupSection, Counter!BackupRestoreSection

TheForm == Counter!Forms[form]

SendStages == {"none", "sent", "applied", "repeated", "answered", "failed", "unheard"}
DeskSends == [stage : SendStages, input : Nat, meant : Int, row : Int, at : {"form", "page", "gone"}]

DeskTypeOK ==
    /\ form \in DOMAIN Counter!Forms
    /\ open \in Counter!RowsOf(form) \union {Counter!Closed}
    /\ inputs \in Nat
    /\ fields \in [input : Nat, row : Counter!RowsOf(form) \union {Counter!NoRow}] /\ fields.input <= inputs
    /\ sends \in [1..MaxSends -> DeskSends]
    /\ \A s \in 1..MaxSends : sends[s].input <= inputs
    /\ \A s \in 1..MaxSends : sends[s].stage # "none" => sends[s].input # Counter!NoInput
    /\ \A s \in 1..MaxSends : sends[s].stage \in {"none", "answered"} => sends[s].at = "gone"

\* The stages of a request whose input the form must not send again.
Standing(s) == sends[s].stage \in {"sent", "applied", "repeated", "answered"}

Over(s) == sends[s].stage \in {"failed", "unheard"}

\* The fields hold nothing, or something typed for the row the dialog is open for.
FieldsOfRow ==
    /\ open # Counter!Closed /\ ~TheForm.follows /\ fields.input # Counter!NoInput => fields.row = open
    /\ open = Counter!Closed /\ TheForm.fields = "page" => fields.input = Counter!NoInput

\* What was sent and stands is not in the fields of an open dialog, unless its answer is awaited.
SentIsGone ==
    \A s \in 1..MaxSends :
        Standing(s) /\ sends[s].at # "form" /\ sends[s].input = fields.input
            => open = Counter!Closed /\ TheForm.fields \in {"opened", "bare"}

\* One answer is awaited at a time.
OneAwaited ==
    \A s, t \in 1..MaxSends : sends[s].at = "form" /\ sends[t].at = "form" /\ Standing(s) /\ Standing(t) => s = t

\* ... so no input is sent again that was not refused or unheard of.
SentOnce ==
    \A s, t \in 1..MaxSends :
        s # t /\ sends[s].stage # "none" /\ sends[t].stage # "none" /\ sends[s].input = sends[t].input
            => Over(s) \/ Over(t)

\* An input has one row it was typed for.
OneRow ==
    /\ \A s \in 1..MaxSends :
           sends[s].stage # "none" /\ sends[s].input = fields.input => sends[s].meant = fields.row
    /\ \A s, t \in 1..MaxSends :
           sends[s].stage # "none" /\ sends[t].stage # "none" /\ sends[s].input = sends[t].input
               => sends[s].meant = sends[t].meant

\* What the server makes once, it makes once for a row.
MadeOnce ==
    \A s, t \in 1..MaxSends :
        s # t /\ Counter!Made(s) /\ Counter!Made(t) /\ sends[s].input = sends[t].input
            => sends[s].row # sends[t].row

DeskInv ==
    /\ DeskTypeOK /\ FieldsOfRow /\ OneRow
    /\ Careful(TheForm) => SentIsGone /\ OneAwaited /\ SentOnce
    /\ TheForm.repeat = "refused" => MadeOnce
    /\ \A s \in 1..MaxSends : sends[s].stage # "none" => sends[s].row = sends[s].meant \/ TheForm.follows

\* The invariant is what makes the entries right.
LEMMA DeskEnters == DeskInv => Counter!EnteredAsMeant
<1> SUFFICES ASSUME DeskInv PROVE Counter!EnteredAsMeant
  OBVIOUS
<1>0. DOMAIN sends = 1..MaxSends /\ GoodForm(TheForm)
  BY FormsGood DEF DeskInv, DeskTypeOK, TheForm
<1>1. ASSUME NEW s \in 1..MaxSends, Counter!Made(s)
      PROVE  sends[s].stage # "none" /\ (sends[s].row = sends[s].meant \/ TheForm.follows)
  BY <1>1 DEF DeskInv, Counter!Made
<1>2. ASSUME NEW s \in 1..MaxSends, NEW t \in 1..MaxSends, s # t, Counter!Made(s), Counter!Made(t),
             sends[s].input = sends[t].input
      PROVE  \/ "unheard" \in {sends[s].stage, sends[t].stage}
             \/ TheForm.follows /\ sends[s].row # sends[t].row
  <2>1. CASE Careful(TheForm)
    BY <1>1, <1>2, <2>1 DEF DeskInv, SentOnce, Over, Counter!Made
  <2>2. CASE ~Careful(TheForm)
    <3>1. sends[s].row # sends[t].row
      BY <1>0, <1>2, <2>2 DEF DeskInv, GoodForm, MadeOnce
    <3>2. sends[s].meant = sends[t].meant
      BY <1>1, <1>2 DEF DeskInv, OneRow
    <3> QED BY <1>1, <1>2, <3>1, <3>2
  <2> QED BY <2>1, <2>2
<1> QED BY <1>0, <1>1, <1>2 DEF Counter!EnteredAsMeant, TheForm

\* Nothing is open, typed or sent yet.
LEMMA DeskInit == Counter!DeskInit => DeskInv
<1> SUFFICES ASSUME Counter!DeskInit PROVE DeskInv
  OBVIOUS
<1> USE DEF Counter!DeskInit, Counter!Empty, Counter!Unsent, Counter!NoInput,
     Counter!NoRow, Counter!Closed
<1>1. \A s \in 1..MaxSends : sends[s].stage = "none" /\ sends[s].at = "gone" /\ sends[s].input = 0
  OBVIOUS
<1>2. DeskTypeOK
  BY DEF DeskTypeOK, DeskSends, SendStages
<1> QED BY <1>1, <1>2 DEF DeskInv, FieldsOfRow, SentIsGone, OneAwaited, SentOnce, OneRow,
          MadeOnce, Counter!Made, Standing

\* The rows of a form are numbers.
LEMMA RowsAreNumbers == \A f : Counter!RowsOf(f) \subseteq Nat
  BY FrontEndAssumption DEF FrontEndAssumption, Counter!RowsOf, Counter!NoRow

\* The form that is watched is a good one.
LEMMA TheFormGood == DeskInv => GoodForm(TheForm)
  BY FormsGood DEF DeskInv, DeskTypeOK, TheForm

\* Steps of the dialog, which send nothing and leave what was sent alone.
LEMMA DeskDialog ==
  ASSUME DeskInv, UNCHANGED <<form, sends>>, DeskTypeOK', FieldsOfRow',
         Careful(TheForm) => SentIsGone',
         \/ fields'.input = fields.input /\ fields'.row = fields.row
         \/ fields'.input = Counter!NoInput
         \/ fields'.input > inputs
  PROVE  DeskInv'
<1>1. TheForm' = TheForm
  BY DEF TheForm
<1>2. \A s \in 1..MaxSends : sends[s].stage # "none" => sends[s].input # Counter!NoInput /\ sends[s].input \in Nat
                                                        /\ sends[s].input <= inputs
  BY DEF DeskInv, DeskTypeOK, DeskSends
<1>3. inputs \in Nat
  BY DEF DeskInv, DeskTypeOK
<1>4. OneRow'
  BY <1>2, <1>3 DEF DeskInv, OneRow
<1> QED BY <1>1, <1>4 DEF DeskInv, OneAwaited, SentOnce, MadeOnce, Counter!Made, Standing, Over

\* A dialog opens for a row.
LEMMA DeskOpen ==
  ASSUME DeskInv, NEW r \in Counter!RowsOf(form), Counter!Open(r)
  PROVE  DeskInv'
<1> USE RowsAreNumbers, TheFormGood DEF Counter!Open, Counter!Empty, Counter!NoInput,
     Counter!NoRow, Counter!Closed
<1>1. DeskTypeOK'
  BY DEF DeskInv, DeskTypeOK, DeskSends, TheForm
<1>2. TheForm' = TheForm /\ fields' = IF TheForm.fields \in {"opened", "bare"} THEN [input |-> 0, row |-> r] ELSE fields
  BY DEF TheForm
<1>3. TheForm.fields \notin {"opened", "bare"} => TheForm.follows \/ ~TheForm.rows \/ TheForm.fields = "page"
  BY DEF GoodForm
<1>4. ~TheForm.rows => r = 0 /\ fields.row = 0
  BY DEF DeskInv, DeskTypeOK, Counter!RowsOf, TheForm
<1>5. FieldsOfRow'
  BY <1>2, <1>3, <1>4 DEF DeskInv, DeskTypeOK, FieldsOfRow
<1>6. Careful(TheForm) => SentIsGone'
  BY <1>2 DEF DeskInv, DeskTypeOK, SentIsGone, Standing
<1> QED BY <1>1, <1>2, <1>5, <1>6, DeskDialog

\* What is typed is typed for the row that is shown.
LEMMA DeskType ==
  ASSUME DeskInv, Counter!Type
  PROVE  DeskInv'
<1> USE RowsAreNumbers DEF Counter!Type, Counter!NoInput, Counter!NoRow,
     Counter!Closed
<1>1. DeskTypeOK'
  BY DEF DeskInv, DeskTypeOK, DeskSends
<1>2. FieldsOfRow'
  BY DEF DeskInv, DeskTypeOK, FieldsOfRow
<1>3. SentIsGone'
  BY DEF DeskInv, DeskTypeOK, DeskSends, SentIsGone, Standing
<1>4. fields'.input > inputs
  BY DEF DeskInv, DeskTypeOK
<1> QED BY <1>1, <1>2, <1>3, <1>4, DeskDialog

\* A dialog that closes takes its fields along, or keeps them for the next row.
LEMMA DeskClose ==
  ASSUME DeskInv, Counter!Close
  PROVE  DeskInv'
<1> USE RowsAreNumbers DEF Counter!Close, Counter!Empty, Counter!NoInput,
     Counter!NoRow, Counter!Closed
<1>1. fields' = IF TheForm.fields = "manager" THEN [input |-> 0, row |-> 0] ELSE fields
  BY DEF TheForm
<1>2. DeskTypeOK'
  BY <1>1 DEF DeskInv, DeskTypeOK, DeskSends
<1>3. TheForm' = TheForm /\ TheForm.fields # "page"
  BY DEF TheForm
<1>4. FieldsOfRow'
  BY <1>3 DEF DeskInv, FieldsOfRow
<1>5. Careful(TheForm) => SentIsGone'
  BY <1>1, <1>3 DEF DeskInv, DeskTypeOK, DeskSends, SentIsGone, Standing
<1> QED BY <1>1, <1>2, <1>4, <1>5, DeskDialog

\* The row under a form that follows a view changes.
LEMMA DeskSwitch ==
  ASSUME DeskInv, Counter!Switch
  PROVE  DeskInv'
<1> USE RowsAreNumbers DEF Counter!Switch, Counter!NoInput, Counter!Closed
<1>1. DeskTypeOK'
  BY DEF DeskInv, DeskTypeOK, DeskSends
<1>2. TheForm' = TheForm /\ TheForm.follows /\ open' # Counter!Closed
  BY DEF TheForm
<1>3. FieldsOfRow'
  BY <1>2 DEF FieldsOfRow
<1>4. Careful(TheForm) => SentIsGone'
  BY <1>2 DEF DeskInv, SentIsGone, Standing
<1> QED BY <1>1, <1>3, <1>4, DeskDialog

\* The form goes, or the page does, with what was typed and what it awaited.
LEMMA DeskGoes ==
  ASSUME DeskInv, Counter!Vanish \/ Counter!Leave
  PROVE  DeskInv'
<1> USE RowsAreNumbers DEF Counter!Empty, Counter!NoInput, Counter!NoRow, Counter!Closed
<1>1. /\ open' \in Counter!RowsOf(form) \union {-1} /\ (open' = -1 \/ TheForm.follows)
      /\ fields' = [input |-> 0, row |-> 0] /\ UNCHANGED <<form, inputs>>
  BY DEF Counter!Vanish, Counter!Leave, TheForm, DeskInv, DeskTypeOK
<1>2. /\ DOMAIN sends' = 1..MaxSends /\ sends' = [s \in 1..MaxSends |-> sends'[s]]
      /\ \A s \in 1..MaxSends :
            \/ sends'[s] = [sends[s] EXCEPT !.at = "gone"]
            \/ sends[s].at = "form" /\ sends'[s] = [sends[s] EXCEPT !.at = "page"]
            \/ sends[s].at # "form" /\ sends'[s] = sends[s]
  <2>1. CASE Counter!Leave
    BY <2>1 DEF Counter!Leave, DeskInv, DeskTypeOK
  <2>2. CASE Counter!Vanish
    <3>1. sends' = [s \in 1..MaxSends |-> [sends[s] EXCEPT !.at = IF @ = "form" THEN "page" ELSE @]]
      BY <2>2 DEF Counter!Vanish, DeskInv, DeskTypeOK
    <3>2. \A s \in 1..MaxSends : sends[s] = [sends[s] EXCEPT !.at = sends[s].at]
      BY DEF DeskInv, DeskTypeOK, DeskSends
    <3> QED BY <3>1, <3>2
  <2> QED BY <2>1, <2>2
<1>3. ASSUME NEW s \in 1..MaxSends
      PROVE  /\ sends'[s].stage = sends[s].stage /\ sends'[s].input = sends[s].input
             /\ sends'[s].row = sends[s].row /\ sends'[s].meant = sends[s].meant /\ sends'[s].at \in {"page", "gone"}
             /\ sends[s].at = "gone" => sends'[s].at = "gone"
             /\ sends'[s] \in DeskSends
  BY <1>2 DEF DeskInv, DeskTypeOK, DeskSends
<1>4. sends' \in [1..MaxSends -> DeskSends]
  BY <1>2, <1>3
<1>5. DeskTypeOK'
  BY <1>1, <1>3, <1>4 DEF DeskInv, DeskTypeOK
<1>6. TheForm' = TheForm
  BY <1>1 DEF TheForm
<1>7. FieldsOfRow'
  BY <1>1, <1>6 DEF FieldsOfRow
<1>8. SentIsGone' /\ OneAwaited' /\ OneRow'
  BY <1>1, <1>3 DEF DeskInv, DeskTypeOK, SentIsGone, OneAwaited, OneRow, Standing
<1>9. (SentOnce => SentOnce') /\ (MadeOnce => MadeOnce')
  BY <1>3 DEF SentOnce, MadeOnce, Counter!Made, Over
<1>10. \A s \in 1..MaxSends : sends'[s].stage # "none" => sends'[s].row = sends'[s].meant \/ TheForm'.follows
  BY <1>3, <1>6 DEF DeskInv
<1> QED BY <1>5, <1>6, <1>7, <1>8, <1>9, <1>10 DEF DeskInv

\* Steps at the server, and answers that are lost.
LEMMA DeskServed ==
  ASSUME DeskInv, NEW s \in 1..MaxSends, NEW outcome \in {"applied", "repeated", "failed", "unheard"},
         sends[s].stage \in {"sent", "applied"}, sends' = [sends EXCEPT ![s].stage = outcome],
         UNCHANGED <<form, open, fields, inputs>>,
         TheForm.repeat = "refused" => MadeOnce'
  PROVE  DeskInv'
<1>1. \A t \in 1..MaxSends :
          /\ sends'[t].input = sends[t].input /\ sends'[t].at = sends[t].at
          /\ sends'[t].row = sends[t].row /\ sends'[t].meant = sends[t].meant
          /\ sends'[t].stage = IF t = s THEN outcome ELSE sends[t].stage
  BY DEF DeskInv, DeskTypeOK, DeskSends
<1>2. sends' \in [1..MaxSends -> DeskSends]
  BY DEF DeskInv, DeskTypeOK, DeskSends, SendStages
<1>3. DeskTypeOK'
  BY <1>1, <1>2 DEF DeskInv, DeskTypeOK
<1>4. TheForm' = TheForm
  BY DEF TheForm
<1>5. FieldsOfRow'
  BY <1>4 DEF DeskInv, FieldsOfRow
<1>6. (SentIsGone => SentIsGone') /\ (OneAwaited => OneAwaited')
  BY <1>1, <1>4 DEF SentIsGone, OneAwaited, Standing
<1>7. OneRow' /\ (SentOnce => SentOnce')
  BY <1>1 DEF DeskInv, OneRow, SentOnce, Over
<1> QED BY <1>1, <1>3, <1>4, <1>5, <1>6, <1>7 DEF DeskInv

\* A request reaches the server, or its answer is lost.
LEMMA DeskServer ==
  ASSUME DeskInv, NEW s \in DOMAIN sends,
         Counter!Apply(s) \/ Counter!Refuse(s) \/ Counter!LoseAnswer(s)
  PROVE  DeskInv'
<1>1. s \in 1..MaxSends /\ DOMAIN sends = 1..MaxSends
  BY DEF DeskInv, DeskTypeOK
<1>2. CASE Counter!Apply(s)
  <2> DEFINE made == \E t \in DOMAIN sends \ {s} :
                         /\ sends[t].input = sends[s].input /\ sends[t].row = sends[s].row
                         /\ sends[t].stage \in {"applied", "answered", "unheard"}
  <2>1. PICK outcome \in {"applied", "repeated", "failed"} :
            /\ sends' = [sends EXCEPT ![s].stage = outcome]
            /\ TheForm.repeat = "refused" /\ made => outcome = "failed"
    BY <1>2, TheFormGood DEF Counter!Apply, GoodForm, TheForm
  <2>2. \A t \in 1..MaxSends :
            /\ sends'[t].input = sends[t].input /\ sends'[t].row = sends[t].row
            /\ sends'[t].stage = IF t = s THEN outcome ELSE sends[t].stage
    BY <2>1, <1>1 DEF DeskInv, DeskTypeOK, DeskSends
  <2>3. ASSUME TheForm.repeat = "refused" PROVE MadeOnce'
    <3> SUFFICES ASSUME NEW t \in 1..MaxSends, NEW u \in 1..MaxSends, t # u,
                        Counter!Made(t)', Counter!Made(u)', sends[t].input = sends[u].input
                 PROVE  sends[t].row # sends[u].row
      BY <2>2 DEF MadeOnce
    <3>1. CASE t # s /\ u # s
      BY <2>2, <2>3, <3>1 DEF DeskInv, MadeOnce, Counter!Made
    <3>2. CASE t = s \/ u = s
      BY <1>1, <2>1, <2>2, <2>3, <3>2 DEF Counter!Made
    <3> QED BY <3>1, <3>2
  <2> HIDE DEF made
  <2> QED BY <1>1, <1>2, <2>1, <2>3, DeskServed DEF Counter!Apply
<1>3. CASE Counter!Refuse(s) \/ Counter!LoseAnswer(s)
  <2>1. PICK outcome \in {"failed", "unheard"} :
            /\ sends' = [sends EXCEPT ![s].stage = outcome] /\ sends[s].stage \in {"sent", "applied"}
            /\ outcome = "unheard" => sends[s].stage = "applied"
    BY <1>3 DEF Counter!Refuse, Counter!LoseAnswer
  <2>2. \A t \in 1..MaxSends :
            /\ sends'[t].input = sends[t].input /\ sends'[t].row = sends[t].row
            /\ sends'[t].stage = IF t = s THEN outcome ELSE sends[t].stage
    BY <2>1, <1>1 DEF DeskInv, DeskTypeOK, DeskSends
  <2>3. MadeOnce => MadeOnce'
    BY <1>1, <2>1, <2>2 DEF MadeOnce, Counter!Made
  <2> QED BY <1>1, <1>3, <2>1, <2>3, DeskServed DEF Counter!Refuse, Counter!LoseAnswer, DeskInv
<1> QED BY <1>2, <1>3

\* What is sent is what the fields hold, and nothing else of this input is under way.
LEMMA DeskSubmit ==
  ASSUME DeskInv, NEW s \in DOMAIN sends, Counter!Submit(s)
  PROVE  DeskInv'
<1> USE RowsAreNumbers DEF Counter!NoInput, Counter!Closed
<1>1. /\ s \in 1..MaxSends /\ open # Counter!Closed /\ fields.input # 0
      /\ Careful(TheForm) => \A t \in 1..MaxSends : sends[t].at = "form" => ~Standing(t)
  BY DEF Counter!Submit, Counter!Pending, DeskInv, DeskTypeOK, Standing, Careful, TheForm
<1> DEFINE new == [stage |-> "sent", input |-> fields.input, meant |-> fields.row, row |-> open, at |-> "form"]
<1>2. sends' = [sends EXCEPT ![s] = new] /\ UNCHANGED <<form, open, fields, inputs>>
  BY DEF Counter!Submit
<1>3. new \in DeskSends
  BY DEF DeskInv, DeskTypeOK, DeskSends, SendStages, Counter!NoRow
<1>4. DeskTypeOK'
  BY <1>1, <1>2, <1>3 DEF DeskInv, DeskTypeOK
<1>5. TheForm' = TheForm
  BY <1>2 DEF TheForm
<1>6. FieldsOfRow'
  BY <1>2, <1>5 DEF DeskInv, FieldsOfRow
<1>a. /\ \A t \in 1..MaxSends : t # s => sends'[t] = sends[t]
      /\ sends'[s].input = fields.input /\ sends'[s].meant = fields.row /\ sends'[s].row = open
      /\ sends'[s].stage = "sent" /\ sends'[s].at = "form"
  BY <1>1, <1>2 DEF DeskInv, DeskTypeOK
<1> HIDE DEF new
<1>7. Careful(TheForm) => SentIsGone' /\ OneAwaited'
  BY <1>1, <1>2, <1>5, <1>a DEF DeskInv, DeskTypeOK, SentIsGone, OneAwaited, Standing
<1>8. sends'[s].row = sends'[s].meant \/ TheForm.follows
  BY <1>1, <1>a DEF DeskInv, DeskTypeOK, FieldsOfRow
<1>9. ASSUME Careful(TheForm)
      PROVE  \A t \in 1..MaxSends : t # s /\ sends[t].stage # "none" /\ sends[t].input = fields.input => Over(t)
  BY <1>1, <1>9 DEF DeskInv, DeskTypeOK, DeskSends, SendStages, SentIsGone, Standing, Over
<1>10. Careful(TheForm) => SentOnce'
  BY <1>9, <1>a DEF DeskInv, SentOnce, Over
<1>11. \A t \in 1..MaxSends : sends'[t].stage # "none" => sends'[t].row = sends'[t].meant \/ TheForm.follows
  BY <1>8, <1>a DEF DeskInv, DeskTypeOK
<1>12. OneRow'
  BY <1>2, <1>a DEF DeskInv, OneRow
<1>13. MadeOnce => MadeOnce'
  BY <1>a DEF MadeOnce, Counter!Made
<1> QED BY <1>4, <1>5, <1>6, <1>7, <1>10, <1>11, <1>12, <1>13 DEF DeskInv

\* An answer closes the dialog and empties its fields.
LEMMA DeskAnswer ==
  ASSUME DeskInv, NEW s \in DOMAIN sends, Counter!Answer(s)
  PROVE  DeskInv'
<1> USE RowsAreNumbers DEF Counter!NoInput, Counter!NoRow, Counter!Closed
<1>1. s \in 1..MaxSends /\ sends[s] \in DeskSends
  BY DEF DeskInv, DeskTypeOK
<1> DEFINE outcome == IF sends[s].stage = "applied" THEN "answered" ELSE sends[s].stage
           done == [sends[s] EXCEPT !.stage = outcome, !.at = "gone"]
<1>a. /\ sends' = [sends EXCEPT ![s] = done] /\ sends[s].stage \in {"applied", "repeated"}
      /\ form' = form /\ inputs' = inputs
  BY <1>1 DEF Counter!Answer, DeskInv, DeskTypeOK
<1>b. /\ done \in DeskSends /\ done.stage = outcome /\ done.at = "gone" /\ outcome \in {"answered", "repeated"}
      /\ done.input = sends[s].input /\ done.row = sends[s].row /\ done.meant = sends[s].meant
      /\ outcome = "answered" <=> sends[s].stage = "applied"
  BY <1>1, <1>a DEF DeskSends, SendStages
<1> HIDE DEF done, outcome
<1>2. /\ \A t \in 1..MaxSends :
             /\ sends'[t].input = sends[t].input /\ sends'[t].row = sends[t].row /\ sends'[t].meant = sends[t].meant
             /\ t # s => sends'[t] = sends[t]
      /\ sends[s].stage \in {"applied", "repeated"} /\ sends'[s].stage \in {"answered", "repeated"}
      /\ sends'[s].stage = "answered" <=> sends[s].stage = "applied"
      /\ sends'[s].at = "gone" /\ form' = form /\ inputs' = inputs
  BY <1>1, <1>a, <1>b DEF DeskInv, DeskTypeOK
<1>3. sends' \in [1..MaxSends -> DeskSends]
  BY <1>1, <1>a, <1>b DEF DeskInv, DeskTypeOK
<1>4. TheForm' = TheForm
  BY <1>2 DEF TheForm
<1>5. /\ open' = IF sends[s].at = "gone" \/ TheForm.fields \in {"manager", "page"} THEN open ELSE Counter!Closed
      /\ fields' = IF sends[s].at = "form" /\ TheForm.fields \in {"kept", "manager", "page"}
                   THEN [input |-> 0, row |-> 0] ELSE fields
  BY DEF Counter!Answer, Counter!Empty, TheForm
<1>6. DeskTypeOK'
  BY <1>2, <1>3, <1>5 DEF DeskInv, DeskTypeOK
<1>7. FieldsOfRow'
  BY <1>4, <1>5 DEF DeskInv, DeskTypeOK, FieldsOfRow
<1>8. ASSUME Careful(TheForm) PROVE SentIsGone'
  <2>1. CASE sends[s].at # "form"
    BY <1>1, <1>2, <1>4, <1>5, <1>8, <2>1 DEF DeskInv, SentIsGone, Standing
  <2>2. CASE sends[s].at = "form"
    BY <1>2, <1>4, <1>5, <1>8, <2>2, TheFormGood DEF DeskInv, DeskTypeOK, SentIsGone, Standing,
         GoodForm, Careful
  <2> QED BY <2>1, <2>2
<1>9. OneAwaited => OneAwaited'
  BY <1>1, <1>2 DEF OneAwaited, Standing
<1>10. SentOnce => SentOnce'
  BY <1>1, <1>2 DEF SentOnce, Over
<1>11. MadeOnce => MadeOnce'
  BY <1>1, <1>2 DEF MadeOnce, Counter!Made
<1>12. OneRow'
  BY <1>1, <1>2, <1>5 DEF DeskInv, DeskTypeOK, OneRow
<1>13. \A t \in 1..MaxSends : sends'[t].stage # "none" => sends'[t].row = sends'[t].meant \/ TheForm.follows
  BY <1>1, <1>2 DEF DeskInv
<1> QED BY <1>4, <1>6, <1>7, <1>8, <1>9, <1>10, <1>11, <1>12, <1>13 DEF DeskInv

\* Every step of a desk keeps the invariant.
LEMMA DeskNext == DeskInv /\ Counter!DeskNext => DeskInv'
  BY DeskOpen, DeskType, DeskClose, DeskSwitch, DeskGoes, DeskServer, DeskSubmit,
       DeskAnswer DEF Counter!DeskNext

\* ... and so does every step of another part.
LEMMA DeskRests == DeskInv /\ UNCHANGED counter => DeskInv'
  BY DEF DeskInv, DeskTypeOK, FieldsOfRow, SentIsGone, OneAwaited, SentOnce, OneRow, MadeOnce,
       Counter!Made, Standing, Over, TheForm, counter, Counter!RowsOf

-----------------------------------------------------------------------------
(* Views and changes (ViewCache). *)

\* A row of one of the tables is the row of all of them joined, if no other has its name.
LEMMA JoinedHas ==
  ASSUME NEW tables, NEW t \in tables, NEW x \in DOMAIN t,
         \A u \in tables : x \in DOMAIN u => u = t
  PROVE  x \in DOMAIN Screen!Joined(tables) /\ Screen!Joined(tables)[x] = t[x]
<1>1. x \in UNION {DOMAIN u : u \in tables}
  OBVIOUS
<1>2. (CHOOSE u \in tables : x \in DOMAIN u) = t
  OBVIOUS
<1> QED BY <1>1, <1>2 DEF Screen!Joined

\* The views of every table.
LEMMA ViewNames ==
    /\ DOMAIN Screen!SalesViews = {"useSales", "useSale"}
    /\ DOMAIN Screen!CashViews = {"useCashSessions", "useCashVariances",
                                  "useCurrentCashSession", "useCashSessionSummary",
                                  "useSuggestedOpeningFloat"}
    /\ DOMAIN Screen!MoneyViews = {"useBankSummary", "useBankStatement",
                                   "useHandSummary", "useHandStatement", "useLoans",
                                   "useLoanSummary", "useMoneyPosition"}
    /\ DOMAIN Screen!ExpenseViews = {"useExpenses", "useExpensesDaily",
                                     "useOfficePurchases", "useOfficePurchase",
                                     "useOfficePurchasesOutstanding", "useSalaries",
                                     "useSalarySummary", "useSalaryPayees"}
    /\ DOMAIN Screen!PurchaseViews = {"usePurchases", "usePurchasesDaily", "usePurchase"}
    /\ DOMAIN Screen!CustomerViews = {"useCustomers", "useCustomer", "useCustomerAging"}
    /\ DOMAIN Screen!StockViews = {"useMovements", "useValuation", "useOpeningStock"}
    /\ DOMAIN Screen!ProductViews = {"useProducts", "useProduct", "useLowStockProducts"}
    /\ DOMAIN Screen!CatalogViews = {"useCategories", "useUnits", "useServices",
                                     "useService", "useSuppliers",
                                     "useSupplierSummary", "useSupplier"}
    /\ DOMAIN Screen!ReportViews = {"useFinancialSummary", "useSalesSeries",
                                    "useExpensesByCategory", "useStockLevels",
                                    "useReportLowStock", "useTopProducts",
                                    "useProductProfitability", "useProductMovement",
                                    "useTopServices", "useWastageReport",
                                    "useWastageEntries", "useCashReport",
                                    "useUserActivityReport"}
    /\ DOMAIN Screen!ExpenseCategoryViews = {"useExpenseCategories"}
    /\ DOMAIN Screen!UserViews = {"useUsers", "useUser"}
    /\ DOMAIN Screen!SettingsViews = {"useAppSettings"}
    /\ DOMAIN Screen!BackupViews = {"useBackupFiles"}
  BY DEF Screen!SalesViews, Screen!CashViews, Screen!MoneyViews, Screen!ExpenseViews,
       Screen!PurchaseViews, Screen!CustomerViews, Screen!StockViews,
       Screen!ProductViews, Screen!CatalogViews, Screen!ReportViews,
       Screen!ExpenseCategoryViews, Screen!UserViews, Screen!SettingsViews,
       Screen!BackupViews

\* The mutations of every table.
LEMMA MutationNames ==
    /\ DOMAIN Screen!SalesMutations = {"useCreateSale", "useReturnSale", "useVoidSale"}
    /\ DOMAIN Screen!CashMutations = {"useOpenCashSession", "useCloseCashSession",
                                      "useCashMovement"}
    /\ DOMAIN Screen!MoneyMutations = {"useSetOpeningBalance", "useTransferToBank",
                                       "useTransferToTill", "useBankCorrection",
                                       "useSetHandOpeningBalance", "useBankHeldCash",
                                       "useReturnHeldCashToTill", "useHandCorrection",
                                       "useIssueLoan", "useRepayLoan"}
    /\ DOMAIN Screen!ExpenseMutations = {"useCreateExpense", "useUpdateExpense",
                                         "useDeleteExpense", "useCreateOfficePurchase",
                                         "usePayOfficePurchase"}
    /\ DOMAIN Screen!SalaryMutations = {"useCreateSalary", "useUpdateSalary"}
    /\ DOMAIN Screen!PurchaseMutations = {"useVoidPurchase", "useCreatePurchase"}
    /\ DOMAIN Screen!CustomerMutations = {"useCreateCustomer", "useUpdateCustomer",
                                          "useRecordCustomerPayment"}
    /\ DOMAIN Screen!StockMutations = {"useRecordOpeningStock", "useAdjustStock",
                                       "useRecordWastage"}
    /\ DOMAIN Screen!ProductMutations = {"useCreateProduct", "useRemoveProduct",
                                         "useUploadProductImage", "useUpdateProduct",
                                         "useAddVariant", "useDeleteProduct",
                                         "useUpdateVariant", "useDeactivateVariant",
                                         "useRemoveVariant"}
    /\ DOMAIN Screen!CategoryMutations = {"useCreateCategory", "useUpdateCategory",
                                          "useDeleteCategory"}
    /\ DOMAIN Screen!UnitMutations = {"useCreateUnit", "useUpdateUnit", "useDeleteUnit"}
    /\ DOMAIN Screen!ServiceMutations = {"useCreateService", "useUpdateService",
                                         "useAddServiceVariant",
                                         "useUpdateServiceVariant",
                                         "useDeactivateServiceVariant",
                                         "useDeleteService", "useReactivateService",
                                         "useRemoveService"}
    /\ DOMAIN Screen!SupplierMutations = {"useRecordSupplierPayment",
                                          "useCreateSupplier", "useUpdateSupplier"}
    /\ DOMAIN Screen!ExpenseCategoryMutations = {"useCreateExpenseCategory",
                                                 "useUpdateExpenseCategory",
                                                 "useDeleteExpenseCategory"}
    /\ DOMAIN Screen!UserMutations = {"useCreateUser", "useUpdateUser",
                                      "useToggleUserActive", "useDeleteUser"}
    /\ DOMAIN Screen!SettingsMutations = {"useUpdateAppSettings"}
    /\ DOMAIN Screen!BackupMutations = {"useRunLocalBackup"}
  BY DEF Screen!SalesMutations, Screen!CashMutations, Screen!MoneyMutations,
       Screen!ExpenseMutations, Screen!SalaryMutations, Screen!PurchaseMutations,
       Screen!CustomerMutations, Screen!StockMutations, Screen!ProductMutations,
       Screen!CategoryMutations, Screen!UnitMutations, Screen!ServiceMutations,
       Screen!SupplierMutations, Screen!ExpenseCategoryMutations,
       Screen!UserMutations, Screen!SettingsMutations, Screen!BackupMutations

\* A view is what the table of its hook file says.
LEMMA ViewsJoined ==
    /\ \A v \in DOMAIN Screen!SalesViews : Screen!Views[v] = Screen!SalesViews[v]
    /\ \A v \in DOMAIN Screen!CashViews : Screen!Views[v] = Screen!CashViews[v]
    /\ \A v \in DOMAIN Screen!MoneyViews : Screen!Views[v] = Screen!MoneyViews[v]
    /\ \A v \in DOMAIN Screen!ExpenseViews : Screen!Views[v] = Screen!ExpenseViews[v]
    /\ \A v \in DOMAIN Screen!PurchaseViews : Screen!Views[v] = Screen!PurchaseViews[v]
    /\ \A v \in DOMAIN Screen!CustomerViews : Screen!Views[v] = Screen!CustomerViews[v]
    /\ \A v \in DOMAIN Screen!StockViews : Screen!Views[v] = Screen!StockViews[v]
    /\ \A v \in DOMAIN Screen!ProductViews : Screen!Views[v] = Screen!ProductViews[v]
    /\ \A v \in DOMAIN Screen!CatalogViews : Screen!Views[v] = Screen!CatalogViews[v]
    /\ \A v \in DOMAIN Screen!ReportViews : Screen!Views[v] = Screen!ReportViews[v]
    /\ \A v \in DOMAIN Screen!ExpenseCategoryViews : Screen!Views[v] = Screen!ExpenseCategoryViews[v]
    /\ \A v \in DOMAIN Screen!UserViews : Screen!Views[v] = Screen!UserViews[v]
    /\ \A v \in DOMAIN Screen!SettingsViews : Screen!Views[v] = Screen!SettingsViews[v]
    /\ \A v \in DOMAIN Screen!BackupViews : Screen!Views[v] = Screen!BackupViews[v]
<1> DEFINE groups == {Screen!SalesViews, Screen!CashViews, Screen!MoneyViews,
                      Screen!ExpenseViews, Screen!PurchaseViews, Screen!CustomerViews,
                      Screen!StockViews, Screen!ProductViews, Screen!CatalogViews,
                      Screen!ReportViews, Screen!ExpenseCategoryViews,
                      Screen!UserViews, Screen!SettingsViews, Screen!BackupViews}
<1>1. ASSUME NEW v \in DOMAIN Screen!SalesViews PROVE Screen!Views[v] = Screen!SalesViews[v]
  <2>1. \A u \in groups : v \in DOMAIN u => u = Screen!SalesViews
    BY ViewNames
  <2> QED BY <2>1, JoinedHas DEF Screen!Views
<1>2. ASSUME NEW v \in DOMAIN Screen!CashViews PROVE Screen!Views[v] = Screen!CashViews[v]
  <2>1. \A u \in groups : v \in DOMAIN u => u = Screen!CashViews
    BY ViewNames
  <2> QED BY <2>1, JoinedHas DEF Screen!Views
<1>3. ASSUME NEW v \in DOMAIN Screen!MoneyViews PROVE Screen!Views[v] = Screen!MoneyViews[v]
  <2>1. \A u \in groups : v \in DOMAIN u => u = Screen!MoneyViews
    BY ViewNames
  <2> QED BY <2>1, JoinedHas DEF Screen!Views
<1>4. ASSUME NEW v \in DOMAIN Screen!ExpenseViews PROVE Screen!Views[v] = Screen!ExpenseViews[v]
  <2>1. \A u \in groups : v \in DOMAIN u => u = Screen!ExpenseViews
    BY ViewNames
  <2> QED BY <2>1, JoinedHas DEF Screen!Views
<1>5. ASSUME NEW v \in DOMAIN Screen!PurchaseViews PROVE Screen!Views[v] = Screen!PurchaseViews[v]
  <2>1. \A u \in groups : v \in DOMAIN u => u = Screen!PurchaseViews
    BY ViewNames
  <2> QED BY <2>1, JoinedHas DEF Screen!Views
<1>6. ASSUME NEW v \in DOMAIN Screen!CustomerViews PROVE Screen!Views[v] = Screen!CustomerViews[v]
  <2>1. \A u \in groups : v \in DOMAIN u => u = Screen!CustomerViews
    BY ViewNames
  <2> QED BY <2>1, JoinedHas DEF Screen!Views
<1>7. ASSUME NEW v \in DOMAIN Screen!StockViews PROVE Screen!Views[v] = Screen!StockViews[v]
  <2>1. \A u \in groups : v \in DOMAIN u => u = Screen!StockViews
    BY ViewNames
  <2> QED BY <2>1, JoinedHas DEF Screen!Views
<1>8. ASSUME NEW v \in DOMAIN Screen!ProductViews PROVE Screen!Views[v] = Screen!ProductViews[v]
  <2>1. \A u \in groups : v \in DOMAIN u => u = Screen!ProductViews
    BY ViewNames
  <2> QED BY <2>1, JoinedHas DEF Screen!Views
<1>9. ASSUME NEW v \in DOMAIN Screen!CatalogViews PROVE Screen!Views[v] = Screen!CatalogViews[v]
  <2>1. \A u \in groups : v \in DOMAIN u => u = Screen!CatalogViews
    BY ViewNames
  <2> QED BY <2>1, JoinedHas DEF Screen!Views
<1>10. ASSUME NEW v \in DOMAIN Screen!ReportViews PROVE Screen!Views[v] = Screen!ReportViews[v]
  <2>1. \A u \in groups : v \in DOMAIN u => u = Screen!ReportViews
    BY ViewNames
  <2> QED BY <2>1, JoinedHas DEF Screen!Views
<1>11. ASSUME NEW v \in DOMAIN Screen!ExpenseCategoryViews PROVE Screen!Views[v] = Screen!ExpenseCategoryViews[v]
  <2>1. \A u \in groups : v \in DOMAIN u => u = Screen!ExpenseCategoryViews
    BY ViewNames
  <2> QED BY <2>1, JoinedHas DEF Screen!Views
<1>12. ASSUME NEW v \in DOMAIN Screen!UserViews PROVE Screen!Views[v] = Screen!UserViews[v]
  <2>1. \A u \in groups : v \in DOMAIN u => u = Screen!UserViews
    BY ViewNames
  <2> QED BY <2>1, JoinedHas DEF Screen!Views
<1>13. ASSUME NEW v \in DOMAIN Screen!SettingsViews PROVE Screen!Views[v] = Screen!SettingsViews[v]
  <2>1. \A u \in groups : v \in DOMAIN u => u = Screen!SettingsViews
    BY ViewNames
  <2> QED BY <2>1, JoinedHas DEF Screen!Views
<1>14. ASSUME NEW v \in DOMAIN Screen!BackupViews PROVE Screen!Views[v] = Screen!BackupViews[v]
  <2>1. \A u \in groups : v \in DOMAIN u => u = Screen!BackupViews
    BY ViewNames
  <2> QED BY <2>1, JoinedHas DEF Screen!Views
<1> QED BY <1>1, <1>2, <1>3, <1>4, <1>5, <1>6, <1>7, <1>8, <1>9, <1>10, <1>11, <1>12, <1>13, <1>14

\* A mutation is what the table of its hook file says.
LEMMA MutationsJoined ==
    /\ \A m \in DOMAIN Screen!SalesMutations : Screen!Mutations[m] = Screen!SalesMutations[m]
    /\ \A m \in DOMAIN Screen!MoneyMutations : Screen!Mutations[m] = Screen!MoneyMutations[m]
    /\ \A m \in DOMAIN Screen!ExpenseMutations : Screen!Mutations[m] = Screen!ExpenseMutations[m]
    /\ \A m \in DOMAIN Screen!SalaryMutations : Screen!Mutations[m] = Screen!SalaryMutations[m]
    /\ \A m \in DOMAIN Screen!PurchaseMutations : Screen!Mutations[m] = Screen!PurchaseMutations[m]
    /\ \A m \in DOMAIN Screen!CustomerMutations : Screen!Mutations[m] = Screen!CustomerMutations[m]
    /\ \A m \in DOMAIN Screen!StockMutations : Screen!Mutations[m] = Screen!StockMutations[m]
    /\ \A m \in DOMAIN Screen!ProductMutations : Screen!Mutations[m] = Screen!ProductMutations[m]
    /\ \A m \in DOMAIN Screen!CategoryMutations : Screen!Mutations[m] = Screen!CategoryMutations[m]
    /\ \A m \in DOMAIN Screen!SupplierMutations : Screen!Mutations[m] = Screen!SupplierMutations[m]
    /\ \A m \in DOMAIN Screen!ExpenseCategoryMutations : Screen!Mutations[m] = Screen!ExpenseCategoryMutations[m]
<1> DEFINE groups == {Screen!SalesMutations, Screen!CashMutations,
                      Screen!MoneyMutations, Screen!ExpenseMutations,
                      Screen!SalaryMutations, Screen!PurchaseMutations,
                      Screen!CustomerMutations, Screen!StockMutations,
                      Screen!ProductMutations, Screen!CategoryMutations,
                      Screen!UnitMutations, Screen!ServiceMutations,
                      Screen!SupplierMutations, Screen!ExpenseCategoryMutations,
                      Screen!UserMutations, Screen!SettingsMutations,
                      Screen!BackupMutations}
<1>1. ASSUME NEW m \in DOMAIN Screen!SalesMutations PROVE Screen!Mutations[m] = Screen!SalesMutations[m]
  <2>1. \A u \in groups : m \in DOMAIN u => u = Screen!SalesMutations
    BY MutationNames
  <2> QED BY <2>1, JoinedHas DEF Screen!Mutations
<1>2. ASSUME NEW m \in DOMAIN Screen!MoneyMutations PROVE Screen!Mutations[m] = Screen!MoneyMutations[m]
  <2>1. \A u \in groups : m \in DOMAIN u => u = Screen!MoneyMutations
    BY MutationNames
  <2> QED BY <2>1, JoinedHas DEF Screen!Mutations
<1>3. ASSUME NEW m \in DOMAIN Screen!ExpenseMutations PROVE Screen!Mutations[m] = Screen!ExpenseMutations[m]
  <2>1. \A u \in groups : m \in DOMAIN u => u = Screen!ExpenseMutations
    BY MutationNames
  <2> QED BY <2>1, JoinedHas DEF Screen!Mutations
<1>4. ASSUME NEW m \in DOMAIN Screen!SalaryMutations PROVE Screen!Mutations[m] = Screen!SalaryMutations[m]
  <2>1. \A u \in groups : m \in DOMAIN u => u = Screen!SalaryMutations
    BY MutationNames
  <2> QED BY <2>1, JoinedHas DEF Screen!Mutations
<1>5. ASSUME NEW m \in DOMAIN Screen!PurchaseMutations PROVE Screen!Mutations[m] = Screen!PurchaseMutations[m]
  <2>1. \A u \in groups : m \in DOMAIN u => u = Screen!PurchaseMutations
    BY MutationNames
  <2> QED BY <2>1, JoinedHas DEF Screen!Mutations
<1>6. ASSUME NEW m \in DOMAIN Screen!CustomerMutations PROVE Screen!Mutations[m] = Screen!CustomerMutations[m]
  <2>1. \A u \in groups : m \in DOMAIN u => u = Screen!CustomerMutations
    BY MutationNames
  <2> QED BY <2>1, JoinedHas DEF Screen!Mutations
<1>7. ASSUME NEW m \in DOMAIN Screen!StockMutations PROVE Screen!Mutations[m] = Screen!StockMutations[m]
  <2>1. \A u \in groups : m \in DOMAIN u => u = Screen!StockMutations
    BY MutationNames
  <2> QED BY <2>1, JoinedHas DEF Screen!Mutations
<1>8. ASSUME NEW m \in DOMAIN Screen!ProductMutations PROVE Screen!Mutations[m] = Screen!ProductMutations[m]
  <2>1. \A u \in groups : m \in DOMAIN u => u = Screen!ProductMutations
    BY MutationNames
  <2> QED BY <2>1, JoinedHas DEF Screen!Mutations
<1>9. ASSUME NEW m \in DOMAIN Screen!CategoryMutations PROVE Screen!Mutations[m] = Screen!CategoryMutations[m]
  <2>1. \A u \in groups : m \in DOMAIN u => u = Screen!CategoryMutations
    BY MutationNames
  <2> QED BY <2>1, JoinedHas DEF Screen!Mutations
<1>10. ASSUME NEW m \in DOMAIN Screen!SupplierMutations PROVE Screen!Mutations[m] = Screen!SupplierMutations[m]
  <2>1. \A u \in groups : m \in DOMAIN u => u = Screen!SupplierMutations
    BY MutationNames
  <2> QED BY <2>1, JoinedHas DEF Screen!Mutations
<1>11. ASSUME NEW m \in DOMAIN Screen!ExpenseCategoryMutations PROVE Screen!Mutations[m] = Screen!ExpenseCategoryMutations[m]
  <2>1. \A u \in groups : m \in DOMAIN u => u = Screen!ExpenseCategoryMutations
    BY MutationNames
  <2> QED BY <2>1, JoinedHas DEF Screen!Mutations
<1> QED BY <1>1, <1>2, <1>3, <1>4, <1>5, <1>6, <1>7, <1>8, <1>9, <1>10, <1>11

\* The prefixes of a key of one or two parts.
LEMMA Prefixes ==
    /\ \A a : Screen!IsPrefix(<<a>>, <<a>>)
    /\ \A a, b : Screen!IsPrefix(<<a>>, <<a, b>>)
    /\ \A a, b : Screen!IsPrefix(<<a, b>>, <<a, b>>)
  BY DEF Screen!IsPrefix

\* Where the tables that something is said of are shown.
Where(v, reads) ==
    /\ "till" \in reads => v \in {"useCurrentCashSession", "useCashSessionSummary", "useMoneyPosition"}
    /\ {"bank", "hand", "loans"} \intersect reads # {} => v \in DOMAIN Screen!MoneyViews
    /\ "hand" \in reads => v \in {"useHandSummary", "useHandStatement", "useMoneyPosition"}
    /\ "stock" \in reads =>
           v \in DOMAIN Screen!StockViews \union DOMAIN Screen!ReportViews \union DOMAIN Screen!ProductViews
                  \union {"useServices", "useService"}
    /\ "suppliers" \in reads => v \in {"useSuppliers", "useSupplierSummary", "useSupplier"}
    /\ "categories" \in reads => v \in {"useCategories", "useProducts", "useProduct"}
    /\ "expenseCategories" \in reads =>
           v \in {"useExpenses", "useOfficePurchases", "useOfficePurchase", "useSalaries",
                  "useExpensesByCategory", "useExpenseCategories"}

\* Every table says what its views read.
LEMMA WhereShown ==
  ASSUME NEW v \in DOMAIN Screen!Views
  PROVE  Where(v, Screen!Views[v].reads)
<1>1. CASE v \in DOMAIN Screen!SalesViews
  BY <1>1, ViewsJoined, ViewNames DEF Screen!SalesViews, Screen!View, Where
<1>2. CASE v \in DOMAIN Screen!CashViews
  BY <1>2, ViewsJoined, ViewNames DEF Screen!CashViews, Screen!View, Where
<1>3. CASE v \in DOMAIN Screen!MoneyViews
  BY <1>3, ViewsJoined, ViewNames DEF Screen!MoneyViews, Screen!View, Where
<1>4. CASE v \in DOMAIN Screen!ExpenseViews
  BY <1>4, ViewsJoined, ViewNames DEF Screen!ExpenseViews, Screen!View, Where
<1>5. CASE v \in DOMAIN Screen!PurchaseViews
  BY <1>5, ViewsJoined, ViewNames DEF Screen!PurchaseViews, Screen!View, Where
<1>6. CASE v \in DOMAIN Screen!CustomerViews
  BY <1>6, ViewsJoined, ViewNames DEF Screen!CustomerViews, Screen!View, Where
<1>7. CASE v \in DOMAIN Screen!StockViews
  BY <1>7, ViewsJoined, ViewNames DEF Screen!StockViews, Screen!View, Where
<1>8. CASE v \in DOMAIN Screen!ProductViews
  BY <1>8, ViewsJoined, ViewNames DEF Screen!ProductViews, Screen!View, Where
<1>9. CASE v \in DOMAIN Screen!CatalogViews
  BY <1>9, ViewsJoined, ViewNames DEF Screen!CatalogViews, Screen!View, Where
<1>10. CASE v \in DOMAIN Screen!ReportViews
  BY <1>10, ViewsJoined, ViewNames DEF Screen!ReportViews, Screen!View, Where
<1>11. CASE v \in DOMAIN Screen!ExpenseCategoryViews
  BY <1>11, ViewsJoined, ViewNames DEF Screen!ExpenseCategoryViews, Screen!View, Where
<1>12. CASE v \in DOMAIN Screen!UserViews
  BY <1>12, ViewsJoined, ViewNames DEF Screen!UserViews, Screen!View, Where
<1>13. CASE v \in DOMAIN Screen!SettingsViews
  BY <1>13, ViewsJoined, ViewNames DEF Screen!SettingsViews, Screen!View, Where
<1>14. CASE v \in DOMAIN Screen!BackupViews
  BY <1>14, ViewsJoined, ViewNames DEF Screen!BackupViews, Screen!View, Where
<1> QED BY <1>1, <1>2, <1>3, <1>4, <1>5, <1>6, <1>7, <1>8, <1>9, <1>10, <1>11, <1>12, <1>13, <1>14 DEF Screen!Views, Screen!Joined

\* Every mutation of bank.ts, hand.ts and loans.ts invalidates all the money that is shown.
LEMMA MoneyBusts ==
  ASSUME NEW m \in DOMAIN Screen!MoneyMutations,
         NEW v \in DOMAIN Screen!MoneyViews \union Screen!Session
  PROVE  Screen!Busts(m, v)
<1>1. Screen!Mutations[m].busts = {<<"bank">>, <<"hand">>, <<"loans">>, <<"loan">>,
                                   <<"cash-session">>, <<"report", "money-position">>}
  BY MutationsJoined, MutationNames DEF Screen!MoneyMutations, Screen!MoneyMutation,
       Screen!Mutation
<1>2. \/ \E a \in {"bank", "hand", "loans", "cash-session"} : \E b : Screen!Views[v].key = <<a, b>>
      \/ Screen!Views[v].key = <<"report", "money-position">>
  BY ViewsJoined, ViewNames DEF Screen!MoneyViews, Screen!CashViews, Screen!View, Screen!Session
<1> QED BY <1>1, <1>2, Prefixes DEF Screen!Busts

\* The views that show the stock, but for three, are under the keys of the stock, of the
\* lists of products and of the reports.
LEMMA StockKeys ==
  ASSUME NEW v \in DOMAIN Screen!StockViews \union DOMAIN Screen!ReportViews \union {"useProducts", "useLowStockProducts"}
  PROVE  \E a \in {"inventory", "products", "report"} : \E b : Screen!Views[v].key = <<a, b>>
  BY SMTT(40), ViewsJoined, ViewNames DEF Screen!StockViews, Screen!ReportViews,
       Screen!ProductViews, Screen!View

\* A change of the stock, and a purchase undone, invalidate them.
LEMMA StockBustsAll ==
  ASSUME NEW m \in DOMAIN Screen!StockMutations \union {"useVoidPurchase"},
         NEW v \in DOMAIN Screen!StockViews \union DOMAIN Screen!ReportViews \union {"useProducts", "useLowStockProducts"}
  PROVE  Screen!Busts(m, v)
<1>1. {<<"inventory">>, <<"products">>, <<"report">>} \subseteq Screen!Mutations[m].busts
  <2>1. CASE m \in DOMAIN Screen!StockMutations
    BY <2>1, MutationsJoined, MutationNames DEF Screen!StockMutations, Screen!Mutation, Screen!StockBusts
  <2>2. CASE m = "useVoidPurchase"
    BY <2>2, MutationsJoined, MutationNames DEF Screen!PurchaseMutations, Screen!Mutation
  <2> QED BY <2>1, <2>2
<1> QED BY <1>1, StockKeys, Prefixes DEF Screen!Busts

\* What an expense or a salary, and paying an office purchase, invalidate.
LEMMA SpendingBusts ==
  ASSUME NEW m \in DOMAIN Screen!ExpenseMutations \union DOMAIN Screen!SalaryMutations
  PROVE  /\ {<<"cash-session">>, <<"hand">>} \subseteq Screen!Mutations[m].busts
         /\ \/ <<"report">> \in Screen!Mutations[m].busts
            \/ m = "usePayOfficePurchase"
               /\ {<<"report", "money-position">>, <<"office-purchases">>, <<"office-purchase", "id">>}
                      \subseteq Screen!Mutations[m].busts
<1>1. CASE m \in DOMAIN Screen!SalaryMutations
  BY <1>1, MutationsJoined, MutationNames DEF Screen!SalaryMutations, Screen!Spending,
       Screen!Mutation, Screen!ExpenseBusts
<1>2. CASE m \in DOMAIN Screen!ExpenseMutations
  BY <1>2, MutationsJoined, MutationNames DEF Screen!ExpenseMutations,
       Screen!Spending, Screen!Mutation, Screen!ExpenseBusts
<1> QED BY <1>1, <1>2

\* ... is what shows them.
LEMMA SpendingViews ==
  ASSUME NEW m \in DOMAIN Screen!ExpenseMutations \union DOMAIN Screen!SalaryMutations,
         NEW v,
         \/ v \in {"useCurrentCashSession", "useCashSessionSummary", "useHandSummary",
                   "useHandStatement", "useMoneyPosition"}
         \/ v \in DOMAIN Screen!ReportViews /\ m # "usePayOfficePurchase"
         \/ m = "usePayOfficePurchase"
            /\ v \in {"useOfficePurchases", "useOfficePurchase", "useOfficePurchasesOutstanding"}
  PROVE  Screen!Busts(m, v)
<1>1. CASE v \in {"useCurrentCashSession", "useCashSessionSummary", "useHandSummary", "useHandStatement"}
  <2>1. \E a \in {"cash-session", "hand"} : \E b : Screen!Views[v].key = <<a, b>>
    BY <1>1, ViewsJoined, ViewNames DEF Screen!MoneyViews, Screen!CashViews, Screen!View
  <2> QED BY <2>1, SpendingBusts, Prefixes DEF Screen!Busts
<1>2. CASE v = "useMoneyPosition"
  <2>1. Screen!Views[v].key = <<"report", "money-position">>
    BY <1>2, ViewsJoined, ViewNames DEF Screen!MoneyViews, Screen!View
  <2> QED BY <2>1, SpendingBusts, Prefixes DEF Screen!Busts
<1>3. CASE v \in DOMAIN Screen!ReportViews /\ m # "usePayOfficePurchase"
  <2>1. \E b : Screen!Views[v].key = <<"report", b>>
    BY SMTT(40), <1>3, ViewsJoined, ViewNames DEF Screen!ReportViews, Screen!View
  <2> QED BY <1>3, <2>1, SpendingBusts, Prefixes DEF Screen!Busts
<1>4. CASE m = "usePayOfficePurchase"
           /\ v \in {"useOfficePurchases", "useOfficePurchase", "useOfficePurchasesOutstanding"}
  <2>1. \/ \E b : Screen!Views[v].key = <<"office-purchases", b>>
        \/ Screen!Views[v].key = <<"office-purchase", "id">>
    BY <1>4, ViewsJoined, ViewNames DEF Screen!ExpenseViews, Screen!View
  <2>2. {<<"office-purchases">>, <<"office-purchase", "id">>} \subseteq Screen!Mutations[m].busts
    BY <1>4, MutationsJoined, MutationNames DEF Screen!ExpenseMutations,
         Screen!Spending, Screen!Mutation
  <2> QED BY <2>1, <2>2, Prefixes DEF Screen!Busts
<1> QED BY <1>1, <1>2, <1>3, <1>4

\* A sale, a return and a payment refresh the open session.
LEMMA TakingsViews ==
  ASSUME NEW m \in {"useCreateSale", "useReturnSale", "useRecordCustomerPayment",
                    "useRecordSupplierPayment"},
         NEW v \in Screen!Session
  PROVE  Screen!Busts(m, v)
<1>1. \E b : Screen!Views[v].key = <<"cash-session", b>>
  BY ViewsJoined, ViewNames DEF Screen!CashViews, Screen!View, Screen!Session
<1>2. <<"cash-session">> \in Screen!Mutations[m].busts
  BY MutationsJoined, MutationNames DEF Screen!SalesMutations, Screen!CustomerMutations,
       Screen!SupplierMutations, Screen!Mutation
<1> QED BY <1>1, <1>2, Prefixes DEF Screen!Busts

\* A purchase undone refreshes the lists of suppliers and the money position.
LEMMA UndoneViews ==
  ASSUME NEW v \in {"useSuppliers", "useSupplierSummary", "useMoneyPosition"}
  PROVE  Screen!Busts("useVoidPurchase", v)
<1>1. \E a \in {"suppliers", "report"} : \E b : Screen!Views[v].key = <<a, b>>
  BY ViewsJoined, ViewNames DEF Screen!CatalogViews, Screen!MoneyViews, Screen!View
<1>2. {<<"suppliers">>, <<"report">>} \subseteq Screen!Mutations["useVoidPurchase"].busts
  BY MutationsJoined, MutationNames DEF Screen!PurchaseMutations, Screen!Mutation
<1> QED BY <1>1, <1>2, Prefixes DEF Screen!Busts

\* A category renamed or deleted is so in the lists.
LEMMA CategoryViews ==
  ASSUME NEW m \in {"useUpdateCategory", "useDeleteCategory"},
         NEW v \in {"useCategories", "useProducts"}
  PROVE  Screen!Busts(m, v)
<1>1. Screen!Views[v].key = <<"categories">> \/ \E b : Screen!Views[v].key = <<"products", b>>
  BY ViewsJoined, ViewNames DEF Screen!ProductViews, Screen!CatalogViews, Screen!View
<1>2. {<<"categories">>, <<"products">>} \subseteq Screen!Mutations[m].busts
  BY MutationsJoined, MutationNames DEF Screen!CategoryMutations, Screen!Mutation
<1> QED BY <1>1, <1>2, Prefixes DEF Screen!Busts

\* ... and a category of expenses in the lists of expenses and the reports.
LEMMA ExpenseCategoryViews ==
  ASSUME NEW v \in {"useExpenses", "useExpensesByCategory", "useExpenseCategories"}
  PROVE  Screen!Busts("useUpdateExpenseCategory", v)
<1>1. \/ Screen!Views[v].key = <<"expense-categories">>
      \/ \E a \in {"expenses", "report"} : \E b : Screen!Views[v].key = <<a, b>>
  BY ViewsJoined, ViewNames DEF Screen!ExpenseViews, Screen!ReportViews, Screen!ExpenseCategoryViews,
       Screen!View
<1>2. {<<"expense-categories">>, <<"expenses">>, <<"report">>}
          \subseteq Screen!Mutations["useUpdateExpenseCategory"].busts
  BY MutationsJoined, MutationNames DEF Screen!ExpenseCategoryMutations, Screen!Mutation
<1> QED BY <1>1, <1>2, Prefixes DEF Screen!Busts

\* A variant changed is changed on the page of its product.
LEMMA VariantViews ==
  ASSUME NEW m \in {"useUpdateVariant", "useDeactivateVariant", "useRemoveVariant"}
  PROVE  Screen!Busts(m, "useProduct")
<1>1. Screen!Views["useProduct"].key = <<"product", "id">>
  BY ViewsJoined, ViewNames DEF Screen!ProductViews, Screen!View
<1>2. <<"product">> \in Screen!Mutations[m].busts
  BY MutationsJoined, MutationNames DEF Screen!ProductMutations, Screen!Mutation
<1> QED BY <1>1, <1>2, Prefixes DEF Screen!Busts

\* A view that is said to be stale and is not overlooked is invalidated: claim by claim.
LEMMA SaidIsBusted ==
  ASSUME NEW m, NEW v, Screen!Said(m, v), <<m, v>> \notin Screen!Overlooked
  PROVE  Screen!Busts(m, v)
<1>0. PICK c \in Screen!Claims : m \in c.by /\ v \in c.among /\ Screen!Shows(v, c.tables)
  BY DEF Screen!Said
<1>1. CASE c = Screen!Claim(DOMAIN Screen!MoneyMutations, {"till", "bank", "hand", "loans"}, Screen!AllViews)
  <2>1. v \in DOMAIN Screen!Views /\ m \in DOMAIN Screen!MoneyMutations
        /\ Screen!Shows(v, {"till", "bank", "hand", "loans"})
    BY <1>0, <1>1 DEF Screen!Claim, Screen!AllViews
  <2>2. v \in DOMAIN Screen!MoneyViews \union Screen!Session
    BY <2>1, WhereShown, ViewNames DEF Where, Screen!Shows, Screen!Session
  <2> QED BY <2>1, <2>2, MoneyBusts
<1>2. CASE c = Screen!Claim(DOMAIN Screen!StockMutations, {"stock"}, Screen!AllViews)
  <2>1. v \in DOMAIN Screen!Views /\ m \in DOMAIN Screen!StockMutations /\ Screen!Shows(v, {"stock"})
    BY <1>0, <1>2 DEF Screen!Claim, Screen!AllViews
  <2>2. v \notin {"useProduct", "useServices", "useService"}
    BY <2>1 DEF Screen!Overlooked
  <2>3. v \in DOMAIN Screen!StockViews \union DOMAIN Screen!ReportViews \union {"useProducts", "useLowStockProducts"}
    BY <2>1, <2>2, WhereShown, ViewNames DEF Where, Screen!Shows
  <2> QED BY <2>1, <2>3, StockBustsAll
<1>3. CASE c = Screen!Claim((DOMAIN Screen!ExpenseMutations \ {"usePayOfficePurchase"})
                               \union DOMAIN Screen!SalaryMutations,
                           {"expenses"}, DOMAIN Screen!ReportViews)
  <2>1. /\ m \in DOMAIN Screen!ExpenseMutations \union DOMAIN Screen!SalaryMutations
        /\ m # "usePayOfficePurchase" /\ v \in DOMAIN Screen!ReportViews
    BY <1>0, <1>3, MutationNames DEF Screen!Claim
  <2> QED BY <2>1, SpendingViews
<1>4. CASE c = Screen!Claim(DOMAIN Screen!ExpenseMutations \union DOMAIN Screen!SalaryMutations,
                           {"till", "hand"}, Screen!AllViews)
  <2>1. v \in DOMAIN Screen!Views /\ m \in DOMAIN Screen!ExpenseMutations \union DOMAIN Screen!SalaryMutations
        /\ Screen!Shows(v, {"till", "hand"})
    BY <1>0, <1>4 DEF Screen!Claim, Screen!AllViews
  <2>2. v \in {"useCurrentCashSession", "useCashSessionSummary", "useHandSummary",
               "useHandStatement", "useMoneyPosition"}
    BY <2>1, WhereShown DEF Where, Screen!Shows
  <2> QED BY <2>1, <2>2, SpendingViews
<1>5. CASE c = Screen!Claim({"usePayOfficePurchase"}, {"expenses"},
                           {"useOfficePurchases", "useOfficePurchase", "useOfficePurchasesOutstanding"})
  <2>1. m = "usePayOfficePurchase"
        /\ v \in {"useOfficePurchases", "useOfficePurchase", "useOfficePurchasesOutstanding"}
    BY <1>0, <1>5 DEF Screen!Claim
  <2> QED BY <2>1, SpendingViews, MutationNames
<1>6. CASE c = Screen!Claim(DOMAIN Screen!SalesMutations \union {"useRecordCustomerPayment", "useRecordSupplierPayment"},
                           {"till"}, Screen!Session)
  <2>1. m \in DOMAIN Screen!SalesMutations \union {"useRecordCustomerPayment", "useRecordSupplierPayment"}
        /\ v \in Screen!Session
    BY <1>0, <1>6 DEF Screen!Claim
  <2>2. m # "useVoidSale"
    BY <2>1 DEF Screen!Overlooked
  <2> QED BY <2>1, <2>2, TakingsViews, MutationNames
<1>7. CASE c = Screen!Claim({"useVoidPurchase"}, {"stock", "suppliers", "till"}, Screen!AllViews)
  <2>1. v \in DOMAIN Screen!Views /\ m = "useVoidPurchase" /\ Screen!Shows(v, {"stock", "suppliers", "till"})
    BY <1>0, <1>7 DEF Screen!Claim, Screen!AllViews
  <2>2. v \notin {"useProduct", "useServices", "useService", "useSupplier",
                  "useCurrentCashSession", "useCashSessionSummary"}
    BY <2>1 DEF Screen!Overlooked, Screen!Session
  <2>3. \/ v \in DOMAIN Screen!StockViews \union DOMAIN Screen!ReportViews \union {"useProducts", "useLowStockProducts"}
        \/ v \in {"useSuppliers", "useSupplierSummary", "useMoneyPosition"}
    BY <2>1, <2>2, WhereShown, ViewNames DEF Where, Screen!Shows
  <2> QED BY <2>1, <2>3, StockBustsAll, UndoneViews
<1>8. CASE c = Screen!Claim({"useUpdateCategory", "useDeleteCategory"}, {"categories"}, Screen!AllViews)
  <2>1. v \in DOMAIN Screen!Views /\ m \in {"useUpdateCategory", "useDeleteCategory"} /\ Screen!Shows(v, {"categories"})
    BY <1>0, <1>8 DEF Screen!Claim, Screen!AllViews
  <2>2. v # "useProduct"
    BY <2>1 DEF Screen!Overlooked
  <2>3. v \in {"useCategories", "useProducts"}
    BY <2>1, <2>2, WhereShown DEF Where, Screen!Shows
  <2> QED BY <2>1, <2>3, CategoryViews
<1>9. CASE c = Screen!Claim({"useUpdateExpenseCategory"}, {"expenseCategories"}, Screen!AllViews)
  <2>1. v \in DOMAIN Screen!Views /\ m = "useUpdateExpenseCategory" /\ Screen!Shows(v, {"expenseCategories"})
    BY <1>0, <1>9 DEF Screen!Claim, Screen!AllViews
  <2>2. v \notin {"useOfficePurchases", "useOfficePurchase", "useSalaries"}
    BY <2>1 DEF Screen!Overlooked
  <2>3. v \in {"useExpenses", "useExpensesByCategory", "useExpenseCategories"}
    BY <2>1, <2>2, WhereShown DEF Where, Screen!Shows
  <2> QED BY <2>1, <2>3, ExpenseCategoryViews
<1>10. CASE c = Screen!Claim({"useUpdateVariant", "useDeactivateVariant", "useRemoveVariant"},
                            {"products"}, {"useProduct"})
  <2>1. m \in {"useUpdateVariant", "useDeactivateVariant", "useRemoveVariant"} /\ v = "useProduct"
    BY <1>0, <1>10 DEF Screen!Claim
  <2> QED BY <2>1, VariantViews
<1> QED BY <1>0, <1>1, <1>2, <1>3, <1>4, <1>5, <1>6, <1>7, <1>8, <1>9, <1>10, Zenon DEF Screen!Claims

\* A view that is promised is one that is invalidated, and one that changes.
LEMMA PromisesKept ==
  ASSUME NEW m, NEW v, Screen!Promised(m, v)
  PROVE  Screen!Busts(m, v) /\ Screen!Touches(m, v)
  BY SaidIsBusted DEF Screen!Promised
-----------------------------------------------------------------------------
OpStages == {"none", "applied", "answered", "unheard", "elsewhere"}
ScreenOps == [stage : OpStages, touches : BOOLEAN, busts : BOOLEAN, promised : BOOLEAN]

\* A change of what the view shows, made here, whose answer came and invalidated it; a
\* fetch that was under way did not let it go.
Heard(i) == op[i].stage = "answered" /\ op[i].touches /\ op[i].busts /\ i \notin missed

ScreenInv ==
    /\ op \in [Screen!Ops -> ScreenOps]
    /\ \A i \in Screen!Ops : op[i].promised => op[i].busts /\ op[i].touches
    /\ \A i \in Screen!Ops : Heard(i) /\ data # Screen!NoData /\ i \notin data => invalid
    /\ \A i \in Screen!Ops : Heard(i) /\ fetch.stage = "read" => i \in fetch.seen

\* The invariant is what makes a change seen.
LEMMA ScreenShows == ScreenInv => Screen!OwnChangesShown
  BY DEF ScreenInv, Heard, Screen!OwnChangesShown

\* Nothing is shown or changed yet.
LEMMA ScreenInit == Screen!Init => ScreenInv
  BY DEF Screen!Init, ScreenInv, Heard, Screen!NoOp, Screen!Idle, ScreenOps, OpStages

\* What the screen and its fetches do to what is shown.
LEMMA ScreenRead ==
  ASSUME ScreenInv, Screen!Read
  PROVE  ScreenInv'
  BY DEF ScreenInv, Heard, Screen!Read, Screen!Committed, ScreenOps

\* What arrives was read after every change it must show.
LEMMA ScreenArrive ==
  ASSUME ScreenInv, Screen!Arrive
  PROVE  ScreenInv'
  BY DEF ScreenInv, Heard, Screen!Arrive, Screen!Idle

\* A view comes, goes, is forgotten or asked for again.
LEMMA ScreenFetch ==
  ASSUME ScreenInv, Screen!Mount \/ Screen!Unmount \/ Screen!Forget \/ Screen!Poll \/ Screen!Fail
  PROVE  ScreenInv'
<1>1. CASE Screen!Mount
  BY <1>1 DEF ScreenInv, Heard, Screen!Mount, Screen!Asked
<1>2. CASE Screen!Unmount
  BY <1>2 DEF ScreenInv, Heard, Screen!Unmount
<1>3. CASE Screen!Forget
  BY <1>3 DEF ScreenInv, Heard, Screen!Forget, Screen!Idle
<1>4. CASE Screen!Poll
  BY <1>4 DEF ScreenInv, Heard, Screen!Poll, Screen!Asked
<1>5. CASE Screen!Fail
  BY <1>5 DEF ScreenInv, Heard, Screen!Fail, Screen!Idle
<1> QED BY <1>1, <1>2, <1>3, <1>4, <1>5

\* A change that goes on without touching the cache.
LEMMA ScreenChange ==
  ASSUME ScreenInv, NEW i \in Screen!Ops, NEW o \in ScreenOps,
         o.stage # "answered", o.promised => o.busts /\ o.touches,
         op' = [op EXCEPT ![i] = o], UNCHANGED Screen!cache
  PROVE  ScreenInv'
  BY DEF ScreenInv, Heard, Screen!cache

\* A change is made on this station.
LEMMA ScreenMutate ==
  ASSUME ScreenInv, NEW i \in Screen!Ops, NEW m, Screen!Mutate(i, m)
  PROVE  ScreenInv'
<1> DEFINE o == [stage |-> "applied", touches |-> Screen!Touches(m, watched),
                 busts |-> Screen!Busts(m, watched), promised |-> Screen!Promised(m, watched)]
<1>1. op' = [op EXCEPT ![i] = o] /\ UNCHANGED Screen!cache
  BY DEF Screen!Mutate
<1>2. Screen!Touches(m, watched) \in BOOLEAN /\ Screen!Busts(m, watched) \in BOOLEAN
      /\ Screen!Promised(m, watched) \in BOOLEAN
  BY DEF Screen!Touches, Screen!Shows, Screen!Busts, Screen!Promised, Screen!Said
<1>3. o \in ScreenOps
  BY <1>2 DEF ScreenOps, OpStages
<1>4. o.promised => o.busts /\ o.touches
  BY PromisesKept
<1> HIDE DEF o
<1>5. o.stage # "answered"
  BY DEF o
<1> QED BY <1>1, <1>3, <1>4, <1>5, ScreenChange

\* A change is made on another, which promises nothing here.
LEMMA ScreenElsewhere ==
  ASSUME ScreenInv, NEW i \in Screen!Ops, NEW m, Screen!Elsewhere(i, m)
  PROVE  ScreenInv'
<1> DEFINE o == [Screen!NoOp EXCEPT !.stage = "elsewhere", !.touches = TRUE]
<1>1. op' = [op EXCEPT ![i] = o] /\ UNCHANGED Screen!cache
  BY DEF Screen!Elsewhere
<1>2. o \in ScreenOps /\ o.stage # "answered" /\ ~o.promised
  BY DEF ScreenOps, OpStages, Screen!NoOp
<1> HIDE DEF o
<1> QED BY <1>1, <1>2, ScreenChange

\* The answer to a change is lost.
LEMMA ScreenLoseAnswer ==
  ASSUME ScreenInv, NEW i \in Screen!Ops, Screen!LoseAnswer(i)
  PROVE  ScreenInv'
<1> DEFINE o == [op[i] EXCEPT !.stage = "unheard"]
<1>1. op' = [op EXCEPT ![i] = o] /\ UNCHANGED Screen!cache
  BY DEF Screen!LoseAnswer
<1>2. o \in ScreenOps /\ o.stage # "answered" /\ (o.promised => o.busts /\ o.touches)
  BY DEF ScreenInv, ScreenOps, OpStages
<1> HIDE DEF o
<1> QED BY <1>1, <1>2, ScreenChange

\* The answer to a change invalidates the view before it counts as answered.
LEMMA ScreenAnswer ==
  ASSUME ScreenInv, NEW i \in Screen!Ops, Screen!Answer(i)
  PROVE  ScreenInv'
<1> DEFINE o == [op[i] EXCEPT !.stage = "answered"]
<1>1. op' = [op EXCEPT ![i] = o] /\ data' = data /\ mounted' = mounted
  BY DEF Screen!Answer
<1>2. o \in ScreenOps /\ o.stage = "answered" /\ o.touches = op[i].touches /\ o.busts = op[i].busts
      /\ (o.promised => o.busts /\ o.touches)
  BY DEF ScreenInv, ScreenOps, OpStages
<1> HIDE DEF o
<1>3. /\ op' \in [Screen!Ops -> ScreenOps] /\ op'[i] = o
      /\ \A j \in Screen!Ops \ {i} : op'[j] = op[j]
  BY <1>1, <1>2 DEF ScreenInv
<1>4. CASE ~op[i].busts
  BY <1>1, <1>2, <1>3, <1>4 DEF ScreenInv, Heard, Screen!Answer
<1>5. CASE op[i].busts
  <2> DEFINE restart == mounted /\ (fetch = Screen!Idle \/ data # Screen!NoData)
  <2>1. /\ data # Screen!NoData \/ invalid => invalid'
        /\ restart => fetch' = Screen!Asked /\ missed' = missed
        /\ ~restart => fetch' = fetch
        /\ ~restart /\ fetch.stage = "read" => missed' = missed \union {i}
        /\ ~restart /\ fetch.stage # "read" => missed' = missed
    BY <1>5 DEF Screen!Answer, Screen!Invalidate
  <2> HIDE DEF restart
  <2>2. ASSUME NEW j \in Screen!Ops, Heard(j)', data' # Screen!NoData, j \notin data'
        PROVE  invalid'
    BY <1>1, <1>3, <2>1, <2>2 DEF ScreenInv, Heard
  <2>3. ASSUME NEW j \in Screen!Ops, Heard(j)', fetch'.stage = "read"
        PROVE  j \in fetch'.seen
    <3>1. ~restart
      BY <2>1, <2>3 DEF Screen!Asked
    <3>2. j # i
      BY <2>1, <2>3, <3>1 DEF Heard
    <3> QED BY <1>3, <2>1, <2>3, <3>1, <3>2 DEF ScreenInv, Heard
  <2>4. \A j \in Screen!Ops : op'[j].promised => op'[j].busts /\ op'[j].touches
    BY <1>2, <1>3 DEF ScreenInv
  <2> QED BY <1>3, <2>2, <2>3, <2>4 DEF ScreenInv
<1> QED BY <1>4, <1>5

\* Every step of a view keeps the invariant.
LEMMA ScreenNext ==
  ASSUME ScreenInv, Screen!Next
  PROVE  ScreenInv'
  BY ScreenFetch, ScreenRead, ScreenArrive, ScreenMutate, ScreenElsewhere,
       ScreenAnswer, ScreenLoseAnswer DEF Screen!Next

\* ... and so does every step of another part.
LEMMA ScreenRests ==
  ASSUME ScreenInv, UNCHANGED screen
  PROVE  ScreenInv'
  BY DEF ScreenInv, Heard, screen

-----------------------------------------------------------------------------
(* A product or service in its form (ItemEditor). *)

EditorParts == [stage : {"none", "active", "inactive", "gone"}, value : Nat, from : Nat]
EditorRows == [id : Int, value : Nat]

EditorTypeOK ==
    /\ kind \in {"product", "service"}
    /\ edits \in 0..MaxEdits
    /\ part \in [Editor!Parts -> EditorParts]
    /\ \A p \in Editor!Parts : part[p].from <= MaxVariants + edits
    /\ \A p \in Editor!Parts : part[p].stage = "none" => part[p].from \in Editor!Parts
    /\ copy = [held |-> copy.held, rows |-> copy.rows]
    /\ \A p \in DOMAIN copy.rows : p \in Editor!Parts /\ copy.rows[p] \in Nat /\ part[p].stage # "none"
    /\ editor = [open |-> editor.open, rows |-> editor.rows, dropped |-> editor.dropped]
    /\ saves = [w \in {"here", "left"} |-> saves[w]]

\* Rows of a form, or of a save: those of parts have their part's number, those added a number
\* no part had when they were added.
GoodRows(rs) ==
    \A k \in DOMAIN rs :
        /\ k \in 0..(MaxVariants + edits) /\ rs[k] \in EditorRows
        /\ k \in Editor!Parts => rs[k].id = k /\ part[k].stage # "none"
        /\ k \notin Editor!Parts => rs[k].id = Editor!Unsaved
GoodDropped(ps) == ps \subseteq Editor!Parts \ {0} /\ (kind = "product" => ps = {})

\* The rows that were added, and the parts made from them.
Added(rs) == DOMAIN rs \ Editor!Parts
MadeFrom(k) == {p \in Editor!Parts : part[p].from = k}

\* What was added to the form is made by its save, and not by one that stopped unless it is
\* remembered to be repeatable.
FormOK ==
    /\ GoodRows(editor.rows) /\ GoodDropped(editor.dropped)
    /\ \A k \in DOMAIN typed : k \in DOMAIN editor.rows /\ editor.rows[k].value = typed[k]
    /\ \A k \in Added(editor.rows) \ repeatable : k \notin DOMAIN saves["here"].rows => MadeFrom(k) = {}
    /\ \A k \in Added(editor.rows) : \A p \in MadeFrom(k) : p \notin DOMAIN editor.rows

\* The steps of a save after the rows.
LastSteps(e) ==
    IF kind = "service" THEN {MaxVariants + MaxEdits + p : p \in e.dropped} ELSE {MaxVariants + MaxEdits + 1}

SaveTypeOK(w) ==
    /\ saves[w] = [stage |-> saves[w].stage, rows |-> saves[w].rows, dropped |-> saves[w].dropped,
                   todo |-> saves[w].todo, meant |-> saves[w].meant, disturbed |-> saves[w].disturbed]
    /\ saves[w].stage \in {"none", "going", "done"}
    /\ saves[w].stage = "none" => DOMAIN saves[w].rows = {}
    /\ saves[w].stage = "done" => saves[w].todo = {}
    /\ GoodRows(saves[w].rows) /\ GoodDropped(saves[w].dropped)
    /\ \A k \in DOMAIN saves[w].meant : k \in DOMAIN saves[w].rows /\ saves[w].rows[k].value = saves[w].meant[k]
    /\ saves[w].todo \subseteq DOMAIN saves[w].rows \union LastSteps(saves[w])

\* A step of a save that is behind.
Handled(w, k) == saves[w].stage # "none" /\ k \notin saves[w].todo

\* What a save has done stands, but for what others have changed since.
SaveStands(w) ==
    /\ \A k \in DOMAIN saves[w].meant \intersect Editor!Parts :
           Handled(w, k) => k \in saves[w].disturbed \/ part[k].value = saves[w].meant[k]
    /\ \A k \in Added(saves[w].rows) : Handled(w, k) => MadeFrom(k) # {}
    /\ \A k \in Added(saves[w].rows) \ repeatable :
           /\ ~Handled(w, k) => MadeFrom(k) = {}
           /\ \A p, q \in MadeFrom(k) : p = q
           /\ \A p \in MadeFrom(k) : p \in saves[w].disturbed \/ part[p].value = saves[w].rows[k].value
    /\ \A k \in Added(saves[w].rows) : \A p \in MadeFrom(k) : p \notin DOMAIN saves[w].rows
    /\ \A p \in saves[w].dropped : Handled(w, MaxVariants + MaxEdits + p) =>
           p \in saves[w].disturbed \/ part[p].stage = "inactive"

SaveOK(w) == SaveTypeOK(w) /\ SaveStands(w)

\* A row added belongs to one form and its save: not also to a form left.
Apart ==
    /\ Added(saves["here"].rows) \intersect Added(saves["left"].rows) = {}
    /\ Added(editor.rows) \intersect Added(saves["left"].rows) = {}

EditorInv == EditorTypeOK /\ FormOK /\ SaveOK("here") /\ SaveOK("left") /\ Apart

\* What is assumed of the bounds.
LEMMA EditorBounds == MaxVariants \in Nat \ {0} /\ MaxEdits \in Nat
  BY FrontEndAssumption DEF FrontEndAssumption

\* The last key of a row.
LEMMA EditorKeys == Editor!Max(Editor!Keys) = MaxVariants + MaxEdits
<1>1. /\ MaxVariants + MaxEdits \in Editor!Keys
      /\ \A k \in Editor!Keys : k \in Int /\ k <= MaxVariants + MaxEdits
  BY EditorBounds DEF Editor!Keys
<1> QED BY <1>1, EditorBounds DEF Editor!Max

\* The steps of a save: its rows, then the options dropped or the picture.
LEMMA EditorSteps ==
    Editor!Steps(editor) = DOMAIN editor.rows \union LastSteps(editor)
  BY EditorKeys DEF LastSteps, Editor!Steps, Editor!DroppedKey, Editor!PictureKey

\* A nonempty set of numbers has a least one.
LEMMA LeastOf ==
  ASSUME NEW S, S \subseteq Nat, S # {}
  PROVE  Editor!Min(S) \in S
<1>1. PICK x \in S : \A y \in S : ~(<<y, x>> \in OpToRel(<, Nat))
  BY WFMin, NatLessThanWellFounded
<1>2. ASSUME NEW y \in S PROVE x <= y
  <2>1. x \in Nat /\ y \in Nat
    OBVIOUS
  <2>2. y < x => <<y, x>> \in OpToRel(<, Nat)
    BY <2>1 DEF OpToRel
  <2>3. ~(y < x)
    BY <1>1, <2>2, Zenon
  <2> QED BY <2>1, <2>3
<1> QED BY <1>2 DEF Editor!Min

\* The Cardinality of the instance is that of FiniteSets.
LEMMA EditorCounted == ASSUME NEW S PROVE Editor!Cardinality(S) = Cardinality(S)
  BY DEF Editor!Cardinality, Cardinality

\* The invariant is what makes a save right: every step is behind, and what it did stands.
LEMMA EditorSaves == EditorInv => Editor!SavedAsTyped
<1> SUFFICES ASSUME EditorInv, NEW w \in DOMAIN saves, saves[w].stage = "done"
             PROVE  /\ \A k \in DOMAIN saves[w].meant :
                           IF k \in Editor!Parts THEN k \in saves[w].disturbed \/ part[k].value = saves[w].meant[k]
                           ELSE /\ MadeFrom(k) # {}
                                /\ k \notin repeatable =>
                                      /\ Editor!Cardinality(MadeFrom(k)) = 1
                                      /\ \/ Editor!Max(MadeFrom(k)) \in saves[w].disturbed
                                         \/ part[Editor!Max(MadeFrom(k))].value = saves[w].meant[k]
                    /\ \A p \in saves[w].dropped \ saves[w].disturbed : part[p].stage = "inactive"
  BY DEF Editor!SavedAsTyped, MadeFrom
<1>1. SaveOK(w) /\ \A k : Handled(w, k)
  BY DEF EditorInv, EditorTypeOK, SaveOK, SaveTypeOK, Handled
<1>2. ASSUME NEW k \in DOMAIN saves[w].meant, k \notin Editor!Parts
      PROVE  /\ MadeFrom(k) # {}
             /\ k \notin repeatable =>
                   /\ Editor!Cardinality(MadeFrom(k)) = 1
                   /\ \/ Editor!Max(MadeFrom(k)) \in saves[w].disturbed
                      \/ part[Editor!Max(MadeFrom(k))].value = saves[w].meant[k]
  <2>1. k \in Added(saves[w].rows) /\ MadeFrom(k) # {} /\ saves[w].rows[k].value = saves[w].meant[k]
    BY <1>1, <1>2 DEF SaveOK, SaveTypeOK, SaveStands, Added
  <2>2. ASSUME k \notin repeatable
        PROVE  /\ Editor!Cardinality(MadeFrom(k)) = 1
               /\ \/ Editor!Max(MadeFrom(k)) \in saves[w].disturbed
                  \/ part[Editor!Max(MadeFrom(k))].value = saves[w].meant[k]
    <3>1. PICK p \in MadeFrom(k) : MadeFrom(k) = {p} /\ (p \in saves[w].disturbed \/ part[p].value = saves[w].meant[k])
      BY <1>1, <2>1, <2>2 DEF SaveOK, SaveStands
    <3>2. Editor!Cardinality({p}) = 1
      BY EditorCounted, FS_Singleton
    <3>3. Editor!Max({p}) = p
      BY EditorBounds DEF MadeFrom, Editor!Parts, Editor!Max
    <3> QED BY <3>1, <3>2, <3>3
  <2> QED BY <2>1, <2>2
<1>3. \A k \in DOMAIN saves[w].meant \intersect Editor!Parts : k \in saves[w].disturbed \/ part[k].value = saves[w].meant[k]
  BY <1>1 DEF SaveOK, SaveStands
<1>4. \A p \in saves[w].dropped \ saves[w].disturbed : part[p].stage = "inactive"
  BY <1>1 DEF SaveOK, SaveStands
<1> QED BY <1>2, <1>3, <1>4

\* A save that is not of this step stays right if what it does not know to be disturbed stays;
\* so does the save of a form that is left.
LEMMA SaveStays ==
  ASSUME NEW w, NEW v, SaveOK(w), UNCHANGED kind, edits \in Nat, edits' \in Nat, edits <= edits',
         saves'[v] = [saves[w] EXCEPT !.disturbed = saves'[v].disturbed],
         saves[w].disturbed \subseteq saves'[v].disturbed, repeatable \subseteq repeatable',
         \A p \in Editor!Parts :
             /\ part[p].stage # "none" => part'[p].stage # "none"
             /\ \/ p \in saves'[v].disturbed
                \/ part'[p].value = part[p].value
                   /\ (p \in saves[w].dropped /\ part[p].stage = "inactive" => part'[p].stage = "inactive"),
         \A k \in Added(saves[w].rows) : MadeFrom(k)' = MadeFrom(k)
  PROVE  SaveOK(v)'
<1>1. /\ saves'[v].stage = saves[w].stage /\ saves'[v].rows = saves[w].rows
      /\ saves'[v].dropped = saves[w].dropped /\ saves'[v].todo = saves[w].todo
      /\ saves'[v].meant = saves[w].meant
      /\ saves'[v] = [stage |-> saves'[v].stage, rows |-> saves'[v].rows, dropped |-> saves'[v].dropped,
                      todo |-> saves'[v].todo, meant |-> saves'[v].meant, disturbed |-> saves'[v].disturbed]
  BY DEF SaveOK, SaveTypeOK
<1>2. SaveTypeOK(v)'
  <2>1. GoodRows(saves[v].rows)'
    BY <1>1, EditorBounds DEF SaveOK, SaveTypeOK, GoodRows
  <2> QED BY <1>1, <2>1 DEF SaveOK, SaveTypeOK, GoodDropped, LastSteps
<1>3. /\ \A k : Handled(v, k)' <=> Handled(w, k)
      /\ Added(saves[v].rows)' = Added(saves[w].rows)
  BY <1>1 DEF Handled, Added
<1>4. Added(saves[w].rows) \ repeatable' \subseteq Added(saves[w].rows) \ repeatable
  OBVIOUS
<1>5. \A k \in DOMAIN saves'[v].meant \intersect Editor!Parts :
          Handled(v, k)' => k \in saves'[v].disturbed \/ part'[k].value = saves'[v].meant[k]
  BY <1>1, <1>3 DEF SaveOK, SaveStands
<1>6. \A p \in saves'[v].dropped : Handled(v, MaxVariants + MaxEdits + p)' =>
          p \in saves'[v].disturbed \/ part'[p].stage = "inactive"
  BY <1>1, <1>3 DEF SaveOK, SaveTypeOK, SaveStands, GoodDropped
<1>7. \A k \in Added(saves[w].rows) \ repeatable' :
          /\ ~Handled(w, k) => MadeFrom(k)' = {}
          /\ \A p, q \in MadeFrom(k)' : p = q
          /\ \A p \in MadeFrom(k)' : p \in saves'[v].disturbed \/ part'[p].value = saves[w].rows[k].value
  <2> SUFFICES ASSUME NEW k \in Added(saves[w].rows) \ repeatable
               PROVE  /\ ~Handled(w, k) => MadeFrom(k) = {}
                      /\ \A p, q \in MadeFrom(k) : p = q
                      /\ \A p \in MadeFrom(k) : p \in saves'[v].disturbed \/ part'[p].value = saves[w].rows[k].value
    BY <1>4
  <2>1. MadeFrom(k) \subseteq Editor!Parts
    BY DEF MadeFrom
  <2> QED BY <2>1 DEF SaveOK, SaveStands
<1>8. \A k \in Added(saves[w].rows) : /\ Handled(w, k) => MadeFrom(k)' # {}
                                      /\ \A p \in MadeFrom(k)' : p \notin DOMAIN saves[w].rows
  BY DEF SaveOK, SaveStands
<1>9. SaveStands(v)'
  BY <1>1, <1>3, <1>5, <1>6, <1>7, <1>8 DEF SaveStands
<1> QED BY <1>2, <1>9 DEF SaveOK

\* A save that is not under way is right.
LEMMA SaveNone ==
  ASSUME NEW v, saves'[v] = Editor!NoSave
  PROVE  SaveOK(v)' /\ Added(saves'[v].rows) = {}
<1>1. /\ saves'[v] = [stage |-> "none", rows |-> <<>>, dropped |-> {}, todo |-> {}, meant |-> <<>>, disturbed |-> {}]
      /\ DOMAIN <<>> = {}
  BY DEF Editor!NoSave
<1>2. /\ saves'[v].stage = "none" /\ DOMAIN saves'[v].rows = {} /\ DOMAIN saves'[v].meant = {}
      /\ saves'[v].dropped = {} /\ saves'[v].todo = {}
  BY <1>1
<1>3. SaveTypeOK(v)'
  BY <1>1, <1>2 DEF SaveTypeOK, GoodRows, GoodDropped
<1>4. SaveStands(v)' /\ Added(saves'[v].rows) = {}
  BY <1>2 DEF SaveStands, Added
<1> QED BY <1>3, <1>4 DEF SaveOK

\* The parts are as they were made, and nothing is open.
LEMMA EditorInit == Editor!EditorInit => EditorInv
<1> SUFFICES ASSUME Editor!EditorInit PROVE EditorInv
  OBVIOUS
<1>1. /\ editor = [open |-> FALSE, rows |-> <<>>, dropped |-> {}] /\ typed = <<>>
      /\ copy = [held |-> FALSE, rows |-> <<>>] /\ edits = 0
      /\ saves = [w \in {"here", "left"} |-> [stage |-> "none", rows |-> <<>>, dropped |-> {}, todo |-> {},
                                              meant |-> <<>>, disturbed |-> {}]]
  BY DEF Editor!EditorInit, Editor!NoEditor, Editor!NoCopy, Editor!NoSave
<1>2. DOMAIN editor.rows = {} /\ DOMAIN typed = {} /\ DOMAIN copy.rows = {} /\ editor.dropped = {}
      /\ saves = [w \in {"here", "left"} |-> saves[w]] /\ editor = [open |-> editor.open, rows |-> editor.rows, dropped |-> editor.dropped]
  BY <1>1
<1>3. part \in [Editor!Parts -> EditorParts] /\ \A p \in Editor!Parts : part[p].from = p
  BY EditorBounds DEF Editor!EditorInit, Editor!Part, EditorParts, Editor!Parts
<1>4. EditorTypeOK
  BY <1>1, <1>2, <1>3, EditorBounds DEF EditorTypeOK, Editor!EditorInit, Editor!Parts
<1>5. ASSUME NEW w \in {"here", "left"} PROVE SaveOK(w) /\ Added(saves[w].rows) = {}
  <2>1. /\ saves[w] = [stage |-> "none", rows |-> <<>>, dropped |-> {}, todo |-> {}, meant |-> <<>>, disturbed |-> {}]
        /\ DOMAIN <<>> = {}
    BY <1>1
  <2>2. /\ saves[w].stage = "none" /\ DOMAIN saves[w].rows = {} /\ DOMAIN saves[w].meant = {}
        /\ saves[w].dropped = {} /\ saves[w].todo = {}
    BY <2>1
  <2>3. SaveTypeOK(w)
    BY <2>1, <2>2 DEF SaveTypeOK, GoodRows, GoodDropped
  <2>4. SaveStands(w) /\ Added(saves[w].rows) = {}
    BY <2>2 DEF SaveStands, Added
  <2> QED BY <2>3, <2>4 DEF SaveOK
<1>6. FormOK /\ Added(editor.rows) = {}
  BY <1>2 DEF FormOK, GoodRows, GoodDropped, Added
<1> QED BY <1>4, <1>5, <1>6 DEF EditorInv, Apart

\* The cached copy is fetched anew.
LEMMA EditorCopy ==
  ASSUME EditorInv, Editor!Fetch
  PROVE  EditorInv'
<1>1. UNCHANGED <<kind, part, editor, saves, typed, repeatable, edits>>
  BY DEF Editor!Fetch
<1>2. /\ copy' = [held |-> copy'.held, rows |-> copy'.rows]
      /\ \A p \in DOMAIN copy'.rows : p \in Editor!Parts /\ copy'.rows[p] \in Nat /\ part[p].stage # "none"
  <2>1. copy' = [held |-> TRUE, rows |-> [p \in Editor!Live |-> part[p].value]]
    BY DEF Editor!Fetch
  <2>2. \A p \in Editor!Live : p \in Editor!Parts /\ part[p].value \in Nat /\ part[p].stage # "none"
    BY DEF Editor!Live, EditorInv, EditorTypeOK, EditorParts
  <2> QED BY <2>1, <2>2
<1>3. EditorTypeOK'
  BY <1>1, <1>2 DEF EditorInv, EditorTypeOK
<1> QED BY <1>1, <1>3 DEF EditorInv, FormOK, SaveOK, SaveTypeOK, SaveStands, Apart,
          GoodRows, GoodDropped, LastSteps, Handled, Added, MadeFrom

\* The form goes, and a save with it, or it stays behind.
LEMMA EditorClosed ==
  ASSUME EditorInv, NEW w \in {"here", "left", "none"},
         Editor!CloseForm(IF w = "none" THEN Editor!NoSave ELSE saves[w]),
         copy' = copy \/ copy' = Editor!NoCopy, UNCHANGED <<kind, part, repeatable, edits>>
  PROVE  EditorInv'
<1>1. /\ editor' = [open |-> FALSE, rows |-> <<>>, dropped |-> {}] /\ typed' = <<>>
      /\ DOMAIN editor'.rows = {} /\ DOMAIN typed' = {} /\ editor'.dropped = {}
      /\ editor' = [open |-> editor'.open, rows |-> editor'.rows, dropped |-> editor'.dropped]
  BY DEF Editor!CloseForm, Editor!NoEditor
<1>2. /\ saves' = [v \in {"here", "left"} |-> saves'[v]] /\ saves'["here"] = Editor!NoSave
      /\ saves'["left"] = IF w = "none" THEN Editor!NoSave ELSE saves[w]
  BY DEF Editor!CloseForm
<1>3. /\ copy' = [held |-> copy'.held, rows |-> copy'.rows]
      /\ \A p \in DOMAIN copy'.rows : p \in Editor!Parts /\ copy'.rows[p] \in Nat /\ part[p].stage # "none"
  <2>1. CASE copy' = copy
    BY <2>1 DEF EditorInv, EditorTypeOK
  <2>2. CASE copy' = Editor!NoCopy
    <3>1. copy' = [held |-> FALSE, rows |-> <<>>] /\ DOMAIN <<>> = {}
      BY <2>2 DEF Editor!NoCopy
    <3> QED BY <3>1
  <2> QED BY <2>1, <2>2
<1>4. EditorTypeOK'
  BY <1>1, <1>2, <1>3 DEF EditorInv, EditorTypeOK
<1>5. FormOK' /\ Added(editor'.rows) = {}
  BY <1>1 DEF FormOK, GoodRows, GoodDropped, Added
<1>6. SaveOK("here")' /\ Added(saves'["here"].rows) = {}
  BY <1>2, SaveNone
<1>7. SaveOK("left")'
  <2>1. CASE w = "none"
    BY <1>2, <2>1, SaveNone
  <2>2. CASE w # "none"
    <3>1. SaveOK(w) /\ saves'["left"] = saves[w]
      BY <1>2, <2>2 DEF EditorInv
    <3>2. saves'["left"] = [saves[w] EXCEPT !.disturbed = saves'["left"].disturbed]
      BY <3>1 DEF SaveOK, SaveTypeOK
    <3>3. edits \in Nat /\ \A k : MadeFrom(k)' = MadeFrom(k)
      BY EditorBounds DEF EditorInv, EditorTypeOK, MadeFrom
    <3> QED BY <3>1, <3>2, <3>3, SaveStays
  <2> QED BY <2>1, <2>2
<1> QED BY <1>4, <1>5, <1>6, <1>7 DEF EditorInv, Apart

\* The page is left or loaded anew, or goes when a save is done.
LEMMA EditorCloses ==
  ASSUME EditorInv, \/ Editor!LeaveEditor \/ Editor!ReloadEditor
                    \/ \E w \in DOMAIN saves : Editor!Finish(w)
  PROVE  EditorInv'
<1>1. CASE Editor!LeaveEditor
  BY <1>1, EditorClosed DEF Editor!LeaveEditor
<1>2. CASE Editor!ReloadEditor
  BY <1>2, EditorClosed DEF Editor!ReloadEditor
<1>3. CASE \E w \in DOMAIN saves : Editor!Finish(w)
  BY <1>3, EditorClosed DEF Editor!Finish
<1> QED BY <1>1, <1>2, <1>3

\* The form is filled in from the copy.
LEMMA EditorOpenEditor ==
  ASSUME EditorInv, Editor!OpenEditor
  PROVE  EditorInv'
<1> DEFINE f == Editor!Loaded(copy)
<1>1. /\ editor' = [open |-> TRUE, rows |-> f, dropped |-> {}] /\ typed' = <<>>
      /\ UNCHANGED <<kind, part, copy, saves, repeatable, edits>>
  BY DEF Editor!OpenEditor, Editor!NoEditor
<1>a. DOMAIN typed' = {}
  BY <1>1
<1>2. \A k \in DOMAIN f : /\ k \in Editor!Parts /\ f[k] \in EditorRows
                          /\ f[k].id = k /\ part[k].stage # "none"
  BY EditorBounds DEF EditorInv, EditorTypeOK, EditorRows, Editor!Loaded, Editor!Parts
<1> HIDE DEF f
<1>3. EditorTypeOK'
  BY <1>1 DEF EditorInv, EditorTypeOK
<1>4. FormOK' /\ Added(editor'.rows) = {}
  BY <1>1, <1>a, <1>2, EditorBounds DEF EditorInv, EditorTypeOK, FormOK, GoodRows, GoodDropped,
       Added, Editor!Parts
<1>5. SaveOK("here")' /\ SaveOK("left")' /\ Apart'
  BY <1>1, <1>4 DEF EditorInv, SaveOK, SaveTypeOK, SaveStands, Apart, GoodRows,
       GoodDropped, LastSteps, Handled, Added, MadeFrom
<1> QED BY <1>3, <1>4, <1>5 DEF EditorInv

\* Steps of the form alone leave the saves right.
LEMMA SavesStay ==
  ASSUME EditorInv, UNCHANGED <<kind, saves, repeatable>>, edits \in Nat, edits' \in Nat, edits <= edits',
         \A p \in Editor!Parts :
             /\ part[p].stage # "none" => part'[p].stage # "none"
             /\ part'[p].value = part[p].value /\ part'[p].from = part[p].from
             /\ kind = "product" \/ part'[p].stage = part[p].stage
  PROVE  SaveOK("here")' /\ SaveOK("left")' /\ \A k : MadeFrom(k)' = MadeFrom(k)
<1>1. \A k : MadeFrom(k)' = MadeFrom(k)
  BY DEF MadeFrom
<1>2. ASSUME NEW w \in {"here", "left"} PROVE SaveOK(w)'
  <2>1. SaveOK(w) /\ saves'[w] = saves[w]
    BY DEF EditorInv
  <2>2. saves'[w] = [saves[w] EXCEPT !.disturbed = saves'[w].disturbed]
    BY <2>1 DEF SaveOK, SaveTypeOK
  <2>3. \A p \in Editor!Parts : p \in saves[w].dropped => kind # "product"
    BY <2>1 DEF SaveOK, SaveTypeOK, GoodDropped
  <2>4. \A p \in Editor!Parts :
            /\ part[p].stage # "none" => part'[p].stage # "none"
            /\ part'[p].value = part[p].value
            /\ p \in saves[w].dropped /\ part[p].stage = "inactive" => part'[p].stage = "inactive"
    BY <2>3
  <2> QED BY <1>1, <2>1, <2>2, <2>4, SaveStays
<1> QED BY <1>1, <1>2

\* A row is typed into.
LEMMA EditorEditRow ==
  ASSUME EditorInv, NEW k, Editor!EditRow(k)
  PROVE  EditorInv'
<1>1. /\ k \in DOMAIN editor.rows /\ edits' = edits + 1 /\ edits < MaxEdits
      /\ editor'.open = editor.open /\ editor'.dropped = editor.dropped
      /\ editor'.rows = [editor.rows EXCEPT ![k].value = edits + 1]
      /\ editor' = [open |-> editor'.open, rows |-> editor'.rows, dropped |-> editor'.dropped]
      /\ UNCHANGED <<kind, part, copy, saves, repeatable>>
  BY DEF Editor!EditRow, EditorInv, EditorTypeOK
<1>2. editor.rows[k] \in EditorRows /\ k \in 0..(MaxVariants + edits) /\ edits \in Nat
  BY <1>1, EditorBounds DEF EditorInv, EditorTypeOK, FormOK, GoodRows
<1>3. /\ DOMAIN editor'.rows = DOMAIN editor.rows
      /\ editor'.rows[k] = [id |-> editor.rows[k].id, value |-> edits + 1]
      /\ \A j \in DOMAIN editor.rows \ {k} : editor'.rows[j] = editor.rows[j]
  BY <1>1, <1>2 DEF EditorRows
<1>4. /\ DOMAIN typed' = DOMAIN typed \union {k} /\ typed'[k] = edits + 1
      /\ \A j \in DOMAIN typed \ {k} : typed'[j] = typed[j]
  BY DEF Editor!EditRow, Editor!With
<1>5. EditorTypeOK'
  BY <1>1, EditorBounds DEF EditorInv, EditorTypeOK, EditorParts
<1>6. GoodRows(editor.rows)'
  BY <1>1, <1>2, <1>3, EditorBounds DEF EditorInv, FormOK, GoodRows, EditorRows
<1>7. FormOK' /\ Added(editor.rows)' = Added(editor.rows)
  BY <1>1, <1>3, <1>4, <1>6 DEF EditorInv, FormOK, GoodDropped, Added, MadeFrom
<1>8. SaveOK("here")' /\ SaveOK("left")'
  BY <1>1, <1>2, SavesStay
<1> QED BY <1>1, <1>5, <1>7, <1>8 DEF EditorInv, Apart

\* A row is added, under a number no row or part has had.
LEMMA EditorAddRow ==
  ASSUME EditorInv, Editor!AddRow
  PROVE  EditorInv'
<1> DEFINE k == MaxVariants + edits + 1
           row == [id |-> Editor!Unsaved, value |-> edits + 1]
<1>1. /\ edits' = edits + 1 /\ edits < MaxEdits
      /\ editor'.open = editor.open /\ editor'.dropped = editor.dropped
      /\ editor'.rows = Editor!With(editor.rows, k, row) /\ typed' = Editor!With(typed, k, edits + 1)
      /\ editor' = [open |-> editor'.open, rows |-> editor'.rows, dropped |-> editor'.dropped]
      /\ UNCHANGED <<kind, part, copy, saves, repeatable>>
  BY DEF Editor!AddRow, EditorInv, EditorTypeOK
<1>2. /\ DOMAIN editor'.rows = DOMAIN editor.rows \union {k} /\ editor'.rows[k] = row
      /\ \A j \in DOMAIN editor.rows \ {k} : editor'.rows[j] = editor.rows[j]
      /\ DOMAIN typed' = DOMAIN typed \union {k} /\ typed'[k] = edits + 1
      /\ \A j \in DOMAIN typed \ {k} : typed'[j] = typed[j]
  BY <1>1 DEF Editor!With
<1>3. /\ k \notin DOMAIN editor.rows /\ k \notin DOMAIN saves["left"].rows
      /\ k \in 0..(MaxVariants + edits + 1) /\ k \notin Editor!Parts /\ edits \in Nat
  BY <1>1, EditorBounds DEF EditorInv, EditorTypeOK, FormOK, SaveOK, SaveTypeOK, GoodRows,
       Editor!Parts
<1>4. MadeFrom(k) = {}
  BY EditorBounds DEF EditorInv, EditorTypeOK, EditorParts, MadeFrom
<1>5. row \in EditorRows /\ row.id = Editor!Unsaved /\ row.value = edits + 1
  BY <1>1, EditorBounds DEF EditorInv, EditorTypeOK, EditorRows, Editor!Unsaved
<1>6. EditorTypeOK'
  BY <1>1, EditorBounds DEF EditorInv, EditorTypeOK, EditorParts
<1> HIDE DEF row
<1>7. GoodRows(editor.rows)'
  BY <1>1, <1>2, <1>3, <1>5, EditorBounds DEF EditorInv, FormOK, GoodRows
<1> HIDE DEF k
<1>8. Added(editor.rows)' = Added(editor.rows) \union {k} /\ \A j : MadeFrom(j)' = MadeFrom(j)
  BY <1>1, <1>2, <1>3 DEF Added, MadeFrom
<1>9. ASSUME NEW j \in Added(editor.rows)', NEW p \in MadeFrom(j) PROVE p \notin DOMAIN editor'.rows
  BY <1>2, <1>3, <1>4, <1>8 DEF EditorInv, FormOK, MadeFrom
<1>10. FormOK'
  BY <1>1, <1>2, <1>3, <1>4, <1>5, <1>7, <1>8, <1>9 DEF EditorInv, FormOK, GoodDropped
<1>11. SaveOK("here")' /\ SaveOK("left")'
  BY <1>1, <1>3, SavesStay
<1>12. Apart'
  BY <1>1, <1>3, <1>8 DEF EditorInv, Apart, Added
<1> QED BY <1>6, <1>10, <1>11, <1>12 DEF EditorInv

\* Rows leave the form.
LEMMA EditorFewer ==
  ASSUME EditorInv, NEW k, UNCHANGED <<kind, saves, repeatable, edits>>, EditorTypeOK',
         editor'.rows = Editor!Without(editor.rows, k), typed' = Editor!Without(typed, k),
         GoodDropped(editor'.dropped),
         \A p \in Editor!Parts : /\ part'[p].from = part[p].from /\ part'[p].value = part[p].value
                                 /\ part[p].stage # "none" => part'[p].stage # "none"
                                 /\ kind = "product" \/ part'[p].stage = part[p].stage
  PROVE  EditorInv'
<1>1. /\ DOMAIN editor'.rows = DOMAIN editor.rows \ {k} /\ DOMAIN typed' = DOMAIN typed \ {k}
      /\ \A j \in DOMAIN editor'.rows : editor'.rows[j] = editor.rows[j]
      /\ \A j \in DOMAIN typed' : typed'[j] = typed[j]
  BY DEF Editor!Without
<1>2. SaveOK("here")' /\ SaveOK("left")' /\ \A j : MadeFrom(j)' = MadeFrom(j)
  <2>1. edits \in Nat
    BY EditorBounds DEF EditorInv, EditorTypeOK
  <2> QED BY <2>1, SavesStay
<1>3. Added(editor.rows)' \subseteq Added(editor.rows)
  BY <1>1 DEF Added
<1>4. GoodRows(editor.rows)' /\ GoodDropped(editor.dropped)'
  BY <1>1 DEF EditorInv, FormOK, GoodRows, GoodDropped
<1>5. FormOK'
  BY <1>1, <1>2, <1>3, <1>4 DEF EditorInv, FormOK
<1> QED BY <1>2, <1>3, <1>5 DEF EditorInv, Apart

\* A row is taken out of the form.
LEMMA EditorDropRow ==
  ASSUME EditorInv, NEW k, Editor!DropRow(k)
  PROVE  EditorInv'
<1>1. /\ k \in DOMAIN editor.rows /\ k # 0
      /\ editor'.rows = Editor!Without(editor.rows, k) /\ typed' = Editor!Without(typed, k)
      /\ editor' = [open |-> editor'.open, rows |-> editor'.rows, dropped |-> editor'.dropped]
      /\ IF editor.rows[k].id # Editor!Unsaved
         THEN kind = "service" /\ editor'.dropped = editor.dropped \union {k}
         ELSE editor'.dropped = editor.dropped
      /\ UNCHANGED <<kind, part, copy, saves, repeatable, edits>>
  BY DEF Editor!DropRow, EditorInv, EditorTypeOK
<1>2. GoodDropped(editor'.dropped)
  BY <1>1 DEF EditorInv, FormOK, GoodRows, GoodDropped
<1>3. EditorTypeOK'
  BY <1>1 DEF EditorInv, EditorTypeOK
<1> QED BY <1>1, <1>2, <1>3, EditorFewer

\* A saved variant is removed from its form.
LEMMA EditorRemoveHere ==
  ASSUME EditorInv, NEW p \in Editor!Parts, Editor!RemoveHere(p)
  PROVE  EditorInv'
<1>1. /\ kind = "product" /\ editor'.dropped = editor.dropped
      /\ editor'.rows = Editor!Without(editor.rows, p) /\ typed' = Editor!Without(typed, p)
      /\ editor' = [open |-> editor'.open, rows |-> editor'.rows, dropped |-> editor'.dropped]
      /\ UNCHANGED <<kind, saves, repeatable, edits>>
  BY DEF Editor!RemoveHere, Editor!CanRemove, EditorInv, EditorTypeOK
<1>2. part[p].stage # "none" /\ part' = [part EXCEPT ![p].stage = "gone"]
  BY DEF Editor!RemoveHere, Editor!Gone, Editor!CanRemove, Editor!LiveVariants,
       Editor!Live
<1>3. copy' = [held |-> copy'.held, rows |-> copy'.rows] /\ copy'.rows = copy.rows
  BY DEF Editor!RemoveHere, EditorInv, EditorTypeOK
<1>4. /\ part' \in [Editor!Parts -> EditorParts]
      /\ \A q \in Editor!Parts : part'[q].from = part[q].from /\ part'[q].value = part[q].value
                                 /\ (part[q].stage # "none" <=> part'[q].stage # "none")
  BY <1>2 DEF EditorInv, EditorTypeOK, EditorParts
<1>5. EditorTypeOK'
  BY <1>1, <1>3, <1>4 DEF EditorInv, EditorTypeOK
<1>6. GoodDropped(editor'.dropped)
  BY <1>1 DEF EditorInv, FormOK, GoodDropped
<1> QED BY <1>1, <1>4, <1>5, <1>6, EditorFewer

\* What others change is disturbed for the saves under way.
LEMMA Disturbed ==
  ASSUME EditorInv, NEW ps, NEW w, NEW new, Editor!Disturbs(ps, w, new), NEW v \in {"here", "left"}, v # w
  PROVE  /\ saves'[v] = [saves[v] EXCEPT !.disturbed = saves'[v].disturbed]
         /\ saves[v].disturbed \subseteq saves'[v].disturbed
         /\ saves[v].stage # "none" => ps \subseteq saves'[v].disturbed
<1>1. SaveTypeOK(v) /\ saves = [u \in {"here", "left"} |-> saves[u]]
  BY DEF EditorInv, SaveOK, EditorTypeOK
<1>2. saves'[v] = IF saves[v].stage = "none" THEN saves[v]
                  ELSE [saves[v] EXCEPT !.disturbed = @ \union ps]
  BY <1>1 DEF Editor!Disturbs
<1> QED BY <1>1, <1>2 DEF SaveTypeOK

\* The domain of the saves stays.
LEMMA DisturbedAll ==
  ASSUME EditorInv, NEW ps, NEW w, NEW new, Editor!Disturbs(ps, w, new)
  PROVE  /\ saves' = [v \in {"here", "left"} |-> saves'[v]]
         /\ w \in {"here", "left"} => saves'[w] = new
  BY DEF Editor!Disturbs, EditorInv, EditorTypeOK

\* A save of another form or desk is right after what is done to parts that it is told of.
LEMMA OthersStay ==
  ASSUME EditorInv, NEW ps, NEW w, NEW new, Editor!Disturbs(ps, w, new), NEW v \in {"here", "left"}, v # w,
         UNCHANGED kind, edits' \in Nat, edits <= edits', repeatable \subseteq repeatable',
         \A p \in Editor!Parts :
             /\ part[p].stage # "none" => part'[p].stage # "none"
             /\ p \in ps \/ (part'[p].value = part[p].value /\ part'[p].stage = part[p].stage)
                         \/ (part'[p].value = part[p].value /\ kind = "product"),
         \A k \in Added(saves[v].rows) : MadeFrom(k)' = MadeFrom(k)
  PROVE  SaveOK(v)' /\ saves'[v].rows = saves[v].rows
<1>1. /\ SaveOK(v) /\ edits \in Nat
      /\ saves'[v] = [saves[v] EXCEPT !.disturbed = saves'[v].disturbed]
      /\ saves[v].disturbed \subseteq saves'[v].disturbed
      /\ saves[v].stage # "none" => ps \subseteq saves'[v].disturbed
  BY Disturbed, EditorBounds DEF EditorInv, EditorTypeOK
<1>2. saves'[v].rows = saves[v].rows
  BY <1>1 DEF SaveOK, SaveTypeOK
<1>3. CASE saves[v].stage # "none"
  <2>1. \A p \in Editor!Parts :
            /\ part[p].stage # "none" => part'[p].stage # "none"
            /\ \/ p \in saves'[v].disturbed
               \/ part'[p].value = part[p].value
                  /\ (p \in saves[v].dropped /\ part[p].stage = "inactive" => part'[p].stage = "inactive")
    BY <1>1, <1>3 DEF SaveOK, SaveTypeOK, GoodDropped
  <2> QED BY <1>1, <1>2, <2>1, SaveStays
<1>4. CASE saves[v].stage = "none"
  <2>1. /\ saves'[v].stage = "none" /\ DOMAIN saves'[v].rows = {} /\ saves'[v].dropped = saves[v].dropped
        /\ saves'[v].todo = saves[v].todo /\ saves'[v].meant = saves[v].meant
        /\ saves'[v] = [stage |-> saves'[v].stage, rows |-> saves'[v].rows, dropped |-> saves'[v].dropped,
                        todo |-> saves'[v].todo, meant |-> saves'[v].meant, disturbed |-> saves'[v].disturbed]
    BY <1>1, <1>4 DEF SaveOK, SaveTypeOK
  <2>2. SaveTypeOK(v)'
    BY <1>1, <1>2, <2>1 DEF SaveOK, SaveTypeOK, GoodRows, GoodDropped, LastSteps
  <2>3. SaveStands(v)'
    BY <2>1 DEF SaveStands, Handled, Added
  <2> QED BY <1>2, <2>2, <2>3 DEF SaveOK
<1> QED BY <1>3, <1>4

\* The form stays right while what was added to it is made by nobody, or by its save.
LEMMA FormStays ==
  ASSUME EditorInv, UNCHANGED <<kind, editor, typed>>, edits' \in Nat, edits <= edits',
         repeatable \subseteq repeatable',
         \A p \in Editor!Parts : /\ part[p].stage # "none" => part'[p].stage # "none"
                                 /\ part'[p].from = part[p].from \/ part[p].stage = "none",
         \A k \in Added(editor.rows) \ repeatable' : k \notin DOMAIN saves'["here"].rows => MadeFrom(k)' = {}
  PROVE  FormOK'
<1>1. edits \in Nat
  BY EditorBounds DEF EditorInv, EditorTypeOK
<1>2. GoodRows(editor.rows)' /\ GoodDropped(editor.dropped)'
  BY <1>1, EditorBounds DEF EditorInv, FormOK, GoodRows, GoodDropped
<1>3. ASSUME NEW k \in Added(editor.rows), NEW p \in MadeFrom(k)' PROVE p \notin DOMAIN editor.rows
  <2>1. p \in Editor!Parts /\ (p \in MadeFrom(k) \/ part[p].stage = "none")
    BY <1>3 DEF MadeFrom
  <2> QED BY <2>1 DEF EditorInv, FormOK, GoodRows
<1>4. Added(editor.rows)' = Added(editor.rows)
  BY DEF Added
<1> QED BY <1>2, <1>3, <1>4 DEF EditorInv, FormOK

\* Another desk changes a part.
LEMMA EditorElsewhere ==
  ASSUME EditorInv, NEW p \in Editor!Parts, Editor!EditElsewhere(p) \/ Editor!SetStatus(p)
  PROVE  EditorInv'
<1>1. UNCHANGED <<kind, editor, typed, repeatable>> /\ Editor!Disturbs({p}, "nobody", Editor!NoSave)
  BY DEF Editor!EditElsewhere, Editor!SetStatus, Editor!Elsewhere
<1>2. edits' \in 0..MaxEdits /\ edits <= edits' /\ edits \in Nat /\ edits' \in Nat
  BY EditorBounds DEF Editor!EditElsewhere, Editor!SetStatus, EditorInv, EditorTypeOK
<1>3. copy' = [held |-> copy'.held, rows |-> copy'.rows] /\ copy'.rows = copy.rows
  BY DEF Editor!EditElsewhere, Editor!SetStatus, EditorInv, EditorTypeOK
<1>4. /\ part' \in [Editor!Parts -> EditorParts]
      /\ \A q \in Editor!Parts : /\ part'[q].from = part[q].from
                                 /\ part[q].stage # "none" <=> part'[q].stage # "none"
                                 /\ q # p => part'[q] = part[q]
  <2>1. CASE Editor!EditElsewhere(p)
    BY <2>1, <1>2 DEF Editor!EditElsewhere, EditorInv, EditorTypeOK, EditorParts
  <2>2. CASE Editor!SetStatus(p)
    <3>1. part[p].stage # "none" /\ part' = [part EXCEPT ![p].stage = IF @ = "active" THEN "inactive" ELSE "active"]
      BY <2>2 DEF Editor!SetStatus, Editor!LiveVariants, Editor!Live
    <3> QED BY <3>1 DEF EditorInv, EditorTypeOK, EditorParts
  <2> QED BY <2>1, <2>2
<1>5. saves' = [v \in {"here", "left"} |-> saves'[v]]
  BY <1>1, DisturbedAll
<1>6. EditorTypeOK'
  <2>1. \A q \in Editor!Parts : part[q].from \in Nat /\ part[q].from <= MaxVariants + edits
    BY DEF EditorInv, EditorTypeOK, EditorParts
  <2>2. \A q \in Editor!Parts : part'[q].from <= MaxVariants + edits'
    BY <1>2, <1>4, <2>1, EditorBounds
  <2>3. \A q \in DOMAIN copy'.rows : q \in Editor!Parts /\ copy'.rows[q] \in Nat /\ part'[q].stage # "none"
    BY <1>3, <1>4 DEF EditorInv, EditorTypeOK
  <2>4. \A q \in Editor!Parts : part'[q].stage = "none" => part'[q].from \in Editor!Parts
    BY <1>4 DEF EditorInv, EditorTypeOK
  <2> QED BY <1>1, <1>2, <1>3, <1>4, <1>5, <2>2, <2>3, <2>4 DEF EditorInv, EditorTypeOK
<1>7. \A k : MadeFrom(k)' = MadeFrom(k)
  BY <1>4 DEF MadeFrom
<1>8. ASSUME NEW v \in {"here", "left"} PROVE SaveOK(v)' /\ saves'[v].rows = saves[v].rows
  <2>1. \A q \in Editor!Parts :
            /\ part[q].stage # "none" => part'[q].stage # "none"
            /\ q \in {p} \/ (part'[q].value = part[q].value /\ part'[q].stage = part[q].stage)
                         \/ (part'[q].value = part[q].value /\ kind = "product")
    BY <1>4
  <2> QED BY <1>1, <1>2, <1>7, <2>1, OthersStay
<1>9. FormOK'
  <2>1. \A k \in Added(editor.rows) \ repeatable' : k \notin DOMAIN saves'["here"].rows => MadeFrom(k)' = {}
    BY <1>1, <1>7, <1>8 DEF EditorInv, FormOK
  <2>2. \A q \in Editor!Parts : /\ part[q].stage # "none" => part'[q].stage # "none"
                                /\ part'[q].from = part[q].from \/ part[q].stage = "none"
    BY <1>4
  <2> QED BY <1>1, <1>2, <2>1, <2>2, FormStays
<1> QED BY <1>1, <1>6, <1>8, <1>9 DEF EditorInv, Apart

\* Another desk removes a variant.
LEMMA EditorRemoveElsewhere ==
  ASSUME EditorInv, NEW p \in Editor!Parts, Editor!RemoveElsewhere(p)
  PROVE  EditorInv'
<1>1. kind = "product" /\ UNCHANGED <<kind, copy, editor, saves, typed, repeatable, edits>>
  BY DEF Editor!RemoveElsewhere, Editor!CanRemove
<1>2. part[p].stage # "none" /\ part' = [part EXCEPT ![p].stage = "gone"]
  BY DEF Editor!RemoveElsewhere, Editor!Gone, Editor!CanRemove, Editor!LiveVariants,
       Editor!Live
<1>3. /\ part' \in [Editor!Parts -> EditorParts]
      /\ \A q \in Editor!Parts : part'[q].from = part[q].from /\ part'[q].value = part[q].value
                                 /\ (part[q].stage # "none" <=> part'[q].stage # "none")
  BY <1>2 DEF EditorInv, EditorTypeOK, EditorParts
<1>4. EditorTypeOK' /\ edits \in Nat
  BY <1>1, <1>3, EditorBounds DEF EditorInv, EditorTypeOK
<1>5. SaveOK("here")' /\ SaveOK("left")' /\ \A k : MadeFrom(k)' = MadeFrom(k)
  BY <1>1, <1>3, <1>4, SavesStay
<1>6. FormOK'
  BY <1>1, <1>3, <1>4, <1>5, FormStays DEF EditorInv, FormOK
<1> QED BY <1>1, <1>4, <1>5, <1>6 DEF EditorInv, Apart

\* A save begins: every step is to be done.
LEMMA EditorSave ==
  ASSUME EditorInv, Editor!Save
  PROVE  EditorInv'
<1>1. /\ saves["here"].stage = "none" /\ UNCHANGED <<kind, part, copy, editor, typed, repeatable, edits>>
      /\ saves' = [v \in {"here", "left"} |-> saves'[v]] /\ saves'["left"] = saves["left"]
      /\ saves'["here"] = [stage |-> "going", rows |-> editor.rows, dropped |-> editor.dropped,
                           todo |-> DOMAIN editor.rows \union LastSteps(editor), meant |-> typed, disturbed |-> {}]
  BY EditorSteps DEF Editor!Save, EditorInv, EditorTypeOK
<1>2. EditorTypeOK'
  BY <1>1 DEF EditorInv, EditorTypeOK
<1>3. /\ saves'["here"].stage = "going" /\ saves'["here"].rows = editor.rows
      /\ saves'["here"].dropped = editor.dropped /\ saves'["here"].meant = typed
      /\ saves'["here"].todo = DOMAIN editor.rows \union LastSteps(editor)
      /\ LastSteps(saves["here"])' = LastSteps(editor)
      /\ saves'["here"] = [stage |-> saves'["here"].stage, rows |-> saves'["here"].rows,
             dropped |-> saves'["here"].dropped, todo |-> saves'["here"].todo,
             meant |-> saves'["here"].meant, disturbed |-> saves'["here"].disturbed]
  BY <1>1 DEF LastSteps
<1>4. SaveTypeOK("here")'
  BY <1>1, <1>3 DEF EditorInv, FormOK, SaveTypeOK, GoodRows, GoodDropped
<1>5. /\ \A j : MadeFrom(j)' = MadeFrom(j) /\ Added(saves["here"].rows)' = Added(editor.rows)
      /\ \A j \in DOMAIN editor.rows : ~Handled("here", j)'
  BY <1>1, <1>3 DEF Added, MadeFrom, Handled
<1>6. \A p \in editor.dropped : ~Handled("here", MaxVariants + MaxEdits + p)'
  BY <1>3 DEF EditorInv, EditorTypeOK, FormOK, GoodDropped, LastSteps, Handled
<1>7. \A k \in DOMAIN typed : k \in DOMAIN editor.rows
  BY DEF EditorInv, FormOK
<1>8. DOMAIN saves["here"].rows = {}
  BY <1>1 DEF EditorInv, SaveOK, SaveTypeOK
<1>9. /\ Added(editor.rows) \subseteq DOMAIN editor.rows
      /\ \A j \in Added(editor.rows) \ repeatable : MadeFrom(j) = {}
      /\ \A k \in Added(editor.rows) : \A p \in MadeFrom(k) : p \notin DOMAIN editor.rows
  BY <1>8 DEF EditorInv, FormOK, Added
<1>10. SaveStands("here")'
  BY <1>1, <1>3, <1>5, <1>6, <1>7, <1>9 DEF SaveStands
<1>11. SaveOK("left")'
  BY <1>1 DEF EditorInv, SaveOK, SaveTypeOK, SaveStands, GoodRows, GoodDropped, LastSteps,
       Handled, Added, MadeFrom
<1>12. FormOK'
  BY <1>1, <1>5, <1>9 DEF EditorInv, FormOK, GoodRows, GoodDropped, Added
<1>13. Apart'
  BY <1>1, <1>5 DEF EditorInv, Apart, Added
<1> QED BY <1>2, <1>4, <1>10, <1>11, <1>12, <1>13 DEF EditorInv, SaveOK

\* What a step of a save does: a row's part takes its value, a row that was added is
\* made a part that was none, an option that was dropped is off; the picture is no part.
Does(w, k, p) ==
    \/ /\ k \in Editor!Parts \intersect DOMAIN saves[w].rows /\ p[k].value = saves[w].rows[k].value
       /\ \A q \in Editor!Parts : p[q].stage = part[q].stage /\ p[q].from = part[q].from
                                  /\ (q # k => p[q].value = part[q].value)
    \/ /\ k \in Added(saves[w].rows)
       /\ \E n \in Editor!Parts :
              /\ part[n].stage = "none" /\ p[n].stage = "active"
              /\ p[n].value = saves[w].rows[k].value /\ p[n].from = k
              /\ \A q \in Editor!Parts \ {n} : p[q] = part[q]
    \/ k \notin DOMAIN saves[w].rows /\ kind = "product" /\ p = part
    \/ /\ k \notin DOMAIN saves[w].rows /\ kind = "service"
       /\ \E n \in Editor!Parts :
              /\ k = MaxVariants + MaxEdits + n /\ p[n].stage = "inactive" /\ part[n].stage # "none"
              /\ \A q \in Editor!Parts : p[q].value = part[q].value /\ p[q].from = part[q].from
                                         /\ (q # n => p[q].stage = part[q].stage)

\* A request of a save that succeeds does what its row says.
LEMMA EditorDone ==
  ASSUME EditorInv, NEW w \in {"here", "left"}, NEW k \in saves[w].todo, NEW p \in Editor!Done(saves[w], k)
  PROVE  p \in [Editor!Parts -> EditorParts] /\ Does(w, k, p)
<1>1. /\ part \in [Editor!Parts -> EditorParts] /\ k \in Nat /\ Editor!Parts \subseteq Nat
      /\ k \in DOMAIN saves[w].rows \/ k \in LastSteps(saves[w])
      /\ GoodRows(saves[w].rows) /\ GoodDropped(saves[w].dropped)
  BY EditorBounds DEF EditorInv, EditorTypeOK, SaveOK, SaveTypeOK, GoodRows, GoodDropped, LastSteps,
       Editor!Parts
<1>2. CASE k \in Added(saves[w].rows)
  <2>1. /\ saves[w].rows[k].id = Editor!Unsaved /\ k \in DOMAIN saves[w].rows /\ saves[w].rows[k].value \in Nat
    BY <1>1, <1>2 DEF Added, GoodRows, EditorRows
  <2> DEFINE n == Editor!Min(Editor!Unborn)
  <2>2. Editor!Unborn # {} /\ p = [part EXCEPT ![n] = Editor!Part("active", saves[w].rows[k].value, k)]
    BY <2>1 DEF Editor!Done
  <2>3. n \in Editor!Unborn
    BY <1>1, <2>2, LeastOf DEF Editor!Unborn
  <2> HIDE DEF n
  <2>4. n \in Editor!Parts /\ part[n].stage = "none"
    BY <2>3 DEF Editor!Unborn
  <2>5. Editor!Part("active", saves[w].rows[k].value, k) \in EditorParts
    BY <1>1, <2>1 DEF Editor!Part, EditorParts
  <2>6. /\ p[n] = Editor!Part("active", saves[w].rows[k].value, k)
        /\ \A q \in Editor!Parts \ {n} : p[q] = part[q]
    BY <1>1, <2>2, <2>4
  <2> QED BY <1>1, <1>2, <2>2, <2>4, <2>5, <2>6 DEF Does, Editor!Part
<1>3. CASE k \in DOMAIN saves[w].rows \ Added(saves[w].rows)
  <2>1. k \in Editor!Parts /\ saves[w].rows[k].id = k /\ saves[w].rows[k].value \in Nat /\ k # Editor!Unsaved
    BY <1>1, <1>3 DEF Added, GoodRows, EditorRows, Editor!Unsaved
  <2>2. p = [part EXCEPT ![k].value = saves[w].rows[k].value]
    BY <1>3, <2>1 DEF Editor!Done
  <2> QED BY <1>1, <1>3, <2>1, <2>2 DEF Does, EditorParts
<1>4. CASE k \notin DOMAIN saves[w].rows /\ kind = "product"
  BY <1>1, <1>4 DEF Editor!Done, Does
<1>5. CASE k \notin DOMAIN saves[w].rows /\ kind # "product"
  <2>1. kind = "service"
    BY <1>5 DEF EditorInv, EditorTypeOK
  <2>2. PICK n \in saves[w].dropped : k = MaxVariants + MaxEdits + n
    BY <1>1, <1>5, <2>1 DEF LastSteps
  <2>3. n \in Editor!Parts /\ k - Editor!Max(Editor!Keys) = n
    <3>1. n \in Editor!Parts
      BY <1>1, <2>2 DEF GoodDropped
    <3> QED BY <1>1, <2>2, <3>1, EditorKeys, EditorBounds
  <2>4. n \in Editor!Live /\ p = [part EXCEPT ![n].stage = "inactive"]
    BY <1>5, <2>3 DEF Editor!Done
  <2>5. part[n].stage # "none"
    BY <2>4 DEF Editor!Live
  <2> QED BY <1>1, <1>5, <2>1, <2>2, <2>3, <2>4, <2>5 DEF Does, EditorParts
<1> QED BY <1>2, <1>3, <1>4, <1>5 DEF Added

\* There is a next step while any is left.
LEMMA EditorFirst ==
  ASSUME EditorInv, NEW w \in {"here", "left"}, saves[w].todo # {}
  PROVE  Editor!Min(saves[w].todo) \in saves[w].todo
<1>1. saves[w].todo \subseteq Nat
  BY EditorBounds DEF EditorInv, EditorTypeOK, SaveOK, SaveTypeOK, GoodRows, GoodDropped, LastSteps,
       Editor!Parts
<1> QED BY <1>1, LeastOf

\* What a step of a save leaves of the parts.
LEMMA DoesKeep ==
  ASSUME EditorInv, NEW w \in {"here", "left"}, NEW k \in saves[w].todo,
         part' \in [Editor!Parts -> EditorParts], Does(w, k, part')
  PROVE  /\ \A q \in Editor!Parts :
                /\ part[q].stage # "none" => part'[q].stage # "none"
                /\ part'[q].stage = "none" => part'[q].from = part[q].from
                /\ part'[q].from = part[q].from
                   \/ (part'[q].from = k /\ k \in Added(saves[w].rows) /\ part[q].stage = "none")
                /\ q \in Editor!Changed \/ (part'[q].value = part[q].value /\ part'[q].stage = part[q].stage)
         /\ \A j : j \notin Editor!Parts /\ (j # k \/ k \notin Added(saves[w].rows)) => MadeFrom(j)' = MadeFrom(j)
<1>1. ASSUME NEW q \in Editor!Parts
      PROVE  /\ part[q].stage # "none" => part'[q].stage # "none"
             /\ part'[q].stage = "none" => part'[q].from = part[q].from
             /\ part'[q].from = part[q].from
                \/ (part'[q].from = k /\ k \in Added(saves[w].rows) /\ part[q].stage = "none")
  BY DEF Does
<1>2. \A q \in Editor!Parts : q \in Editor!Changed \/ part'[q] = part[q]
  BY DEF Editor!Changed
<1>3. ASSUME NEW j, j \notin Editor!Parts, j # k \/ k \notin Added(saves[w].rows)
      PROVE  MadeFrom(j)' = MadeFrom(j)
  <2>1. \A q \in Editor!Parts : part[q].from = j <=> part'[q].from = j
    BY <1>1, <1>3 DEF EditorInv, EditorTypeOK
  <2> QED BY <2>1 DEF MadeFrom
<1> QED BY <1>1, <1>2, <1>3

\* After a request of a save, done or not, the rest stays right.
LEMMA EditorMade ==
  ASSUME EditorInv, NEW w \in {"here", "left"}, NEW k \in saves[w].todo,
         part' = part \/ (part' \in [Editor!Parts -> EditorParts] /\ Does(w, k, part')),
         NEW new, Editor!Disturbs(Editor!Changed, w, new),
         UNCHANGED <<kind, editor, typed, edits>>, repeatable \subseteq repeatable',
         copy' = [held |-> copy'.held, rows |-> copy.rows],
         SaveOK(w)', Added(saves'[w].rows) \subseteq Added(saves[w].rows),
         w = "here" => \A j \in Added(editor.rows) \ repeatable' : j \notin DOMAIN new.rows => MadeFrom(j)' = {}
  PROVE  EditorInv'
<1>1. /\ part' \in [Editor!Parts -> EditorParts]
      /\ \A q \in Editor!Parts :
                /\ part[q].stage # "none" => part'[q].stage # "none"
                /\ part'[q].stage = "none" => part'[q].from = part[q].from
                /\ part'[q].from = part[q].from
                   \/ (part'[q].from = k /\ k \in Added(saves[w].rows) /\ part[q].stage = "none")
                /\ q \in Editor!Changed \/ (part'[q].value = part[q].value /\ part'[q].stage = part[q].stage)
      /\ \A j : j \notin Editor!Parts /\ (j # k \/ k \notin Added(saves[w].rows)) => MadeFrom(j)' = MadeFrom(j)
  <2>1. CASE part' = part
    BY <2>1 DEF EditorInv, EditorTypeOK, MadeFrom
  <2>2. CASE part' \in [Editor!Parts -> EditorParts] /\ Does(w, k, part')
    BY <2>2, DoesKeep
  <2> QED BY <2>1, <2>2
<1>2. edits \in Nat /\ edits' \in Nat /\ edits <= edits'
  BY EditorBounds DEF EditorInv, EditorTypeOK
<1>3. saves' = [v \in {"here", "left"} |-> saves'[v]] /\ saves'[w] = new
  BY DisturbedAll
<1>4. EditorTypeOK'
  <2>1. k \in Added(saves[w].rows) => k \in 0..(MaxVariants + edits)
    BY DEF EditorInv, SaveOK, SaveTypeOK, GoodRows, Added
  <2>2. \A q \in Editor!Parts : part'[q].from <= MaxVariants + edits'
    BY <1>1, <1>2, <2>1, EditorBounds DEF EditorInv, EditorTypeOK
  <2>3. \A q \in Editor!Parts : part'[q].stage = "none" => part'[q].from \in Editor!Parts
    BY <1>1 DEF EditorInv, EditorTypeOK
  <2>4. \A q \in DOMAIN copy'.rows : q \in Editor!Parts /\ copy'.rows[q] \in Nat /\ part'[q].stage # "none"
    BY <1>1 DEF EditorInv, EditorTypeOK
  <2>5. copy' = [held |-> copy'.held, rows |-> copy'.rows]
    BY DEF EditorInv, EditorTypeOK
  <2> QED BY <1>1, <1>3, <2>2, <2>3, <2>4, <2>5 DEF EditorInv, EditorTypeOK
<1>5. ASSUME NEW v \in {"here", "left"}, v # w PROVE SaveOK(v)' /\ saves'[v].rows = saves[v].rows
  <2>1. \A j \in Added(saves[v].rows) : j \notin Editor!Parts /\ (j # k \/ k \notin Added(saves[w].rows))
    BY <1>5 DEF EditorInv, Apart, Added
  <2>2. \A j \in Added(saves[v].rows) : MadeFrom(j)' = MadeFrom(j)
    BY <1>1, <2>1
  <2> QED BY <1>1, <1>2, <1>5, <2>2, OthersStay
<1>6. \A j \in Added(editor.rows) \ repeatable' : j \notin DOMAIN saves'["here"].rows => MadeFrom(j)' = {}
  <2>1. CASE w = "here"
    BY <1>3, <2>1
  <2>2. CASE w = "left"
    <3>1. saves'["here"].rows = saves["here"].rows
      BY <1>5, <2>2
    <3>2. \A j \in Added(editor.rows) : j \notin Editor!Parts /\ (j # k \/ k \notin Added(saves[w].rows))
      BY <2>2 DEF EditorInv, Apart, Added
    <3> QED BY <1>1, <3>1, <3>2 DEF EditorInv, FormOK
  <2> QED BY <2>1, <2>2
<1>7. FormOK'
  BY <1>1, <1>2, <1>6, FormStays
<1>8. SaveOK("here")' /\ SaveOK("left")'
  BY <1>5
<1>9. Apart'
  <2>1. \A v \in {"here", "left"} : Added(saves'[v].rows) \subseteq Added(saves[v].rows)
    BY <1>5
  <2>2. /\ Added(saves["here"].rows)' = Added(saves'["here"].rows) /\ Added(saves["left"].rows)' = Added(saves'["left"].rows)
        /\ Added(editor.rows)' = Added(editor.rows)
    BY DEF Added
  <2> QED BY <2>1, <2>2 DEF EditorInv, Apart
<1> QED BY <1>4, <1>7, <1>8, <1>9 DEF EditorInv

\* A save goes on: what its rows have made stands.
LEMMA EditorHandles ==
  ASSUME EditorInv, NEW w \in {"here", "left"}, saves[w].stage = "going", NEW k \in saves[w].todo,
         part' \in [Editor!Parts -> EditorParts], Does(w, k, part'),
         UNCHANGED <<kind, repeatable, edits>>,
         saves'[w] = [saves[w] EXCEPT !.todo = saves[w].todo \ {k},
                                      !.stage = IF saves[w].todo = {k} THEN "done" ELSE "going"]
  PROVE  SaveOK(w)'
<1>1. /\ saves'[w].rows = saves[w].rows /\ saves'[w].dropped = saves[w].dropped
      /\ saves'[w].meant = saves[w].meant /\ saves'[w].disturbed = saves[w].disturbed
      /\ saves'[w].todo = saves[w].todo \ {k}
      /\ saves'[w].stage = IF saves[w].todo = {k} THEN "done" ELSE "going"
      /\ saves'[w] = [stage |-> saves'[w].stage, rows |-> saves'[w].rows, dropped |-> saves'[w].dropped,
                      todo |-> saves'[w].todo, meant |-> saves'[w].meant, disturbed |-> saves'[w].disturbed]
  <2> DEFINE st == IF saves[w].todo = {k} THEN "done" ELSE "going"
             td == saves[w].todo \ {k}
  <2>1. saves[w] = [stage |-> saves[w].stage, rows |-> saves[w].rows, dropped |-> saves[w].dropped,
                    todo |-> saves[w].todo, meant |-> saves[w].meant, disturbed |-> saves[w].disturbed]
    BY DEF EditorInv, SaveOK, SaveTypeOK
  <2>2. saves'[w] = [saves[w] EXCEPT !.todo = td, !.stage = st]
    OBVIOUS
  <2> HIDE DEF st, td
  <2>3. saves'[w] = [stage |-> st, rows |-> saves[w].rows, dropped |-> saves[w].dropped,
                     todo |-> td, meant |-> saves[w].meant, disturbed |-> saves[w].disturbed]
    BY <2>1, <2>2
  <2>4. /\ saves'[w].rows = saves[w].rows /\ saves'[w].dropped = saves[w].dropped
        /\ saves'[w].meant = saves[w].meant /\ saves'[w].disturbed = saves[w].disturbed
        /\ saves'[w].todo = td /\ saves'[w].stage = st
    BY ONLY <2>3
  <2> QED BY <2>3, <2>4 DEF st, td
<1>2. SaveOK(w) /\ \A q \in Editor!Parts : part[q].stage # "none" => part'[q].stage # "none"
  BY DoesKeep DEF EditorInv
<1>3. SaveTypeOK(w)'
  BY <1>1, <1>2 DEF SaveOK, SaveTypeOK, GoodRows, GoodDropped, LastSteps
<1>4. /\ Added(saves[w].rows)' = Added(saves[w].rows)
      /\ \A j : Handled(w, j)' <=> Handled(w, j) \/ j = k
      /\ ~Handled(w, k) /\ k \in Nat
  BY <1>1, EditorBounds DEF EditorInv, EditorTypeOK, SaveOK, SaveTypeOK, GoodRows, GoodDropped,
       LastSteps, Editor!Parts, Added, Handled
<1>5. /\ Added(saves[w].rows) \subseteq DOMAIN saves[w].rows /\ Added(saves[w].rows) \intersect Editor!Parts = {}
      /\ \A j \in DOMAIN saves[w].meant : j \in DOMAIN saves[w].rows /\ saves[w].rows[j].value = saves[w].meant[j]
  BY <1>2 DEF SaveOK, SaveTypeOK, Added
<1>6. k \in DOMAIN saves[w].rows => \A q \in saves[w].dropped : k # MaxVariants + MaxEdits + q
  BY <1>2, EditorBounds DEF EditorInv, EditorTypeOK, SaveOK, SaveTypeOK, GoodRows, GoodDropped,
       Editor!Parts
<1>7. saves[w].dropped \subseteq Editor!Parts /\ (kind = "product" => saves[w].dropped = {})
  BY <1>2 DEF SaveOK, SaveTypeOK, GoodDropped
<1>8. CASE k \in Added(saves[w].rows)
  <2>1. PICK n \in Editor!Parts :
            /\ part[n].stage = "none" /\ part'[n].stage = "active"
            /\ part'[n].value = saves[w].rows[k].value /\ part'[n].from = k
            /\ \A q \in Editor!Parts \ {n} : part'[q] = part[q]
    BY <1>8 DEF Does, Added
  <2>2. n \notin DOMAIN saves[w].rows /\ part[n].from \in Editor!Parts
    BY <1>2, <2>1 DEF EditorInv, EditorTypeOK, SaveOK, SaveTypeOK, GoodRows
  <2>3. /\ MadeFrom(k)' = MadeFrom(k) \union {n}
        /\ \A j \in Added(saves[w].rows) : j # k => MadeFrom(j)' = MadeFrom(j)
        /\ \A j \in Added(saves[w].rows) : n \notin MadeFrom(j)
    BY <1>5, <2>1, <2>2 DEF MadeFrom
  <2>4. ASSUME NEW q \in saves[w].dropped, Handled(w, MaxVariants + MaxEdits + q)'
        PROVE  q \in saves[w].disturbed \/ part'[q].stage = "inactive"
    <3>1. q \in Editor!Parts /\ (q \in saves[w].disturbed \/ part[q].stage = "inactive")
      BY <1>2, <1>4, <1>5, <1>6, <1>7, <1>8, <2>4 DEF SaveOK, SaveStands
    <3> QED BY <2>1, <3>1
  <2>5. \A j \in DOMAIN saves[w].meant \intersect Editor!Parts :
            Handled(w, j)' => j \in saves[w].disturbed \/ part'[j].value = saves[w].meant[j]
    BY <1>2, <1>4, <1>5, <1>8, <2>1, <2>2 DEF SaveOK, SaveStands
  <2>6. \A j \in Added(saves[w].rows) : Handled(w, j)' => MadeFrom(j)' # {}
    BY <1>2, <1>4, <2>3 DEF SaveOK, SaveStands
  <2>7. \A j \in Added(saves[w].rows) \ repeatable : ~Handled(w, j)' => MadeFrom(j)' = {}
    BY <1>2, <1>4, <2>3 DEF SaveOK, SaveStands
  <2>8. \A j \in Added(saves[w].rows) \ repeatable : \A q, r \in MadeFrom(j)' : q = r
    BY <1>2, <1>4, <1>8, <2>3 DEF SaveOK, SaveStands
  <2>9. \A j \in Added(saves[w].rows) \ repeatable : \A q \in MadeFrom(j)' :
            q \in saves[w].disturbed \/ part'[q].value = saves[w].rows[j].value
    <3>1. \A j \in Added(saves[w].rows) : \A q \in MadeFrom(j) : q \in Editor!Parts \ {n}
      BY <2>3 DEF MadeFrom
    <3> QED BY <1>2, <1>4, <1>8, <2>1, <2>3, <3>1 DEF SaveOK, SaveStands
  <2>10. \A j \in Added(saves[w].rows) : \A q \in MadeFrom(j)' : q \notin DOMAIN saves[w].rows
    BY <1>2, <2>2, <2>3 DEF SaveOK, SaveStands
  <2>11. SaveStands(w)'
    BY <1>1, <1>4, <2>4, <2>5, <2>6, <2>7, <2>8, <2>9, <2>10 DEF SaveStands
  <2> QED BY <1>3, <2>11 DEF SaveOK
<1>9. CASE k \notin Added(saves[w].rows)
  <2>1. /\ \A q \in Editor!Parts : part'[q].from = part[q].from /\ (q # k => part'[q].value = part[q].value)
        /\ k \in DOMAIN saves[w].rows => part'[k].value = saves[w].rows[k].value
        /\ k \notin DOMAIN saves[w].rows => \A q \in Editor!Parts : part'[q].value = part[q].value
    BY <1>5, <1>9 DEF Does
  <2>2. /\ \A j : MadeFrom(j)' = MadeFrom(j)
        /\ \A j \in Added(saves[w].rows) : Handled(w, j)' <=> Handled(w, j)
    BY <1>4, <1>9, <2>1 DEF MadeFrom
  <2>3. ASSUME NEW q \in saves[w].dropped, Handled(w, MaxVariants + MaxEdits + q)'
        PROVE  q \in saves[w].disturbed \/ part'[q].stage = "inactive"
    <3>1. q \in Editor!Parts /\ q \in Nat /\ kind # "product"
      BY <1>7, EditorBounds DEF Editor!Parts
    <3>2. CASE k = MaxVariants + MaxEdits + q
      <4>1. k \notin DOMAIN saves[w].rows
        BY <1>6, <3>2
      <4>2. \A n \in Editor!Parts : k = MaxVariants + MaxEdits + n => n = q
        BY <3>1, <3>2, EditorBounds DEF Editor!Parts
      <4> QED BY <1>5, <3>1, <4>1, <4>2 DEF Does
    <3>3. CASE k # MaxVariants + MaxEdits + q
      <4>1. q \in saves[w].disturbed \/ part[q].stage = "inactive"
        BY <1>2, <1>4, <2>3, <3>3 DEF SaveOK, SaveStands
      <4> QED BY <1>9, <3>1, <4>1 DEF Does
    <3> QED BY <3>2, <3>3
  <2>4. \A j \in DOMAIN saves[w].meant \intersect Editor!Parts :
            Handled(w, j)' => j \in saves[w].disturbed \/ part'[j].value = saves[w].meant[j]
    BY <1>2, <1>4, <1>5, <2>1 DEF SaveOK, SaveStands
  <2>5. \A j \in Added(saves[w].rows) \ repeatable : \A q \in MadeFrom(j) :
            q \in saves[w].disturbed \/ part'[q].value = saves[w].rows[j].value
    <3>1. \A j \in Added(saves[w].rows) : \A q \in MadeFrom(j) : q \in Editor!Parts /\ q \notin DOMAIN saves[w].rows
      BY <1>2 DEF SaveOK, SaveStands, MadeFrom
    <3>2. \A j \in Added(saves[w].rows) \ repeatable : \A q \in MadeFrom(j) :
              q \in saves[w].disturbed \/ part[q].value = saves[w].rows[j].value
      BY <1>2 DEF SaveOK, SaveStands
    <3> QED BY <2>1, <3>1, <3>2
  <2>6. /\ \A j \in Added(saves[w].rows) : Handled(w, j)' => MadeFrom(j)' # {}
        /\ \A j \in Added(saves[w].rows) \ repeatable : ~Handled(w, j)' => MadeFrom(j)' = {}
        /\ \A j \in Added(saves[w].rows) \ repeatable : \A q, r \in MadeFrom(j)' : q = r
        /\ \A j \in Added(saves[w].rows) : \A q \in MadeFrom(j)' : q \notin DOMAIN saves[w].rows
    BY <1>2, <2>2 DEF SaveOK, SaveStands
  <2>7. SaveStands(w)'
    BY <1>1, <1>4, <2>2, <2>3, <2>4, <2>5, <2>6 DEF SaveStands
  <2> QED BY <1>3, <2>7 DEF SaveOK
<1> QED BY <1>8, <1>9

\* A step that is answered is behind.
LEMMA EditorStep ==
  ASSUME EditorInv, NEW w \in DOMAIN saves, Editor!Step(w)
  PROVE  EditorInv'
<1> DEFINE k == Editor!Min(saves[w].todo)
           new == [saves[w] EXCEPT !.todo = @ \ {k}, !.stage = IF saves[w].todo = {k} THEN "done" ELSE @]
<1>1. w \in {"here", "left"} /\ saves[w].stage = "going" /\ SaveTypeOK(w)
  BY DEF Editor!Step, Editor!Going, EditorInv, EditorTypeOK, SaveOK
<1>2. k \in saves[w].todo
  BY <1>1, EditorFirst DEF Editor!Step, Editor!Going
<1>3. /\ part' \in Editor!Done(saves[w], k) /\ Editor!Disturbs(Editor!Changed, w, new)
      /\ UNCHANGED <<kind, copy, editor, typed, repeatable, edits>>
  BY DEF Editor!Step
<1> HIDE DEF k
<1>4. /\ new = [saves[w] EXCEPT !.todo = saves[w].todo \ {k},
                                !.stage = IF saves[w].todo = {k} THEN "done" ELSE "going"]
      /\ new.rows = saves[w].rows
  BY <1>1 DEF SaveTypeOK
<1> HIDE DEF new
<1>5. saves'[w] = new
  BY <1>1, <1>3, DisturbedAll
<1>6. part' \in [Editor!Parts -> EditorParts] /\ Does(w, k, part')
  BY <1>1, <1>2, <1>3, EditorDone
<1>7. SaveOK(w)'
  BY <1>1, <1>2, <1>3, <1>4, <1>5, <1>6, EditorHandles
<1>8. copy' = [held |-> copy'.held, rows |-> copy.rows]
  BY <1>3 DEF EditorInv, EditorTypeOK
<1>9. ASSUME w = "here", NEW j \in Added(editor.rows) \ repeatable, j \notin DOMAIN new.rows
      PROVE  MadeFrom(j)' = {}
  <2>1. j \notin Editor!Parts /\ (j # k \/ k \notin Added(saves[w].rows)) /\ MadeFrom(j) = {}
    BY <1>4, <1>9 DEF Added, EditorInv, FormOK
  <2> QED BY <1>1, <1>2, <1>6, <2>1, DoesKeep
<1>10. Added(saves'[w].rows) \subseteq Added(saves[w].rows)
  BY <1>4, <1>5
<1> QED BY <1>1, <1>2, <1>3, <1>5, <1>6, <1>7, <1>8, <1>9, <1>10, EditorMade

\* A save that stops remembers what it has made, which may be made again.
LEMMA EditorStops ==
  ASSUME EditorInv, NEW w \in {"here", "left"}, saves[w].stage = "going", NEW k \in saves[w].todo,
         NEW also, Editor!Stops(w, also), UNCHANGED <<kind, copy, editor, typed, edits>>,
         \/ part' = part
         \/ part' \in Editor!Done(saves[w], k) /\ (k \in Added(saves[w].rows) => k \in also)
  PROVE  EditorInv'
<1>1. /\ Editor!Disturbs(Editor!Changed, w, Editor!NoSave)
      /\ repeatable' = repeatable \union Editor!AddedBy(saves[w]) \union also
  BY DEF Editor!Stops
<1>2. saves'[w] = Editor!NoSave
  BY <1>1, DisturbedAll
<1>3. SaveOK(w)' /\ Added(saves'[w].rows) = {}
  BY <1>2, SaveNone
<1>4. copy' = [held |-> copy'.held, rows |-> copy.rows]
  BY DEF EditorInv, EditorTypeOK
<1>5. part' = part \/ (part' \in [Editor!Parts -> EditorParts] /\ Does(w, k, part'))
  BY EditorDone
<1>6. ASSUME w = "here", NEW j \in Added(editor.rows) \ repeatable' PROVE MadeFrom(j)' = {}
  <2>1. MadeFrom(j) = {}
    <3>1. CASE j \notin DOMAIN saves[w].rows
      BY <1>1, <1>6, <3>1 DEF EditorInv, FormOK
    <3>2. CASE j \in DOMAIN saves[w].rows
      <4>1. j \in Added(saves[w].rows) \ repeatable /\ saves[w].rows[j].id = Editor!Unsaved
        BY <1>1, <1>6, <3>2 DEF Added, EditorInv, SaveOK, SaveTypeOK, GoodRows
      <4>2. ~Handled(w, j)
        BY <1>1, <1>6, <3>2, <4>1 DEF Handled, Editor!AddedBy
      <4> QED BY <4>1, <4>2 DEF EditorInv, SaveOK, SaveStands
    <3> QED BY <3>1, <3>2
  <2>2. CASE part' = part
    BY <2>1, <2>2 DEF MadeFrom
  <2>3. CASE part' # part
    <3>1. j \notin Editor!Parts /\ (j # k \/ k \notin Added(saves[w].rows))
      BY <1>1, <1>6, <2>3 DEF Added
    <3> QED BY <1>5, <2>1, <2>3, <3>1, DoesKeep
  <2> QED BY <2>2, <2>3
<1> QED BY <1>1, <1>3, <1>4, <1>5, <1>6, EditorMade

\* A step that is refused or lost.
LEMMA EditorStepFails ==
  ASSUME EditorInv, NEW w \in DOMAIN saves, Editor!StepRefused(w) \/ Editor!StepLost(w)
  PROVE  EditorInv'
<1> DEFINE k == Editor!Min(saves[w].todo)
<1>1. w \in {"here", "left"} /\ saves[w].stage = "going" /\ UNCHANGED <<kind, copy, editor, typed, edits>>
  BY DEF Editor!StepRefused, Editor!StepLost, Editor!Going, EditorInv, EditorTypeOK
<1>2. k \in saves[w].todo
  BY <1>1, EditorFirst DEF Editor!StepRefused, Editor!StepLost, Editor!Going
<1>3. \/ part' = part /\ Editor!Stops(w, {})
      \/ /\ part' \in Editor!Done(saves[w], k)
         /\ Editor!Stops(w, IF k \in DOMAIN saves[w].rows /\ saves[w].rows[k].id = Editor!Unsaved THEN {k} ELSE {})
  BY Zenon DEF Editor!StepRefused, Editor!StepLost
<1> HIDE DEF k
<1>4. CASE part' = part /\ Editor!Stops(w, {})
  BY <1>1, <1>2, <1>4, EditorStops
<1>5. CASE /\ part' \in Editor!Done(saves[w], k)
           /\ Editor!Stops(w, IF k \in DOMAIN saves[w].rows /\ saves[w].rows[k].id = Editor!Unsaved THEN {k} ELSE {})
  <2>1. k \in Added(saves[w].rows) => k \in IF k \in DOMAIN saves[w].rows /\ saves[w].rows[k].id = Editor!Unsaved
                                            THEN {k} ELSE {}
    BY <1>1 DEF EditorInv, SaveOK, SaveTypeOK, GoodRows, Added
  <2> QED BY <1>1, <1>2, <1>5, <2>1, EditorStops
<1> QED BY <1>3, <1>4, <1>5

\* Every step of an editor keeps the invariant.
LEMMA EditorNext ==
  ASSUME EditorInv, Editor!EditorNext
  PROVE  EditorInv'
<1>1. CASE \/ Editor!Fetch \/ Editor!OpenEditor \/ Editor!LeaveEditor
           \/ Editor!ReloadEditor \/ Editor!AddRow \/ Editor!Save
  BY <1>1, EditorCopy, EditorOpenEditor, EditorCloses, EditorAddRow, EditorSave
<1>2. CASE \E w \in DOMAIN saves : \/ Editor!Step(w) \/ Editor!StepRefused(w)
                                   \/ Editor!StepLost(w) \/ Editor!Finish(w)
  BY <1>2, EditorStep, EditorStepFails, EditorCloses
<1>3. CASE \E k \in Editor!Keys : Editor!EditRow(k) \/ Editor!DropRow(k)
  BY <1>3, EditorEditRow, EditorDropRow
<1>4. CASE \E p \in Editor!Parts : \/ Editor!EditElsewhere(p) \/ Editor!SetStatus(p)
                                  \/ Editor!RemoveHere(p) \/ Editor!RemoveElsewhere(p)
  BY <1>4, EditorElsewhere, EditorRemoveHere, EditorRemoveElsewhere
<1> QED BY <1>1, <1>2, <1>3, <1>4 DEF Editor!EditorNext

\* ... and so does every step of another part.
LEMMA EditorRests ==
  ASSUME EditorInv, UNCHANGED item, UNCHANGED kind
  PROVE  EditorInv'
  BY DEF EditorInv, EditorTypeOK, FormOK, SaveOK, SaveTypeOK, SaveStands, Apart, GoodRows, GoodDropped,
       Handled, Added, MadeFrom, item, LastSteps

-----------------------------------------------------------------------------
(* The front end. *)

\* What holds of a station whichever part of it is watched.
FrontEndInv == ScreenInv /\ DeskInv /\ EditorInv /\ RemovalInv

\* Every part starts as it should.
LEMMA FrontEndStarts == Init => FrontEndInv
  BY ScreenInit, DeskInit, EditorInit, RemovalInit DEF Init, FrontEndInv

\* A product does not become a service, nor a service a product, in its form ...
LEMMA EditorKeepsKind == Editor!EditorNext => UNCHANGED kind
<1>1. ASSUME \/ Editor!Fetch \/ Editor!OpenEditor \/ Editor!LeaveEditor
             \/ Editor!ReloadEditor \/ Editor!AddRow \/ Editor!Save
      PROVE  UNCHANGED kind
  BY <1>1 DEF Editor!Fetch, Editor!OpenEditor, Editor!LeaveEditor, Editor!ReloadEditor,
       Editor!AddRow, Editor!Save
<1>2. ASSUME NEW w \in DOMAIN saves, \/ Editor!Step(w) \/ Editor!StepRefused(w)
                                     \/ Editor!StepLost(w) \/ Editor!Finish(w)
      PROVE  UNCHANGED kind
  BY <1>2 DEF Editor!Step, Editor!StepRefused, Editor!StepLost, Editor!Finish
<1>3. ASSUME NEW k \in Editor!Keys, Editor!EditRow(k) \/ Editor!DropRow(k) PROVE UNCHANGED kind
  BY <1>3 DEF Editor!EditRow, Editor!DropRow
<1>4. ASSUME NEW p \in Editor!Parts, \/ Editor!EditElsewhere(p) \/ Editor!SetStatus(p)
                                     \/ Editor!RemoveHere(p) \/ Editor!RemoveElsewhere(p)
      PROVE  UNCHANGED kind
  BY <1>4 DEF Editor!EditElsewhere, Editor!SetStatus, Editor!RemoveHere, Editor!RemoveElsewhere
<1> QED BY <1>1, <1>2, <1>3, <1>4 DEF Editor!EditorNext

\* ... or while it is removed.
LEMMA CatalogueKeepsKind == Removal!CatalogueNext => UNCHANGED kind
  BY DEF Removal!CatalogueNext, Removal!SetStatus, Removal!Use, Removal!Count,
       Removal!CheckHistory, Removal!CheckAll, Removal!Delete

\* One part takes a step, and the others rest.
LEMMA FrontEndSteps == FrontEndInv /\ [Next]_vars => FrontEndInv'
<1> SUFFICES ASSUME FrontEndInv, [Next]_vars PROVE FrontEndInv'
  OBVIOUS
<1>1. ASSUME \/ Screen!Next /\ UNCHANGED <<visit, counter, kind, item, rows>>
             \/ Visit!AccessNext /\ UNCHANGED <<screen, counter, kind, item, rows>>
             \/ Counter!DeskNext /\ UNCHANGED <<screen, visit, kind, item, rows>>
             \/ Editor!EditorNext /\ UNCHANGED <<screen, visit, counter, rows>>
             \/ Removal!CatalogueNext /\ UNCHANGED <<screen, visit, counter, item>>
             \/ UNCHANGED <<scene, screen, visit, counter, kind, item, rows>>
      PROVE  FrontEndInv'
  <2>1. CASE Screen!Next /\ UNCHANGED <<counter, kind, item, rows>>
    BY <2>1, ScreenNext, DeskRests, EditorRests, RemovalRests DEF FrontEndInv
  <2>2. CASE Counter!DeskNext /\ UNCHANGED <<screen, kind, item, rows>>
    BY <2>2, ScreenRests, DeskNext, EditorRests, RemovalRests DEF FrontEndInv
  <2>3. CASE Editor!EditorNext /\ UNCHANGED <<screen, counter, rows>>
    <3>1. UNCHANGED kind
      BY <2>3, EditorKeepsKind
    <3> QED BY <2>3, <3>1, ScreenRests, DeskRests, EditorNext, RemovalRests
         DEF FrontEndInv
  <2>4. CASE Removal!CatalogueNext /\ UNCHANGED <<screen, counter, item>>
    <3>1. UNCHANGED kind
      BY <2>4, CatalogueKeepsKind
    <3> QED BY <2>4, <3>1, ScreenRests, DeskRests, EditorRests, RemovalNext
         DEF FrontEndInv
  <2>5. CASE UNCHANGED <<screen, counter, kind, item, rows>>
    BY <2>5, ScreenRests, DeskRests, EditorRests, RemovalRests DEF FrontEndInv
  <2> QED BY <1>1, <2>1, <2>2, <2>3, <2>4, <2>5
<1> QED BY <1>1 DEF Next, vars

\* Who makes a change sees it: a view on the screen that is not being fetched and did not fail
\* shows it once its answer has come, for every mutation and every view it is said to refresh,
\* except what a fetch let go on had read before it.
THEOREM OwnChangesAlwaysShown == Spec => []OwnChangesShown
<1>1. FrontEndInv => OwnChangesShown
  BY ScreenShows DEF FrontEndInv, OwnChangesShown
<1> QED BY <1>1, FrontEndStarts, FrontEndSteps, PTL DEF Spec

\* In every form of the front end an input makes one entry, for the row it was typed for, but
\* for answers that were lost and forms that follow a view, for any number of rows and inputs.
THEOREM AlwaysEnteredAsMeant == Spec => []EnteredAsMeant
<1>1. FrontEndInv => EnteredAsMeant
  BY DeskEnters DEF FrontEndInv, EnteredAsMeant
<1> QED BY <1>1, FrontEndStarts, FrontEndSteps, PTL DEF Spec

\* A product or service said to be saved is what was typed when the save began, but for parts
\* changed since by others or by the save of a form left, after any number of attempts that failed
\* halfway and for any number of variants and changes.
THEOREM AlwaysSavedAsTyped == Spec => []SavedAsTyped
<1>1. FrontEndInv => SavedAsTyped
  BY EditorSaves DEF FrontEndInv, SavedAsTyped
<1> QED BY <1>1, FrontEndStarts, FrontEndSteps, PTL DEF Spec

\* However many remove variants at a time while others trade: a product's variant that was traded
\* is not deleted, an option only if it was sold after the look, and the last one only if two
\* removals overlapped.
THEOREM AlwaysRemovedUnused == Spec => []RemovedUnusedOnly
<1>1. FrontEndInv => RemovedUnusedOnly
  BY DEF FrontEndInv, RemovalInv, RemovedUnusedOnly
<1> QED BY <1>1, FrontEndStarts, FrontEndSteps, PTL DEF Spec

-----------------------------------------------------------------------------
(* A sale at the counter (Checkout). *)

BasketLines == [quantity : Nat, pages : Nat, sellUnit : {"BASE", "BULK"}, retailPrice : Nat, discount : Nat]
PaymentsMade == [payment : {"CASH", "CREDIT"}, received : Nat, orderDiscount : Nat]

IsBasket(c) == c = [i \in Items |-> c[i]] /\ \A i \in In(c) : c[i] \in BasketLines
IsSale(s) == IsBasket(s.cart) /\ s.entered \in PaymentsMade

\* What the page holds, keeps and has sent are baskets; a submission of the basket as it
\* stands is awaited, unheard of, or came to nothing.
CheckoutInv ==
    /\ catalogue \in [Items -> Nat]
    /\ IsBasket(cart) /\ entered \in PaymentsMade
    /\ draft = NoDraft \/ IsSale(draft)
    /\ sent = [a \in Attempts |-> sent[a]]
    /\ \A a \in Attempts : sent[a] = Nothing \/ IsSale(sent[a])
    /\ unedited \subseteq Attempts
    /\ \A a \in unedited : a = waiting \/ a \in unheard \/ (sent[a] = Nothing /\ a \notin booked)

\* What is assumed of the numbers.
LEMMA CheckoutBounds ==
    /\ NItems \in Nat /\ MaxUnits \in Nat /\ Wholesale \in Nat /\ ListPrice \in Nat /\ Nobody \notin Attempts
    /\ Prices \subseteq Nat /\ Discounts \subseteq Nat /\ Tendered \subseteq Nat
  BY CheckoutAssumption DEF CheckoutAssumption

\* What a basket's rows come to, on the page and at the server, while its prices stand.
LEMMA SameAmounts ==
  ASSUME NEW c, NEW e \in PaymentsMade, catalogue \in [Items -> Nat], IsBasket(c), Current(c),
         \A i \in In(c) : c[i].discount <= ServerGross(i, c[i])
  PROVE  /\ subtotal(c) \in Int
         /\ ServerTotal(c, e) = subtotal(c) - e.orderDiscount
<1> USE CheckoutBounds
<1>1. ASSUME NEW i \in In(c)
      PROVE  /\ ServerGross(i, c[i]) = lineGross(c[i])
             /\ ServerGross(i, c[i]) \in Int /\ c[i].discount \in Nat
  <2>1. c[i] \in BasketLines /\ i \in Items /\ catalogue[i] \in Nat
    BY DEF IsBasket, In
  <2>2. catalogue[i] = c[i].retailPrice
    BY DEF Current
  <2>3. ServerGross(i, c[i]) = lineGross(c[i])
    BY <2>2 DEF ServerGross, lineGross, unitPrice
  <2>4. ServerGross(i, c[i]) \in Int
    BY <2>1 DEF ServerGross, BasketLines
  <2> QED BY <2>1, <2>3, <2>4 DEF BasketLines
<1>2. \A i \in In(c) : lineTotal(c[i]) = ServerGross(i, c[i]) - c[i].discount
  BY <1>1 DEF lineTotal, AtLeastZero
<1> HIDE DEF lineTotal, ServerGross
<1>3. \A i \in 1..NItems : /\ LineTotals(c)[i] \in Int /\ LineDiscounts(c)[i] \in Int
                           /\ ServerLines(c)[i] = LineTotals(c)[i] + LineDiscounts(c)[i]
  <2> SUFFICES ASSUME NEW i \in Items
               PROVE  /\ LineTotals(c)[i] \in Int /\ LineDiscounts(c)[i] \in Int
                      /\ ServerLines(c)[i] = LineTotals(c)[i] + LineDiscounts(c)[i]
    BY DEF Items
  <2>1. CASE i \in In(c)
    BY <1>1, <1>2, <2>1 DEF LineTotals, LineDiscounts, ServerLines, LineColumn, In
  <2>2. CASE i \notin In(c)
    BY <2>2 DEF LineTotals, LineDiscounts, ServerLines, LineColumn, In
  <2> QED BY <2>1, <2>2
<1>4. Total(ServerLines(c), NItems) = Total(LineTotals(c), NItems) + Total(LineDiscounts(c), NItems)
  BY <1>3, TotalAdd
<1>5. Total(LineTotals(c), NItems) \in Int /\ Total(LineDiscounts(c), NItems) \in Int
  BY <1>3, TotalType
<1> QED BY <1>4, <1>5 DEF subtotal, ServerTotal, ServerSubtotal, ServerDiscount,
     PaymentsMade

\* complete() and SalesService.create let the same baskets through, but for what the page overlooks.
LEMMA Accepts == CheckoutInv => AcceptedAlike
<1> SUFFICES ASSUME CheckoutInv, Current(cart), NEW room \in Rooms
             PROVE  Chargeable(cart, entered, room) <=>
                        /\ Acceptable
                        /\ DiscountsCovered(cart, entered)
                        /\ entered.payment = "CREDIT" =>
                               WithinLimit(creditBalance(cart, entered), room)
  BY DEF AcceptedAlike
<1>1. \A i \in In(cart) : ServerGross(i, cart[i]) = lineGross(cart[i])
  BY DEF Current, ServerGross, lineGross, unitPrice
<1>2. CASE \A i \in In(cart) : cart[i].discount <= lineGross(cart[i])
  <2>1. /\ subtotal(cart) \in Int
        /\ ServerTotal(cart, entered) = subtotal(cart) - entered.orderDiscount
    BY <1>1, <1>2, SameAmounts DEF CheckoutInv
  <2>2. /\ entered.orderDiscount \in Nat /\ entered.received \in Nat
        /\ entered.payment \in {"CASH", "CREDIT"}
    BY DEF CheckoutInv, PaymentsMade
  <2>3. (ServerTotal(cart, entered) >= 0) <=> (entered.orderDiscount <= subtotal(cart))
    BY <2>1, <2>2
  <2>4. CASE entered.orderDiscount <= subtotal(cart)
    <3>1. total(cart, entered) = ServerTotal(cart, entered) /\ ServerTotal(cart, entered) \in Nat
      BY <2>1, <2>2, <2>4 DEF total, AtLeastZero
    <3>2. entered.received <= ServerTotal(cart, entered)
            => creditBalance(cart, entered) = ServerTotal(cart, entered) - entered.received
      BY <2>2, <3>1 DEF creditBalance, AtLeastZero
    <3> QED BY <1>1, <1>2, <2>2, <2>4, <3>1, <3>2 DEF Acceptable, Chargeable, DiscountsCovered
  <2>5. CASE ~(entered.orderDiscount <= subtotal(cart))
    BY <2>3, <2>5 DEF Chargeable, DiscountsCovered
  <2> QED BY <2>4, <2>5
<1>3. CASE ~(\A i \in In(cart) : cart[i].discount <= lineGross(cart[i]))
  BY <1>1, <1>3 DEF Chargeable, DiscountsCovered
<1> QED BY <1>2, <1>3

\* The sale that is created is the one that was shown.
LEMMA Charges == CheckoutInv => ChargedAsShown
<1> SUFFICES ASSUME CheckoutInv, NEW a \in Attempts, sent[a] # Nothing,
                    Current(sent[a].cart), NEW room \in Rooms,
                    Chargeable(sent[a].cart, sent[a].entered, room)
             PROVE  LET c == sent[a].cart
                        e == sent[a].entered
                        owed == IF e.payment = "CREDIT" THEN creditBalance(c, e) ELSE 0
                    IN  Sale(c, e) = [total |-> total(c, e), due |-> owed,
                            change |-> IF e.payment = "CASH" THEN e.received - total(c, e) ELSE 0]
  BY DEF ChargedAsShown
<1> DEFINE c == sent[a].cart
           e == sent[a].entered
<1>1. IsBasket(c) /\ e \in PaymentsMade /\ catalogue \in [Items -> Nat]
  BY DEF CheckoutInv, IsSale
<1>2. /\ \A i \in In(c) : c[i].discount <= ServerGross(i, c[i])
      /\ ServerTotal(c, e) >= 0
      /\ IF e.payment = "CASH" THEN e.received >= ServerTotal(c, e) ELSE e.received <= ServerTotal(c, e)
  BY DEF Chargeable
<1>3. subtotal(c) \in Int /\ ServerTotal(c, e) = subtotal(c) - e.orderDiscount
  BY <1>1, <1>2, SameAmounts
<1>4. total(c, e) = ServerTotal(c, e) /\ ServerTotal(c, e) \in Nat
  BY <1>1, <1>2, <1>3 DEF total, AtLeastZero, PaymentsMade
<1>5. e.received \in Nat /\ e.payment \in {"CASH", "CREDIT"}
  BY <1>1 DEF PaymentsMade
<1> HIDE DEF c, e
<1>6. ASSUME e.payment = "CASH"
      PROVE  Sale(c, e) = [total |-> total(c, e), due |-> 0, change |-> e.received - total(c, e)]
  BY <1>4, <1>5, <1>6 DEF Sale
<1>7. ASSUME e.payment = "CREDIT"
      PROVE  Sale(c, e) = [total |-> total(c, e), due |-> creditBalance(c, e), change |-> 0]
  BY <1>2, <1>4, <1>5, <1>7 DEF Sale, creditBalance, AtLeastZero
<1>8. Sale(c, e) = [total |-> total(c, e),
                    due |-> IF e.payment = "CREDIT" THEN creditBalance(c, e) ELSE 0,
                    change |-> IF e.payment = "CASH" THEN e.received - total(c, e) ELSE 0]
  BY <1>5, <1>6, <1>7
<1> QED BY <1>8 DEF c, e

\* A submission that was booked is awaited, or was not heard of.
LEMMA BooksOnce == CheckoutInv => BookedOnceWhenHeard
  BY DEF CheckoutInv, BookedOnceWhenHeard

-----------------------------------------------------------------------------
\* The baskets the page makes of the one it holds.
LEMMA BasketChanged ==
  ASSUME NEW c, IsBasket(c), NEW i \in Items, NEW l, l = NoLine \/ l \in BasketLines
  PROVE  IsBasket([c EXCEPT ![i] = l])
<1> DEFINE d == [c EXCEPT ![i] = l]
<1>1. d = [j \in Items |-> IF j = i THEN l ELSE c[j]]
  BY DEF IsBasket
<1>2. d = [j \in Items |-> d[j]]
  BY <1>1
<1>3. ASSUME NEW j \in In(d) PROVE d[j] \in BasketLines
  BY <1>1 DEF In, IsBasket
<1> QED BY <1>2, <1>3 DEF IsBasket

\* A line that can be entered is a row of a basket.
LEMMA LinesAreRows == Lines \subseteq BasketLines
<1>1. 1..MaxUnits \subseteq Nat
  BY CheckoutBounds
<1>2. SUFFICES ASSUME NEW l \in [quantity : 1..MaxUnits, pages : 1..MaxUnits, sellUnit : {"BASE", "BULK"},
                                  retailPrice : Prices, discount : Discounts]
               PROVE  l \in BasketLines
  BY DEF Lines
<1>3. /\ l = [quantity |-> l.quantity, pages |-> l.pages, sellUnit |-> l.sellUnit,
              retailPrice |-> l.retailPrice, discount |-> l.discount]
      /\ l.quantity \in Nat /\ l.pages \in Nat /\ l.sellUnit \in {"BASE", "BULK"}
      /\ l.retailPrice \in Nat /\ l.discount \in Nat
  BY <1>1, CheckoutBounds
<1> QED BY <1>3 DEF BasketLines

\* An empty basket and no payment.
LEMMA NoBasket == IsBasket(EmptyCart) /\ NoPayment \in PaymentsMade
  BY DEF IsBasket, EmptyCart, In, NoPayment, PaymentsMade

\* The counter opens with an empty basket.
LEMMA CheckoutStarts == CheckoutInit => CheckoutInv
  BY NoBasket, CheckoutBounds DEF CheckoutInit, CheckoutInv

\* Whatever is rendered is a basket, and its draft is one.
LEMMA Renders ==
  ASSUME CheckoutInv, NEW c, IsBasket(c), NEW e \in PaymentsMade, NEW s, Render(c, e, s)
  PROVE  /\ IsBasket(cart') /\ entered' \in PaymentsMade
         /\ draft' = NoDraft \/ IsSale(draft')
<1>1. Kept(e) \in PaymentsMade
  BY DEF Kept, PaymentsMade
<1>2. draft' = NoDraft \/ draft' = [cart |-> c, entered |-> Kept(e)]
  BY DEF Render
<1> QED BY <1>1, <1>2 DEF Render, IsSale

\* A basket that is changed: no submission is of the basket as it stands any more.
LEMMA Edits ==
  ASSUME CheckoutInv, NEW c, IsBasket(c), NEW e \in PaymentsMade, NEW s, Edit(c, e, s)
  PROVE  CheckoutInv'
<1>1. /\ IsBasket(cart') /\ entered' \in PaymentsMade
      /\ draft' = NoDraft \/ IsSale(draft')
  BY Renders DEF Edit
<1>2. /\ catalogue' = catalogue /\ sent' = sent /\ waiting' = waiting /\ booked' = booked
      /\ (unedited' = unedited /\ unheard' = unheard) \/ unedited' = {}
  BY DEF Edit
<1> HIDE DEF IsBasket, IsSale, PaymentsMade
<1> QED BY <1>1, <1>2 DEF CheckoutInv

\* An item is tapped.
LEMMA ItemAdded ==
  ASSUME CheckoutInv, NEW i \in Items, AddItem(i)
  PROVE  CheckoutInv'
<1>1. CASE cart[i] = NoLine
  <2> DEFINE l == [quantity |-> 1, pages |-> 1, sellUnit |-> "BASE", retailPrice |-> catalogue[i], discount |-> 0]
  <2>1. l \in BasketLines
    BY DEF CheckoutInv, BasketLines
  <2>2. IsBasket([cart EXCEPT ![i] = l])
    BY <2>1, BasketChanged DEF CheckoutInv
  <2>3. Edit([cart EXCEPT ![i] = l], entered, step)
    BY <1>1 DEF AddItem
  <2> HIDE DEF l
  <2> QED BY <2>2, <2>3, Edits DEF CheckoutInv
<1>2. CASE cart[i] # NoLine
  <2> DEFINE l == [cart[i] EXCEPT !.quantity = @ + 1]
  <2>1. cart[i] \in BasketLines
    BY <1>2 DEF CheckoutInv, IsBasket, In
  <2>2. l \in BasketLines
    BY <2>1 DEF BasketLines
  <2>3. IsBasket([cart EXCEPT ![i] = l])
    BY <2>2, BasketChanged DEF CheckoutInv
  <2>4. Edit([cart EXCEPT ![i] = l], entered, step)
    BY <1>2 DEF AddItem
  <2> HIDE DEF l
  <2> QED BY <2>3, <2>4, Edits DEF CheckoutInv
<1> QED BY <1>1, <1>2

\* A line, the payment or the whole basket is changed.
LEMMA BasketEdited ==
  ASSUME CheckoutInv,
         \/ \E i \in Items : RemoveLine(i)
         \/ \E i \in Items, l \in Lines : UpdateLine(i, l)
         \/ \E e \in Payments : Enter(e)
         \/ Clear
  PROVE  CheckoutInv'
<1> USE CheckoutBounds
<1>1. ASSUME NEW i \in Items, RemoveLine(i) PROVE CheckoutInv'
  <2>1. IsBasket([cart EXCEPT ![i] = NoLine])
    BY BasketChanged DEF CheckoutInv
  <2> QED BY <1>1, <2>1, Edits DEF CheckoutInv, RemoveLine
<1>2. ASSUME NEW i \in Items, NEW l \in Lines, UpdateLine(i, l) PROVE CheckoutInv'
  <2>1. l \in BasketLines
    BY LinesAreRows
  <2>2. IsBasket([cart EXCEPT ![i] = l])
    BY <2>1, BasketChanged DEF CheckoutInv
  <2> QED BY <1>2, <2>2, Edits DEF CheckoutInv, UpdateLine
<1>3. ASSUME NEW e \in Payments, Enter(e) PROVE CheckoutInv'
  <2>1. e \in PaymentsMade
    BY DEF Payments, PaymentsMade
  <2> QED BY <1>3, <2>1, Edits DEF CheckoutInv, Enter
<1>4. ASSUME Clear PROVE CheckoutInv'
  BY <1>4, NoBasket, Edits DEF Clear
<1> QED BY <1>1, <1>2, <1>3, <1>4

\* A submission is of the basket as it stands, and is the one awaited.
LEMMA Submits ==
  ASSUME CheckoutInv, NEW a \in Attempts, SubmitSale(a)
  PROVE  CheckoutInv'
<1>1. IsSale([cart |-> cart, entered |-> entered])
  BY DEF IsSale, CheckoutInv
<1>2. sent' = [b \in Attempts |-> IF b = a THEN [cart |-> cart, entered |-> entered] ELSE sent[b]]
  BY DEF CheckoutInv, SubmitSale
<1>3. \A b \in Attempts : sent'[b] = Nothing \/ IsSale(sent'[b])
  BY <1>1, <1>2 DEF CheckoutInv
<1>4. /\ waiting = Nobody /\ waiting' = a /\ unedited' = unedited \union {a}
      /\ unheard' = unheard /\ booked' = booked
      /\ catalogue' = catalogue /\ cart' = cart /\ entered' = entered /\ draft' = draft
  BY DEF SubmitSale
<1>5. unedited' \subseteq Attempts
  BY <1>4 DEF CheckoutInv
<1>6. \A b \in unedited' : b = waiting' \/ b \in unheard' \/ (sent'[b] = Nothing /\ b \notin booked')
  <2> SUFFICES ASSUME NEW b \in unedited', b # a
               PROVE  b \in unheard \/ (sent'[b] = Nothing /\ b \notin booked)
    BY <1>4
  <2>1. b \in unedited /\ b # Nobody /\ sent'[b] = sent[b]
    BY <1>2, <1>4, CheckoutBounds DEF CheckoutInv
  <2> QED BY <1>4, <2>1 DEF CheckoutInv
<1>7. sent' = [b \in Attempts |-> sent'[b]]
  BY <1>2
<1> HIDE DEF IsSale, IsBasket, PaymentsMade
<1> QED BY <1>3, <1>4, <1>5, <1>6, <1>7 DEF CheckoutInv

\* A submission reaches the server.
LEMMA Served ==
  ASSUME CheckoutInv, NEW a \in Attempts, Book(a) \/ Refuse(a)
  PROVE  CheckoutInv'
<1>1. /\ sent[a] # Nothing /\ sent' = [sent EXCEPT ![a] = Nothing]
      /\ booked' = booked \union {a} \/ booked' = booked
      /\ catalogue' = catalogue /\ cart' = cart /\ entered' = entered /\ draft' = draft
      /\ waiting' = waiting /\ unedited' = unedited /\ unheard' = unheard
  BY DEF Book, Refuse, pageVars, basket
<1>2. sent' = [b \in Attempts |-> IF b = a THEN Nothing ELSE sent[b]]
  BY <1>1 DEF CheckoutInv
<1>3. \A b \in Attempts : sent'[b] = Nothing \/ IsSale(sent'[b])
  BY <1>2 DEF CheckoutInv
<1>4. sent' = [b \in Attempts |-> sent'[b]]
  BY <1>2
<1>5. \A b \in unedited : b = waiting \/ b \in unheard \/ (sent'[b] = Nothing /\ b \notin booked')
  BY <1>1, <1>2 DEF CheckoutInv
<1> HIDE DEF IsSale, IsBasket, PaymentsMade
<1> QED BY <1>1, <1>3, <1>4, <1>5 DEF CheckoutInv

\* The answer to a submission comes, or is lost.
LEMMA Answered ==
  ASSUME CheckoutInv, NEW a \in Attempts, Receipt(a) \/ Failed(a) \/ Lost(a)
  PROVE  CheckoutInv'
<1>1. CASE Receipt(a)
  <2>1. /\ IsBasket(cart') /\ entered' \in PaymentsMade
        /\ draft' = NoDraft \/ IsSale(draft')
    BY <1>1, NoBasket, Renders DEF Receipt
  <2>2. unedited' = {} /\ catalogue' = catalogue /\ sent' = sent
    BY <1>1 DEF Receipt
  <2> HIDE DEF IsSale, IsBasket, PaymentsMade
  <2> QED BY <2>1, <2>2 DEF CheckoutInv
<1>2. CASE Failed(a)
  BY <1>2 DEF Failed, basket, CheckoutInv
<1>3. CASE Lost(a)
  BY <1>3 DEF Lost, basket, CheckoutInv
<1> QED BY <1>1, <1>2, <1>3

\* The page is left and comes back to its draft.
LEMMA ComesBack == ASSUME CheckoutInv, Return PROVE CheckoutInv'
<1>1. IsBasket(cart') /\ entered' \in PaymentsMade
  BY NoBasket DEF Return, CheckoutInv, IsSale
<1>2. /\ waiting' = Nobody /\ unheard' = unheard \union ({waiting} \intersect unedited)
      /\ catalogue' = catalogue /\ draft' = draft /\ sent' = sent /\ booked' = booked
      /\ unedited' = unedited
  BY DEF Return
<1> HIDE DEF IsSale, IsBasket, PaymentsMade
<1> QED BY <1>1, <1>2 DEF CheckoutInv

\* A price is changed in the catalogue.
LEMMA PriceSet == ASSUME CheckoutInv, NEW i \in Changeable, NEW p \in Prices, SetPrice(i, p) PROVE CheckoutInv'
<1>1. catalogue' \in [Items -> Nat]
  BY CheckoutBounds DEF SetPrice, CheckoutInv
<1>2. UNCHANGED <<cart, entered, draft, waiting, sent, booked, unedited, unheard>>
  BY DEF SetPrice, pageVars, basket
<1> QED BY <1>1, <1>2 DEF CheckoutInv

\* Nothing the invariant speaks of is touched.
LEMMA CheckoutRests ==
  ASSUME CheckoutInv, UNCHANGED <<catalogue, cart, entered, draft, waiting, sent, booked, unedited, unheard>>
  PROVE  CheckoutInv'
  BY DEF CheckoutInv

\* Every step of a counter keeps the invariant.
LEMMA CheckoutSteps == CheckoutInv /\ [CheckoutNext]_checkoutVars => CheckoutInv'
<1> SUFFICES ASSUME CheckoutInv, [CheckoutNext]_checkoutVars PROVE CheckoutInv'
  OBVIOUS
<1>1. CASE UNCHANGED checkoutVars
  BY <1>1, CheckoutRests DEF checkoutVars, pageVars, basket
<1>2. ASSUME (\E s \in {"cart", "pay"} : GoTo(s)) \/ Ask \/ Withdraw
      PROVE  UNCHANGED <<catalogue, cart, entered, draft, waiting, sent, booked, unedited, unheard>>
  BY <1>2 DEF GoTo, Ask, Withdraw, basket
<1>3. ASSUME NEW a \in Attempts, Complete(a) \/ Confirm(a)
      PROVE  SubmitSale(a)
  BY <1>3 DEF Complete, Confirm
<1> HIDE DEF CheckoutInv, AddItem, RemoveLine, UpdateLine, SetPrice, Enter, GoTo,
     Clear, Ask, Withdraw,
             Return, Complete, Confirm, Book, Refuse, Receipt, Failed, Lost
<1> QED BY <1>1, <1>2, <1>3, CheckoutRests, ItemAdded, BasketEdited, Submits, Served,
     Answered,
           ComesBack, PriceSet DEF CheckoutNext

\* Whatever the prices, discounts, payments and limits, the catalogue being the one the basket was
\* priced from: what SalesService.create accepts is what complete() lets through, but for
\* discounts larger than what they come off and debts beyond the customer's limit.
THEOREM CheckoutAgrees == CheckoutSpec => []AcceptedAlike
<1>1. CheckoutInv => AcceptedAlike
  BY Accepts
<1> QED BY <1>1, CheckoutStarts, CheckoutSteps, PTL DEF CheckoutSpec

\* While no price has changed under it, the sale booked has the total, the debt and the change the
\* page showed, for any basket and payment.
THEOREM CheckoutCharges == CheckoutSpec => []ChargedAsShown
<1> QED BY Charges, CheckoutStarts, CheckoutSteps, PTL DEF CheckoutSpec

\* However often Complete is tapped, a basket is booked again only when the answer to an earlier
\* submission never reached the page.
THEOREM CheckoutBooksOnce == CheckoutSpec => []BookedOnceWhenHeard
<1> QED BY BooksOnce, CheckoutStarts, CheckoutSteps, PTL DEF CheckoutSpec
=============================================================================
