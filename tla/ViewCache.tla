------------------------------ MODULE ViewCache ------------------------------
(***************************************************************************)
(* What a page shows and what the shop's books hold.  Every query hook     *)
(* keeps its answer in a cache; every mutation hook invalidates some       *)
(* entries when its answer comes, and those on the screen are fetched      *)
(* again; a few views are polled.  Entries of the cache do not meet each   *)
(* other, so the model watches one of them, whichever it is, and the       *)
(* changes that concern it, made here or at another station.  The cache    *)
(* itself (fetches, stale times, invalidation) is a library, modelled from *)
(* how the hooks and lib/queryClient.ts use it.                            *)
(***************************************************************************)
EXTENDS Integers, FiniteSets, ViewTables

CONSTANTS MaxOps,        \* bound: changes made
          MaxTroubles    \* bound: requests or answers lost

Ops == 1..MaxOps
NoData == {0}   \* nothing in the cache: no set of changes

VARIABLES watched,   \* the view
          mounted,   \* it is on the screen
          data,      \* the changes its cached answer includes
          invalid,   \* the answer was invalidated
          fetch,     \* the request for it under way
          op,        \* the changes made
          missed,    \* changes answered while a fetch was under way that was let go on
          troubles

cache == <<mounted, data, invalid, fetch, missed>>

\* A request on its way ("asked"), and an answer that includes some changes ("read").
Idle == [stage |-> "idle", seen |-> {}]
Asked == [stage |-> "asked", seen |-> {}]

NoOp == [stage |-> "none", touches |-> FALSE, busts |-> FALSE, promised |-> FALSE]

Init ==
    /\ watched \in DOMAIN Views
    /\ mounted = FALSE
    /\ data = NoData
    /\ invalid = FALSE
    /\ fetch = Idle
    /\ op = [i \in Ops |-> NoOp]
    /\ missed = {}
    /\ troubles = 0

Committed == {i \in Ops : op[i].stage \in {"applied", "answered", "unheard", "elsewhere"}}

Trouble == troubles < MaxTroubles /\ troubles' = troubles + 1

-----------------------------------------------------------------------------
\* The view comes to the screen: it is fetched unless its answer is still good, which
\* one older than the stale time is not.  A fetch under way is joined.
Mount ==
    /\ ~mounted
    /\ mounted' = TRUE
    /\ \E old \in BOOLEAN :
           fetch' = IF fetch = Idle /\ (data = NoData \/ invalid \/ old) THEN Asked ELSE fetch
    /\ UNCHANGED <<watched, data, invalid, op, missed, troubles>>

\* It leaves the screen; a fetch under way goes on.
Unmount ==
    /\ mounted
    /\ mounted' = FALSE
    /\ UNCHANGED <<watched, data, invalid, fetch, op, missed, troubles>>

\* Everything is forgotten: on signing out (qc.clear), or after a while off the screen.
Forget ==
    /\ mounted' = FALSE
    /\ data' = NoData /\ invalid' = FALSE
    /\ fetch' = Idle
    /\ missed' = {}
    /\ UNCHANGED <<watched, op, troubles>>

\* Mutant: the interval runs only once the answer is stale.
PollStale ==
    /\ watched \in Polled /\ mounted /\ fetch = Idle /\ invalid
    /\ fetch' = Asked
    /\ UNCHANGED <<watched, mounted, data, invalid, op, missed, troubles>>

\* refetchInterval.
Poll ==
    /\ watched \in Polled /\ mounted /\ fetch = Idle
    /\ fetch' = Asked
    /\ UNCHANGED <<watched, mounted, data, invalid, op, missed, troubles>>

\* The server reads what is committed.
Read ==
    /\ fetch.stage = "asked"
    /\ fetch' = [stage |-> "read", seen |-> {i \in Committed : op[i].touches}]
    /\ UNCHANGED <<watched, mounted, data, invalid, op, missed, troubles>>

\* The answer arrives and is good again, whatever was invalidated meanwhile.
Arrive ==
    /\ fetch.stage = "read"
    /\ data' = fetch.seen
    /\ invalid' = FALSE
    /\ fetch' = Idle
    /\ missed' = missed \ fetch.seen
    /\ UNCHANGED <<watched, mounted, op, troubles>>

\* The fetch fails, its retry too: the old answer stays.
Fail ==
    /\ fetch # Idle
    /\ Trouble
    /\ fetch' = Idle
    /\ UNCHANGED <<watched, mounted, data, invalid, op, missed>>

-----------------------------------------------------------------------------
\* What the comments say of these mutations: the views among those named that show these
\* tables are stale.
Claim(by, tables, among) == [by |-> by, tables |-> tables, among |-> among]
Session == {"useCurrentCashSession", "useCashSessionSummary"}
AllViews == DOMAIN Views

\* Every sentence of hooks/ about what a mutation makes stale, for whatever it is about.
Claims == {
    \* "touches all three views at once, so every mutation busts the lot" (useBanking.ts:21)
    Claim(DOMAIN MoneyMutations, {"till", "bank", "hand", "loans"}, AllViews),
    \* "Stock moved, so anything derived from it is stale" (useInventory.ts:128)
    Claim(DOMAIN StockMutations, {"stock"}, AllViews),
    \* "the till's expected cash and the P&L" (useExpenses.ts:78), and a salary is an
    \* expense (266)
    Claim((DOMAIN ExpenseMutations \ {"usePayOfficePurchase"}) \union DOMAIN SalaryMutations,
          {"expenses"}, DOMAIN ReportViews),
    \* "Paid from held cash, the money moves on the Bank page instead" (67, 83, 99, 174)
    Claim(DOMAIN ExpenseMutations \union DOMAIN SalaryMutations, {"till", "hand"}, AllViews),
    \* "the open session has to be refreshed alongside the purchase itself" (180)
    Claim({"usePayOfficePurchase"}, {"expenses"},
          {"useOfficePurchases", "useOfficePurchase", "useOfficePurchasesOutstanding"}),
    \* "every mutation that already busts a session's figures (sales, expenses, payments)
    \* also refreshes the shared one" (keys.ts)
    Claim(DOMAIN SalesMutations \union {"useRecordCustomerPayment", "useRecordSupplierPayment"},
          {"till"}, Session),
    \* "stock off the shelf, batches gone, supplier debt and till cash unwound"
    \* (usePurchases.ts:67)
    Claim({"useVoidPurchase"}, {"stock", "suppliers", "till"}, AllViews),
    \* "Products embed the category name / link", "Deleting un-categorizes referencing
    \* products" (useCatalog.ts:42, 54)
    Claim({"useUpdateCategory", "useDeleteCategory"}, {"categories"}, AllViews),
    \* "Expenses and reports embed the category name and icon" (useExpenseCategories.ts:38)
    Claim({"useUpdateExpenseCategory"}, {"expenseCategories"}, AllViews),
    \* "refresh any open single-product view broadly" (useProducts.ts:114)
    Claim({"useUpdateVariant", "useDeactivateVariant", "useRemoveVariant"}, {"products"}, {"useProduct"})}

\* View v is said to be stale after m.
Said(m, v) == \E c \in Claims : m \in c.by /\ v \in c.among /\ Shows(v, c.tables)

\* ... and the code does not invalidate it.  The page of a product and the services show
\* the stock, but their keys are ["product"] and ["services"]; ["cash"], which undoing a
\* purchase names, begins no key, and ["suppliers"] not the page of one supplier; voiding a
\* sale leaves the till alone; the page of a product shows its category, purchases for the
\* office and salaries theirs.
Overlooked ==
    ((DOMAIN StockMutations \union {"useVoidPurchase"}) \X {"useProduct", "useServices", "useService"})
    \union ({"useVoidPurchase"} \X (Session \union {"useSupplier"}))
    \union ({"useVoidSale"} \X Session)
    \union ({"useUpdateCategory", "useDeleteCategory"} \X {"useProduct"})
    \union ({"useUpdateExpenseCategory"} \X {"useOfficePurchases", "useOfficePurchase", "useSalaries"})

Promised(m, v) == Touches(m, v) /\ Said(m, v) /\ <<m, v>> \notin Overlooked

\* A mutation that concerns the view is sent, and the server commits its change; one
\* that is refused changes nothing.
Mutate(i, m) ==
    /\ op[i].stage = "none" /\ \A j \in 1..(i - 1) : op[j].stage # "none"
    /\ Touches(m, watched) \/ Busts(m, watched)
    /\ op' = [op EXCEPT ![i] = [stage |-> "applied", touches |-> Touches(m, watched),
                                busts |-> Busts(m, watched), promised |-> Promised(m, watched)]]
    /\ UNCHANGED <<watched, cache, troubles>>

\* Another station makes a change.
Elsewhere(i, m) ==
    /\ op[i].stage = "none" /\ \A j \in 1..(i - 1) : op[j].stage # "none"
    /\ Touches(m, watched)
    /\ op' = [op EXCEPT ![i] = [NoOp EXCEPT !.stage = "elsewhere", !.touches = TRUE]]
    /\ UNCHANGED <<watched, cache, troubles>>

\* invalidateQueries: the answer is marked, and fetched again if on the screen.  A
\* fetch under way starts anew if the view is on the screen with an answer; else it
\* goes on, with what it has read.
Invalidate(i) ==
    LET restart == mounted /\ (fetch = Idle \/ data # NoData)
    IN  /\ invalid' = (invalid \/ data # NoData)
        /\ fetch' = IF restart THEN Asked ELSE fetch
        /\ missed' = IF ~restart /\ fetch.stage = "read" THEN missed \union {i} ELSE missed

\* onSuccess: the answer to a mutation comes, wherever the user is by now.
Answer(i) ==
    /\ op[i].stage = "applied"
    /\ op' = [op EXCEPT ![i].stage = "answered"]
    /\ IF op[i].busts THEN Invalidate(i) ELSE UNCHANGED <<invalid, fetch, missed>>
    /\ UNCHANGED <<watched, mounted, data, troubles>>

\* The answer is lost: the change is made, and nothing is invalidated.
LoseAnswer(i) ==
    /\ op[i].stage = "applied"
    /\ Trouble
    /\ op' = [op EXCEPT ![i].stage = "unheard"]
    /\ UNCHANGED <<watched, cache>>

-----------------------------------------------------------------------------
Next ==
    \/ Mount \/ Unmount \/ Forget \/ Poll \/ Read \/ Arrive \/ Fail
    \/ \E i \in Ops, m \in DOMAIN Mutations : Mutate(i, m) \/ Elsewhere(i, m)
    \/ \E i \in Ops : Answer(i) \/ LoseAnswer(i)

-----------------------------------------------------------------------------
\* Who makes a change sees it: once its answer has come, a view that is invalidated or said
\* to be stale, but for those named in Overlooked, shows it whenever the view is on the
\* screen, is not being fetched, and its last fetch did not fail, however fetches, changes
\* and answers overlap and whichever pages were left and opened again.  The exception is a
\* fetch that had read before the change and was let go on, as the view's first, or off the
\* screen: its answer is taken for good until the next.
OwnChangesShown ==
    \A i \in Ops :
        op[i].stage = "answered" /\ op[i].touches /\ (op[i].busts \/ op[i].promised) /\ i \notin missed
        /\ mounted /\ fetch = Idle /\ ~invalid /\ data # NoData => i \in data

\* A station notices what others do to the till (useCash.ts: "Polled so a station
\* notices when someone else opens or closes the till"), and what was done here and
\* not heard of: a polled view that stays on the screen comes to show every change.
StationNotices ==
    \A i \in Ops :
        watched \in Polled /\ mounted /\ i \in Committed /\ op[i].touches
            ~> ~mounted \/ (data # NoData /\ i \in data)

-----------------------------------------------------------------------------
\* What the repository says and the code does not keep.
\* The comments quoted in Claims: whatever is said to be stale is invalidated.  Those in
\* Overlooked are not, and are shown as before until their answer is old and the page is
\* opened again, or the next poll.
HooksDoAsTheySay ==
    \A m \in DOMAIN Mutations : Touches(m, watched) /\ Said(m, watched) => Busts(m, watched)
=============================================================================
