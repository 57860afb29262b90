# Formal models of the stationery management system

The repository is a shop's point of sale and back office: a NestJS + Prisma/PostgreSQL
backend (`src`), a React front end (`frontend`) and maintenance scripts. Money is cash
only. This directory holds TLA+ modules of its logic, TLC configurations that check them
on small instances, and TLAPS proofs that hold for every size of instance. Source paths
below are relative to the repository root; `PROJECT.json` maps every definition to the
lines it models, and lists the hazards the properties are aimed at.

## How the code executes, and how the models follow it

Every multi-row change of the backend runs in `PrismaService.runSerializable`: a
SERIALIZABLE PostgreSQL transaction, run again up to three times on a conflict. Its body
takes effect at one instant or not at all, so in the modules of the books it is ONE
action, and a refusal (a thrown exception) is that action not being enabled. `Requests`
is the module that looks inside: snapshots, row locks, the unique index and the retries,
shown to implement the one step of `OnceOnly`. Whatever a handler reads BEFORE the
transaction, or through `this.prisma` instead of `tx`, is a separate step: there each
request has a program counter (`request[r]`, what it has checked and is about to write)
and other requests run between the check and the write. In the front end a step is what
runs between two awaits; requests, answers, reloads and the poll interleave freely.

## The system's parts

| Part | State | Operations | What makes it hard | What makes it correct |
|---|---|---|---|---|
| Inventory engine (`modules/inventory`) | shelf count `currentStock`, FIFO batches, cost allocations | purchases, sales, voids, returns, adjustments, wastage, opening stock | two counts of the same goods moved by ten callers; some callers may go short | units conserved, FIFO, the counts apart only where allowed |
| Sales (`sales`) | sale, lines, returns | create, void, return | touches stock, the customer account and the drawer in one transaction | each of the three keeps its own promise |
| Purchases (`purchases`) | purchase, lines | create, void | the batch, the payment and the debt may each have moved on before the void | undoing never contradicts what happened since |
| Customers (`customers`) | balance, credit limit, invoices' `amountDue` | credit sale, repayment, void, return, edit | a denormalised sum kept by four operations; rounding; earmarks | `balance == SUM(amountDue)` |
| Suppliers (`suppliers`) | balance, payments, purchases' `amountDue` | purchase on credit, payment, void | a clamp at zero hides what was paid | what is owed is bounded by what was bought |
| Till (`cash`) | sessions, their rows | open, movement, close, everything posted | most checks run outside the write; a session closes in between | one session open; a reconciled session stays reconciled |
| Expenses (`expenses`) | expense, amount paid and due, payments, salary | record, office purchase, pay, edit, delete | charged to a till or to held cash, over several months and sessions | each pocket charged once |
| Banking (`banking`) | bank and held-cash ledgers, loans | transfers, corrections, opening balances, loans, repayments | three pockets, moves write two rows, stale checks | money conserved, nothing overdrawn |
| Accounting periods (`accounting`) | month status, signed-off figures | close, reopen, `assertOpen` | `assertOpen` is a separate read; entries of five kinds | a closed month's figures stand |
| Reports (`reports`) | none of their own | summary, series, statements, wastage, profit tables | the same money added up by queries that share no code | the figures agree |
| Transactions (`prisma/prisma.service.ts`), idempotency keys, document numbers (`shared`) | sequence rows, keys | run with retries; look up and insert under a key; reserve a number | conflicts, duplicates, aborts, locks | one document per key; no gaps; every request ends |
| Sessions (`auth`, `users`, `lib/api.ts`, `AuthProvider`) | refresh tokens; tokens in the tab | login, refresh, reuse detection, logout, reset | rotation in three statements; one refresh for many requests | an honest tab never presents a dead token |
| Backups (`backup`) | settings row, dump files | scheduled and manual backup, prune, restore | external programs, downtime, a flag not shared | a missed slot is caught up; a copy always left |
| Point of sale (`PosPage`) | basket, draft in the browser | add, edit, pay, submit, restore | amounts worked out twice, prices that move, lost answers | charged as shown; booked once when heard |
| Cached views (`frontend/src/hooks`) | one cache entry per query | fetch, invalidate, poll | what each of 66 changes makes stale is written by hand | who makes a change sees it |
| Pages, dialogs, forms (`pages`, `features`) | fields, pending requests | open, type, send, close, answers | late answers meet reused dialogs; saves in several requests | entered as meant, saved as typed |
| Permissions (guards, `AuthProvider`) | role and keys, profile in the browser | guard, offer, grant | offered by one table, admitted by another | nothing asked in vain |
| Catalogue (`products`, `services`) | rows with variants or options | update, switch on and off, remove | history looked for in one statement, deleted in another | what was traded is not removed |

They interact through the database (`SalesService.create` consumes FIFO batches, adds to
the customer's balance and posts cash to the open session inside one transaction;
everything dated asks `AccountingPeriodsService.assertOpen`) and over HTTP: the front end
keeps tokens, cached answers and a draft of its own, and every property about it is about
those copies against what the server holds.

## Modules

| Module | Models | Proofs |
|---|---|---|
| `Sums` | sums over a table column, and the greedy walk (`Greedy`) that FIFO consumption and invoice settlement share | `SumsProofs` |
| `Inventory` | one product variant: shelf count, batches, cost rows, every stock operation | `InventoryProofs` |
| `Receivables` | one customer's credit account | `ReceivablesProofs` |
| `Till` | cash sessions, what is posted to them, expenses charged to them | `TillProofs` |
| `Banking` | the three pockets, ledgers, loans, bills paid from held cash | `AccountsProofs` |
| `MoneyPosition` | the abstract promise of `Banking`: trade makes the shop richer or poorer, lending swaps cash for a claim, moving money changes nothing | (refined by `Banking`) |
| `Payables` | every supplier's balance against its purchases and payments | `AccountsProofs` |
| `Periods` | months, their figures, and every write that dates an entry | `PeriodsProofs` |
| `OnceOnly` | the abstract promise of a keyed write: one step books one document per key, under the next number | (refined by `Requests`) |
| `Requests` | the transaction inside: key lookups, snapshot, sequence row lock, unique index, retries | `ServerProofs` |
| `Reports` | the dated books over `Inventory` (it extends it), and the reports as operators on them | `InventoryProofs` |
| `Backup` | schedule, manual backup, dump, check, prune, restore, power cuts | `ServerProofs` |
| `Sessions` | tokens at the server and in tabs, requests in flight | `ServerProofs` |
| `Checkout` | the point of sale against `computeLines` and `create` | `FrontEndProofs` |
| `Endpoints`, `Forms`, `Pages` | tables: the guard of every endpoint, the 50 dialogs and forms, the 32 pages | |
| `Access` | what a page asks and offers, and whom the server admits | |
| `Desk` | someone filling in a form of the table | |
| `ItemEditor` | the page that edits a product or service and saves in several requests | |
| `Catalogue` | removal of products, services and their variants, statement by statement | |
| `ViewTables`, `ViewCache` | 59 queries and 66 changes with their cache keys; one cache entry, changes, fetches and polls | |
| `FrontEnd` | composes `ViewCache`, `Access`, `Desk`, `ItemEditor`, `Catalogue` | `FrontEndProofs` |
| `MC*` | instances for TLC: `Permutations` of interchangeable requests or suppliers, values of constants | |

One transaction of the code that touches several parts is split over the modules: a
credit sale is `SellProduct` in `Inventory`, `CreateCreditSale` in `Receivables`, `Sell`
in `Till`, `Book` in `Requests` and in `Checkout`. Within a module the parts of it left to
the others are always allowed, so a module has every behaviour the code has (a void
refused because its month is closed is, in `Till`, a void not taken) and what it keeps,
the code keeps.

### Inventory
`stock`, `quantity`, `remaining`, `allocated`, `returned` are the columns of
`ProductVariant`, `InventoryBatch` and `CogsAllocation`. A batch is named by its rank in
(purchaseDate, createdAt) order, so a backdated purchase takes a lower unused rank.
`ApplyMovement`, `AddBatch`, `ConsumeFifo`, `Restore` are the four primitives of
`inventory.service.ts`; the callers' actions are built from them, with the flags the code
passes (`allowNegative`, `allowShortfall`). `GivesBack` is nondeterministic where
`returnSale` walks cost rows in no stated order. Histories (`arrivedGone`,
`writtenOff`, `wastedShort`) are written and never read by a guard. A service line here
uses one piece per job. Unit costs and prices come with `Reports`; the movement log is
left out.

### Receivables
`AllocateToInvoices` is `allocateToInvoices`: the earmarked sale, then oldest first.
`ReturnSale` rounds refunds half up, as `Decimal(2)` does, and caps what goes to the
account by the balance. A sale has one line; the other lines are the same sum again.

### Till
Five operations check first and write later (`CheckNoneOpen`/`CreateSession`,
`CheckMovement`/`InsertMovement`, `FindSession`/`InsertExpense`,
`CheckEditable`/`UpdateExpense` or `DeleteExpense`). `Close` is one action: it holds a
`SELECT ... FOR UPDATE` row lock (README.md:383). The partial unique index
`cash_sessions_single_open` is the guard of `CreateSession`. `Expected` is
`computeBreakdown`; rows nothing ever changes again are one sum, `posted`, while sales and
purchases, which can be undone, are sums of their own.

### Banking
The drawer is one number here (what it should hold while open, what stayed in it while
closed). A move writes two ledger rows in one transaction; corrections, opening balances
and deletions check outside it (`Checks`, `Writes`).

### Payables
`RecordPayment` compares with the balance only, and never touches a purchase's
`amountDue`; `VoidPurchase` clamps the balance at zero.

### Periods
`CheckDated`, `CheckEdit`, `CheckUndo`, `CheckClose`, `CheckReopen` are `assertOpen` and
the other reads; `InsertEntry`, `UpdateExpense`, `Undo`, `ComputeFigures`, `WriteClose`,
`WriteReopen` the statements that follow. Sales, returns and adjustments do not ask: they
are stamped (`Stamp`) when made. `RecordOfficePurchase` asks nothing at all. The reads of
one check are one action, and so are the five aggregates of `ComputeFigures`: what may
happen between two of them may as well happen between the check and the write.

### Requests
`pc[r]` walks a request through `SalesService.create` and its sisters: the key looked up
outside the transaction (`check`), the snapshot taken (`begin`), the key looked up again,
the sequence row updated under its lock (`reserve`), the document inserted under the
unique index (`insert`), `commit`. A serialization failure rolls back and runs the body
again up to `MaxRetries`; a unique violation, a lock wait that ends in a conflict and a
refusal end the request; a connection may be cut before or after the commit.

### Reports
Every operation that moves stock is `Inventory`'s own action together with the row it
leaves in the books (`BookSale` is `SellProduct` or `SellService` with the sale's date,
total and cost; `BookReturn`, `BookWastage` likewise); the reports are operators over those
rows, each with the filter, grouping and rounding of its query. A query's filter is a set
of row numbers and what it adds up a column of `Sums`. Rows carry the moment they were made or, where the
user chooses one, a date. `Behind` is how far the database's clock zone is behind the
shop's. Bulk packs give batches a rounded cost per piece.

### Backup
Each writer (the timer, the button) is a process: `pg_dump` opens and writes a file,
`pg_restore --list` checks it, older files are pruned (or some, or none: prune swallows its
errors, `PruneSkipped`), the outcome is recorded. Dumps fail, the power is cut and comes
back, the settings page changes the time, and a restore puts the settings row back to an
earlier value. The number of files to keep is a constant, anything the settings page takes
(1 to 30).

### Sessions
The three statements of a rotation are three actions; a tab has requests in flight, one
refresh shared by those that got a 401, and a storage of its own. Lost messages, reloads,
password resets, deactivation and removal of accounts happen meanwhile, up to a bound.

### Checkout
The basket, the payment step, the draft in local storage and the confirmation dialog of
`PosPage`, with its arithmetic; `Book` prices the sale anew as `computeLines` does, with
prices that may have changed since, for a customer whose credit limit leaves any room
(`Rooms`; the account is `Receivables`). Answers and requests may be lost, the page left and
come back to. Money is in cents on both sides; the page's floating point is left out.
`EditsInFlight` says whether lines and payment are edited while a submission is on its way:
the page allows it and the proofs cover it, the run leaves it out to stay small.

### The front end's tables and scenes
`Endpoints` gives each hook the guard of the handler it calls; `Pages` each route its guard
and the queries with the condition that enables them; `Forms` each dialog its pages, who is
offered it, what it sends, how long its fields live and what a second identical request
does; `ViewTables` each query its key and each mutation the keys it invalidates and the
tables its endpoint really changes (from the services). The
machines run over one row of a table at a time, whichever it is: a cache entry never reads
another, nor a form another form. For the same reason `FrontEnd` watches one of its five
parts per behaviour (`scene`). `ViewCache` models react-query, which is not in the
repository, from how the hooks and `lib/queryClient.ts` use it; such definitions are marked
external in the map. In `ViewCache`, `Claims` has every sentence in `hooks/` about what a
mutation makes stale, as the mutations it is about and the tables it names: it speaks of
every view that shows one of them (`Said`), whichever those are. `Overlooked` names the
pairs for which the code does not do as it says, and `Promised` is the rest.

How long what is typed lives is a column of `Forms`: "opened" (emptied or loaded whenever
the dialog opens), "kept" (it outlives the dialog, a success empties it), "mounted" (a
success does not either: the dialog that closes a session), "manager", "bare" and "page".
Two more columns name the forms that follow a polled view (`follows`) and those whose Enter
key does not wait for the answer (`eager`).

In `ItemEditor` a value typed is a fresh number, so whose value a row ends with can be told.
A save has the rows as they were when it began (`saves["here"]`), as the loop in `submit`
has; the form beside it is typed into, its rows added, dropped and removed, and it may be
left, in which case the save goes on (`saves["left"]`), overwrites what is saved later and
closes whatever form is open when it ends. The cached answer may be fetched anew at any
time, which covers stale times and invalidation. `meant` is what had been typed when a save began,
`disturbed` the parts someone else, or the other save, has changed since; both are for the
property only. `Catalogue` splits `removeVariant` and
`remove` at every statement.

## Runs

All runs are exhaustive on their instance.

| Run | Instance | Shows |
|---|---|---|
| `inventory` | 2 batches, 2 lines, quantities to 2, count down to -2 | `TypeOK`, `UnitsAccountedFor`, `LinesBacked`, `DriftExplained`, `FirstInFirstOut` |
| `receivables` | 2 sales, prices to 3 cents, quantities to 2, limit 2 or none | `BalanceIsSumDue`, `NothingUnallocated`, `RefundsFollowPrice`, `OldestFirst` |
| `till` | 2 sessions, 2 requests, 1 expense, amounts of 1, one sale, purchase or other row outstanding at a time | `OneOpenSession`, `FrozenOnceClosed` |
| `banking` | 2 requests, 1 loan of up to 2, 1 bill, other amounts of 1, drawer followed in -2..2, ledgers in -1..1 | `LoansAddUp`, `NoOverdraft`, refinement of `MoneyPosition` |
| `payables` | 2 suppliers, 3 purchases, costs to 2 | `BalanceExplained`, `NeverOverpaid` |
| `periods` | 3 months, 1 entry, 2 requests, amounts to 2 | `FrozenOnceClosed` |
| `requests` | 3 requests, one key and none, 2 months, 2 retries | `OncePerKey`, `Gapless`, `SameAnswer`, `RefusedLeavesNothing`, refinement of `OnceOnly`, `EveryRequestEnds` |
| `reports` | 2 batches, 2 lines, 4 entries over 3 days, months of 2 days, database clock a day behind | `FiguresAgree`, `WastageAgrees`, `TablesExplainSummary`, `ValueAccountedFor` |
| `backup` | 2 writers, days of 2 instants, 2 times of day, 2 files kept, 2 troubles | `AlwaysACopy`, `CaughtUp` |
| `sessions` | 1 user, 2 tabs, 2 requests in flight, 3 pairs of tokens, 1 incident | `HeldTokenStands`, `EveryCallEnds` |
| `checkout` | 1 product with two prices, 1 service whose price moves, 2 units, 2 discounts, 2 submissions, no editing while one is on its way | `ChargedAsShown`, `AcceptedAlike`, `BookedOnceWhenHeard` |
| `front_end` | every view, page, form in turn; 2 changes and 1 lost request; 2 rows, 2 inputs, 2 sends, 1 setback; 1 variant and 1 that may be added, 2 edits, 1 mishap, 1 save left behind at a time; 2 removals | `OwnChangesShown`, `StationNotices`, `NothingAskedInVain`, `EnteredAsMeant`, `SavedAsTyped`, `RemovedUnusedOnly` |

Why the bounds are enough for the interesting cases to happen: two batches give a
backdated one before a later one and a consumption that spans both; quantities of 2 give
partial returns and a cost row split between two returns; a line at price 3 cents for two
pieces rounds; two credit sales give an earmark out of order; two requests give every race
of two stations, and two sessions a session closed and the next one opened while a request
checked against the first is still in flight; three months give a month closed behind an
open one and one the calendar has not reached. Three requests let one wait for the row
lock of a second while a third holds the key. Four entries give a purchase, a sale, its
return and a write-off; a pack whose price does not divide gives the rounding. Two
troubles give a failure during the recovery from another. Two requests in flight share a
refresh; three pairs give a token rotated twice. Two submissions give a retry. Two changes
with one lost give a change answered during the fetch another caused. Two rows, inputs and
sends give a dialog reopened for another row while the first request is under way. Two edits
(`MaxEdits`: what is typed, here or at another desk, or switched on or off) give one before
a save and one while it goes; one mishap (`MaxMishaps`) a request or an answer lost, or a form
left while it is saved and a second save beside the first. A row added again after a failure
takes a second free variant (`MaxVariants = 3`): that is left to the proofs. In the
`till` run every drawer is counted at zero (`MaxCount = 0`); floats and withdrawals are
covered by the proofs. A run that stops where the code can stop (all rows used up, the
calendar at its end) says `CHECK_DEADLOCK FALSE`; the models bound how many rows are ever
made, and the code does not.

That nothing depends on these sizes is proved for the six modules of the books, for
`Reports` (with any pack costs, month length and lag of the database clock), `Requests`,
`Sessions`, `Backup` and `Checkout`, and for all of `FrontEnd` but its permissions. The
types of the books' modules and of `Requests` are theorems too; `periods`'
`ClosedOnlyOnceEnded` and `receivables`' `CreditLimitRespected` are proved and not among
the runs' properties, as they follow closely from one guard.

### Fairness, and why the code justifies it
- `Requests`: weak fairness of each request's next step. Node's event loop resumes every
  handler whose await is done, PostgreSQL grants a lock once it is free, and Prisma's
  interactive transactions have a timeout. Nothing makes a client send, a transaction fail
  or a connection drop. `EveryRequestEnds` then says that locks, index waits and retries do
  not go round for ever.
- `Sessions`: the server answers what reaches it, and a tab takes its answers (axios
  resolves or rejects every request). Sending, signing out, reloading, losing a message are
  not fair.
- `Backup`: the timer fires (`setInterval` while the process runs), the programs end, and
  the machine is switched on again; without the last, no backup could be owed to anyone.
  Failures are bounded by `MaxTroubles`: with unboundedly many no backup ever succeeds.
  That `pg_dump` ends is an assumption: nothing in the code limits how long it may take.
- `FrontEnd`: a polled view's interval fires while it is mounted, the server answers a
  query and the answer arrives. Only views with `refetchInterval` have the property.

## Where the code and its docs part

Each of these is stated in its module, under a comment that quotes the sentence, and is
violated. To see the trace, put it as the only property of the module's own configuration
(sizes as given there unless noted). For the front end's, name it first in an extension of
`MCFrontEnd`, as in `Hooks == Screen!HooksDoAsTheySay`; `AddedOnce` takes `MaxVariants = 3`.

| Formula | What is said | What happens |
|---|---|---|
| `Inventory!InventoryNeverDriftsFromBatches` | README.md:298 "Inventory can never drift from batches." | wastage and service paper may be short, and then it does; `DriftExplained` says by how much |
| `Receivables!RefundWithinTotal` | sales.service.ts:465 refunds the net (post-discount) amount | a full return of a sale with an order discount refunds more than was charged: only the line discount is known to the refund (sales.service.ts:521) |
| `Till!ChargedOnlyCashPaid` | expected-cash.ts "Only the cash actually paid out of this drawer" | a payment on an office purchase part-paid from a till is counted twice, once in `amountPaid` and once as a payment (expenses.service.ts:597) |
| `Till!FloatCarriesOver` (`MaxCount = 1`) | cash.service.ts: the previous shift's count is carried over | the float is read before the session is created; another shift may open and close in between |
| `Till!ClosedExpensesNeverChange` | expenses.service.ts "Nothing tied to a closed cash session may change" | an edit checked while the session was open is written after it closed |
| `Banking!BalancesNeverNegative` | bank.service.ts:186 "Refuses a movement that would push the balance below zero." | the check runs outside the transaction it protects (bank.service.ts:121) |
| `Banking!OpeningRecordedOnce` | bank.service.ts "The starting point, recorded once." | two stations record it together |
| `Banking!NothingSpentOnDeletedBills` | expenses.service.ts:289: the cash does not stay spent on a deleted bill | deleting returns what the bill took from held cash when it was read, not what a payment made meanwhile took |
| `Payables!BalanceIsSumDue` | purchases.service.ts "supplier.balance == SUM(amountDue)" | `recordPayment` lowers the balance and not the `amountDue` of any purchase |
| `Periods!EveryWriteAsks` | accounting-periods.service.ts:330: `assertOpen` is called by every write that changes a month's figures | `createOfficePurchase` books an expense in a month it never asks about (expenses.service.ts:406) |
| `Checkout!OncePerBasket` | frontend/README.md: an Idempotency-Key prevents duplicate sales | `submitSale` makes a new key at every tap, so the retry after a lost answer is a new sale |
| `Backup!FailedCostsNothing` | backup.service.ts "a failed backup never costs an existing copy" | what a failed `pg_dump` left counts as a copy, and outlives older good ones |
| `Sessions!LogoutRevokes` | README.md:227 "Logout revokes the presented refresh token." | the route wants a good access token, and the 401 of one that expired is not followed by a refresh |
| `Sessions!IssuedAgainstLive` | README.md:227 a reset "revokes all sessions for the user" | a refresh that found its token good before the reset issues a live pair after it |
| `Reports!MonthRowIsMonth` | reports.service.ts: the series is net of returns "exactly as financialSummary does it" | its monthly rows are months of UTC, the summary's are the shop's |
| `ViewCache!HooksDoAsTheySay` | useInventory.ts:128 "Stock moved, so anything derived from it is stale", and the other sentences of `Claims` | the pairs of `Overlooked` are not invalidated: see "Views" below |
| `Desk!EnteredOnce`, `Desk!NothingTypedLost`, `ItemEditor!OnlyTypedChanges`, `ItemEditor!AddedOnce`, `ItemEditor!SavedAsShown`, `ItemEditor!LeftSaveStays` | nothing is said, a user would expect it | see "Forms" and "Product and service pages" below |

Found while modelling, without a formula of their own:
- **Months.** A close and the reopening of the month before it may both succeed and leave an
  open month behind a closed one (accounting-periods.service.ts:237), as does an expense
  backdated to before the first activity of the books; so no invariant of `Periods` speaks
  of the order of closed months. Two closes of one month in flight both write their
  snapshot, and its five figures are read one by one (line 240).
- **Views.** What comments say is stale and the code does not invalidate (`Overlooked`): stock
  moves (useInventory.ts:128) and undone purchases, the page of a product, the services and
  the page of a service, which show the stock (their keys are `product` and `services`); an
  undone purchase (usePurchases.ts:67), the till, its summary and the page of the supplier
  (`['cash']`, which it names, is the key of no view); a voided sale (keys.ts), the till and
  its summary; a category changed or deleted (useCatalog.ts:42, 54), the page of a product; an
  expense category changed (useExpenseCategories.ts:38), office purchases and salaries. Of
  what no comment speaks: voiding a sale refreshes no report and no customer; recording a purchase neither reports nor the till; a return no report; closing
  the till neither bank, held cash nor the money position; customer and supplier payments
  not the money position; a sale not the stock pages; a backup not the list of files; a
  picture nothing; a service's changes not the page that edits it. A fetch that had read
  before a change and is let go on (the view's first, or off the screen) is taken for good:
  `missed` in `ViewCache`.
- **Forms.** A success that comes late closes the dialog opened since, and where fields
  outlive their dialog it empties them (`NothingTypedLost`). Closing a session only closes the
  dialog (CashPage.tsx:405-430): the count, the withdrawal and the notes stay until the view
  shows no session, and if another station has opened the next one by then they are there to
  be entered for it (`EnteredOnce`). The settings page's fields are
  loaded again together when any section is saved, and detail pages' edit forms when the
  page refetches. Edit forms send every field of the row as it was loaded. Seven
  Enter handlers ignore that a request is under way (CategoryManagerModal.tsx:98 and 130,
  ExpenseCategoryManagerModal.tsx:137 and 192, ProductFormPage.tsx:320, PurchasesPage.tsx:391
  and 419; `eager`) and only unique names keep the second from counting. The till's close and movement dialogs follow the
  polled session and may find another one under amounts already typed; `EnteredAsMeant`
  excepts them by name (`follows`).
- **Product and service pages.** A save that fails half-way and is sent again adds its new
  rows again (ProductFormPage.tsx:225, `AddedOnce`); a service opened again within five minutes of a save
  is filled in from the cache and its next save undoes the last (ServiceFormPage.tsx:111,
  useCatalog.ts:149; `OnlyTypedChanges`). Fields and row buttons work while the form is being
  saved, and the loop has the rows as they were: what is typed, added or dropped meanwhile is
  lost though "saved" is shown (`SavedAsShown`). Cancel is disabled then, but the links around
  the form are not: the save goes on, may put back what a later one has saved, and its
  `navigate` closes a form opened since (`LeftSaveStays`).
- **Point of sale.** The page clamps a discount larger than its line or the order and shows
  the sale as costing nothing, and does not look at the customer's credit limit; the server
  refuses all three. `AcceptedAlike` says that this is all the two disagree on.
- **Catalogue.** Two removals that overlap may leave a product without a variant in spite of
  "A product must keep at least one variant"; an option of a service sold while it is
  removed loses its reference. Both are named exceptions of `RemovedUnusedOnly`.
- **Permissions.** Four requests are made of a server that refuses them to some who are
  shown the page: `useUsers` on LoansPage, `useStockLevels` on InventoryPage,
  `useSupplierSummary` on ReportsPage, `useUploadImage` on ProductFormPage (`InVain`).
  `refreshProfile` is never called: changed permissions show at the next sign-in.
- **Sessions.** A page left in the middle of a refresh, or of signing out (`doLogout`
  clears the storage only once the server has answered, AuthProvider.tsx:27-39), a reset, a
  sign-out that overlaps a refresh, and two tabs that share one local storage can each
  present a token that was just revoked; reuse detection then ends every session of the
  user. A refresh answered after signing out stores the former user's tokens.
  `HeldTokenStands` holds in their absence (`undermined`).
- **Backups.** With one file kept (MIN_BACKUP_KEEP) and a manual backup beside the timer's
  the only good copy may go, for the file kept may be the one the other writer is at: of
  that setting `AlwaysACopy` only says that the folder is never empty. Partial files are
  never removed except as old ones, and each takes a good copy's place: `AlwaysACopy` says
  how many it takes to lose the last. Two backups in one second share a name; a `pg_dump`
  that hangs leaves `running` set for ever.

## What is proved

Every theorem is for all values of the constants allowed by the module's named
assumption (`InventoryConstants`, `RequestsAssumption`, ...): numbers of rows, pairs and
edits are naturals, positive where one is needed to start with, amounts naturals, the sets
of requests, suppliers, tabs and submissions arbitrary. A proof module covers the
components that share its lemmas. Each component has an inductive invariant, `IInv` unless
it is named below, stated next to what it strengthens:

- **Sums.** `RunningSum` is a recursive function; that it exists, what it adds up to, how
  it changes when one row changes (`TotalChangeAt`), when it does not (`TotalSame`) and
  that the greedy walk takes exactly what is there and in order (`GreedyTakes`) are proved
  once, by contradiction on the least counterexample (`NatSetInduction`), because the
  library's induction theorems take an operator argument the backends cannot instantiate.
  Two sums may be exchanged (`TotalSwap`); a sum over some of the rows splits, subtracts and
  adds up group by group (`SumOverSplit`, `SumOverSubtract`, `SumOverGroups`).
- **Inventory.** `IInv` = `TypeOK`, `UnitsAccountedFor`, `LinesBacked`, `DriftExplained`
  and two helpers: `LineRules` (a row is returned no more than it was allocated, a line
  not rung up has no rows) and `UnusedBatchesEmpty`. The helpers are needed because a void
  gives back whole rows: without "nothing returned when `returnedQty = 0`" it might give
  back units twice. Types come first (`TypeOKStep`), then one lemma per action: it moves
  one batch or one line, so `TotalChangeAt` turns each sum into a difference.
- **Receivables.** `IInv` = `TypeOK`, `BalanceIsSumDue`, `InvoicesExplained`,
  `NothingUnallocated`, `UnmadeUntouched`. The argument is `AllocationTakes`: whenever the
  amount is no more than what is open, which `BalanceIsSumDue` gives, allocation takes all
  of it and leaves no invoice negative. `OldestFirst` and `CreditLimitRespected` are
  action properties from `IInv`; `RefundsFollowPrice` adds one rounding lemma
  (`RefundRounds`).
- **Till.** `IInv` = `TypeOK`, `OneOpenSession`, `RequestRules` (a movement names a real
  session, an edit the session its expense is charged to, an unwritten expense has no
  money). `FrozenOnceClosed` needs the second: an edit in flight reaches only the
  session it was checked against.
- **Banking.** `IInv` = `TypeOK`, `LoansAddUp`, `RequestRules`. One pass over the actions
  (`Steps`) proves the invariant, the step of `MoneyPosition` it implements and that no
  pocket is left short; `MoneyIsConserved` is the refinement, `ClaimsMove` its key lemma.
- **Payables.** `PayablesInv` = `TypeOK`, `Unrecorded`, `BalanceExplained`, `NeverOverpaid`. The
  upper and the lower bound of `BalanceExplained` carry each other through the clamp at
  zero of a void.
- **Periods.** `IInv` = `TypeOK`, `ClosedOnlyOnceEnded`, `RequestsSound` (a close in
  flight is of a month already ended). `FrozenOnceClosed` follows per write, with
  `NoneFindsItOpen` for its second half.
- **Reports.** `BooksRunTheEngine`: an entry in the books is a step of `Inventory` or leaves
  it alone, so `IInv` of the engine holds under them. `BooksTypeCorrect` is all that
  `FiguresAgree` and `WastageAgrees` need: a series is a sum grouped by period, a wastage
  report one grouped by reason, and what is in the groups adds up to the whole, once each
  row is in one group and a group left out is empty (`SumOverGroups`, which exchanges two
  sums; `PeriodsAddUp`, `LossByReason`). They hold of any books of the right types. The
  other two need `BooksInv` = the engine's `IInv`, `LineBooks` and `StockBooks`: a sale's
  cost is that of the units it drew (`CostsMatch`), what its returns reversed that of the
  units back (`ReversedMatch`), the positive adjustments cost what batches were counted in
  with (`CountedMatch`), the negative ones what was written off (`WrittenOffMatch`); a
  refund is of a sale that stands (`RefundsStand`, `VoidsClean`), a service gives no paper
  back, everything has its date. `ValueAccountedFor` is then `UnitsAccountedFor` weighted
  by the cost of a piece of each batch (`UnitsAtCost`), and `TablesExplainSummary` the
  refunds grouped by line (`RefundsByLine`), with `LinesBacked` for the product that is
  listed nowhere.
- **Requests.** `IInv` = `TypeOK`, `OncePerKey`, `Gapless` and five that say what an open
  transaction may rely on: `Locked` (past its reservation it holds the sequence row, whose
  value is still the one of its snapshot, so the number it will commit is the next),
  `Fresh` (before its commit nothing is booked under its key, nor about to be by another),
  `Owned` (a document carries the key of the request that booked it), `ToldOwn` and `Sent`.
  Under them sending is `Ask`, `Commit` is `Book`, being answered is the abstract answer,
  and every other step is a stutter of `OnceOnly`: `ImplementsOnceOnly`. This is what lets
  the other modules take a transaction as one step.
- **Sessions.** `SessionsInv` = a shape (rows, pairs and renewals are what they look like)
  and, until something undermines it, `Honest`: `TabStands` for every tab (what it holds is
  live, or it is about to be given the live pair that replaced it, or it is leaving) and
  `Apart` (no two tabs hold or await one token). The second is needed because a rotation
  revokes what its own tab presented: one tab's step must leave every other tab's token
  alone. `OneTab` says so once for all actions of a tab; `HeldTokenStands` follows.
- **Backup.** `BackupInv`: a writer is at one file at most, only while it dumps or
  verifies, and `AlwaysACopy`. A backup prunes after its own file was verified; if that file
  goes (another was modified later), as many newer files are kept as are to be kept, of
  which one at most belongs to a writer, and the rest is what failures left
  (`VerifyKeepsACopy`), wherever the pruning stops (`PruneLeaves`). Every other step keeps
  each file that is nobody's in a place of its own (`StillACopy`).
- **Checkout.** `CheckoutInv`: baskets are baskets, and a submission of the basket as it
  stands is awaited, unheard of, or came to nothing. The last makes `BookedOnceWhenHeard`
  inductive. `AcceptedAlike` and `ChargedAsShown` are arithmetic: `SameAmounts` adds the
  page's `max(0, gross - discount)` line by line (`Sums`) and shows it to be the server's sum of
  gross amounts less the sum of discounts, when each line's discount is covered (else the
  server refuses); the proof works for any number of items.
- **Views** (`ScreenInv`). A change made here that was answered and invalidates a view is in
  what the view shows, or the view is invalid; a fetch that has read has seen it. That what is
  said to be stale is invalidated is a fact about the tables, `PromisesKept`: `WhereShown`
  says which views show the tables that are spoken of, and `SaidIsBusted`, claim by claim,
  that one of the mutation's keys is a prefix of each such view's but for `Overlooked`.
- **Forms** (`DeskInv`). What is typed belongs to the row that is open (`FieldsOfRow`), unless
  the form follows a view. In a form that waits for its answer and does not keep what it has
  entered (`Careful`) an input that was sent and stands is no longer in the fields of an open
  dialog (`SentIsGone`) and one answer is awaited at a time (`OneAwaited`): so no input is
  sent twice unless the first was refused or not heard of (`SentOnce`). The others enter what
  the server makes only once for a row (`GoodForm`, checked for every row of the table), and
  an input has one row it was typed for (`OneRow`): `MadeOnce`.
- **Editor** (`EditorInv`). Of the save here and of the one left (`SaveOK`): for each step that
  is behind (`Handled`), the part it was for has the value meant or was disturbed; a row
  added is made into one part and not before its step, unless a failure made it repeatable;
  parts dropped are inactive (`SaveStands`). The form's added rows are made by its own save
  only (`FormOK`), and no row belongs to both saves or to the form and the save left
  (`Apart`): so either save, taking its step, is at most someone else to the other.
- **Removal** (`RemovalInv`). What was traded since a removal looked is in `lateUse`, and
  until two removals overlap at most one variant is being removed and it is not the last.

The four parts of the front end meet in `FrontEndInv`, their conjunction: a step of one
part leaves the variables of the others alone.

### What is only model-checked
- **`NothingAskedInVain`** is about tables that no constant enlarges: TLC visits every page
  with every account and so decides it.
- **Liveness** (`EveryRequestEnds`, `EveryCallEnds`, `CaughtUp`, `StationNotices`), whose
  fairness is defined by `ENABLED`, which the provers do not handle.

## What is not modelled

`PROJECT.json` gives every component its status and the reason. In short:
- **Restoring a backup under load** (backup.service.ts:402): `pg_restore` replaces the
  tables while requests run; what they read then is the database's business. The dump made
  before a restore, a changed backup folder and migrations after a restore are left out.
- **A drawer counted below what was taken out** (cash.service.ts:187) is a guard on one row
  and part of `Close`.
- **Audit log, uploads, health, system** pages and endpoints: append-only or stateless.
- **HTTP**: filters, interceptors, validation and pagination are stateless per request.
  What a service refuses for the particular row it is asked about (another user's expense,
  an administrator's account) is not in `Endpoints`.
- **Schema, seeds, scripts**: the unique indexes and foreign keys the code relies on are
  guards of the modules; the scripts run by hand on a quiet database.
- **In the modelled parts**: several credit lines per sale in `Receivables`, several sheets
  per job in `Inventory`, the items of an office purchase in `Till`; figures, sorting,
  filters and printing on the pages; creation of products and services, which is one
  transaction; refetching on window focus, which only adds fetches.

Worth doing next: one sale over stock, account and till together with the month closing,
to check that a void refused by one part is refused by all; two tabs on one storage in
`Sessions`.
