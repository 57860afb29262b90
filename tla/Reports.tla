------------------------------- MODULE Reports --------------------------------
(***************************************************************************)
(* The dated books the reports read, and the reports themselves, over the    *)
(* inventory engine of module Inventory: every operation that moves stock is *)
(* that module's action together with the row it leaves in the books (a sale *)
(* and its total, a return and the cost it reverses, an adjustment and its   *)
(* cost impact, a purchase and what it cost).  Rows carry the moment they    *)
(* were made, or, for purchases, recounts and expenses, a date someone chose.*)
(* A report is an operator on the books.  The same money is added up by      *)
(* several queries that share no code: the summary, the series behind the    *)
(* charts, the monthly statement, the wastage and the profit tables.         *)
(***************************************************************************)
EXTENDS Inventory, Sequences

CONSTANTS
  PackSize,     \* pieces in the pack each batch came in
  PackCost,     \* and what that pack cost
  Price,        \* what a piece, or one job of the service, sells for
  Discounts,    \* discounts given on a line and again on the whole sale
  MaxTime,      \* the last moment followed
  MonthLength,  \* moments in a month; a day is one moment
  Behind,       \* moments UTC, which the database buckets by, is behind the shop
  MaxEntries    \* entries ever made in the books

ASSUME ReportsConstants ==
  /\ PackSize \in [1..MaxBatches -> Nat \ {0}]
  /\ PackCost \in [1..MaxBatches -> Nat]
  /\ Price \in Nat
  /\ Discounts \subseteq 0..Price
  /\ MaxTime \in Nat \ {0}
  /\ MonthLength \in Nat \ {0}
  /\ Behind \in Nat
  /\ MaxEntries \in Nat

VARIABLES
  now,          \* the moment of the last entry
  entries,      \* how many there have been
  bought,       \* InventoryBatch.purchaseDate of each batch
  soldAt,       \* Sale.createdAt of each line's sale
  lineTotal,    \* SaleItem.lineTotal
  total,        \* Sale.total: the line less the discount on the sale
  totalCogs,    \* Sale.totalCogs: the cost of the batch units it took
  refunds,      \* the SaleReturn rows
  adjustments,  \* the InventoryAdjustment rows
  expenses      \* the Expense rows

dates == <<now, entries, bought, soldAt>>
takings == <<lineTotal, total, totalCogs>>
rows == <<refunds, adjustments, expenses>>
bookVars == <<vars, dates, takings, rows>>

Moments == 1..MaxTime

BooksInit ==
  /\ Init
  /\ now = 1 /\ entries = 0
  /\ bought = [b \in Batches |-> 0]
  /\ soldAt = [l \in Lines |-> 0]
  /\ lineTotal = [l \in Lines |-> 0] /\ total = [l \in Lines |-> 0]
  /\ totalCogs = [l \in Lines |-> 0]
  /\ refunds = <<>> /\ adjustments = <<>> /\ expenses = <<>>

-----------------------------------------------------------------------------
(* Money and cost. *)

\* round(): half up.  A quotient of cents is never followed further than this.
RoundedQuotient(a, b) == (2 * a + b) \div (2 * b)

\* Per-base-unit cost of a batch: the pack's cost, divided and rounded.
pieceCost == [b \in Batches |-> RoundedQuotient(PackCost[b], PackSize[b])]

CostOf(units) == Total([b \in Batches |-> units[b] * pieceCost[b]], MaxBatches)

\* What a purchase of n pieces cost: whole packs, unrounded.
totalCost(b) == (quantity[b] \div PackSize[b]) * PackCost[b]

\* returnSale: the share of the line that n of its units carry.
refundAmount(l, n) == RoundedQuotient(lineTotal[l] * n, sold[l])

\* Mutant: what came back is costed at the line's average.
CogsReversedOnAverage(l, back) ==
  RoundedQuotient(totalCogs[l] * Total(back, MaxBatches), sold[l])

\* Units go back at the cost of the batch they came from.
cogsReversed(l, back) == CostOf(back)

-----------------------------------------------------------------------------
(* Every operation, with the row it writes.  Entries are made one after the  *)
(* other, each in the moment of the last one or the next.                      *)

Entry ==
  /\ entries < MaxEntries
  /\ entries' = entries + 1
  /\ now' \in {now, now + 1} \intersect Moments

\* FIFO order is purchaseDate order: a batch's rank must agree with its date.
DateBatch(b, date) ==
  /\ \A c \in Batches :
       origin[c] # "none" => /\ c < b => bought[c] <= date
                             /\ c > b => date <= bought[c]
  /\ bought' = [bought EXCEPT ![b] = date]

BookPurchase(b, n) ==
  /\ Entry
  /\ n % PackSize[b] = 0
  /\ CreatePurchase(b, n)
  /\ \E date \in 1..now' : DateBatch(b, date)
  /\ UNCHANGED <<soldAt, takings, rows>>

BookPurchaseVoid(b) ==
  /\ Entry
  /\ VoidPurchase(b)
  /\ UNCHANGED <<bought, soldAt, takings, rows>>

Adjustment(change, cost, reason) ==
  adjustments' = Append(adjustments,
    [at |-> now', change |-> change, costImpact |-> cost, reasonCode |-> reason])

BookAdjustUp(b, n) ==
  /\ Entry
  /\ AdjustUp(b, n)
  /\ DateBatch(b, now')
  /\ Adjustment(n, n * pieceCost[b], "COUNT_CORRECTION")
  /\ UNCHANGED <<soldAt, takings, refunds, expenses>>

BookOpeningStock(b, n) ==
  /\ Entry
  /\ RecordOpeningStock(b, n)
  /\ \E countedAt \in 1..now' : DateBatch(b, countedAt)
  /\ Adjustment(n, n * pieceCost[b], "OPENING_STOCK")
  /\ UNCHANGED <<soldAt, takings, refunds, expenses>>

\* Written off at the cost of the batches consumed; units no batch had cost nothing.
BookAdjustDown(n) ==
  /\ Entry
  /\ AdjustDown(n)
  /\ Adjustment(-n, -CostOf(FifoTake(n)), "COUNT_CORRECTION")
  /\ UNCHANGED <<bought, soldAt, takings, refunds, expenses>>

BookWastage(n) ==
  /\ Entry
  /\ RecordWastage(n)
  /\ Adjustment(-n, -CostOf(FifoTake(n)), "JAM")
  /\ UNCHANGED <<bought, soldAt, takings, refunds, expenses>>

\* A discount is given on the line, and the same again on the whole sale.
BookSale(l, n, discount) ==
  /\ Entry
  /\ SellProduct(l, n) \/ SellService(l, n)
  /\ 2 * discount <= Price * n
  /\ soldAt' = [soldAt EXCEPT ![l] = now']
  /\ lineTotal' = [lineTotal EXCEPT ![l] = Price * n - discount]
  /\ total' = [total EXCEPT ![l] = Price * n - 2 * discount]
  /\ totalCogs' = [totalCogs EXCEPT ![l] = CostOf(FifoTake(n))]
  /\ UNCHANGED <<bought, rows>>

BookSaleVoid(l) ==
  /\ Entry
  /\ VoidSale(l)
  /\ UNCHANGED <<bought, soldAt, takings, rows>>

BookReturn(l, n) ==
  /\ Entry
  /\ ReturnProduct(l, n) \/ ReturnService(l, n)
  /\ refunds' = Append(refunds,
       [at |-> now', line |-> l, refund |-> refundAmount(l, n),
        cogs |-> cogsReversed(l, [b \in Batches |-> returned'[l][b] - returned[l][b]])])
  /\ UNCHANGED <<bought, soldAt, takings, adjustments, expenses>>

\* An expense carries the date its bill was for.
BookExpense(date) ==
  /\ Entry
  /\ expenses' = Append(expenses, [expenseDate |-> date, amount |-> 1])
  /\ UNCHANGED <<vars, bought, soldAt, takings, refunds, adjustments>>

BooksNext ==
  \/ \E b \in Batches, n \in Qty :
       BookPurchase(b, n) \/ BookAdjustUp(b, n) \/ BookOpeningStock(b, n)
  \/ \E b \in Batches : BookPurchaseVoid(b)
  \/ \E n \in Qty : BookAdjustDown(n) \/ BookWastage(n)
  \/ \E l \in Lines, n \in Qty :
       BookReturn(l, n) \/ \E d \in Discounts : BookSale(l, n, d)
  \/ \E l \in Lines : BookSaleVoid(l)
  \/ \E date \in Moments : BookExpense(date)

BooksSpec == BooksInit /\ [][BooksNext]_bookVars

-----------------------------------------------------------------------------
(* The reports.  A range is a pair of moments, both included. *)

Ranges == {r \in Moments \X Moments : r[1] <= r[2]}
AllTime == <<1, MaxTime>>
In(r, t) == r[1] <= t /\ t <= r[2]

\* The columns that are added up; a row that is counted counts one.
Refund == [i \in DOMAIN refunds |-> refunds[i].refund]
Reversed == [i \in DOMAIN refunds |-> refunds[i].cogs]
Impact == [i \in DOMAIN adjustments |-> adjustments[i].costImpact]
Amount == [i \in DOMAIN expenses |-> expenses[i].amount]
One == [l \in Lines |-> 1]

OverSales(f, S) == SumOver(f, MaxLines, S)
OverReturns(f, S) == SumOver(f, Len(refunds), S)
OverAdjustments(S) == SumOver(Impact, Len(adjustments), S)
OverBills(S) == SumOver(Amount, Len(expenses), S)

\* The rows each query filters for.
Completed(r) == {l \in Lines : kind[l] # "none" /\ status[l] = "COMPLETED" /\ In(r, soldAt[l])}
Returns(r) == {i \in DOMAIN refunds : In(r, refunds[i].at)}
Bills(r) == {i \in DOMAIN expenses : In(r, expenses[i].expenseDate)}
Purchases(r) == {b \in Batches : origin[b] = "purchase" /\ In(r, bought[b])}
\* TRADING_ADJUSTMENTS: opening stock is no trade.
Trading(r) ==
  {i \in DOMAIN adjustments :
     adjustments[i].reasonCode # "OPENING_STOCK" /\ In(r, adjustments[i].at)}
WriteOffs(r) == {i \in Trading(r) : adjustments[i].change < 0}
WriteOns(r) == {i \in Trading(r) : adjustments[i].change > 0}

Revenue(r) == OverSales(total, Completed(r)) - OverReturns(Refund, Returns(r))
Cogs(r) == OverSales(totalCogs, Completed(r)) - OverReturns(Reversed, Returns(r))
Spent(r) == OverBills(Bills(r))

\* ReportsService.financialSummary
stockWrittenOff(r) == -OverAdjustments(WriteOffs(r))
stockWrittenOn(r) == OverAdjustments(WriteOns(r))

Summary(r) ==
  LET stockLoss == stockWrittenOff(r) - stockWrittenOn(r) IN
  [revenue |-> Revenue(r), cogs |-> Cogs(r), expenses |-> Spent(r),
   stockLoss |-> stockLoss, saleCount |-> OverSales(One, Completed(r)),
   netProfit |-> Revenue(r) - Cogs(r) - Spent(r) - stockLoss]

\* AccountingPeriodsService.computeFigures, of the month's own range.
MonthOf(t) == (t - 1) \div MonthLength
monthRange(m) == <<m * MonthLength + 1, (m + 1) * MonthLength>>

Figures(m) ==
  LET r == monthRange(m)
      stockLoss == -OverAdjustments(Trading(r)) IN
  [revenue |-> Revenue(r), cogs |-> Cogs(r), expenses |-> Spent(r),
   stockLoss |-> stockLoss, saleCount |-> OverSales(One, Completed(r)),
   netProfit |-> Revenue(r) - Cogs(r) - Spent(r) - stockLoss]

\* ReportsService.salesSeries.  date_trunc works on the stored UTC moment.
Period(unit, t) == (t - 1 - Behind) \div unit

\* The rows of each grouped query that fall in one period.
SalesIn(unit, r, p) == {l \in Completed(r) : Period(unit, soldAt[l]) = p}
ReturnsIn(unit, r, p) == {i \in Returns(r) : Period(unit, refunds[i].at) = p}
BillsIn(unit, r, p) == {i \in Bills(r) : Period(unit, expenses[i].expenseDate) = p}
TradingIn(unit, r, p) == {i \in Trading(r) : Period(unit, adjustments[i].at) = p}

\* Each grouped query on its own; a period a query has no row for is not in it.
SalePeriods(unit, r) == {Period(unit, soldAt[l]) : l \in Completed(r)}

\* Mutant: only periods that sold anything.
SellingPeriods(unit, r) == SalePeriods(unit, r)

\* Every period that saw any activity, not only the ones with sales in them.
Periods(unit, r) ==
  SalePeriods(unit, r)
    \union {Period(unit, expenses[i].expenseDate) : i \in Bills(r)}
    \union {Period(unit, bought[b]) : b \in Purchases(r)}
    \union {Period(unit, adjustments[i].at) : i \in Trading(r)}
    \union {Period(unit, refunds[i].at) : i \in Returns(r)}

SeriesRow(unit, r, p) ==
  LET sales == SalesIn(unit, r, p)
      back == ReturnsIn(unit, r, p) IN
  [revenue |-> OverSales(total, sales) - OverReturns(Refund, back),
   cogs |-> OverSales(totalCogs, sales) - OverReturns(Reversed, back),
   expenses |-> OverBills(BillsIn(unit, r, p)),
   stockLoss |-> -OverAdjustments(TradingIn(unit, r, p)),
   saleCount |-> OverSales(One, sales)]

salesSeries(unit, r) == [p \in Periods(unit, r) |-> SeriesRow(unit, r, p)]

\* ReportsService.wastageReport
\* Mutant: the shelf the shop opened with is counted as found stock.
NetLossWithOpening(r) ==
  -OverAdjustments({i \in DOMAIN adjustments : In(r, adjustments[i].at)})

netLoss(r) == -OverAdjustments(Trading(r))
ReasonCodes == <<"COUNT_CORRECTION", "OPENING_STOCK", "JAM">>
Reasons(r) == {adjustments[i].reasonCode : i \in Trading(r)}
ReasonCost(r, c) == -OverAdjustments({i \in Trading(r) : adjustments[i].reasonCode = c})
\* byProduct lists what was written off, and not what was written back on.
ProductCost(r) == -OverAdjustments(WriteOffs(r))

\* ReportsService.productProfitability and topServices: one row per variant, by
\* the date of the sale, net of whatever came back of it since.
Sold(k, r) == {l \in Completed(r) : kind[l] = k}
UnitsKept(k, r) == OverSales([l \in Lines |-> sold[l] - returnedQty[l]], Sold(k, r))
ReturnsOf(l) == {i \in DOMAIN refunds : refunds[i].line = l}
LineRevenue == [l \in Lines |-> lineTotal[l] - OverReturns(Refund, ReturnsOf(l))]
LineCogs == [l \in Lines |-> totalCogs[l] - OverReturns(Reversed, ReturnsOf(l))]
\* HAVING: a variant all of whose units came back has no row.
Listed(k, r) == UnitsKept(k, r) > 0
RowRevenue(k, r) == IF Listed(k, r) THEN OverSales(LineRevenue, Sold(k, r)) ELSE 0
RowCogs(k, r) == IF Listed(k, r) THEN OverSales(LineCogs, Sold(k, r)) ELSE 0

\* ReportsService.stockLevels
valuation == CostOf(remaining)

-----------------------------------------------------------------------------
RefundRows == [at : Moments, line : Lines, refund : Nat, cogs : Nat]
AdjustmentRows ==
  [at : Moments, change : Int \ {0}, costImpact : Int,
   reasonCode : {"COUNT_CORRECTION", "OPENING_STOCK", "JAM"}]
ExpenseRows == [expenseDate : Moments, amount : Nat]

BooksTypeOK ==
  /\ TypeOK
  /\ now \in Moments /\ entries \in 0..MaxEntries
  /\ bought \in [Batches -> 0..MaxTime]
  /\ soldAt \in [Lines -> 0..MaxTime]
  /\ lineTotal \in [Lines -> Nat] /\ total \in [Lines -> Nat]
  /\ totalCogs \in [Lines -> Nat]
  /\ refunds \in Seq(RefundRows)
  /\ adjustments \in Seq(AdjustmentRows)
  /\ expenses \in Seq(ExpenseRows)

\* Adding up one field of the rows of a series, from the first period to the last.
Span(unit) == Period(unit, MaxTime) - Period(unit, 1) + 1

SeriesTotal(series, unit, f) ==
  Total([k \in 1..Span(unit) |->
           IF Period(unit, 1) + k - 1 \in DOMAIN series
             THEN series[Period(unit, 1) + k - 1][f] ELSE 0], Span(unit))

\* The headline figures, the chart and the monthly statement are one story: for
\* every range the rows of the series, daily or monthly, add up to the summary of
\* that range, and every month's statement is the summary of that month.
FiguresAgree ==
  /\ \A r \in Ranges, unit \in {1, MonthLength} :
       LET series == salesSeries(unit, r)
           summary == Summary(r)
       IN  \A f \in {"revenue", "cogs", "expenses", "stockLoss", "saleCount"} :
             SeriesTotal(series, unit, f) = summary[f]
  /\ \A t \in Moments : Figures(MonthOf(t)) = Summary(monthRange(MonthOf(t)))

\* The wastage report accounts for the loss the profit was charged with: its net
\* loss is the summary's, reason by reason it adds up to that, and product by
\* product to what was written off before anything was written back on.
WastageAgrees ==
  \A r \in Ranges :
    /\ netLoss(r) = Summary(r).stockLoss
    /\ SumOver([k \in 1..3 |-> ReasonCost(r, ReasonCodes[k])], 3,
               {k \in 1..3 : ReasonCodes[k] \in Reasons(r)}) = netLoss(r)
    /\ ProductCost(r) = stockWrittenOff(r)

\* What a variant earned that is listed nowhere, for all its units came back.
Unlisted(k) == IF Listed(k, AllTime) THEN 0 ELSE OverSales(LineRevenue, Sold(k, AllTime))

\* Over all time the profit tables explain the headline: products and services
\* earned its revenue and the discounts given on whole sales, which the tables
\* know nothing of, and products cost its cost of goods but for the paper that
\* services used.  No return is ever charged to a sale that does not count.
TablesExplainSummary ==
  /\ RowRevenue("PRODUCT", AllTime) + RowRevenue("SERVICE", AllTime)
       + Unlisted("PRODUCT") + Unlisted("SERVICE")
       = Revenue(AllTime)
           + OverSales([l \in Lines |-> lineTotal[l] - total[l]], Completed(AllTime))
  /\ RowCogs("PRODUCT", AllTime)
       = Cogs(AllTime) - OverSales(totalCogs, Sold("SERVICE", AllTime))

\* What packs cost, and what of that their pieces are not carried at.
PurchaseCost == SumOver([b \in Batches |-> totalCost(b)], MaxBatches, Purchases(AllTime))
Rounding ==
  SumOver([b \in Batches |-> totalCost(b) - quantity[b] * pieceCost[b]], MaxBatches,
          Purchases(AllTime))
\* What was counted onto the shelf: written on, or there when the shop opened.
CountedIn == {i \in DOMAIN adjustments : adjustments[i].change > 0}

\* Every cent of goods that came in (bought, counted in at the start, written on)
\* is on the shelf at cost, in the cost of what was sold and kept, or written off;
\* or it was owed to customers when it arrived, and no report counts it again.
ValueAccountedFor ==
  PurchaseCost - Rounding + OverAdjustments(CountedIn)
  = valuation + Cogs(AllTime) + stockWrittenOff(AllTime) + CostOf(arrivedGone)

-----------------------------------------------------------------------------
(* What the repository says and the code does not keep. *)

\* reports.service.ts: the series is net of returns "exactly as financialSummary
\* does it".  Its monthly rows are months of UTC, the summary's are the shop's.
MonthRowIsMonth ==
  \A m \in {MonthOf(t) : t \in Moments} :
    m \in Periods(MonthLength, AllTime) =>
      SeriesRow(MonthLength, AllTime, m).revenue = Summary(monthRange(m)).revenue
=============================================================================
