----------------------------- MODULE Inventory ------------------------------
(***************************************************************************)
(* The inventory engine for one product variant: the denormalised shelf    *)
(* count (ProductVariant.currentStock), the FIFO cost batches, the cost     *)
(* allocations that tie a sold line to the batches it drew from, and every  *)
(* operation that moves stock.                                              *)
(*                                                                          *)
(* Every operation runs inside PrismaService.runSerializable, so each one   *)
(* is a single action; one that the code refuses is not enabled.  Variants  *)
(* share no stock state, and a sale or purchase with several lines is the   *)
(* same steps on several lines, so a line of a sale is the unit here.       *)
(*                                                                          *)
(* A batch is named by its rank in FIFO order (purchaseDate, createdAt): a  *)
(* purchase may be backdated, so a new batch may take any unused rank.      *)
(***************************************************************************)
EXTENDS Integers, Sums

CONSTANTS
  MaxBatches,   \* batches a variant may ever have
  MaxLines,     \* sale lines that may ever be rung up for it
  MaxQty,       \* largest quantity one operation moves
  MaxShortfall  \* how far below zero the shelf count is followed

ASSUME InventoryConstants ==
  /\ MaxBatches \in Nat \ {0}
  /\ MaxLines \in Nat \ {0}
  /\ MaxQty \in Nat \ {0}
  /\ MaxShortfall \in Nat

Batches == 1..MaxBatches
Lines == 1..MaxLines
Qty == 1..MaxQty

Origins == {"none", "purchase", "adjustment", "opening", "removed"}
Kinds == {"none", "PRODUCT", "SERVICE"}
Statuses == {"COMPLETED", "VOIDED"}

VARIABLES
  stock,        \* ProductVariant.currentStock
  origin,       \* what created each batch; "removed" once its purchase is undone
  quantity,     \* InventoryBatch.quantity
  remaining,    \* InventoryBatch.remainingQuantity
  kind,         \* SaleItem.itemType of each line ("none": not rung up yet)
  sold,         \* pieces the line took: basePieces, or the consumption's qty
  returnedQty,  \* SaleItem.returnedQuantity
  status,       \* Sale.status of the sale the line belongs to
  allocated,    \* CogsAllocation.quantity per line and batch (0: no row)
  returned,     \* CogsAllocation.returnedQuantity per line and batch
  arrivedGone,  \* history: units of a delivery already owed when it arrived
  writtenOff,   \* history: units of a batch consumed by adjustments, wastage
  wastedShort   \* history: wasted units no batch could cover

shelf == <<stock, wastedShort>>
batchVars == <<origin, quantity, remaining, arrivedGone, writtenOff>>
lineVars == <<kind, sold, returnedQty, status, allocated, returned>>
vars == <<shelf, batchVars, lineVars>>

NoUnits == [b \in Batches |-> 0]

Init ==
  /\ stock = 0 /\ wastedShort = 0
  /\ origin = [b \in Batches |-> "none"]
  /\ quantity = NoUnits /\ remaining = NoUnits
  /\ arrivedGone = NoUnits /\ writtenOff = NoUnits
  /\ kind = [l \in Lines |-> "none"]
  /\ sold = [l \in Lines |-> 0] /\ returnedQty = [l \in Lines |-> 0]
  /\ status = [l \in Lines |-> "COMPLETED"]
  /\ allocated = [l \in Lines |-> NoUnits]
  /\ returned = [l \in Lines |-> NoUnits]

-----------------------------------------------------------------------------
(* The engine's four primitives. *)

\* applyMovementTx: only a removal can be short, and only when not allowed to be.
MovementAllowed(n, allowNegative) ==
  ~ (n < 0 /\ stock + n < 0 /\ ~ allowNegative)

ApplyMovement(n, allowNegative) ==
  /\ MovementAllowed(n, allowNegative)
  /\ stock' = stock + n

\* addBatchTx: a new batch of n pieces, `gone' of which are off the shelf already.
AddBatch(b, n, gone, from) ==
  /\ origin[b] = "none"
  /\ origin' = [origin EXCEPT ![b] = from]
  /\ quantity' = [quantity EXCEPT ![b] = n]
  /\ remaining' = [remaining EXCEPT ![b] = n - gone]
  /\ arrivedGone' = [arrivedGone EXCEPT ![b] = gone]
  /\ UNCHANGED writtenOff

OnBatches == Total(remaining, MaxBatches)

\* Mutants of FifoTake: newest batch first; all from the first batch.
NewestFirstTake(n) ==
  [b \in Batches |->
     Lesser(remaining[b],
            AtLeastZero(n - (OnBatches - RunningSum(remaining, MaxBatches)[b])))]

FirstBatchTake(n) == [b \in Batches |-> IF b = 1 THEN n ELSE 0]

\* consumeFifoTx: what each batch gives up, oldest batch first.
FifoTake(n) == Greedy(remaining, MaxBatches, n)

\* A shortfall is refused unless the caller allows it.
ConsumeFifo(n, allowShortfall) ==
  /\ allowShortfall \/ n <= OnBatches
  /\ remaining' = [b \in Batches |-> remaining[b] - FifoTake(n)[b]]

\* restoreFifoTx, and the same increments made by returnSale.
Restore(units) ==
  remaining' = [b \in Batches |-> remaining[b] + units[b]]

-----------------------------------------------------------------------------
(* Goods in: PurchasesService.create, InventoryAdminService.adjust and      *)
(* recordOpeningStock.                                                      *)

\* Units sold while the shelf count was negative come out of this delivery.
OwedFrom(n) == Lesser(n, AtLeastZero(-stock))

CreatePurchase(b, n) ==
  /\ ApplyMovement(n, FALSE)
  /\ AddBatch(b, n, OwedFrom(n), "purchase")
  /\ UNCHANGED <<wastedShort, lineVars>>

\* A positive adjustment adds the whole batch, whatever the shelf count says.
AdjustUp(b, n) ==
  /\ AddBatch(b, n, 0, "adjustment")
  /\ ApplyMovement(n, FALSE)
  /\ UNCHANGED <<wastedShort, lineVars>>

\* Opening stock is recorded once per variant; it is written as an adjustment.
OpeningRecorded == \E b \in Batches : origin[b] = "opening"

RecordOpeningStock(b, n) ==
  /\ ~ OpeningRecorded
  /\ AddBatch(b, n, 0, "opening")
  /\ ApplyMovement(n, FALSE)
  /\ UNCHANGED <<wastedShort, lineVars>>

(* Goods out without a sale: a manual correction and recorded wastage. *)

WriteOff(n, allowShortfall) ==
  /\ ConsumeFifo(n, allowShortfall)
  /\ writtenOff' = [b \in Batches |-> writtenOff[b] + FifoTake(n)[b]]
  /\ ApplyMovement(-n, allowShortfall)
  /\ wastedShort' = wastedShort + AtLeastZero(n - OnBatches)
  /\ UNCHANGED <<origin, quantity, arrivedGone, lineVars>>

AdjustDown(n) == WriteOff(n, FALSE)

RecordWastage(n) ==
  /\ stock - n >= -MaxShortfall
  /\ WriteOff(n, TRUE)

\* PurchasesService.void removes the batch, and only a batch nothing was drawn
\* from.  A CogsAllocation row keeps its batch alive (foreign key RESTRICT).
HasAllocation(b) == \E l \in Lines : allocated[l][b] > 0

\* Mutant: undoes a purchase some of which has left the shelf.
VoidPurchaseThoughSold(b) ==
  /\ origin[b] = "purchase"
  /\ ApplyMovement(-quantity[b], FALSE)
  /\ ~ HasAllocation(b)
  /\ origin' = [origin EXCEPT ![b] = "removed"]
  /\ quantity' = [quantity EXCEPT ![b] = 0]
  /\ remaining' = [remaining EXCEPT ![b] = 0]
  /\ UNCHANGED <<arrivedGone, writtenOff, wastedShort, lineVars>>

VoidPurchase(b) ==
  /\ origin[b] = "purchase"
  /\ remaining[b] = quantity[b]
  /\ ApplyMovement(-quantity[b], FALSE)
  /\ ~ HasAllocation(b)
  /\ origin' = [origin EXCEPT ![b] = "removed"]
  /\ quantity' = [quantity EXCEPT ![b] = 0]
  /\ remaining' = [remaining EXCEPT ![b] = 0]
  /\ UNCHANGED <<arrivedGone, writtenOff, wastedShort, lineVars>>

-----------------------------------------------------------------------------
(* Sales: SalesService.create, void and returnSale. *)

RingUp(l, k, n, allowShortfall) ==
  /\ kind[l] = "none" /\ \A m \in 1..(l - 1) : kind[m] # "none"
  /\ ConsumeFifo(n, allowShortfall)
  /\ ApplyMovement(-n, allowShortfall)
  /\ kind' = [kind EXCEPT ![l] = k]
  /\ sold' = [sold EXCEPT ![l] = n]
  /\ allocated' = [allocated EXCEPT ![l] = FifoTake(n)]
  /\ UNCHANGED <<origin, quantity, arrivedGone, writtenOff, wastedShort,
                 returnedQty, status, returned>>

\* Mutant: a product line may be short like a service's paper.
SellProductShort(l, n) == stock - n >= -MaxShortfall /\ RingUp(l, "PRODUCT", n, TRUE)

SellProduct(l, n) == RingUp(l, "PRODUCT", n, FALSE)

\* Paper a service consumes: warn but allow.
SellService(l, n) ==
  /\ stock - n >= -MaxShortfall
  /\ RingUp(l, "SERVICE", n, TRUE)

\* Mutant: voids a sale part of which was already returned.
VoidSaleThoughReturned(l) ==
  /\ kind[l] # "none"
  /\ status[l] # "VOIDED"
  /\ Restore(allocated[l])
  /\ ApplyMovement(sold[l], TRUE)
  /\ status' = [status EXCEPT ![l] = "VOIDED"]
  /\ UNCHANGED <<origin, quantity, arrivedGone, writtenOff, wastedShort,
                 kind, sold, returnedQty, allocated, returned>>

\* A sale with any return against it can no longer be voided.
VoidSale(l) ==
  /\ kind[l] # "none"
  /\ status[l] # "VOIDED"
  /\ returnedQty[l] = 0
  /\ Restore(allocated[l])
  /\ ApplyMovement(sold[l], TRUE)
  /\ status' = [status EXCEPT ![l] = "VOIDED"]
  /\ UNCHANGED <<origin, quantity, arrivedGone, writtenOff, wastedShort,
                 kind, sold, returnedQty, allocated, returned>>

Returnable(l) == [b \in Batches |-> allocated[l][b] - returned[l][b]]

\* The allocation rows are read in no stated order.  Walking them greedily in
\* some order gives back whole rows, and part of at most one.
GivesBack(l, n, back) ==
  /\ \A b \in Batches : back[b] <= Returnable(l)[b]
  /\ \A b, c \in Batches :
       (back[b] \in 1..(Returnable(l)[b] - 1) /\ back[c] \in 1..(Returnable(l)[c] - 1))
         => b = c
  /\ Total(back, MaxBatches) = Lesser(n, Total(Returnable(l), MaxBatches))

ReturnProduct(l, n) ==
  /\ kind[l] = "PRODUCT"
  /\ status[l] # "VOIDED"
  /\ n <= sold[l] - returnedQty[l]
  /\ \E back \in [Batches -> 0..MaxQty] :
       /\ GivesBack(l, n, back)
       /\ Restore(back)
       /\ returned' = [returned EXCEPT ![l] = [b \in Batches |-> @[b] + back[b]]]
  /\ ApplyMovement(n, FALSE)
  /\ returnedQty' = [returnedQty EXCEPT ![l] = @ + n]
  /\ UNCHANGED <<origin, quantity, arrivedGone, writtenOff, wastedShort,
                 kind, sold, status, allocated>>

\* A returned service line is refunded; its paper is gone and stays gone.  Lines
\* here are of services that use one piece per job, so jobs count as pieces.
ReturnService(l, n) ==
  /\ kind[l] = "SERVICE"
  /\ status[l] # "VOIDED"
  /\ n <= sold[l] - returnedQty[l]
  /\ returnedQty' = [returnedQty EXCEPT ![l] = @ + n]
  /\ UNCHANGED <<shelf, batchVars, kind, sold, status, allocated, returned>>

-----------------------------------------------------------------------------
GoodsIn ==
  \E b \in Batches, n \in Qty :
    CreatePurchase(b, n) \/ AdjustUp(b, n) \/ RecordOpeningStock(b, n)

GoodsOut ==
  \/ \E n \in Qty : AdjustDown(n) \/ RecordWastage(n)
  \/ \E b \in Batches : VoidPurchase(b)

Trade ==
  \E l \in Lines :
    \/ VoidSale(l)
    \/ \E n \in Qty : \/ SellProduct(l, n) \/ SellService(l, n)
                      \/ ReturnProduct(l, n) \/ ReturnService(l, n)

Next == GoodsIn \/ GoodsOut \/ Trade

Spec == Init /\ [][Next]_vars

-----------------------------------------------------------------------------
TypeOK ==
  /\ stock \in Int /\ wastedShort \in Nat
  /\ origin \in [Batches -> Origins]
  /\ quantity \in [Batches -> Nat]
  /\ remaining \in [Batches -> Nat]
  /\ arrivedGone \in [Batches -> Nat]
  /\ writtenOff \in [Batches -> Nat]
  /\ kind \in [Lines -> Kinds]
  /\ sold \in [Lines -> 0..MaxQty]
  /\ returnedQty \in [Lines -> 0..MaxQty]
  /\ status \in [Lines -> Statuses]
  /\ allocated \in [Lines -> [Batches -> Nat]]
  /\ returned \in [Lines -> [Batches -> Nat]]

\* Units of batch b that line l still holds: a void gives all of them back.
Holds(l, b) == IF status[l] = "VOIDED" THEN 0 ELSE Returnable(l)[b]

\* Every unit a batch ever held is on the shelf, with one line that was not
\* undone, written off, or was owed when it arrived: voids and returns give back
\* exactly what a sale drew, never more, never twice.
UnitsAccountedFor ==
  \A b \in Batches :
    quantity[b] = remaining[b] + Total([l \in Lines |-> Holds(l, b)], MaxLines)
                    + writtenOff[b] + arrivedGone[b]

\* A product line that stands is backed by batch units for everything the
\* customer has kept, so the returns to come can reverse its cost in full.
LinesBacked ==
  \A l \in Lines :
    kind[l] = "PRODUCT" =>
      Total(Returnable(l), MaxBatches) = sold[l] - returnedQty[l]

\* What a line took that no batch covered when it was rung up.
Uncovered(l) ==
  IF status[l] = "VOIDED" THEN 0 ELSE sold[l] - Total(allocated[l], MaxBatches)

\* The shelf count and the batches differ by exactly the units sold or wasted
\* with no batch to draw from, less those a later delivery arrived short of.
\* Nothing else (returns, voids, adjustments, undone purchases) moves them apart.
DriftExplained ==
  stock - OnBatches =
    Total(arrivedGone, MaxBatches)
      - Total([l \in Lines |-> Uncovered(l)], MaxLines) - wastedShort

\* What the three invariants above rest on.
LineRules ==
  \A l \in Lines :
    /\ returnedQty[l] <= sold[l]
    /\ \A b \in Batches : returned[l][b] <= allocated[l][b]
    /\ returnedQty[l] = 0 => \A b \in Batches : returned[l][b] = 0
    /\ kind[l] = "none" =>
         /\ sold[l] = 0 /\ status[l] = "COMPLETED"
         /\ \A b \in Batches : allocated[l][b] = 0

UnusedBatchesEmpty == \A b \in Batches : origin[b] = "none" => quantity[b] = 0

IInv ==
  /\ TypeOK /\ LineRules /\ UnusedBatchesEmpty
  /\ UnitsAccountedFor /\ LinesBacked /\ DriftExplained

\* Consumption is first-in first-out: a batch is drawn on only when every batch
\* before it in (purchaseDate, createdAt) order is left empty.
FirstInFirstOut ==
  [][\A b \in Batches :
       (remaining'[b] < remaining[b] /\ origin'[b] # "removed")
         => \A c \in 1..(b - 1) : remaining'[c] = 0]_vars

-----------------------------------------------------------------------------
(* What the repository says and the code does not keep. *)

\* README: "Inventory can never drift from batches."
InventoryNeverDriftsFromBatches == stock = OnBatches
=============================================================================
