-------------------------- MODULE InventoryProofs ---------------------------
(***************************************************************************)
(* Proofs about module Inventory, for every number of batches and lines,   *)
(* and about module Reports over it: every entry in the books is a step of *)
(* the engine, so the engine's invariant holds under the books, and with   *)
(* the invariant that ties the two together the reports agree.             *)
(***************************************************************************)
EXTENDS Reports, SumsProofs, SequenceTheorems

-----------------------------------------------------------------------------
(* Typing. *)

\* What consumeFifoTx draws: from each batch at most what it holds, in all the
\* quantity asked for or everything there is, and never out of FIFO order.
LEMMA FifoTakes ==
  ASSUME TypeOK, NEW n \in Nat
  PROVE  /\ FifoTake(n) \in [Batches -> Nat]
         /\ \A b \in Batches : FifoTake(n)[b] <= remaining[b]
         /\ \A b \in Batches : FifoTake(n)[b] > 0
              => \A c \in 1..(b - 1) : FifoTake(n)[c] = remaining[c]
         /\ Total(FifoTake(n), MaxBatches) = Lesser(n, OnBatches)
         /\ OnBatches \in Nat
<1>1. MaxBatches \in Nat /\ \A b \in 1..MaxBatches : remaining[b] \in Nat
  BY InventoryConstants DEF TypeOK, Batches
<1>2. /\ \A b \in Batches : FifoTake(n)[b] \in 0..remaining[b]
      /\ \A b \in Batches : FifoTake(n)[b] > 0
           => \A c \in 1..(b - 1) : FifoTake(n)[c] = remaining[c]
      /\ Total(FifoTake(n), MaxBatches) = Lesser(n, OnBatches)
  BY <1>1, GreedyTakes DEF FifoTake, OnBatches, Batches
<1>3. OnBatches \in Nat
  BY <1>1, TotalNat DEF OnBatches
<1>4. FifoTake(n) \in [Batches -> Nat]
  <2>1. FifoTake(n) = [b \in Batches |-> FifoTake(n)[b]]
    BY DEF FifoTake, Greedy, Batches
  <2>2. \A b \in Batches : FifoTake(n)[b] \in Nat
    BY <1>1, <1>2 DEF Batches
  <2> QED BY <2>1, <2>2
<1>5. \A b \in Batches : FifoTake(n)[b] <= remaining[b]
  BY <1>1, <1>2 DEF Batches
<1> QED BY <1>2, <1>3, <1>4, <1>5

\* After a consumption every batch still holds a natural number of units.
LEMMA ConsumeTypes ==
  ASSUME TypeOK, NEW n \in Nat, NEW a \in BOOLEAN, ConsumeFifo(n, a)
  PROVE  remaining' \in [Batches -> Nat]
<1>1. FifoTake(n) \in [Batches -> Nat] /\ \A b \in Batches : FifoTake(n)[b] <= remaining[b]
  BY FifoTakes
<1> QED BY <1>1 DEF ConsumeFifo, TypeOK

\* Units a delivery owes are never more than the delivery.
LEMMA OwedTypes ==
  ASSUME TypeOK, NEW n \in Qty
  PROVE  OwedFrom(n) \in 0..n
BY InventoryConstants DEF TypeOK, OwedFrom, Lesser, AtLeastZero, Qty

\* The types are an invariant on their own: no operation leaves a batch with a
\* negative count, however purchases, sales, voids and returns interleave.
LEMMA TypeOKStep ==
  TypeOK /\ [Next]_vars => TypeOK'
<1> SUFFICES ASSUME TypeOK, [Next]_vars PROVE TypeOK'
  OBVIOUS
<1> USE InventoryConstants
<1>1. ASSUME NEW b \in Batches, NEW n \in Qty, CreatePurchase(b, n) PROVE TypeOK'
  <2>1. OwedFrom(n) \in 0..n
    BY OwedTypes
  <2> QED
    BY <1>1, <2>1 DEF TypeOK, CreatePurchase, AddBatch, ApplyMovement, Origins, Qty,
                      lineVars
<1>2. ASSUME NEW b \in Batches, NEW n \in Qty, AdjustUp(b, n) PROVE TypeOK'
  BY <1>2 DEF TypeOK, AdjustUp, AddBatch, ApplyMovement, Origins, Qty, lineVars
<1>3. ASSUME NEW b \in Batches, NEW n \in Qty, RecordOpeningStock(b, n) PROVE TypeOK'
  BY <1>3 DEF TypeOK, RecordOpeningStock, AddBatch, ApplyMovement, Origins, Qty, lineVars
<1>4. ASSUME NEW n \in Qty, NEW a \in BOOLEAN, WriteOff(n, a) PROVE TypeOK'
  <2>1. n \in Nat /\ ConsumeFifo(n, a)
    BY <1>4 DEF WriteOff, Qty
  <2>2. remaining' \in [Batches -> Nat]
    BY <2>1, ConsumeTypes
  <2>3. FifoTake(n) \in [Batches -> Nat] /\ OnBatches \in Nat
    BY <2>1, FifoTakes
  <2>4. writtenOff' \in [Batches -> Nat] /\ wastedShort' \in Nat
    BY <1>4, <2>1, <2>3 DEF WriteOff, TypeOK, AtLeastZero
  <2> QED BY <1>4, <2>1, <2>2, <2>4 DEF WriteOff, TypeOK, ApplyMovement, lineVars
<1>5. ASSUME NEW b \in Batches, VoidPurchase(b) PROVE TypeOK'
  BY <1>5 DEF TypeOK, VoidPurchase, ApplyMovement, Origins, lineVars
<1>6. ASSUME NEW l \in Lines, NEW k \in {"PRODUCT", "SERVICE"}, NEW n \in Qty,
             NEW a \in BOOLEAN, RingUp(l, k, n, a)
      PROVE  TypeOK'
  <2>1. n \in Nat /\ n \in 0..MaxQty /\ ConsumeFifo(n, a)
    BY <1>6 DEF RingUp, Qty
  <2>2. remaining' \in [Batches -> Nat] /\ FifoTake(n) \in [Batches -> Nat]
    BY <2>1, ConsumeTypes, FifoTakes
  <2> QED BY <1>6, <2>1, <2>2 DEF RingUp, TypeOK, ApplyMovement, Kinds
<1>7. ASSUME NEW l \in Lines, VoidSale(l) PROVE TypeOK'
  BY <1>7 DEF TypeOK, VoidSale, Restore, ApplyMovement, Statuses
<1>8. ASSUME NEW l \in Lines, NEW n \in Qty, ReturnProduct(l, n) PROVE TypeOK'
  <2>1. PICK back \in [Batches -> 0..MaxQty] :
          /\ Restore(back)
          /\ returned' = [returned EXCEPT ![l] = [b \in Batches |-> @[b] + back[b]]]
    BY <1>8 DEF ReturnProduct
  <2>2. remaining' \in [Batches -> Nat] /\ returned' \in [Lines -> [Batches -> Nat]]
    BY <2>1 DEF TypeOK, Restore
  <2> QED BY <1>8, <2>2 DEF TypeOK, ReturnProduct, ApplyMovement, Qty
<1>9. ASSUME NEW l \in Lines, NEW n \in Qty, ReturnService(l, n) PROVE TypeOK'
  BY <1>9 DEF TypeOK, ReturnService, shelf, batchVars, Qty
<1>10. CASE UNCHANGED vars
  BY <1>10 DEF TypeOK, vars, shelf, batchVars, lineVars
<1> QED
  BY <1>1, <1>2, <1>3, <1>4, <1>5, <1>6, <1>7, <1>8, <1>9, <1>10
  DEF Next, GoodsIn, GoodsOut, Trade, AdjustDown, RecordWastage, SellProduct, SellService

\* Whatever happens, no batch holds fewer than no units.
THEOREM TypeCorrect == Spec => []TypeOK
<1>1. Init => TypeOK
  BY InventoryConstants DEF Init, TypeOK, NoUnits, Origins, Kinds, Statuses
<1> QED BY <1>1, TypeOKStep, PTL DEF Spec

-----------------------------------------------------------------------------
(* The three accounting invariants. *)

\* Units of batch b held by all lines; units all lines took uncovered.
Held(b) == Total([l \in Lines |-> Holds(l, b)], MaxLines)
Debts == Total([l \in Lines |-> Uncovered(l)], MaxLines)

\* What lines hold of batches is counted in whole units, none below zero.
LEMMA HeldType ==
  ASSUME TypeOK, LineRules, NEW b \in Batches
  PROVE  /\ \A l \in Lines : Holds(l, b) \in Nat
         /\ Held(b) \in Nat
<1>1. \A l \in Lines : Holds(l, b) \in Nat
  BY DEF TypeOK, LineRules, Holds, Returnable
<1>2. MaxLines \in Nat /\ \A l \in 1..MaxLines : [m \in Lines |-> Holds(m, b)][l] \in Nat
  BY <1>1, InventoryConstants DEF Lines
<1> QED BY <1>1, <1>2, TotalNat DEF Held

\* What a line took beyond the batches is an integer.
LEMMA UncoveredType ==
  ASSUME TypeOK, NEW l \in Lines
  PROVE  Uncovered(l) \in Int /\ Total(allocated[l], MaxBatches) \in Int
<1>1. MaxBatches \in Nat /\ \A b \in 1..MaxBatches : allocated[l][b] \in Int
  BY InventoryConstants DEF TypeOK, Batches
<1>2. Total(allocated[l], MaxBatches) \in Int
  BY <1>1, TotalType
<1> QED BY <1>2 DEF Uncovered, TypeOK

\* The totals the invariants compare are integers.
LEMMA TotalTypes ==
  ASSUME TypeOK
  PROVE  /\ OnBatches \in Nat
         /\ Total(arrivedGone, MaxBatches) \in Nat
         /\ Debts \in Int
<1>1. MaxBatches \in Nat /\ \A b \in 1..MaxBatches : remaining[b] \in Nat /\ arrivedGone[b] \in Nat
  BY InventoryConstants DEF TypeOK, Batches
<1>2. OnBatches \in Nat /\ Total(arrivedGone, MaxBatches) \in Nat
  BY <1>1, TotalNat DEF OnBatches
<1>3. MaxLines \in Nat /\ \A l \in 1..MaxLines : [m \in Lines |-> Uncovered(m)][l] \in Int
  BY UncoveredType, InventoryConstants DEF Lines
<1> QED BY <1>2, <1>3, TotalType DEF Debts

\* A step that leaves the sale lines alone leaves what they hold and owe alone.
LEMMA LinesFrame ==
  ASSUME IInv, UNCHANGED lineVars
  PROVE  /\ \A b \in Batches : Held(b)' = Held(b)
         /\ Debts' = Debts
         /\ LineRules' /\ LinesBacked'
BY DEF IInv, lineVars, Held, Debts, Holds, Uncovered, Returnable, LineRules, LinesBacked

\* A change of one line changes what the lines hold of a batch by that much.
LEMMA HeldChange ==
  ASSUME TypeOK, LineRules, NEW l \in Lines, NEW b \in Batches, NEW d \in Int,
         Holds(l, b)' = Holds(l, b) + d,
         \A m \in Lines \ {l} : Holds(m, b)' = Holds(m, b)
  PROVE  Held(b)' = Held(b) + d
<1> DEFINE f == [m \in Lines |-> Holds(m, b)]
           h == [m \in Lines |-> Holds(m, b)']
<1>1. MaxLines \in Nat /\ l \in 1..MaxLines
  BY InventoryConstants DEF Lines
<1>2. \A m \in 1..MaxLines : f[m] \in Int
  BY HeldType DEF Lines
<1>3. \A m \in 1..MaxLines : h[m] = IF m = l THEN f[m] + d ELSE f[m]
  BY DEF Lines
<1>4. Total(h, MaxLines) = Total(f, MaxLines) + d
  <2> HIDE DEF f, h
  <2> QED BY <1>1, <1>2, <1>3, TotalChangeAt
<1> QED BY <1>4 DEF Held

\* A step on one line moves the uncovered units by what that line changes.
LEMMA DebtsChange ==
  ASSUME TypeOK, NEW l \in Lines, NEW d \in Int,
         Uncovered(l)' = Uncovered(l) + d,
         \A m \in Lines \ {l} : Uncovered(m)' = Uncovered(m)
  PROVE  Debts' = Debts + d
<1> DEFINE f == [m \in Lines |-> Uncovered(m)]
           h == [m \in Lines |-> Uncovered(m)']
<1>1. MaxLines \in Nat /\ l \in 1..MaxLines
  BY InventoryConstants DEF Lines
<1>2. \A m \in 1..MaxLines : f[m] \in Int
  BY UncoveredType DEF Lines
<1>3. \A m \in 1..MaxLines : h[m] = IF m = l THEN f[m] + d ELSE f[m]
  BY DEF Lines
<1>4. Total(h, MaxLines) = Total(f, MaxLines) + d
  <2> HIDE DEF f, h
  <2> QED BY <1>1, <1>2, <1>3, TotalChangeAt
<1> QED BY <1>4 DEF Debts

\* Units put back on the batches raise their total by as much.
LEMMA RestoreTotal ==
  ASSUME TypeOK, NEW units \in [Batches -> Int], Restore(units)
  PROVE  OnBatches' = OnBatches + Total(units, MaxBatches)
<1>1. MaxBatches \in Nat
  BY InventoryConstants
<1>2. \A b \in 1..MaxBatches :
        remaining[b] \in Int /\ units[b] \in Int /\ remaining'[b] = remaining[b] + units[b]
  <2> SUFFICES ASSUME NEW b \in Batches
               PROVE  /\ remaining[b] \in Int /\ units[b] \in Int
                      /\ remaining'[b] = remaining[b] + units[b]
    BY DEF Batches
  <2> QED BY DEF TypeOK, Restore
<1>3. Total(remaining', MaxBatches) = Total(remaining, MaxBatches) + Total(units, MaxBatches)
  BY <1>1, <1>2, TotalAdd
<1> QED BY <1>3 DEF OnBatches

\* Consumption takes from the batches what they have, up to what was asked.
LEMMA ConsumeTotal ==
  ASSUME TypeOK, NEW n \in Nat, NEW a \in BOOLEAN, ConsumeFifo(n, a)
  PROVE  OnBatches' = OnBatches - Lesser(n, OnBatches)
<1>1. MaxBatches \in Nat
  BY InventoryConstants
<1>2. /\ FifoTake(n) \in [Batches -> Nat]
      /\ Total(FifoTake(n), MaxBatches) = Lesser(n, OnBatches)
      /\ OnBatches \in Nat
  BY FifoTakes
<1>3. remaining' \in [Batches -> Nat]
  BY ConsumeTypes
<1>4. \A b \in 1..MaxBatches :
        remaining'[b] \in Int /\ FifoTake(n)[b] \in Int
          /\ remaining[b] = remaining'[b] + FifoTake(n)[b]
  <2> SUFFICES ASSUME NEW b \in Batches
               PROVE  /\ remaining'[b] \in Int /\ FifoTake(n)[b] \in Int
                      /\ remaining[b] = remaining'[b] + FifoTake(n)[b]
    BY DEF Batches
  <2>1. remaining[b] \in Nat /\ FifoTake(n)[b] \in Nat
    BY <1>2 DEF TypeOK
  <2>2. remaining'[b] = remaining[b] - FifoTake(n)[b]
    BY DEF ConsumeFifo
  <2> QED BY <2>1, <2>2
<1>5. Total(remaining, MaxBatches)
        = Total(remaining', MaxBatches) + Total(FifoTake(n), MaxBatches)
  BY <1>1, <1>4, TotalAdd
<1>6. OnBatches' \in Int
  BY <1>1, <1>4, TotalType DEF OnBatches
<1> QED BY <1>2, <1>5, <1>6 DEF OnBatches, Lesser

\* A batch accounted for with nothing in it has no units anywhere.
LEMMA EmptyBatch ==
  ASSUME IInv, NEW b \in Batches, quantity[b] = remaining[b]
  PROVE  Held(b) = 0 /\ writtenOff[b] = 0 /\ arrivedGone[b] = 0
<1>1. Held(b) \in Nat
  BY HeldType DEF IInv
<1>2. quantity[b] = remaining[b] + Held(b) + writtenOff[b] + arrivedGone[b]
  BY DEF IInv, UnitsAccountedFor, Held
<1>3. /\ remaining[b] \in Nat /\ writtenOff[b] \in Nat /\ arrivedGone[b] \in Nat
  BY DEF IInv, TypeOK
<1> QED BY <1>1, <1>2, <1>3

\* A new batch keeps the books: its rank held nothing before.
LEMMA AddBatchKeeps ==
  ASSUME IInv, NEW b \in Batches, NEW n \in Qty, NEW gone \in 0..n,
         NEW from \in Origins \ {"none"}, AddBatch(b, n, gone, from),
         UNCHANGED lineVars
  PROVE  /\ UnusedBatchesEmpty' /\ UnitsAccountedFor'
         /\ OnBatches' = OnBatches + n - gone
         /\ Total(arrivedGone', MaxBatches) = Total(arrivedGone, MaxBatches) + gone
<1> USE DEF IInv
<1>1. MaxBatches \in Nat /\ b \in 1..MaxBatches /\ n \in Nat /\ gone \in Nat
  BY InventoryConstants DEF Batches, Qty
<1>2. origin[b] = "none" /\ quantity[b] = 0
  BY DEF AddBatch, UnusedBatchesEmpty
<1>3. Held(b) \in Nat /\ remaining[b] \in Nat /\ writtenOff[b] \in Nat /\ arrivedGone[b] \in Nat
  BY HeldType DEF TypeOK
<1>4. Held(b) = 0 /\ remaining[b] = 0 /\ writtenOff[b] = 0 /\ arrivedGone[b] = 0
  <2>1. quantity[b] = remaining[b] + Held(b) + writtenOff[b] + arrivedGone[b]
    BY DEF UnitsAccountedFor, Held
  <2> QED BY <1>2, <1>3, <2>1
<1>5. \A c \in Batches : Held(c)' = Held(c)
  BY LinesFrame
<1>6. UnitsAccountedFor'
  <2> SUFFICES ASSUME NEW c \in Batches
               PROVE  quantity'[c] = remaining'[c] + Held(c)' + writtenOff'[c] + arrivedGone'[c]
    BY DEF UnitsAccountedFor, Held
  <2>1. CASE c = b
    <3>1. quantity'[b] = n /\ remaining'[b] = n - gone /\ arrivedGone'[b] = gone
            /\ writtenOff'[b] = 0
      BY <1>4 DEF AddBatch, TypeOK
    <3> QED BY <1>1, <1>4, <1>5, <2>1, <3>1
  <2>2. CASE c # b
    <3>1. quantity'[c] = quantity[c] /\ remaining'[c] = remaining[c]
            /\ arrivedGone'[c] = arrivedGone[c] /\ writtenOff'[c] = writtenOff[c]
      BY <2>2 DEF AddBatch, TypeOK
    <3>2. quantity[c] = remaining[c] + Held(c) + writtenOff[c] + arrivedGone[c]
      BY DEF UnitsAccountedFor, Held
    <3> QED BY <1>5, <3>1, <3>2
  <2> QED BY <2>1, <2>2
<1>7. UnusedBatchesEmpty'
  BY DEF AddBatch, UnusedBatchesEmpty, TypeOK
<1>8. OnBatches' = OnBatches + (n - gone)
  <2> DEFINE d == n - gone
  <2>1. \A c \in 1..MaxBatches : remaining[c] \in Int
    BY DEF TypeOK, Batches
  <2>2. \A c \in 1..MaxBatches :
          remaining'[c] = IF c = b THEN remaining[c] + d ELSE remaining[c]
    BY <1>1, <1>4 DEF AddBatch, TypeOK, Batches
  <2>3. d \in Int
    BY <1>1
  <2>4. Total(remaining', MaxBatches) = Total(remaining, MaxBatches) + d
    <3> HIDE DEF d
    <3> QED BY ONLY <1>1, <2>1, <2>2, <2>3, TotalChangeAt
  <2> QED BY <2>4 DEF OnBatches
<1>9. Total(arrivedGone', MaxBatches) = Total(arrivedGone, MaxBatches) + gone
  <2>1. \A c \in 1..MaxBatches : arrivedGone[c] \in Int
    BY DEF TypeOK, Batches
  <2>2. \A c \in 1..MaxBatches :
          arrivedGone'[c] = IF c = b THEN arrivedGone[c] + gone ELSE arrivedGone[c]
    BY <1>1, <1>4 DEF AddBatch, TypeOK, Batches
  <2>3. gone \in Int
    BY <1>1
  <2> QED BY ONLY <1>1, <2>1, <2>2, <2>3, TotalChangeAt
<1>10. OnBatches \in Nat
  BY TotalTypes
<1> QED BY <1>1, <1>6, <1>7, <1>8, <1>9, <1>10

\* Any goods-in step keeps the invariant.
LEMMA GoodsInKeeps ==
  ASSUME IInv, TypeOK', NEW b \in Batches, NEW n \in Qty, NEW gone \in 0..n,
         NEW from \in Origins \ {"none"}, AddBatch(b, n, gone, from),
         ApplyMovement(n, FALSE), UNCHANGED <<wastedShort, lineVars>>
  PROVE  IInv'
<1>1. /\ UnusedBatchesEmpty' /\ UnitsAccountedFor'
      /\ OnBatches' = OnBatches + n - gone
      /\ Total(arrivedGone', MaxBatches) = Total(arrivedGone, MaxBatches) + gone
  BY AddBatchKeeps
<1>2. LineRules' /\ LinesBacked' /\ Debts' = Debts
  BY LinesFrame
<1>3. DriftExplained'
  <2>1. stock - OnBatches = Total(arrivedGone, MaxBatches) - Debts - wastedShort
    BY DEF IInv, DriftExplained, Debts
  <2>2. /\ OnBatches \in Nat /\ Total(arrivedGone, MaxBatches) \in Nat /\ Debts \in Int
        /\ stock \in Int /\ wastedShort \in Nat /\ n \in Nat /\ gone \in Nat
    BY TotalTypes DEF IInv, TypeOK, Qty
  <2>3. stock' = stock + n /\ wastedShort' = wastedShort
    BY DEF ApplyMovement
  <2>4. stock' - OnBatches' = Total(arrivedGone', MaxBatches) - Debts' - wastedShort'
    BY <1>1, <1>2, <2>1, <2>2, <2>3
  <2> QED BY <2>4 DEF DriftExplained, Debts
<1> QED BY <1>1, <1>2, <1>3 DEF IInv

\* Corrections and wastage: what the batches cannot cover goes to wastedShort.
LEMMA WriteOffKeeps ==
  ASSUME IInv, TypeOK', NEW n \in Qty, NEW a \in BOOLEAN, WriteOff(n, a)
  PROVE  IInv'
<1> USE DEF IInv
<1>1. n \in Nat /\ ConsumeFifo(n, a) /\ UNCHANGED lineVars
  BY DEF WriteOff, Qty
<1>2. LineRules' /\ LinesBacked' /\ Debts' = Debts /\ \A c \in Batches : Held(c)' = Held(c)
  BY <1>1, LinesFrame
<1>3. UnusedBatchesEmpty'
  BY DEF WriteOff, UnusedBatchesEmpty
<1>4. UnitsAccountedFor'
  <2> SUFFICES ASSUME NEW c \in Batches
               PROVE  quantity'[c] = remaining'[c] + Held(c)' + writtenOff'[c] + arrivedGone'[c]
    BY DEF UnitsAccountedFor, Held
  <2>1. /\ remaining'[c] = remaining[c] - FifoTake(n)[c]
        /\ writtenOff'[c] = writtenOff[c] + FifoTake(n)[c]
        /\ quantity'[c] = quantity[c] /\ arrivedGone'[c] = arrivedGone[c]
    BY DEF WriteOff, ConsumeFifo
  <2>2. quantity[c] = remaining[c] + Held(c) + writtenOff[c] + arrivedGone[c]
    BY DEF UnitsAccountedFor, Held
  <2>3. /\ FifoTake(n)[c] \in Nat /\ Held(c) \in Nat /\ remaining[c] \in Nat
        /\ writtenOff[c] \in Nat /\ arrivedGone[c] \in Nat
    BY <1>1, FifoTakes, HeldType DEF TypeOK
  <2> QED BY <1>2, <2>1, <2>2, <2>3
<1>5. DriftExplained'
  <2>1. stock - OnBatches = Total(arrivedGone, MaxBatches) - Debts - wastedShort
    BY DEF DriftExplained, Debts
  <2>2. /\ OnBatches \in Nat /\ Total(arrivedGone, MaxBatches) \in Nat /\ Debts \in Int
        /\ stock \in Int /\ wastedShort \in Nat
    BY TotalTypes DEF TypeOK
  <2>3. /\ stock' = stock + (-n) /\ arrivedGone' = arrivedGone
        /\ wastedShort' = wastedShort + AtLeastZero(n - OnBatches)
    BY DEF WriteOff, ApplyMovement
  <2>4. OnBatches' = OnBatches - Lesser(n, OnBatches)
    BY <1>1, ConsumeTotal
  <2>5. stock' - OnBatches' = Total(arrivedGone', MaxBatches) - Debts' - wastedShort'
    BY <1>1, <1>2, <2>1, <2>2, <2>3, <2>4 DEF Lesser, AtLeastZero
  <2> QED BY <2>5 DEF DriftExplained, Debts
<1> QED BY <1>2, <1>3, <1>4, <1>5

\* An undone purchase leaves with a batch nothing was drawn from.
LEMMA VoidPurchaseKeeps ==
  ASSUME IInv, TypeOK', NEW b \in Batches, VoidPurchase(b)
  PROVE  IInv'
<1> USE DEF IInv
<1>1. LineRules' /\ LinesBacked' /\ Debts' = Debts /\ \A c \in Batches : Held(c)' = Held(c)
  BY LinesFrame DEF VoidPurchase
<1>2. UnusedBatchesEmpty'
  BY DEF VoidPurchase, UnusedBatchesEmpty, TypeOK
<1>3. quantity[b] = remaining[b] /\ quantity[b] \in Nat
  BY DEF VoidPurchase, TypeOK
<1>4. Held(b) = 0 /\ writtenOff[b] = 0 /\ arrivedGone[b] = 0
  BY <1>3, EmptyBatch
<1>5. UnitsAccountedFor'
  <2> SUFFICES ASSUME NEW c \in Batches
               PROVE  quantity'[c] = remaining'[c] + Held(c)' + writtenOff'[c] + arrivedGone'[c]
    BY DEF UnitsAccountedFor, Held
  <2>1. quantity[c] = remaining[c] + Held(c) + writtenOff[c] + arrivedGone[c]
    BY DEF UnitsAccountedFor, Held
  <2>2. /\ quantity'[c] = IF c = b THEN 0 ELSE quantity[c]
        /\ remaining'[c] = IF c = b THEN 0 ELSE remaining[c]
        /\ writtenOff'[c] = writtenOff[c] /\ arrivedGone'[c] = arrivedGone[c]
    BY DEF VoidPurchase, TypeOK
  <2> QED BY <1>1, <1>4, <2>1, <2>2
<1>6. DriftExplained'
  <2>1. stock - OnBatches = Total(arrivedGone, MaxBatches) - Debts - wastedShort
    BY DEF DriftExplained, Debts
  <2>2. /\ OnBatches \in Nat /\ Total(arrivedGone, MaxBatches) \in Nat /\ Debts \in Int
        /\ stock \in Int /\ wastedShort \in Nat
    BY TotalTypes DEF TypeOK
  <2>3. stock' = stock + (-quantity[b]) /\ UNCHANGED <<arrivedGone, wastedShort>>
    BY DEF VoidPurchase, ApplyMovement
  <2>4. OnBatches' = OnBatches + (-quantity[b])
    <3>1. MaxBatches \in Nat /\ b \in 1..MaxBatches
      BY InventoryConstants DEF Batches
    <3>2. remaining \in [1..MaxBatches -> Nat] /\ quantity[b] \in Nat
      BY <1>3 DEF TypeOK, Batches
    <3>3. remaining' = [remaining EXCEPT ![b] = 0] /\ remaining[b] = quantity[b]
      BY <1>3 DEF VoidPurchase
    <3>4. \A c \in 1..MaxBatches : remaining[c] \in Int
      BY ONLY <3>2
    <3>5. \A c \in 1..MaxBatches :
            remaining'[c] = IF c = b THEN remaining[c] + (-quantity[b]) ELSE remaining[c]
      BY ONLY <3>1, <3>2, <3>3
    <3>6. -quantity[b] \in Int
      BY <1>3
    <3>7. Total(remaining', MaxBatches) = Total(remaining, MaxBatches) + (-quantity[b])
      BY ONLY <3>1, <3>4, <3>5, <3>6, TotalChangeAt
    <3> QED BY <3>7 DEF OnBatches
  <2>5. stock' - OnBatches' = Total(arrivedGone', MaxBatches) - Debts' - wastedShort'
    BY <1>1, <1>3, <2>1, <2>2, <2>3, <2>4
  <2> QED BY <2>5 DEF DriftExplained, Debts
<1> QED BY <1>1, <1>2, <1>5, <1>6

\* Ringing up a line: a product line never short, a service line perhaps.
LEMMA RingUpKeeps ==
  ASSUME IInv, TypeOK', NEW l \in Lines, NEW k \in {"PRODUCT", "SERVICE"},
         NEW n \in Qty, NEW a \in BOOLEAN, k = "PRODUCT" => ~ a, RingUp(l, k, n, a)
  PROVE  IInv'
<1> USE DEF IInv
<1>1. n \in Nat /\ ConsumeFifo(n, a) /\ kind[l] = "none"
  BY DEF RingUp, Qty
<1>2. /\ sold[l] = 0 /\ status[l] = "COMPLETED" /\ returnedQty[l] = 0
      /\ \A c \in Batches : allocated[l][c] = 0 /\ returned[l][c] = 0
  BY <1>1 DEF LineRules, TypeOK
<1>3. /\ FifoTake(n) \in [Batches -> Nat]
      /\ Total(FifoTake(n), MaxBatches) = Lesser(n, OnBatches)
  BY <1>1, FifoTakes
<1>4. /\ sold' = [sold EXCEPT ![l] = n]
      /\ allocated' = [allocated EXCEPT ![l] = FifoTake(n)]
      /\ kind' = [kind EXCEPT ![l] = k]
      /\ UNCHANGED <<origin, quantity, arrivedGone, writtenOff, wastedShort,
                     returnedQty, status, returned>>
      /\ stock' = stock + (-n)
  BY DEF RingUp, ApplyMovement
<1>5. allocated'[l] = FifoTake(n) /\ \A m \in Lines \ {l} : allocated'[m] = allocated[m]
  BY <1>4 DEF TypeOK
<1>6. LineRules'
  BY <1>1, <1>2, <1>3, <1>4, <1>5 DEF LineRules, TypeOK
<1>7. UnusedBatchesEmpty'
  BY <1>4 DEF UnusedBatchesEmpty
<1>8. UnitsAccountedFor'
  <2> SUFFICES ASSUME NEW c \in Batches
               PROVE  quantity'[c] = remaining'[c] + Held(c)' + writtenOff'[c] + arrivedGone'[c]
    BY DEF UnitsAccountedFor, Held
  <2>1. FifoTake(n)[c] \in Int
    BY <1>3
  <2>2. Holds(l, c) = 0 /\ Holds(l, c)' = FifoTake(n)[c]
    BY <1>2, <1>3, <1>4, <1>5 DEF Holds, Returnable
  <2>3. \A m \in Lines \ {l} : Holds(m, c)' = Holds(m, c)
    BY <1>4, <1>5 DEF Holds, Returnable
  <2>4. Holds(l, c)' = Holds(l, c) + FifoTake(n)[c]
    BY <2>1, <2>2
  <2>5. Held(c)' = Held(c) + FifoTake(n)[c]
    BY <2>1, <2>3, <2>4, HeldChange
  <2>6. remaining'[c] = remaining[c] - FifoTake(n)[c]
    BY <1>1 DEF ConsumeFifo
  <2>7. quantity[c] = remaining[c] + Held(c) + writtenOff[c] + arrivedGone[c]
    BY DEF UnitsAccountedFor, Held
  <2>8. /\ Held(c) \in Nat /\ remaining[c] \in Nat
        /\ writtenOff[c] \in Nat /\ arrivedGone[c] \in Nat
    BY HeldType DEF TypeOK
  <2> QED BY <1>4, <2>1, <2>5, <2>6, <2>7, <2>8
<1>9. LinesBacked'
  <2> SUFFICES ASSUME NEW m \in Lines, kind'[m] = "PRODUCT"
               PROVE  Total(Returnable(m)', MaxBatches) = sold'[m] - returnedQty'[m]
    BY DEF LinesBacked
  <2>1. CASE m # l
    <3>1. Returnable(m)' = Returnable(m) /\ kind[m] = "PRODUCT" /\ sold'[m] = sold[m]
      BY <1>4, <1>5, <2>1 DEF Returnable, TypeOK
    <3> QED BY <1>4, <3>1 DEF LinesBacked
  <2>2. CASE m = l
    <3>1. k = "PRODUCT"
      BY <1>4, <2>2 DEF TypeOK
    <3>2. n <= OnBatches
      BY <1>1, <3>1 DEF ConsumeFifo
    <3>3. MaxBatches \in Nat
      BY InventoryConstants
    <3>4. \A c \in 1..MaxBatches :
            FifoTake(n)[c] \in Int /\ Returnable(l)'[c] = FifoTake(n)[c]
      <4> SUFFICES ASSUME NEW c \in Batches
                   PROVE  FifoTake(n)[c] \in Int /\ Returnable(l)'[c] = FifoTake(n)[c]
        BY DEF Batches
      <4>1. FifoTake(n)[c] \in Nat /\ returned'[l][c] = 0
        BY <1>2, <1>3, <1>4
      <4>2. Returnable(l)'[c] = allocated'[l][c] - returned'[l][c]
        BY DEF Returnable
      <4> QED BY <1>5, <4>1, <4>2
    <3>5. Total(Returnable(l)', MaxBatches) = Total(FifoTake(n), MaxBatches)
      BY ONLY <3>3, <3>4, TotalSame
    <3>6. Lesser(n, OnBatches) = n
      BY <1>1, <3>2, TotalTypes DEF Lesser
    <3>7. sold'[l] = n /\ returnedQty'[l] = 0
      BY <1>2, <1>4 DEF TypeOK
    <3> QED BY <1>1, <1>3, <2>2, <3>5, <3>6, <3>7
  <2> QED BY <2>1, <2>2
<1>10. DriftExplained'
  <2>1. stock - OnBatches = Total(arrivedGone, MaxBatches) - Debts - wastedShort
    BY DEF DriftExplained, Debts
  <2>2. /\ OnBatches \in Nat /\ Total(arrivedGone, MaxBatches) \in Nat /\ Debts \in Int
        /\ stock \in Int /\ wastedShort \in Nat
    BY TotalTypes DEF TypeOK
  <2>3. OnBatches' = OnBatches - Lesser(n, OnBatches)
    BY <1>1, ConsumeTotal
  <2> DEFINE d == n - Lesser(n, OnBatches)
  <2>4. d \in Int
    BY <1>1, <2>2 DEF Lesser
  <2>5. Uncovered(l) = 0
    <3>1. MaxBatches \in Nat /\ \A c \in 1..MaxBatches : allocated[l][c] = 0
      BY <1>2, InventoryConstants DEF Batches
    <3>2. Total(allocated[l], MaxBatches) = 0
      BY <3>1, TotalZero
    <3> QED BY <1>2, <3>2 DEF Uncovered
  <2>6. Uncovered(l)' = d
    BY <1>2, <1>3, <1>4, <1>5 DEF Uncovered, TypeOK
  <2>7. \A m \in Lines \ {l} : Uncovered(m)' = Uncovered(m)
    BY <1>4, <1>5 DEF Uncovered, TypeOK
  <2>8. Debts' = Debts + d
    <3>1. Uncovered(l)' = Uncovered(l) + d
      BY <2>4, <2>5, <2>6
    <3> HIDE DEF d
    <3> QED BY <2>4, <2>7, <3>1, DebtsChange
  <2>9. stock' - OnBatches' = Total(arrivedGone', MaxBatches) - Debts' - wastedShort'
    BY <1>1, <1>4, <2>1, <2>2, <2>3, <2>8 DEF Lesser
  <2> QED BY <2>9 DEF DriftExplained, Debts
<1> QED BY <1>6, <1>7, <1>8, <1>9, <1>10

\* Voiding gives back everything the line drew, and forgets what it drew short.
LEMMA VoidSaleKeeps ==
  ASSUME IInv, TypeOK', NEW l \in Lines, VoidSale(l)
  PROVE  IInv'
<1> USE DEF IInv
<1>1. /\ kind[l] # "none" /\ status[l] = "COMPLETED" /\ returnedQty[l] = 0
      /\ \A c \in Batches : returned[l][c] = 0
  BY DEF VoidSale, LineRules, TypeOK, Statuses
<1>2. /\ Restore(allocated[l])
      /\ status' = [status EXCEPT ![l] = "VOIDED"]
      /\ UNCHANGED <<origin, quantity, arrivedGone, writtenOff, wastedShort,
                     kind, sold, returnedQty, allocated, returned>>
      /\ stock' = stock + sold[l]
      /\ allocated[l] \in [Batches -> Nat]
  BY DEF VoidSale, ApplyMovement, TypeOK
<1>3. LineRules' /\ LinesBacked' /\ UnusedBatchesEmpty'
  BY <1>1, <1>2 DEF LineRules, LinesBacked, Returnable, UnusedBatchesEmpty, TypeOK
<1>4. UnitsAccountedFor'
  <2> SUFFICES ASSUME NEW c \in Batches
               PROVE  quantity'[c] = remaining'[c] + Held(c)' + writtenOff'[c] + arrivedGone'[c]
    BY DEF UnitsAccountedFor, Held
  <2> DEFINE d == -allocated[l][c]
  <2>1. d \in Int /\ allocated[l][c] \in Nat
    BY <1>2
  <2>2. Holds(l, c) = allocated[l][c] /\ Holds(l, c)' = 0
    BY <1>1, <1>2, <2>1 DEF Holds, Returnable, TypeOK
  <2>3. \A m \in Lines \ {l} : Holds(m, c)' = Holds(m, c)
    BY <1>2 DEF Holds, Returnable, TypeOK
  <2>4. Held(c)' = Held(c) + d
    <3>1. Holds(l, c)' = Holds(l, c) + d
      BY <2>1, <2>2
    <3> HIDE DEF d
    <3> QED BY <2>1, <2>3, <3>1, HeldChange
  <2>5. remaining'[c] = remaining[c] + allocated[l][c]
    BY <1>2 DEF Restore
  <2>6. quantity[c] = remaining[c] + Held(c) + writtenOff[c] + arrivedGone[c]
    BY DEF UnitsAccountedFor, Held
  <2>7. /\ Held(c) \in Nat /\ remaining[c] \in Nat
        /\ writtenOff[c] \in Nat /\ arrivedGone[c] \in Nat
    BY HeldType DEF TypeOK
  <2> QED BY <1>2, <2>1, <2>4, <2>5, <2>6, <2>7
<1>5. DriftExplained'
  <2>1. stock - OnBatches = Total(arrivedGone, MaxBatches) - Debts - wastedShort
    BY DEF DriftExplained, Debts
  <2>2. /\ OnBatches \in Nat /\ Total(arrivedGone, MaxBatches) \in Nat /\ Debts \in Int
        /\ stock \in Int /\ wastedShort \in Nat /\ sold[l] \in Nat
    BY TotalTypes DEF TypeOK
  <2>3. OnBatches' = OnBatches + Total(allocated[l], MaxBatches)
    BY <1>2, RestoreTotal
  <2>4. Total(allocated[l], MaxBatches) \in Int
    BY UncoveredType
  <2> DEFINE d == -(sold[l] - Total(allocated[l], MaxBatches))
  <2>5. d \in Int
    BY <2>2, <2>4
  <2>6. Uncovered(l) = sold[l] - Total(allocated[l], MaxBatches) /\ Uncovered(l)' = 0
    BY <1>1, <1>2 DEF Uncovered, TypeOK
  <2>7. \A m \in Lines \ {l} : Uncovered(m)' = Uncovered(m)
    BY <1>2 DEF Uncovered, TypeOK
  <2>8. Debts' = Debts + d
    <3>1. Uncovered(l)' = Uncovered(l) + d
      BY <2>2, <2>4, <2>6
    <3> HIDE DEF d
    <3> QED BY <2>5, <2>7, <3>1, DebtsChange
  <2>9. stock' - OnBatches' = Total(arrivedGone', MaxBatches) - Debts' - wastedShort'
    BY <1>2, <2>1, <2>2, <2>3, <2>4, <2>8
  <2> QED BY <2>9 DEF DriftExplained, Debts
<1> QED BY <1>3, <1>4, <1>5

\* A return gives back exactly what it restocks: the line is backed for it.
LEMMA ReturnProductKeeps ==
  ASSUME IInv, TypeOK', NEW l \in Lines, NEW n \in Qty, ReturnProduct(l, n)
  PROVE  IInv'
<1> USE DEF IInv
<1>1. PICK back \in [Batches -> 0..MaxQty] :
        /\ GivesBack(l, n, back)
        /\ Restore(back)
        /\ returned' = [returned EXCEPT ![l] = [b \in Batches |-> @[b] + back[b]]]
  BY DEF ReturnProduct
<1>2. /\ kind[l] = "PRODUCT" /\ status[l] = "COMPLETED" /\ n <= sold[l] - returnedQty[l]
      /\ returnedQty' = [returnedQty EXCEPT ![l] = @ + n]
      /\ UNCHANGED <<origin, quantity, arrivedGone, writtenOff, wastedShort,
                     kind, sold, status, allocated>>
      /\ stock' = stock + n
      /\ n \in Nat /\ n > 0
  BY DEF ReturnProduct, ApplyMovement, TypeOK, Statuses, Qty
<1>3. back \in [Batches -> Int] /\ \A c \in Batches : back[c] \in Nat
  BY InventoryConstants
<1>4. \A c \in Batches : back[c] <= Returnable(l)[c]
  BY <1>1 DEF GivesBack
<1>5. Total(back, MaxBatches) = n
  <2>1. Total(Returnable(l), MaxBatches) = sold[l] - returnedQty[l]
    BY <1>2 DEF LinesBacked
  <2>2. sold[l] \in Nat /\ returnedQty[l] \in Nat
    BY DEF TypeOK
  <2> QED BY <1>1, <1>2, <2>1, <2>2 DEF GivesBack, Lesser
<1>6. /\ \A c \in Batches : returned'[l][c] = returned[l][c] + back[c]
      /\ \A m \in Lines \ {l} : returned'[m] = returned[m]
      /\ returnedQty'[l] = returnedQty[l] + n
      /\ \A m \in Lines \ {l} : returnedQty'[m] = returnedQty[m]
  BY <1>1, <1>2 DEF TypeOK
<1>7. LineRules'
  <2> SUFFICES ASSUME NEW m \in Lines
               PROVE  /\ returnedQty'[m] <= sold'[m]
                      /\ \A b \in Batches : returned'[m][b] <= allocated'[m][b]
                      /\ returnedQty'[m] = 0 => \A b \in Batches : returned'[m][b] = 0
                      /\ kind'[m] = "none" =>
                           /\ sold'[m] = 0 /\ status'[m] = "COMPLETED"
                           /\ \A b \in Batches : allocated'[m][b] = 0
    BY DEF LineRules
  <2>1. CASE m = l
    <3>1. sold[l] \in Nat /\ returnedQty[l] \in Nat
      BY DEF TypeOK
    <3>2. ASSUME NEW b \in Batches PROVE returned'[l][b] <= allocated[l][b]
      <4>1. returned[l][b] \in Nat /\ allocated[l][b] \in Nat /\ back[b] \in Nat
        BY <1>3 DEF TypeOK
      <4>2. back[b] <= allocated[l][b] - returned[l][b]
        BY <1>4 DEF Returnable
      <4> QED BY <1>6, <4>1, <4>2
    <3> QED BY <1>2, <1>6, <2>1, <3>1, <3>2
  <2>2. CASE m # l
    BY <1>2, <1>6, <2>2 DEF LineRules
  <2> QED BY <2>1, <2>2
<1>8. UnusedBatchesEmpty'
  BY <1>2 DEF UnusedBatchesEmpty
<1>9. UnitsAccountedFor'
  <2> SUFFICES ASSUME NEW c \in Batches
               PROVE  quantity'[c] = remaining'[c] + Held(c)' + writtenOff'[c] + arrivedGone'[c]
    BY DEF UnitsAccountedFor, Held
  <2> DEFINE d == -back[c]
  <2>1. d \in Int /\ back[c] \in Nat
    BY <1>3
  <2>2. Holds(l, c)' = Holds(l, c) + d
    <3>1. returned[l][c] \in Nat /\ allocated[l][c] \in Nat
      BY DEF TypeOK
    <3> QED BY <1>2, <1>6, <2>1, <3>1 DEF Holds, Returnable
  <2>3. \A m \in Lines \ {l} : Holds(m, c)' = Holds(m, c)
    BY <1>2, <1>6 DEF Holds, Returnable
  <2>4. Held(c)' = Held(c) + d
    <3> HIDE DEF d
    <3> QED BY <2>1, <2>2, <2>3, HeldChange
  <2>5. remaining'[c] = remaining[c] + back[c]
    BY <1>1 DEF Restore
  <2>6. quantity[c] = remaining[c] + Held(c) + writtenOff[c] + arrivedGone[c]
    BY DEF UnitsAccountedFor, Held
  <2>7. /\ Held(c) \in Nat /\ remaining[c] \in Nat
        /\ writtenOff[c] \in Nat /\ arrivedGone[c] \in Nat
    BY HeldType DEF TypeOK
  <2> QED BY <1>2, <2>1, <2>4, <2>5, <2>6, <2>7
<1>10. LinesBacked'
  <2> SUFFICES ASSUME NEW m \in Lines, kind'[m] = "PRODUCT"
               PROVE  Total(Returnable(m)', MaxBatches) = sold'[m] - returnedQty'[m]
    BY DEF LinesBacked
  <2>1. CASE m # l
    <3>1. Returnable(m)' = Returnable(m)
      BY <1>2, <1>6, <2>1 DEF Returnable
    <3> QED BY <1>2, <1>6, <2>1, <3>1 DEF LinesBacked
  <2>2. CASE m = l
    <3> DEFINE f == Returnable(l)
               h == Returnable(l)'
    <3>1. MaxBatches \in Nat
      BY InventoryConstants
    <3>2. \A c \in 1..MaxBatches : h[c] \in Int /\ back[c] \in Int /\ f[c] = h[c] + back[c]
      <4> SUFFICES ASSUME NEW c \in Batches
                   PROVE  h[c] \in Int /\ back[c] \in Int /\ f[c] = h[c] + back[c]
        BY DEF Batches
      <4>1. returned[l][c] \in Nat /\ allocated[l][c] \in Nat /\ back[c] \in Nat
        BY <1>3 DEF TypeOK
      <4> QED BY <1>2, <1>6, <4>1 DEF Returnable
    <3>3. Total(f, MaxBatches) = Total(h, MaxBatches) + Total(back, MaxBatches)
      <4> HIDE DEF f, h
      <4> QED BY ONLY <3>1, <3>2, TotalAdd
    <3>4. Total(h, MaxBatches) \in Int
      <4>1. \A c \in 1..MaxBatches : h[c] \in Int
        BY <3>2
      <4> HIDE DEF f, h
      <4> QED BY ONLY <3>1, <4>1, TotalType
    <3>5. Total(f, MaxBatches) = sold[l] - returnedQty[l]
      BY <1>2 DEF LinesBacked
    <3>6. sold[l] \in Nat /\ returnedQty[l] \in Nat
      BY DEF TypeOK
    <3> HIDE DEF f
    <3> QED BY <1>2, <1>5, <1>6, <2>2, <3>3, <3>4, <3>5, <3>6
  <2> QED BY <2>1, <2>2
<1>11. DriftExplained'
  <2>1. stock - OnBatches = Total(arrivedGone, MaxBatches) - Debts - wastedShort
    BY DEF DriftExplained, Debts
  <2>2. /\ OnBatches \in Nat /\ Total(arrivedGone, MaxBatches) \in Nat /\ Debts \in Int
        /\ stock \in Int /\ wastedShort \in Nat
    BY TotalTypes DEF TypeOK
  <2>3. OnBatches' = OnBatches + n
    BY <1>1, <1>3, <1>5, RestoreTotal
  <2>4. Debts' = Debts
    BY <1>2 DEF Debts, Uncovered
  <2>5. stock' - OnBatches' = Total(arrivedGone', MaxBatches) - Debts' - wastedShort'
    BY <1>2, <2>1, <2>2, <2>3, <2>4
  <2> QED BY <2>5 DEF DriftExplained, Debts
<1> QED BY <1>7, <1>8, <1>9, <1>10, <1>11

\* A returned service line moves no stock.
LEMMA ReturnServiceKeeps ==
  ASSUME IInv, TypeOK', NEW l \in Lines, NEW n \in Qty, ReturnService(l, n)
  PROVE  IInv'
<1> USE DEF IInv
<1>1. /\ kind[l] = "SERVICE" /\ n <= sold[l] - returnedQty[l]
      /\ returnedQty' = [returnedQty EXCEPT ![l] = @ + n]
      /\ UNCHANGED <<shelf, batchVars, kind, sold, status, allocated, returned>>
      /\ sold[l] \in Nat /\ returnedQty[l] \in Nat /\ n \in Nat /\ n > 0
  BY DEF ReturnService, TypeOK, Qty
<1>2. LineRules'
  BY <1>1 DEF LineRules, TypeOK
<1>3. LinesBacked'
  BY <1>1 DEF LinesBacked, Returnable, TypeOK
<1>4. UnusedBatchesEmpty' /\ UnitsAccountedFor' /\ DriftExplained'
  BY <1>1 DEF UnusedBatchesEmpty, UnitsAccountedFor, DriftExplained, Holds, Uncovered,
              Returnable, OnBatches, shelf, batchVars
<1> QED BY <1>2, <1>3, <1>4

-----------------------------------------------------------------------------
\* Every operation keeps the inductive invariant.
LEMMA InvariantStep ==
  IInv /\ [Next]_vars => IInv'
<1> SUFFICES ASSUME IInv, [Next]_vars PROVE IInv'
  OBVIOUS
<1>0. TypeOK'
  BY TypeOKStep DEF IInv
<1>1. ASSUME NEW b \in Batches, NEW n \in Qty, CreatePurchase(b, n) PROVE IInv'
  <2>1. OwedFrom(n) \in 0..n
    BY OwedTypes DEF IInv
  <2> QED BY <1>0, <1>1, <2>1, GoodsInKeeps DEF CreatePurchase, Origins
<1>2. ASSUME NEW b \in Batches, NEW n \in Qty,
             AdjustUp(b, n) \/ RecordOpeningStock(b, n)
      PROVE  IInv'
  <2>1. 0 \in 0..n
    BY DEF Qty
  <2> QED BY <1>0, <1>2, <2>1, GoodsInKeeps DEF AdjustUp, RecordOpeningStock, Origins
<1>3. ASSUME NEW n \in Qty, AdjustDown(n) \/ RecordWastage(n) PROVE IInv'
  BY <1>0, <1>3, WriteOffKeeps DEF AdjustDown, RecordWastage
<1>4. ASSUME NEW b \in Batches, VoidPurchase(b) PROVE IInv'
  BY <1>0, <1>4, VoidPurchaseKeeps
<1>5. ASSUME NEW l \in Lines, NEW n \in Qty, SellProduct(l, n) \/ SellService(l, n)
      PROVE  IInv'
  BY <1>0, <1>5, RingUpKeeps DEF SellProduct, SellService
<1>6. ASSUME NEW l \in Lines, VoidSale(l) PROVE IInv'
  BY <1>0, <1>6, VoidSaleKeeps
<1>7. ASSUME NEW l \in Lines, NEW n \in Qty, ReturnProduct(l, n) \/ ReturnService(l, n)
      PROVE  IInv'
  BY <1>0, <1>7, ReturnProductKeeps, ReturnServiceKeeps
<1>8. CASE UNCHANGED vars
  BY <1>0, <1>8 DEF IInv, vars, shelf, batchVars, lineVars, LineRules, LinesBacked,
    UnusedBatchesEmpty, UnitsAccountedFor, DriftExplained, Holds, Uncovered, Returnable,
    OnBatches
<1> QED
  BY <1>1, <1>2, <1>3, <1>4, <1>5, <1>6, <1>7, <1>8 DEF Next, GoodsIn, GoodsOut, Trade

\* The shop starts with empty shelves.
LEMMA InvariantInit ==
  Init => IInv
<1> SUFFICES ASSUME Init PROVE IInv
  OBVIOUS
<1>1. TypeOK
  BY InventoryConstants DEF Init, TypeOK, NoUnits, Origins, Kinds, Statuses
<1>2. LineRules /\ UnusedBatchesEmpty /\ LinesBacked
  BY DEF Init, NoUnits, LineRules, UnusedBatchesEmpty, LinesBacked
<1>3. MaxBatches \in Nat /\ MaxLines \in Nat
  BY InventoryConstants
<1>4. UnitsAccountedFor
  <2> SUFFICES ASSUME NEW b \in Batches
               PROVE  quantity[b] = remaining[b] + Held(b) + writtenOff[b] + arrivedGone[b]
    BY DEF UnitsAccountedFor, Held
  <2>1. \A l \in 1..MaxLines : [m \in Lines |-> Holds(m, b)][l] = 0
    BY DEF Init, NoUnits, Holds, Returnable, Lines
  <2>2. Held(b) = 0
    BY <1>3, <2>1, TotalZero DEF Held
  <2> QED BY <2>2 DEF Init, NoUnits
<1>5. DriftExplained
  <2>1. /\ \A b \in 1..MaxBatches : remaining[b] = 0 /\ arrivedGone[b] = 0
        /\ \A l \in Lines : \A b \in 1..MaxBatches : allocated[l][b] = 0
    BY DEF Init, NoUnits, Batches
  <2>2. OnBatches = 0 /\ Total(arrivedGone, MaxBatches) = 0
    BY <1>3, <2>1, TotalZero DEF OnBatches
  <2>3. \A l \in Lines : Total(allocated[l], MaxBatches) = 0
    BY <1>3, <2>1, TotalZero
  <2>4. \A l \in 1..MaxLines : [m \in Lines |-> Uncovered(m)][l] = 0
    BY <2>3 DEF Init, Uncovered, Lines
  <2>5. Total([l \in Lines |-> Uncovered(l)], MaxLines) = 0
    BY <1>3, <2>4, TotalZero
  <2> QED BY <2>2, <2>5 DEF Init, DriftExplained
<1> QED BY <1>1, <1>2, <1>4, <1>5 DEF IInv

\* The inductive invariant holds throughout.
LEMMA Inductive == Spec => []IInv
BY InvariantInit, InvariantStep, PTL DEF Spec

\* Voids and returns give back exactly what a sale drew: at any time every unit a
\* batch ever held is on the shelf, held by one standing line, written off, or
\* was owed on arrival.
THEOREM UnitsStayAccountedFor == Spec => []UnitsAccountedFor
<1>1. IInv => UnitsAccountedFor
  BY DEF IInv
<1> QED BY <1>1, Inductive, PTL

\* Whatever the customer has kept of a product line is backed by batch units, so
\* returnSale always restocks the full quantity and reverses its cost.
THEOREM LinesStayBacked == Spec => []LinesBacked
<1>1. IInv => LinesBacked
  BY DEF IInv
<1> QED BY <1>1, Inductive, PTL

\* Shelf count and batches differ by exactly the units sold or wasted with no
\* batch to draw from, less those that later deliveries arrived short of.
THEOREM DriftStaysExplained == Spec => []DriftExplained
<1>1. IInv => DriftExplained
  BY DEF IInv
<1> QED BY <1>1, Inductive, PTL

\* No step of the system draws on a batch while an older one still holds units.
LEMMA DrawsInOrder ==
  ASSUME TypeOK, NEW n \in Nat, NEW a \in BOOLEAN, ConsumeFifo(n, a),
         NEW b \in Batches, remaining'[b] < remaining[b], NEW c \in 1..(b - 1)
  PROVE  remaining'[c] = 0
<1>1. /\ FifoTake(n) \in [Batches -> Nat]
      /\ FifoTake(n)[b] > 0 => \A d \in 1..(b - 1) : FifoTake(n)[d] = remaining[d]
  BY FifoTakes
<1>2. c \in Batches
  BY InventoryConstants DEF Batches
<1>3. /\ remaining'[b] = remaining[b] - FifoTake(n)[b]
      /\ remaining'[c] = remaining[c] - FifoTake(n)[c]
  BY <1>2 DEF ConsumeFifo
<1>4. remaining[b] \in Nat /\ remaining[c] \in Nat /\ FifoTake(n)[b] \in Nat
  BY <1>1, <1>2 DEF TypeOK
<1>5. FifoTake(n)[b] > 0
  BY <1>3, <1>4
<1> QED BY <1>1, <1>3, <1>4, <1>5

\* Stock coming in or given back never lowers what a batch holds.
LEMMA AddBatchRaises ==
  ASSUME IInv, NEW x \in Batches, NEW n \in Qty, NEW gone \in 0..n,
         NEW from \in Origins, AddBatch(x, n, gone, from), NEW b \in Batches
  PROVE  ~ (remaining'[b] < remaining[b])
<1>1. quantity[x] = 0 /\ quantity[x] \in Nat /\ remaining[x] \in Nat
  BY DEF AddBatch, UnusedBatchesEmpty, IInv, TypeOK
<1>2. Held(x) \in Nat /\ writtenOff[x] \in Nat /\ arrivedGone[x] \in Nat
  BY HeldType DEF IInv, TypeOK
<1>3. quantity[x] = remaining[x] + Held(x) + writtenOff[x] + arrivedGone[x]
  BY DEF IInv, UnitsAccountedFor, Held
<1>4. remaining[x] = 0
  BY <1>1, <1>2, <1>3
<1>5. remaining'[x] = n - gone /\ (b # x => remaining'[b] = remaining[b])
  BY DEF AddBatch, IInv, TypeOK
<1>6. n - gone >= 0 /\ n - gone \in Int /\ remaining[b] \in Nat
  BY DEF Qty, IInv, TypeOK
<1> QED BY <1>4, <1>5, <1>6

\* Giving units back lowers no batch.
LEMMA RestoreRaises ==
  ASSUME TypeOK, NEW units \in [Batches -> Nat], Restore(units), NEW b \in Batches
  PROVE  ~ (remaining'[b] < remaining[b])
<1>1. remaining[b] \in Nat /\ units[b] \in Nat /\ remaining'[b] = remaining[b] + units[b]
  BY DEF TypeOK, Restore
<1> QED BY <1>1

\* Sales, wastage and write-offs never draw on a batch while an older one still
\* holds units, wherever backdated purchases, voids and returns put units back.
THEOREM ConsumptionIsFifo == Spec => FirstInFirstOut
<1> DEFINE Fifo == \A b \in Batches :
                     (remaining'[b] < remaining[b] /\ origin'[b] # "removed")
                       => \A c \in 1..(b - 1) : remaining'[c] = 0
<1>1. IInv /\ [Next]_vars => [Fifo]_vars
  <2> SUFFICES ASSUME IInv, Next, NEW b \in Batches, remaining'[b] < remaining[b],
                      origin'[b] # "removed", NEW c \in 1..(b - 1)
               PROVE  remaining'[c] = 0
    OBVIOUS
  <2>0. TypeOK
    BY DEF IInv
  <2>1. ASSUME NEW x \in Batches, NEW n \in Qty,
               CreatePurchase(x, n) \/ AdjustUp(x, n) \/ RecordOpeningStock(x, n)
        PROVE  FALSE
    <3>1. OwedFrom(n) \in 0..n /\ 0 \in 0..n
      BY <2>0, OwedTypes DEF Qty
    <3> QED
      BY <2>1, <3>1, AddBatchRaises
      DEF CreatePurchase, AdjustUp, RecordOpeningStock, Origins
  <2>2. ASSUME NEW n \in Qty, NEW a \in BOOLEAN, ConsumeFifo(n, a)
        PROVE  remaining'[c] = 0
    BY <2>0, <2>2, DrawsInOrder DEF Qty
  <2>3. ASSUME NEW x \in Batches, VoidPurchase(x) PROVE FALSE
    BY <2>0, <2>3 DEF VoidPurchase, TypeOK
  <2>4. ASSUME NEW l \in Lines, VoidSale(l) PROVE FALSE
    <3>1. allocated[l] \in [Batches -> Nat] /\ Restore(allocated[l])
      BY <2>0, <2>4 DEF VoidSale, TypeOK
    <3> QED BY <2>0, <3>1, RestoreRaises
  <2>5. ASSUME NEW l \in Lines, NEW n \in Qty, ReturnProduct(l, n) PROVE FALSE
    <3>1. PICK back \in [Batches -> 0..MaxQty] : Restore(back)
      BY <2>5 DEF ReturnProduct
    <3>2. back \in [Batches -> Nat]
      BY InventoryConstants
    <3> QED BY <2>0, <3>1, <3>2, RestoreRaises
  <2>6. ASSUME NEW l \in Lines, NEW n \in Qty, ReturnService(l, n) PROVE FALSE
    BY <2>0, <2>6 DEF ReturnService, batchVars, TypeOK
  <2> QED
    BY <2>1, <2>2, <2>3, <2>4, <2>5, <2>6
    DEF Next, GoodsIn, GoodsOut, Trade, AdjustDown, RecordWastage, WriteOff,
        SellProduct, SellService, RingUp
<1>2. Spec => [][Fifo]_vars
  BY <1>1, Inductive, PTL DEF Spec
<1> QED BY <1>2 DEF FirstInFirstOut

-----------------------------------------------------------------------------
(* The books over the engine: what is written in them, and typing.           *)

\* Every entry in the books is one operation of the engine, or leaves it alone.
LEMMA EntryIsEngineStep ==
  [BooksNext]_bookVars => [Next]_vars
<1> SUFFICES ASSUME [BooksNext]_bookVars PROVE [Next]_vars
  OBVIOUS
<1>1. CASE UNCHANGED bookVars
  BY <1>1 DEF bookVars
<1>2. ASSUME NEW b \in Batches, NEW n \in Qty,
             BookPurchase(b, n) \/ BookAdjustUp(b, n) \/ BookOpeningStock(b, n)
      PROVE  Next
  BY <1>2 DEF BookPurchase, BookAdjustUp, BookOpeningStock, Next, GoodsIn
<1>3. ASSUME NEW b \in Batches, BookPurchaseVoid(b) PROVE Next
  BY <1>3 DEF BookPurchaseVoid, Next, GoodsOut
<1>4. ASSUME NEW n \in Qty, BookAdjustDown(n) \/ BookWastage(n) PROVE Next
  BY <1>4 DEF BookAdjustDown, BookWastage, Next, GoodsOut
<1>5. ASSUME NEW l \in Lines, NEW n \in Qty,
             BookReturn(l, n) \/ \E d \in Discounts : BookSale(l, n, d)
      PROVE  Next
  BY <1>5 DEF BookReturn, BookSale, Next, Trade
<1>6. ASSUME NEW l \in Lines, BookSaleVoid(l) PROVE Next
  BY <1>6 DEF BookSaleVoid, Next, Trade
<1>7. ASSUME NEW date \in Moments, BookExpense(date) PROVE UNCHANGED vars
  BY <1>7 DEF BookExpense
<1> QED
  BY <1>1, <1>2, <1>3, <1>4, <1>5, <1>6, <1>7 DEF BooksNext

\* The books never make the engine do anything of its own: what holds of the
\* engine holds under the books.
THEOREM BooksRunTheEngine == BooksSpec => Spec
<1>1. BooksInit => Init
  BY DEF BooksInit
<1> QED BY <1>1, EntryIsEngineStep, PTL DEF BooksSpec, Spec

\* Rounding a quotient of amounts gives an amount.
LEMMA QuotientType ==
  ASSUME NEW a \in Nat, NEW b \in Nat \ {0}
  PROVE  RoundedQuotient(a, b) \in Nat
<1>1. 2 * a + b \in Nat /\ 2 * b \in Nat \ {0}
  OBVIOUS
<1>2. \A x \in Nat : \A y \in Nat \ {0} : x \div y \in Nat
  OBVIOUS
<1> QED BY <1>1, <1>2 DEF RoundedQuotient

\* A piece of any batch has a cost.
LEMMA PieceCostType == pieceCost \in [Batches -> Nat]
BY ReportsConstants, QuotientType DEF pieceCost, Batches

\* Units have a cost, and no cost is negative if no count is.
LEMMA CostType ==
  ASSUME NEW units
  PROVE  /\ (\A b \in Batches : units[b] \in Int) => CostOf(units) \in Int
         /\ (\A b \in Batches : units[b] \in Nat) => CostOf(units) \in Nat
<1> DEFINE c == [b \in Batches |-> units[b] * pieceCost[b]]
<1>1. MaxBatches \in Nat
  BY InventoryConstants
<1>2. \A b \in Batches : c[b] = units[b] * pieceCost[b] /\ pieceCost[b] \in Nat
  BY PieceCostType
<1>3. CostOf(units) = Total(c, MaxBatches)
  BY DEF CostOf
<1> HIDE DEF c
<1>4. ASSUME \A b \in Batches : units[b] \in Int PROVE CostOf(units) \in Int
  <2>1. \A b \in 1..MaxBatches : c[b] \in Int
    BY <1>2, <1>4 DEF Batches
  <2> QED BY <1>1, <1>3, <2>1, TotalType
<1>5. ASSUME \A b \in Batches : units[b] \in Nat PROVE CostOf(units) \in Nat
  <2>1. \A b \in 1..MaxBatches : c[b] \in Nat
    <3> SUFFICES ASSUME NEW b \in Batches PROVE c[b] \in Nat
      BY DEF Batches
    <3>1. \A x, y \in Nat : x * y \in Nat
      OBVIOUS
    <3> QED BY <1>2, <1>5, <3>1
  <2> QED BY <1>1, <1>3, <2>1, TotalNat
<1> QED BY <1>4, <1>5

\* A write-off costs what it takes from the batches.
LEMMA TakeCost ==
  ASSUME TypeOK, NEW n \in Qty
  PROVE  CostOf(FifoTake(n)) \in Nat
<1>1. FifoTake(n) \in [Batches -> Nat]
  BY FifoTakes DEF Qty
<1> QED BY <1>1, CostType

\* The moment of an entry is a moment.
LEMMA EntryTypes ==
  ASSUME BooksTypeOK, Entry
  PROVE  now' \in Moments /\ entries' \in 0..MaxEntries
BY ReportsConstants DEF BooksTypeOK, Entry

\* A purchase, a sale, a return: dates stay dates and amounts amounts.
LEMMA DateTypes ==
  ASSUME BooksTypeOK, Entry, NEW b \in Batches, NEW date \in 1..now', DateBatch(b, date)
  PROVE  bought' \in [Batches -> 0..MaxTime]
<1>1. now' \in 1..MaxTime
  BY EntryTypes DEF Moments
<1>2. date \in 0..MaxTime
  BY <1>1, ReportsConstants
<1> QED BY <1>2 DEF BooksTypeOK, DateBatch

\* What a return puts back on each batch.
Back(l) == [b \in Batches |-> returned'[l][b] - returned[l][b]]

\* It is never negative, no other line is touched, and a service puts nothing back.
LEMMA BackTypes ==
  ASSUME TypeOK, NEW l \in Lines, NEW n \in Qty, ReturnProduct(l, n) \/ ReturnService(l, n)
  PROVE  /\ Back(l) \in [Batches -> Nat]
         /\ \A b \in Batches : returned'[l][b] = returned[l][b] + Back(l)[b]
         /\ \A m \in Lines \ {l} : returned'[m] = returned[m]
         /\ kind[l] = "SERVICE" => \A b \in Batches : Back(l)[b] = 0
         /\ kind[l] # "none" /\ status[l] # "VOIDED"
         /\ sold[l] \in Nat \ {0} /\ returnedQty'[l] > 0
         /\ \A m \in Lines \ {l} : returnedQty'[m] = returnedQty[m]
         /\ UNCHANGED <<kind, status, allocated, writtenOff, origin, quantity, sold>>
<1> USE DEF TypeOK
<1>1. n \in Nat /\ n > 0
  BY DEF Qty
<1>2. sold[l] \in Nat /\ returnedQty[l] \in Nat
  OBVIOUS
<1>3. CASE ReturnProduct(l, n)
  <2>1. PICK back \in [Batches -> 0..MaxQty] :
          returned' = [returned EXCEPT ![l] = [b \in Batches |-> @[b] + back[b]]]
    BY <1>3 DEF ReturnProduct
  <2>2. \A b \in Batches : returned[l][b] \in Nat /\ back[b] \in Nat
    BY InventoryConstants
  <2>3. \A b \in Batches : returned'[l][b] = returned[l][b] + back[b]
    BY <2>1
  <2>4. \A b \in Batches : Back(l)[b] = back[b]
    BY <2>2, <2>3 DEF Back
  <2>5. Back(l) \in [Batches -> Nat]
    BY <2>2, <2>4 DEF Back
  <2>6. /\ kind[l] = "PRODUCT" /\ status[l] # "VOIDED" /\ n <= sold[l] - returnedQty[l]
        /\ returnedQty' = [returnedQty EXCEPT ![l] = @ + n]
        /\ UNCHANGED <<kind, status, allocated, writtenOff, origin, quantity, sold>>
    BY <1>3 DEF ReturnProduct
  <2> QED BY <1>1, <1>2, <2>1, <2>3, <2>4, <2>5, <2>6
<1>4. CASE ReturnService(l, n)
  <2>1. /\ kind[l] = "SERVICE" /\ status[l] # "VOIDED" /\ n <= sold[l] - returnedQty[l]
        /\ returnedQty' = [returnedQty EXCEPT ![l] = @ + n]
        /\ UNCHANGED <<kind, status, allocated, writtenOff, origin, quantity, sold, returned>>
    BY <1>4 DEF ReturnService, batchVars
  <2>2. \A b \in Batches : returned[l][b] \in Nat /\ Back(l)[b] = 0
    BY <2>1 DEF Back
  <2>3. Back(l) \in [Batches -> Nat]
    BY <2>2 DEF Back
  <2> QED BY <1>1, <1>2, <2>1, <2>2, <2>3
<1> QED BY <1>3, <1>4

\* A sale's amounts: half the discounts are on the line and half on the whole.
LEMMA SaleTypes ==
  ASSUME BooksTypeOK, NEW l \in Lines, NEW n \in Qty, NEW d \in Discounts,
         BookSale(l, n, d)
  PROVE  /\ soldAt' \in [Lines -> 0..MaxTime]
         /\ lineTotal' \in [Lines -> Nat] /\ total' \in [Lines -> Nat]
         /\ totalCogs' \in [Lines -> Nat]
<1>1. now' \in 0..MaxTime
  BY EntryTypes, ReportsConstants DEF BookSale, Moments
<1>2. CostOf(FifoTake(n)) \in Nat
  BY TakeCost DEF BooksTypeOK
<1>3. n \in Nat /\ d \in Nat /\ Price \in Nat
  BY ReportsConstants DEF Qty
<1>4. Price * n \in Nat
  BY <1>3
<1>5. 2 * d <= Price * n
  BY DEF BookSale
<1> DEFINE worth == Price * n
<1>6. worth - d \in Nat /\ worth - 2 * d \in Nat
  <2> HIDE DEF worth
  <2>1. worth \in Nat /\ 2 * d <= worth
    BY <1>4, <1>5 DEF worth
  <2> QED BY <1>3, <2>1
<1>7. /\ soldAt' = [soldAt EXCEPT ![l] = now']
      /\ lineTotal' = [lineTotal EXCEPT ![l] = worth - d]
      /\ total' = [total EXCEPT ![l] = worth - 2 * d]
      /\ totalCogs' = [totalCogs EXCEPT ![l] = CostOf(FifoTake(n))]
  BY DEF BookSale
<1> HIDE DEF worth
<1> QED BY <1>1, <1>2, <1>6, <1>7 DEF BooksTypeOK

\* The row a return leaves.
ReturnRow(l, n) ==
  [at |-> now', line |-> l, refund |-> refundAmount(l, n), cogs |-> CostOf(Back(l))]

\* It is a row of the table, written at the end.
LEMMA ReturnTypes ==
  ASSUME BooksTypeOK, NEW l \in Lines, NEW n \in Qty, BookReturn(l, n)
  PROVE  /\ refunds' = Append(refunds, ReturnRow(l, n))
         /\ ReturnRow(l, n) \in RefundRows
         /\ refunds' \in Seq(RefundRows)
<1>1. TypeOK /\ (ReturnProduct(l, n) \/ ReturnService(l, n)) /\ Entry
  BY DEF BooksTypeOK, BookReturn
<1>2. Back(l) \in [Batches -> Nat] /\ sold[l] \in Nat \ {0}
  BY <1>1, BackTypes
<1>3. CostOf(Back(l)) \in Nat
  BY <1>2, CostType
<1>4. lineTotal[l] \in Nat /\ n \in Nat
  BY DEF BooksTypeOK, Qty
<1>5. lineTotal[l] * n \in Nat
  BY <1>4
<1>6. refundAmount(l, n) \in Nat
  BY <1>2, <1>5, QuotientType DEF refundAmount
<1>7. refunds' = Append(refunds, ReturnRow(l, n))
  BY DEF BookReturn, ReturnRow, Back, cogsReversed
<1>8. ReturnRow(l, n) \in RefundRows
  BY <1>1, <1>3, <1>6, EntryTypes DEF ReturnRow, RefundRows
<1> QED BY <1>7, <1>8, AppendProperties DEF BooksTypeOK

\* A row of the adjustments, likewise.
LEMMA AdjustmentTypes ==
  ASSUME BooksTypeOK, Entry, NEW change \in Int \ {0}, NEW cost \in Int,
         NEW reason \in {"COUNT_CORRECTION", "OPENING_STOCK", "JAM"},
         Adjustment(change, cost, reason)
  PROVE  adjustments' \in Seq(AdjustmentRows)
<1> DEFINE row == [at |-> now', change |-> change, costImpact |-> cost, reasonCode |-> reason]
<1>1. row \in AdjustmentRows
  BY EntryTypes DEF AdjustmentRows
<1>2. adjustments' = Append(adjustments, row)
  BY DEF Adjustment
<1> HIDE DEF row
<1> QED BY <1>1, <1>2, AppendProperties DEF BooksTypeOK

\* The types of the books and of the engine under them.
LEMMA BooksTypeStep ==
  BooksTypeOK /\ [BooksNext]_bookVars => BooksTypeOK'
<1> SUFFICES ASSUME BooksTypeOK, [BooksNext]_bookVars PROVE BooksTypeOK'
  OBVIOUS
<1>0. TypeOK /\ TypeOK'
  BY EntryIsEngineStep, TypeOKStep DEF BooksTypeOK
<1>1. ASSUME NEW b \in Batches, NEW n \in Qty, BookPurchase(b, n) PROVE BooksTypeOK'
  <2>1. Entry /\ \E date \in 1..now' : DateBatch(b, date)
    BY <1>1 DEF BookPurchase
  <2>2. bought' \in [Batches -> 0..MaxTime]
    BY <2>1, DateTypes
  <2> QED BY <1>0, <1>1, <2>1, <2>2, EntryTypes DEF BookPurchase, BooksTypeOK, takings, rows
<1>2. ASSUME NEW b \in Batches, NEW n \in Qty, BookAdjustUp(b, n) \/ BookOpeningStock(b, n)
      PROVE  BooksTypeOK'
  <2>1. Entry /\ now' \in Moments
    BY <1>2, EntryTypes DEF BookAdjustUp, BookOpeningStock
  <2>2. \E date \in 1..now' : DateBatch(b, date)
    BY <1>2, <2>1 DEF BookAdjustUp, BookOpeningStock, Moments
  <2>3. bought' \in [Batches -> 0..MaxTime]
    BY <2>1, <2>2, DateTypes
  <2>4. n \in Int \ {0} /\ n * pieceCost[b] \in Int
    <3>1. n \in Int \ {0} /\ pieceCost[b] \in Int
      BY PieceCostType DEF Qty
    <3> QED BY <3>1
  <2>5. \E reason \in {"COUNT_CORRECTION", "OPENING_STOCK"} :
          Adjustment(n, n * pieceCost[b], reason)
    BY <1>2 DEF BookAdjustUp, BookOpeningStock
  <2>6. adjustments' \in Seq(AdjustmentRows)
    BY <2>1, <2>4, <2>5, AdjustmentTypes
  <2>7. UNCHANGED <<soldAt, takings, refunds, expenses>>
    BY <1>2 DEF BookAdjustUp, BookOpeningStock
  <2> QED BY <1>0, <2>1, <2>3, <2>6, <2>7, EntryTypes DEF BooksTypeOK, takings
<1>3. ASSUME NEW b \in Batches, BookPurchaseVoid(b) PROVE BooksTypeOK'
  BY <1>0, <1>3, EntryTypes DEF BookPurchaseVoid, BooksTypeOK, takings, rows
<1>4. ASSUME NEW n \in Qty, BookAdjustDown(n) \/ BookWastage(n) PROVE BooksTypeOK'
  <2>1. Entry /\ UNCHANGED <<bought, soldAt, takings, refunds, expenses>>
    BY <1>4 DEF BookAdjustDown, BookWastage
  <2>2. -n \in Int \ {0} /\ -CostOf(FifoTake(n)) \in Int
    <3>1. n \in Int \ {0} /\ CostOf(FifoTake(n)) \in Int
      BY <1>0, TakeCost DEF Qty
    <3> QED BY <3>1
  <2>3. \E reason \in {"COUNT_CORRECTION", "JAM"} :
          Adjustment(-n, -CostOf(FifoTake(n)), reason)
    BY <1>4 DEF BookAdjustDown, BookWastage
  <2>4. adjustments' \in Seq(AdjustmentRows)
    BY <2>1, <2>2, <2>3, AdjustmentTypes
  <2> QED BY <1>0, <2>1, <2>4, EntryTypes DEF BooksTypeOK, takings
<1>5. ASSUME NEW l \in Lines, NEW n \in Qty, NEW d \in Discounts, BookSale(l, n, d)
      PROVE  BooksTypeOK'
  <2>1. Entry /\ UNCHANGED <<bought, rows>>
    BY <1>5 DEF BookSale
  <2>2. /\ soldAt' \in [Lines -> 0..MaxTime]
        /\ lineTotal' \in [Lines -> Nat] /\ total' \in [Lines -> Nat]
        /\ totalCogs' \in [Lines -> Nat]
    BY <1>5, SaleTypes
  <2> QED BY <1>0, <2>1, <2>2, EntryTypes DEF BooksTypeOK, rows
<1>6. ASSUME NEW l \in Lines, NEW n \in Qty, BookReturn(l, n) PROVE BooksTypeOK'
  <2>1. Entry /\ UNCHANGED <<bought, soldAt, takings, adjustments, expenses>>
    BY <1>6 DEF BookReturn
  <2>2. refunds' \in Seq(RefundRows)
    BY <1>6, ReturnTypes
  <2> QED BY <1>0, <2>1, <2>2, EntryTypes DEF BooksTypeOK, takings
<1>7. ASSUME NEW l \in Lines, BookSaleVoid(l) PROVE BooksTypeOK'
  BY <1>0, <1>7, EntryTypes DEF BookSaleVoid, BooksTypeOK, takings, rows
<1>8. ASSUME NEW date \in Moments, BookExpense(date) PROVE BooksTypeOK'
  <2> DEFINE row == [expenseDate |-> date, amount |-> 1]
  <2>1. row \in ExpenseRows
    BY DEF ExpenseRows
  <2>2. /\ Entry /\ expenses' = Append(expenses, row)
        /\ UNCHANGED <<bought, soldAt, takings, refunds, adjustments>>
    BY <1>8 DEF BookExpense
  <2> HIDE DEF row
  <2>3. expenses' \in Seq(ExpenseRows)
    BY <2>1, <2>2, AppendProperties DEF BooksTypeOK
  <2> QED BY <1>0, <2>2, <2>3, EntryTypes DEF BooksTypeOK, takings
<1>9. CASE UNCHANGED bookVars
  BY <1>0, <1>9 DEF bookVars, dates, takings, rows, BooksTypeOK
<1> QED
  BY <1>1, <1>2, <1>3, <1>4, <1>5, <1>6, <1>7, <1>8, <1>9 DEF BooksNext

\* Amounts, dates and rows are what the tables say, and costs never negative.
THEOREM BooksTypeCorrect == BooksSpec => []BooksTypeOK
<1>1. BooksInit => BooksTypeOK
  <2> SUFFICES ASSUME BooksInit PROVE BooksTypeOK
    OBVIOUS
  <2>1. TypeOK
    BY InvariantInit DEF BooksInit, IInv
  <2>2. \A S : <<>> \in Seq(S)
    OBVIOUS
  <2> QED BY <2>1, <2>2, ReportsConstants DEF BooksInit, BooksTypeOK, Moments
<1> QED BY <1>1, BooksTypeStep, PTL DEF BooksSpec

-----------------------------------------------------------------------------
(* What the columns hold. *)

\* Every column is one of numbers, and every row has its date.
LEMMA ColumnTypes ==
  ASSUME BooksTypeOK
  PROVE  /\ Len(refunds) \in Nat /\ DOMAIN refunds = 1..Len(refunds)
         /\ Len(adjustments) \in Nat /\ DOMAIN adjustments = 1..Len(adjustments)
         /\ Len(expenses) \in Nat /\ DOMAIN expenses = 1..Len(expenses)
         /\ \A i \in 1..Len(refunds) :
              /\ refunds[i] \in RefundRows
              /\ Refund[i] = refunds[i].refund /\ Refund[i] \in Nat
              /\ Reversed[i] = refunds[i].cogs /\ Reversed[i] \in Nat
         /\ \A i \in 1..Len(adjustments) :
              /\ adjustments[i] \in AdjustmentRows
              /\ Impact[i] = adjustments[i].costImpact /\ Impact[i] \in Int
         /\ \A i \in 1..Len(expenses) :
              /\ expenses[i] \in ExpenseRows
              /\ Amount[i] = expenses[i].amount /\ Amount[i] \in Nat
<1>1. /\ Len(refunds) \in Nat /\ DOMAIN refunds = 1..Len(refunds)
      /\ \A i \in 1..Len(refunds) : refunds[i] \in RefundRows
  BY DEF BooksTypeOK
<1>2. /\ Len(adjustments) \in Nat /\ DOMAIN adjustments = 1..Len(adjustments)
      /\ \A i \in 1..Len(adjustments) : adjustments[i] \in AdjustmentRows
  BY DEF BooksTypeOK
<1>3. /\ Len(expenses) \in Nat /\ DOMAIN expenses = 1..Len(expenses)
      /\ \A i \in 1..Len(expenses) : expenses[i] \in ExpenseRows
  BY DEF BooksTypeOK
<1>4. ASSUME NEW i \in 1..Len(refunds)
      PROVE  /\ Refund[i] = refunds[i].refund /\ Refund[i] \in Nat
             /\ Reversed[i] = refunds[i].cogs /\ Reversed[i] \in Nat
  BY <1>1 DEF Refund, Reversed, RefundRows
<1>5. ASSUME NEW i \in 1..Len(adjustments)
      PROVE  Impact[i] = adjustments[i].costImpact /\ Impact[i] \in Int
  BY <1>2 DEF Impact, AdjustmentRows
<1>6. ASSUME NEW i \in 1..Len(expenses)
      PROVE  Amount[i] = expenses[i].amount /\ Amount[i] \in Nat
  BY <1>3 DEF Amount, ExpenseRows
<1> QED BY <1>1, <1>2, <1>3, <1>4, <1>5, <1>6

-----------------------------------------------------------------------------
(* The loss on stock, added up in four ways. *)

\* The statement adds up every trading adjustment, the summary what was written
\* off and what was written on; no adjustment is of nothing, so they agree.
LEMMA LossIsTrading ==
  ASSUME BooksTypeOK, NEW r
  PROVE  /\ stockWrittenOff(r) - stockWrittenOn(r) = -OverAdjustments(Trading(r))
         /\ OverAdjustments(Trading(r)) \in Int
         /\ stockWrittenOff(r) \in Int /\ stockWrittenOn(r) \in Int
<1> DEFINE n == Len(adjustments)
<1>1. n \in Nat /\ DOMAIN adjustments = 1..n
  BY ColumnTypes
<1>2. \A i \in 1..n : Impact[i] \in Int /\ adjustments[i] \in AdjustmentRows
  BY ColumnTypes
<1>3. \A i \in 1..n : i \in Trading(r) <=> (i \in WriteOffs(r) \/ i \in WriteOns(r))
  BY <1>1, <1>2 DEF WriteOffs, WriteOns, Trading, AdjustmentRows
<1>4. \A i \in 1..n : ~ (i \in WriteOffs(r) /\ i \in WriteOns(r))
  BY <1>1, <1>2 DEF WriteOffs, WriteOns, Trading, AdjustmentRows
<1>5. SumOver(Impact, n, Trading(r))
        = SumOver(Impact, n, WriteOffs(r)) + SumOver(Impact, n, WriteOns(r))
  <2> HIDE DEF n
  <2> QED BY <1>1, <1>2, <1>3, <1>4, SumOverSplit
<1>6. /\ SumOver(Impact, n, Trading(r)) \in Int /\ SumOver(Impact, n, WriteOffs(r)) \in Int
      /\ SumOver(Impact, n, WriteOns(r)) \in Int
  <2> HIDE DEF n
  <2> QED BY <1>1, <1>2, SumOverType
<1> QED BY <1>5, <1>6 DEF OverAdjustments, stockWrittenOff, stockWrittenOn

\* Each reason's adjustments, added up by themselves, add up to all of them.
LEMMA LossByReason ==
  ASSUME BooksTypeOK, NEW r
  PROVE  SumOver([k \in 1..3 |-> ReasonCost(r, ReasonCodes[k])], 3,
                 {k \in 1..3 : ReasonCodes[k] \in Reasons(r)}) = netLoss(r)
<1> DEFINE n == Len(adjustments)
           S == Trading(r)
           key == [i \in 1..n |-> IF adjustments[i].reasonCode = "COUNT_CORRECTION" THEN 1
                                  ELSE IF adjustments[i].reasonCode = "OPENING_STOCK" THEN 2
                                  ELSE 3]
           group == [k \in 1..3 |-> {i \in S : key[i] = k}]
           cost == [k \in 1..3 |-> ReasonCost(r, ReasonCodes[k])]
           some == {k \in 1..3 : ReasonCodes[k] \in Reasons(r)}
           parts == [k \in 1..3 |-> SumOver(Impact, n, group[k])]
<1>1. /\ n \in Nat /\ DOMAIN adjustments = 1..n
      /\ \A i \in 1..n : Impact[i] \in Int /\ adjustments[i] \in AdjustmentRows
  BY ColumnTypes
<1>2. \A i \in 1..n : key[i] \in 1..3
  OBVIOUS
<1>3. \A i \in 1..n : \A k \in 1..3 :
        adjustments[i].reasonCode = ReasonCodes[k] <=> key[i] = k
  <2> SUFFICES ASSUME NEW i \in 1..n, NEW k \in 1..3
               PROVE  adjustments[i].reasonCode = ReasonCodes[k] <=> key[i] = k
    OBVIOUS
  <2>1. adjustments[i].reasonCode \in {"COUNT_CORRECTION", "OPENING_STOCK", "JAM"}
    BY <1>1 DEF AdjustmentRows
  <2>2. /\ ReasonCodes[1] = "COUNT_CORRECTION" /\ ReasonCodes[2] = "OPENING_STOCK"
        /\ ReasonCodes[3] = "JAM"
    BY DEF ReasonCodes
  <2>3. k = 1 \/ k = 2 \/ k = 3
    OBVIOUS
  <2> QED BY <2>1, <2>2, <2>3
<1>4. S \subseteq 1..n
  BY <1>1 DEF Trading
<1> HIDE DEF n, S, key
<1>5. ASSUME NEW k \in 1..3
      PROVE  /\ parts[k] = OverAdjustments({i \in S : adjustments[i].reasonCode = ReasonCodes[k]})
             /\ parts[k] \in Int /\ cost[k] = -parts[k]
             /\ k \notin some => parts[k] = 0
  <2>0. group[k] = {i \in S : key[i] = k}
    OBVIOUS
  <2>1. {i \in S : key[i] = k} = {i \in S : adjustments[i].reasonCode = ReasonCodes[k]}
    BY <1>3, <1>4
  <2>2. parts[k] = OverAdjustments({i \in S : adjustments[i].reasonCode = ReasonCodes[k]})
    BY <2>0, <2>1 DEF OverAdjustments, n
  <2>3. SumOver(Impact, n, group[k]) \in Int
    BY <1>1, SumOverType
  <2>4. cost[k] = -parts[k]
    BY <2>2 DEF ReasonCost, S
  <2>5. ASSUME k \notin some PROVE parts[k] = 0
    <3>1. \A i \in 1..n : i \notin group[k]
      BY <1>3, <2>5 DEF Reasons, S
    <3>2. SumOver(Impact, n, group[k]) = 0
      <4> HIDE DEF group
      <4> QED BY <1>1, <3>1, SumOverZero
    <3> QED BY <3>2
  <2> QED BY <2>2, <2>3, <2>4, <2>5
<1>6. Total(parts, 3) = SumOver(Impact, n, S)
  <2> DEFINE K == 3
  <2>1. \A i \in 1..n : i \in S => Impact[i] \in Int
    BY <1>1
  <2>2. Groups(group, K, key, S, n)
    BY <1>2 DEF Groups
  <2>3. \A k \in 1..K : parts[k] = SumOver(Impact, n, group[k])
    OBVIOUS
  <2>4. K \in Nat /\ n \in Nat
    BY <1>1
  <2> HIDE DEF parts, group, K
  <2>5. Total(parts, K) = SumOver(Impact, n, S)
    BY ONLY <2>1, <2>2, <2>3, <2>4, SumOverGroups
  <2> QED BY <2>5 DEF K
<1>7. Total(Share(cost, 3, some), 3) = -Total(parts, 3)
  <2> DEFINE c == Share(cost, 3, some)
  <2>1. ASSUME NEW k \in 1..3 PROVE parts[k] \in Int /\ c[k] = -parts[k]
    <3>1. c[k] = IF k \in some THEN cost[k] ELSE 0
      BY DEF Share
    <3> HIDE DEF c, parts, cost, some
    <3> QED BY <1>5, <3>1
  <2> HIDE DEF c, parts
  <2>2. Total(c, 3) = -Total(parts, 3)
    BY <2>1, TotalNegate
  <2> QED BY <2>2 DEF c
<1>9. SumOver(cost, 3, some) = Total(Share(cost, 3, some), 3)
  BY DEF SumOver, Share
<1>10. SumOver(Impact, n, S) \in Int
  BY <1>1, SumOverType
<1>11. netLoss(r) = -SumOver(Impact, n, S)
  BY DEF netLoss, OverAdjustments, n, S
<1> HIDE DEF cost, some, parts
<1>12. SumOver(cost, 3, some) = netLoss(r)
  BY <1>6, <1>7, <1>9, <1>10, <1>11
<1> QED BY <1>12 DEF cost, some

\* Whatever is on the books, the wastage report and the summary tell one loss.
LEMMA WastageFollows == BooksTypeOK => WastageAgrees
<1> SUFFICES ASSUME BooksTypeOK, NEW r \in Ranges
             PROVE  /\ netLoss(r) = Summary(r).stockLoss
                    /\ SumOver([k \in 1..3 |-> ReasonCost(r, ReasonCodes[k])], 3,
                               {k \in 1..3 : ReasonCodes[k] \in Reasons(r)}) = netLoss(r)
                    /\ ProductCost(r) = stockWrittenOff(r)
  BY DEF WastageAgrees
<1>1. Summary(r).stockLoss = stockWrittenOff(r) - stockWrittenOn(r)
  BY DEF Summary
<1>2. netLoss(r) = Summary(r).stockLoss
  BY <1>1, LossIsTrading DEF netLoss
<1>3. ProductCost(r) = stockWrittenOff(r)
  BY DEF ProductCost, stockWrittenOff
<1> QED BY <1>2, <1>3, LossByReason

\* The loss the profit is charged with is the one the wastage report explains,
\* reason by reason and product by product, for any books and any range.
THEOREM WastageAlwaysAgrees == BooksSpec => []WastageAgrees
BY BooksTypeCorrect, WastageFollows, PTL

-----------------------------------------------------------------------------
(* The series: the rows of every query, put in periods and added up again. *)

\* A later moment falls in no earlier bucket.
LEMMA QuotientMonotone ==
  ASSUME NEW x \in Int, NEW y \in Int, NEW u \in Nat \ {0}, x <= y
  PROVE  x \div u \in Int /\ y \div u \in Int /\ x \div u <= y \div u
<1> DEFINE p == x \div u
           q == y \div u
<1>1. p \in Int /\ q \in Int
  OBVIOUS
<1>2. p * u <= x /\ y < (q + 1) * u
  OBVIOUS
<1> HIDE DEF p, q
<1>3. SUFFICES ASSUME q < p PROVE FALSE
  BY <1>1 DEF p, q
<1>4. q + 1 <= p
  BY <1>1, <1>3
<1>5. (q + 1) * u <= p * u
  BY <1>1, <1>4
<1>6. (q + 1) * u \in Int /\ p * u \in Int
  BY <1>1
<1> QED BY <1>2, <1>5, <1>6

\* Every moment followed is in one of the periods the series may have rows for.
LEMMA PeriodTypes ==
  ASSUME NEW unit \in {1, MonthLength}
  PROVE  /\ Span(unit) \in Nat
         /\ \A t \in Moments : /\ Period(unit, t) \in Int
                               /\ Period(unit, t) - Period(unit, 1) + 1 \in 1..Span(unit)
<1>1. /\ unit \in Nat \ {0} /\ MaxTime \in Nat \ {0} /\ Behind \in Nat
  BY ReportsConstants
<1>2. ASSUME NEW t \in Moments, NEW w \in Moments, t <= w
      PROVE  /\ Period(unit, t) \in Int /\ Period(unit, w) \in Int
             /\ Period(unit, t) <= Period(unit, w)
  <2>1. t - 1 - Behind \in Int /\ w - 1 - Behind \in Int /\ t - 1 - Behind <= w - 1 - Behind
    BY <1>1, <1>2 DEF Moments
  <2> QED BY <1>1, <2>1, QuotientMonotone DEF Period
<1>3. 1 \in Moments /\ MaxTime \in Moments /\ \A t \in Moments : 1 <= t /\ t <= MaxTime
  BY <1>1 DEF Moments
<1>4. Period(unit, 1) \in Int /\ Period(unit, MaxTime) \in Int
        /\ Period(unit, 1) <= Period(unit, MaxTime)
  BY <1>1, <1>2, <1>3
<1>5. Span(unit) \in Nat
  BY <1>4 DEF Span
<1>6. ASSUME NEW t \in Moments
      PROVE  /\ Period(unit, t) \in Int
             /\ Period(unit, t) - Period(unit, 1) + 1 \in 1..Span(unit)
  <2>1. /\ Period(unit, t) \in Int
        /\ Period(unit, 1) <= Period(unit, t) /\ Period(unit, t) <= Period(unit, MaxTime)
    BY <1>2, <1>3
  <2> QED BY <1>4, <2>1 DEF Span
<1> QED BY <1>5, <1>6

\* The kth period of a series, and the rows of S that fall in it by their date.
KthPeriod(unit, k) == Period(unit, 1) + k - 1
InKth(unit, S, date) ==
  [k \in 1..Span(unit) |-> {i \in S : Period(unit, date[i]) = KthPeriod(unit, k)}]

\* What column f comes to in each period.
ByPeriod(parts, unit, f, N, S, date) ==
  \A k \in 1..Span(unit) : parts[k] = SumOver(f, N, InKth(unit, S, date)[k])

\* Whatever is dated and added up period by period adds up to the whole.
LEMMA PeriodsAddUp ==
  ASSUME NEW unit \in {1, MonthLength}, NEW N \in Nat, NEW f, NEW S, NEW date, NEW parts,
         \A i \in 1..N : i \in S => f[i] \in Int /\ date[i] \in Moments,
         ByPeriod(parts, unit, f, N, S, date)
  PROVE  Total(parts, Span(unit)) = SumOver(f, N, S)
<1> DEFINE key == [i \in 1..N |-> Period(unit, date[i]) - Period(unit, 1) + 1]
           G == InKth(unit, S, date)
           K == Span(unit)
<1>1. K \in Nat
  BY PeriodTypes
<1>2. Period(unit, 1) \in Int
  BY PeriodTypes, ReportsConstants DEF Moments
<1>3. Groups(G, K, key, S, N)
  <2>1. ASSUME NEW i \in 1..N, i \in S
        PROVE  key[i] \in 1..K /\ Period(unit, date[i]) \in Int
    <3>1. date[i] \in Moments
      BY <2>1
    <3> QED BY <3>1, PeriodTypes
  <2>2. ASSUME NEW k \in 1..K, NEW i \in 1..N
        PROVE  i \in G[k] <=> (i \in S /\ key[i] = k)
    <3>1. G[k] = {j \in S : Period(unit, date[j]) = KthPeriod(unit, k)}
      BY DEF InKth
    <3>2. i \in S => (Period(unit, date[i]) = KthPeriod(unit, k) <=> key[i] = k)
      <4> HIDE DEF K
      <4> SUFFICES ASSUME i \in S
                   PROVE  Period(unit, date[i]) = KthPeriod(unit, k) <=> key[i] = k
        OBVIOUS
      <4>1. Period(unit, date[i]) \in Int /\ k \in Int
        BY <2>1
      <4>2. key[i] = Period(unit, date[i]) - Period(unit, 1) + 1
        OBVIOUS
      <4> HIDE DEF key
      <4> QED BY <1>2, <4>1, <4>2 DEF KthPeriod
    <3> QED BY <3>1, <3>2
  <2> QED BY <2>1, <2>2 DEF Groups
<1>4. /\ \A i \in 1..N : i \in S => f[i] \in Int
      /\ \A k \in 1..K : parts[k] = SumOver(f, N, G[k])
  BY DEF ByPeriod
<1> HIDE DEF key, G, K
<1>5. Total(parts, K) = SumOver(f, N, S)
  BY ONLY <1>1, <1>3, <1>4, SumOverGroups, N \in Nat
<1> QED BY <1>5 DEF K

\* A period with no row in the series is one in which nothing happened.
LEMMA QuietPeriod ==
  ASSUME BooksTypeOK, NEW unit, NEW r, NEW p, p \notin Periods(unit, r)
  PROVE  /\ SalesIn(unit, r, p) = {} /\ ReturnsIn(unit, r, p) = {}
         /\ BillsIn(unit, r, p) = {} /\ TradingIn(unit, r, p) = {}
BY DEF Periods, SalePeriods, SalesIn, ReturnsIn, BillsIn, TradingIn

\* So a row may be read for every period, whether the series lists it or not.
LEMMA EveryPeriod ==
  ASSUME BooksTypeOK, NEW unit, NEW r, NEW p,
         NEW f \in {"revenue", "cogs", "expenses", "stockLoss", "saleCount"}
  PROVE  (IF p \in DOMAIN salesSeries(unit, r) THEN salesSeries(unit, r)[p][f] ELSE 0)
           = SeriesRow(unit, r, p)[f]
<1>1. DOMAIN salesSeries(unit, r) = Periods(unit, r)
  BY DEF salesSeries
<1>2. CASE p \in Periods(unit, r)
  BY <1>1, <1>2 DEF salesSeries
<1>3. CASE p \notin Periods(unit, r)
  <2>1. /\ SalesIn(unit, r, p) = {} /\ ReturnsIn(unit, r, p) = {}
        /\ BillsIn(unit, r, p) = {} /\ TradingIn(unit, r, p) = {}
    BY <1>3, QuietPeriod
  <2>2. \A g, n : n \in Nat => SumOver(g, n, {}) = 0
    BY SumOverZero
  <2>3. /\ MaxLines \in Nat /\ Len(refunds) \in Nat /\ Len(adjustments) \in Nat
        /\ Len(expenses) \in Nat
    BY ColumnTypes, InventoryConstants
  <2>4. /\ \A g : OverSales(g, {}) = 0 /\ OverReturns(g, {}) = 0
        /\ OverBills({}) = 0 /\ OverAdjustments({}) = 0
    BY <2>2, <2>3 DEF OverSales, OverReturns, OverBills, OverAdjustments
  <2>5. SeriesRow(unit, r, p) =
          [revenue |-> 0, cogs |-> 0, expenses |-> 0, stockLoss |-> 0, saleCount |-> 0]
    BY <2>1, <2>4 DEF SeriesRow
  <2>6. SeriesRow(unit, r, p)[f] = 0
    BY <2>5
  <2> QED BY <1>1, <1>3, <2>6
<1> QED BY <1>2, <1>3

\* Dates in a range are moments.
LEMMA RangeDates ==
  ASSUME BooksTypeOK, NEW r \in Ranges
  PROVE  \A t \in Int : In(r, t) => t \in Moments
BY ReportsConstants DEF Ranges, In, Moments

\* Sales, period by period.
LEMMA SalesAddUp ==
  ASSUME BooksTypeOK, NEW unit \in {1, MonthLength}, NEW r \in Ranges, NEW f, NEW parts,
         \A l \in Lines : f[l] \in Int,
         \A k \in 1..Span(unit) :
           parts[k] = OverSales(f, SalesIn(unit, r, KthPeriod(unit, k)))
  PROVE  Total(parts, Span(unit)) = OverSales(f, Completed(r))
<1> DEFINE S == Completed(r)
<1>1. MaxLines \in Nat
  BY InventoryConstants
<1>2. \A l \in 1..MaxLines : l \in S => f[l] \in Int /\ soldAt[l] \in Moments
  <2> SUFFICES ASSUME NEW l \in Lines, l \in S
               PROVE  f[l] \in Int /\ soldAt[l] \in Moments
    BY DEF Lines
  <2>1. In(r, soldAt[l]) /\ soldAt[l] \in Int
    BY DEF Completed, BooksTypeOK
  <2> QED BY <2>1, RangeDates
<1>3. ByPeriod(parts, unit, f, MaxLines, S, soldAt)
  <2> SUFFICES ASSUME NEW k \in 1..Span(unit)
               PROVE  parts[k] = SumOver(f, MaxLines, InKth(unit, S, soldAt)[k])
    BY DEF ByPeriod
  <2>1. InKth(unit, S, soldAt)[k] = SalesIn(unit, r, KthPeriod(unit, k))
    BY DEF InKth, SalesIn
  <2> QED BY <2>1 DEF OverSales
<1> HIDE DEF S
<1>4. Total(parts, Span(unit)) = SumOver(f, MaxLines, S)
  BY <1>1, <1>2, <1>3, PeriodsAddUp
<1> QED BY <1>4 DEF OverSales, S

\* Returns, by the day of the return.
LEMMA ReturnsAddUp ==
  ASSUME BooksTypeOK, NEW unit \in {1, MonthLength}, NEW r \in Ranges, NEW f, NEW parts,
         \A i \in 1..Len(refunds) : f[i] \in Int,
         \A k \in 1..Span(unit) :
           parts[k] = OverReturns(f, ReturnsIn(unit, r, KthPeriod(unit, k)))
  PROVE  Total(parts, Span(unit)) = OverReturns(f, Returns(r))
<1> DEFINE S == Returns(r)
           n == Len(refunds)
           date == [i \in 1..n |-> refunds[i].at]
<1>1. n \in Nat /\ DOMAIN refunds = 1..n
  BY ColumnTypes
<1>2. \A i \in 1..n : i \in S => f[i] \in Int /\ date[i] \in Moments
  <2> SUFFICES ASSUME NEW i \in 1..n PROVE f[i] \in Int /\ date[i] \in Moments
    OBVIOUS
  <2>1. refunds[i] \in RefundRows
    BY ColumnTypes
  <2> QED BY <2>1 DEF RefundRows
<1>3. ByPeriod(parts, unit, f, n, S, date)
  <2> SUFFICES ASSUME NEW k \in 1..Span(unit)
               PROVE  parts[k] = SumOver(f, n, InKth(unit, S, date)[k])
    BY DEF ByPeriod
  <2>1. InKth(unit, S, date)[k] = {i \in S : Period(unit, date[i]) = KthPeriod(unit, k)}
    BY DEF InKth
  <2>2. {i \in S : Period(unit, date[i]) = KthPeriod(unit, k)}
          = ReturnsIn(unit, r, KthPeriod(unit, k))
    BY <1>1 DEF Returns, ReturnsIn
  <2> QED BY <2>1, <2>2 DEF OverReturns
<1> HIDE DEF S, n, date
<1>4. Total(parts, Span(unit)) = SumOver(f, n, S)
  BY <1>1, <1>2, <1>3, PeriodsAddUp
<1> QED BY <1>4 DEF OverReturns, S, n

\* Bills, by the date they were for.
LEMMA BillsAddUp ==
  ASSUME BooksTypeOK, NEW unit \in {1, MonthLength}, NEW r \in Ranges, NEW parts,
         \A k \in 1..Span(unit) : parts[k] = OverBills(BillsIn(unit, r, KthPeriod(unit, k)))
  PROVE  Total(parts, Span(unit)) = OverBills(Bills(r))
<1> DEFINE S == Bills(r)
           n == Len(expenses)
           date == [i \in 1..n |-> expenses[i].expenseDate]
<1>1. n \in Nat /\ DOMAIN expenses = 1..n
  BY ColumnTypes
<1>2. \A i \in 1..n : i \in S => Amount[i] \in Int /\ date[i] \in Moments
  <2> SUFFICES ASSUME NEW i \in 1..n PROVE Amount[i] \in Int /\ date[i] \in Moments
    OBVIOUS
  <2>1. expenses[i] \in ExpenseRows /\ Amount[i] \in Nat
    BY ColumnTypes
  <2> QED BY <2>1 DEF ExpenseRows
<1>3. ByPeriod(parts, unit, Amount, n, S, date)
  <2> SUFFICES ASSUME NEW k \in 1..Span(unit)
               PROVE  parts[k] = SumOver(Amount, n, InKth(unit, S, date)[k])
    BY DEF ByPeriod
  <2>1. InKth(unit, S, date)[k] = {i \in S : Period(unit, date[i]) = KthPeriod(unit, k)}
    BY DEF InKth
  <2>2. {i \in S : Period(unit, date[i]) = KthPeriod(unit, k)}
          = BillsIn(unit, r, KthPeriod(unit, k))
    BY <1>1 DEF Bills, BillsIn
  <2> QED BY <2>1, <2>2 DEF OverBills
<1> HIDE DEF S, n, date
<1>4. Total(parts, Span(unit)) = SumOver(Amount, n, S)
  BY <1>1, <1>2, <1>3, PeriodsAddUp
<1> QED BY <1>4 DEF OverBills, S, n

\* Trading adjustments, by the day they were made.
LEMMA TradingAddsUp ==
  ASSUME BooksTypeOK, NEW unit \in {1, MonthLength}, NEW r \in Ranges, NEW parts,
         \A k \in 1..Span(unit) :
           parts[k] = OverAdjustments(TradingIn(unit, r, KthPeriod(unit, k)))
  PROVE  Total(parts, Span(unit)) = OverAdjustments(Trading(r))
<1> DEFINE S == Trading(r)
           n == Len(adjustments)
           date == [i \in 1..n |-> adjustments[i].at]
<1>1. n \in Nat /\ DOMAIN adjustments = 1..n
  BY ColumnTypes
<1>2. \A i \in 1..n : i \in S => Impact[i] \in Int /\ date[i] \in Moments
  <2> SUFFICES ASSUME NEW i \in 1..n PROVE Impact[i] \in Int /\ date[i] \in Moments
    OBVIOUS
  <2>1. adjustments[i] \in AdjustmentRows /\ Impact[i] \in Int
    BY ColumnTypes
  <2> QED BY <2>1 DEF AdjustmentRows
<1>3. ByPeriod(parts, unit, Impact, n, S, date)
  <2> SUFFICES ASSUME NEW k \in 1..Span(unit)
               PROVE  parts[k] = SumOver(Impact, n, InKth(unit, S, date)[k])
    BY DEF ByPeriod
  <2>1. InKth(unit, S, date)[k] = {i \in S : Period(unit, date[i]) = KthPeriod(unit, k)}
    BY DEF InKth
  <2>2. {i \in S : Period(unit, date[i]) = KthPeriod(unit, k)}
          = TradingIn(unit, r, KthPeriod(unit, k))
    BY <1>1 DEF Trading, TradingIn
  <2> QED BY <2>1, <2>2 DEF OverAdjustments
<1> HIDE DEF S, n, date
<1>4. Total(parts, Span(unit)) = SumOver(Impact, n, S)
  BY <1>1, <1>2, <1>3, PeriodsAddUp
<1> QED BY <1>4 DEF OverAdjustments, S, n

\* Sales less returns, period by period, are sales less returns.
LEMMA NetAddsUp ==
  ASSUME BooksTypeOK, NEW unit \in {1, MonthLength}, NEW r \in Ranges, NEW f, NEW g, NEW parts,
         \A l \in Lines : f[l] \in Int,
         \A i \in 1..Len(refunds) : g[i] \in Int,
         \A k \in 1..Span(unit) :
           parts[k] = OverSales(f, SalesIn(unit, r, KthPeriod(unit, k)))
                        - OverReturns(g, ReturnsIn(unit, r, KthPeriod(unit, k)))
  PROVE  Total(parts, Span(unit)) = OverSales(f, Completed(r)) - OverReturns(g, Returns(r))
<1> DEFINE K == Span(unit)
           a == [k \in 1..K |-> OverSales(f, SalesIn(unit, r, KthPeriod(unit, k)))]
           b == [k \in 1..K |-> OverReturns(g, ReturnsIn(unit, r, KthPeriod(unit, k)))]
<1>1. K \in Nat
  BY PeriodTypes
<1>2. Total(a, K) = OverSales(f, Completed(r))
  <2>1. \A k \in 1..Span(unit) : a[k] = OverSales(f, SalesIn(unit, r, KthPeriod(unit, k)))
    OBVIOUS
  <2> HIDE DEF a
  <2> QED BY <2>1, SalesAddUp
<1>3. Total(b, K) = OverReturns(g, Returns(r))
  <2>1. \A k \in 1..Span(unit) :
          b[k] = OverReturns(g, ReturnsIn(unit, r, KthPeriod(unit, k)))
    OBVIOUS
  <2> HIDE DEF b
  <2> QED BY <2>1, ReturnsAddUp
<1>4. ASSUME NEW S, NEW R
      PROVE  OverSales(f, S) \in Int /\ OverReturns(g, R) \in Int
  <2>1. MaxLines \in Nat /\ Len(refunds) \in Nat
    BY InventoryConstants, ColumnTypes
  <2>2. SumOver(f, MaxLines, S) \in Int /\ SumOver(g, Len(refunds), R) \in Int
    BY <2>1, SumOverType DEF Lines
  <2> QED BY <2>2 DEF OverSales, OverReturns
<1>5. \A k \in 1..K : a[k] \in Int /\ b[k] \in Int /\ parts[k] = a[k] - b[k]
  BY <1>4
<1> HIDE DEF a, b, K
<1>6. Total(parts, K) = Total(a, K) - Total(b, K)
  BY <1>1, <1>5, TotalSubtract
<1> QED BY <1>2, <1>3, <1>6 DEF K

\* Every field of the series adds up to the same field of the summary.
LEMMA SeriesAddsUp ==
  ASSUME BooksTypeOK, NEW unit \in {1, MonthLength}, NEW r \in Ranges,
         NEW f \in {"revenue", "cogs", "expenses", "stockLoss", "saleCount"}
  PROVE  SeriesTotal(salesSeries(unit, r), unit, f) = Summary(r)[f]
<1> DEFINE K == Span(unit)
           row(k) == SeriesRow(unit, r, KthPeriod(unit, k))
           parts == [k \in 1..K |-> row(k)[f]]
<1>1. SeriesTotal(salesSeries(unit, r), unit, f) = Total(parts, K)
  <2>1. \A k \in 1..K :
          (IF Period(unit, 1) + k - 1 \in DOMAIN salesSeries(unit, r)
             THEN salesSeries(unit, r)[Period(unit, 1) + k - 1][f] ELSE 0) = row(k)[f]
    BY EveryPeriod DEF KthPeriod
  <2> HIDE DEF row
  <2> QED BY <2>1 DEF SeriesTotal
<1>2. CASE f = "revenue"
  <2>1. \A k \in 1..Span(unit) :
          parts[k] = OverSales(total, SalesIn(unit, r, KthPeriod(unit, k)))
                       - OverReturns(Refund, ReturnsIn(unit, r, KthPeriod(unit, k)))
    BY <1>2 DEF SeriesRow
  <2>2. /\ \A l \in Lines : total[l] \in Int
        /\ \A i \in 1..Len(refunds) : Refund[i] \in Int
    <3>1. \A l \in Lines : total[l] \in Nat
      BY DEF BooksTypeOK
    <3>2. \A i \in 1..Len(refunds) : Refund[i] \in Nat
      BY ColumnTypes
    <3> QED BY <3>1, <3>2
  <2>3. Summary(r)[f] = OverSales(total, Completed(r)) - OverReturns(Refund, Returns(r))
    BY <1>2 DEF Summary, Revenue
  <2> HIDE DEF parts
  <2>4. Total(parts, K) = OverSales(total, Completed(r)) - OverReturns(Refund, Returns(r))
    BY <2>1, <2>2, NetAddsUp
  <2> QED BY <1>1, <2>3, <2>4
<1>3. CASE f = "cogs"
  <2>1. \A k \in 1..Span(unit) :
          parts[k] = OverSales(totalCogs, SalesIn(unit, r, KthPeriod(unit, k)))
                       - OverReturns(Reversed, ReturnsIn(unit, r, KthPeriod(unit, k)))
    BY <1>3 DEF SeriesRow
  <2>2. /\ \A l \in Lines : totalCogs[l] \in Int
        /\ \A i \in 1..Len(refunds) : Reversed[i] \in Int
    <3>1. \A l \in Lines : totalCogs[l] \in Nat
      BY DEF BooksTypeOK
    <3>2. \A i \in 1..Len(refunds) : Reversed[i] \in Nat
      BY ColumnTypes
    <3> QED BY <3>1, <3>2
  <2>3. Summary(r)[f] = OverSales(totalCogs, Completed(r)) - OverReturns(Reversed, Returns(r))
    BY <1>3 DEF Summary, Cogs
  <2> HIDE DEF parts
  <2>4. Total(parts, K) = OverSales(totalCogs, Completed(r)) - OverReturns(Reversed, Returns(r))
    BY <2>1, <2>2, NetAddsUp
  <2> QED BY <1>1, <2>3, <2>4
<1>4. CASE f = "expenses"
  <2>1. \A k \in 1..Span(unit) : parts[k] = OverBills(BillsIn(unit, r, KthPeriod(unit, k)))
    BY <1>4 DEF SeriesRow
  <2>2. Summary(r)[f] = OverBills(Bills(r))
    BY <1>4 DEF Summary, Spent
  <2> HIDE DEF parts
  <2>3. Total(parts, K) = OverBills(Bills(r))
    BY <2>1, BillsAddUp
  <2> QED BY <1>1, <2>2, <2>3
<1>5. CASE f = "stockLoss"
  <2> DEFINE a == [k \in 1..K |-> OverAdjustments(TradingIn(unit, r, KthPeriod(unit, k)))]
  <2>1. \A k \in 1..K : parts[k] = -a[k]
    BY <1>5 DEF SeriesRow
  <2>2. \A k \in 1..K : a[k] \in Int
    <3>1. ASSUME NEW S PROVE OverAdjustments(S) \in Int
      BY ColumnTypes, SumOverType DEF OverAdjustments
    <3> QED BY <3>1
  <2>3. \A k \in 1..Span(unit) :
          a[k] = OverAdjustments(TradingIn(unit, r, KthPeriod(unit, k)))
    OBVIOUS
  <2>4. K \in Nat
    BY PeriodTypes
  <2> HIDE DEF parts, a
  <2>5. Total(a, K) = OverAdjustments(Trading(r))
    BY <2>3, TradingAddsUp
  <2>6. Total(parts, K) = -Total(a, K)
    BY <2>1, <2>2, <2>4, TotalNegate
  <2>7. Summary(r)[f] = stockWrittenOff(r) - stockWrittenOn(r)
    BY <1>5 DEF Summary
  <2> QED BY <1>1, <2>5, <2>6, <2>7, LossIsTrading
<1>6. CASE f = "saleCount"
  <2>1. \A k \in 1..Span(unit) :
          parts[k] = OverSales(One, SalesIn(unit, r, KthPeriod(unit, k)))
    BY <1>6 DEF SeriesRow
  <2>2. \A l \in Lines : One[l] \in Int
    BY DEF One
  <2>3. Summary(r)[f] = OverSales(One, Completed(r))
    BY <1>6 DEF Summary
  <2> HIDE DEF parts
  <2>4. Total(parts, K) = OverSales(One, Completed(r))
    BY <2>1, <2>2, SalesAddUp
  <2> QED BY <1>1, <2>3, <2>4
<1> QED BY <1>2, <1>3, <1>4, <1>5, <1>6

\* Whatever is on the books, the chart, the statement and the summary agree.
LEMMA FiguresFollow == BooksTypeOK => FiguresAgree
<1> SUFFICES ASSUME BooksTypeOK PROVE FiguresAgree
  OBVIOUS
<1>1. \A r \in Ranges, unit \in {1, MonthLength} :
        \A f \in {"revenue", "cogs", "expenses", "stockLoss", "saleCount"} :
          SeriesTotal(salesSeries(unit, r), unit, f) = Summary(r)[f]
  BY SeriesAddsUp
<1>2. ASSUME NEW m PROVE Figures(m) = Summary(monthRange(m))
  <2>1. -OverAdjustments(Trading(monthRange(m)))
          = stockWrittenOff(monthRange(m)) - stockWrittenOn(monthRange(m))
    BY LossIsTrading
  <2> QED BY <2>1 DEF Figures, Summary
<1> QED BY <1>1, <1>2 DEF FiguresAgree

\* For every range, daily or by the month, the rows of the series add up to the
\* summary, and every month's statement is that month's summary.
THEOREM FiguresAlwaysAgree == BooksSpec => []FiguresAgree
BY BooksTypeCorrect, FiguresFollow, PTL

-----------------------------------------------------------------------------
(* Costs of units, added and set apart. *)

\* The cost of units together is the sum of their costs.
LEMMA CostAdd ==
  ASSUME NEW u, NEW v, NEW w,
         \A b \in Batches : u[b] \in Int /\ v[b] \in Int /\ w[b] = u[b] + v[b]
  PROVE  CostOf(w) = CostOf(u) + CostOf(v)
<1> DEFINE x == [b \in Batches |-> u[b] * pieceCost[b]]
           y == [b \in Batches |-> v[b] * pieceCost[b]]
           z == [b \in Batches |-> w[b] * pieceCost[b]]
<1>1. ASSUME NEW b \in 1..MaxBatches PROVE x[b] \in Int /\ y[b] \in Int /\ z[b] = x[b] + y[b]
  <2>1. b \in Batches
    BY DEF Batches
  <2>2. pieceCost[b] \in Int
    BY <2>1, PieceCostType
  <2>3. \A i, j, k \in Int : (i + j) * k = i * k + j * k /\ i * k \in Int
    OBVIOUS
  <2> QED BY <2>1, <2>2, <2>3
<1>2. CostOf(u) = Total(x, MaxBatches) /\ CostOf(v) = Total(y, MaxBatches)
        /\ CostOf(w) = Total(z, MaxBatches)
  BY DEF CostOf
<1> HIDE DEF x, y, z
<1>3. Total(z, MaxBatches) = Total(x, MaxBatches) + Total(y, MaxBatches)
  BY <1>1, InventoryConstants, TotalAdd
<1> QED BY <1>2, <1>3

\* The cost of units depends on the units and nothing else.
LEMMA CostSame ==
  ASSUME NEW u, NEW w, \A b \in Batches : u[b] \in Int /\ w[b] = u[b]
  PROVE  CostOf(w) = CostOf(u)
<1> DEFINE x == [b \in Batches |-> u[b] * pieceCost[b]]
           z == [b \in Batches |-> w[b] * pieceCost[b]]
<1>1. x = z
  OBVIOUS
<1> QED BY <1>1 DEF CostOf

\* No units cost nothing.
LEMMA CostZero ==
  ASSUME NEW u, \A b \in Batches : u[b] = 0
  PROVE  CostOf(u) = 0
<1> DEFINE x == [b \in Batches |-> u[b] * pieceCost[b]]
<1>1. \A b \in 1..MaxBatches : x[b] = 0
  <2> SUFFICES ASSUME NEW b \in Batches PROVE x[b] = 0
    BY DEF Batches
  <2>1. pieceCost[b] \in Int
    BY PieceCostType
  <2> QED BY <2>1
<1>2. CostOf(u) = Total(x, MaxBatches)
  BY DEF CostOf
<1> HIDE DEF x
<1> QED BY <1>1, <1>2, InventoryConstants, TotalZero

\* Units of one batch, at its cost.
LEMMA CostOfOne ==
  ASSUME NEW x \in Batches, NEW n \in Int, NEW u, NEW w,
         \A b \in Batches : u[b] \in Int /\ w[b] = IF b = x THEN u[b] + n ELSE u[b]
  PROVE  CostOf(w) = CostOf(u) + n * pieceCost[x]
<1> DEFINE f == [b \in Batches |-> u[b] * pieceCost[b]]
           h == [b \in Batches |-> w[b] * pieceCost[b]]
           d == n * pieceCost[x]
<1>1. d \in Int /\ x \in 1..MaxBatches /\ MaxBatches \in Nat
  <2>1. pieceCost[x] \in Int
    BY PieceCostType
  <2> QED BY <2>1, InventoryConstants DEF Batches
<1>2. ASSUME NEW b \in 1..MaxBatches
      PROVE  f[b] \in Int /\ h[b] = IF b = x THEN f[b] + d ELSE f[b]
  <2>1. b \in Batches
    BY DEF Batches
  <2>2. pieceCost[b] \in Int
    BY <2>1, PieceCostType
  <2>3. \A i, j, k \in Int : (i + j) * k = i * k + j * k /\ i * k \in Int
    OBVIOUS
  <2> QED BY <2>1, <2>2, <2>3
<1>3. CostOf(u) = Total(f, MaxBatches) /\ CostOf(w) = Total(h, MaxBatches)
  BY DEF CostOf
<1> HIDE DEF f, h, d
<1>4. /\ \A b \in 1..MaxBatches : f[b] \in Int
      /\ \A b \in 1..MaxBatches : h[b] = IF b = x THEN f[b] + d ELSE f[b]
  BY <1>2
<1>5. Total(h, MaxBatches) = Total(f, MaxBatches) + d
  BY ONLY <1>1, <1>4, TotalChangeAt
<1> QED BY <1>3, <1>5 DEF d

-----------------------------------------------------------------------------
(* What a new row in the books changes. *)

\* A return adds its cost to what was reversed of its line.
LEMMA RefundAdded ==
  ASSUME BooksTypeOK, BooksTypeOK', NEW row \in RefundRows, refunds' = Append(refunds, row),
         NEW l \in Lines
  PROVE  OverReturns(Reversed, ReturnsOf(l))'
           = OverReturns(Reversed, ReturnsOf(l)) + (IF row.line = l THEN row.cogs ELSE 0)
<1> DEFINE n == Len(refunds)
           f == Reversed
           g == Reversed'
           S == ReturnsOf(l)
           R == ReturnsOf(l)'
<1>1. /\ n \in Nat /\ Len(refunds') = n + 1
      /\ \A i \in 1..n : refunds'[i] = refunds[i]
      /\ refunds'[n + 1] = row
      /\ DOMAIN refunds = 1..n /\ DOMAIN refunds' = 1..(n + 1)
  <2>1. refunds \in Seq(RefundRows) /\ refunds' \in Seq(RefundRows)
    BY DEF BooksTypeOK
  <2> QED BY <2>1, AppendProperties
<1>2. \A i \in 1..n : f[i] = refunds[i].cogs /\ f[i] \in Int
  BY ColumnTypes
<1>3. /\ \A i \in 1..n : g[i] = f[i]
      /\ g[n + 1] = row.cogs /\ g[n + 1] \in Int
  BY <1>1 DEF Reversed, RefundRows
<1>4. /\ \A i \in 1..n : i \in R <=> i \in S
      /\ n + 1 \in R <=> row.line = l
  BY <1>1 DEF ReturnsOf
<1> HIDE DEF n, f, g, S, R
<1>5. SumOver(g, n + 1, R) = SumOver(g, n, R) + (IF n + 1 \in R THEN g[n + 1] ELSE 0)
  BY <1>1, <1>2, <1>3, SumOverLast
<1>6. SumOver(g, n, R) = SumOver(f, n, S)
  BY <1>1, <1>2, <1>3, <1>4, SumOverSame
<1>7. OverReturns(Reversed, ReturnsOf(l)) = SumOver(f, n, S)
  BY DEF OverReturns, f, n, S
<1>8. OverReturns(Reversed, ReturnsOf(l))' = SumOver(g, n + 1, R)
  BY <1>1 DEF OverReturns, g, R
<1> QED BY <1>3, <1>4, <1>5, <1>6, <1>7, <1>8

\* An adjustment adds its cost to what was counted in, or to what was written off.
LEMMA AdjustmentAdded ==
  ASSUME BooksTypeOK, BooksTypeOK', NEW change \in Int \ {0}, NEW cost \in Int, NEW reason,
         reason = "OPENING_STOCK" => change > 0,
         Adjustment(change, cost, reason)
  PROVE  /\ OverAdjustments(CountedIn)'
              = OverAdjustments(CountedIn) + (IF change > 0 THEN cost ELSE 0)
         /\ stockWrittenOff(AllTime)'
              = stockWrittenOff(AllTime) - (IF change < 0 THEN cost ELSE 0)
<1> DEFINE row == [at |-> now', change |-> change, costImpact |-> cost, reasonCode |-> reason]
           n == Len(adjustments)
           f == Impact
           g == Impact'
           S == CountedIn
           R == CountedIn'
           V == WriteOffs(AllTime)
           W == WriteOffs(AllTime)'
<1>1. /\ n \in Nat /\ Len(adjustments') = n + 1
      /\ \A i \in 1..n : adjustments'[i] = adjustments[i]
      /\ adjustments'[n + 1] = row
      /\ DOMAIN adjustments = 1..n /\ DOMAIN adjustments' = 1..(n + 1)
  <2>1. adjustments \in Seq(AdjustmentRows) /\ adjustments' \in Seq(AdjustmentRows)
    BY DEF BooksTypeOK
  <2>2. adjustments' = Append(adjustments, row)
    BY DEF Adjustment
  <2> HIDE DEF row
  <2> QED BY <2>1, <2>2
<1>2. \A i \in 1..n : f[i] = adjustments[i].costImpact /\ f[i] \in Int
  BY ColumnTypes
<1>3. /\ \A i \in 1..n : g[i] = f[i]
      /\ g[n + 1] = cost /\ g[n + 1] \in Int
  BY <1>1 DEF Impact
<1>4. /\ \A i \in 1..n : i \in R <=> i \in S
      /\ n + 1 \in R <=> change > 0
  BY <1>1 DEF CountedIn
<1>5. now' \in Moments /\ In(AllTime, now')
  BY ReportsConstants DEF BooksTypeOK, In, AllTime, Moments
<1>6. /\ \A i \in 1..n : i \in W <=> i \in V
      /\ n + 1 \in W <=> change < 0
  <2>1. \A i \in 1..n : i \in W <=> i \in V
    BY <1>1 DEF WriteOffs, Trading
  <2>2. n + 1 \in W <=> (change < 0 /\ reason # "OPENING_STOCK" /\ In(AllTime, now'))
    BY <1>1 DEF WriteOffs, Trading
  <2> QED BY <1>5, <2>1, <2>2
<1> HIDE DEF n, f, g, S, R, V, W
<1>7. /\ SumOver(g, n + 1, R) = SumOver(g, n, R) + (IF n + 1 \in R THEN g[n + 1] ELSE 0)
      /\ SumOver(g, n + 1, W) = SumOver(g, n, W) + (IF n + 1 \in W THEN g[n + 1] ELSE 0)
  BY <1>1, <1>2, <1>3, SumOverLast
<1>8. SumOver(g, n, R) = SumOver(f, n, S) /\ SumOver(g, n, W) = SumOver(f, n, V)
  BY <1>1, <1>2, <1>3, <1>4, <1>6, SumOverSame
<1>9. SumOver(f, n, V) \in Int
  BY <1>1, <1>2, SumOverType
<1>10. /\ OverAdjustments(CountedIn) = SumOver(f, n, S)
       /\ stockWrittenOff(AllTime) = -SumOver(f, n, V)
  BY DEF OverAdjustments, stockWrittenOff, f, n, S, V
<1>11. /\ OverAdjustments(CountedIn)' = SumOver(g, n + 1, R)
       /\ stockWrittenOff(AllTime)' = -SumOver(g, n + 1, W)
  BY <1>1 DEF OverAdjustments, stockWrittenOff, g, R, W
<1>12. OverAdjustments(CountedIn)'
         = OverAdjustments(CountedIn) + (IF change > 0 THEN cost ELSE 0)
  BY <1>3, <1>4, <1>7, <1>8, <1>10, <1>11
<1>13. stockWrittenOff(AllTime)' = stockWrittenOff(AllTime) - (IF change < 0 THEN cost ELSE 0)
  BY <1>3, <1>6, <1>7, <1>8, <1>9, <1>10, <1>11
<1> QED BY <1>12, <1>13

-----------------------------------------------------------------------------
(* The inductive invariant that ties the books to the engine.                *)

\* A sale has its date; a sale that was undone has had no return, and a return is
\* of a line that had one; a service gives no paper back; the cost of a sale is
\* that of the units it drew, and what its returns reversed of it, of those back.
SalesDated == \A l \in Lines : kind[l] # "none" => soldAt[l] \in Moments
VoidsClean == \A l \in Lines : status[l] = "VOIDED" => returnedQty[l] = 0
RefundsStand == \A i \in 1..Len(refunds) : returnedQty[refunds[i].line] > 0
ServicesKeepPaper ==
  \A l \in Lines : kind[l] = "SERVICE" => \A b \in Batches : returned[l][b] = 0
CostsMatch == \A l \in Lines : kind[l] # "none" => totalCogs[l] = CostOf(allocated[l])
ReversedMatch ==
  \A l \in Lines : OverReturns(Reversed, ReturnsOf(l)) = CostOf(returned[l])

LineBooks ==
  /\ SalesDated /\ VoidsClean /\ RefundsStand /\ ServicesKeepPaper
  /\ CostsMatch /\ ReversedMatch

\* A purchase has its date, an unused or undone batch holds nothing; the positive
\* adjustments cost what the batches counted in do, the negative ones what was
\* written off of all batches.
Counted == [b \in Batches |-> IF origin[b] = "purchase" THEN 0 ELSE quantity[b]]
GoodsDated == \A b \in Batches : origin[b] = "purchase" => bought[b] \in Moments
GoneEmpty == \A b \in Batches : origin[b] \in {"none", "removed"} => quantity[b] = 0
CountedMatch == OverAdjustments(CountedIn) = CostOf(Counted)
WrittenOffMatch == stockWrittenOff(AllTime) = CostOf(writtenOff)

StockBooks == GoodsDated /\ GoneEmpty /\ CountedMatch /\ WrittenOffMatch

BooksInv == IInv /\ BooksTypeOK /\ LineBooks /\ StockBooks

\* An entry that is no sale, void or return leaves the books of the lines alone.
LEMMA LineBooksFrame ==
  LineBooks /\ UNCHANGED <<lineVars, soldAt, totalCogs, refunds>> => LineBooks'
BY DEF LineBooks, SalesDated, VoidsClean, RefundsStand, ServicesKeepPaper, CostsMatch,
       ReversedMatch, OverReturns, Reversed, ReturnsOf, lineVars

\* An entry that moves no goods in, and writes none off, those of the batches.
LEMMA StockBooksFrame ==
  StockBooks /\ UNCHANGED <<origin, quantity, writtenOff, bought, adjustments>> => StockBooks'
BY DEF StockBooks, GoodsDated, GoneEmpty, CountedMatch, WrittenOffMatch, Counted,
       OverAdjustments, Impact, CountedIn, stockWrittenOff, WriteOffs, Trading

\* A sale is entered at the cost of the units it drew.
LEMMA SaleKeepsBooks ==
  ASSUME BooksInv, BooksTypeOK', NEW l \in Lines, NEW n \in Qty, NEW d \in Discounts,
         BookSale(l, n, d)
  PROVE  LineBooks' /\ StockBooks'
<1>1. PICK k \in {"PRODUCT", "SERVICE"} :
        /\ kind' = [kind EXCEPT ![l] = k]
        /\ allocated' = [allocated EXCEPT ![l] = FifoTake(n)]
        /\ UNCHANGED <<origin, quantity, writtenOff, returnedQty, status, returned>>
        /\ kind[l] = "none"
  BY DEF BookSale, SellProduct, SellService, RingUp
<1>2. /\ soldAt' = [soldAt EXCEPT ![l] = now']
      /\ totalCogs' = [totalCogs EXCEPT ![l] = CostOf(FifoTake(n))]
      /\ UNCHANGED <<bought, refunds, adjustments>>
      /\ now' \in Moments
  BY EntryTypes DEF BookSale, rows, BooksInv
<1>3. TypeOK /\ BooksTypeOK /\ LineRules /\ LineBooks /\ StockBooks
  BY DEF BooksInv, BooksTypeOK, IInv
<1>4. StockBooks'
  BY <1>1, <1>2, <1>3, StockBooksFrame
<1>5. /\ kind'[l] = k /\ soldAt'[l] = now'
      /\ totalCogs'[l] = CostOf(FifoTake(n)) /\ allocated'[l] = FifoTake(n)
      /\ \A m \in Lines \ {l} : /\ kind'[m] = kind[m] /\ soldAt'[m] = soldAt[m]
                                /\ totalCogs'[m] = totalCogs[m] /\ allocated'[m] = allocated[m]
  BY <1>1, <1>2, <1>3 DEF TypeOK, BooksTypeOK
<1>6. \A b \in Batches : returned[l][b] = 0
  BY <1>1, <1>3 DEF LineRules, TypeOK
<1>7. SalesDated' /\ VoidsClean' /\ RefundsStand'
  BY <1>1, <1>2, <1>3, <1>5 DEF LineBooks, SalesDated, VoidsClean, RefundsStand
<1>8. ServicesKeepPaper'
  BY <1>1, <1>3, <1>5, <1>6 DEF LineBooks, ServicesKeepPaper
<1>9. CostsMatch'
  BY <1>3, <1>5 DEF LineBooks, CostsMatch
<1>10. ReversedMatch'
  BY <1>1, <1>2, <1>3 DEF LineBooks, ReversedMatch, OverReturns, Reversed, ReturnsOf
<1> QED BY <1>4, <1>7, <1>8, <1>9, <1>10 DEF LineBooks

\* A void leaves what was drawn on record, of a sale nothing came back of.
LEMMA SaleVoidKeepsBooks ==
  ASSUME BooksInv, NEW l \in Lines, BookSaleVoid(l)
  PROVE  LineBooks' /\ StockBooks'
<1>1. /\ returnedQty[l] = 0
      /\ status' = [status EXCEPT ![l] = "VOIDED"]
      /\ UNCHANGED <<origin, quantity, writtenOff, kind, returnedQty, allocated, returned>>
      /\ UNCHANGED <<bought, soldAt, totalCogs, refunds, adjustments>>
  BY DEF BookSaleVoid, VoidSale, takings, rows
<1>2. TypeOK /\ LineBooks /\ StockBooks
  BY DEF BooksInv, BooksTypeOK
<1>3. StockBooks'
  BY <1>1, <1>2, StockBooksFrame
<1>4. SalesDated' /\ RefundsStand' /\ ServicesKeepPaper' /\ CostsMatch'
  BY <1>1, <1>2 DEF LineBooks, SalesDated, RefundsStand, ServicesKeepPaper, CostsMatch
<1>5. VoidsClean'
  BY <1>1, <1>2 DEF LineBooks, VoidsClean, TypeOK
<1>6. ReversedMatch'
  BY <1>1, <1>2 DEF LineBooks, ReversedMatch, OverReturns, Reversed, ReturnsOf
<1> QED BY <1>3, <1>4, <1>5, <1>6 DEF LineBooks

\* A return reverses the cost of the units it puts back on the batches.
LEMMA ReturnKeepsBooks ==
  ASSUME BooksInv, BooksTypeOK', NEW l \in Lines, NEW n \in Qty, BookReturn(l, n)
  PROVE  LineBooks' /\ StockBooks'
<1>1. TypeOK /\ BooksTypeOK /\ LineBooks /\ StockBooks
  BY DEF BooksInv, BooksTypeOK
<1>2. /\ ReturnProduct(l, n) \/ ReturnService(l, n)
      /\ UNCHANGED <<bought, soldAt, totalCogs, adjustments>>
  BY DEF BookReturn, takings
<1>3. /\ Back(l) \in [Batches -> Nat]
      /\ \A b \in Batches : returned'[l][b] = returned[l][b] + Back(l)[b]
      /\ \A m \in Lines \ {l} : returned'[m] = returned[m]
      /\ kind[l] = "SERVICE" => \A b \in Batches : Back(l)[b] = 0
      /\ status[l] # "VOIDED" /\ returnedQty'[l] > 0
      /\ \A m \in Lines \ {l} : returnedQty'[m] = returnedQty[m]
      /\ UNCHANGED <<kind, status, allocated, writtenOff, origin, quantity>>
  BY <1>1, <1>2, BackTypes
<1>4. StockBooks'
  BY <1>1, <1>2, <1>3, StockBooksFrame
<1> DEFINE row == ReturnRow(l, n)
<1>5. refunds' = Append(refunds, row) /\ row \in RefundRows
  BY <1>1, ReturnTypes
<1>6. row.line = l /\ row.cogs = CostOf(Back(l))
  BY DEF ReturnRow
<1> HIDE DEF row
<1>7. SalesDated' /\ VoidsClean'
  BY <1>1, <1>2, <1>3 DEF LineBooks, SalesDated, VoidsClean
<1>8. CostsMatch'
  BY <1>1, <1>2, <1>3 DEF LineBooks, CostsMatch
<1>9. RefundsStand'
  <2>1. /\ Len(refunds') = Len(refunds) + 1 /\ Len(refunds) \in Nat
        /\ \A i \in 1..Len(refunds) : refunds'[i] = refunds[i] /\ refunds[i].line \in Lines
        /\ refunds'[Len(refunds) + 1].line = l
    <3>1. refunds \in Seq(RefundRows)
      BY <1>1 DEF BooksTypeOK
    <3>2. \A i \in 1..Len(refunds) : refunds[i] \in RefundRows
      BY <3>1
    <3>3. \A i \in 1..Len(refunds) : refunds[i].line \in Lines
      BY <3>2 DEF RefundRows
    <3> QED BY <1>5, <1>6, <3>1, <3>3, AppendProperties
  <2>2. \A m \in Lines : returnedQty[m] > 0 => returnedQty'[m] > 0
    BY <1>3
  <2> QED BY <1>1, <1>3, <2>1, <2>2 DEF LineBooks, RefundsStand
<1>10. ServicesKeepPaper'
  <2>1. \A b \in Batches : returned[l][b] \in Nat
    BY <1>1 DEF TypeOK
  <2> QED BY <1>1, <1>3, <2>1 DEF LineBooks, ServicesKeepPaper
<1>11. ReversedMatch'
  <2> SUFFICES ASSUME NEW m \in Lines
               PROVE  OverReturns(Reversed, ReturnsOf(m))' = CostOf(returned'[m])
    BY DEF ReversedMatch
  <2>1. OverReturns(Reversed, ReturnsOf(m))'
          = OverReturns(Reversed, ReturnsOf(m)) + (IF m = l THEN CostOf(Back(l)) ELSE 0)
    BY <1>1, <1>5, <1>6, RefundAdded
  <2>2. OverReturns(Reversed, ReturnsOf(m)) = CostOf(returned[m])
    BY <1>1 DEF LineBooks, ReversedMatch
  <2>3. returned[m] \in [Batches -> Nat]
    BY <1>1 DEF TypeOK
  <2>4. CostOf(returned[m]) \in Int
    BY <2>3, CostType
  <2>5. CASE m = l
    <3>1. \A b \in Batches : /\ returned[l][b] \in Int /\ Back(l)[b] \in Int
                             /\ returned'[l][b] = returned[l][b] + Back(l)[b]
      BY <1>3, <2>3, <2>5
    <3>2. CostOf(returned'[l]) = CostOf(returned[l]) + CostOf(Back(l))
      BY <3>1, CostAdd
    <3> QED BY <2>1, <2>2, <2>5, <3>2
  <2>6. CASE m # l
    BY <1>3, <2>1, <2>2, <2>4, <2>6
  <2> QED BY <2>5, <2>6
<1> QED BY <1>4, <1>7, <1>8, <1>9, <1>10, <1>11 DEF LineBooks

\* Goods bought are not counted in, and goods counted in are adjusted in.
LEMMA GoodsInKeepBooks ==
  ASSUME BooksInv, BooksTypeOK', NEW b \in Batches, NEW n \in Qty,
         BookPurchase(b, n) \/ BookAdjustUp(b, n) \/ BookOpeningStock(b, n)
  PROVE  LineBooks' /\ StockBooks'
<1>1. /\ TypeOK /\ BooksTypeOK /\ LineBooks /\ StockBooks
      /\ n \in Int \ {0} /\ n \in Nat /\ n > 0
  BY DEF BooksInv, BooksTypeOK, Qty
<1>2. PICK from \in {"purchase", "adjustment", "opening"} :
        /\ origin[b] = "none"
        /\ origin' = [origin EXCEPT ![b] = from]
        /\ quantity' = [quantity EXCEPT ![b] = n]
        /\ BookPurchase(b, n) <=> from = "purchase"
  <2>1. CASE BookPurchase(b, n)
    BY <2>1 DEF BookPurchase, CreatePurchase, AddBatch
  <2>2. CASE ~ BookPurchase(b, n) /\ BookAdjustUp(b, n)
    BY <2>2 DEF BookAdjustUp, AdjustUp, AddBatch
  <2>3. CASE ~ BookPurchase(b, n) /\ BookOpeningStock(b, n)
    BY <2>3 DEF BookOpeningStock, RecordOpeningStock, AddBatch
  <2> QED BY <2>1, <2>2, <2>3
<1>3. UNCHANGED <<lineVars, writtenOff, soldAt, totalCogs, refunds>>
  BY DEF BookPurchase, CreatePurchase, BookAdjustUp, AdjustUp, BookOpeningStock,
         RecordOpeningStock, AddBatch, takings, rows
<1>4. LineBooks'
  BY <1>1, <1>3, LineBooksFrame
<1>5. PICK date \in 1..now' : DateBatch(b, date)
  <2>1. now' \in 1..now'
    BY <1>1, EntryTypes DEF BookPurchase, BookAdjustUp, BookOpeningStock, Moments
  <2> QED BY <2>1 DEF BookPurchase, BookAdjustUp, BookOpeningStock
<1>6. date \in Moments /\ bought' = [bought EXCEPT ![b] = date]
  <2>1. now' \in Moments
    BY <1>1, EntryTypes DEF BookPurchase, BookAdjustUp, BookOpeningStock
  <2>2. date \in Moments
    BY <2>1, ReportsConstants DEF Moments
  <2>3. bought' = [bought EXCEPT ![b] = date]
    BY <1>5 DEF DateBatch
  <2> QED BY <2>2, <2>3
<1>7. quantity[b] = 0 /\ \A c \in Batches : quantity[c] \in Nat
  BY <1>1, <1>2 DEF StockBooks, GoneEmpty, TypeOK
<1>8. GoodsDated' /\ GoneEmpty'
  BY <1>1, <1>2, <1>6 DEF StockBooks, GoodsDated, GoneEmpty, TypeOK, BooksTypeOK
<1>9. \A c \in Batches :
        /\ Counted[c] \in Int
        /\ Counted'[c] = IF c = b /\ from # "purchase" THEN Counted[c] + n ELSE Counted[c]
  BY <1>1, <1>2, <1>7 DEF Counted, TypeOK
<1>10. WrittenOffMatch /\ CountedMatch
  BY <1>1 DEF StockBooks
<1>11. CASE from = "purchase"
  <2>1. UNCHANGED adjustments
    BY <1>2, <1>11 DEF BookPurchase, rows
  <2>2. CostOf(Counted') = CostOf(Counted)
    BY <1>9, <1>11, CostSame
  <2>3. CountedMatch' /\ WrittenOffMatch'
    BY <1>3, <1>10, <2>1, <2>2
       DEF CountedMatch, WrittenOffMatch, OverAdjustments, Impact, CountedIn, stockWrittenOff,
           WriteOffs, Trading
  <2> QED BY <1>4, <1>8, <2>3 DEF StockBooks
<1>12. CASE from # "purchase"
  <2>1. \E reason : Adjustment(n, n * pieceCost[b], reason)
    BY <1>2, <1>12 DEF BookAdjustUp, BookOpeningStock
  <2>2. n * pieceCost[b] \in Int
    <3>1. pieceCost[b] \in Int
      BY PieceCostType
    <3> QED BY <1>1, <3>1
  <2>3. CostOf(Counted') = CostOf(Counted) + n * pieceCost[b]
    <3>1. \A c \in Batches : Counted[c] \in Int
                               /\ Counted'[c] = IF c = b THEN Counted[c] + n ELSE Counted[c]
      BY <1>9, <1>12
    <3> QED BY <1>1, <3>1, CostOfOne
  <2>4. /\ OverAdjustments(CountedIn)' = OverAdjustments(CountedIn) + n * pieceCost[b]
        /\ stockWrittenOff(AllTime)' = stockWrittenOff(AllTime) - 0
    BY <1>1, <2>1, <2>2, AdjustmentAdded
  <2>5. CountedMatch'
    BY <1>10, <2>3, <2>4 DEF CountedMatch
  <2>6. WrittenOffMatch'
    <3>1. stockWrittenOff(AllTime) \in Int
      BY <1>1, LossIsTrading
    <3> QED BY <1>3, <1>10, <2>4, <3>1 DEF WrittenOffMatch
  <2> QED BY <1>4, <1>8, <2>5, <2>6 DEF StockBooks
<1> QED BY <1>11, <1>12

\* A purchase that is undone was never counted in.
LEMMA PurchaseVoidKeepsBooks ==
  ASSUME BooksInv, NEW b \in Batches, BookPurchaseVoid(b)
  PROVE  LineBooks' /\ StockBooks'
<1>1. TypeOK /\ LineBooks /\ StockBooks
  BY DEF BooksInv, BooksTypeOK
<1>2. /\ origin[b] = "purchase"
      /\ origin' = [origin EXCEPT ![b] = "removed"]
      /\ quantity' = [quantity EXCEPT ![b] = 0]
      /\ UNCHANGED <<writtenOff, lineVars, bought, soldAt, totalCogs, refunds, adjustments>>
  BY DEF BookPurchaseVoid, VoidPurchase, takings, rows
<1>3. LineBooks'
  BY <1>1, <1>2, LineBooksFrame
<1>4. GoodsDated' /\ GoneEmpty'
  BY <1>1, <1>2 DEF StockBooks, GoodsDated, GoneEmpty, TypeOK
<1>5. \A c \in Batches : Counted[c] \in Int /\ Counted'[c] = Counted[c]
  BY <1>1, <1>2 DEF Counted, TypeOK
<1>6. CostOf(Counted') = CostOf(Counted)
  BY <1>5, CostSame
<1>7. CountedMatch' /\ WrittenOffMatch'
  BY <1>1, <1>2, <1>6
     DEF StockBooks, CountedMatch, WrittenOffMatch, OverAdjustments, Impact, CountedIn,
         stockWrittenOff, WriteOffs, Trading
<1> QED BY <1>3, <1>4, <1>7 DEF StockBooks

\* A write-off costs the units it takes from the batches.
LEMMA WriteOffKeepsBooks ==
  ASSUME BooksInv, BooksTypeOK', NEW n \in Qty, BookAdjustDown(n) \/ BookWastage(n)
  PROVE  LineBooks' /\ StockBooks'
<1>1. TypeOK /\ BooksTypeOK /\ LineBooks /\ StockBooks
  BY DEF BooksInv, BooksTypeOK
<1>2. /\ \E reason \in {"COUNT_CORRECTION", "JAM"} :
           Adjustment(-n, -CostOf(FifoTake(n)), reason)
      /\ UNCHANGED <<origin, quantity, lineVars, bought, soldAt, totalCogs, refunds>>
      /\ writtenOff' = [c \in Batches |-> writtenOff[c] + FifoTake(n)[c]]
  BY DEF BookAdjustDown, BookWastage, AdjustDown, RecordWastage, WriteOff, takings
<1>3. LineBooks'
  BY <1>1, <1>2, LineBooksFrame
<1>4. n \in Nat /\ n > 0 /\ -n \in Int \ {0} /\ -n < 0 /\ ~ (-n > 0)
  BY DEF Qty
<1>5. CostOf(FifoTake(n)) \in Nat
  BY <1>1, TakeCost
<1> DEFINE cost == CostOf(FifoTake(n))
<1>6. cost \in Int /\ -cost \in Int
  BY <1>5
<1>7. /\ OverAdjustments(CountedIn)' = OverAdjustments(CountedIn) + 0
      /\ stockWrittenOff(AllTime)' = stockWrittenOff(AllTime) - (-cost)
  <2>1. \E reason \in {"COUNT_CORRECTION", "JAM"} : Adjustment(-n, -cost, reason)
    BY <1>2
  <2> HIDE DEF cost
  <2> QED BY <1>1, <1>4, <1>6, <2>1, AdjustmentAdded
<1>8. \A c \in Batches : /\ writtenOff[c] \in Int /\ FifoTake(n)[c] \in Int
                         /\ writtenOff'[c] = writtenOff[c] + FifoTake(n)[c]
  <2>1. FifoTake(n) \in [Batches -> Nat]
    BY <1>1, <1>4, FifoTakes
  <2> QED BY <1>1, <1>2, <2>1 DEF TypeOK
<1>9. CostOf(writtenOff') = CostOf(writtenOff) + cost
  BY <1>8, CostAdd
<1>10. Counted' = Counted
  BY <1>2 DEF Counted
<1>11. OverAdjustments(CountedIn) \in Int /\ stockWrittenOff(AllTime) \in Int
  <2>1. Counted \in [Batches -> Nat]
    BY <1>1 DEF Counted, TypeOK
  <2>2. CostOf(Counted) \in Int
    BY <2>1, CostType
  <2> QED BY <1>1, <2>2, LossIsTrading DEF StockBooks, CountedMatch
<1>12. GoodsDated' /\ GoneEmpty'
  BY <1>1, <1>2 DEF StockBooks, GoodsDated, GoneEmpty
<1> HIDE DEF cost
<1>13. CountedMatch'
  BY <1>1, <1>7, <1>10, <1>11 DEF StockBooks, CountedMatch
<1>14. WrittenOffMatch'
  BY <1>1, <1>6, <1>7, <1>9, <1>11 DEF StockBooks, WrittenOffMatch
<1> QED BY <1>3, <1>12, <1>13, <1>14 DEF StockBooks

\* Every entry keeps the books and the engine in step.
LEMMA BooksInvStep ==
  BooksInv /\ [BooksNext]_bookVars => BooksInv'
<1> SUFFICES ASSUME BooksInv, [BooksNext]_bookVars PROVE BooksInv'
  OBVIOUS
<1>1. IInv' /\ BooksTypeOK'
  BY EntryIsEngineStep, InvariantStep, BooksTypeStep DEF BooksInv
<1>2. LineBooks' /\ StockBooks'
  <2>1. ASSUME NEW b \in Batches, NEW n \in Qty,
               BookPurchase(b, n) \/ BookAdjustUp(b, n) \/ BookOpeningStock(b, n)
        PROVE  LineBooks' /\ StockBooks'
    BY <1>1, <2>1, GoodsInKeepBooks
  <2>2. ASSUME NEW b \in Batches, BookPurchaseVoid(b) PROVE LineBooks' /\ StockBooks'
    BY <2>2, PurchaseVoidKeepsBooks
  <2>3. ASSUME NEW n \in Qty, BookAdjustDown(n) \/ BookWastage(n)
        PROVE  LineBooks' /\ StockBooks'
    BY <1>1, <2>3, WriteOffKeepsBooks
  <2>4. ASSUME NEW l \in Lines, NEW n \in Qty, BookReturn(l, n)
        PROVE  LineBooks' /\ StockBooks'
    BY <1>1, <2>4, ReturnKeepsBooks
  <2>5. ASSUME NEW l \in Lines, NEW n \in Qty, NEW d \in Discounts, BookSale(l, n, d)
        PROVE  LineBooks' /\ StockBooks'
    BY <1>1, <2>5, SaleKeepsBooks
  <2>6. ASSUME NEW l \in Lines, BookSaleVoid(l) PROVE LineBooks' /\ StockBooks'
    BY <2>6, SaleVoidKeepsBooks
  <2>7. ASSUME UNCHANGED <<vars, bought, soldAt, totalCogs, refunds, adjustments>>
        PROVE  LineBooks' /\ StockBooks'
    BY <2>7, LineBooksFrame, StockBooksFrame DEF BooksInv, vars, batchVars
  <2>8. ASSUME NEW date \in Moments, BookExpense(date) PROVE LineBooks' /\ StockBooks'
    BY <2>7, <2>8 DEF BookExpense, takings
  <2>9. CASE UNCHANGED bookVars
    BY <2>7, <2>9 DEF bookVars, dates, takings, rows
  <2> QED BY <2>1, <2>2, <2>3, <2>4, <2>5, <2>6, <2>8, <2>9 DEF BooksNext
<1> QED BY <1>1, <1>2 DEF BooksInv

\* Empty books match an empty shelf.
LEMMA BooksInvInit ==
  BooksInit => BooksInv
<1> SUFFICES ASSUME BooksInit PROVE BooksInv
  OBVIOUS
<1>1. IInv /\ BooksTypeOK
  <2>1. IInv
    BY InvariantInit DEF BooksInit
  <2>2. \A S : <<>> \in Seq(S)
    OBVIOUS
  <2> QED BY <2>1, <2>2, ReportsConstants DEF BooksInit, BooksTypeOK, Moments, IInv
<1>2. /\ \A l \in Lines : kind[l] = "none" /\ status[l] = "COMPLETED"
      /\ \A l \in Lines : returned[l] = NoUnits
      /\ \A b \in Batches : origin[b] = "none" /\ quantity[b] = 0
      /\ writtenOff = NoUnits
      /\ refunds = <<>> /\ adjustments = <<>>
  BY DEF BooksInit, Init, NoUnits
<1>3. Len(refunds) = 0 /\ Len(adjustments) = 0
  BY <1>2
<1>4. \A f, S : SumOver(f, 0, S) = 0
  BY SumOverZero
<1>5. CostOf(NoUnits) = 0 /\ CostOf(Counted) = 0
  <2>1. \A b \in Batches : NoUnits[b] = 0 /\ Counted[b] = 0
    BY <1>2 DEF NoUnits, Counted
  <2> QED BY <2>1, CostZero
<1>6. LineBooks
  BY <1>2, <1>3, <1>4, <1>5
     DEF LineBooks, SalesDated, VoidsClean, RefundsStand, ServicesKeepPaper, CostsMatch,
         ReversedMatch, OverReturns
<1>7. StockBooks
  BY <1>2, <1>3, <1>4, <1>5
     DEF StockBooks, GoodsDated, GoneEmpty, CountedMatch, WrittenOffMatch, OverAdjustments,
         stockWrittenOff
<1> QED BY <1>1, <1>6, <1>7 DEF BooksInv

\* The books and the engine stay in step.
LEMMA BooksInductive == BooksSpec => []BooksInv
BY BooksInvInit, BooksInvStep, PTL DEF BooksSpec

-----------------------------------------------------------------------------
(* Sales and their returns, line by line.                                    *)

\* Every return on the books is of a sale that counts, and is dated.
LEMMA RefundsOfSales ==
  ASSUME BooksInv
  PROVE  \A i \in 1..Len(refunds) :
           /\ refunds[i].line \in Lines /\ refunds[i].line \in Completed(AllTime)
           /\ i \in Returns(AllTime)
<1> SUFFICES ASSUME NEW i \in 1..Len(refunds)
             PROVE  /\ refunds[i].line \in Lines /\ refunds[i].line \in Completed(AllTime)
                    /\ i \in Returns(AllTime)
  OBVIOUS
<1>1. /\ BooksTypeOK /\ TypeOK /\ LineRules /\ SalesDated /\ VoidsClean /\ RefundsStand
  BY DEF BooksInv, BooksTypeOK, IInv, LineBooks
<1>2. /\ refunds[i] \in RefundRows /\ DOMAIN refunds = 1..Len(refunds)
  BY <1>1, ColumnTypes
<1>3. refunds[i].line \in Lines /\ refunds[i].at \in Moments
  BY <1>2 DEF RefundRows
<1>4. \A t \in Moments : In(AllTime, t)
  BY ReportsConstants DEF In, AllTime, Moments
<1>5. i \in Returns(AllTime)
  BY <1>2, <1>3, <1>4 DEF Returns
<1> DEFINE l == refunds[i].line
<1>6. l \in Lines /\ returnedQty[l] > 0
  BY <1>1, <1>3 DEF RefundsStand
<1> HIDE DEF l
<1>7. status[l] = "COMPLETED"
  BY <1>1, <1>6 DEF VoidsClean, TypeOK, Statuses
<1>8. kind[l] # "none"
  BY <1>1, <1>6 DEF LineRules, TypeOK
<1>9. In(AllTime, soldAt[l])
  BY <1>1, <1>4, <1>6, <1>8 DEF SalesDated
<1>10. l \in Completed(AllTime)
  BY <1>6, <1>7, <1>8, <1>9 DEF Completed
<1> QED BY <1>5, <1>6, <1>10 DEF l

\* So whatever came back, added up sale by sale over the sales that count, is all
\* that came back.
LEMMA RefundsByLine ==
  ASSUME BooksInv, NEW f, \A i \in 1..Len(refunds) : f[i] \in Int,
         NEW part, \A l \in Lines : part[l] = OverReturns(f, ReturnsOf(l))
  PROVE  /\ OverSales(part, Completed(AllTime)) = OverReturns(f, Returns(AllTime))
         /\ \A l \in Lines : part[l] \in Int
         /\ OverReturns(f, Returns(AllTime)) \in Int
<1> DEFINE n == Len(refunds)
           S == Returns(AllTime)
           C == Completed(AllTime)
           key == [i \in 1..n |-> refunds[i].line]
           group == [l \in 1..MaxLines |-> ReturnsOf(l)]
<1>1. n \in Nat /\ DOMAIN refunds = 1..n /\ MaxLines \in Nat /\ Lines = 1..MaxLines
  BY ColumnTypes, InventoryConstants DEF BooksInv, Lines
<1>2. \A i \in 1..n : key[i] \in Lines /\ key[i] \in C /\ i \in S
  BY RefundsOfSales
<1>3. Groups(group, MaxLines, key, S, n)
  BY <1>1, <1>2 DEF Groups, ReturnsOf
<1>4. \A l \in 1..MaxLines : part[l] = SumOver(f, n, group[l])
  BY <1>1 DEF OverReturns
<1>5. \A l \in 1..MaxLines : l \notin C => \A i \in 1..n : i \notin group[l]
  BY <1>1, <1>2 DEF ReturnsOf
<1>6. \A i \in 1..n : f[i] \in Int
  OBVIOUS
<1>7. OverReturns(f, Returns(AllTime)) = SumOver(f, n, S)
  BY DEF OverReturns
<1> HIDE DEF n, S, C, key, group
<1>8. Total(part, MaxLines) = SumOver(f, n, S)
  <2>1. \A i \in 1..n : i \in S => f[i] \in Int
    BY <1>6
  <2> QED BY ONLY <1>1, <2>1, <1>3, <1>4, SumOverGroups
<1>9. \A l \in 1..MaxLines : part[l] \in Int /\ (l \notin C => part[l] = 0)
  <2> SUFFICES ASSUME NEW l \in 1..MaxLines
               PROVE  part[l] \in Int /\ (l \notin C => part[l] = 0)
    OBVIOUS
  <2> DEFINE G == group[l]
  <2>1. part[l] = SumOver(f, n, G)
    BY <1>4
  <2>2. l \notin C => \A i \in 1..n : i \notin G
    BY <1>5
  <2> HIDE DEF G
  <2>3. SumOver(f, n, G) \in Int
    BY <1>1, <1>6, SumOverType
  <2>4. ASSUME l \notin C PROVE SumOver(f, n, G) = 0
    BY <1>1, <2>2, <2>4, SumOverZero
  <2> QED BY <2>1, <2>3, <2>4
<1>10. SumOver(part, MaxLines, C) = Total(part, MaxLines)
  <2> DEFINE x == Share(part, MaxLines, C)
  <2>1. SumOver(part, MaxLines, C) = Total(x, MaxLines)
    BY <1>1, <1>9, SumOverType
  <2>2. \A l \in 1..MaxLines : part[l] \in Int /\ x[l] = part[l]
    BY <1>9 DEF Share
  <2> HIDE DEF x
  <2>3. Total(x, MaxLines) = Total(part, MaxLines)
    BY <1>1, <2>2, TotalSame
  <2> QED BY <2>1, <2>3
<1>11. SumOver(f, n, S) \in Int
  BY <1>1, <1>6, SumOverType
<1> QED BY <1>1, <1>7, <1>8, <1>9, <1>10, <1>11 DEF OverSales, C

\* Sales net of their own returns add up to sales net of all returns.
LEMMA SalesNet ==
  ASSUME BooksInv, NEW g, \A l \in Lines : g[l] \in Int,
         NEW f, \A i \in 1..Len(refunds) : f[i] \in Int,
         NEW net, \A l \in Lines : net[l] = g[l] - OverReturns(f, ReturnsOf(l))
  PROVE  /\ OverSales(net, Completed(AllTime))
              = OverSales(g, Completed(AllTime)) - OverReturns(f, Returns(AllTime))
         /\ \A l \in Lines : net[l] \in Int
<1> DEFINE part == [l \in Lines |-> OverReturns(f, ReturnsOf(l))]
           C == Completed(AllTime)
<1>1. \A l \in Lines : part[l] = OverReturns(f, ReturnsOf(l)) /\ net[l] = g[l] - part[l]
  OBVIOUS
<1> HIDE DEF part
<1>2. /\ OverSales(part, C) = OverReturns(f, Returns(AllTime))
      /\ \A l \in Lines : part[l] \in Int
  BY <1>1, RefundsByLine
<1> HIDE DEF C
<1>3. \A l \in 1..MaxLines : g[l] \in Int /\ part[l] \in Int /\ net[l] = g[l] - part[l]
  BY <1>1, <1>2 DEF Lines
<1>4. MaxLines \in Nat
  BY InventoryConstants
<1>5. SumOver(net, MaxLines, C) = SumOver(g, MaxLines, C) - SumOver(part, MaxLines, C)
  BY <1>3, <1>4, SumOverSubtract
<1> QED BY <1>2, <1>3, <1>5 DEF OverSales, C, Lines

\* The cost a sale still carries is that of the units the customer kept.
LEMMA CostKept ==
  ASSUME BooksInv, NEW l \in Lines, kind[l] # "none"
  PROVE  /\ LineCogs[l] = CostOf(Returnable(l))
         /\ kind[l] = "SERVICE" => LineCogs[l] = totalCogs[l]
<1>1. /\ TypeOK /\ CostsMatch /\ ReversedMatch /\ ServicesKeepPaper
  BY DEF BooksInv, LineBooks, BooksTypeOK
<1>2. allocated[l] \in [Batches -> Nat] /\ returned[l] \in [Batches -> Nat]
  BY <1>1 DEF TypeOK
<1>3. LineCogs[l] = CostOf(allocated[l]) - CostOf(returned[l])
  BY <1>1 DEF LineCogs, CostsMatch, ReversedMatch
<1>4. \A b \in Batches : /\ Returnable(l)[b] \in Int /\ returned[l][b] \in Int
                         /\ allocated[l][b] = Returnable(l)[b] + returned[l][b]
  BY <1>2 DEF Returnable
<1>5. CostOf(allocated[l]) = CostOf(Returnable(l)) + CostOf(returned[l])
  BY <1>4, CostAdd
<1>6. CostOf(Returnable(l)) \in Int /\ CostOf(returned[l]) \in Int /\ CostOf(allocated[l]) \in Int
  BY <1>2, <1>4, CostType
<1>7. ASSUME kind[l] = "SERVICE" PROVE LineCogs[l] = totalCogs[l]
  <2>1. CostOf(returned[l]) = 0
    BY <1>1, <1>7, CostZero DEF ServicesKeepPaper
  <2>2. totalCogs[l] = CostOf(allocated[l])
    BY <1>1 DEF CostsMatch
  <2> QED BY <1>3, <1>6, <2>1, <2>2
<1> QED BY <1>3, <1>5, <1>6, <1>7

\* The cost of goods sold, sale by sale.
LEMMA CogsByLine ==
  ASSUME BooksInv
  PROVE  /\ Cogs(AllTime) = OverSales(LineCogs, Completed(AllTime))
         /\ \A l \in Lines : LineCogs[l] \in Int
<1>1. /\ \A l \in Lines : totalCogs[l] \in Int
      /\ \A i \in 1..Len(refunds) : Reversed[i] \in Int
  BY ColumnTypes DEF BooksInv, BooksTypeOK
<1>2. \A l \in Lines : LineCogs[l] = totalCogs[l] - OverReturns(Reversed, ReturnsOf(l))
  BY DEF LineCogs
<1> QED BY <1>1, <1>2, SalesNet DEF Cogs

-----------------------------------------------------------------------------
(* Where the value of the goods is.                                          *)

\* Purchases, at what their pieces are carried at.
LEMMA PurchasesAtCost ==
  ASSUME BooksInv
  PROVE  PurchaseCost - Rounding + CostOf(Counted) = CostOf(quantity)
<1> DEFINE S == Purchases(AllTime)
           spent == [b \in Batches |-> totalCost(b)]
           odd == [b \in Batches |-> totalCost(b) - quantity[b] * pieceCost[b]]
           h == [b \in Batches |-> quantity[b] * pieceCost[b]]
           Bought == [b \in Batches |-> IF origin[b] = "purchase" THEN quantity[b] ELSE 0]
           c == [b \in Batches |-> Bought[b] * pieceCost[b]]
<1>1. /\ TypeOK /\ BooksTypeOK /\ GoodsDated /\ MaxBatches \in Nat /\ Batches = 1..MaxBatches
  BY InventoryConstants DEF BooksInv, BooksTypeOK, StockBooks, Batches
<1>2. ASSUME NEW b \in Batches
      PROVE  /\ spent[b] \in Int /\ odd[b] \in Int /\ h[b] \in Int /\ h[b] = spent[b] - odd[b]
             /\ c[b] = IF b \in S THEN h[b] ELSE 0
             /\ Bought[b] \in Int /\ Counted[b] \in Int /\ quantity[b] = Bought[b] + Counted[b]
  <2>1. /\ quantity[b] \in Nat /\ pieceCost[b] \in Nat
        /\ PackSize[b] \in Nat \ {0} /\ PackCost[b] \in Nat
    BY <1>1, PieceCostType, ReportsConstants DEF TypeOK
  <2>2. quantity[b] \div PackSize[b] \in Int
    BY <2>1
  <2>3. \A i, j \in Int : i * j \in Int
    OBVIOUS
  <2>4. totalCost(b) \in Int
    BY <2>1, <2>2, <2>3 DEF totalCost
  <2>5. quantity[b] * pieceCost[b] \in Int
    BY <2>1, <2>3
  <2>6. b \in S <=> origin[b] = "purchase"
    <3>1. \A t \in Moments : In(AllTime, t)
      BY ReportsConstants DEF In, AllTime, Moments
    <3> QED BY <1>1, <3>1 DEF Purchases, GoodsDated
  <2>7. c[b] = IF b \in S THEN h[b] ELSE 0
    <3>1. 0 * pieceCost[b] = 0
      BY <2>1
    <3> QED BY <2>6, <3>1
  <2>8. Bought[b] \in Int /\ Counted[b] \in Int /\ quantity[b] = Bought[b] + Counted[b]
    BY <2>1 DEF Counted
  <2>9. spent[b] = totalCost(b) /\ h[b] = quantity[b] * pieceCost[b]
          /\ odd[b] = totalCost(b) - quantity[b] * pieceCost[b]
    OBVIOUS
  <2> HIDE DEF spent, odd, h, c, S, Bought
  <2>10. odd[b] \in Int /\ h[b] = spent[b] - odd[b]
    <3> DEFINE q == quantity[b] * pieceCost[b]
               t == totalCost(b)
    <3>1. q \in Int /\ t \in Int /\ odd[b] = t - q /\ spent[b] = t /\ h[b] = q
      BY <2>4, <2>5, <2>9
    <3> HIDE DEF q, t
    <3> QED BY <3>1
  <2> QED BY <2>4, <2>5, <2>7, <2>8, <2>9, <2>10
<1>3. PurchaseCost = SumOver(spent, MaxBatches, S) /\ Rounding = SumOver(odd, MaxBatches, S)
  BY DEF PurchaseCost, Rounding
<1>4. CostOf(Bought) = Total(c, MaxBatches)
  BY DEF CostOf
<1> HIDE DEF S, spent, odd, h, c, Bought
<1>5. SumOver(h, MaxBatches, S) = SumOver(spent, MaxBatches, S) - SumOver(odd, MaxBatches, S)
  BY <1>1, <1>2, SumOverSubtract
<1>6. SumOver(h, MaxBatches, S) = Total(c, MaxBatches)
  <2> DEFINE x == Share(h, MaxBatches, S)
  <2>1. SumOver(h, MaxBatches, S) = Total(x, MaxBatches)
    BY <1>1, <1>2, SumOverType
  <2>2. \A b \in 1..MaxBatches : x[b] \in Int /\ c[b] = x[b]
    BY <1>1, <1>2 DEF Share
  <2> HIDE DEF x
  <2>3. Total(c, MaxBatches) = Total(x, MaxBatches)
    BY <1>1, <2>2, TotalSame
  <2> QED BY <2>1, <2>3
<1>7. CostOf(quantity) = CostOf(Bought) + CostOf(Counted)
  BY <1>2, CostAdd
<1> QED BY <1>3, <1>4, <1>5, <1>6, <1>7

\* What a line holds of every batch.
HeldOf(l) == [b \in Batches |-> Holds(l, b)]

\* What all lines hold of a batch costs what each of them holds of every batch.
LEMMA HeldCost ==
  ASSUME TypeOK, LineRules
  PROVE  CostOf([b \in Batches |-> Held(b)])
           = Total([l \in Lines |-> CostOf(HeldOf(l))], MaxLines)
<1> DEFINE F == [b \in 1..MaxBatches |-> [l \in 1..MaxLines |-> Holds(l, b) * pieceCost[b]]]
           byBatch == [b \in 1..MaxBatches |-> Total(F[b], MaxLines)]
           ofLine(l) == [b \in 1..MaxBatches |-> F[b][l]]
           byLine == [l \in 1..MaxLines |-> Total(ofLine(l), MaxBatches)]
           all == [b \in Batches |-> Held(b)]
           c == [b \in Batches |-> all[b] * pieceCost[b]]
           each == [l \in Lines |-> CostOf(HeldOf(l))]
<1>1. /\ MaxBatches \in Nat /\ MaxLines \in Nat
      /\ Batches = 1..MaxBatches /\ Lines = 1..MaxLines
  BY InventoryConstants DEF Batches, Lines
<1>2. \A b \in 1..MaxBatches : \A l \in 1..MaxLines :
        F[b][l] = Holds(l, b) * pieceCost[b] /\ F[b][l] \in Int
  <2> SUFFICES ASSUME NEW b \in 1..MaxBatches, NEW l \in 1..MaxLines
               PROVE  F[b][l] = Holds(l, b) * pieceCost[b] /\ F[b][l] \in Int
    OBVIOUS
  <2>1. Holds(l, b) \in Int /\ pieceCost[b] \in Int
    BY <1>1, HeldType, PieceCostType
  <2>2. \A i, j \in Int : i * j \in Int
    OBVIOUS
  <2> QED BY <2>1, <2>2
<1>3. Total(byBatch, MaxBatches) = Total(byLine, MaxLines)
  <2> HIDE DEF F
  <2> QED BY <1>1, <1>2, TotalSwap
<1>4. ASSUME NEW b \in 1..MaxBatches PROVE byBatch[b] \in Int /\ c[b] = byBatch[b]
  <2> DEFINE k == pieceCost[b]
             H == [l \in Lines |-> Holds(l, b)]
             row == F[b]
  <2>1. k \in Int /\ c[b] = Held(b) * k /\ Held(b) = Total(H, MaxLines) /\ byBatch[b] = Total(row, MaxLines)
    BY <1>1, PieceCostType DEF Held
  <2>2. \A l \in 1..MaxLines : H[l] \in Int /\ row[l] = H[l] * k /\ row[l] \in Int
    BY <1>1, <1>2, HeldType
  <2> HIDE DEF k, H, row, F, c, byBatch
  <2>3. Total(row, MaxLines) = Total(H, MaxLines) * k
    BY <1>1, <2>1, <2>2, TotalScale
  <2>4. Total(row, MaxLines) \in Int
    BY <1>1, <2>2, TotalType
  <2> QED BY <2>1, <2>3, <2>4
<1>5. ASSUME NEW l \in 1..MaxLines PROVE byLine[l] \in Int /\ each[l] = byLine[l]
  <2> DEFINE y == [b \in Batches |-> HeldOf(l)[b] * pieceCost[b]]
             x == ofLine(l)
  <2>1. each[l] = Total(y, MaxBatches) /\ byLine[l] = Total(x, MaxBatches)
    BY <1>1 DEF CostOf
  <2>2. \A b \in 1..MaxBatches : x[b] \in Int /\ y[b] = x[b]
    BY <1>1, <1>2 DEF HeldOf
  <2> HIDE DEF x, y, each, byLine
  <2>3. Total(y, MaxBatches) = Total(x, MaxBatches) /\ Total(x, MaxBatches) \in Int
    BY <1>1, <2>2, TotalSame, TotalType
  <2> QED BY <2>1, <2>3
<1>6. CostOf(all) = Total(c, MaxBatches)
  BY DEF CostOf
<1> HIDE DEF byBatch, byLine, c, each, all
<1>7. Total(c, MaxBatches) = Total(byBatch, MaxBatches)
  BY <1>1, <1>4, TotalSame
<1>8. Total(each, MaxLines) = Total(byLine, MaxLines)
  BY <1>1, <1>5, TotalSame
<1> QED BY <1>3, <1>6, <1>7, <1>8 DEF all, each

\* The cost of goods sold is that of the units the lines hold.
LEMMA CogsHeld ==
  ASSUME BooksInv
  PROVE  Cogs(AllTime) = Total([l \in Lines |-> CostOf(HeldOf(l))], MaxLines)
<1> DEFINE C == Completed(AllTime)
           each == [l \in Lines |-> CostOf(HeldOf(l))]
           x == Share(LineCogs, MaxLines, C)
<1>1. /\ TypeOK /\ LineRules /\ SalesDated /\ MaxLines \in Nat /\ Lines = 1..MaxLines
  BY InventoryConstants DEF BooksInv, BooksTypeOK, IInv, LineBooks, Lines
<1>2. /\ Cogs(AllTime) = SumOver(LineCogs, MaxLines, C)
      /\ \A l \in 1..MaxLines : LineCogs[l] \in Int
  BY <1>1, CogsByLine DEF OverSales
<1>3. SumOver(LineCogs, MaxLines, C) = Total(x, MaxLines)
  <2> HIDE DEF C
  <2> QED BY <1>1, <1>2, SumOverType
<1>4. ASSUME NEW l \in Lines PROVE x[l] \in Int /\ each[l] = x[l]
  <2>1. x[l] = IF l \in C THEN LineCogs[l] ELSE 0
    BY <1>1 DEF Share
  <2>2. x[l] \in Int
    BY <1>1, <1>2, <2>1
  <2>3. CASE l \in C
    <3>1. kind[l] # "none" /\ status[l] # "VOIDED"
      BY <2>3 DEF Completed
    <3>2. HeldOf(l) = Returnable(l)
      BY <3>1 DEF HeldOf, Holds, Returnable
    <3> QED BY <2>1, <2>2, <2>3, <3>1, <3>2, CostKept
  <2>4. CASE l \notin C
    <3>1. status[l] = "VOIDED" \/ kind[l] = "none"
      <4>1. \A t \in Moments : In(AllTime, t)
        BY ReportsConstants DEF In, AllTime, Moments
      <4> QED BY <1>1, <2>4, <4>1 DEF Completed, SalesDated, TypeOK, Statuses
    <3>2. \A b \in Batches : Holds(l, b) = 0
      BY <1>1, <3>1 DEF Holds, Returnable, LineRules, TypeOK
    <3>3. CostOf(HeldOf(l)) = 0
      BY <3>2, CostZero DEF HeldOf
    <3> QED BY <2>1, <2>4, <3>3
  <2> QED BY <2>2, <2>3, <2>4
<1> HIDE DEF x, each
<1>5. Total(each, MaxLines) = Total(x, MaxLines)
  BY <1>1, <1>4, TotalSame
<1> QED BY <1>2, <1>3, <1>5 DEF each

\* Units in their four places, at cost.
LEMMA UnitsAtCost ==
  ASSUME IInv
  PROVE  CostOf(quantity) = CostOf(remaining) + CostOf([b \in Batches |-> Held(b)])
                              + CostOf(writtenOff) + CostOf(arrivedGone)
<1> DEFINE held == [b \in Batches |-> Held(b)]
           u == [b \in Batches |-> remaining[b] + held[b]]
           v == [b \in Batches |-> u[b] + writtenOff[b]]
<1>1. ASSUME NEW b \in Batches
      PROVE  /\ remaining[b] \in Int /\ held[b] \in Int /\ writtenOff[b] \in Int
             /\ arrivedGone[b] \in Int
             /\ quantity[b] = remaining[b] + held[b] + writtenOff[b] + arrivedGone[b]
  <2>1. Held(b) \in Int
    BY HeldType DEF IInv
  <2>2. quantity[b] = remaining[b] + Held(b) + writtenOff[b] + arrivedGone[b]
    BY DEF IInv, UnitsAccountedFor, Held
  <2>3. remaining[b] \in Int /\ writtenOff[b] \in Int /\ arrivedGone[b] \in Int
    BY DEF IInv, TypeOK
  <2> QED BY <2>1, <2>2, <2>3
<1>2. \A b \in Batches : u[b] = remaining[b] + held[b] /\ v[b] = u[b] + writtenOff[b]
  OBVIOUS
<1> HIDE DEF held, u, v
<1>3. CostOf(u) = CostOf(remaining) + CostOf(held)
  BY <1>1, <1>2, CostAdd
<1>4. CostOf(v) = CostOf(u) + CostOf(writtenOff)
  <2>1. \A b \in Batches : u[b] \in Int /\ writtenOff[b] \in Int /\ v[b] = u[b] + writtenOff[b]
    BY <1>1, <1>2
  <2> QED BY <2>1, CostAdd
<1>5. CostOf(quantity) = CostOf(v) + CostOf(arrivedGone)
  <2>1. \A b \in Batches : v[b] \in Int /\ arrivedGone[b] \in Int
                             /\ quantity[b] = v[b] + arrivedGone[b]
    BY <1>1, <1>2
  <2> QED BY <2>1, CostAdd
<1> QED BY <1>3, <1>4, <1>5 DEF held

\* While the books are in step, every cent of goods is somewhere.
LEMMA ValueFollows == BooksInv => ValueAccountedFor
<1> SUFFICES ASSUME BooksInv PROVE ValueAccountedFor
  OBVIOUS
<1>1. IInv /\ TypeOK /\ LineRules /\ CountedMatch /\ WrittenOffMatch
  BY DEF BooksInv, IInv, StockBooks
<1>2. PurchaseCost - Rounding + OverAdjustments(CountedIn) = CostOf(quantity)
  BY <1>1, PurchasesAtCost DEF CountedMatch
<1>3. CostOf(quantity) = CostOf(remaining) + CostOf([b \in Batches |-> Held(b)])
                           + CostOf(writtenOff) + CostOf(arrivedGone)
  BY <1>1, UnitsAtCost
<1>4. Cogs(AllTime) = CostOf([b \in Batches |-> Held(b)])
  BY <1>1, HeldCost, CogsHeld
<1> QED BY <1>1, <1>2, <1>3, <1>4 DEF ValueAccountedFor, valuation, WrittenOffMatch

\* Every cent of goods that came in is on the shelf at cost, in the cost of what
\* was sold and kept, written off, or was owed when it arrived.
THEOREM ValueStaysAccountedFor == BooksSpec => []ValueAccountedFor
BY BooksInductive, ValueFollows, PTL

-----------------------------------------------------------------------------
(* What the profit tables add up to.                                         *)

\* Lines of products and lines of services are all the lines that count.
LEMMA SalesByKind ==
  ASSUME TypeOK, NEW f, \A l \in Lines : f[l] \in Int
  PROVE  /\ OverSales(f, Completed(AllTime))
              = OverSales(f, Sold("PRODUCT", AllTime)) + OverSales(f, Sold("SERVICE", AllTime))
         /\ OverSales(f, Sold("PRODUCT", AllTime)) \in Int
         /\ OverSales(f, Sold("SERVICE", AllTime)) \in Int
<1> DEFINE C == Completed(AllTime)
           P == Sold("PRODUCT", AllTime)
           S == Sold("SERVICE", AllTime)
<1>1. /\ \A l \in 1..MaxLines : l \in C <=> (l \in P \/ l \in S)
      /\ \A l \in 1..MaxLines : ~ (l \in P /\ l \in S)
  BY DEF Sold, Completed, TypeOK, Kinds, Lines
<1> HIDE DEF C, P, S
<1>2. MaxLines \in Nat /\ \A l \in 1..MaxLines : f[l] \in Int
  BY InventoryConstants DEF Lines
<1>3. SumOver(f, MaxLines, C) = SumOver(f, MaxLines, P) + SumOver(f, MaxLines, S)
  BY <1>1, <1>2, SumOverSplit
<1>4. SumOver(f, MaxLines, P) \in Int /\ SumOver(f, MaxLines, S) \in Int
  BY <1>2, SumOverType
<1> QED BY <1>3, <1>4 DEF OverSales, C, P, S

\* The revenue of the tables, listed or not, and the discounts they do not know.
LEMMA TablesRevenue ==
  ASSUME BooksInv
  PROVE  RowRevenue("PRODUCT", AllTime) + RowRevenue("SERVICE", AllTime)
           + Unlisted("PRODUCT") + Unlisted("SERVICE")
           = Revenue(AllTime)
               + OverSales([l \in Lines |-> lineTotal[l] - total[l]], Completed(AllTime))
<1> DEFINE C == Completed(AllTime)
           back == OverReturns(Refund, Returns(AllTime))
           gap == [l \in Lines |-> lineTotal[l] - total[l]]
<1>1. /\ TypeOK /\ BooksTypeOK /\ MaxLines \in Nat /\ Lines = 1..MaxLines
  BY InventoryConstants DEF BooksInv, BooksTypeOK, Lines
<1>2. /\ \A l \in Lines : lineTotal[l] \in Int /\ total[l] \in Int
      /\ \A i \in 1..Len(refunds) : Refund[i] \in Int
  BY <1>1, ColumnTypes DEF BooksTypeOK
<1>3. \A l \in Lines : LineRevenue[l] = lineTotal[l] - OverReturns(Refund, ReturnsOf(l))
  BY DEF LineRevenue
<1>4. /\ OverSales(LineRevenue, C) = OverSales(lineTotal, C) - back
      /\ \A l \in Lines : LineRevenue[l] \in Int
  BY <1>2, <1>3, SalesNet
<1>5. OverSales(gap, C) = OverSales(lineTotal, C) - OverSales(total, C)
  <2>1. \A l \in 1..MaxLines : /\ lineTotal[l] \in Int /\ total[l] \in Int
                               /\ gap[l] = lineTotal[l] - total[l]
    BY <1>1, <1>2
  <2> HIDE DEF gap, C
  <2> QED BY <1>1, <2>1, SumOverSubtract DEF OverSales
<1>6. /\ OverSales(lineTotal, C) \in Int /\ OverSales(total, C) \in Int
      /\ back \in Int
  <2>1. \A l \in 1..MaxLines : lineTotal[l] \in Int /\ total[l] \in Int
    BY <1>1, <1>2
  <2>2. Len(refunds) \in Nat
    BY <1>1, ColumnTypes
  <2> HIDE DEF C
  <2>3. SumOver(lineTotal, MaxLines, C) \in Int /\ SumOver(total, MaxLines, C) \in Int
    BY <1>1, <2>1, SumOverType
  <2>4. SumOver(Refund, Len(refunds), Returns(AllTime)) \in Int
    BY <1>2, <2>2, SumOverType
  <2> QED BY <2>3, <2>4 DEF OverSales, OverReturns
<1>7. /\ OverSales(LineRevenue, C) = OverSales(LineRevenue, Sold("PRODUCT", AllTime))
                                       + OverSales(LineRevenue, Sold("SERVICE", AllTime))
      /\ OverSales(LineRevenue, Sold("PRODUCT", AllTime)) \in Int
      /\ OverSales(LineRevenue, Sold("SERVICE", AllTime)) \in Int
  BY <1>1, <1>4, SalesByKind
<1>8. \A k \in {"PRODUCT", "SERVICE"} :
        \/ /\ RowRevenue(k, AllTime) = OverSales(LineRevenue, Sold(k, AllTime))
           /\ Unlisted(k) = 0
        \/ /\ RowRevenue(k, AllTime) = 0
           /\ Unlisted(k) = OverSales(LineRevenue, Sold(k, AllTime))
  BY DEF RowRevenue, Unlisted
<1>9. Revenue(AllTime) = OverSales(total, C) - back
  BY DEF Revenue
<1> HIDE DEF C, back, gap
<1>10. RowRevenue("PRODUCT", AllTime) + RowRevenue("SERVICE", AllTime)
         + Unlisted("PRODUCT") + Unlisted("SERVICE") = OverSales(LineRevenue, C)
  BY <1>7, <1>8
<1>11. OverSales(LineRevenue, C) = Revenue(AllTime) + OverSales(gap, C)
  BY <1>4, <1>5, <1>6, <1>9
<1> QED BY <1>10, <1>11 DEF gap, C

\* A product that is listed nowhere has no cost either: all of it came back.
LEMMA UnlistedCostNothing ==
  ASSUME BooksInv, ~ Listed("PRODUCT", AllTime)
  PROVE  OverSales(LineCogs, Sold("PRODUCT", AllTime)) = 0
<1> DEFINE P == Sold("PRODUCT", AllTime)
           kept == [l \in Lines |-> sold[l] - returnedQty[l]]
<1>1. /\ TypeOK /\ LineRules /\ LinesBacked /\ MaxLines \in Nat /\ Lines = 1..MaxLines
      /\ MaxBatches \in Nat /\ Batches = 1..MaxBatches
  BY InventoryConstants DEF BooksInv, IInv, Lines, Batches
<1>2. \A l \in 1..MaxLines : kept[l] \in Nat
  <2>1. \A l \in Lines : sold[l] \in Nat /\ returnedQty[l] \in Nat /\ returnedQty[l] <= sold[l]
    BY <1>1 DEF TypeOK, LineRules
  <2> QED BY <1>1, <2>1
<1>3. ~ (SumOver(kept, MaxLines, P) > 0)
  BY DEF Listed, UnitsKept, OverSales
<1>4. /\ SumOver(kept, MaxLines, P) \in Nat
      /\ \A l \in 1..MaxLines : l \in P => kept[l] <= SumOver(kept, MaxLines, P)
  <2> HIDE DEF kept, P
  <2> QED BY <1>1, <1>2, SumOverNat
<1>5. \A l \in 1..MaxLines : l \in P => kept[l] = 0
  <2> HIDE DEF kept, P
  <2> QED BY <1>2, <1>3, <1>4
<1>6. ASSUME NEW l \in 1..MaxLines, l \in P PROVE LineCogs[l] = 0
  <2>1. l \in Lines /\ kind[l] = "PRODUCT"
    BY <1>1, <1>6 DEF Sold
  <2>2. Total(Returnable(l), MaxBatches) = 0
    BY <1>1, <1>5, <1>6, <2>1 DEF LinesBacked
  <2>3. \A b \in 1..MaxBatches : Returnable(l)[b] \in Nat
    <3> SUFFICES ASSUME NEW b \in Batches PROVE Returnable(l)[b] \in Nat
      BY <1>1
    <3>1. allocated[l][b] \in Nat /\ returned[l][b] \in Nat
      BY <1>1, <2>1 DEF TypeOK
    <3>2. returned[l][b] <= allocated[l][b]
      BY <1>1, <2>1 DEF LineRules
    <3> QED BY <3>1, <3>2 DEF Returnable
  <2>4. \A b \in 1..MaxBatches : Returnable(l)[b] <= Total(Returnable(l), MaxBatches)
    BY <1>1, <2>3, TotalNat
  <2>5. \A b \in Batches : Returnable(l)[b] = 0
    BY <1>1, <2>2, <2>3, <2>4
  <2>6. CostOf(Returnable(l)) = 0
    BY <2>5, CostZero
  <2> QED BY <2>1, <2>6, CostKept
<1> HIDE DEF P, kept
<1>7. SumOver(LineCogs, MaxLines, P) = 0
  BY <1>1, <1>6, SumOverZero
<1> QED BY <1>7 DEF OverSales, P

\* The cost in the product table is the summary's, less the paper of services.
LEMMA TablesCogs ==
  ASSUME BooksInv
  PROVE  RowCogs("PRODUCT", AllTime)
           = Cogs(AllTime) - OverSales(totalCogs, Sold("SERVICE", AllTime))
<1> DEFINE S == Sold("SERVICE", AllTime)
<1>1. TypeOK /\ MaxLines \in Nat /\ Lines = 1..MaxLines
  BY InventoryConstants DEF BooksInv, IInv, Lines
<1>2. /\ Cogs(AllTime) = OverSales(LineCogs, Completed(AllTime))
      /\ \A l \in Lines : LineCogs[l] \in Int
  BY CogsByLine
<1>3. /\ Cogs(AllTime) = OverSales(LineCogs, Sold("PRODUCT", AllTime)) + OverSales(LineCogs, S)
      /\ OverSales(LineCogs, Sold("PRODUCT", AllTime)) \in Int
      /\ OverSales(LineCogs, S) \in Int
  BY <1>1, <1>2, SalesByKind
<1>4. \A l \in 1..MaxLines : l \in S => totalCogs[l] \in Int /\ LineCogs[l] = totalCogs[l]
  <2> SUFFICES ASSUME NEW l \in Lines, l \in S
               PROVE  totalCogs[l] \in Int /\ LineCogs[l] = totalCogs[l]
    BY <1>1
  <2>1. kind[l] = "SERVICE"
    BY DEF Sold
  <2>2. LineCogs[l] = totalCogs[l]
    BY <2>1, CostKept
  <2> QED BY <1>2, <2>2
<1> HIDE DEF S
<1>5. SumOver(LineCogs, MaxLines, S) = SumOver(totalCogs, MaxLines, S)
  BY <1>1, <1>4, SumOverSame
<1>6. RowCogs("PRODUCT", AllTime) = OverSales(LineCogs, Sold("PRODUCT", AllTime))
  BY UnlistedCostNothing DEF RowCogs
<1> QED BY <1>3, <1>5, <1>6 DEF OverSales, S

\* Over all time the tables of products and services explain the summary: its
\* revenue and the discounts on whole sales, and its cost but for services' paper.
THEOREM TablesAlwaysExplain == BooksSpec => []TablesExplainSummary
<1>1. BooksInv => TablesExplainSummary
  BY TablesRevenue, TablesCogs DEF TablesExplainSummary
<1> QED BY <1>1, BooksInductive, PTL
=============================================================================
