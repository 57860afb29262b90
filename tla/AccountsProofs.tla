--------------------------- MODULE AccountsProofs ---------------------------
(***************************************************************************)
(* Proofs about modules Banking and Payables: what the shop holds at the   *)
(* bank, in the hand book and in loans, and what it owes its suppliers, for *)
(* any number of requests, loans, bills, suppliers and purchases, and any  *)
(* amounts.                                                                *)
(***************************************************************************)
EXTENDS Banking, Payables, SumsProofs

\* What NoOverdraft says of one step.
Covered ==
  /\ \A k \in Ledgers :
       balance'[k] < 0 /\ balance'[k] < balance[k] => \E r \in Requests : Correcting(r, k)
  /\ drawer' < 0 /\ drawer' < drawer => earned' # earned

-----------------------------------------------------------------------------
(* Ledgers, loans and requests. *)

\* One row on one ledger moves that ledger and the sum of both by its amount.
LEMMA AddingToLedger ==
  ASSUME balance \in [Ledgers -> Int], NEW k \in Ledgers, NEW n \in Int, AddToLedger(k, n)
  PROVE  /\ balance' \in [Ledgers -> Int]
         /\ balance'[k] = balance[k] + n
         /\ \A j \in Ledgers \ {k} : balance'[j] = balance[j]
         /\ balance'["bank"] + balance'["hand"] = balance["bank"] + balance["hand"] + n
<1>1. /\ balance' \in [Ledgers -> Int]
      /\ balance'[k] = balance[k] + n
      /\ \A j \in Ledgers \ {k} : balance'[j] = balance[j]
  BY DEF AddToLedger
<1>2. /\ balance["bank"] \in Int /\ balance["hand"] \in Int
      /\ k = "bank" \/ k = "hand"
  BY DEF Ledgers
<1>3. CASE k = "bank"
  BY <1>1, <1>2, <1>3 DEF Ledgers
<1>4. CASE k = "hand"
  BY <1>1, <1>2, <1>4 DEF Ledgers
<1> QED BY <1>1, <1>2, <1>3, <1>4

\* What is lent and not repaid is never below zero.
LEMMA ClaimsType ==
  ASSUME TypeOK, LoansAddUp
  PROVE  Claims \in Nat /\ \A l \in Loans : Outstanding(l) <= Claims
<1> DEFINE f == [l \in Loans |-> Outstanding(l)]
<1>1. MaxLoans \in Nat /\ \A l \in 1..MaxLoans : f[l] \in Nat
  BY BankingConstants DEF TypeOK, LoansAddUp, Loans, Outstanding
<1> HIDE DEF f
<1>2. Total(f, MaxLoans) \in Nat /\ \A l \in 1..MaxLoans : f[l] <= Total(f, MaxLoans)
  BY <1>1, TotalNat
<1> QED BY <1>2 DEF Claims, f, Loans

\* Claims change only with loans and repayments.
LEMMA ClaimsUnchanged == UNCHANGED <<lent, repaid>> => Claims' = Claims
BY DEF Claims, Outstanding

\* Claims move by what is lent or repaid on one loan.
LEMMA ClaimsMove ==
  ASSUME TypeOK, NEW x \in Loans, NEW d \in Int,
         Outstanding(x)' = Outstanding(x) + d,
         \A l \in Loans \ {x} : Outstanding(l)' = Outstanding(l)
  PROVE  Claims' = Claims + d
<1> DEFINE f == [l \in Loans |-> Outstanding(l)]
           h == [l \in Loans |-> Outstanding(l)']
<1>1. /\ MaxLoans \in Nat /\ x \in 1..MaxLoans
      /\ \A l \in 1..MaxLoans : f[l] \in Int
  BY BankingConstants DEF TypeOK, Loans, Outstanding
<1>2. \A l \in 1..MaxLoans : h[l] = IF l = x THEN f[l] + d ELSE f[l]
  BY DEF Loans
<1>3. Claims = Total(f, MaxLoans) /\ Claims' = Total(h, MaxLoans)
  BY DEF Claims
<1> HIDE DEF f, h
<1>4. Total(h, MaxLoans) = Total(f, MaxLoans) + d
  BY <1>1, <1>2, TotalChangeAt
<1> QED BY <1>3, <1>4

\* A request carries a ledger, an amount and perhaps a bill.
LEMMA AsksType ==
  ASSUME NEW what \in {"idle", "opening", "correct", "delete"}, NEW k \in Ledgers,
         NEW n \in Int, NEW b \in Bills \cup {0}
  PROVE  /\ Asks(what, k, n, b) \in RequestType
         /\ Asks(what, k, n, b).do = what /\ Asks(what, k, n, b).ledger = k
         /\ Asks(what, k, n, b).amount = n /\ Asks(what, k, n, b).bill = b
BY DEF Asks, RequestType

\* An idle request is one.
LEMMA IdleType == Idle \in RequestType /\ Idle.do = "idle"
BY AsksType DEF Idle, Ledgers

\* All pockets start empty.
LEMMA InitHolds == Init => IInv
<1>1. Init => TypeOK
  <2> SUFFICES ASSUME Init PROVE TypeOK
    OBVIOUS
  <2>1. request \in [Requests -> RequestType]
    BY IdleType DEF Init
  <2>2. balance \in [Ledgers -> Int] /\ openings \in [Ledgers -> Nat]
    BY DEF Init
  <2>3. tillOpen \in BOOLEAN
    BY DEF Init
  <2>4. /\ lent \in [Loans -> Nat] /\ repaid \in [Loans -> Nat]
        /\ loanStatus \in [Loans -> {"OUTSTANDING", "REPAID"}]
    BY DEF Init
  <2>5. /\ bill \in [Bills -> {"none", "standing", "deleted"}]
        /\ due \in [Bills -> Nat] /\ spentOn \in [Bills -> Nat]
        /\ spentLater \in [Bills -> Nat]
    BY DEF Init
  <2>6. drawer \in Int /\ earned \in Int /\ stray \in Nat
    BY DEF Init
  <2> QED BY <2>1, <2>2, <2>3, <2>4, <2>5, <2>6 DEF TypeOK
<1>2. Init => LoansAddUp /\ RequestRules
  BY IdleType DEF Init, LoansAddUp, RequestRules, Sound
<1> QED BY <1>1, <1>2 DEF IInv

-----------------------------------------------------------------------------
(* What each kind of step keeps, and what it is in the eyes of MoneyPosition. *)

\* Steps that leave the loans alone and whose cash follows their earnings trade.
LEMMA TradeStep ==
  ASSUME UNCHANGED <<lent, repaid>>, Cash' - Cash = earned' - earned
  PROVE  Position!Next
BY ClaimsUnchanged DEF Position!Next, Position!Trade

\* Steps on the pockets only.
LEMMA PocketsOnly ==
  ASSUME IInv, UNCHANGED <<openings, loanVars, billVars, request>>,
         tillOpen' \in BOOLEAN, drawer' \in Int, balance' \in [Ledgers -> Int],
         earned' \in Int
  PROVE  IInv'
<1>1. TypeOK'
  BY DEF IInv, TypeOK, loanVars, billVars
<1>2. LoansAddUp' /\ RequestRules'
  BY DEF IInv, LoansAddUp, RequestRules, loanVars, billVars
<1> QED BY <1>1, <1>2 DEF IInv

\* Opening, trading through and closing the till.
LEMMA TillDaySteps ==
  ASSUME IInv, TillDay
  PROVE  IInv' /\ Position!Next /\ Covered
<1> USE BankingConstants
<1>1. /\ TypeOK /\ tillOpen \in BOOLEAN /\ drawer \in Int /\ earned \in Int
      /\ balance \in [Ledgers -> Int]
      /\ balance["bank"] \in Int /\ balance["hand"] \in Int
  BY DEF IInv, TypeOK, Ledgers
<1>2. ASSUME NEW float \in 0..MaxAmount, OpenTill(float)
      PROVE  IInv' /\ Position!Next /\ Covered
  <2>1. IInv'
    BY <1>1, <1>2, PocketsOnly DEF OpenTill, ledgerVars
  <2>2. Cash' - Cash = earned' - earned
    BY <1>1, <1>2 DEF OpenTill, Cash, ledgerVars
  <2>3. Covered
    BY <1>1, <1>2 DEF OpenTill, Covered, ledgerVars
  <2> QED BY <1>2, <2>1, <2>2, <2>3, TradeStep DEF OpenTill, loanVars
<1>3. ASSUME NEW n \in Signed, TradeThroughTill(n)
      PROVE  IInv' /\ Position!Next /\ Covered
  <2>0. n \in Int /\ n # 0
    BY DEF Signed
  <2>1. IInv'
    BY <1>1, <1>3, <2>0, PocketsOnly DEF TradeThroughTill, ledgerVars
  <2>2. Cash' - Cash = earned' - earned
    BY <1>1, <1>3, <2>0 DEF TradeThroughTill, Cash, ledgerVars
  <2>3. Covered
    BY <1>1, <1>3, <2>0 DEF TradeThroughTill, Covered, ledgerVars
  <2> QED BY <1>3, <2>1, <2>2, <2>3, TradeStep DEF TradeThroughTill, loanVars
<1>4. ASSUME NEW actual \in 0..MaxAmount, NEW withdrawal \in 0..MaxAmount, NEW to \in Ledgers,
             CloseTill(actual, withdrawal, to)
      PROVE  IInv' /\ Position!Next /\ Covered
  <2>0. actual \in Nat /\ withdrawal \in Nat /\ withdrawal <= actual
    BY <1>4 DEF CloseTill
  <2>1. /\ balance' \in [Ledgers -> Int]
        /\ balance'[to] = balance[to] + withdrawal
        /\ \A j \in Ledgers \ {to} : balance'[j] = balance[j]
        /\ balance'["bank"] + balance'["hand"] = balance["bank"] + balance["hand"] + withdrawal
    BY <1>1, <1>4, <2>0, AddingToLedger DEF CloseTill
  <2>6. /\ tillOpen' = FALSE /\ drawer' = actual - withdrawal
        /\ earned' = earned + actual - drawer
        /\ UNCHANGED <<openings, loanVars, billVars, request>>
    BY <1>4 DEF CloseTill
  <2>7. tillOpen' \in BOOLEAN /\ drawer' \in Int /\ earned' \in Int
    <3>1. tillOpen' \in BOOLEAN
      BY <2>6
    <3>2. drawer' \in Int /\ earned' \in Int
      BY <1>1, <2>0, <2>6
    <3> QED BY <3>1, <3>2
  <2>2. IInv'
    BY <2>1, <2>6, <2>7, PocketsOnly
  <2>3. balance'["bank"] \in Int /\ balance'["hand"] \in Int
    BY <2>1 DEF Ledgers
  <2>4. Cash' - Cash = earned' - earned
    BY <1>1, <2>0, <2>1, <2>3, <2>6 DEF Cash
  <2>5. Covered
    BY <1>1, <1>4, <2>0, <2>1 DEF CloseTill, Covered
  <2> QED BY <1>4, <2>2, <2>4, <2>5, TradeStep DEF CloseTill, loanVars
<1> QED BY <1>2, <1>3, <1>4 DEF TillDay

\* Moves between pockets, which change neither cash nor claims.
LEMMA MovesSteps ==
  ASSUME IInv, Moves
  PROVE  IInv' /\ Position!Next /\ Covered
<1> USE BankingConstants
<1>1. /\ TypeOK /\ tillOpen \in BOOLEAN /\ drawer \in Int /\ earned \in Int
      /\ balance \in [Ledgers -> Int]
      /\ balance["bank"] \in Int /\ balance["hand"] \in Int
      /\ "bank" \in Ledgers /\ "hand" \in Ledgers
  BY DEF IInv, TypeOK, Ledgers
<1>2. PICK n \in Amounts :
        TransferToBank(n) \/ BankHeldCash(n) \/ \E from \in Ledgers : MoveToTill(from, n)
  BY DEF Moves
<1>3. n \in Nat /\ n > 0 /\ -n \in Int
  BY DEF Amounts
<1>4. CASE TransferToBank(n)
  <2>1. /\ balance' \in [Ledgers -> Int]
        /\ balance'["bank"] = balance["bank"] + n
        /\ \A j \in Ledgers \ {"bank"} : balance'[j] = balance[j]
        /\ balance'["bank"] + balance'["hand"] = balance["bank"] + balance["hand"] + n
    BY <1>1, <1>3, <1>4, AddingToLedger DEF TransferToBank
  <2>2. IInv'
    BY <1>1, <1>3, <1>4, <2>1, PocketsOnly DEF TransferToBank
  <2>3. balance'["bank"] \in Int /\ balance'["hand"] \in Int
    BY <1>1, <2>1
  <2>4. Cash' - Cash = earned' - earned
    BY <1>1, <1>3, <1>4, <2>1, <2>3 DEF TransferToBank, Cash
  <2>5. Covered
    BY <1>1, <1>3, <1>4, <2>1 DEF TransferToBank, TillCovers, Covered
  <2> QED BY <1>4, <2>2, <2>4, <2>5, TradeStep DEF TransferToBank, loanVars
<1>5. CASE BankHeldCash(n)
  <2>1. /\ balance' \in [Ledgers -> Int]
        /\ balance'["bank"] = balance["bank"] + n
        /\ balance'["hand"] = balance["hand"] - n
    BY <1>1, <1>3, <1>5 DEF BankHeldCash, MoveBetween
  <2>2. IInv'
    BY <1>1, <1>3, <1>5, <2>1, PocketsOnly DEF BankHeldCash, till
  <2>4. Cash' - Cash = earned' - earned
    BY <1>1, <1>3, <1>5, <2>1 DEF BankHeldCash, Cash, till
  <2>5. Covered
    BY <1>1, <1>3, <1>5, <2>1 DEF BankHeldCash, Covers, Covered, Ledgers, till
  <2> QED BY <1>5, <2>2, <2>4, <2>5, TradeStep DEF BankHeldCash, loanVars
<1>6. ASSUME NEW from \in Ledgers, MoveToTill(from, n)
      PROVE  IInv' /\ Position!Next /\ Covered
  <2>1. /\ balance' \in [Ledgers -> Int]
        /\ balance'[from] = balance[from] + -n
        /\ \A j \in Ledgers \ {from} : balance'[j] = balance[j]
        /\ balance'["bank"] + balance'["hand"] = balance["bank"] + balance["hand"] + -n
    BY <1>1, <1>3, <1>6, AddingToLedger DEF MoveToTill
  <2>2. IInv'
    BY <1>1, <1>3, <1>6, <2>1, PocketsOnly DEF MoveToTill
  <2>3. balance'["bank"] \in Int /\ balance'["hand"] \in Int /\ balance[from] \in Int
    BY <1>1, <2>1
  <2>4. Cash' - Cash = earned' - earned
    BY <1>1, <1>3, <1>6, <2>1, <2>3 DEF MoveToTill, Cash
  <2>5. Covered
    BY <1>1, <1>3, <1>6, <2>1, <2>3 DEF MoveToTill, Covers, Covered
  <2> QED BY <1>6, <2>2, <2>4, <2>5, TradeStep DEF MoveToTill, loanVars
<1> QED BY <1>2, <1>4, <1>5, <1>6

\* Loans and repayments, which swap cash and claims.
LEMMA LendingSteps ==
  ASSUME IInv, Lending
  PROVE  IInv' /\ Position!Next /\ Covered
<1> USE BankingConstants
<1>1. /\ TypeOK /\ LoansAddUp /\ RequestRules
      /\ tillOpen \in BOOLEAN /\ drawer \in Int /\ earned \in Int
      /\ balance \in [Ledgers -> Int]
      /\ balance["bank"] \in Int /\ balance["hand"] \in Int
      /\ "bank" \in Ledgers /\ "hand" \in Ledgers
  BY DEF IInv, TypeOK, Ledgers
<1>2. Claims \in Nat /\ \A m \in Loans : Outstanding(m) <= Claims
  BY <1>1, ClaimsType
<1>3. PICK l \in Loans, n \in 1..MaxLoan, at \in {"till", "bank"} :
        IssueLoan(l, n, at) \/ RepayLoan(l, n, at)
  BY DEF Lending
<1>4. /\ n \in Nat /\ n > 0 /\ -n \in Int
      /\ lent \in [Loans -> Nat] /\ repaid \in [Loans -> Nat]
      /\ loanStatus \in [Loans -> {"OUTSTANDING", "REPAID"}]
      /\ lent[l] \in Nat /\ repaid[l] \in Nat
      /\ repaid[l] <= lent[l]
  BY <1>1 DEF Amounts, TypeOK, LoansAddUp
<1>5. UNCHANGED <<tillOpen, openings, billVars, request, earned>>
  BY <1>3 DEF IssueLoan, RepayLoan
<1>6. ASSUME lent' \in [Loans -> Nat], repaid' \in [Loans -> Nat],
             loanStatus' \in [Loans -> {"OUTSTANDING", "REPAID"}],
             drawer' \in Int, balance' \in [Ledgers -> Int]
      PROVE  TypeOK' /\ RequestRules'
  BY <1>1, <1>5, <1>6 DEF TypeOK, RequestRules, billVars
<1>7. CASE IssueLoan(l, n, at)
  <2>1. /\ drawer' \in Int /\ balance' \in [Ledgers -> Int]
        /\ Cash' = Cash - n
        /\ Covered
    <3>1. CASE at = "till"
      BY <1>1, <1>4, <1>5, <1>7, <3>1 DEF IssueLoan, Cash, Covered, TillCovers
    <3>2. CASE at = "bank"
      <4>1. AddToLedger("bank", -n) /\ Covers("bank", n) /\ UNCHANGED drawer
        BY <1>7, <3>2 DEF IssueLoan
      <4>2. /\ balance' \in [Ledgers -> Int]
            /\ balance'["bank"] = balance["bank"] + -n
            /\ \A j \in Ledgers \ {"bank"} : balance'[j] = balance[j]
            /\ balance'["bank"] + balance'["hand"] = balance["bank"] + balance["hand"] + -n
        BY <1>1, <1>4, <4>1, AddingToLedger
      <4>3. Covered
        BY <1>1, <1>4, <4>1, <4>2 DEF Covered, Covers
      <4>4. balance'["bank"] \in Int /\ balance'["hand"] \in Int
        BY <1>1, <4>2
      <4>5. Cash' = Cash - n
        BY <1>1, <1>4, <4>1, <4>2, <4>4 DEF Cash
      <4> QED BY <1>1, <4>1, <4>2, <4>3, <4>5
    <3> QED BY <3>1, <3>2
  <2>2. /\ lent[l] = 0 /\ repaid[l] = 0
        /\ lent' = [lent EXCEPT ![l] = n] /\ UNCHANGED <<repaid, loanStatus>>
    BY <1>4, <1>7 DEF IssueLoan
  <2>3. TypeOK' /\ RequestRules'
    BY <1>4, <1>6, <2>1, <2>2
  <2>4. LoansAddUp'
    BY <1>1, <1>4, <2>2 DEF LoansAddUp
  <2>5. Claims' = Claims + n
    <3>1. /\ Outstanding(l)' = Outstanding(l) + n
          /\ \A m \in Loans \ {l} : Outstanding(m)' = Outstanding(m)
      BY <1>4, <2>2 DEF Outstanding
    <3> QED BY <1>1, <1>4, <3>1, ClaimsMove
  <2>6. Position!Lend
    BY <1>1, <1>2, <1>4, <1>5, <2>1, <2>5 DEF Position!Lend, Cash
  <2> QED BY <2>1, <2>3, <2>4, <2>6 DEF IInv, Position!Next
<1>8. CASE RepayLoan(l, n, at)
  <2>1. /\ drawer' \in Int /\ balance' \in [Ledgers -> Int]
        /\ Cash' = Cash + n
        /\ Covered
    <3>1. CASE at = "till"
      BY <1>1, <1>4, <1>5, <1>8, <3>1 DEF RepayLoan, TakeRepayment, Cash, Covered
    <3>2. CASE at = "bank"
      <4>1. AddToLedger("bank", n) /\ UNCHANGED drawer
        BY <1>8, <3>2 DEF RepayLoan, TakeRepayment
      <4>2. /\ balance' \in [Ledgers -> Int]
            /\ balance'["bank"] = balance["bank"] + n
            /\ \A j \in Ledgers \ {"bank"} : balance'[j] = balance[j]
            /\ balance'["bank"] + balance'["hand"] = balance["bank"] + balance["hand"] + n
        BY <1>1, <1>4, <4>1, AddingToLedger
      <4>3. Covered
        BY <1>1, <1>4, <4>1, <4>2 DEF Covered
      <4>4. balance'["bank"] \in Int /\ balance'["hand"] \in Int
        BY <1>1, <4>2
      <4>5. Cash' = Cash + n
        BY <1>1, <1>4, <4>1, <4>2, <4>4 DEF Cash
      <4> QED BY <1>1, <4>1, <4>2, <4>3, <4>5
    <3> QED BY <3>1, <3>2
  <2>2. /\ n <= Outstanding(l)
        /\ repaid' = [repaid EXCEPT ![l] = repaid[l] + n] /\ UNCHANGED lent
        /\ loanStatus' = [loanStatus EXCEPT
             ![l] = IF n = Outstanding(l) THEN "REPAID" ELSE "OUTSTANDING"]
    BY <1>8 DEF RepayLoan
  <2>3. /\ repaid' \in [Loans -> Nat]
        /\ loanStatus' \in [Loans -> {"OUTSTANDING", "REPAID"}]
    BY <1>4, <2>2
  <2>4. TypeOK' /\ RequestRules'
    BY <1>4, <1>6, <2>1, <2>2, <2>3
  <2>5. LoansAddUp'
    BY <1>1, <1>4, <2>2 DEF LoansAddUp, Outstanding
  <2>6. Claims' = Claims + -n
    <3>1. /\ Outstanding(l)' = Outstanding(l) + -n
          /\ \A m \in Loans \ {l} : Outstanding(m)' = Outstanding(m)
      BY <1>4, <2>2 DEF Outstanding
    <3> QED BY <1>1, <1>4, <3>1, ClaimsMove
  <2>7. Claims' \in Nat
    BY <1>2, <1>4, <2>2, <2>6 DEF Outstanding
  <2>8. Position!Collect
    BY <1>1, <1>2, <1>4, <1>5, <2>1, <2>6, <2>7 DEF Position!Collect, Cash
  <2> QED BY <2>1, <2>4, <2>5, <2>8 DEF IInv, Position!Next
<1> QED BY <1>3, <1>7, <1>8

-----------------------------------------------------------------------------
(* Bills and requests. *)

\* Bills paid from held cash, which count as trade.
LEMMA SpendingSteps ==
  ASSUME IInv, Spending
  PROVE  IInv' /\ Position!Next /\ Covered
<1> USE BankingConstants
<1>1. /\ TypeOK /\ LoansAddUp /\ RequestRules
      /\ drawer \in Int /\ earned \in Int /\ balance \in [Ledgers -> Int]
      /\ balance["bank"] \in Int /\ balance["hand"] \in Int
      /\ "bank" \in Ledgers /\ "hand" \in Ledgers
  BY DEF IInv, TypeOK, Ledgers
\* A bill takes what held cash covers.
<1>2. ASSUME NEW n \in Nat, n = 0 \/ Covers("hand", n), AddToLedger("hand", -n),
             earned' = earned - n,
             UNCHANGED <<till, openings, loanVars, stray, request>>
      PROVE  /\ Position!Next /\ Covered /\ balance' \in [Ledgers -> Int]
             /\ LoansAddUp' /\ RequestRules'
  <2>1. /\ balance' \in [Ledgers -> Int]
        /\ balance'["hand"] = balance["hand"] + -n
        /\ \A j \in Ledgers \ {"hand"} : balance'[j] = balance[j]
        /\ balance'["bank"] + balance'["hand"] = balance["bank"] + balance["hand"] + -n
    BY <1>1, <1>2, -n \in Int, AddingToLedger
  <2>2. balance'["bank"] \in Int /\ balance'["hand"] \in Int
    BY <1>1, <2>1
  <2>3. Cash' - Cash = earned' - earned
    BY <1>1, <1>2, <2>1, <2>2 DEF Cash, till
  <2>4. Covered
    BY <1>1, <1>2, <2>1 DEF Covered, Covers, till
  <2>5. LoansAddUp' /\ RequestRules'
    BY <1>1, <1>2 DEF LoansAddUp, RequestRules, loanVars
  <2> QED BY <1>2, <2>1, <2>3, <2>4, <2>5, TradeStep DEF loanVars
<1>3. ASSUME NEW b \in Bills, NEW n \in 0..MaxAmount, NEW owed \in 0..MaxAmount,
             RecordBill(b, n, owed)
      PROVE  IInv' /\ Position!Next /\ Covered
  <2>1. /\ Position!Next /\ Covered /\ balance' \in [Ledgers -> Int]
        /\ LoansAddUp' /\ RequestRules'
    BY <1>2, <1>3, n \in Nat DEF RecordBill
  <2>2. TypeOK'
    BY <1>1, <1>3, <2>1 DEF RecordBill, TypeOK, till, loanVars
  <2> QED BY <2>1, <2>2 DEF IInv
<1>4. ASSUME NEW b \in Bills, NEW n \in Amounts, PayBill(b, n)
      PROVE  IInv' /\ Position!Next /\ Covered
  <2>0. n \in Nat /\ due[b] - n \in Nat
    BY <1>1, <1>4 DEF Amounts, PayBill, TypeOK
  <2>1. /\ Position!Next /\ Covered /\ balance' \in [Ledgers -> Int]
        /\ LoansAddUp' /\ RequestRules'
    BY <1>2, <1>4, <2>0 DEF PayBill, SpendHeld
  <2>2. TypeOK'
    BY <1>1, <1>4, <2>0, <2>1 DEF PayBill, SpendHeld, TypeOK, till, loanVars
  <2> QED BY <2>1, <2>2 DEF IInv
<1> QED BY <1>3, <1>4 DEF Spending

\* A check moves no money.
LEMMA ChecksSteps ==
  ASSUME IInv, NEW r \in Requests, Checks(r)
  PROVE  IInv' /\ Position!Next /\ Covered
<1> USE BankingConstants
<1>1. /\ TypeOK /\ LoansAddUp /\ RequestRules
      /\ drawer \in Int /\ earned \in Int /\ balance \in [Ledgers -> Int]
      /\ "bank" \in Ledgers /\ "hand" \in Ledgers
  BY DEF IInv, TypeOK, Ledgers
\* Whatever a check notes, it is a request, and nothing else changes.
<1>2. ASSUME NEW q \in RequestType, Sound(q), Begin(r, q)
      PROVE  IInv' /\ Position!Next /\ Covered
  <2>1. TypeOK'
    BY <1>1, <1>2 DEF Begin, TypeOK, till, ledgerVars, loanVars, billVars
  <2>2. LoansAddUp' /\ RequestRules'
    BY <1>1, <1>2 DEF Begin, LoansAddUp, RequestRules, TypeOK, loanVars
  <2>3. Cash' = Cash /\ UNCHANGED <<drawer, balance, earned, lent, repaid>>
    BY <1>2 DEF Begin, Cash, till, ledgerVars, loanVars
  <2>4. Covered
    BY <1>1, <2>3 DEF Covered
  <2>5. Cash \in Int
    BY <1>1 DEF Cash
  <2>6. Cash' - Cash = earned' - earned
    BY <1>1, <2>3, <2>5
  <2> QED BY <2>1, <2>2, <2>3, <2>4, <2>6, TradeStep DEF IInv
<1>3. ASSUME NEW k \in Ledgers, NEW n \in Int, NEW what \in {"opening", "correct"},
             what = "opening" => n >= 0
      PROVE  Asks(what, k, n, 0) \in RequestType /\ Sound(Asks(what, k, n, 0))
  BY <1>3, AsksType DEF Sound
<1>4. ASSUME NEW b \in Bills
      PROVE  Asks("delete", "hand", 0, b) \in RequestType /\ Sound(Asks("delete", "hand", 0, b))
  BY <1>1, AsksType DEF Sound
<1>5. (0..MaxAmount) \subseteq Nat /\ Signed \subseteq Int
  BY DEF Signed
<1>6. ASSUME NEW k \in Ledgers, NEW n \in 0..MaxAmount, CheckNoOpening(r, k, n)
      PROVE  IInv' /\ Position!Next /\ Covered
  BY <1>2, <1>3, <1>5, <1>6 DEF CheckNoOpening
<1>7. ASSUME NEW k \in Ledgers, NEW n \in Signed, CheckCorrection(r, k, n)
      PROVE  IInv' /\ Position!Next /\ Covered
  BY <1>2, <1>3, <1>5, <1>7 DEF CheckCorrection
<1>8. ASSUME NEW b \in Bills, CheckDeletable(r, b)
      PROVE  IInv' /\ Position!Next /\ Covered
  BY <1>2, <1>4, <1>8 DEF CheckDeletable
<1> QED
  BY <1>6, <1>7, <1>8 DEF Checks

\* What requests write: corrections, opening balances and deletions.
LEMMA WritesSteps ==
  ASSUME IInv, NEW r \in Requests, Writes(r)
  PROVE  IInv' /\ Position!Next /\ Covered
<1> USE BankingConstants
<1>1. /\ TypeOK /\ LoansAddUp /\ RequestRules
      /\ drawer \in Int /\ earned \in Int /\ balance \in [Ledgers -> Int]
      /\ balance["bank"] \in Int /\ balance["hand"] \in Int
      /\ "bank" \in Ledgers /\ "hand" \in Ledgers
      /\ request[r] \in RequestType
  BY DEF IInv, TypeOK, Ledgers
<1>2. /\ End(r) /\ UNCHANGED <<till, loanVars>>
      /\ request' \in [Requests -> RequestType]
      /\ RequestRules' /\ LoansAddUp'
  <2>1. End(r) /\ UNCHANGED <<till, loanVars>>
    BY DEF Writes, WriteToLedger, DeleteBill, DeleteRefused
  <2>2. request' \in [Requests -> RequestType] /\ RequestRules'
    BY <1>1, <2>1, IdleType DEF End, TypeOK, RequestRules, Sound
  <2>3. LoansAddUp'
    BY <1>1, <2>1 DEF LoansAddUp, loanVars
  <2> QED BY <2>1, <2>2, <2>3
\* Money that comes in or goes out on a ledger is a trade.
<1>3. ASSUME NEW k \in Ledgers, NEW n \in Int, AddToLedger(k, n), earned' = earned + n,
             n < 0 => Correcting(r, k)
      PROVE  /\ Position!Next /\ Covered /\ balance' \in [Ledgers -> Int]
             /\ earned' \in Int
  <2>1. /\ balance' \in [Ledgers -> Int]
        /\ balance'[k] = balance[k] + n
        /\ \A j \in Ledgers \ {k} : balance'[j] = balance[j]
        /\ balance'["bank"] + balance'["hand"] = balance["bank"] + balance["hand"] + n
    BY <1>1, <1>3, AddingToLedger
  <2>2. balance'["bank"] \in Int /\ balance'["hand"] \in Int /\ balance[k] \in Int
    BY <1>1, <2>1
  <2>3. Cash' - Cash = earned' - earned
    BY <1>1, <1>2, <1>3, <2>1, <2>2 DEF Cash, till
  <2>4. Covered
    BY <1>1, <1>2, <1>3, <2>1, <2>2 DEF Covered, till
  <2> QED BY <1>1, <1>2, <1>3, <2>1, <2>3, <2>4, TradeStep DEF loanVars
<1>4. CASE WriteToLedger(r)
  <2> DEFINE k == request[r].ledger
             n == request[r].amount
  <2>1. k \in Ledgers /\ n \in Int
    BY <1>1 DEF RequestType
  <2>2. n < 0 => Correcting(r, k)
    BY <1>1, <1>2, <1>4, <2>1, IdleType
    DEF WriteToLedger, RequestRules, Sound, Correcting, End, TypeOK
  <2>3. /\ AddToLedger(k, n) /\ earned' = earned + n
        /\ UNCHANGED <<till, loanVars, billVars>>
    BY <1>4 DEF WriteToLedger
  <2>4. openings' \in [Ledgers -> Nat]
    <3>1. openings \in [Ledgers -> Nat]
      BY <1>1 DEF TypeOK
    <3>2. \/ openings' = [openings EXCEPT ![k] = openings[k] + 1]
          \/ openings' = [openings EXCEPT ![k] = openings[k] + 0]
      BY <1>4 DEF WriteToLedger
    <3> HIDE DEF k
    <3> QED BY <2>1, <3>1, <3>2
  <2> HIDE DEF k, n
  <2>5. /\ Position!Next /\ Covered /\ balance' \in [Ledgers -> Int]
        /\ earned' \in Int
    BY <1>3, <2>1, <2>2, <2>3
  <2>6. TypeOK'
    BY <1>1, <1>2, <2>3, <2>4, <2>5 DEF TypeOK, till, loanVars, billVars
  <2> QED BY <1>2, <2>5, <2>6 DEF IInv
<1>5. CASE DeleteBill(r)
  <2> DEFINE b == request[r].bill
  <2>1. b \in Bills
    BY <1>1, <1>5 DEF DeleteBill, RequestRules, Sound
  <2>2. /\ spentOn[b] \in Nat /\ spentLater[b] \in Nat
        /\ AddToLedger("hand", spentOn[b]) /\ earned' = earned + spentOn[b]
        /\ bill' = [bill EXCEPT ![b] = "deleted"] /\ due' = [due EXCEPT ![b] = 0]
        /\ stray' = stray + spentLater[b]
        /\ UNCHANGED <<openings, spentOn, spentLater>>
    BY <1>1, <1>5, <2>1 DEF DeleteBill, TypeOK
  <2> HIDE DEF b
  <2>3. /\ Position!Next /\ Covered /\ balance' \in [Ledgers -> Int]
        /\ earned' \in Int
    BY <1>1, <1>3, <2>2
  <2>4. TypeOK'
    BY <1>1, <1>2, <2>1, <2>2, <2>3 DEF TypeOK, till, loanVars
  <2> QED BY <1>2, <2>3, <2>4 DEF IInv
<1>6. CASE DeleteRefused(r)
  <2>1. Cash' = Cash /\ UNCHANGED <<drawer, balance, earned, lent, repaid>>
    BY <1>6 DEF DeleteRefused, Cash, till, ledgerVars, loanVars
  <2>2. TypeOK'
    BY <1>1, <1>2, <1>6 DEF DeleteRefused, TypeOK, till, ledgerVars, loanVars,
         billVars
  <2>3. Covered
    BY <1>1, <2>1 DEF Covered
  <2>4. Cash \in Int
    BY <1>1 DEF Cash
  <2>5. Cash' - Cash = earned' - earned
    BY <1>1, <2>1, <2>4
  <2> QED BY <1>2, <2>1, <2>2, <2>3, <2>5, TradeStep DEF IInv
<1> QED BY <1>4, <1>5, <1>6 DEF Writes

-----------------------------------------------------------------------------
\* Every action keeps the invariant, is a step of MoneyPosition, and covers what it takes.
LEMMA Steps == IInv /\ Next => IInv' /\ Position!Next /\ Covered
BY TillDaySteps, MovesSteps, LendingSteps, SpendingSteps, ChecksSteps, WritesSteps
     DEF Next

\* Every step keeps the inductive invariant.
LEMMA Inductive == IInv /\ [Next]_vars => IInv'
<1>1. ASSUME IInv, UNCHANGED vars PROVE IInv'
  BY <1>1
  DEF vars, till, ledgerVars, loanVars, billVars, IInv, TypeOK, LoansAddUp,
       RequestRules, Sound
<1> QED BY <1>1, Steps

\* The inductive invariant holds throughout.
THEOREM InvariantHolds == Spec => []IInv
BY InitHolds, Inductive, PTL DEF Spec

\* Loans, debts and what bills took are never negative.
THEOREM TypeCorrect == Spec => []TypeOK
BY InvariantHolds, PTL DEF IInv

\* A loan is repaid exactly when its repayments add up to it.
THEOREM LoansStayConsistent == Spec => []LoansAddUp
BY InvariantHolds, PTL DEF IInv

\* Only a stale correction overdraws a ledger, only trade the drawer.
THEOREM PocketsCovered == Spec => NoOverdraft
<1>1. IInv /\ [Next]_vars => [Covered]_vars
  BY Steps
<1> QED BY <1>1, InvariantHolds, PTL DEF Spec, NoOverdraft, Covered

\* Moving, lending and spending money do to the shop's position what
\* MoneyPosition says they do.
THEOREM MoneyIsConserved == Spec => ImplementsMoneyPosition
<1>1. Init => Position!Init
  <2>1. ASSUME Init PROVE Claims = 0
    <3> DEFINE f == [l \in Loans |-> Outstanding(l)]
    <3>1. MaxLoans \in Nat /\ \A l \in 1..MaxLoans : f[l] = 0
      BY <2>1, BankingConstants DEF Init, Loans, Outstanding
    <3> HIDE DEF f
    <3>2. Total(f, MaxLoans) = 0
      BY <3>1, TotalZero
    <3> QED BY <3>2 DEF Claims, f
  <2>2. ASSUME Init PROVE Cash = 0 /\ earned = 0
    <3>1. drawer = 0 /\ balance["bank"] = 0 /\ balance["hand"] = 0 /\ earned = 0
      BY <2>2 DEF Init, Ledgers
    <3> QED BY <3>1 DEF Cash
  <2> QED BY <2>1, <2>2 DEF Position!Init
<1>2. IInv /\ [Next]_vars => [Position!Next]_(Position!vars)
  <2>1. UNCHANGED vars => UNCHANGED Position!vars
    BY ClaimsUnchanged DEF vars, till, ledgerVars, loanVars, Position!vars, Cash
  <2> QED BY <2>1, Steps
<1> QED BY <1>1, <1>2, InvariantHolds, PTL DEF Spec, ImplementsMoneyPosition,
     Position!Spec

-----------------------------------------------------------------------------
(* Payables. *)

\* Nothing bought, owed or paid yet.
LEMMA PayablesStart == PayablesInit => PayablesInv
<1> SUFFICES ASSUME PayablesInit PROVE PayablesInv
  OBVIOUS
<1> USE PayablesConstants
<1>1. PayablesTypeOK /\ Unrecorded
  BY DEF PayablesInit, PayablesTypeOK, Unrecorded, Zeros
<1>2. ASSUME NEW s \in Suppliers PROVE SumDue(s) = 0 /\ EverOwed(s) = 0
  <2>1. \A p \in 1..MaxPurchases : Of(s, amountDue)[p] = 0 /\ Of(s, Credit)[p] = 0
    BY DEF PayablesInit, Of, Credit, Zeros, Purchases
  <2>2. Total(Of(s, amountDue), MaxPurchases) = 0 /\ Total(Of(s, Credit), MaxPurchases) = 0
    BY <2>1, TotalZero
  <2> QED BY <2>2 DEF SumDue, EverOwed
<1>3. \A s \in Suppliers : supplierBalance[s] = 0 /\ paid[s] = 0
  BY DEF PayablesInit
<1> QED BY <1>1, <1>2, <1>3 DEF PayablesInv, BalanceExplained, NeverOverpaid

\* The sums of a supplier are whole, and what is due is never negative.
LEMMA SumTypes ==
  ASSUME PayablesTypeOK, NEW s \in Suppliers
  PROVE  /\ SumDue(s) \in Nat /\ EverOwed(s) \in Int
         /\ \A p \in 1..MaxPurchases : Of(s, amountDue)[p] \in Int /\ Of(s, Credit)[p] \in Int
         /\ \A p \in Purchases : supplier[p] = s => amountDue[p] <= SumDue(s)
<1> USE PayablesConstants
<1>1. \A p \in 1..MaxPurchases : Of(s, amountDue)[p] \in Nat /\ Of(s, Credit)[p] \in Int
  BY DEF PayablesTypeOK, Of, Credit, Purchases
<1>2. /\ Total(Of(s, amountDue), MaxPurchases) \in Nat
      /\ \A p \in 1..MaxPurchases : Of(s, amountDue)[p] <= Total(Of(s, amountDue), MaxPurchases)
      /\ Total(Of(s, Credit), MaxPurchases) \in Int
  BY <1>1, TotalNat, TotalType
<1>3. \A p \in Purchases : supplier[p] = s => Of(s, amountDue)[p] = amountDue[p]
  BY DEF Of
<1>4. \A p \in 1..MaxPurchases : Of(s, amountDue)[p] \in Int
  BY <1>1
<1> QED BY <1>1, <1>2, <1>3, <1>4 DEF SumDue, EverOwed, Purchases

\* One purchase of the supplier changes what is due on it, and the credit taken.
LEMMA SumsChangeAt ==
  ASSUME PayablesTypeOK, NEW s \in Suppliers, NEW p \in Purchases, NEW d \in Int, NEW c \in Int,
         \A q \in Purchases :
           /\ Of(s, amountDue)'[q] = Of(s, amountDue)[q] + (IF q = p THEN d ELSE 0)
           /\ Of(s, Credit)'[q] = Of(s, Credit)[q] + (IF q = p THEN c ELSE 0)
  PROVE  SumDue(s)' = SumDue(s) + d /\ EverOwed(s)' = EverOwed(s) + c
<1> USE PayablesConstants
<1> DEFINE f == Of(s, amountDue)
           g == Of(s, amountDue)'
           u == Of(s, Credit)
           v == Of(s, Credit)'
<1>1. MaxPurchases \in Nat /\ \A q \in 1..MaxPurchases : f[q] \in Int /\ u[q] \in Int
  BY SumTypes
<1>2. \A q \in 1..MaxPurchases : /\ g[q] = IF q = p THEN f[q] + d ELSE f[q]
                                 /\ v[q] = IF q = p THEN u[q] + c ELSE u[q]
  BY <1>1 DEF Purchases
<1>3. p \in 1..MaxPurchases
  BY DEF Purchases
<1> HIDE DEF f, g, u, v
<1>4. Total(g, MaxPurchases) = Total(f, MaxPurchases) + d
  BY ONLY <1>1, <1>2, <1>3, d \in Int, TotalChangeAt
<1>5. Total(v, MaxPurchases) = Total(u, MaxPurchases) + c
  BY ONLY <1>1, <1>2, <1>3, c \in Int, TotalChangeAt
<1> QED BY <1>4, <1>5 DEF SumDue, EverOwed, f, g, u, v

\* A purchase raises the balance and the credit taken by the same amount.
LEMMA CreateKeeps ==
  ASSUME PayablesInv, NEW p \in Purchases, NEW s \in Suppliers \cup {NoSupplier},
         NEW cost \in Nat, NEW now \in Nat, CreatePurchase(p, s, cost, now)
  PROVE  PayablesInv'
<1> USE PayablesConstants
<1>1. PayablesTypeOK /\ Unrecorded /\ BalanceExplained /\ NeverOverpaid
  BY DEF PayablesInv
<1>2. /\ cost - now \in Nat
      /\ totalCost[p] = 0 /\ amountPaid[p] = 0 /\ amountDue[p] = 0
  BY <1>1 DEF CreatePurchase, Unrecorded
<1>3. PayablesTypeOK'
  BY <1>1, <1>2 DEF CreatePurchase, PayablesTypeOK
<1>4. Unrecorded'
  BY <1>1 DEF CreatePurchase, Unrecorded, PayablesTypeOK
<1>5. ASSUME NEW t \in Suppliers
      PROVE  /\ SumDue(t)' = SumDue(t) + (IF t = s THEN cost - now ELSE 0)
             /\ EverOwed(t)' = EverOwed(t) + (IF t = s THEN cost - now ELSE 0)
             /\ supplierBalance'[t] = supplierBalance[t] + (IF t = s THEN cost - now ELSE 0)
             /\ paid'[t] = paid[t]
  <2> DEFINE d == IF t = s THEN cost - now ELSE 0
  <2>1. d \in Int
    BY <1>2
  <2>2. ASSUME NEW q \in Purchases, q # p
        PROVE  /\ supplier'[q] = supplier[q] /\ amountDue'[q] = amountDue[q]
               /\ totalCost'[q] = totalCost[q] /\ amountPaid'[q] = amountPaid[q]
    BY <1>1, <2>2 DEF CreatePurchase, PayablesTypeOK
  <2>3. /\ supplier'[p] = s /\ amountDue'[p] = cost - now
        /\ totalCost'[p] = cost /\ amountPaid'[p] = now
    BY <1>1 DEF CreatePurchase, PayablesTypeOK
  <2>4. ASSUME NEW q \in Purchases
        PROVE  /\ Of(t, amountDue)'[q] = Of(t, amountDue)[q] + (IF q = p THEN d ELSE 0)
               /\ Of(t, Credit)'[q] = Of(t, Credit)[q] + (IF q = p THEN d ELSE 0)
    <3>1. /\ amountDue[q] \in Int /\ totalCost[q] \in Int /\ amountPaid[q] \in Int
      BY <1>1 DEF PayablesTypeOK
    <3>2. CASE q = p
      BY <1>2, <2>3, <3>1, <3>2 DEF Of, Credit
    <3>3. CASE q # p
      BY <2>2, <3>1, <3>3 DEF Of, Credit
    <3> QED BY <3>2, <3>3
  <2> HIDE DEF d
  <2>5. SumDue(t)' = SumDue(t) + d /\ EverOwed(t)' = EverOwed(t) + d
    BY <1>1, <2>1, <2>4, SumsChangeAt
  <2> QED BY <2>5 DEF d, CreatePurchase
<1>6. ASSUME NEW t \in Suppliers
      PROVE  /\ SumDue(t) \in Int /\ EverOwed(t) \in Int
             /\ supplierBalance[t] \in Int /\ paid[t] \in Int
  BY <1>1, SumTypes DEF PayablesTypeOK
<1>7. BalanceExplained' /\ NeverOverpaid'
  BY <1>1, <1>2, <1>5, <1>6 DEF BalanceExplained, NeverOverpaid
<1> QED BY <1>3, <1>4, <1>7 DEF PayablesInv

\* A payment moves an amount from the balance to what was paid.
LEMMA PaymentKeeps ==
  ASSUME PayablesInv, NEW s \in Suppliers, NEW n \in Nat, NEW p, RecordPayment(s, n, p)
  PROVE  PayablesInv'
<1> USE PayablesConstants
<1>1. PayablesTypeOK /\ Unrecorded /\ BalanceExplained /\ NeverOverpaid
  BY DEF PayablesInv
<1>2. supplierBalance[s] - n \in Nat
  BY <1>1 DEF RecordPayment, PayablesTypeOK
<1>3. PayablesTypeOK'
  BY <1>1, <1>2 DEF RecordPayment, PayablesTypeOK, terms
<1>4. Unrecorded'
  BY <1>1 DEF RecordPayment, Unrecorded, terms
<1>5. ASSUME NEW t \in Suppliers
      PROVE  /\ SumDue(t)' = SumDue(t) /\ EverOwed(t)' = EverOwed(t)
             /\ supplierBalance'[t] = supplierBalance[t] - (IF t = s THEN n ELSE 0)
             /\ paid'[t] = paid[t] + (IF t = s THEN n ELSE 0)
  <2>1. Of(t, amountDue)' = Of(t, amountDue) /\ Of(t, Credit)' = Of(t, Credit)
    BY DEF RecordPayment, terms, Of, Credit
  <2>2. SumDue(t)' = SumDue(t) /\ EverOwed(t)' = EverOwed(t)
    BY <2>1 DEF SumDue, EverOwed
  <2>3. supplierBalance[t] \in Int /\ paid[t] \in Int
    BY <1>1 DEF PayablesTypeOK
  <2>4. /\ supplierBalance'[t] = supplierBalance[t] - (IF t = s THEN n ELSE 0)
        /\ paid'[t] = paid[t] + (IF t = s THEN n ELSE 0)
    BY <1>1, <2>3 DEF RecordPayment, PayablesTypeOK
  <2> QED BY <2>2, <2>4
<1>6. ASSUME NEW t \in Suppliers
      PROVE  /\ SumDue(t) \in Int /\ EverOwed(t) \in Int
             /\ supplierBalance[t] \in Int /\ paid[t] \in Int
  BY <1>1, SumTypes DEF PayablesTypeOK
<1>7. BalanceExplained' /\ NeverOverpaid'
  BY <1>1, <1>5, <1>6 DEF BalanceExplained, NeverOverpaid
<1> QED BY <1>3, <1>4, <1>7 DEF PayablesInv

\* Undoing a purchase lowers what is due at least as far as the clamped balance.
LEMMA VoidKeeps ==
  ASSUME PayablesInv, NEW p \in Purchases, VoidPurchase(p)
  PROVE  PayablesInv'
<1> USE PayablesConstants
<1>1. PayablesTypeOK /\ Unrecorded /\ BalanceExplained /\ NeverOverpaid
  BY DEF PayablesInv
<1>2. /\ amountDue[p] \in Nat /\ \A t \in Suppliers : supplierBalance[t] \in Nat /\ paid[t] \in Nat
  BY <1>1 DEF PayablesTypeOK
<1>3. ASSUME NEW t \in Suppliers
      PROVE  /\ supplierBalance'[t] = IF t = supplier[p] THEN AtLeastZero(supplierBalance[t] - amountDue[p])
                                                 ELSE supplierBalance[t]
             /\ paid'[t] = paid[t] /\ supplierBalance'[t] \in Nat
  BY <1>2 DEF VoidPurchase, AtLeastZero
<1>4. PayablesTypeOK'
  <2>1. supplierBalance' \in [Suppliers -> Nat]
    BY <1>3 DEF VoidPurchase
  <2> QED BY <1>1, <2>1 DEF VoidPurchase, PayablesTypeOK, terms
<1>5. Unrecorded'
  BY <1>1 DEF VoidPurchase, Unrecorded, PayablesTypeOK, terms
<1>6. ASSUME NEW t \in Suppliers
      PROVE  /\ SumDue(t)' = SumDue(t) - (IF t = supplier[p] THEN amountDue[p] ELSE 0)
             /\ EverOwed(t)' = EverOwed(t)
  <2> DEFINE d == IF t = supplier[p] THEN - amountDue[p] ELSE 0
  <2>1. d \in Int /\ 0 \in Int
    BY <1>2
  <2>2. ASSUME NEW q \in Purchases
        PROVE  /\ Of(t, amountDue)'[q] = Of(t, amountDue)[q] + (IF q = p THEN d ELSE 0)
               /\ Of(t, Credit)'[q] = Of(t, Credit)[q] + (IF q = p THEN 0 ELSE 0)
    <3>1. /\ amountDue[q] \in Int /\ totalCost[q] \in Int /\ amountPaid[q] \in Int
          /\ amountDue'[q] = IF q = p THEN 0 ELSE amountDue[q]
          /\ supplier' = supplier /\ totalCost' = totalCost /\ amountPaid' = amountPaid
      BY <1>1 DEF PayablesTypeOK, VoidPurchase, terms
    <3> QED BY <3>1 DEF Of, Credit
  <2> HIDE DEF d
  <2>3. SumDue(t)' = SumDue(t) + d /\ EverOwed(t)' = EverOwed(t) + 0
    BY <1>1, <2>1, <2>2, SumsChangeAt
  <2>4. SumDue(t) \in Int /\ EverOwed(t) \in Int
    BY <1>1, SumTypes
  <2> QED BY <1>2, <2>3, <2>4 DEF d
<1>7. ASSUME NEW t \in Suppliers
      PROVE  /\ SumDue(t) \in Nat /\ EverOwed(t) \in Int
             /\ t = supplier[p] => amountDue[p] <= SumDue(t)
  BY <1>1, SumTypes
<1>8. ASSUME NEW t \in Suppliers
      PROVE  /\ SumDue(t)' - paid'[t] <= supplierBalance'[t] /\ supplierBalance'[t] <= SumDue(t)'
             /\ paid'[t] + supplierBalance'[t] <= EverOwed(t)'
  <2>1. /\ SumDue(t) - paid[t] <= supplierBalance[t] /\ supplierBalance[t] <= SumDue(t)
        /\ paid[t] + supplierBalance[t] <= EverOwed(t)
    BY <1>1 DEF BalanceExplained, NeverOverpaid
  <2> QED BY <1>2, <1>3, <1>6, <1>7, <2>1 DEF AtLeastZero
<1>9. BalanceExplained' /\ NeverOverpaid'
  BY <1>8 DEF BalanceExplained, NeverOverpaid
<1> QED BY <1>4, <1>5, <1>9 DEF PayablesInv

\* Every step keeps the inductive invariant.
LEMMA PayablesSteps == PayablesInv /\ [PayablesNext]_payablesVars => PayablesInv'
<1>1. SUFFICES ASSUME PayablesInv, [PayablesNext]_payablesVars PROVE PayablesInv'
  OBVIOUS
<1>2. ASSUME UNCHANGED payablesVars PROVE PayablesInv'
  BY <1>1, <1>2
  DEF payablesVars, terms, PayablesInv, PayablesTypeOK, Unrecorded, BalanceExplained,
       NeverOverpaid, SumDue,
      EverOwed, Of, Credit
<1>3. /\ \A n \in 0..MaxCost : n \in Nat
      /\ \A n \in 1..(MaxCost * MaxPurchases) : n \in Nat
  BY PayablesConstants
<1> QED BY <1>1, <1>2, <1>3, CreateKeeps, PaymentKeeps, VoidKeeps DEF PayablesNext

\* The inductive invariant holds of every supplier account.
THEOREM PayablesHold == PayablesSpec => []PayablesInv
BY PayablesStart, PayablesSteps, PTL DEF PayablesSpec

\* Balances, payments and dues are never negative.
THEOREM PayablesTypeCorrect == PayablesSpec => []PayablesTypeOK
BY PayablesHold, PTL DEF PayablesInv

\* A supplier's balance lies between what its standing purchases leave due and
\* that less everything paid.
THEOREM BalanceAccountedFor == PayablesSpec => []BalanceExplained
BY PayablesHold, PTL DEF PayablesInv

\* No supplier is ever paid more than the credit taken from it.
THEOREM SuppliersNeverOverpaid == PayablesSpec => []NeverOverpaid
BY PayablesHold, PTL DEF PayablesInv
=============================================================================
