----------------------------- MODULE SumsProofs -----------------------------
(***************************************************************************)
(* Facts about sums over rows.  Induction over the rows is carried by a     *)
(* set: a nonempty set of numbers has a least member (WFMin), so a set      *)
(* that holds 0 and is closed under + 1 holds every number.                 *)
(***************************************************************************)
EXTENDS Sums, WellFoundedInduction, TLAPS

\* What RunningSum(f, n) is, as a relation.
IsRunningSum(g, f, n) ==
  /\ g \in [0..n -> Int]
  /\ g[0] = 0
  /\ \A i \in 1..n : g[i] = g[i - 1] + f[i]

\* Induction over the natural numbers, for a set of numbers.
LEMMA NatSetInduction ==
  ASSUME NEW S, 0 \in S, \A n \in Nat : n \in S => n + 1 \in S
  PROVE  Nat \subseteq S
<1> DEFINE T == Nat \ S
<1>1. SUFFICES ASSUME T # {} PROVE FALSE
  OBVIOUS
<1>2. PICK x \in T : \A y \in T : ~ (<<y, x>> \in OpToRel(<, Nat))
  BY <1>1, WFMin, NatLessThanWellFounded
<1>3. x # 0 /\ x \in Nat /\ x - 1 \in Nat
  OBVIOUS
<1>4. <<x - 1, x>> \in OpToRel(<, Nat)
  BY <1>3 DEF OpToRel
<1>5. x - 1 \in S
  BY <1>2, <1>3, <1>4
<1>6. (x - 1) + 1 \in S
  BY <1>3, <1>5
<1> QED
  BY <1>3, <1>6

\* Every column of numbers has a running sum.
LEMMA RunningSumExists ==
  ASSUME NEW N \in Nat, NEW f, \A i \in 1..N : f[i] \in Int
  PROVE  \E g : IsRunningSum(g, f, N)
<1> DEFINE S == {n \in Nat : n <= N => \E g : IsRunningSum(g, f, n)}
<1>1. 0 \in S
  <2>1. IsRunningSum([i \in 0..0 |-> 0], f, 0)
    BY DEF IsRunningSum
  <2> QED BY <2>1
<1>2. ASSUME NEW n \in Nat, n \in S PROVE n + 1 \in S
  <2>1. SUFFICES ASSUME n + 1 <= N PROVE \E g : IsRunningSum(g, f, n + 1)
    OBVIOUS
  <2>2. PICK g : IsRunningSum(g, f, n)
    BY <1>2, <2>1
  <2> DEFINE h == [i \in 0..(n + 1) |-> IF i = n + 1 THEN g[n] + f[n + 1] ELSE g[i]]
  <2>3. IsRunningSum(h, f, n + 1)
    BY <2>1, <2>2 DEF IsRunningSum
  <2> QED BY <2>3
<1>3. Nat \subseteq S
  <2> HIDE DEF S
  <2> QED BY <1>1, <1>2, NatSetInduction
<1> QED BY <1>3

\* It has only one.
LEMMA RunningSumUnique ==
  ASSUME NEW N \in Nat, NEW f, NEW g, NEW h,
         IsRunningSum(g, f, N), IsRunningSum(h, f, N)
  PROVE  g = h
<1> DEFINE S == {n \in Nat : n <= N => g[n] = h[n]}
<1>1. 0 \in S
  BY DEF IsRunningSum
<1>2. ASSUME NEW n \in Nat, n \in S PROVE n + 1 \in S
  BY <1>2 DEF IsRunningSum
<1>3. Nat \subseteq S
  <2> HIDE DEF S
  <2> QED BY <1>1, <1>2, NatSetInduction
<1>4. \A i \in 0..N : g[i] = h[i]
  BY <1>3
<1> QED BY <1>4 DEF IsRunningSum

\* The recursive definition is that running sum.
LEMMA RunningSumDef ==
  ASSUME NEW N \in Nat, NEW f, \A i \in 1..N : f[i] \in Int
  PROVE  IsRunningSum(RunningSum(f, N), f, N)
<1> DEFINE s == RunningSum(f, N)
           Eq(g) == g = [i \in 0..N |-> IF i = 0 THEN 0 ELSE g[i - 1] + f[i]]
<1>1. PICK g : IsRunningSum(g, f, N)
  BY RunningSumExists
<1>2. Eq(g)
  BY <1>1 DEF IsRunningSum
<1>3. s = CHOOSE h : Eq(h)
  BY DEF RunningSum
<1>4. Eq(s)
  BY <1>2, <1>3
<1>5. \A i \in 0..N : s[i] = IF i = 0 THEN 0 ELSE s[i - 1] + f[i]
  BY <1>4
<1>6. s = [i \in 0..N |-> s[i]]
  BY <1>4
<1> DEFINE S == {n \in Nat : n <= N => s[n] \in Int}
<1>7. Nat \subseteq S
  <2>1. 0 \in S
    BY <1>5
  <2>2. ASSUME NEW n \in Nat, n \in S PROVE n + 1 \in S
    BY <2>2, <1>5
  <2> HIDE DEF S
  <2> QED BY <2>1, <2>2, NatSetInduction
<1>8. \A i \in 0..N : s[i] \in Int
  BY <1>7
<1>9. IsRunningSum(s, f, N)
  <2> HIDE DEF s
  <2>1. s \in [0..N -> Int]
    BY <1>6, <1>8
  <2>2. s[0] = 0 /\ \A i \in 1..N : s[i] = s[i - 1] + f[i]
    BY <1>5
  <2> QED BY <2>1, <2>2 DEF IsRunningSum
<1> QED BY <1>9

\* A column of numbers has numbers for its running sums.
LEMMA TotalType ==
  ASSUME NEW N \in Nat, NEW f, \A i \in 1..N : f[i] \in Int
  PROVE  Total(f, N) \in Int
<1>1. IsRunningSum(RunningSum(f, N), f, N)
  BY RunningSumDef
<1> QED BY <1>1 DEF IsRunningSum, Total

\* Whatever satisfies the equations of a running sum is the running sum.
LEMMA RunningSumIs ==
  ASSUME NEW N \in Nat, NEW f, \A i \in 1..N : f[i] \in Int,
         NEW g, IsRunningSum(g, f, N)
  PROVE  RunningSum(f, N) = g
<1>1. IsRunningSum(RunningSum(f, N), f, N)
  BY RunningSumDef
<1> QED BY <1>1, RunningSumUnique

\* Adding two columns row by row adds their totals.
LEMMA TotalAdd ==
  ASSUME NEW N \in Nat, NEW f, NEW g, NEW h,
         \A i \in 1..N : f[i] \in Int /\ g[i] \in Int /\ h[i] = f[i] + g[i]
  PROVE  Total(h, N) = Total(f, N) + Total(g, N)
<1> DEFINE F == RunningSum(f, N)
           G == RunningSum(g, N)
           s == [i \in 0..N |-> F[i] + G[i]]
<1>1. IsRunningSum(F, f, N) /\ IsRunningSum(G, g, N)
  BY RunningSumDef
<1>2. IsRunningSum(s, h, N)
  <2> HIDE DEF F, G
  <2>1. s \in [0..N -> Int] /\ s[0] = 0
    BY <1>1 DEF IsRunningSum
  <2>2. ASSUME NEW i \in 1..N PROVE s[i] = s[i - 1] + h[i]
    <3>1. F[i] = F[i - 1] + f[i] /\ F[i - 1] \in Int /\ f[i] \in Int
      BY <1>1 DEF IsRunningSum
    <3>2. G[i] = G[i - 1] + g[i] /\ G[i - 1] \in Int /\ g[i] \in Int
      BY <1>1 DEF IsRunningSum
    <3>3. s[i] = F[i] + G[i] /\ s[i - 1] = F[i - 1] + G[i - 1]
      OBVIOUS
    <3> HIDE DEF s
    <3> QED BY <3>1, <3>2, <3>3
  <2> QED BY <2>1, <2>2 DEF IsRunningSum
<1>3. \A i \in 1..N : h[i] \in Int
  OBVIOUS
<1>4. RunningSum(h, N) = s
  BY <1>2, <1>3, RunningSumIs
<1> QED BY <1>4 DEF Total

\* Changing one row changes the total by the same amount.
LEMMA TotalChangeAt ==
  ASSUME NEW N \in Nat, NEW f, NEW h, NEW k \in 1..N, NEW d \in Int,
         \A i \in 1..N : f[i] \in Int,
         \A i \in 1..N : h[i] = IF i = k THEN f[i] + d ELSE f[i]
  PROVE  Total(h, N) = Total(f, N) + d
<1> DEFINE F == RunningSum(f, N)
           s == [i \in 0..N |-> IF i < k THEN F[i] ELSE F[i] + d]
<1>1. IsRunningSum(F, f, N)
  BY RunningSumDef
<1>2. IsRunningSum(s, h, N)
  <2> HIDE DEF F
  <2>1. s \in [0..N -> Int] /\ s[0] = 0
    BY <1>1 DEF IsRunningSum
  <2>2. ASSUME NEW i \in 1..N PROVE s[i] = s[i - 1] + h[i]
    <3>1. F[i] = F[i - 1] + f[i] /\ F[i - 1] \in Int /\ f[i] \in Int
      BY <1>1 DEF IsRunningSum
    <3>2. /\ s[i] = IF i < k THEN F[i] ELSE F[i] + d
          /\ s[i - 1] = IF i - 1 < k THEN F[i - 1] ELSE F[i - 1] + d
      OBVIOUS
    <3> HIDE DEF s
    <3> QED BY <3>1, <3>2
  <2> QED BY <2>1, <2>2 DEF IsRunningSum
<1>3. RunningSum(h, N) = s
  BY <1>2, RunningSumIs
<1>4. s[N] = F[N] + d
  OBVIOUS
<1> QED BY <1>3, <1>4 DEF Total

\* Columns with the same rows have the same total.
LEMMA TotalSame ==
  ASSUME NEW N \in Nat, NEW f, NEW h,
         \A i \in 1..N : f[i] \in Int /\ h[i] = f[i]
  PROVE  Total(h, N) = Total(f, N)
<1>1. IsRunningSum(RunningSum(f, N), f, N)
  BY RunningSumDef
<1>2. IsRunningSum(RunningSum(f, N), h, N)
  BY <1>1 DEF IsRunningSum
<1>3. RunningSum(h, N) = RunningSum(f, N)
  BY <1>2, RunningSumIs
<1> QED BY <1>3 DEF Total

\* A column of zeros adds up to zero.
LEMMA TotalZero ==
  ASSUME NEW N \in Nat, NEW f, \A i \in 1..N : f[i] = 0
  PROVE  Total(f, N) = 0
<1> DEFINE s == [i \in 0..N |-> 0]
<1>1. IsRunningSum(s, f, N)
  BY DEF IsRunningSum
<1>2. RunningSum(f, N) = s
  BY <1>1, RunningSumIs
<1> QED BY <1>2 DEF Total

\* The running sums of a column with no negative row never decrease.
LEMMA RunningSumMonotone ==
  ASSUME NEW N \in Nat, NEW f, \A i \in 1..N : f[i] \in Nat,
         NEW j \in 0..N, NEW k \in 0..N, j <= k
  PROVE  RunningSum(f, N)[j] <= RunningSum(f, N)[k]
<1> DEFINE F == RunningSum(f, N)
           S == {n \in Nat : j <= n /\ n <= N => F[j] <= F[n]}
<1>1. IsRunningSum(F, f, N)
  BY RunningSumDef
<1>2. 0 \in S
  BY <1>1 DEF IsRunningSum
<1>3. ASSUME NEW n \in Nat, n \in S PROVE n + 1 \in S
  <2> HIDE DEF F
  <2> SUFFICES ASSUME j <= n + 1, n + 1 <= N PROVE F[j] <= F[n + 1]
    OBVIOUS
  <2>1. CASE j = n + 1
    BY <1>1, <2>1 DEF IsRunningSum
  <2>2. CASE j <= n
    <3>1. F[n + 1] = F[n] + f[n + 1] /\ f[n + 1] \in Nat
      BY <1>1 DEF IsRunningSum
    <3>2. F[j] \in Int /\ F[n] \in Int /\ F[j] <= F[n]
      BY <1>1, <1>3, <2>2 DEF IsRunningSum
    <3> QED BY <3>1, <3>2
  <2> QED BY <2>1, <2>2
<1>4. Nat \subseteq S
  <2> HIDE DEF S
  <2> QED BY <1>2, <1>3, NatSetInduction
<1> QED BY <1>4

\* The total of a column with no negative row is no less than any row.
LEMMA TotalNat ==
  ASSUME NEW N \in Nat, NEW f, \A i \in 1..N : f[i] \in Nat
  PROVE  /\ Total(f, N) \in Nat
         /\ \A k \in 1..N : f[k] <= Total(f, N)
<1> DEFINE F == RunningSum(f, N)
<1>1. IsRunningSum(F, f, N)
  BY RunningSumDef
<1>2. \A j, k \in 0..N : j <= k => F[j] <= F[k]
  BY RunningSumMonotone
<1> HIDE DEF F
<1>3. F[0] = 0 /\ F[N] \in Int /\ F[0] <= F[N]
  BY <1>1, <1>2 DEF IsRunningSum
<1>4. ASSUME NEW k \in 1..N PROVE f[k] <= F[N]
  <2>1. F[k] = F[k - 1] + f[k] /\ F[k - 1] \in Int /\ F[k] \in Int
    BY <1>1 DEF IsRunningSum
  <2>2. F[0] <= F[k - 1] /\ F[k] <= F[N]
    BY <1>2
  <2> QED BY <1>3, <2>1, <2>2
<1> QED BY <1>3, <1>4 DEF Total, F

\* The greedy walk never takes more than a row holds, takes from a row only
\* when every earlier row is exhausted, and takes in all what was asked for or
\* everything there is.
LEMMA GreedyTakes ==
  ASSUME NEW N \in Nat, NEW f, \A i \in 1..N : f[i] \in Nat, NEW amount \in Nat
  PROVE  /\ \A i \in 1..N : Greedy(f, N, amount)[i] \in 0..f[i]
         /\ \A i \in 1..N : Greedy(f, N, amount)[i] > 0
              => \A j \in 1..(i - 1) : Greedy(f, N, amount)[j] = f[j]
         /\ Total(Greedy(f, N, amount), N) = Lesser(amount, Total(f, N))
<1> DEFINE F == RunningSum(f, N)
           t == Greedy(f, N, amount)
           s == [i \in 0..N |-> Lesser(amount, F[i])]
<1>1. IsRunningSum(F, f, N)
  BY RunningSumDef
<1>2. \A j, k \in 0..N : j <= k => F[j] <= F[k]
  BY RunningSumMonotone
<1>3. \A i \in 1..N : t[i] = Lesser(f[i], AtLeastZero(amount - F[i - 1]))
  BY DEF Greedy
<1> HIDE DEF F, t
<1>4. \A i \in 0..N : F[i] \in Nat
  BY <1>1, <1>2 DEF IsRunningSum
<1>5. \A i \in 1..N : F[i] = F[i - 1] + f[i] /\ F[i - 1] \in Nat
  BY <1>1, <1>4 DEF IsRunningSum
<1>6. \A i \in 1..N : t[i] \in 0..f[i]
  BY <1>3, <1>5 DEF Lesser, AtLeastZero
<1>7. ASSUME NEW i \in 1..N, t[i] > 0, NEW j \in 1..(i - 1) PROVE t[j] = f[j]
  <2>1. amount > F[i - 1]
    BY <1>3, <1>5, <1>7 DEF Lesser, AtLeastZero
  <2>2. F[j] <= F[i - 1]
    BY <1>2
  <2>3. f[j] <= amount - F[j - 1] /\ f[j] \in Nat /\ F[j - 1] \in Nat
    BY <1>4, <1>5, <2>1, <2>2
  <2> QED BY <1>3, <2>3 DEF Lesser, AtLeastZero
<1>8. IsRunningSum(s, t, N)
  <2>1. s \in [0..N -> Int] /\ s[0] = 0
    BY <1>1, <1>4 DEF IsRunningSum, Lesser
  <2>2. ASSUME NEW i \in 1..N PROVE s[i] = s[i - 1] + t[i]
    BY <1>3, <1>5 DEF Lesser, AtLeastZero
  <2> QED BY <2>1, <2>2 DEF IsRunningSum
<1>9. RunningSum(t, N) = s
  BY <1>6, <1>8, RunningSumIs
<1>10. Total(t, N) = Lesser(amount, Total(f, N))
  BY <1>9 DEF Total, F
<1> QED BY <1>6, <1>7, <1>10 DEF t

-----------------------------------------------------------------------------
(* Totals row by row: one row more, subtraction, a factor, order of summation. *)

\* No rows add up to nothing.
LEMMA TotalNone ==
  ASSUME NEW f
  PROVE  Total(f, 0) = 0
BY TotalZero

\* One more row adds what it holds.
LEMMA TotalStep ==
  ASSUME NEW n \in Nat, NEW f, \A i \in 1..(n + 1) : f[i] \in Int
  PROVE  Total(f, n + 1) = Total(f, n) + f[n + 1]
<1> DEFINE F == RunningSum(f, n + 1)
           s == [i \in 0..n |-> F[i]]
<1>1. IsRunningSum(F, f, n + 1)
  BY RunningSumDef
<1> HIDE DEF F
<1>2. IsRunningSum(s, f, n)
  BY <1>1 DEF IsRunningSum
<1>3. RunningSum(f, n) = s
  <2> HIDE DEF s
  <2>1. \A i \in 1..n : f[i] \in Int
    OBVIOUS
  <2> QED BY <1>2, <2>1, RunningSumIs
<1>4. F[n + 1] = F[n] + f[n + 1]
  BY <1>1 DEF IsRunningSum
<1> QED BY <1>3, <1>4 DEF Total, F

\* Subtracting two columns row by row subtracts their totals.
LEMMA TotalSubtract ==
  ASSUME NEW N \in Nat, NEW f, NEW g, NEW h,
         \A i \in 1..N : f[i] \in Int /\ g[i] \in Int /\ h[i] = f[i] - g[i]
  PROVE  Total(h, N) = Total(f, N) - Total(g, N)
<1>1. \A i \in 1..N : h[i] \in Int /\ g[i] \in Int /\ f[i] = h[i] + g[i]
  OBVIOUS
<1>2. Total(f, N) = Total(h, N) + Total(g, N)
  BY <1>1, TotalAdd
<1>3. Total(h, N) \in Int /\ Total(g, N) \in Int
  BY <1>1, TotalType
<1> QED BY <1>2, <1>3

\* Rows of the opposite sign have the opposite total.
LEMMA TotalNegate ==
  ASSUME NEW N \in Nat, NEW f, NEW h, \A i \in 1..N : f[i] \in Int /\ h[i] = -f[i]
  PROVE  Total(h, N) = -Total(f, N)
<1> DEFINE z == [i \in 1..N |-> 0]
<1>1. Total(z, N) = 0
  BY TotalZero
<1>2. \A i \in 1..N : z[i] \in Int /\ f[i] \in Int /\ h[i] = z[i] - f[i]
  OBVIOUS
<1> HIDE DEF z
<1>3. Total(h, N) = Total(z, N) - Total(f, N)
  BY <1>2, TotalSubtract
<1>4. Total(f, N) \in Int
  BY <1>2, TotalType
<1> QED BY <1>1, <1>3, <1>4

\* A factor common to the rows is a factor of the total.
LEMMA TotalScale ==
  ASSUME NEW N \in Nat, NEW c \in Int, NEW f, NEW h,
         \A i \in 1..N : f[i] \in Int /\ h[i] = f[i] * c
  PROVE  Total(h, N) = Total(f, N) * c
<1> DEFINE T == {n \in Nat : n <= N => Total(h, n) = Total(f, n) * c}
<1>1. 0 \in T
  BY TotalNone
<1>2. ASSUME NEW n \in Nat, n \in T PROVE n + 1 \in T
  <2> SUFFICES ASSUME n + 1 <= N PROVE Total(h, n + 1) = Total(f, n + 1) * c
    OBVIOUS
  <2>1. Total(h, n) = Total(f, n) * c
    BY <1>2
  <2>2. \A i \in 1..(n + 1) : f[i] \in Int /\ h[i] \in Int
    OBVIOUS
  <2>3. Total(h, n + 1) = Total(h, n) + h[n + 1] /\ Total(f, n + 1) = Total(f, n) + f[n + 1]
    BY <2>2, TotalStep
  <2>4. Total(f, n) \in Int /\ f[n + 1] \in Int /\ h[n + 1] = f[n + 1] * c
    BY <2>2, TotalType
  <2>5. (Total(f, n) + f[n + 1]) * c = Total(f, n) * c + f[n + 1] * c
    BY <2>4
  <2> QED BY <2>1, <2>3, <2>4, <2>5
<1>3. Nat \subseteq T
  <2> HIDE DEF T
  <2> QED BY <1>1, <1>2, NatSetInduction
<1> QED BY <1>3

\* A table adds up to the same by rows and by columns.
LEMMA TotalSwap ==
  ASSUME NEW M \in Nat, NEW N \in Nat, NEW F,
         \A i \in 1..M : \A j \in 1..N : F[i][j] \in Int
  PROVE  Total([i \in 1..M |-> Total(F[i], N)], M)
           = Total([j \in 1..N |-> Total([i \in 1..M |-> F[i][j]], M)], N)
<1> DEFINE R == [i \in 1..M |-> Total(F[i], N)]
           C(j) == [i \in 1..M |-> F[i][j]]
           D(m) == [j \in 1..N |-> Total(C(j), m)]
           T == {m \in Nat : m <= M => Total(R, m) = Total(D(m), N)}
<1>1. \A i \in 1..M : R[i] \in Int /\ R[i] = Total(F[i], N)
  BY TotalType
<1>2. \A j \in 1..N : \A i \in 1..M : C(j)[i] = F[i][j] /\ C(j)[i] \in Int
  OBVIOUS
<1>3. \A m \in Nat : \A j \in 1..N : D(m)[j] = Total(C(j), m)
  OBVIOUS
<1> HIDE DEF R, C, D
<1>4. 0 \in T
  <2>1. \A j \in 1..N : D(0)[j] = 0
    BY <1>3, TotalNone
  <2>2. Total(D(0), N) = 0
    BY <2>1, TotalZero
  <2> QED BY <2>2, TotalNone
<1>5. ASSUME NEW m \in Nat, m \in T PROVE m + 1 \in T
  <2> SUFFICES ASSUME m + 1 <= M PROVE Total(R, m + 1) = Total(D(m + 1), N)
    OBVIOUS
  <2>1. Total(R, m) = Total(D(m), N)
    BY <1>5
  <2>2. m + 1 \in 1..M
    OBVIOUS
  <2>3. \A i \in 1..(m + 1) : R[i] \in Int
    BY <1>1
  <2>4. Total(R, m + 1) = Total(R, m) + Total(F[m + 1], N)
    BY <1>1, <2>2, <2>3, TotalStep
  <2>5. ASSUME NEW j \in 1..N
        PROVE  /\ D(m)[j] \in Int /\ F[m + 1][j] \in Int
               /\ D(m + 1)[j] = D(m)[j] + F[m + 1][j]
    <3>1. \A i \in 1..(m + 1) : C(j)[i] \in Int
      BY <1>2
    <3>2. Total(C(j), m + 1) = Total(C(j), m) + C(j)[m + 1]
      BY <3>1, TotalStep
    <3>3. Total(C(j), m) \in Int
      BY <3>1, TotalType
    <3> QED BY <1>2, <1>3, <2>2, <3>2, <3>3
  <2>6. Total(D(m + 1), N) = Total(D(m), N) + Total(F[m + 1], N)
    <3> DEFINE d == D(m)
               e == D(m + 1)
               f == F[m + 1]
    <3>1. \A j \in 1..N : d[j] \in Int /\ f[j] \in Int /\ e[j] = d[j] + f[j]
      BY <2>5
    <3> HIDE DEF d, e, f
    <3>2. Total(e, N) = Total(d, N) + Total(f, N)
      BY <3>1, TotalAdd
    <3> QED BY <3>2 DEF d, e, f
  <2> QED BY <2>1, <2>4, <2>6
<1>6. Nat \subseteq T
  <2> HIDE DEF T
  <2> QED BY <1>4, <1>5, NatSetInduction
<1>7. Total(R, M) = Total(D(M), N)
  BY <1>6
<1> QED BY <1>7 DEF R, C, D

\* A column with one row that is not zero adds up to that row.
LEMMA TotalOneRow ==
  ASSUME NEW N \in Nat, NEW f, NEW k \in 1..N, f[k] \in Int,
         \A i \in 1..N : i # k => f[i] = 0
  PROVE  Total(f, N) = f[k]
<1> DEFINE z == [i \in 1..N |-> 0]
           d == f[k]
<1>1. d \in Int /\ \A i \in 1..N : z[i] \in Int
  OBVIOUS
<1>2. \A i \in 1..N : f[i] = IF i = k THEN z[i] + d ELSE z[i]
  OBVIOUS
<1>3. Total(z, N) = 0
  BY TotalZero
<1> HIDE DEF z, d
<1>4. Total(f, N) = Total(z, N) + d
  BY ONLY <1>1, <1>2, TotalChangeAt
<1> QED BY <1>1, <1>3, <1>4 DEF d

-----------------------------------------------------------------------------
(* Sums over some of the rows. *)

\* What a row contributes to a sum over the rows in S.
Share(f, n, S) == [i \in 1..n |-> IF i \in S THEN f[i] ELSE 0]

\* The rows that are left out do not matter, be they numbers or not.
LEMMA SumOverType ==
  ASSUME NEW N \in Nat, NEW f, NEW S, \A i \in 1..N : i \in S => f[i] \in Int
  PROVE  /\ SumOver(f, N, S) \in Int
         /\ \A i \in 1..N : Share(f, N, S)[i] \in Int
         /\ SumOver(f, N, S) = Total(Share(f, N, S), N)
<1>1. \A i \in 1..N : Share(f, N, S)[i] \in Int
  BY DEF Share
<1>2. SumOver(f, N, S) = Total(Share(f, N, S), N)
  BY DEF SumOver, Share
<1>3. Total(Share(f, N, S), N) \in Int
  BY <1>1, TotalType
<1> QED BY <1>1, <1>2, <1>3

\* A sum depends on the rows that are in it, and on nothing else.
LEMMA SumOverSame ==
  ASSUME NEW N \in Nat, NEW f, NEW g, NEW S, NEW R,
         \A i \in 1..N : i \in S <=> i \in R,
         \A i \in 1..N : i \in S => f[i] \in Int /\ g[i] = f[i]
  PROVE  SumOver(g, N, R) = SumOver(f, N, S)
<1> DEFINE x == Share(f, N, S)
           y == Share(g, N, R)
<1>1. \A i \in 1..N : x[i] \in Int /\ y[i] = x[i]
  BY DEF Share
<1>2. SumOver(f, N, S) = Total(x, N) /\ SumOver(g, N, R) = Total(y, N)
  BY SumOverType
<1> HIDE DEF x, y
<1> QED BY <1>1, <1>2, TotalSame

\* Rows that are zero, or not there, add nothing.
LEMMA SumOverZero ==
  ASSUME NEW N \in Nat, NEW f, NEW S, \A i \in 1..N : i \in S => f[i] = 0
  PROVE  SumOver(f, N, S) = 0
<1>1. \A i \in 1..N : Share(f, N, S)[i] = 0
  BY DEF Share
<1>2. Total(Share(f, N, S), N) = 0
  BY <1>1, TotalZero
<1> QED BY <1>2, SumOverType

\* No row negative, no sum negative; and then a sum of nothing is over zeros.
LEMMA SumOverNat ==
  ASSUME NEW N \in Nat, NEW f, NEW S, \A i \in 1..N : i \in S => f[i] \in Nat
  PROVE  /\ SumOver(f, N, S) \in Nat
         /\ \A i \in 1..N : i \in S => f[i] <= SumOver(f, N, S)
<1>1. \A i \in 1..N : Share(f, N, S)[i] \in Nat
  BY DEF Share
<1>2. /\ Total(Share(f, N, S), N) \in Nat
      /\ \A i \in 1..N : Share(f, N, S)[i] <= Total(Share(f, N, S), N)
  BY <1>1, TotalNat
<1>3. SumOver(f, N, S) = Total(Share(f, N, S), N)
  BY SumOverType
<1> QED BY <1>2, <1>3 DEF Share

\* Columns subtracted row by row.
LEMMA SumOverSubtract ==
  ASSUME NEW N \in Nat, NEW f, NEW g, NEW h, NEW S,
         \A i \in 1..N : i \in S => f[i] \in Int /\ g[i] \in Int /\ h[i] = f[i] - g[i]
  PROVE  SumOver(h, N, S) = SumOver(f, N, S) - SumOver(g, N, S)
<1> DEFINE x == Share(f, N, S)
           y == Share(g, N, S)
           z == Share(h, N, S)
<1>1. \A i \in 1..N : x[i] \in Int /\ y[i] \in Int /\ z[i] = x[i] - y[i]
  BY DEF Share
<1>2. /\ SumOver(f, N, S) = Total(x, N) /\ SumOver(g, N, S) = Total(y, N)
      /\ SumOver(h, N, S) = Total(z, N)
  BY SumOverType
<1> HIDE DEF x, y, z
<1> QED BY <1>1, <1>2, TotalSubtract

\* Rows parted in two are added up in two.
LEMMA SumOverSplit ==
  ASSUME NEW N \in Nat, NEW f, NEW S, NEW A, NEW B,
         \A i \in 1..N : i \in S => f[i] \in Int,
         \A i \in 1..N : i \in S <=> (i \in A \/ i \in B),
         \A i \in 1..N : ~ (i \in A /\ i \in B)
  PROVE  SumOver(f, N, S) = SumOver(f, N, A) + SumOver(f, N, B)
<1> DEFINE x == Share(f, N, A)
           y == Share(f, N, B)
           z == Share(f, N, S)
<1>1. \A i \in 1..N : x[i] \in Int /\ y[i] \in Int /\ z[i] = x[i] + y[i]
  BY DEF Share
<1>2. /\ SumOver(f, N, A) = Total(x, N) /\ SumOver(f, N, B) = Total(y, N)
      /\ SumOver(f, N, S) = Total(z, N)
  BY SumOverType
<1> HIDE DEF x, y, z
<1> QED BY <1>1, <1>2, TotalAdd

\* A row written at the end is counted if it belongs to the sum.
LEMMA SumOverLast ==
  ASSUME NEW n \in Nat, NEW f, NEW S, \A i \in 1..(n + 1) : i \in S => f[i] \in Int
  PROVE  SumOver(f, n + 1, S) = SumOver(f, n, S) + (IF n + 1 \in S THEN f[n + 1] ELSE 0)
<1> DEFINE x == Share(f, n + 1, S)
           y == Share(f, n, S)
<1>1. /\ \A i \in 1..(n + 1) : x[i] \in Int
      /\ \A i \in 1..n : y[i] \in Int /\ x[i] = y[i]
      /\ x[n + 1] = IF n + 1 \in S THEN f[n + 1] ELSE 0
  BY DEF Share
<1>2. SumOver(f, n, S) = Total(y, n) /\ SumOver(f, n + 1, S) = Total(x, n + 1)
  BY SumOverType
<1> HIDE DEF x, y
<1>3. Total(x, n + 1) = Total(x, n) + x[n + 1]
  BY <1>1, TotalStep
<1>4. Total(x, n) = Total(y, n)
  BY <1>1, TotalSame
<1> QED BY <1>1, <1>2, <1>3, <1>4

\* Each row of S is in the one of K groups that its key names.
Groups(G, K, key, S, N) ==
  /\ \A i \in 1..N : i \in S => key[i] \in 1..K
  /\ \A k \in 1..K : \A i \in 1..N : i \in G[k] <=> (i \in S /\ key[i] = k)

\* The groups add up to the whole.
LEMMA SumOverGroups ==
  ASSUME NEW K \in Nat, NEW N \in Nat, NEW f, NEW S, NEW key, NEW G, NEW parts,
         \A i \in 1..N : i \in S => f[i] \in Int,
         Groups(G, K, key, S, N),
         \A k \in 1..K : parts[k] = SumOver(f, N, G[k])
  PROVE  Total(parts, K) = SumOver(f, N, S)
<1> DEFINE table == [k \in 1..K |-> Share(f, N, G[k])]
           byGroup == [k \in 1..K |-> Total(table[k], N)]
           ofRow(i) == [k \in 1..K |-> table[k][i]]
           byRow == [i \in 1..N |-> Total(ofRow(i), K)]
           x == Share(f, N, S)
<1>1. ASSUME NEW k \in 1..K PROVE parts[k] = byGroup[k] /\ byGroup[k] \in Int
  <2>1. \A i \in 1..N : i \in G[k] => f[i] \in Int
    BY DEF Groups
  <2>2. /\ SumOver(f, N, G[k]) = Total(Share(f, N, G[k]), N)
        /\ SumOver(f, N, G[k]) \in Int
    BY <2>1, SumOverType
  <2> QED BY <2>2
<1>2. \A k \in 1..K : \A i \in 1..N :
        table[k][i] = IF i \in S /\ key[i] = k THEN f[i] ELSE 0
  BY DEF Share, Groups
<1>3. \A k \in 1..K : \A i \in 1..N : table[k][i] \in Int
  BY <1>2
<1>4. Total(byGroup, K) = Total(byRow, N)
  <2> HIDE DEF table
  <2> QED BY <1>3, TotalSwap
<1>5. Total(parts, K) = Total(byGroup, K)
  <2> HIDE DEF byGroup
  <2> QED BY <1>1, TotalSame
<1>6. \A i \in 1..N : x[i] \in Int /\ byRow[i] = x[i]
  <2> SUFFICES ASSUME NEW i \in 1..N PROVE x[i] \in Int /\ byRow[i] = x[i]
    OBVIOUS
  <2>1. x[i] = IF i \in S THEN f[i] ELSE 0
    BY DEF Share
  <2>2. \A k \in 1..K : ofRow(i)[k] = IF i \in S /\ key[i] = k THEN f[i] ELSE 0
    BY <1>2
  <2>3. byRow[i] = Total(ofRow(i), K)
    OBVIOUS
  <2> HIDE DEF ofRow, byRow, x
  <2>4. CASE i \in S
    <3>1. key[i] \in 1..K /\ f[i] \in Int
      BY <2>4 DEF Groups
    <3>2. /\ ofRow(i)[key[i]] = f[i]
          /\ \A k \in 1..K : k # key[i] => ofRow(i)[k] = 0
      BY <2>2, <2>4, <3>1
    <3>3. Total(ofRow(i), K) = ofRow(i)[key[i]]
      BY <3>1, <3>2, TotalOneRow
    <3> QED BY <2>1, <2>3, <2>4, <3>1, <3>2, <3>3
  <2>5. CASE i \notin S
    <3>1. \A k \in 1..K : ofRow(i)[k] = 0
      BY <2>2, <2>5
    <3>2. Total(ofRow(i), K) = 0
      BY <3>1, TotalZero
    <3> QED BY <2>1, <2>3, <2>5, <3>2
  <2> QED BY <2>4, <2>5
<1>7. Total(byRow, N) = Total(x, N)
  <2> HIDE DEF byRow, x
  <2> QED BY <1>6, TotalSame
<1>8. SumOver(f, N, S) = Total(x, N)
  BY SumOverType
<1> HIDE DEF x, byRow, byGroup
<1> QED BY <1>4, <1>5, <1>7, <1>8
=============================================================================
