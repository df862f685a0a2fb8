--------------------------- MODULE StakingProofs ---------------------------
(***************************************************************************)
(* What holds of the blocks the staking thread makes, for every set of     *)
(* coins and transactions and whatever the other threads do meanwhile.     *)
(***************************************************************************)
EXTENDS Staking, FiniteSetTheorems, WellFoundedInduction, TLAPS

(***************************************************************************)
(* Induction, by the least counterexample.                                 *)
(***************************************************************************)
\* A set of naturals with an element has a least one.
LEMMA LeastNatural ==
  ASSUME NEW S \in SUBSET Nat, S # {}
  PROVE  \E m \in S : \A k \in S : m <= k
<1>1. PICK m \in S : \A k \in S : <<k, m>> \notin OpToRel(<, Nat)
  BY WFMin, NatLessThanWellFounded
<1>2. ASSUME NEW k \in S PROVE m <= k
  <2>1. ~(k < m)
    BY <1>1 DEF OpToRel
  <2> QED BY <2>1
<1> QED BY <1>2

\* A set that has 0, and every number whose predecessor it has, has them all.
LEMMA UpTo ==
    ASSUME NEW n \in Nat, NEW T, 0 \in T, \A i \in 1 .. n : i - 1 \in T => i \in T
    PROVE  \A i \in 0 .. n : i \in T
  <1> DEFINE Bad == {i \in 0 .. n : i \notin T}
  <1>1. SUFFICES ASSUME Bad # {} PROVE FALSE
    OBVIOUS
  <1>2. Bad \in SUBSET Nat  OBVIOUS
  <1>3. PICK m \in Bad : \A k \in Bad : m <= k  BY <1>1, <1>2, LeastNatural
  <1>4. m \in 1 .. n /\ m - 1 \in 0 .. n /\ ~(m <= m - 1)  BY <1>3
  <1>5. m - 1 \notin Bad  BY <1>3, <1>4
  <1> QED  BY <1>3, <1>4, <1>5

\* n functions on S may be applied one after the other.
Iterates(f, S, n, base, step) ==
    /\ f \in [0 .. n -> S]
    /\ f[0] = base
    /\ \A i \in 1 .. n : f[i] = step[i][f[i - 1]]

LEMMA Iterated ==
    ASSUME NEW S, NEW n \in Nat, NEW base \in S, NEW step \in [1 .. n -> [S -> S]]
    PROVE  \E f : Iterates(f, S, n, base, step)
  <1> DEFINE Tr(k, f) == /\ f \in [0 .. k -> S] /\ f[0] = base
                         /\ \A i \in 1 .. k : f[i] = step[i][f[i - 1]]
             T == {k \in 0 .. n : \E f : Tr(k, f)}
  <1>1. 0 \in T
    <2>1. Tr(0, [i \in 0 .. 0 |-> base])  OBVIOUS
    <2>2. 0 \in 0 .. n  OBVIOUS
    <2> HIDE DEF Tr
    <2> QED  BY <2>1, <2>2
  <1>2. ASSUME NEW m \in 1 .. n, m - 1 \in T PROVE m \in T
    <2>1. PICK f : Tr(m - 1, f)  BY <1>2
    <2> DEFINE g == [i \in 0 .. m |-> IF i = m THEN step[m][f[m - 1]] ELSE f[i]]
    <2>2. f[m - 1] \in S  BY <2>1
    <2>3. step[m][f[m - 1]] \in S  BY <2>2
    <2>4. g \in [0 .. m -> S]  BY <2>1, <2>3
    <2>5. g[0] = base  BY <2>1
    <2>6. ASSUME NEW i \in 1 .. m PROVE g[i] = step[i][g[i - 1]]
      <3>1. CASE i = m  BY <3>1
      <3>2. CASE i # m
        <4>1. i \in 1 .. m - 1 /\ i - 1 \in 0 .. m - 1 /\ i - 1 # m  BY <3>2
        <4> QED  BY <3>2, <4>1, <2>1
      <3> QED  BY <3>1, <3>2
    <2>7. Tr(m, g)  BY <2>4, <2>5, <2>6
    <2>8. m \in 0 .. n  OBVIOUS
    <2> QED  BY <2>7, <2>8
  <1>3. \A i \in 0 .. n : i \in T
    <2> HIDE DEF T
    <2> QED  BY <1>1, <1>2, UpTo
  <1>4. PICK f : Tr(n, f)  BY <1>3
  <1> QED  BY <1>4 DEF Iterates

(***************************************************************************)
(* The fees of a set of transactions, summed one by one.                   *)
(***************************************************************************)
First(s) == CHOOSE x \in s : TRUE

\* What the sum over the subsets of S is defined to be.
SumsUp(S, f) ==
    f = [s \in SUBSET S |-> IF s = {} THEN 0 ELSE TxFee[First(s)] + f[s \ {First(s)}]]

LEMMA FeesDefined ==
    ASSUME NEW S
    PROVE  Fees(S) = (CHOOSE f : SumsUp(S, f))[S]
  <1>1. Fees(S) = (CHOOSE f : f = [s \in SUBSET S |->
                      IF s = {} THEN 0
                      ELSE TxFee[CHOOSE x \in s : TRUE] + f[s \ {CHOOSE x \in s : TRUE}]])[S]
    BY DEF Fees, MapThenSumSet, MapThenFoldSet
  <1> QED  BY <1>1 DEF SumsUp, First

\* A finite set and the subset that is left when its first element is taken.
LEMMA Smaller ==
    ASSUME NEW S, IsFiniteSet(S), NEW s \in SUBSET S
    PROVE  /\ Cardinality(s) \in Nat /\ Cardinality(s) <= Cardinality(S)
           /\ Cardinality(s) <= 0 => s = {}
           /\ s # {} => /\ First(s) \in s
                        /\ s \ {First(s)} \in SUBSET S
                        /\ Cardinality(s \ {First(s)}) = Cardinality(s) - 1
  <1>1. IsFiniteSet(s) /\ Cardinality(s) <= Cardinality(S)  BY FS_Subset
  <1>2. Cardinality(s) \in Nat  BY <1>1, FS_CardinalityType
  <1>3. ASSUME s # {} PROVE First(s) \in s  BY <1>3, Zenon DEF First
  <1>4. ASSUME s # {} PROVE Cardinality(s \ {First(s)}) = Cardinality(s) - 1
    <2> DEFINE x == First(s)
    <2>1. x \in s  BY <1>3, <1>4
    <2> HIDE DEF x
    <2>2. Cardinality(s \ {x}) = Cardinality(s) - 1  BY <1>1, <2>1, FS_RemoveElement
    <2> QED  BY <2>2 DEF x
  <1>5. ASSUME Cardinality(s) <= 0 PROVE s = {}
    <2> DEFINE c == Cardinality(s)
    <2>1. c \in Nat /\ c <= 0  BY <1>2, <1>5
    <2> HIDE DEF c
    <2>2. c = 0  BY <2>1
    <2> QED  BY <2>2, <1>1, FS_EmptySet DEF c
  <1> QED  BY <1>1, <1>2, <1>3, <1>4, <1>5

\* The recursion of the sum ends: after as many rounds as S has elements nothing
\* changes any more.
LEMMA SumExists ==
    ASSUME NEW S \in SUBSET Tx, IsFiniteSet(S)
    PROVE  \E f : SumsUp(S, f)
  <1> DEFINE n == Cardinality(S)
             V == [SUBSET S -> Nat]
             round(g) == [s \in SUBSET S |->
                             IF s = {} THEN 0 ELSE TxFee[First(s)] + g[s \ {First(s)}]]
             zero == [s \in SUBSET S |-> 0]
             step == [i \in 1 .. n + 1 |-> [g \in V |-> round(g)]]
  <1>1. n \in Nat /\ n + 1 \in Nat  BY FS_CardinalityType
  <1>2. zero \in V  OBVIOUS
  <1>3. ASSUME NEW g \in V PROVE round(g) \in V
    <2>1. ASSUME NEW s \in SUBSET S, s # {} PROVE TxFee[First(s)] + g[s \ {First(s)}] \in Nat
      <3>1. First(s) \in Tx /\ s \ {First(s)} \in SUBSET S  BY <2>1, Smaller
      <3>2. TxFee[First(s)] \in Nat  BY <3>1, StakingAssumption
      <3>3. g[s \ {First(s)}] \in Nat  BY <3>1
      <3> QED  BY <3>2, <3>3
    <2> QED  BY <2>1
  <1> HIDE DEF n, zero
  <1>4. step \in [1 .. n + 1 -> [V -> V]]
    <2> HIDE DEF round, V
    <2> QED  BY <1>3
  <1>5. PICK F : Iterates(F, V, n + 1, zero, step)
    <2> HIDE DEF step, V
    <2> QED  BY <1>1, <1>2, <1>4, Iterated
  <1>6. /\ F[0] = zero
        /\ \A i \in 0 .. n + 1 : F[i] \in V
        /\ \A i \in 1 .. n + 1 : F[i] = round(F[i - 1])
    <2> HIDE DEF V, round
    <2>1. F \in [0 .. n + 1 -> V] /\ F[0] = zero
          /\ \A i \in 1 .. n + 1 : F[i] = step[i][F[i - 1]]
      BY <1>5 DEF Iterates
    <2>2. \A i \in 1 .. n + 1 : i - 1 \in 0 .. n + 1  BY <1>1
    <2> QED  BY <2>1, <2>2
  <1>7. \A i \in 1 .. n + 1 : \A s \in SUBSET S :
           F[i][s] = IF s = {} THEN 0 ELSE TxFee[First(s)] + F[i - 1][s \ {First(s)}]
    BY <1>6
  <1> DEFINE T == {k \in 0 .. n : \A s \in SUBSET S : Cardinality(s) <= k => F[k + 1][s] = F[k][s]}
  <1>8. 0 \in T
    <2>1. ASSUME NEW s \in SUBSET S, Cardinality(s) <= 0 PROVE F[0 + 1][s] = F[0][s]
      <3>1. s = {}  BY <2>1, Smaller
      <3>2. 1 \in 1 .. n + 1 /\ 0 + 1 = 1  BY <1>1
      <3>3. F[1][s] = 0  BY <1>7, <3>1, <3>2
      <3> QED  BY <1>6, <3>2, <3>3 DEF zero
    <2> QED  BY <1>1, <2>1
  <1>9. ASSUME NEW k \in 1 .. n, k - 1 \in T PROVE k \in T
    <2>1. k \in 1 .. n + 1 /\ k + 1 \in 1 .. n + 1 /\ k + 1 - 1 = k /\ k - 1 + 1 = k /\ k \in 0 .. n
      BY <1>1
    <2>2. ASSUME NEW s \in SUBSET S, Cardinality(s) <= k PROVE F[k + 1][s] = F[k][s]
      <3>1. F[k + 1][s] = IF s = {} THEN 0 ELSE TxFee[First(s)] + F[k][s \ {First(s)}]
        <4> DEFINE i == k + 1
        <4>1. i \in 1 .. n + 1 /\ i - 1 = k  BY <2>1
        <4> HIDE DEF i
        <4>2. F[i][s] = IF s = {} THEN 0 ELSE TxFee[First(s)] + F[i - 1][s \ {First(s)}]
          BY <1>7, <4>1
        <4> QED  BY <4>1, <4>2 DEF i
      <3>2. F[k][s] = IF s = {} THEN 0 ELSE TxFee[First(s)] + F[k - 1][s \ {First(s)}]
        BY <1>7, <2>1
      <3>3. CASE s = {}  BY <3>1, <3>2, <3>3
      <3>4. CASE s # {}
        <4> DEFINE r == s \ {First(s)}
        <4>1. r \in SUBSET S /\ Cardinality(r) <= k - 1  BY <1>1, <2>2, <3>4, Smaller
        <4> HIDE DEF r
        <4>2. F[k][r] = F[k - 1][r]  BY <1>9, <2>1, <4>1
        <4> QED  BY <3>1, <3>2, <3>4, <4>2 DEF r
      <3> QED  BY <3>3, <3>4
    <2> QED  BY <2>1, <2>2
  <1>10. n \in T
    <2> HIDE DEF T
    <2>1. \A k \in 0 .. n : k \in T  BY <1>1, <1>8, <1>9, UpTo
    <2> QED  BY <1>1, <2>1
  <1>11. \A s \in SUBSET S : F[n + 1][s] = F[n][s]
    <2>1. \A s \in SUBSET S : Cardinality(s) <= n  BY Smaller DEF n
    <2> QED  BY <1>10, <2>1
  <1>12. n + 1 \in 1 .. n + 1 /\ n + 1 - 1 = n /\ n \in 0 .. n + 1  BY <1>1
  <1> DEFINE f == F[n]
  <1>13. f \in V
    <2> HIDE DEF V
    <2> QED  BY <1>6, <1>12
  <1>14. ASSUME NEW s \in SUBSET S
         PROVE  f[s] = IF s = {} THEN 0 ELSE TxFee[First(s)] + f[s \ {First(s)}]
    <2> DEFINE i == n + 1
    <2>1. i \in 1 .. n + 1 /\ i - 1 = n  BY <1>12
    <2>2. F[i][s] = f[s]  BY <1>11
    <2> HIDE DEF i
    <2>3. F[i][s] = IF s = {} THEN 0 ELSE TxFee[First(s)] + F[i - 1][s \ {First(s)}]
      BY <1>7, <2>1
    <2> QED  BY <2>1, <2>2, <2>3
  <1> HIDE DEF f
  <1>15. SumsUp(S, f)  BY <1>13, <1>14 DEF SumsUp
  <1> QED  BY <1>15

\* Fees are natural numbers, and so is the sum over a finite set.
LEMMA FeesNatural ==
    ASSUME NEW S \in SUBSET Tx
    PROVE  Fees(S) \in Nat
  <1> DEFINE n == Cardinality(S)
             f == CHOOSE g : SumsUp(S, g)
  <1>1. IsFiniteSet(S)  BY StakingAssumption, FS_Subset
  <1>2. SumsUp(S, f)  BY <1>1, SumExists, Zenon
  <1>3. Fees(S) = f[S]  BY FeesDefined
  <1>4. n \in Nat  BY <1>1, FS_CardinalityType
  <1> HIDE DEF f, n
  <1>5. \A s \in SUBSET S : f[s] = IF s = {} THEN 0 ELSE TxFee[First(s)] + f[s \ {First(s)}]
    BY <1>2 DEF SumsUp
  <1> DEFINE T == {k \in 0 .. n : \A s \in SUBSET S : Cardinality(s) <= k => f[s] \in Nat}
  <1>6. 0 \in T
    <2>1. ASSUME NEW s \in SUBSET S, Cardinality(s) <= 0 PROVE f[s] \in Nat
      <3>1. s = {}  BY <1>1, <2>1, Smaller
      <3> QED  BY <1>5, <3>1
    <2> QED  BY <1>4, <2>1
  <1>7. ASSUME NEW k \in 1 .. n, k - 1 \in T PROVE k \in T
    <2>1. ASSUME NEW s \in SUBSET S, Cardinality(s) <= k PROVE f[s] \in Nat
      <3>1. CASE s = {}  BY <1>5, <3>1
      <3>2. CASE s # {}
        <4> DEFINE r == s \ {First(s)}
        <4>1. /\ r \in SUBSET S /\ Cardinality(r) <= k - 1 /\ First(s) \in Tx
          BY <1>1, <1>4, <2>1, <3>2, Smaller
        <4>2. f[s] = TxFee[First(s)] + f[r]  BY <1>5, <3>2
        <4> HIDE DEF r
        <4>3. f[r] \in Nat  BY <1>7, <4>1
        <4>4. TxFee[First(s)] \in Nat  BY <4>1, StakingAssumption
        <4> QED  BY <4>2, <4>3, <4>4
      <3> QED  BY <3>1, <3>2
    <2>2. k \in 0 .. n  BY <1>4
    <2> QED  BY <2>1, <2>2
  <1>8. n \in T
    <2> HIDE DEF T
    <2>1. \A k \in 0 .. n : k \in T  BY <1>4, <1>6, <1>7, UpTo
    <2> QED  BY <1>4, <2>1
  <1>9. Cardinality(S) <= n  BY <1>4 DEF n
  <1> QED  BY <1>3, <1>8, <1>9

(***************************************************************************)
(* The inductive invariant.                                                *)
(***************************************************************************)
\* The tip is the last block connected; the block being made follows it or one
\* that came before.
ChainOK ==
    /\ Len(chain) >= 1
    /\ Best(chain).id = blocks
    /\ block.prev <= blocks

\* Coins that were given back, or spent behind the wallet's back.
Loose == refunded \cup untold

\* A coin that is spent in the chain or in the pool is marked, or is loose.
MarkedOK == (SpentIn(chain) \cup Spends(mempool)) \cap Coin \subseteq vfSpent \cup Loose

\* The block copied from the pool pays its fees, and connects while the tip stays.
Copied == pc \in {"sign", "search", "finish", "check"}

TxsOK ==
    Copied => /\ block.nFees = Fees(block.txs)
              /\ block.prev = blocks => Connects(block.txs, {}, chain)
              /\ Spends(block.txs) \cap Coin \subseteq vfSpent \cup Loose

\* Coins chosen after that are spent nowhere else, but for loose ones.
Chosen(C) ==
    /\ C \cap Spends(block.txs) \subseteq Loose
    /\ block.prev = blocks => C \cap SpentIn(chain) \subseteq Loose

CoinsOK ==
    /\ pc = "search" => Chosen(search.coins)
    /\ pc = "finish" => Chosen(stake.coins) /\ stake.kernel \in stake.coins
    /\ pc = "check" => Chosen(block.coins) /\ stake.kernel \in block.coins

\* The kernel of a stake that was seen is spent by a block of the chain, until a
\* coin is loose.
Staked(c) == UNION {c[i].coins : i \in DOMAIN c}

SeenOK == Loose = {} => \A s \in setStakeSeen : s[1] \in Staked(chain)

IInv ==
    /\ TypeOK
    /\ ChainOK
    /\ MarkedOK
    /\ TxsOK
    /\ CoinsOK
    /\ SeenOK
    /\ FeesAreEarned
    /\ StakesOnce

(***************************************************************************)
(* Facts about chains.                                                     *)
(***************************************************************************)
Blocks == [id : 0 .. MaxBlocks, nTime : 0 .. MaxTime, txs : SUBSET Tx, coins : SUBSET Coin]

\* A block more.
LEMMA ChainGrows ==
  ASSUME NEW c \in Seq(Blocks), NEW d \in Seq(Blocks), Len(d) = Len(c) + 1,
         \A i \in 1 .. Len(c) : d[i] = c[i]
  PROVE  /\ Best(d) \in Blocks
         /\ SpentIn(d) = SpentIn(c) \cup Spends(Best(d).txs) \cup Best(d).coins
         /\ Staked(d) = Staked(c) \cup Best(d).coins
<1> DEFINE b == Best(d)
<1>1. /\ Len(c) \in Nat /\ DOMAIN c = 1 .. Len(c) /\ DOMAIN d = 1 .. Len(c) + 1
      /\ d[Len(c) + 1] = b /\ \A i \in DOMAIN c : d[i] = c[i]
  BY DEF Best
<1>2. DOMAIN d = DOMAIN c \cup {Len(c) + 1}
  BY <1>1
<1>3. b \in Blocks
  BY <1>1
<1>4. Staked(d) = Staked(c) \cup b.coins
  BY <1>1, <1>2 DEF Staked
<1>5. Confirmed(d) = Confirmed(c) \cup b.txs
  BY <1>1, <1>2 DEF Confirmed
<1> HIDE DEF b
<1>6. Spends(Confirmed(d)) = Spends(Confirmed(c)) \cup Spends(b.txs)
  BY <1>5 DEF Spends
<1>7. SpentIn(d) = SpentIn(c) \cup Spends(b.txs) \cup b.coins
  BY <1>4, <1>6 DEF SpentIn, Staked
<1> USE DEF b
<1> QED BY <1>3, <1>4, <1>7

LEMMA ChainAppend ==
  ASSUME NEW c \in Seq(Blocks), NEW b \in Blocks, NEW d, d = Append(c, b)
  PROVE  /\ d \in Seq(Blocks) /\ Len(d) = Len(c) + 1 /\ Best(d) = b
         /\ SpentIn(d) = SpentIn(c) \cup Spends(b.txs) \cup b.coins
         /\ Staked(d) = Staked(c) \cup b.coins
<1>1. /\ d \in Seq(Blocks) /\ Len(d) = Len(c) + 1 /\ Best(d) = b
      /\ \A i \in 1 .. Len(c) : d[i] = c[i]
  BY DEF Best
<1>2. /\ SpentIn(d) = SpentIn(c) \cup Spends(Best(d).txs) \cup Best(d).coins
      /\ Staked(d) = Staked(c) \cup Best(d).coins
  BY <1>1, ChainGrows
<1> QED BY <1>1, <1>2

LEMMA ChainFront ==
  ASSUME NEW c \in Seq(Blocks), Len(c) > 1, NEW d, d = Front(c)
  PROVE  /\ d \in Seq(Blocks) /\ Len(d) = Len(c) - 1 /\ Best(c) \in Blocks
         /\ SpentIn(c) = SpentIn(d) \cup Spends(Best(c).txs) \cup Best(c).coins
         /\ Staked(c) = Staked(d) \cup Best(c).coins
<1>1. Len(c) \in Nat /\ Len(c) - 1 \in Nat
  OBVIOUS
<1>2. /\ d \in Seq(Blocks) /\ Len(d) = Len(c) - 1
      /\ \A i \in 1 .. Len(d) : d[i] = c[i]
  BY <1>1 DEF Front
<1>3. Len(c) = Len(d) + 1
  BY <1>1, <1>2
<1> QED BY <1>2, <1>3, ChainGrows

\* The two blocks of a reorganisation, one after the other.
TwoMore(c, a, b, d) ==
    /\ d \in Seq(Blocks) /\ Len(d) = Len(c) + 2 /\ Best(d) = b
    /\ SpentIn(d) = SpentIn(c) \cup Spends(a.txs) \cup a.coins \cup Spends(b.txs) \cup b.coins
    /\ Staked(d) = Staked(c) \cup a.coins \cup b.coins

LEMMA ChainTwo ==
  ASSUME NEW c \in Seq(Blocks), NEW a \in Blocks, NEW b \in Blocks
  PROVE  TwoMore(c, a, b, c \o <<a, b>>)
<1>d. PICK d : d = c \o <<a, b>>
  OBVIOUS
<1>1. PICK e : e = Append(c, a)
  OBVIOUS
<1>2. /\ e \in Seq(Blocks) /\ Len(e) = Len(c) + 1 /\ Best(e) = a
      /\ SpentIn(e) = SpentIn(c) \cup Spends(a.txs) \cup a.coins
      /\ Staked(e) = Staked(c) \cup a.coins
  BY <1>1, ChainAppend
<1>3. <<a, b>> \in Seq(Blocks) /\ Len(<<a, b>>) = 2 /\ Len(c) \in Nat
  OBVIOUS
<1>4. /\ d \in Seq(Blocks) /\ Len(d) = Len(c) + 2
      /\ \A i \in 1 .. Len(c) : d[i] = c[i]
      /\ d[Len(c) + 1] = a /\ d[Len(c) + 2] = b
  BY <1>3, <1>d
<1>5. \A i \in 1 .. Len(e) : d[i] = e[i]
  BY <1>1, <1>2, <1>3, <1>4
<1>6. Len(d) = Len(e) + 1 /\ Best(d) = b
  BY <1>2, <1>3, <1>4 DEF Best
<1>7. /\ SpentIn(d) = SpentIn(e) \cup Spends(Best(d).txs) \cup Best(d).coins
      /\ Staked(d) = Staked(e) \cup Best(d).coins
  <2>1. e \in Seq(Blocks) /\ d \in Seq(Blocks) /\ Len(d) = Len(e) + 1
    BY <1>2, <1>4, <1>6
  <2> QED BY <1>5, <2>1, ChainGrows, Zenon
<1>8. TwoMore(c, a, b, d)
  BY <1>2, <1>4, <1>6, <1>7 DEF TwoMore
<1> QED BY <1>8, <1>d

\* A set of naturals that is not empty and has a bound has a greatest element.
LEMMA MaxIs ==
  ASSUME NEW S \in SUBSET Nat, S # {}, NEW n \in Nat, \A k \in S : k <= n
  PROVE  Max(S) \in S /\ \A k \in S : k <= Max(S)
<1> DEFINE B == {b \in Nat : \A k \in S : k <= b}
<1>1. PICK m \in B : \A b \in B : m <= b
  <2>1. n \in B /\ B \in SUBSET Nat
    OBVIOUS
  <2> QED BY <2>1, LeastNatural
<1>2. m \in S
  <2> SUFFICES ASSUME m \notin S PROVE FALSE
    OBVIOUS
  <2>1. \A k \in S : k \in Nat /\ k <= m - 1
    BY <1>1
  <2>2. m - 1 \in B
    <3>1. PICK k \in S : TRUE
      OBVIOUS
    <3> QED BY <3>1, <2>1, <1>1
  <2> QED BY <2>2, <1>1
<1>3. \E x \in S : \A y \in S : x >= y
  BY <1>1, <1>2
<1>4. Max(S) \in S /\ \A y \in S : Max(S) >= y
  BY <1>3 DEF Max
<1> QED BY <1>4

\* Blocks of c that are no later than t, and earlier.
Upto(c, t) == {i \in DOMAIN c : c[i].nTime <= t}
Below(c, t) == {i \in DOMAIN c : c[i].nTime < t}

LEMMA UptoFacts ==
  ASSUME NEW c \in Seq(Blocks), NEW t \in Nat
  PROVE  /\ Cardinality(Upto(c, t)) \in Nat
         /\ Upto(c, MaxTime) = DOMAIN c /\ Cardinality(DOMAIN c) = Len(c)
         /\ t = 0 => Below(c, t) = {}
         /\ t # 0 => Below(c, t) = Upto(c, t - 1)
         /\ t \notin {c[i].nTime : i \in DOMAIN c} => Upto(c, t) = Below(c, t)
<1>1. Len(c) \in Nat /\ DOMAIN c = 1 .. Len(c)
  OBVIOUS
<1>2. \A i \in DOMAIN c : c[i].nTime \in 0 .. MaxTime
  <2>1. \A i \in DOMAIN c : c[i] \in Blocks
    BY <1>1
  <2> QED BY <2>1 DEF Blocks
<1>3. IsFiniteSet(DOMAIN c) /\ Cardinality(DOMAIN c) = Len(c)
  <2>1. 1 \in Int /\ Len(c) \in Int /\ (1 > Len(c) => Len(c) = 0)
    BY <1>1
  <2> QED BY <1>1, <2>1, FS_Interval
<1>4. Cardinality(Upto(c, t)) \in Nat
  <2>1. Upto(c, t) \in SUBSET DOMAIN c
    BY DEF Upto
  <2>2. IsFiniteSet(Upto(c, t))
    BY <1>3, <2>1, FS_Subset
  <2> QED BY <2>2, FS_CardinalityType
<1>5. MaxTime \in Nat
  BY StakingAssumption
<1>6. Upto(c, MaxTime) = DOMAIN c
  <2>1. \A i \in DOMAIN c : c[i].nTime <= MaxTime
    BY <1>2, <1>5
  <2> QED BY <2>1 DEF Upto
<1>7. (t = 0 => Below(c, t) = {}) /\ (t # 0 => Below(c, t) = Upto(c, t - 1))
  BY <1>2, <1>5 DEF Below, Upto
<1>8. t \notin {c[i].nTime : i \in DOMAIN c} => Upto(c, t) = Below(c, t)
  BY <1>2, <1>5 DEF Below, Upto
<1> QED BY <1>3, <1>4, <1>6, <1>7, <1>8

\* The median of the block times is one of them.
LEMMA MedianIs ==
  ASSUME NEW c \in Seq(Blocks), Len(c) >= 1
  PROVE  GetPastTimeLimit(c) \in 0 .. MaxTime
<1>1. PICK h \in Nat : h = Len(c) \div 2 /\ Len(c) > h
  <2>1. Len(c) \in Nat
    OBVIOUS
  <2> QED BY <2>1
<1> DEFINE T == {t \in Nat : Cardinality(Upto(c, t)) > h}
<1>2. PICK t \in T : \A u \in T : t <= u
  <2>1. MaxTime \in Nat
    BY StakingAssumption
  <2>2. Upto(c, MaxTime) = DOMAIN c /\ Cardinality(DOMAIN c) = Len(c)
    BY <2>1, UptoFacts
  <2>3. MaxTime \in T
    BY <1>1, <2>1, <2>2
  <2> QED BY <2>3, LeastNatural
<1>3. t \in Nat /\ Cardinality(Upto(c, t)) > h
  BY <1>2
<1>4. \A u \in Nat : u < t => ~(Cardinality(Upto(c, u)) > h)
  BY <1>2
<1> HIDE DEF T
<1>5. Cardinality(Below(c, t)) <= h
  <2>1. CASE t = 0
    <3>1. Below(c, t) = {}
      BY <1>3, <2>1, UptoFacts
    <3> QED BY <1>1, <3>1, FS_EmptySet
  <2>2. CASE t # 0
    <3>1. t - 1 \in Nat /\ t - 1 < t
      BY <1>3, <2>2
    <3>2. Below(c, t) = Upto(c, t - 1)
      BY <1>3, <2>2, UptoFacts
    <3>3. Cardinality(Upto(c, t - 1)) \in Nat
      BY <3>1, UptoFacts
    <3>4. ~(Cardinality(Upto(c, t - 1)) > h)
      BY <1>4, <3>1
    <3> QED BY <1>1, <3>2, <3>3, <3>4
  <2> QED BY <2>1, <2>2
<1>6. t \in {c[i].nTime : i \in DOMAIN c}
  <2>1. Cardinality(Upto(c, t)) \in Nat /\ (t \notin {c[i].nTime : i \in DOMAIN c} => Upto(c, t) = Below(c, t))
    BY <1>3, UptoFacts
  <2> QED BY <1>1, <1>3, <1>5, <2>1
<1>7. \E x \in {c[i].nTime : i \in DOMAIN c} :
         /\ Cardinality(Below(c, x)) <= h
         /\ Cardinality(Upto(c, x)) > h
  BY <1>3, <1>5, <1>6
<1>8. \E x \in {c[i].nTime : i \in DOMAIN c} :
         /\ Cardinality({i \in DOMAIN c : c[i].nTime < x}) <= Len(c) \div 2
         /\ Cardinality({i \in DOMAIN c : c[i].nTime <= x}) > Len(c) \div 2
  BY <1>1, <1>7, Zenon DEF Below, Upto
<1>9. GetPastTimeLimit(c) \in {c[i].nTime : i \in DOMAIN c}
  BY <1>8, Zenon DEF GetPastTimeLimit
<1>10. \A i \in DOMAIN c : c[i] \in Blocks
  OBVIOUS
<1> QED BY <1>9, <1>10 DEF Blocks

(***************************************************************************)
(* The steps of the other threads, as the staking thread may rely on them: *)
(* coins stay marked or come loose, and the tip moves to a new block.      *)
(***************************************************************************)
Moves ==
    /\ vfSpent \cup Loose \subseteq vfSpent' \cup Loose'
    /\ Loose \subseteq Loose'
    /\ \/ chain' = chain /\ blocks' = blocks
       \/ blocks' > blocks

Node == /\ TypeOK' /\ ChainOK' /\ MarkedOK' /\ SeenOK' /\ Moves

thread == <<locked, online, pc, fTryToSync, block, search, stake, nLastSearch, result>>

LEMMA TypeFacts ==
  ASSUME IInv
  PROVE  /\ clock \in Nat /\ clock <= MaxTime /\ blocks \in Nat /\ blocks <= MaxBlocks
         /\ chain \in Seq(Blocks) /\ Len(chain) >= 1 /\ Len(chain) \in Nat
         /\ mempool \subseteq Tx /\ vfSpent \subseteq Coin /\ refunded \subseteq Coin /\ untold \subseteq Coin
         /\ block.prev \in Nat /\ block.prev <= blocks /\ Best(chain).id = blocks
         /\ block.txs \subseteq Tx /\ block.coins \subseteq Coin
         /\ Best(chain) \in Blocks
         /\ MaxTime \in Nat /\ MaxBlocks \in Nat
<1>1. chain \in Seq(Blocks) /\ Len(chain) >= 1
  BY DEF IInv, TypeOK, Blocks, ChainOK
<1>2. Best(chain) \in Blocks
  BY <1>1 DEF Best
<1> QED BY <1>1, <1>2, StakingAssumption DEF IInv, TypeOK, ChainOK

LEMMA NodeType ==
  ASSUME IInv, UNCHANGED thread, UNCHANGED setStakeSeen, clock' \in 0 .. MaxTime, clock <= clock',
         blocks' \in 0 .. MaxBlocks, chain' \in Seq(Blocks), mempool' \subseteq Tx,
         vfSpent' \subseteq Coin, refunded' \subseteq Coin, untold' \subseteq Coin
  PROVE  TypeOK'
<1>1. UNCHANGED <<locked, online, pc, fTryToSync, block, search, stake, nLastSearch, result>>
  BY DEF thread
<1>2. TypeOK /\ clock \in 0 .. MaxTime
  BY DEF IInv, TypeOK
<1>3. search' \in [prev : 0 .. MaxBlocks, nTime : 0 .. clock', coins : SUBSET Coin]
  BY <1>1, <1>2 DEF TypeOK
<1>4. stake' \in [kernel : Coin, coins : SUBSET Coin, nTime : 0 .. clock']
  BY <1>1, <1>2 DEF TypeOK
<1>5. nLastSearch' \in 0 .. clock'
  BY <1>1, <1>2 DEF TypeOK
<1> QED BY <1>1, <1>2, <1>3, <1>4, <1>5 DEF TypeOK, Blocks

\* What sets of transactions spend.
LEMMA SpendsFacts ==
  ASSUME NEW S, NEW R
  PROVE  /\ Spends(S \cup R) = Spends(S) \cup Spends(R)
         /\ S \subseteq R => Spends(S) \subseteq Spends(R)
         /\ Spends({}) = {}
  BY DEF Spends

LEMMA SpendsWithin ==
  ASSUME NEW Q, NEW S, NEW R, Q \subseteq S \cup R
  PROVE  Spends(Q) \subseteq Spends(S) \cup Spends(R)
  BY DEF Spends

\* The pool, the clock or the marks change, the chain does not.
LEMMA PoolStep ==
  ASSUME IInv, UNCHANGED thread, UNCHANGED <<chain, blocks, setStakeSeen, refunded>>,
         clock' \in 0 .. MaxTime, clock <= clock', vfSpent \subseteq vfSpent', vfSpent' \subseteq Coin,
         untold \subseteq untold', untold' \subseteq Coin,
         NEW S \in SUBSET Tx, mempool' \subseteq mempool \cup S, Spends(S) \cap Coin \subseteq vfSpent' \cup untold'
  PROVE  Node
<1>1. TypeOK'
  <2>1. mempool' \subseteq Tx /\ blocks' \in 0 .. MaxBlocks /\ chain' \in Seq(Blocks) /\ refunded' \subseteq Coin
    BY TypeFacts
  <2> QED BY <2>1, NodeType
<1>2. ChainOK'
  BY DEF IInv, ChainOK, thread
<1>3. MarkedOK'
  <2>1. Spends(mempool') \subseteq Spends(mempool) \cup Spends(S)
    BY SpendsWithin
  <2>2. SpentIn(chain') = SpentIn(chain)
    OBVIOUS
  <2> QED BY <2>1, <2>2 DEF IInv, MarkedOK, Loose
<1>4. SeenOK'
  BY DEF IInv, SeenOK, Loose
<1>5. Moves
  BY DEF Moves, Loose
<1> QED BY <1>1, <1>2, <1>3, <1>4, <1>5 DEF Node

LEMMA TickNode ==
  ASSUME IInv, Tick, UNCHANGED thread
  PROVE  Node
<1>1. /\ clock' \in 0 .. MaxTime /\ clock <= clock'
      /\ UNCHANGED <<chain, blocks, setStakeSeen, refunded>> /\ untold' = untold
      /\ vfSpent' = vfSpent /\ mempool' = mempool
  BY TypeFacts DEF Tick
<1>2. /\ vfSpent' \subseteq Coin /\ untold' \subseteq Coin
      /\ {} \in SUBSET Tx /\ Spends({}) \cap Coin \subseteq vfSpent' \cup untold'
  BY <1>1, TypeFacts, SpendsFacts
<1> QED BY <1>1, <1>2, PoolStep

LEMMA MarkedIs ==
  ASSUME IInv, NEW S \in SUBSET Tx, NEW C \in SUBSET Coin, vfSpent' = Marked(S, C)
  PROVE  /\ vfSpent' \subseteq Coin /\ vfSpent \subseteq vfSpent' /\ C \subseteq vfSpent'
         /\ Spends(S) \cap Coin \subseteq vfSpent'
  BY TypeFacts DEF Marked

LEMMA CommitTransactionNode ==
  ASSUME IInv, NEW t \in Tx, CommitTransaction(t), UNCHANGED thread
  PROVE  Node
<1>1. /\ UNCHANGED <<chain, blocks, setStakeSeen, refunded>> /\ clock' = clock /\ untold' = untold
      /\ vfSpent' = Marked({t}, {}) /\ mempool' \subseteq mempool \cup {t}
  BY DEF CommitTransaction
<1>2. /\ {t} \in SUBSET Tx /\ clock' \in 0 .. MaxTime /\ clock <= clock' /\ {} \in SUBSET Coin
      /\ untold' \subseteq Coin
  BY <1>1, TypeFacts
<1>3. vfSpent' \subseteq Coin /\ vfSpent \subseteq vfSpent' /\ Spends({t}) \cap Coin \subseteq vfSpent'
  BY <1>1, <1>2, MarkedIs
<1> QED BY <1>1, <1>2, <1>3, PoolStep

\* What the orphans spend comes loose.
LEMMA ReceiveTxNode ==
  ASSUME IInv, NEW t \in Tx, NEW O \in SUBSET (Tx \ {t}), ReceiveTx(t, O), UNCHANGED thread
  PROVE  Node
<1>1. /\ UNCHANGED <<chain, blocks, setStakeSeen, refunded>> /\ clock' = clock
      /\ vfSpent' = Marked({t}, {}) /\ mempool' = mempool \cup {t} \cup O
      /\ untold' = untold \cup (Spends(O) \cap Coin)
  BY DEF ReceiveTx
<1>2. /\ {t} \in SUBSET Tx /\ {t} \cup O \in SUBSET Tx /\ {} \in SUBSET Coin
      /\ clock' \in 0 .. MaxTime /\ clock <= clock'
      /\ untold \subseteq untold' /\ untold' \subseteq Coin
  BY <1>1, TypeFacts
<1>3. vfSpent' \subseteq Coin /\ vfSpent \subseteq vfSpent' /\ Spends({t}) \cap Coin \subseteq vfSpent'
  BY <1>1, <1>2, MarkedIs
<1>4. Spends({t} \cup O) \cap Coin \subseteq vfSpent' \cup untold'
  <2>1. Spends({t} \cup O) = Spends({t}) \cup Spends(O)
    BY SpendsFacts
  <2> QED BY <1>1, <1>3, <2>1
<1>5. mempool' \subseteq mempool \cup ({t} \cup O)
  BY <1>1
<1> QED BY <1>1, <1>2, <1>3, <1>4, <1>5, PoolStep

LEMMA ExtendTipNode ==
  ASSUME IInv, NEW S \in SUBSET Tx, NEW time \in 1 .. MaxTime, ExtendTip(S, time), UNCHANGED thread
  PROVE  Node
<1>1. PICK b : b = [id |-> blocks + 1, nTime |-> time, txs |-> S, coins |-> {}]
  OBVIOUS
<1>2. /\ blocks < MaxBlocks /\ chain' = Append(chain, b) /\ blocks' = blocks + 1
      /\ mempool' = mempool \ S /\ vfSpent' = Marked(S, {})
      /\ clock' = clock /\ setStakeSeen' = setStakeSeen /\ refunded' = refunded /\ untold' = untold
  BY <1>1 DEF ExtendTip
<1>3. b \in Blocks /\ b.id = blocks + 1 /\ b.txs = S /\ b.coins = {}
  BY <1>1, <1>2, TypeFacts DEF Blocks
<1>4. /\ chain' \in Seq(Blocks) /\ Len(chain') = Len(chain) + 1 /\ Best(chain') = b
      /\ SpentIn(chain') = SpentIn(chain) \cup Spends(b.txs) \cup b.coins
      /\ Staked(chain') = Staked(chain) \cup b.coins
  BY <1>2, <1>3, TypeFacts, ChainAppend
<1>5. vfSpent' \subseteq Coin /\ vfSpent \subseteq vfSpent' /\ Spends(S) \cap Coin \subseteq vfSpent'
  <2>1. {} \in SUBSET Coin
    OBVIOUS
  <2> QED BY <1>2, <2>1, MarkedIs
<1>6. TypeOK'
  <2>1. /\ blocks' \in 0 .. MaxBlocks /\ mempool' \subseteq Tx
        /\ refunded' \subseteq Coin /\ untold' \subseteq Coin
        /\ clock' \in 0 .. MaxTime /\ clock <= clock'
    BY <1>2, TypeFacts
  <2> QED BY <1>2, <1>4, <1>5, <2>1, NodeType
<1>7. ChainOK'
  BY <1>2, <1>3, <1>4, TypeFacts DEF ChainOK, thread
<1>8. MarkedOK'
  <2>1. Spends(mempool') \subseteq Spends(mempool)
    BY <1>2, SpendsFacts
  <2> QED BY <1>2, <1>3, <1>4, <1>5, <2>1 DEF IInv, MarkedOK, Loose
<1>9. SeenOK'
  BY <1>2, <1>4 DEF IInv, SeenOK, Loose
<1>10. Moves
  BY <1>2, <1>5, TypeFacts DEF Moves, Loose
<1> QED BY <1>6, <1>7, <1>8, <1>9, <1>10 DEF Node

\* The coins of the stake that is disconnected are given back; what returns to
\* the pool was spent in the chain before.
LEMMA ReorganizeNode ==
  ASSUME IInv, NEW S \in SUBSET Tx, NEW time \in 0 .. MaxTime - 1, Reorganize(S, time), UNCHANGED thread
  PROVE  Node
<1>1. PICK rest, old, pool, a, b :
        /\ rest = Front(chain) /\ old = Best(chain) /\ pool = mempool \cup Resurrected(old.txs)
        /\ a = [id |-> blocks + 1, nTime |-> time, txs |-> S, coins |-> {}]
        /\ b = [id |-> blocks + 2, nTime |-> time + 1, txs |-> {}, coins |-> {}]
  OBVIOUS
<1>2. /\ Len(chain) > 1 /\ blocks + 2 <= MaxBlocks /\ chain' = rest \o <<a, b>>
      /\ blocks' = blocks + 2 /\ mempool' = (pool \ S) \ Conflicts(S, pool)
      /\ vfSpent' = (vfSpent \ old.coins) \cup (Spends(S) \cap Coin)
      /\ refunded' = refunded \cup old.coins
      /\ clock' = clock /\ setStakeSeen' = setStakeSeen /\ untold' = untold
  BY <1>1 DEF Reorganize
<1>3. a \in Blocks /\ b \in Blocks /\ b.id = blocks + 2 /\ a.txs = S /\ a.coins = {} /\ b.coins = {} /\ b.txs = {}
  <2>1. /\ blocks + 1 \in 0 .. MaxBlocks /\ blocks + 2 \in 0 .. MaxBlocks
        /\ time \in 0 .. MaxTime /\ time + 1 \in 0 .. MaxTime
    BY <1>2, TypeFacts
  <2> QED BY <1>1, <2>1 DEF Blocks
<1>4. /\ rest \in Seq(Blocks) /\ Len(rest) = Len(chain) - 1 /\ old \in Blocks
      /\ SpentIn(chain) = SpentIn(rest) \cup Spends(old.txs) \cup old.coins
      /\ Staked(chain) = Staked(rest) \cup old.coins
  BY <1>1, <1>2, TypeFacts, ChainFront
<1>5. /\ chain' \in Seq(Blocks) /\ Len(chain') = Len(rest) + 2 /\ Best(chain') = b
      /\ SpentIn(chain') = SpentIn(rest) \cup Spends(a.txs) \cup a.coins \cup Spends(b.txs) \cup b.coins
      /\ Staked(chain') = Staked(rest) \cup a.coins \cup b.coins
  <2>1. rest \in Seq(Blocks) /\ a \in Blocks /\ b \in Blocks /\ chain' = rest \o <<a, b>>
    BY <1>2, <1>3, <1>4
  <2>2. TwoMore(rest, a, b, rest \o <<a, b>>)
    BY <2>1, ChainTwo
  <2>3. TwoMore(rest, a, b, chain')
    BY <2>1, <2>2
  <2> QED BY <2>3 DEF TwoMore
<1>6. SpentIn(chain') = SpentIn(rest) \cup Spends(S) /\ Staked(chain') = Staked(rest)
  BY <1>3, <1>5, SpendsFacts
<1>7. old.coins \subseteq Coin /\ old.txs \subseteq Tx
  BY <1>4 DEF Blocks
<1>8. /\ vfSpent' \subseteq Coin /\ refunded' \subseteq Coin /\ untold' \subseteq Coin
      /\ Loose \subseteq Loose'
      /\ vfSpent \cup Loose \subseteq vfSpent' \cup Loose' /\ Spends(S) \cap Coin \subseteq vfSpent'
  BY <1>2, <1>7, TypeFacts DEF Loose
<1>9. mempool' \subseteq mempool \cup old.txs
  BY <1>1, <1>2 DEF Resurrected
<1>10. TypeOK'
  <2>1. /\ blocks' \in 0 .. MaxBlocks /\ mempool' \subseteq Tx
        /\ clock' \in 0 .. MaxTime /\ clock <= clock'
    BY <1>2, <1>7, <1>9, TypeFacts
  <2> QED BY <1>2, <1>5, <1>8, <2>1, NodeType
<1>11. ChainOK'
  BY <1>2, <1>3, <1>4, <1>5, TypeFacts DEF ChainOK, thread
<1>12. MarkedOK'
  <2>1. Spends(mempool') \subseteq Spends(mempool) \cup Spends(old.txs)
    BY <1>9, SpendsWithin
  <2> QED BY <1>4, <1>6, <1>8, <2>1 DEF IInv, MarkedOK, Loose
<1>13. SeenOK'
  BY <1>2, <1>4, <1>6 DEF IInv, SeenOK, Loose
<1>14. Moves
  BY <1>2, <1>8, TypeFacts DEF Moves
<1> QED BY <1>10, <1>11, <1>12, <1>13, <1>14 DEF Node

\* A reorganisation that fails leaves its marks in the wallet, and nothing else.
LEMMA ReorganizeFailsNode ==
  ASSUME IInv, NEW S \in SUBSET Tx, ReorganizeFails(S), UNCHANGED thread
  PROVE  Node
<1>1. /\ Len(chain) > 1
      /\ vfSpent' = (vfSpent \ Best(chain).coins) \cup (Spends(S) \cap Coin)
      /\ refunded' = refunded \cup Best(chain).coins
      /\ UNCHANGED <<clock, chain, blocks, mempool, setStakeSeen, untold>>
  BY DEF ReorganizeFails
<1>2. Best(chain).coins \subseteq Coin
  BY TypeFacts DEF Blocks
<1>3. /\ vfSpent' \subseteq Coin /\ refunded' \subseteq Coin
      /\ Loose \subseteq Loose' /\ vfSpent \cup Loose \subseteq vfSpent' \cup Loose'
  BY <1>1, <1>2, TypeFacts DEF Loose
<1>4. TypeOK'
  <2>1. /\ blocks' \in 0 .. MaxBlocks /\ mempool' \subseteq Tx /\ untold' \subseteq Coin
        /\ clock' \in 0 .. MaxTime /\ clock <= clock' /\ chain' \in Seq(Blocks)
    BY <1>1, TypeFacts
  <2> QED BY <1>1, <1>3, <2>1, NodeType
<1>5. ChainOK'
  BY <1>1 DEF IInv, ChainOK, thread
<1>6. MarkedOK' /\ SeenOK'
  BY <1>1, <1>3 DEF IInv, MarkedOK, SeenOK, Loose
<1>7. Moves
  BY <1>1, <1>3 DEF Moves
<1> QED BY <1>4, <1>5, <1>6, <1>7 DEF Node

LEMMA OthersNode ==
  ASSUME IInv, Others
  PROVE  Node /\ UNCHANGED thread
<1>1. UNCHANGED thread
  BY DEF Others, thread
<1>2. ASSUME NEW S \in SUBSET Tx, NEW time \in 0 .. MaxTime - 1, ExtendTip(S, time + 1) PROVE Node
  <2>1. time + 1 \in 1 .. MaxTime
    BY StakingAssumption
  <2> QED BY <1>1, <1>2, <2>1, ExtendTipNode
<1>3. ASSUME NEW S \in SUBSET Tx, NEW time \in 0 .. MaxTime - 1, Reorganize(S, time) PROVE Node
  BY <1>1, <1>3, ReorganizeNode
<1>4. ASSUME NEW t \in Tx, CommitTransaction(t) PROVE Node
  BY <1>1, <1>4, CommitTransactionNode
<1>5. ASSUME NEW t \in Tx, NEW S \in SUBSET (Tx \ {t}), ReceiveTx(t, S) PROVE Node
  BY <1>1, <1>5, ReceiveTxNode
<1>6. ASSUME NEW S \in SUBSET Tx, ReorganizeFails(S) PROVE Node
  BY <1>1, <1>6, ReorganizeFailsNode
<1>7. CASE Tick
  BY <1>1, <1>7, TickNode
<1> QED BY <1>1, <1>2, <1>3, <1>4, <1>5, <1>6, <1>7 DEF Others

LEMMA OthersKeeps ==
  ASSUME IInv, Others
  PROVE  IInv'
<1>1. Node /\ UNCHANGED <<locked, online, pc, fTryToSync, block, search, stake, nLastSearch, result>>
  BY OthersNode DEF thread
<1>2. Moves /\ TypeOK' /\ ChainOK' /\ MarkedOK' /\ SeenOK'
  BY <1>1 DEF Node
<1>3. block.prev = blocks' => blocks' = blocks /\ chain' = chain
  BY <1>2, TypeFacts DEF Moves, TypeOK
<1>4. TxsOK'
  BY <1>1, <1>2, <1>3 DEF IInv, TxsOK, Copied, Moves, Loose
<1>6. CoinsOK'
  <2>1. CoinsOK
    BY DEF IInv
  <2>2. /\ Chosen(search.coins) => Chosen(search.coins)'
        /\ Chosen(stake.coins) => Chosen(stake.coins)'
        /\ Chosen(block.coins) => Chosen(block.coins)'
    BY <1>1, <1>2, <1>3 DEF Chosen, Moves, Loose
  <2> QED BY <1>1, <2>1, <2>2 DEF CoinsOK
<1>7. FeesAreEarned' /\ StakesOnce'
  BY <1>1, <1>2 DEF IInv, FeesAreEarned, StakesOnce, Moves, Loose
<1> QED BY <1>2, <1>4, <1>6, <1>7 DEF IInv

(***************************************************************************)
(* The steps of the staking thread that leave the node alone.              *)
(***************************************************************************)
LEMMA NodeStays ==
  ASSUME IInv, UNCHANGED node, block'.prev \in {block.prev, 0, blocks}
  PROVE  ChainOK' /\ MarkedOK' /\ SeenOK'
         /\ UNCHANGED <<clock, chain, blocks, mempool, vfSpent, setStakeSeen, refunded, untold>>
<1>1. UNCHANGED <<clock, chain, blocks, mempool, vfSpent, setStakeSeen, refunded, untold>>
  BY DEF node
<1>2. ChainOK'
  BY <1>1, TypeFacts DEF ChainOK
<1>3. MarkedOK' /\ SeenOK'
  BY <1>1 DEF IInv, MarkedOK, SeenOK, Loose
<1> QED BY <1>1, <1>2, <1>3

LEMMA NoneTypes ==
  ASSUME IInv
  PROVE  /\ NoBlock \in [prev : 0 .. MaxBlocks, nTime : 0 .. MaxTime, txs : SUBSET Tx,
                         nFees : Nat, coins : SUBSET Coin]
         /\ NoBlock.prev = 0
         /\ NoSearch \in [prev : 0 .. MaxBlocks, nTime : 0 .. clock, coins : SUBSET Coin]
         /\ NoStake \in [kernel : Coin, coins : SUBSET Coin, nTime : 0 .. clock]
         /\ NoResult \in [what : Indexed \cup {"none", "stale", "seen", "time"},
                          coins : SUBSET Coin]
         /\ NoResult.what = "none"
<1>1. (CHOOSE c \in Coin : TRUE) \in Coin
  BY StakingAssumption
<1>2. 0 \in 0 .. MaxBlocks /\ 0 \in 0 .. MaxTime /\ 0 \in 0 .. clock
  BY TypeFacts
<1>3. NoStake \in [kernel : Coin, coins : SUBSET Coin, nTime : 0 .. clock]
  BY <1>1, <1>2 DEF NoStake
<1> QED BY <1>2, <1>3 DEF NoBlock, NoSearch, NoResult

LEMMA ToggleKeeps ==
  ASSUME IInv, Toggle
  PROVE  IInv'
<1>1. UNCHANGED node /\ UNCHANGED <<pc, fTryToSync, block, search, stake, nLastSearch, result>>
  BY DEF Toggle
<1>2. ChainOK' /\ MarkedOK' /\ SeenOK'
      /\ UNCHANGED <<clock, chain, blocks, mempool, vfSpent, setStakeSeen, refunded, untold>>
  BY <1>1, NodeStays
<1>3. locked' \in BOOLEAN /\ online' \in BOOLEAN
  BY DEF Toggle, IInv, TypeOK
<1>4. TypeOK'
  BY <1>1, <1>2, <1>3 DEF IInv, TypeOK
<1>5. TxsOK' /\ CoinsOK' /\ FeesAreEarned' /\ StakesOnce'
  BY <1>1, <1>2 DEF IInv, TxsOK, Copied, CoinsOK, Chosen, FeesAreEarned, StakesOnce, Loose
<1> QED BY <1>2, <1>4, <1>5 DEF IInv

LEMMA StakeMinerKeeps ==
  ASSUME IInv, StakeMiner
  PROVE  IInv'
<1>1. /\ UNCHANGED node /\ UNCHANGED <<locked, online, search, stake, nLastSearch>>
      /\ fTryToSync' \in BOOLEAN /\ pc = "idle"
      /\ \/ pc' = pc /\ block' = block /\ result' = result
         \/ /\ pc' = "collect" /\ result' = NoResult
            /\ block' = [NoBlock EXCEPT !.prev = Best(chain).id, !.nTime = clock]
  BY DEF StakeMiner
<1>2. block' \in [prev : 0 .. MaxBlocks, nTime : 0 .. MaxTime, txs : SUBSET Tx,
                  nFees : Nat, coins : SUBSET Coin] /\ block'.prev \in {block.prev, blocks}
  <2>1. blocks \in 0 .. MaxBlocks /\ clock \in 0 .. MaxTime /\ Best(chain).id = blocks
    BY TypeFacts
  <2>2. CASE block' = [NoBlock EXCEPT !.prev = Best(chain).id, !.nTime = clock]
    BY <2>1, <2>2, NoneTypes
  <2>3. CASE block' = block
    BY <2>3 DEF IInv, TypeOK
  <2> QED BY <1>1, <2>2, <2>3
<1>3. ChainOK' /\ MarkedOK' /\ SeenOK'
      /\ UNCHANGED <<clock, chain, blocks, mempool, vfSpent, setStakeSeen, refunded, untold>>
  BY <1>1, <1>2, NodeStays
<1>4. result' \in [what : Indexed \cup {"none", "stale", "seen", "time"}, coins : SUBSET Coin]
      /\ result'.what \in {result.what, "none"} /\ (result' = result \/ result'.what = "none")
  BY <1>1, NoneTypes DEF IInv, TypeOK
<1>5. TypeOK'
  BY <1>1, <1>2, <1>3, <1>4 DEF IInv, TypeOK
<1>6. TxsOK' /\ CoinsOK'
  BY <1>1 DEF TxsOK, Copied, CoinsOK, Loose
<1>7. FeesAreEarned' /\ StakesOnce'
  BY <1>3, <1>4 DEF IInv, FeesAreEarned, StakesOnce, Loose
<1> QED BY <1>3, <1>5, <1>6, <1>7 DEF IInv

LEMMA CreateNewBlockKeeps ==
  ASSUME IInv, CreateNewBlock
  PROVE  IInv'
<1>1. PICK S \in SUBSET mempool :
        /\ Connects(S, {}, chain)
        /\ block' = [block EXCEPT !.txs = S, !.nFees = Fees(S)]
  BY DEF CreateNewBlock
<1>2. /\ pc' = "sign" /\ UNCHANGED node
      /\ UNCHANGED <<locked, online, fTryToSync, search, stake, nLastSearch, result>>
  BY DEF CreateNewBlock
<1>3. S \subseteq Tx /\ Fees(S) \in Nat
  BY TypeFacts, FeesNatural
<1>4. block' \in [prev : 0 .. MaxBlocks, nTime : 0 .. MaxTime, txs : SUBSET Tx,
                  nFees : Nat, coins : SUBSET Coin]
      /\ block'.prev = block.prev /\ block'.txs = S /\ block'.nFees = Fees(S)
  BY <1>1, <1>3 DEF IInv, TypeOK
<1>5. ChainOK' /\ MarkedOK' /\ SeenOK'
      /\ UNCHANGED <<clock, chain, blocks, mempool, vfSpent, setStakeSeen, refunded, untold>>
  BY <1>2, <1>4, NodeStays
<1>6. TypeOK'
  BY <1>2, <1>4, <1>5 DEF IInv, TypeOK
<1>7. TxsOK'
  <2>1. Spends(S) \cap Coin \subseteq vfSpent \cup Loose
    <3>1. Spends(S) \subseteq Spends(mempool)
      BY SpendsFacts
    <3> QED BY <3>1 DEF IInv, MarkedOK, Loose
  <2> QED BY <1>1, <1>4, <1>5, <2>1 DEF TxsOK, Loose
<1>8. CoinsOK'
  BY <1>2 DEF CoinsOK
<1>9. FeesAreEarned' /\ StakesOnce'
  BY <1>2, <1>5 DEF IInv, FeesAreEarned, StakesOnce, Loose
<1> QED BY <1>5, <1>6, <1>7, <1>8, <1>9 DEF IInv

\* The coins are chosen after the transactions, so what these spend is marked.
LEMMA SelectCoinsSimpleKeeps ==
  ASSUME IInv, SelectCoinsSimple
  PROVE  IInv'
<1>1. /\ pc = "sign" /\ UNCHANGED node
      /\ UNCHANGED <<locked, online, fTryToSync, stake, nLastSearch, result>>
  BY DEF SelectCoinsSimple
<1>2. CASE pc' = "idle" /\ block' = NoBlock /\ search' = search
  <2>1. ChainOK' /\ MarkedOK' /\ SeenOK'
        /\ UNCHANGED <<clock, chain, blocks, mempool, vfSpent, setStakeSeen, refunded, untold>>
    BY <1>1, <1>2, NodeStays, NoneTypes
  <2>2. TypeOK'
    BY <1>1, <1>2, <2>1, NoneTypes DEF IInv, TypeOK
  <2>3. TxsOK' /\ CoinsOK' /\ FeesAreEarned' /\ StakesOnce'
    BY <1>1, <1>2, <2>1 DEF IInv, TxsOK, Copied, CoinsOK, FeesAreEarned, StakesOnce, Loose
  <2> QED BY <2>1, <2>2, <2>3 DEF IInv
<1>3. ASSUME NEW C \in SUBSET (Coin \ vfSpent), pc' = "search", block' = block,
             search' = [prev |-> Best(chain).id, nTime |-> clock, coins |-> C]
      PROVE  IInv'
  <2>1. ChainOK' /\ MarkedOK' /\ SeenOK'
        /\ UNCHANGED <<clock, chain, blocks, mempool, vfSpent, setStakeSeen, refunded, untold>>
    BY <1>1, <1>3, NodeStays
  <2>2. search' \in [prev : 0 .. MaxBlocks, nTime : 0 .. clock, coins : SUBSET Coin]
        /\ search'.coins = C
    <3>1. Best(chain).id \in 0 .. MaxBlocks /\ clock \in 0 .. clock
      BY TypeFacts
    <3> QED BY <1>3, <3>1
  <2>3. TypeOK'
    BY <1>1, <1>3, <2>1, <2>2 DEF IInv, TypeOK
  <2>4. TxsOK'
    BY <1>1, <1>3, <2>1 DEF IInv, TxsOK, Copied, Loose
  <2>5. Chosen(C)
    BY <1>1, <1>3 DEF IInv, TxsOK, Copied, MarkedOK, Chosen, Loose
  <2>6. CoinsOK'
    BY <1>3, <2>1, <2>2, <2>5 DEF CoinsOK, Chosen, Loose
  <2>7. FeesAreEarned' /\ StakesOnce'
    BY <1>1, <2>1 DEF IInv, FeesAreEarned, StakesOnce, Loose
  <2> QED BY <2>1, <2>3, <2>4, <2>6, <2>7 DEF IInv
<1> QED BY <1>1, <1>2, <1>3 DEF SelectCoinsSimple

LEMMA FindKernelKeeps ==
  ASSUME IInv, FindKernel
  PROVE  IInv'
<1>1. /\ pc = "search" /\ pc' = "finish" /\ UNCHANGED node
      /\ UNCHANGED <<locked, online, fTryToSync, block, search, nLastSearch, result>>
  BY DEF FindKernel
<1>2. PICK c \in search.coins, n \in 0 .. nMaxStakeSearchInterval - 1 :
        /\ n < search.nTime - nLastSearch
        /\ \E more \in SUBSET (search.coins \ {c}) :
                stake' = [kernel |-> c, coins |-> more \cup {c}, nTime |-> KernelTime(search.nTime, n)]
  BY DEF FindKernel
<1>3. PICK more \in SUBSET (search.coins \ {c}) :
                stake' = [kernel |-> c, coins |-> more \cup {c}, nTime |-> KernelTime(search.nTime, n)]
  BY <1>2
<1>4. ChainOK' /\ MarkedOK' /\ SeenOK'
      /\ UNCHANGED <<clock, chain, blocks, mempool, vfSpent, setStakeSeen, refunded, untold>>
  BY <1>1, NodeStays
<1>5. KernelTime(search.nTime, n) \in 0 .. clock
  <2>1. search.nTime \in 0 .. clock /\ nLastSearch \in 0 .. clock /\ clock \in Nat
        /\ nMaxStakeSearchInterval \in Nat
    BY TypeFacts, StakingAssumption DEF IInv, TypeOK
  <2> QED BY <1>2, <2>1 DEF KernelTime
<1>6. /\ stake' \in [kernel : Coin, coins : SUBSET Coin, nTime : 0 .. clock]
      /\ stake'.kernel \in stake'.coins /\ stake'.coins \subseteq search.coins
  <2>1. search.coins \subseteq Coin
    BY DEF IInv, TypeOK
  <2> QED BY <1>3, <1>5, <2>1
<1>7. TypeOK'
  BY <1>1, <1>4, <1>6 DEF IInv, TypeOK
<1>8. TxsOK'
  BY <1>1, <1>4 DEF IInv, TxsOK, Copied, Loose
<1>9. CoinsOK'
  BY <1>1, <1>4, <1>6 DEF IInv, CoinsOK, Chosen, Loose
<1>10. FeesAreEarned' /\ StakesOnce'
  BY <1>1, <1>4 DEF IInv, FeesAreEarned, StakesOnce, Loose
<1> QED BY <1>4, <1>7, <1>8, <1>9, <1>10 DEF IInv

LEMMA SearchFailsKeeps ==
  ASSUME IInv, SearchFails
  PROVE  IInv'
<1>1. /\ pc' = "idle" /\ nLastSearch' = search.nTime /\ UNCHANGED node
      /\ block' = NoBlock /\ search' = NoSearch /\ stake' = NoStake
      /\ UNCHANGED <<locked, online, fTryToSync, result>>
  BY DEF SearchFails
<1>2. ChainOK' /\ MarkedOK' /\ SeenOK'
      /\ UNCHANGED <<clock, chain, blocks, mempool, vfSpent, setStakeSeen, refunded, untold>>
  BY <1>1, NodeStays, NoneTypes
<1>3. TypeOK'
  <2>1. nLastSearch' \in 0 .. clock
    BY <1>1 DEF IInv, TypeOK
  <2> QED BY <1>1, <1>2, <2>1, NoneTypes DEF IInv, TypeOK
<1>4. TxsOK' /\ CoinsOK' /\ FeesAreEarned' /\ StakesOnce'
  BY <1>1, <1>2 DEF IInv, TxsOK, Copied, CoinsOK, FeesAreEarned, StakesOnce, Loose
<1> QED BY <1>2, <1>3, <1>4 DEF IInv

LEMMA SignFailsKeeps ==
  ASSUME IInv, SignFails
  PROVE  IInv'
<1>1. /\ pc' = "idle" /\ nLastSearch' = nLastSearch /\ UNCHANGED node
      /\ block' = NoBlock /\ search' = NoSearch /\ stake' = NoStake
      /\ UNCHANGED <<locked, online, fTryToSync, result>>
  BY DEF SignFails
<1>2. ChainOK' /\ MarkedOK' /\ SeenOK'
      /\ UNCHANGED <<clock, chain, blocks, mempool, vfSpent, setStakeSeen, refunded, untold>>
  BY <1>1, NodeStays, NoneTypes
<1>3. TypeOK'
  <2>1. nLastSearch' \in 0 .. clock
    BY <1>1 DEF IInv, TypeOK
  <2> QED BY <1>1, <1>2, <2>1, NoneTypes DEF IInv, TypeOK
<1>4. TxsOK' /\ CoinsOK' /\ FeesAreEarned' /\ StakesOnce'
  BY <1>1, <1>2 DEF IInv, TxsOK, Copied, CoinsOK, FeesAreEarned, StakesOnce, Loose
<1> QED BY <1>2, <1>3, <1>4 DEF IInv

\* The block time is no earlier than any transaction of the block, so that
\* SignBlock takes none out, and within the bound of the clock.
LEMMA BlockTimeIs ==
  ASSUME IInv, stake.nTime >= Max({GetPastTimeLimit(chain) + 1, PastDrift(Best(chain).nTime)})
  PROVE  /\ BlockTime(block.txs) \in 0 .. MaxTime
         /\ \A t \in block.txs : TxTime[t] <= BlockTime(block.txs)
<1>1. PICK m, d, s : m = GetPastTimeLimit(chain) + 1 /\ d = PastDrift(Best(chain).nTime) /\ s = stake.nTime
  OBVIOUS
<1>2. m \in Nat /\ d \in Nat /\ s \in Nat /\ s <= MaxTime /\ MaxTime \in Nat /\ m <= MaxTime + 1
      /\ d <= MaxTime + 1
  <2>1. GetPastTimeLimit(chain) \in 0 .. MaxTime
    BY TypeFacts, MedianIs
  <2>2. Best(chain).nTime \in 0 .. MaxTime /\ Drift \in Nat /\ MaxTime \in Nat
    BY TypeFacts, StakingAssumption DEF Blocks
  <2>3. d \in Nat /\ d <= MaxTime + 1
    BY <1>1, <2>2 DEF PastDrift
  <2>4. s \in Nat /\ s <= MaxTime
    BY <1>1, TypeFacts DEF IInv, TypeOK
  <2> QED BY <1>1, <2>1, <2>2, <2>3, <2>4
<1>3. m <= s /\ d <= s
  <2>1. {m, d} \in SUBSET Nat /\ {m, d} # {} /\ MaxTime + 1 \in Nat /\ \A k \in {m, d} : k <= MaxTime + 1
    BY <1>2
  <2>2. Max({m, d}) \in {m, d} /\ \A k \in {m, d} : k <= Max({m, d})
    BY <2>1, MaxIs
  <2>3. s >= Max({m, d})
    BY <1>1
  <2> QED BY <1>2, <2>2, <2>3
<1>4. \A t \in block.txs : TxTime[t] \in 0 .. MaxTime
  BY TypeFacts, StakingAssumption
<1>5. PICK S : S = {m, d, s} \cup {TxTime[t] : t \in block.txs}
  OBVIOUS
<1>6. S \in SUBSET Nat /\ S # {} /\ \A k \in S : k <= MaxTime
  BY <1>2, <1>3, <1>4, <1>5
<1>7. Max(S) \in S /\ \A k \in S : k <= Max(S)
  BY <1>2, <1>6, MaxIs
<1>8. BlockTime(block.txs) = Max(S)
  BY <1>1, <1>5 DEF BlockTime
<1>9. Max(S) \in 0 .. MaxTime
  <2>1. PICK x \in S : x = Max(S)
    BY <1>7
  <2>2. x \in Nat /\ x <= MaxTime
    BY <1>6
  <2> QED BY <1>2, <2>1, <2>2
<1>10. \A t \in block.txs : TxTime[t] <= Max(S)
  BY <1>5, <1>7
<1> QED BY <1>8, <1>9, <1>10

LEMMA SignBlockKeeps ==
  ASSUME IInv, SignBlock
  PROVE  IInv'
<1>1. /\ pc = "finish" /\ pc' = "check" /\ UNCHANGED node /\ search' = NoSearch
      /\ UNCHANGED <<locked, online, fTryToSync, stake, nLastSearch, result>>
      /\ stake.nTime >= Max({GetPastTimeLimit(chain) + 1, PastDrift(Best(chain).nTime)})
  BY DEF SignBlock
<1>2. PICK nTime : nTime = BlockTime(block.txs)
  OBVIOUS
<1>3. block' = [block EXCEPT !.nTime = nTime, !.coins = stake.coins,
                             !.txs = {t \in block.txs : TxTime[t] <= nTime}]
  BY <1>2 DEF SignBlock
<1>4. nTime \in 0 .. MaxTime /\ {t \in block.txs : TxTime[t] <= nTime} = block.txs
  BY <1>1, <1>2, BlockTimeIs
<1>5. /\ block' \in [prev : 0 .. MaxBlocks, nTime : 0 .. MaxTime, txs : SUBSET Tx,
                     nFees : Nat, coins : SUBSET Coin]
      /\ block'.prev = block.prev /\ block'.txs = block.txs /\ block'.nFees = block.nFees
      /\ block'.coins = stake.coins
  BY <1>3, <1>4 DEF IInv, TypeOK
<1>6. ChainOK' /\ MarkedOK' /\ SeenOK'
      /\ UNCHANGED <<clock, chain, blocks, mempool, vfSpent, setStakeSeen, refunded, untold>>
  BY <1>1, <1>5, NodeStays
<1>7. TypeOK'
  BY <1>1, <1>5, <1>6, NoneTypes DEF IInv, TypeOK
<1>8. TxsOK'
  BY <1>1, <1>5, <1>6 DEF IInv, TxsOK, Copied, Loose
<1>9. CoinsOK'
  BY <1>1, <1>5, <1>6 DEF IInv, CoinsOK, Chosen, Loose
<1>10. FeesAreEarned' /\ StakesOnce'
  BY <1>1, <1>6 DEF IInv, FeesAreEarned, StakesOnce, Loose
<1> QED BY <1>6, <1>7, <1>8, <1>9, <1>10 DEF IInv

(***************************************************************************)
(* The block is handed over.                                               *)
(***************************************************************************)
\* A block on the tip claims the fees it pays, and what stands in its way was
\* given back by a reorganisation.
LEMMA HandedOver ==
  ASSUME IInv, pc = "check"
  PROVE  /\ RewardFits
         /\ stake.kernel \in block.coins
         /\ block.prev = Best(chain).id /\ ~InputsFree => block.coins \cap Loose # {}
         /\ block.prev = Best(chain).id /\ Loose = {} => <<stake.kernel, stake.nTime>> \notin setStakeSeen
<1>1. TxsOK /\ Copied /\ Chosen(block.coins) /\ stake.kernel \in block.coins /\ Best(chain).id = blocks
  BY TypeFacts DEF IInv, CoinsOK, Copied
<1>2. RewardFits
  <2>1. block.nFees = Fees(block.txs) /\ block.nFees \in Nat
    BY <1>1 DEF TxsOK, IInv, TypeOK, Loose
  <2> QED BY <2>1 DEF RewardFits
<1>3. ASSUME block.prev = Best(chain).id, ~InputsFree PROVE block.coins \cap Loose # {}
  <2>1. Connects(block.txs, {}, chain)
    BY <1>1, <1>3 DEF TxsOK, Loose
  <2>2. block.coins \cap SpentIn(chain) # {} \/ block.coins \cap Spends(block.txs) # {}
    BY <1>3, <2>1 DEF InputsFree, Connects
  <2>3. block.coins \cap SpentIn(chain) \subseteq Loose /\ block.coins \cap Spends(block.txs) \subseteq Loose
    BY <1>1, <1>3 DEF Chosen, Loose
  <2> QED BY <2>2, <2>3
<1>4. ASSUME block.prev = Best(chain).id, Loose = {}, <<stake.kernel, stake.nTime>> \in setStakeSeen
      PROVE  FALSE
  <2>1. stake.kernel \in Staked(chain)
    <3>1. \A s \in setStakeSeen : s[1] \in Staked(chain)
      BY <1>4 DEF IInv, SeenOK, Loose
    <3>2. <<stake.kernel, stake.nTime>>[1] \in Staked(chain)
      BY <1>4, <3>1
    <3> QED BY <3>2
  <2>2. stake.kernel \in SpentIn(chain)
    BY <2>1 DEF SpentIn, Staked
  <2>3. block.coins \cap SpentIn(chain) \subseteq Loose
    BY <1>1, <1>4 DEF Chosen, Loose
  <2> QED BY <1>1, <1>4, <2>2, <2>3
<1> QED BY <1>1, <1>2, <1>3, <1>4

LEMMA CheckStakeKeeps ==
  ASSUME IInv, CheckStake
  PROVE  IInv'
<1>1. PICK kernel, w :
        /\ kernel = <<stake.kernel, stake.nTime>>
        /\ w = IF block.prev # Best(chain).id THEN "stale"
               ELSE IF kernel \in setStakeSeen THEN "seen"
               ELSE IF ~TimesFit THEN "time"
               ELSE IF ~InputsFree THEN "spent"
               ELSE IF ~RewardFits THEN "reward"
               ELSE "accepted"
  OBVIOUS
<1>2. /\ pc = "check" /\ pc' = "idle" /\ (w = "accepted" => blocks < MaxBlocks)
      /\ result' = [what |-> w, coins |-> block.coins]
      /\ setStakeSeen' = setStakeSeen \cup (IF w \in Indexed THEN {kernel} ELSE {})
      /\ block' = NoBlock /\ stake' = NoStake
      /\ UNCHANGED <<clock, refunded, untold, locked, online, fTryToSync, search, nLastSearch>>
  BY <1>1 DEF CheckStake
<1>3. IF w = "accepted"
      THEN /\ chain' = Append(chain, [id |-> blocks + 1, nTime |-> block.nTime,
                                      txs |-> block.txs, coins |-> block.coins])
           /\ blocks' = blocks + 1
           /\ mempool' = mempool \ block.txs
           /\ vfSpent' = Marked(block.txs, block.coins)
      ELSE UNCHANGED <<chain, blocks, mempool, vfSpent>>
  BY <1>1 DEF CheckStake
<1>4. w \in {"stale", "seen", "time", "spent", "accepted"}
      /\ (w = "spent" => block.coins \cap Loose # {})
      /\ (w = "seen" => Loose # {})
  <2>1. RewardFits
    BY <1>2, HandedOver
  <2>2. w \in {"stale", "seen", "time", "spent", "accepted"}
    BY <1>1, <2>1
  <2>3. w = "spent" => block.prev = Best(chain).id /\ ~InputsFree
    BY <1>1
  <2>4. w = "seen" => block.prev = Best(chain).id /\ kernel \in setStakeSeen
    BY <1>1
  <2> QED BY <1>1, <1>2, <2>2, <2>3, <2>4, HandedOver
<1>5. kernel \in Coin \X (0 .. MaxTime) /\ kernel[1] \in block.coins
  <2>1. stake.kernel \in Coin /\ stake.nTime \in 0 .. MaxTime
    BY TypeFacts DEF IInv, TypeOK
  <2> QED BY <1>1, <1>2, <2>1, HandedOver
<1>6. /\ setStakeSeen' \subseteq Coin \X (0 .. MaxTime)
      /\ result' \in [what : Indexed \cup {"none", "stale", "seen", "time"}, coins : SUBSET Coin]
      /\ result'.what = w /\ result'.coins = block.coins
  BY <1>2, <1>4, <1>5, TypeFacts DEF IInv, TypeOK, Indexed
<1>7. FeesAreEarned' /\ StakesOnce'
  BY <1>2, <1>4, <1>6 DEF FeesAreEarned, StakesOnce, Loose
<1>8. TxsOK' /\ CoinsOK'
  BY <1>2 DEF TxsOK, Copied, CoinsOK, Loose
<1>9. CASE w = "accepted"
  <2>1. PICK b : b = [id |-> blocks + 1, nTime |-> block.nTime, txs |-> block.txs, coins |-> block.coins]
    OBVIOUS
  <2>2. /\ chain' = Append(chain, b) /\ blocks' = blocks + 1
        /\ mempool' = mempool \ block.txs /\ vfSpent' = Marked(block.txs, block.coins)
    BY <1>3, <1>9, <2>1
  <2>3. b \in Blocks /\ b.id = blocks + 1 /\ b.txs = block.txs /\ b.coins = block.coins
    <3>1. blocks + 1 \in 0 .. MaxBlocks
      BY <1>2, <1>9, TypeFacts
    <3>2. block.nTime \in 0 .. MaxTime /\ block.txs \in SUBSET Tx /\ block.coins \in SUBSET Coin
      BY DEF IInv, TypeOK
    <3> QED BY <2>1, <3>1, <3>2 DEF Blocks
  <2>4. /\ chain' \in Seq(Blocks) /\ Len(chain') = Len(chain) + 1 /\ Best(chain') = b
        /\ SpentIn(chain') = SpentIn(chain) \cup Spends(b.txs) \cup b.coins
        /\ Staked(chain') = Staked(chain) \cup b.coins
    BY <2>2, <2>3, TypeFacts, ChainAppend
  <2>5. /\ vfSpent' \subseteq Coin /\ vfSpent \subseteq vfSpent' /\ block.coins \subseteq vfSpent'
        /\ Spends(block.txs) \cap Coin \subseteq vfSpent'
    <3>1. block.txs \in SUBSET Tx /\ block.coins \in SUBSET Coin
      BY TypeFacts
    <3> QED BY <2>2, <3>1, MarkedIs
  <2>6. TypeOK'
    <3>1. blocks' \in 0 .. MaxBlocks /\ mempool' \subseteq Tx
      BY <1>2, <1>9, <2>2, TypeFacts
    <3> QED BY <1>2, <1>6, <2>4, <2>5, <3>1, NoneTypes DEF IInv, TypeOK, Blocks
  <2>7. ChainOK'
    BY <1>2, <2>2, <2>3, <2>4, TypeFacts, NoneTypes DEF ChainOK
  <2>8. MarkedOK'
    <3>1. Spends(mempool') \subseteq Spends(mempool)
      BY <2>2, SpendsFacts
    <3> QED BY <1>2, <2>3, <2>4, <2>5, <3>1 DEF IInv, MarkedOK, Loose
  <2>9. SeenOK'
    <3>1. \A s \in setStakeSeen' : s \in setStakeSeen \/ s = kernel
      BY <1>2
    <3> QED BY <1>2, <1>5, <2>3, <2>4, <3>1 DEF IInv, SeenOK, Loose
  <2> QED BY <1>7, <1>8, <2>6, <2>7, <2>8, <2>9 DEF IInv
<1>10. CASE w # "accepted"
  <2>1. UNCHANGED <<chain, blocks, mempool, vfSpent>>
    BY <1>3, <1>10
  <2>2. TypeOK'
    BY <1>2, <1>6, <2>1, NoneTypes DEF IInv, TypeOK
  <2>3. ChainOK'
    BY <1>2, <2>1, TypeFacts, NoneTypes DEF ChainOK
  <2>4. MarkedOK'
    BY <1>2, <2>1 DEF IInv, MarkedOK, Loose
  <2>5. SeenOK'
    <3>1. Loose = {} => setStakeSeen' = setStakeSeen
      BY <1>2, <1>4, <1>10 DEF Indexed
    <3> QED BY <1>2, <2>1, <3>1 DEF IInv, SeenOK, Loose
  <2> QED BY <1>7, <1>8, <2>2, <2>3, <2>4, <2>5 DEF IInv
<1> QED BY <1>9, <1>10

(***************************************************************************)
(* The invariant holds.                                                    *)
(***************************************************************************)
LEMMA InitIInv ==
  ASSUME Init
  PROVE  IInv
<1>1. PICK b : b = [id |-> 0, nTime |-> 0, txs |-> {}, coins |-> {}]
  OBVIOUS
<1>2. b \in Blocks /\ MaxTime \in Nat /\ MaxBlocks \in Nat
  BY <1>1, StakingAssumption DEF Blocks
<1>3. /\ chain = <<b>> /\ chain \in Seq(Blocks) /\ Len(chain) = 1 /\ DOMAIN chain = {1} /\ chain[1] = b
  BY <1>1, <1>2 DEF Init
<1>4. Best(chain).id = 0 /\ NoBlock.prev = 0
  BY <1>1, <1>3 DEF Best, NoBlock
<1>5. SpentIn(chain) = {}
  <2>1. Confirmed(chain) = {} /\ UNION {chain[i].coins : i \in DOMAIN chain} = {}
    BY <1>1, <1>3 DEF Confirmed
  <2> QED BY <2>1 DEF SpentIn, Spends
<1>6. TypeOK
  <2>1. (CHOOSE c \in Coin : TRUE) \in Coin
    BY StakingAssumption
  <2>2. NoStake \in [kernel : Coin, coins : SUBSET Coin, nTime : 0 .. 0]
    BY <2>1 DEF NoStake
  <2>3. NoSearch \in [prev : 0 .. MaxBlocks, nTime : 0 .. 0, coins : SUBSET Coin]
    BY <1>2 DEF NoSearch
  <2>4. NoBlock \in [prev : 0 .. MaxBlocks, nTime : 0 .. MaxTime, txs : SUBSET Tx,
                     nFees : Nat, coins : SUBSET Coin]
    BY <1>2 DEF NoBlock
  <2>5. NoResult \in [what : Indexed \cup {"none", "stale", "seen", "time"}, coins : SUBSET Coin]
    BY DEF NoResult
  <2>6. /\ clock = 0 /\ blocks = 0 /\ mempool = {} /\ vfSpent = {} /\ setStakeSeen = {} /\ refunded = {} /\ untold = {}
        /\ locked = FALSE /\ online = TRUE /\ fTryToSync = TRUE /\ pc = "idle" /\ nLastSearch = 0
        /\ result = NoResult /\ block = NoBlock /\ search = NoSearch /\ stake = NoStake
    BY DEF Init
  <2>7. /\ clock \in 0 .. MaxTime /\ blocks \in 0 .. MaxBlocks /\ nLastSearch \in 0 .. clock
        /\ {locked, online, fTryToSync} \subseteq BOOLEAN
    <3>1. clock \in 0 .. MaxTime /\ blocks \in 0 .. MaxBlocks /\ nLastSearch \in 0 .. clock
      BY <1>2, <2>6
    <3>2. locked \in BOOLEAN /\ online \in BOOLEAN /\ fTryToSync \in BOOLEAN
      BY <2>6, Zenon
    <3> QED BY <3>1, <3>2
  <2>8. /\ stake \in [kernel : Coin, coins : SUBSET Coin, nTime : 0 .. clock]
        /\ search \in [prev : 0 .. MaxBlocks, nTime : 0 .. clock, coins : SUBSET Coin]
    BY <2>2, <2>3, <2>6
  <2> QED BY <1>3, <2>4, <2>5, <2>6, <2>7, <2>8 DEF TypeOK, Blocks
<1>7. ChainOK
  BY <1>3, <1>4 DEF ChainOK, Init
<1>8. MarkedOK
  BY <1>5, SpendsFacts DEF MarkedOK, Init, Loose
<1>9. TxsOK /\ CoinsOK /\ SeenOK /\ FeesAreEarned /\ StakesOnce
  BY DEF Init, TxsOK, Copied, CoinsOK, SeenOK, FeesAreEarned, StakesOnce, NoResult, Loose
<1> QED BY <1>6, <1>7, <1>8, <1>9 DEF IInv

LEMMA StepIInv ==
  ASSUME IInv, [Next]_vars
  PROVE  IInv'
<1>1. CASE UNCHANGED vars
  <2>1. UNCHANGED <<clock, chain, blocks, mempool, vfSpent, setStakeSeen, refunded, untold, locked, online, pc,
                    fTryToSync, block, search, stake, nLastSearch, result>>
    BY <1>1 DEF vars, node
  <2>2. TypeOK' /\ ChainOK' /\ MarkedOK' /\ SeenOK'
    BY <2>1 DEF IInv, TypeOK, ChainOK, MarkedOK, SeenOK, Loose
  <2>3. TxsOK' /\ CoinsOK' /\ FeesAreEarned' /\ StakesOnce'
    BY <2>1 DEF IInv, TxsOK, Copied, CoinsOK, Chosen, FeesAreEarned, StakesOnce, Loose
  <2> QED BY <2>2, <2>3 DEF IInv
<1>2. CASE Others
  BY <1>2, OthersKeeps
<1>3. CASE Toggle
  BY <1>3, ToggleKeeps
<1>4. CASE StakeMiner
  BY <1>4, StakeMinerKeeps
<1>5. CASE CreateNewBlock
  BY <1>5, CreateNewBlockKeeps
<1>6. CASE SelectCoinsSimple
  BY <1>6, SelectCoinsSimpleKeeps
<1>7. CASE FindKernel
  BY <1>7, FindKernelKeeps
<1>8. CASE SearchFails
  BY <1>8, SearchFailsKeeps
<1>9. CASE SignBlock
  BY <1>9, SignBlockKeeps
<1>10. CASE SignFails
  BY <1>10, SignFailsKeeps
<1>11. CASE CheckStake
  BY <1>11, CheckStakeKeeps
<1> QED BY <1>1, <1>2, <1>3, <1>4, <1>5, <1>6, <1>7, <1>8, <1>9, <1>10, <1>11 DEF Next

LEMMA IInvHolds == Spec => []IInv
<1>1. Init => IInv
  BY InitIInv
<1>2. IInv /\ [Next]_vars => IInv'
  BY StepIInv
<1> QED BY <1>1, <1>2, PTL DEF Spec

(***************************************************************************)
(* The types of the variables; no coinstake is dated in the future, and no *)
(* block beyond the clock's bound (CreateCoinStake, SignBlock).            *)
(***************************************************************************)
THEOREM TypeCorrect == Spec => []TypeOK
<1>1. IInv => TypeOK
  BY DEF IInv
<1> QED BY <1>1, IInvHolds, PTL

(***************************************************************************)
(* The coinstake never claims more fees than the transactions of its block *)
(* pay: the time SignBlock gives the block is no earlier than any of them, *)
(* so none that CreateNewBlock has counted is taken out.                   *)
(***************************************************************************)
THEOREM FeesAlwaysEarned == Spec => []FeesAreEarned
<1>1. IInv => FeesAreEarned
  BY DEF IInv
<1> QED BY <1>1, IInvHolds, PTL

(***************************************************************************)
(* A block made on the tip spends nothing twice, whatever the other        *)
(* threads do between the reading of the tip, of the pool and of the coins,*)
(* unless a reorganisation, accomplished or not, gave one of its coins     *)
(* back, or an orphan that the wallet is not told of spends it; only then  *)
(* is a stake offered again (CreateNewBlock, CreateCoinStake, CheckStake,  *)
(* DisableTransaction, the tx message).                                    *)
(***************************************************************************)
THEOREM StakesAreOnce == Spec => []StakesOnce
<1>1. IInv => StakesOnce
  BY DEF IInv
<1> QED BY <1>1, IInvHolds, PTL
=============================================================================
