------------------------- MODULE WalletCoinsProofs -------------------------
(***************************************************************************)
(* What the wallet knows of its coins, for every tree of blocks that obey  *)
(* the ledger rules and every order in which they are connected and        *)
(* disconnected.  Blocks are told to the wallet one transaction at a time: *)
(* the lemmas follow a wallet through one transaction, then through a      *)
(* block, then through a branch.                                           *)
(***************************************************************************)
EXTENDS WalletCoins, WellFoundedInduction, TLAPS

(***************************************************************************)
(* Induction over the steps of InOrder.                                    *)
(***************************************************************************)
\* A set of natural numbers that is not empty has a least element.
LEMMA LeastNatural ==
    ASSUME NEW T \in SUBSET Nat, T # {}
    PROVE  \E m \in T : \A k \in T : m <= k
  <1>1. PICK R : IsWellFoundedOn(R, Nat) /\ \A x, y \in Nat : x < y => <<x, y>> \in R
    <2> DEFINE R == OpToRel(<, Nat)
    <2>1. IsWellFoundedOn(R, Nat)  BY NatLessThanWellFounded
    <2>2. \A x, y \in Nat : x < y => <<x, y>> \in R  BY DEF OpToRel
    <2> HIDE DEF R
    <2> QED  BY <2>1, <2>2
  <1>2. \E m \in T : \A y \in T : ~ (<<y, m>> \in R)
    <2>1. IsWellFoundedOn(R, Nat) /\ T \subseteq Nat /\ T # {}  BY <1>1
    <2> QED  BY <2>1, WFMin
  <1>3. PICK m \in T : \A y \in T : ~ (<<y, m>> \in R)  BY <1>2
  <1>4. \A y \in T : ~(y < m)  BY <1>1, <1>3
  <1> QED  BY <1>4

\* A set that has 0, and every number whose predecessor it has, has them all.
LEMMA UpTo ==
    ASSUME NEW n \in Nat, NEW T, 0 \in T, \A i \in 1 .. n : i - 1 \in T => i \in T
    PROVE  \A i \in 0 .. n : i \in T
  <1> DEFINE Bad == {i \in 0 .. n : i \notin T}
  <1>1. SUFFICES ASSUME Bad # {} PROVE FALSE
    OBVIOUS
  <1>2. Bad \in SUBSET Nat  OBVIOUS
  <1>3. PICK m \in Bad : \A k \in Bad : m <= k  BY <1>1, <1>2, LeastNatural
  <1>4. m \in 1 .. n /\ m - 1 \in 0 .. n /\ ~(m <= m - 1)  BY <1>3
  <1>5. m - 1 \notin Bad  BY <1>3, <1>4
  <1> QED  BY <1>3, <1>4, <1>5

\* n functions on S may be applied one after the other.
Iterates(f, S, n, base, step) ==
    /\ f \in [0 .. n -> S]
    /\ f[0] = base
    /\ \A i \in 1 .. n : f[i] = step[i][f[i - 1]]

LEMMA Iterated ==
    ASSUME NEW S, NEW n \in Nat, NEW base \in S, NEW step \in [1 .. n -> [S -> S]]
    PROVE  \E f : Iterates(f, S, n, base, step)
  <1> DEFINE Tr(k, f) == /\ f \in [0 .. k -> S] /\ f[0] = base
                         /\ \A i \in 1 .. k : f[i] = step[i][f[i - 1]]
             T == {k \in 0 .. n : \E f : Tr(k, f)}
  <1>1. 0 \in T
    <2>1. Tr(0, [i \in 0 .. 0 |-> base])  OBVIOUS
    <2>2. 0 \in 0 .. n  OBVIOUS
    <2> HIDE DEF Tr
    <2> QED  BY <2>1, <2>2
  <1>2. ASSUME NEW m \in 1 .. n, m - 1 \in T PROVE m \in T
    <2>1. PICK f : Tr(m - 1, f)  BY <1>2
    <2> DEFINE g == [i \in 0 .. m |-> IF i = m THEN step[m][f[m - 1]] ELSE f[i]]
    <2>2. f[m - 1] \in S  BY <2>1
    <2>3. step[m][f[m - 1]] \in S  BY <2>2
    <2>4. g \in [0 .. m -> S]  BY <2>1, <2>3
    <2>5. g[0] = base  BY <2>1
    <2>6. ASSUME NEW i \in 1 .. m PROVE g[i] = step[i][g[i - 1]]
      <3>1. CASE i = m  BY <3>1
      <3>2. CASE i # m
        <4>1. i \in 1 .. m - 1 /\ i - 1 \in 0 .. m - 1 /\ i - 1 # m  BY <3>2
        <4> QED  BY <3>2, <4>1, <2>1
      <3> QED  BY <3>1, <3>2
    <2>7. Tr(m, g)  BY <2>4, <2>5, <2>6
    <2>8. m \in 0 .. n  OBVIOUS
    <2> QED  BY <2>7, <2>8
  <1>3. \A i \in 0 .. n : i \in T
    <2> HIDE DEF T
    <2> QED  BY <1>1, <1>2, UpTo
  <1>4. PICK f : Tr(n, f)  BY <1>3
  <1> QED  BY <1>4 DEF Iterates

(***************************************************************************)
(* The invariant of a wallet w that knows the transactions D of the chain  *)
(* of the blocks B.                                                        *)
(***************************************************************************)
Copies == UNION {[S -> Block \cup {NoBlock}] : S \in SUBSET Tx}

Wallets == [known : SUBSET Tx, vfSpent : SUBSET Tx,
            hashBlock : [Tx -> Block \cup {NoBlock}], vtxPrev : [Tx -> Copies]]

Involving == {t \in Tx : t \in Mine \/ Vin[t] # {}}

\* What holds always: the wallet has the transactions that pay it or spend its
\* coins, and a block recorded for a transaction has the transaction.
Recorded(w) ==
    \A t \in Tx : w.hashBlock[t] # NoBlock => t \in Range(BlockTx[w.hashBlock[t]])

Sound(w, D) ==
    /\ w \in Wallets
    /\ w.vfSpent \subseteq w.known \cap Mine
    /\ D \cap Involving \subseteq w.known
    /\ Recorded(w)

\* What holds until something goes wrong.
Marked(w, D) == w.known \cap Mine \cap Spends(D) \subseteq w.vfSpent
Accounted(w, D) == w.vfSpent \subseteq Spends((w.known \ CoinStake) \cup D)
Placed(w, D, B) == \A t \in w.known \cap D : w.hashBlock[t] \in B
Right(w, D, B) == Marked(w, D) /\ Accounted(w, D) /\ Placed(w, D, B)

(***************************************************************************)
(* One transaction.                                                        *)
(***************************************************************************)
LEMMA VinType == \A t \in Tx : Vin[t] \subseteq Mine /\ Vin[t] \subseteq Tx
  BY ShapeAssumption

LEMMA SpendsElement == \A S, c : c \in Spends(S) <=> \E t \in S : c \in Vin[t]
  BY DEF Spends

\* What AddToWallet does to each field.
Adds(w, t, b, v) ==
    /\ v \in Wallets
    /\ v.known = w.known \cup {t}
    /\ v.vfSpent = (w.vfSpent \cup (Vin[t] \cap v.known)) \ (IF b # NoBlock THEN {t} ELSE {})
    /\ \A u \in Tx : u # t => v.hashBlock[u] = w.hashBlock[u]
    /\ v.hashBlock[t] = IF b # NoBlock \/ t \notin w.known THEN b ELSE w.hashBlock[t]

LEMMA Added ==
    ASSUME NEW w \in Wallets, NEW t \in Tx, NEW b \in Block \cup {NoBlock}, NEW prev \in Copies
    PROVE  Adds(w, t, b, AddToWallet(w, t, b, prev))
  <1> DEFINE new == [w EXCEPT !.known = @ \cup {t}, !.hashBlock[t] = b, !.vtxPrev[t] = prev]
             merged == [w EXCEPT !.hashBlock[t] = IF b # NoBlock THEN b ELSE @]
             a == IF t \in w.known THEN merged ELSE new
             v == AddToWallet(w, t, b, prev)
  <1>1. v = WalletUpdateSpent(a, t, b # NoBlock)  BY DEF AddToWallet
  <1>2. /\ new \in Wallets /\ new.known = w.known \cup {t} /\ new.vfSpent = w.vfSpent
        /\ new.hashBlock = [w.hashBlock EXCEPT ![t] = b]
    BY DEF Wallets
  <1>3. /\ merged \in Wallets /\ merged.known = w.known /\ merged.vfSpent = w.vfSpent
        /\ merged.hashBlock = [w.hashBlock EXCEPT ![t] = IF b # NoBlock THEN b ELSE @]
    BY DEF Wallets
  <1>4. /\ a \in Wallets /\ a.known = w.known \cup {t} /\ a.vfSpent = w.vfSpent
        /\ \A u \in Tx : u # t => a.hashBlock[u] = w.hashBlock[u]
        /\ a.hashBlock[t] = IF b # NoBlock \/ t \notin w.known THEN b ELSE w.hashBlock[t]
    <2> HIDE DEF new, merged
    <2>1. w.hashBlock \in [Tx -> Block \cup {NoBlock}] /\ w.known \subseteq Tx  BY DEF Wallets
    <2> QED  BY <1>2, <1>3, <2>1
  <1> HIDE DEF a, v
  <1>5. a.known \subseteq Tx /\ a.vfSpent \subseteq Tx  BY <1>4 DEF Wallets
  <1>6. v = [a EXCEPT !.vfSpent = IF b # NoBlock THEN (a.vfSpent \cup (Vin[t] \cap a.known)) \ {t}
                                  ELSE a.vfSpent \cup (Vin[t] \cap a.known)]
    BY <1>1, <1>4 DEF WalletUpdateSpent, Own, Wallets
  <1>7. /\ v \in Wallets /\ v.known = a.known /\ v.hashBlock = a.hashBlock
        /\ v.vfSpent = IF b # NoBlock THEN (a.vfSpent \cup (Vin[t] \cap a.known)) \ {t}
                                  ELSE a.vfSpent \cup (Vin[t] \cap a.known)
    BY <1>4, <1>5, <1>6 DEF Wallets
  <1>8. Adds(w, t, b, v)  BY <1>4, <1>7 DEF Adds
  <1> QED  BY <1>8 DEF v

\* A transaction that concerns the wallet in no way leaves it as it is.
LEMMA Untouched ==
    ASSUME NEW w \in Wallets, NEW t \in Tx, Vin[t] \cap w.known = {}
    PROVE  WalletUpdateSpent(w, t, FALSE) = w
  <1>1. WalletUpdateSpent(w, t, FALSE) = [w EXCEPT !.vfSpent = w.vfSpent \cup {}]
    BY DEF WalletUpdateSpent, Own, Wallets
  <1> QED  BY <1>1 DEF Wallets

LEMMA NoCopies == [p \in {} |-> NoBlock] \in Copies
  <1>1. [p \in {} |-> NoBlock] \in [{} -> Block \cup {NoBlock}]  OBVIOUS
  <1>2. {} \in SUBSET Tx  OBVIOUS
  <1> QED  BY <1>1, <1>2 DEF Copies

\* What AddToWalletIfInvolvingMe does for a transaction of a block, whose coins are
\* in the chain before it.
Tells(w, t, b, v) ==
    \/ /\ v.known = w.known \cup {t}
       /\ v.vfSpent = (w.vfSpent \cup (Vin[t] \cap v.known)) \ {t}
       /\ \A u \in Tx : u # t => v.hashBlock[u] = w.hashBlock[u]
       /\ v.hashBlock[t] = b
    \/ v = w /\ t \notin Involving /\ t \notin w.known

LEMMA TellCases ==
    ASSUME NEW D \in SUBSET Tx, NEW w, Sound(w, D), NEW b \in Block, NEW t \in Tx,
           Vin[t] \subseteq D
    PROVE  /\ AddToWalletIfInvolvingMe(w, t, b, TRUE) \in Wallets
           /\ Tells(w, t, b, AddToWalletIfInvolvingMe(w, t, b, TRUE))
  <1> DEFINE v == AddToWalletIfInvolvingMe(w, t, b, TRUE)
  <1> SUFFICES v \in Wallets /\ Tells(w, t, b, v)
    OBVIOUS
  <1>1. w \in Wallets  BY DEF Sound
  <1>2. Vin[t] \subseteq w.known  BY VinType DEF Sound, Involving
  <1>3. CASE t \in w.known \cup Mine \/ IsFromMe(w, t)
    <2> DEFINE none == [p \in {} |-> NoBlock]
    <2>1. v = AddToWallet(w, t, b, none)
      BY <1>3 DEF AddToWalletIfInvolvingMe
    <2>4. none \in Copies  BY NoCopies
    <2> HIDE DEF none
    <2>2. b # NoBlock /\ b \in Block \cup {NoBlock}  BY ShapeAssumption
    <2>3. Adds(w, t, b, v)  BY <1>1, <2>1, <2>2, <2>4, Added
    <2> HIDE DEF v
    <2> QED  BY <2>2, <2>3 DEF Adds, Tells
  <1>4. CASE ~(t \in w.known \cup Mine \/ IsFromMe(w, t))
    <2>1. v = WalletUpdateSpent(w, t, FALSE)
      BY <1>4 DEF AddToWalletIfInvolvingMe
    <2>2. Vin[t] \cap w.known = {}  BY <1>4 DEF IsFromMe, Own
    <2>3. v = w  BY <1>1, <2>1, <2>2, Untouched
    <2>4. t \notin Involving /\ t \notin w.known  BY <1>2, <1>4, <2>2 DEF Involving
    <2> HIDE DEF v
    <2> QED  BY <1>1, <2>3, <2>4 DEF Tells
  <1> QED  BY <1>3, <1>4

\* The wallet that has been told of t knows it if it has to.
LEMMA TellSound ==
    ASSUME NEW D \in SUBSET Tx, NEW w, Sound(w, D), NEW b \in Block,
           NEW t \in Tx, t \in Range(BlockTx[b]), Vin[t] \subseteq D
    PROVE  /\ Sound(AddToWalletIfInvolvingMe(w, t, b, TRUE), D \cup {t})
           /\ w.known \subseteq AddToWalletIfInvolvingMe(w, t, b, TRUE).known
  <1> DEFINE v == AddToWalletIfInvolvingMe(w, t, b, TRUE)
  <1> SUFFICES Sound(v, D \cup {t}) /\ w.known \subseteq v.known
    OBVIOUS
  <1>1. v \in Wallets /\ Tells(w, t, b, v)  BY TellCases
  <1> HIDE DEF v
  <1>2. CASE v = w /\ t \notin Involving /\ t \notin w.known
    BY <1>2 DEF Sound
  <1>3. CASE /\ v.known = w.known \cup {t}
             /\ v.vfSpent = (w.vfSpent \cup (Vin[t] \cap v.known)) \ {t}
             /\ \A u \in Tx : u # t => v.hashBlock[u] = w.hashBlock[u]
             /\ v.hashBlock[t] = b
    <2>1. v.vfSpent \subseteq v.known \cap Mine  BY <1>3, VinType DEF Sound
    <2>2. Recorded(v)  BY <1>3 DEF Recorded, Sound
    <2>3. (D \cup {t}) \cap Involving \subseteq v.known  BY <1>3 DEF Sound
    <2> QED  BY <1>1, <1>3, <2>1, <2>2, <2>3 DEF Sound
  <1> QED  BY <1>1, <1>2, <1>3 DEF Tells

\* And if t is new to the chain and its coins were not spent there, what the wallet
\* says of the chain is right with t as it was without.
LEMMA TellRight ==
    ASSUME NEW D \in SUBSET Tx, NEW w, Sound(w, D), NEW b \in Block,
           NEW t \in Tx, Vin[t] \subseteq D, Spends(D) \subseteq D, t \notin D,
           NEW B, b \in B, Right(w, D, B)
    PROVE  Right(AddToWalletIfInvolvingMe(w, t, b, TRUE), D \cup {t}, B)
  <1> DEFINE v == AddToWalletIfInvolvingMe(w, t, b, TRUE)
  <1> SUFFICES Right(v, D \cup {t}, B)
    OBVIOUS
  <1>1. v \in Wallets /\ Tells(w, t, b, v)  BY TellCases
  <1> HIDE DEF v
  <1>2. \A S : Spends(S \cup {t}) = Spends(S) \cup Vin[t]  BY DEF Spends
  <1>3. CASE v = w /\ t \notin Involving /\ t \notin w.known
    <2>1. Vin[t] = {}  BY <1>3 DEF Involving
    <2>2. Spends(D \cup {t}) = Spends(D)  BY <1>2, <2>1
    <2>3. Spends((w.known \ CoinStake) \cup (D \cup {t})) = Spends((w.known \ CoinStake) \cup D)
      <3>1. (w.known \ CoinStake) \cup (D \cup {t}) = ((w.known \ CoinStake) \cup D) \cup {t}
        OBVIOUS
      <3> QED  BY <1>2, <2>1, <3>1
    <2>4. Marked(v, D \cup {t})  BY <1>3, <2>2 DEF Marked, Right
    <2>5. Accounted(v, D \cup {t})  BY <1>3, <2>3 DEF Accounted, Right
    <2>6. Placed(v, D \cup {t}, B)  BY <1>3 DEF Placed, Right
    <2> QED  BY <2>4, <2>5, <2>6 DEF Right
  <1>4. CASE /\ v.known = w.known \cup {t}
             /\ v.vfSpent = (w.vfSpent \cup (Vin[t] \cap v.known)) \ {t}
             /\ \A u \in Tx : u # t => v.hashBlock[u] = w.hashBlock[u]
             /\ v.hashBlock[t] = b
    <2>1. t \notin Spends(D \cup {t})  BY <1>2
    <2>2. Vin[t] \subseteq v.known  BY <1>4, VinType DEF Sound, Involving
    <2>3. Marked(v, D \cup {t})
      BY <1>2, <1>4, <2>1, <2>2 DEF Marked, Right
    <2>4. Accounted(v, D \cup {t})
      <3>1. ASSUME NEW c \in v.vfSpent
            PROVE  c \in Spends((v.known \ CoinStake) \cup (D \cup {t}))
        <4>1. CASE c \in w.vfSpent
          <5>1. PICK u \in (w.known \ CoinStake) \cup D : c \in Vin[u]
            BY <4>1, SpendsElement DEF Right, Accounted
          <5>2. u \in (v.known \ CoinStake) \cup (D \cup {t})  BY <1>4
          <5> QED  BY <5>1, <5>2, SpendsElement
        <4>2. CASE c \in Vin[t]
          <5>1. t \in (v.known \ CoinStake) \cup (D \cup {t})  OBVIOUS
          <5> QED  BY <4>2, <5>1, SpendsElement
        <4> QED  BY <1>4, <3>1, <4>1, <4>2
      <3> QED  BY <3>1 DEF Accounted
    <2>5. Placed(v, D \cup {t}, B)  
      BY <1>4 DEF Placed, Right, Sound
    <2> QED  BY <2>3, <2>4, <2>5 DEF Right
  <1> QED  BY <1>1, <1>3, <1>4 DEF Tells

\* A rescan that does not update finds nothing in what the wallet knows.
LEMMA TellAgain ==
    ASSUME NEW D \in SUBSET Tx, NEW w, Sound(w, D), NEW b \in Block, NEW t \in D
    PROVE  AddToWalletIfInvolvingMe(w, t, b, FALSE) = w
  <1>1. w \in Wallets /\ t \in Tx  BY DEF Sound
  <1>2. CASE t \in w.known  BY <1>2 DEF AddToWalletIfInvolvingMe
  <1>3. CASE t \notin w.known
    <2>1. t \notin Mine /\ Vin[t] = {}  BY <1>1, <1>3 DEF Sound, Involving
    <2>2. ~IsFromMe(w, t)  BY <2>1 DEF IsFromMe, Own
    <2>3. AddToWalletIfInvolvingMe(w, t, b, FALSE) = WalletUpdateSpent(w, t, FALSE)
      BY <1>3, <2>1, <2>2 DEF AddToWalletIfInvolvingMe
    <2> QED  BY <1>1, <2>1, <2>3, Untouched
  <1> QED  BY <1>2, <1>3

\* DisableTransaction takes the marks of the coins a coinstake spent, no others.
Disables(w, t, v) ==
    /\ v \in Wallets /\ v.known = w.known /\ v.hashBlock = w.hashBlock
    /\ v.vfSpent = IF t \in CoinStake THEN w.vfSpent \ (Vin[t] \cap w.known) ELSE w.vfSpent

LEMMA Disabled ==
    ASSUME NEW w \in Wallets, NEW t \in Tx
    PROVE  Disables(w, t, DisableTransaction(w, t))
  BY DEF Disables, DisableTransaction, Own, Wallets

(***************************************************************************)
(* Chains.                                                                 *)
(***************************************************************************)
LEMMA PathFacts ==
    ASSUME NEW b \in Block
    PROVE  /\ Len(Path[b]) \in Nat \ {0} /\ DOMAIN Path[b] = 1 .. Len(Path[b])
           /\ Path[b][1] = Genesis /\ Path[b][Len(Path[b])] = b
           /\ \A i \in 1 .. Len(Path[b]) :
                 /\ Path[b][i] \in Block
                 /\ Path[Path[b][i]] = SubSeq(Path[b], 1, i)
  <1>1. Path[b] \in Seq(Block) /\ Path[b] # << >>  BY ShapeAssumption, PathAssumption
  <1>2. Len(Path[b]) \in Nat \ {0} /\ DOMAIN Path[b] = 1 .. Len(Path[b])  BY <1>1
  <1>3. Path[b][1] = Genesis /\ Path[b][Len(Path[b])] = b  BY PathAssumption DEF Last
  <1>4. \A i \in 1 .. Len(Path[b]) : Path[b][i] \in Block  BY <1>1
  <1>5. \A i \in 1 .. Len(Path[b]) : Path[Path[b][i]] = SubSeq(Path[b], 1, i)
    BY <1>2, PathAssumption
  <1> QED  BY <1>2, <1>3, <1>4, <1>5

\* The chain to a block of the chain to b is a beginning of it.
LEMMA PathTo ==
    ASSUME NEW b \in Block, NEW i \in 1 .. Len(Path[b])
    PROVE  /\ Path[b][i] \in Block /\ Len(Path[Path[b][i]]) = i
           /\ \A k \in 1 .. i : Path[Path[b][i]][k] = Path[b][k]
           /\ Range(Path[Path[b][i]]) = {Path[b][k] : k \in 1 .. i}
  <1> DEFINE p == Path[b]
  <1>1. p \in Seq(Block) /\ p[i] \in Block /\ Path[p[i]] = SubSeq(p, 1, i)
    BY PathFacts, ShapeAssumption
  <1>2. Len(p) \in Nat /\ DOMAIN p = 1 .. Len(p)  BY PathFacts
  <1> HIDE DEF p
  <1>3. i \in 1 .. Len(p)  BY DEF p
  <1>4. Len(SubSeq(p, 1, i)) = i /\ DOMAIN SubSeq(p, 1, i) = 1 .. i
        /\ \A k \in 1 .. i : SubSeq(p, 1, i)[k] = p[k]
    BY <1>1, <1>2, <1>3
  <1>5. Range(SubSeq(p, 1, i)) = {p[k] : k \in 1 .. i}  BY <1>4 DEF Range
  <1> QED  BY <1>1, <1>4, <1>5 DEF p

LEMMA TxsOfType ==
    ASSUME NEW b \in Block
    PROVE  TxsOf(b) \subseteq Tx /\ Range(BlockTx[b]) \subseteq Tx
           /\ Range(Path[b]) = {Path[b][k] : k \in 1 .. Len(Path[b])}
           /\ Range(Path[b]) \subseteq Block /\ b \in Range(Path[b])
           /\ Len(BlockTx[b]) \in Nat /\ DOMAIN BlockTx[b] = 1 .. Len(BlockTx[b])
           /\ Range(BlockTx[b]) = {BlockTx[b][k] : k \in 1 .. Len(BlockTx[b])}
  <1>1. \A c \in Block : BlockTx[c] \in Seq(Tx)  BY ShapeAssumption
  <1>2. \A c \in Block : Range(BlockTx[c]) \subseteq Tx  BY <1>1 DEF Range
  <1>3. Range(Path[b]) = {Path[b][k] : k \in 1 .. Len(Path[b])}  BY PathFacts DEF Range
  <1>4. Range(Path[b]) \subseteq Block  BY <1>3, PathFacts
  <1>5. b \in Range(Path[b])  BY <1>3, PathFacts
  <1>6. Len(BlockTx[b]) \in Nat /\ DOMAIN BlockTx[b] = 1 .. Len(BlockTx[b])  BY <1>1
  <1>7. Range(BlockTx[b]) = {BlockTx[b][k] : k \in 1 .. Len(BlockTx[b])}  BY <1>6 DEF Range
  <1> QED  BY <1>2, <1>3, <1>4, <1>5, <1>6, <1>7 DEF TxsOf

\* The chain to b is the one to its parent, and b.
LEMMA ParentFacts ==
    ASSUME NEW b \in Block, b # Genesis
    PROVE  /\ Parent(b) \in Block
           /\ Len(Path[b]) - 1 \in 1 .. Len(Path[b])
           /\ Len(Path[Parent(b)]) = Len(Path[b]) - 1
           /\ Range(Path[b]) = Range(Path[Parent(b)]) \cup {b}
           /\ TxsOf(b) = TxsOf(Parent(b)) \cup Range(BlockTx[b])
  <1>1. Len(Path[b]) \in Nat \ {0} /\ Len(Path[b]) # 1  BY PathFacts
  <1>2. Len(Path[b]) - 1 \in 1 .. Len(Path[b])
    <2> DEFINE n == Len(Path[b])
    <2>1. n \in Nat \ {0} /\ n # 1  BY <1>1
    <2> HIDE DEF n
    <2>2. n - 1 \in 1 .. n  BY <2>1
    <2> QED  BY <2>2 DEF n
  <1>3. /\ Parent(b) \in Block /\ Len(Path[Parent(b)]) = Len(Path[b]) - 1
        /\ Range(Path[Parent(b)]) = {Path[b][k] : k \in 1 .. Len(Path[b]) - 1}
    BY <1>2, PathTo DEF Parent
  <1>4. Range(Path[b]) = {Path[b][k] : k \in 1 .. Len(Path[b])}  BY TxsOfType
  <1>5. 1 .. Len(Path[b]) = (1 .. Len(Path[b]) - 1) \cup {Len(Path[b])}  BY <1>1
  <1>6. Range(Path[b]) = Range(Path[Parent(b)]) \cup {b}
    <2>1. Path[b][Len(Path[b])] = b  BY PathFacts
    <2> QED  BY <1>3, <1>4, <1>5, <2>1, Zenon
  <1>7. TxsOf(b) = TxsOf(Parent(b)) \cup Range(BlockTx[b])  BY <1>6 DEF TxsOf
  <1> QED  BY <1>2, <1>3, <1>6, <1>7

LEMMA ChainWithin ==
    ASSUME NEW b \in Block, NEW c \in Range(Path[b])
    PROVE  c \in Block /\ Range(Path[c]) \subseteq Range(Path[b]) /\ TxsOf(c) \subseteq TxsOf(b)
  <1>1. PICK i \in 1 .. Len(Path[b]) : c = Path[b][i]  BY TxsOfType
  <1>2. c \in Block /\ Range(Path[c]) = {Path[b][k] : k \in 1 .. i}  BY <1>1, PathTo
  <1>3. 1 .. i \subseteq 1 .. Len(Path[b])  BY PathFacts
  <1>4. Range(Path[c]) \subseteq Range(Path[b])  BY <1>2, <1>3, TxsOfType
  <1> QED  BY <1>2, <1>4 DEF TxsOf

LEMMA BeforeFacts ==
    ASSUME NEW b \in Block, b # Genesis
    PROVE  /\ Before(b, 1) = TxsOf(Parent(b))
           /\ Before(b, Len(BlockTx[b]) + 1) = TxsOf(b)
           /\ \A i \in 1 .. Len(BlockTx[b]) : Before(b, i + 1) = Before(b, i) \cup {BlockTx[b][i]}
           /\ \A i \in 1 .. Len(BlockTx[b]) + 1 :
                 TxsOf(Parent(b)) \subseteq Before(b, i) /\ Before(b, i) \subseteq TxsOf(b)
  <1>1. Len(BlockTx[b]) \in Nat  BY TxsOfType
  <1>2. 1 .. 1 - 1 = {} /\ 1 .. Len(BlockTx[b]) + 1 - 1 = 1 .. Len(BlockTx[b])  BY <1>1
  <1>3. \A i \in 1 .. Len(BlockTx[b]) : 1 .. i + 1 - 1 = (1 .. i - 1) \cup {i}  BY <1>1
  <1>4. \A i \in 1 .. Len(BlockTx[b]) + 1 : 1 .. i - 1 \subseteq 1 .. Len(BlockTx[b])  BY <1>1
  <1>5. Before(b, 1) = TxsOf(Parent(b))  BY <1>2 DEF Before
  <1>6. Before(b, Len(BlockTx[b]) + 1) = TxsOf(b)
    <2>1. Before(b, Len(BlockTx[b]) + 1)
             = TxsOf(Parent(b)) \cup {BlockTx[b][k] : k \in 1 .. Len(BlockTx[b])}
      BY <1>2 DEF Before
    <2> QED  BY <2>1, TxsOfType, ParentFacts
  <1>7. ASSUME NEW i \in 1 .. Len(BlockTx[b])
        PROVE  Before(b, i + 1) = Before(b, i) \cup {BlockTx[b][i]}
    <2>1. {BlockTx[b][k] : k \in 1 .. i + 1 - 1}
             = {BlockTx[b][k] : k \in 1 .. i - 1} \cup {BlockTx[b][i]}
      BY <1>3
    <2> QED  BY <2>1 DEF Before
  <1>8. ASSUME NEW i \in 1 .. Len(BlockTx[b]) + 1
        PROVE  TxsOf(Parent(b)) \subseteq Before(b, i) /\ Before(b, i) \subseteq TxsOf(b)
    <2>1. {BlockTx[b][k] : k \in 1 .. i - 1} \subseteq Range(BlockTx[b])  BY <1>4, TxsOfType
    <2> QED  BY <2>1, ParentFacts DEF Before
  <1> QED  BY <1>5, <1>6, <1>7, <1>8

\* What the chain spends is in the chain, also in the middle of a block.
LEMMA SpentIsThere ==
    ASSUME NEW b \in Block
    PROVE  Spends(TxsOf(b)) \subseteq TxsOf(b)
  <1>1. ASSUME NEW c \in Range(Path[b]), NEW t \in Range(BlockTx[c])
        PROVE  Vin[t] \subseteq TxsOf(b)
    <2>1. c \in Block /\ TxsOf(c) \subseteq TxsOf(b)  BY ChainWithin
    <2>2. PICK i \in 1 .. Len(BlockTx[c]) : t = BlockTx[c][i]  BY <2>1, TxsOfType
    <2>3. c # Genesis  BY <2>2, LedgerAssumption
    <2>4. i \in DOMAIN BlockTx[c]  BY <2>1, TxsOfType
    <2>5. Vin[t] \subseteq Before(c, i)  BY <2>1, <2>2, <2>3, <2>4, LedgerAssumption
    <2>6. i \in 1 .. Len(BlockTx[c]) + 1  BY <2>1, TxsOfType
    <2>7. Before(c, i) \subseteq TxsOf(c)  BY <2>1, <2>3, <2>6, BeforeFacts
    <2> QED  BY <2>1, <2>5, <2>7
  <1> QED  BY <1>1 DEF Spends, TxsOf

\* The rules for the i-th transaction of b.
LEMMA InBlock ==
    ASSUME NEW b \in Block, b # Genesis, NEW i \in 1 .. Len(BlockTx[b])
    PROVE  /\ BlockTx[b][i] \in Tx /\ BlockTx[b][i] \in Range(BlockTx[b])
           /\ Before(b, i) \subseteq Tx
           /\ Spends(Before(b, i)) \subseteq Before(b, i)
           /\ BlockTx[b][i] \notin Before(b, i)
           /\ Vin[BlockTx[b][i]] \subseteq Before(b, i)
           /\ Vin[BlockTx[b][i]] \cap Spends(Before(b, i)) = {}
  <1>1. Len(BlockTx[b]) \in Nat /\ DOMAIN BlockTx[b] = 1 .. Len(BlockTx[b])
        /\ Range(BlockTx[b]) = {BlockTx[b][k] : k \in 1 .. Len(BlockTx[b])}
        /\ Range(BlockTx[b]) \subseteq Tx /\ TxsOf(b) \subseteq Tx
    BY TxsOfType
  <1>2. /\ BlockTx[b][i] \notin Before(b, i)
        /\ Vin[BlockTx[b][i]] \subseteq Before(b, i)
        /\ Vin[BlockTx[b][i]] \cap Spends(Before(b, i)) = {}
    BY <1>1, LedgerAssumption
  <1>3. Before(b, i) \subseteq Tx
    <2>1. i \in 1 .. Len(BlockTx[b]) + 1  BY <1>1
    <2> QED  BY <1>1, <2>1, BeforeFacts
  <1>4. Spends(Before(b, i)) \subseteq Before(b, i)
    <2>1. ASSUME NEW t \in TxsOf(Parent(b)) PROVE Vin[t] \subseteq Before(b, i)
      <3>1. Parent(b) \in Block  BY ParentFacts
      <3>2. Vin[t] \subseteq TxsOf(Parent(b))  BY <3>1, SpentIsThere DEF Spends
      <3> QED  BY <3>2 DEF Before
    <2>2. ASSUME NEW k \in 1 .. i - 1 PROVE Vin[BlockTx[b][k]] \subseteq Before(b, i)
      <3>1. k \in DOMAIN BlockTx[b] /\ 1 .. k - 1 \subseteq 1 .. i - 1  BY <1>1
      <3>2. Vin[BlockTx[b][k]] \subseteq Before(b, k)  BY <3>1, LedgerAssumption
      <3>3. Before(b, k) \subseteq Before(b, i)  BY <3>1 DEF Before
      <3> QED  BY <3>2, <3>3
    <2> QED  BY <2>1, <2>2 DEF Spends, Before
  <1> QED  BY <1>1, <1>2, <1>3, <1>4

(***************************************************************************)
(* Through a block.                                                        *)
(***************************************************************************)
LEMMA TellType ==
    ASSUME NEW w \in Wallets, NEW t \in Tx, NEW b \in Block \cup {NoBlock}, NEW fUpdate
    PROVE  AddToWalletIfInvolvingMe(w, t, b, fUpdate) \in Wallets
  <1> DEFINE none == [p \in {} |-> NoBlock]
  <1>1. none \in Copies  BY NoCopies
  <1>2. \/ AddToWalletIfInvolvingMe(w, t, b, fUpdate) = w
        \/ AddToWalletIfInvolvingMe(w, t, b, fUpdate) = AddToWallet(w, t, b, none)
        \/ AddToWalletIfInvolvingMe(w, t, b, fUpdate) = WalletUpdateSpent(w, t, FALSE)
    BY DEF AddToWalletIfInvolvingMe
  <1> HIDE DEF none
  <1>3. AddToWallet(w, t, b, none) \in Wallets  BY <1>1, Added DEF Adds
  <1>4. WalletUpdateSpent(w, t, FALSE) \in Wallets
    BY VinType DEF WalletUpdateSpent, Own, Wallets
  <1> QED  BY <1>2, <1>3, <1>4

\* The wallets between the transactions of a block.
ToldSteps(f, w, b, fUpdate) ==
    /\ f[0] = w
    /\ \A i \in 1 .. Len(BlockTx[b]) :
          f[i] = AddToWalletIfInvolvingMe(f[i - 1], BlockTx[b][i], b, fUpdate)
    /\ Told(w, b, fUpdate) = f[Len(BlockTx[b])]
    /\ f \in [0 .. Len(BlockTx[b]) -> Wallets]

LEMMA ToldTrace ==
    ASSUME NEW w \in Wallets, NEW b \in Block, NEW fUpdate
    PROVE  \E f : ToldSteps(f, w, b, fUpdate)
  <1> DEFINE n == Len(BlockTx[b])
             op(v, i) == AddToWalletIfInvolvingMe(v, BlockTx[b][i], b, fUpdate)
             Rec(f) == f = [i \in 0 .. n |-> IF i = 0 THEN w ELSE op(f[i - 1], i)]
             step == [i \in 1 .. n |-> [v \in Wallets |-> op(v, i)]]
             g == CHOOSE f : Rec(f)
  <1>1. n \in Nat /\ \A i \in 1 .. n : BlockTx[b][i] \in Tx  BY TxsOfType
  <1>2. Told(w, b, fUpdate) = g[n]  BY DEF Told, InOrder
  <1>3. \A v \in Wallets : \A i \in 1 .. n : op(v, i) \in Wallets  BY <1>1, TellType
  <1> HIDE DEF n, op
  <1>4. step \in [1 .. n -> [Wallets -> Wallets]]  BY <1>3
  <1>5. PICK f : Iterates(f, Wallets, n, w, step)
    <2> HIDE DEF step
    <2>1. w \in Wallets /\ n \in Nat  BY <1>1
    <2> QED  BY <2>1, <1>4, Iterated
  <1>6. \A i \in 1 .. n : f[i] = op(f[i - 1], i)
    <2> TAKE i \in 1 .. n
    <2>1. i - 1 \in 0 .. n  BY <1>1
    <2>2. f[i - 1] \in Wallets  BY <1>5, <2>1 DEF Iterates
    <2> QED  BY <1>5, <2>2 DEF Iterates
  <1>7. Rec(f)
    <2>1. \A i \in 0 .. n : f[i] = IF i = 0 THEN w ELSE op(f[i - 1], i)
      BY <1>1, <1>5, <1>6 DEF Iterates
    <2> QED  BY <1>5, <2>1 DEF Iterates
  <1>8. Rec(g)  BY <1>7, Zenon
  <1> HIDE DEF g
  <1>9. g[0] = w /\ \A i \in 1 .. n : g[i] = op(g[i - 1], i)
    <2>1. \A i \in 0 .. n : g[i] = IF i = 0 THEN w ELSE op(g[i - 1], i)  BY <1>8
    <2> QED  BY <1>1, <2>1
  <1>10. g \in [0 .. n -> Wallets]
    <2> DEFINE T == {i \in 0 .. n : g[i] \in Wallets}
    <2>1. 0 \in T  BY <1>1, <1>9
    <2>2. \A i \in 1 .. n : i - 1 \in T => i \in T  BY <1>1, <1>3, <1>9
    <2>3. \A i \in 0 .. n : i \in T
      <3> HIDE DEF T
      <3> QED  BY <1>1, <2>1, <2>2, UpTo
    <2> QED  BY <1>8, <2>3
  <1>11. ToldSteps(g, w, b, fUpdate)  BY <1>2, <1>9, <1>10 DEF ToldSteps, n, op
  <1> QED  BY <1>11

DisconnectedSteps(f, w, b) ==
    /\ f[0] = w
    /\ \A i \in 1 .. Len(BlockTx[b]) : f[i] = DisableTransaction(f[i - 1], BlockTx[b][i])
    /\ Disconnected(w, b) = f[Len(BlockTx[b])]
    /\ f \in [0 .. Len(BlockTx[b]) -> Wallets]

LEMMA DisconnectedTrace ==
    ASSUME NEW w \in Wallets, NEW b \in Block
    PROVE  \E f : DisconnectedSteps(f, w, b)
  <1> DEFINE n == Len(BlockTx[b])
             op(v, i) == DisableTransaction(v, BlockTx[b][i])
             Rec(f) == f = [i \in 0 .. n |-> IF i = 0 THEN w ELSE op(f[i - 1], i)]
             step == [i \in 1 .. n |-> [v \in Wallets |-> op(v, i)]]
             g == CHOOSE f : Rec(f)
  <1>1. n \in Nat /\ \A i \in 1 .. n : BlockTx[b][i] \in Tx  BY TxsOfType
  <1>2. Disconnected(w, b) = g[n]  BY DEF Disconnected, InOrder
  <1>3. \A v \in Wallets : \A i \in 1 .. n : op(v, i) \in Wallets  BY <1>1, Disabled DEF Disables
  <1> HIDE DEF n, op
  <1>4. step \in [1 .. n -> [Wallets -> Wallets]]  BY <1>3
  <1>5. PICK f : Iterates(f, Wallets, n, w, step)
    <2> HIDE DEF step
    <2>1. w \in Wallets /\ n \in Nat  BY <1>1
    <2> QED  BY <2>1, <1>4, Iterated
  <1>6. \A i \in 1 .. n : f[i] = op(f[i - 1], i)
    <2> TAKE i \in 1 .. n
    <2>1. i - 1 \in 0 .. n  BY <1>1
    <2>2. f[i - 1] \in Wallets  BY <1>5, <2>1 DEF Iterates
    <2> QED  BY <1>5, <2>2 DEF Iterates
  <1>7. Rec(f)
    <2>1. \A i \in 0 .. n : f[i] = IF i = 0 THEN w ELSE op(f[i - 1], i)
      BY <1>1, <1>5, <1>6 DEF Iterates
    <2> QED  BY <1>5, <2>1 DEF Iterates
  <1>8. Rec(g)  BY <1>7, Zenon
  <1> HIDE DEF g
  <1>9. g[0] = w /\ \A i \in 1 .. n : g[i] = op(g[i - 1], i)
    <2>1. \A i \in 0 .. n : g[i] = IF i = 0 THEN w ELSE op(g[i - 1], i)  BY <1>8
    <2> QED  BY <1>1, <2>1
  <1>10. g \in [0 .. n -> Wallets]
    <2> DEFINE T == {i \in 0 .. n : g[i] \in Wallets}
    <2>1. 0 \in T  BY <1>1, <1>9
    <2>2. \A i \in 1 .. n : i - 1 \in T => i \in T  BY <1>1, <1>3, <1>9
    <2>3. \A i \in 0 .. n : i \in T
      <3> HIDE DEF T
      <3> QED  BY <1>1, <2>1, <2>2, UpTo
    <2> QED  BY <1>8, <2>3
  <1>11. DisconnectedSteps(g, w, b)  BY <1>2, <1>9, <1>10 DEF DisconnectedSteps, n, op
  <1> QED  BY <1>11

\* A wallet that knows the chain before a block knows the block once told of it.
LEMMA ToldSound ==
    ASSUME NEW b \in Block, NEW D \in SUBSET Tx, NEW w, Sound(w, D),
           b # Genesis => TxsOf(Parent(b)) \subseteq D
    PROVE  /\ Sound(Told(w, b, TRUE), D \cup Range(BlockTx[b]))
           /\ w.known \subseteq Told(w, b, TRUE).known
  <1> DEFINE n == Len(BlockTx[b])
             E(i) == D \cup {BlockTx[b][k] : k \in 1 .. i}
  <1>1. w \in Wallets  BY DEF Sound
  <1>2. PICK f : ToldSteps(f, w, b, TRUE)  BY <1>1, ToldTrace
  <1>3. n \in Nat /\ Range(BlockTx[b]) = {BlockTx[b][k] : k \in 1 .. n}
        /\ Range(BlockTx[b]) \subseteq Tx
    BY TxsOfType
  <1> DEFINE T == {i \in 0 .. n : Sound(f[i], E(i)) /\ w.known \subseteq f[i].known}
  <1>4. 0 \in T
    <2>1. E(0) = D  OBVIOUS
    <2> HIDE DEF E, n
    <2>2. 0 \in 0 .. n  BY <1>3
    <2> QED  BY <1>2, <2>1, <2>2 DEF ToldSteps
  <1>5. ASSUME NEW i \in 1 .. n, i - 1 \in T PROVE i \in T
    <2> DEFINE t == BlockTx[b][i]
               u == f[i - 1]
               v == f[i]
    <2>1. b # Genesis  BY <1>3, LedgerAssumption
    <2>2. /\ t \in Tx /\ t \in Range(BlockTx[b]) /\ Vin[t] \subseteq Before(b, i)
      BY <2>1, InBlock
    <2>3. Before(b, i) \subseteq E(i - 1)  BY <2>1 DEF Before
    <2>4. E(i - 1) \in SUBSET Tx
      <3>1. 1 .. i - 1 \subseteq 1 .. n  BY <1>3
      <3> QED  BY <1>3, <3>1
    <2>5. E(i) = E(i - 1) \cup {t}
      <3>1. 1 .. i = (1 .. i - 1) \cup {i}  BY <1>3
      <3> QED  BY <3>1
    <2>6. Sound(u, E(i - 1)) /\ w.known \subseteq u.known  BY <1>5
    <2>7. v = AddToWalletIfInvolvingMe(u, t, b, TRUE)  BY <1>2 DEF ToldSteps
    <2> HIDE DEF u, v, t, E, n
    <2>8. Vin[t] \subseteq E(i - 1)  BY <2>2, <2>3
    <2>9. Sound(v, E(i - 1) \cup {t}) /\ u.known \subseteq v.known
      BY <2>2, <2>4, <2>6, <2>7, <2>8, TellSound
    <2>10. i \in 0 .. n  BY <1>3
    <2> QED  BY <2>5, <2>6, <2>9, <2>10 DEF v
  <1>6. n \in T
    <2> HIDE DEF T
    <2>1. \A i \in 0 .. n : i \in T  BY <1>3, <1>4, <1>5, UpTo
    <2> QED  BY <1>3, <2>1
  <1>7. E(n) = D \cup Range(BlockTx[b])  BY <1>3
  <1> HIDE DEF E
  <1> QED  BY <1>2, <1>6, <1>7 DEF ToldSteps

\* What the wallet says of the chain to the parent is right, so it is of the chain
\* to the block.
LEMMA ToldRight ==
    ASSUME NEW b \in Block, b # Genesis, NEW w, Sound(w, TxsOf(Parent(b))),
           Right(w, TxsOf(Parent(b)), Range(Path[Parent(b)]))
    PROVE  Right(Told(w, b, TRUE), TxsOf(b), Range(Path[b]))
  <1> DEFINE n == Len(BlockTx[b])
  <1>1. w \in Wallets  BY DEF Sound
  <1>2. PICK f : ToldSteps(f, w, b, TRUE)  BY <1>1, ToldTrace
  <1>3. n \in Nat  BY TxsOfType
  <1> DEFINE T == {i \in 0 .. n : /\ Sound(f[i], Before(b, i + 1))
                                  /\ Right(f[i], Before(b, i + 1), Range(Path[b]))}
  <1>4. 0 \in T
    <2>1. Before(b, 0 + 1) = TxsOf(Parent(b))  BY BeforeFacts
    <2>2. Range(Path[Parent(b)]) \subseteq Range(Path[b])  BY ParentFacts
    <2>3. f[0] = w  BY <1>2 DEF ToldSteps
    <2>4. Right(w, TxsOf(Parent(b)), Range(Path[b]))  BY <2>2 DEF Right, Placed
    <2>5. 0 \in 0 .. n  BY <1>3
    <2> QED  BY <2>1, <2>3, <2>4, <2>5
  <1>5. ASSUME NEW i \in 1 .. n, i - 1 \in T PROVE i \in T
    <2> DEFINE t == BlockTx[b][i]
               u == f[i - 1]
               v == f[i]
               D == Before(b, i)
    <2>1. /\ t \in Tx /\ t \in Range(BlockTx[b]) /\ D \in SUBSET Tx
          /\ Spends(D) \subseteq D /\ t \notin D /\ Vin[t] \subseteq D
      BY InBlock
    <2>2. Before(b, i + 1) = D \cup {t}  BY BeforeFacts
    <2>3. i - 1 + 1 = i /\ i \in 0 .. n  BY <1>3
    <2>4. Sound(u, D) /\ Right(u, D, Range(Path[b]))  BY <1>5, <2>3
    <2>5. v = AddToWalletIfInvolvingMe(u, t, b, TRUE)  BY <1>2 DEF ToldSteps
    <2>6. b \in Range(Path[b])  BY TxsOfType
    <2> HIDE DEF u, v, t, D
    <2>7. Sound(v, D \cup {t})  BY <2>1, <2>4, <2>5, TellSound
    <2>8. Right(v, D \cup {t}, Range(Path[b]))  BY <2>1, <2>4, <2>5, <2>6, TellRight
    <2> QED  BY <2>2, <2>3, <2>7, <2>8 DEF v
  <1>6. n \in T
    <2> HIDE DEF T
    <2>1. \A i \in 0 .. n : i \in T  BY <1>3, <1>4, <1>5, UpTo
    <2> QED  BY <1>3, <2>1
  <1>7. Before(b, n + 1) = TxsOf(b)  BY BeforeFacts
  <1> QED  BY <1>2, <1>6, <1>7 DEF ToldSteps

LEMMA ToldAgain ==
    ASSUME NEW b \in Block, NEW D \in SUBSET Tx, NEW w, Sound(w, D), Range(BlockTx[b]) \subseteq D
    PROVE  Told(w, b, FALSE) = w
  <1> DEFINE n == Len(BlockTx[b])
  <1>1. w \in Wallets  BY DEF Sound
  <1>2. PICK f : ToldSteps(f, w, b, FALSE)  BY <1>1, ToldTrace
  <1>3. n \in Nat /\ \A i \in 1 .. n : BlockTx[b][i] \in D  BY TxsOfType
  <1> DEFINE T == {i \in 0 .. n : f[i] = w}
  <1>4. 0 \in T  BY <1>2, <1>3 DEF ToldSteps
  <1>5. ASSUME NEW i \in 1 .. n, i - 1 \in T PROVE i \in T
    <2>1. f[i] = AddToWalletIfInvolvingMe(w, BlockTx[b][i], b, FALSE)
      BY <1>2, <1>5 DEF ToldSteps
    <2>2. f[i] = w  BY <1>3, <2>1, TellAgain
    <2> QED  BY <1>3, <2>2
  <1>6. n \in T
    <2> HIDE DEF T
    <2>1. \A i \in 0 .. n : i \in T  BY <1>3, <1>4, <1>5, UpTo
    <2> QED  BY <1>3, <2>1
  <1> QED  BY <1>2, <1>6 DEF ToldSteps

\* A wallet that knows more than D knows D.
LEMMA SoundWithin ==
    ASSUME NEW w, NEW D, NEW E, Sound(w, D), E \subseteq D
    PROVE  Sound(w, E)
  BY DEF Sound

LEMMA DisconnectedSound ==
    ASSUME NEW b \in Block, NEW D, NEW w, Sound(w, D)
    PROVE  /\ Sound(Disconnected(w, b), D)
           /\ Disconnected(w, b).known = w.known
  <1> DEFINE n == Len(BlockTx[b])
  <1>1. w \in Wallets  BY DEF Sound
  <1>2. PICK f : DisconnectedSteps(f, w, b)  BY <1>1, DisconnectedTrace
  <1>3. n \in Nat /\ \A i \in 1 .. n : BlockTx[b][i] \in Tx  BY TxsOfType
  <1> DEFINE T == {i \in 0 .. n : Sound(f[i], D) /\ f[i].known = w.known}
  <1>4. 0 \in T  BY <1>2, <1>3 DEF DisconnectedSteps
  <1>5. ASSUME NEW i \in 1 .. n, i - 1 \in T PROVE i \in T
    <2> DEFINE t == BlockTx[b][i]
               u == f[i - 1]
               v == f[i]
    <2>1. v = DisableTransaction(u, t)  BY <1>2 DEF DisconnectedSteps
    <2>2. Sound(u, D) /\ u.known = w.known  BY <1>5
    <2>3. t \in Tx /\ u \in Wallets  BY <1>3, <2>2 DEF Sound
    <2> HIDE DEF u, v, t
    <2>4. /\ v \in Wallets /\ v.known = u.known /\ v.hashBlock = u.hashBlock
          /\ v.vfSpent \subseteq u.vfSpent
      <3>1. Disables(u, t, v)  BY <2>1, <2>3, Disabled
      <3> QED  BY <3>1 DEF Disables
    <2>5. Sound(v, D)  BY <2>2, <2>4 DEF Sound, Recorded
    <2>6. i \in 0 .. n  BY <1>3
    <2> QED  BY <2>2, <2>4, <2>5, <2>6 DEF v
  <1>6. n \in T
    <2> HIDE DEF T
    <2>1. \A i \in 0 .. n : i \in T  BY <1>3, <1>4, <1>5, UpTo
    <2> QED  BY <1>3, <2>1
  <1> QED  BY <1>2, <1>6 DEF DisconnectedSteps

\* A block taken off the end of the chain: only its coinstakes lose their marks, and
\* no transaction below spends what they spent.
LEMMA DisconnectedRight ==
    ASSUME NEW b \in Block, b # Genesis, NEW w, Sound(w, TxsOf(b)),
           Right(w, TxsOf(b), Range(Path[b]))
    PROVE  Right(Disconnected(w, b), TxsOf(Parent(b)), Range(Path[Parent(b)]))
  <1> DEFINE n == Len(BlockTx[b])
             D == TxsOf(Parent(b))
             E(i) == D \cup {BlockTx[b][k] : k \in i + 1 .. n}
  <1>1. w \in Wallets  BY DEF Sound
  <1>2. PICK f : DisconnectedSteps(f, w, b)  BY <1>1, DisconnectedTrace
  <1>3. n \in Nat /\ \A i \in 1 .. n : BlockTx[b][i] \in Tx  BY TxsOfType
  <1>4. TxsOf(b) = D \cup Range(BlockTx[b]) /\ Range(BlockTx[b]) = {BlockTx[b][k] : k \in 1 .. n}
    BY ParentFacts, TxsOfType
  <1> DEFINE T == {i \in 0 .. n : /\ f[i].known = w.known /\ f[i].hashBlock = w.hashBlock
                                  /\ Marked(f[i], D) /\ Accounted(f[i], E(i))}
  <1>5. 0 \in T
    <2>1. E(0) = TxsOf(b)  BY <1>4
    <2>2. Spends(D) \subseteq Spends(TxsOf(b))  BY <1>4 DEF Spends
    <2>3. f[0] = w  BY <1>2 DEF DisconnectedSteps
    <2> HIDE DEF E, D
    <2>4. Marked(w, D) /\ Accounted(w, E(0))  BY <2>1, <2>2 DEF Marked, Right
    <2>5. 0 \in 0 .. n  BY <1>3
    <2> QED  BY <2>3, <2>4, <2>5
  <1>6. ASSUME NEW i \in 1 .. n, i - 1 \in T PROVE i \in T
    <2> DEFINE t == BlockTx[b][i]
               u == f[i - 1]
               v == f[i]
    <2>1. v = DisableTransaction(u, t)  BY <1>2 DEF DisconnectedSteps
    <2>2. /\ u.known = w.known /\ u.hashBlock = w.hashBlock
          /\ Marked(u, D) /\ Accounted(u, E(i - 1))
      BY <1>6
    <2>3. t \in Tx /\ u \in Wallets
      <3>1. i - 1 \in 0 .. n  BY <1>3
      <3> QED  BY <1>2, <1>3, <3>1 DEF DisconnectedSteps
    <2>4. E(i - 1) = E(i) \cup {t}
      <3>1. i - 1 + 1 .. n = (i + 1 .. n) \cup {i}  BY <1>3
      <3> QED  BY <3>1
    <2>5. Vin[t] \subseteq Before(b, i) /\ Vin[t] \cap Spends(Before(b, i)) = {}  BY InBlock
    <2>6. D \subseteq Before(b, i) /\ Before(b, i) \subseteq TxsOf(b)
      <3>1. i \in 1 .. n + 1  BY <1>3
      <3> QED  BY <3>1, BeforeFacts
    <2>7. t \in TxsOf(b)  BY <1>4
    <2> HIDE DEF t, u, v, D, E
    <2>8. Disables(u, t, v)  BY <2>1, <2>3, Disabled
    <2>9. v.known = w.known /\ v.hashBlock = w.hashBlock  BY <2>2, <2>8 DEF Disables
    <2>10. Vin[t] \subseteq w.known  BY <2>3, <2>5, <2>6, VinType DEF Sound, Involving
    <2>11. Vin[t] \cap Spends(D) = {}  BY <2>5, <2>6 DEF Spends
    <2>12. Marked(v, D)  BY <2>2, <2>8, <2>11 DEF Marked, Disables
    <2>13. ASSUME NEW c \in v.vfSpent PROVE c \in Spends((v.known \ CoinStake) \cup E(i))
      <3>1. c \in u.vfSpent  BY <2>8 DEF Disables
      <3>2. PICK x \in (w.known \ CoinStake) \cup (E(i) \cup {t}) : c \in Vin[x]
        BY <2>2, <2>4, <3>1, SpendsElement DEF Accounted
      <3>3. CASE x # t
        BY <2>9, <3>2, <3>3, SpendsElement
      <3>4. CASE x = t
        <4>1. t \notin CoinStake  BY <2>2, <2>8, <2>10, <3>2, <3>4 DEF Disables
        <4>2. t \in w.known  BY <2>3, <2>7, <3>2, <3>4 DEF Sound, Involving
        <4> QED  BY <2>9, <3>2, <3>4, <4>1, <4>2, SpendsElement
      <3> QED  BY <3>3, <3>4
    <2>14. Accounted(v, E(i))  BY <2>13 DEF Accounted
    <2>15. i \in 0 .. n  BY <1>3
    <2> QED  BY <2>9, <2>12, <2>14, <2>15 DEF v
  <1>7. n \in T
    <2> HIDE DEF T
    <2>1. \A i \in 0 .. n : i \in T  BY <1>3, <1>5, <1>6, UpTo
    <2> QED  BY <1>3, <2>1
  <1>8. E(n) = D
    <2>1. n + 1 .. n = {}  BY <1>3
    <2> QED  BY <2>1
  <1> DEFINE v == f[n]
  <1>9. v.known = w.known /\ v.hashBlock = w.hashBlock /\ Marked(v, D) /\ Accounted(v, D)
    BY <1>7, <1>8
  <1>10. Disconnected(w, b) = v  BY <1>2 DEF DisconnectedSteps
  <1> HIDE DEF v
  <1>11. ASSUME NEW t \in v.known \cap D PROVE v.hashBlock[t] \in Range(Path[Parent(b)])
    <2>1. t \in w.known \cap TxsOf(b)  BY <1>4, <1>9
    <2>2. w.hashBlock[t] \in Range(Path[b])  BY <2>1 DEF Right, Placed
    <2>3. ASSUME w.hashBlock[t] = b PROVE FALSE
      <3>1. t \in Range(BlockTx[b])
        BY <2>1, <2>3, ShapeAssumption, TxsOfType DEF Sound, Recorded
      <3>2. PICK i \in 1 .. n : t = BlockTx[b][i]  BY <1>4, <3>1
      <3>3. t \notin Before(b, i)  BY <3>2, InBlock
      <3>4. D \subseteq Before(b, i)  BY DEF Before
      <3> QED  BY <1>11, <3>3, <3>4
    <2> QED  BY <1>9, <2>2, <2>3, ParentFacts
  <1>12. Placed(v, D, Range(Path[Parent(b)]))  BY <1>11 DEF Placed
  <1> QED  BY <1>9, <1>10, <1>12 DEF Right

(***************************************************************************)
(* Through a branch.                                                       *)
(***************************************************************************)
LEMMA ToldType ==
    ASSUME NEW w \in Wallets, NEW b \in Block, NEW fUpdate
    PROVE  Told(w, b, fUpdate) \in Wallets
  <1>1. PICK f : ToldSteps(f, w, b, fUpdate)  BY ToldTrace
  <1>2. Len(BlockTx[b]) \in 0 .. Len(BlockTx[b])  BY TxsOfType
  <1> QED  BY <1>1, <1>2 DEF ToldSteps

LEMMA DisconnectedType ==
    ASSUME NEW w \in Wallets, NEW b \in Block
    PROVE  Disconnected(w, b) \in Wallets
  <1>1. PICK f : DisconnectedSteps(f, w, b)  BY DisconnectedTrace
  <1>2. Len(BlockTx[b]) \in 0 .. Len(BlockTx[b])  BY TxsOfType
  <1> QED  BY <1>1, <1>2 DEF DisconnectedSteps

ScannedSteps(f, w, s, fUpdate) ==
    /\ f[0] = w
    /\ \A i \in 1 .. Len(s) : f[i] = Told(f[i - 1], s[i], fUpdate)
    /\ Scanned(w, s, fUpdate) = f[Len(s)]
    /\ f \in [0 .. Len(s) -> Wallets]

LEMMA ScannedTrace ==
    ASSUME NEW w \in Wallets, NEW s \in Seq(Block), NEW fUpdate
    PROVE  \E f : ScannedSteps(f, w, s, fUpdate)
  <1> DEFINE n == Len(s)
             op(v, i) == Told(v, s[i], fUpdate)
             Rec(f) == f = [i \in 0 .. n |-> IF i = 0 THEN w ELSE op(f[i - 1], i)]
             step == [i \in 1 .. n |-> [v \in Wallets |-> op(v, i)]]
             g == CHOOSE f : Rec(f)
  <1>1. n \in Nat /\ \A i \in 1 .. n : s[i] \in Block  OBVIOUS
  <1>2. Scanned(w, s, fUpdate) = g[n]  BY DEF Scanned, InOrder
  <1>3. \A v \in Wallets : \A i \in 1 .. n : op(v, i) \in Wallets  BY <1>1, ToldType
  <1> HIDE DEF n, op
  <1>4. step \in [1 .. n -> [Wallets -> Wallets]]  BY <1>3
  <1>5. PICK f : Iterates(f, Wallets, n, w, step)
    <2> HIDE DEF step
    <2>1. w \in Wallets /\ n \in Nat  BY <1>1
    <2> QED  BY <2>1, <1>4, Iterated
  <1>6. \A i \in 1 .. n : f[i] = op(f[i - 1], i)
    <2> TAKE i \in 1 .. n
    <2>1. i - 1 \in 0 .. n  BY <1>1
    <2>2. f[i - 1] \in Wallets  BY <1>5, <2>1 DEF Iterates
    <2> QED  BY <1>5, <2>2 DEF Iterates
  <1>7. Rec(f)
    <2>1. \A i \in 0 .. n : f[i] = IF i = 0 THEN w ELSE op(f[i - 1], i)
      BY <1>1, <1>5, <1>6 DEF Iterates
    <2> QED  BY <1>5, <2>1 DEF Iterates
  <1>8. Rec(g)  BY <1>7, Zenon
  <1> HIDE DEF g
  <1>9. g[0] = w /\ \A i \in 1 .. n : g[i] = op(g[i - 1], i)
    <2>1. \A i \in 0 .. n : g[i] = IF i = 0 THEN w ELSE op(g[i - 1], i)  BY <1>8
    <2> QED  BY <1>1, <2>1
  <1>10. g \in [0 .. n -> Wallets]
    <2> DEFINE T == {i \in 0 .. n : g[i] \in Wallets}
    <2>1. 0 \in T  BY <1>1, <1>9
    <2>2. \A i \in 1 .. n : i - 1 \in T => i \in T  BY <1>1, <1>3, <1>9
    <2>3. \A i \in 0 .. n : i \in T
      <3> HIDE DEF T
      <3> QED  BY <1>1, <2>1, <2>2, UpTo
    <2> QED  BY <1>8, <2>3
  <1>11. ScannedSteps(g, w, s, fUpdate)  BY <1>2, <1>9, <1>10 DEF ScannedSteps, n, op
  <1> QED  BY <1>11

UnwoundSteps(f, w, s) ==
    /\ f[0] = w
    /\ \A i \in 1 .. Len(s) : f[i] = Disconnected(f[i - 1], s[i])
    /\ InOrder(Disconnected, w, s) = f[Len(s)]
    /\ f \in [0 .. Len(s) -> Wallets]

LEMMA UnwoundTrace ==
    ASSUME NEW w \in Wallets, NEW s \in Seq(Block)
    PROVE  \E f : UnwoundSteps(f, w, s)
  <1> DEFINE n == Len(s)
             op(v, i) == Disconnected(v, s[i])
             Rec(f) == f = [i \in 0 .. n |-> IF i = 0 THEN w ELSE op(f[i - 1], i)]
             step == [i \in 1 .. n |-> [v \in Wallets |-> op(v, i)]]
             g == CHOOSE f : Rec(f)
  <1>1. n \in Nat /\ \A i \in 1 .. n : s[i] \in Block  OBVIOUS
  <1>2. InOrder(Disconnected, w, s) = g[n]  BY DEF InOrder
  <1>3. \A v \in Wallets : \A i \in 1 .. n : op(v, i) \in Wallets  BY <1>1, DisconnectedType
  <1> HIDE DEF n, op
  <1>4. step \in [1 .. n -> [Wallets -> Wallets]]  BY <1>3
  <1>5. PICK f : Iterates(f, Wallets, n, w, step)
    <2> HIDE DEF step
    <2>1. w \in Wallets /\ n \in Nat  BY <1>1
    <2> QED  BY <2>1, <1>4, Iterated
  <1>6. \A i \in 1 .. n : f[i] = op(f[i - 1], i)
    <2> TAKE i \in 1 .. n
    <2>1. i - 1 \in 0 .. n  BY <1>1
    <2>2. f[i - 1] \in Wallets  BY <1>5, <2>1 DEF Iterates
    <2> QED  BY <1>5, <2>2 DEF Iterates
  <1>7. Rec(f)
    <2>1. \A i \in 0 .. n : f[i] = IF i = 0 THEN w ELSE op(f[i - 1], i)
      BY <1>1, <1>5, <1>6 DEF Iterates
    <2> QED  BY <1>5, <2>1 DEF Iterates
  <1>8. Rec(g)  BY <1>7, Zenon
  <1> HIDE DEF g
  <1>9. g[0] = w /\ \A i \in 1 .. n : g[i] = op(g[i - 1], i)
    <2>1. \A i \in 0 .. n : g[i] = IF i = 0 THEN w ELSE op(g[i - 1], i)  BY <1>8
    <2> QED  BY <1>1, <2>1
  <1>10. g \in [0 .. n -> Wallets]
    <2> DEFINE T == {i \in 0 .. n : g[i] \in Wallets}
    <2>1. 0 \in T  BY <1>1, <1>9
    <2>2. \A i \in 1 .. n : i - 1 \in T => i \in T  BY <1>1, <1>3, <1>9
    <2>3. \A i \in 0 .. n : i \in T
      <3> HIDE DEF T
      <3> QED  BY <1>1, <2>1, <2>2, UpTo
    <2> QED  BY <1>8, <2>3
  <1>11. UnwoundSteps(g, w, s)  BY <1>2, <1>9, <1>10 DEF UnwoundSteps, n, op
  <1> QED  BY <1>11

\* The blocks of a chain are each other's parents.
LEMMA Ascent ==
    ASSUME NEW b \in Block, NEW m \in 2 .. Len(Path[b])
    PROVE  /\ Path[b][m] \in Block /\ Path[b][m - 1] \in Block
           /\ Path[b][m] # Genesis /\ Parent(Path[b][m]) = Path[b][m - 1]
  <1> DEFINE n == Len(Path[b])
             c == Path[b][m]
  <1>1. n \in Nat /\ Path[b][1] = Genesis  BY PathFacts
  <1>2. m \in 1 .. n /\ m - 1 \in 1 .. n /\ m - 1 \in 1 .. m /\ 1 \in 1 .. n  BY <1>1
  <1>3. /\ c \in Block /\ Len(Path[c]) = m
        /\ \A k \in 1 .. m : Path[c][k] = Path[b][k]
    BY <1>2, PathTo
  <1>4. Path[b][m - 1] \in Block  BY <1>2, PathTo
  <1>5. Len(Path[Genesis]) = 1  BY <1>1, <1>2, PathTo
  <1> QED  BY <1>2, <1>3, <1>4, <1>5 DEF Parent

\* Where the chains to the tip and to b part.
LEMMA ForkFacts ==
    ASSUME tip \in Block, NEW b \in Block
    PROVE  /\ ForkHeight(b) \in 1 .. Len(Path[tip]) /\ ForkHeight(b) \in 1 .. Len(Path[b])
           /\ Path[b][ForkHeight(b)] = Path[tip][ForkHeight(b)]
  <1> DEFINE p == Path[tip]
             q == Path[b]
             P(i) == /\ i <= Len(q) /\ q[i] = p[i]
                     /\ i < Len(p) /\ i < Len(q) => q[i + 1] # p[i + 1]
             T == {i \in Nat \ {0} : i < Len(p) /\ i < Len(q) => q[i + 1] # p[i + 1]}
  <1>1. Len(p) \in Nat \ {0} /\ Len(q) \in Nat \ {0} /\ p[1] = Genesis /\ q[1] = Genesis
    BY PathFacts
  <1>2. ForkHeight(b) = CHOOSE i \in 1 .. Len(p) : P(i)  BY DEF ForkHeight
  <1> HIDE DEF p, q
  <1>3. PICK m \in T : \A k \in T : m <= k
    <2>1. Len(p) \in T  BY <1>1
    <2>2. T \in SUBSET Nat /\ T # {}  BY <2>1
    <2> HIDE DEF T
    <2> QED  BY <2>2, LeastNatural
  <1>4. m <= Len(p) /\ m <= Len(q)
    <2>1. Len(p) \in T /\ Len(q) \in T  BY <1>1
    <2> QED  BY <1>3, <2>1
  <1>5. q[m] = p[m]
    <2>1. CASE m = 1  BY <1>1, <2>1
    <2>2. CASE m # 1
      <3>1. m - 1 \in Nat \ {0} /\ ~(m <= m - 1) /\ m - 1 + 1 = m  BY <1>3, <2>2
      <3>2. m - 1 \notin T  BY <1>3, <3>1
      <3>3. q[m - 1 + 1] = p[m - 1 + 1]  BY <3>1, <3>2
      <3> QED  BY <3>1, <3>3
    <2> QED  BY <2>1, <2>2
  <1>6. m \in 1 .. Len(p) /\ P(m)  BY <1>1, <1>3, <1>4, <1>5
  <1> DEFINE h == CHOOSE i \in 1 .. Len(p) : P(i)
  <1>7. h \in 1 .. Len(p) /\ P(h)
    <2> HIDE DEF P
    <2> QED  BY <1>6, Zenon
  <1> HIDE DEF h
  <1>8. h \in 1 .. Len(q) /\ q[h] = p[h]  BY <1>1, <1>7
  <1>9. ForkHeight(b) = h  BY <1>2 DEF h
  <1> QED  BY <1>7, <1>8, <1>9 DEF p, q

ForkBlock(b) == Path[tip][ForkHeight(b)]

\* Right of the chain to c.
RightAt(w, c) == Right(w, TxsOf(c), Range(Path[c]))

\* The blocks above the fork are disconnected from the top.
LEMMA Unwound ==
    ASSUME tip \in Block, NEW b \in Block, NEW w, Sound(w, TxsOf(tip))
    PROVE  LET v == InOrder(Disconnected, w, vDisconnect(b))
           IN  /\ Sound(v, TxsOf(tip)) /\ v.known = w.known
               /\ RightAt(w, tip) => RightAt(v, ForkBlock(b))
  <1> DEFINE p == Path[tip]
             n == Len(p)
             h == ForkHeight(b)
             s == vDisconnect(b)
             v == InOrder(Disconnected, w, s)
  <1>1. w \in Wallets  BY DEF Sound
  <1>2. n \in Nat /\ p \in Seq(Block) /\ p[n] = tip  BY PathFacts, ShapeAssumption
  <1>3. h \in 1 .. n  BY ForkFacts
  <1>4. s = Reverse(SubSeq(p, h + 1, n))  BY DEF vDisconnect
  <1>5. /\ s \in Seq(Block) /\ Len(s) = n - h
        /\ \A j \in 1 .. n - h : s[j] = p[n - j + 1]
    <2> DEFINE r == SubSeq(p, h + 1, n)
    <2> HIDE DEF p, n, h, s
    <2>1. Len(r) = n - h /\ \A k \in 1 .. n - h : r[k] = p[k + h]  BY <1>2, <1>3 DEF n
    <2>2. s = [j \in 1 .. Len(r) |-> r[Len(r) - j + 1]]  BY <1>4 DEF Reverse
    <2> HIDE DEF r
    <2>3. n - h \in Nat  BY <1>2, <1>3
    <2>4. \A j \in 1 .. n - h : s[j] = p[n - j + 1]
      <3> TAKE j \in 1 .. n - h
      <3>1. n - h - j + 1 \in 1 .. n - h /\ n - h - j + 1 + h = n - j + 1  BY <1>2, <1>3
      <3>2. s[j] = r[n - h - j + 1]  BY <2>1, <2>2
      <3>3. r[n - h - j + 1] = p[n - h - j + 1 + h]  BY <2>1, <3>1
      <3> QED  BY <3>1, <3>2, <3>3
    <2>5. \A j \in 1 .. n - h : n - j + 1 \in 1 .. n  BY <1>2, <1>3
    <2>6. \A j \in 1 .. n - h : p[n - j + 1] \in Block  BY <1>2, <2>5 DEF n
    <2>7. s \in [1 .. n - h -> Block]  BY <2>1, <2>2, <2>4, <2>6
    <2> QED  BY <2>3, <2>4, <2>7
  <1>6. PICK f : UnwoundSteps(f, w, s)
    <2> HIDE DEF s
    <2> QED  BY <1>1, <1>5, UnwoundTrace
  <1> DEFINE T == {j \in 0 .. n - h : /\ Sound(f[j], TxsOf(tip)) /\ f[j].known = w.known
                                      /\ RightAt(w, tip) => RightAt(f[j], p[n - j])}
  <1>7. 0 \in T
    <2>1. n - 0 = n /\ 0 \in 0 .. n - h  BY <1>2, <1>3
    <2>2. f[0] = w  BY <1>6 DEF UnwoundSteps
    <2> QED  BY <1>2, <2>1, <2>2
  <1>8. ASSUME NEW j \in 1 .. n - h, j - 1 \in T PROVE j \in T
    <2> DEFINE x == f[j - 1]
               y == f[j]
               c == p[n - j + 1]
    <2>1. n - j + 1 \in 2 .. n /\ n - j + 1 - 1 = n - j /\ n - (j - 1) = n - j + 1
          /\ j \in 0 .. n - h
      BY <1>2, <1>3
    <2>2. c \in Block /\ c # Genesis /\ Parent(c) = p[n - j]  BY <2>1, Ascent
    <2>3. y = Disconnected(x, c)  BY <1>5, <1>6 DEF UnwoundSteps
    <2>4. Sound(x, TxsOf(tip)) /\ x.known = w.known /\ (RightAt(w, tip) => RightAt(x, c))
      BY <1>8, <2>1
    <2>5. c \in Range(Path[tip])
      <3>1. n - j + 1 \in 1 .. n  BY <2>1
      <3> QED  BY <3>1, TxsOfType
    <2>6. TxsOf(c) \subseteq TxsOf(tip)  BY <2>5, ChainWithin
    <2> HIDE DEF x, y, c, p
    <2>7. Sound(x, TxsOf(c))  BY <2>4, <2>6, SoundWithin
    <2>8. Sound(y, TxsOf(tip)) /\ y.known = x.known  BY <2>2, <2>3, <2>4, DisconnectedSound
    <2>9. RightAt(x, c) => RightAt(y, Parent(c))
      BY <2>2, <2>3, <2>7, DisconnectedRight DEF RightAt
    <2> QED  BY <2>1, <2>2, <2>4, <2>8, <2>9 DEF y
  <1>9. n - h \in T
    <2> HIDE DEF T
    <2>1. n - h \in Nat  BY <1>2, <1>3
    <2>2. \A j \in 0 .. n - h : j \in T  BY <1>7, <1>8, <2>1, UpTo
    <2> QED  BY <2>1, <2>2
  <1>10. v = f[n - h] /\ n - (n - h) = h  BY <1>2, <1>3, <1>5, <1>6 DEF UnwoundSteps
  <1> HIDE DEF v, n, h
  <1>11. /\ Sound(v, TxsOf(tip)) /\ v.known = w.known
         /\ RightAt(w, tip) => RightAt(v, p[h])
    BY <1>9, <1>10
  <1> QED  BY <1>11 DEF ForkBlock, v, h

\* The blocks above the fork are connected from the bottom, m of them.
LEMMA Rewound ==
    ASSUME tip \in Block, NEW b \in Block, NEW w, Sound(w, TxsOf(ForkBlock(b))),
           NEW m \in 0 .. Len(vConnect(b))
    PROVE  LET v == InOrder(Connected, w, SubSeq(vConnect(b), 1, m))
               c == Path[b][ForkHeight(b) + m]
           IN  /\ c \in Block /\ Sound(v, TxsOf(c)) /\ w.known \subseteq v.known
               /\ RightAt(w, ForkBlock(b)) => RightAt(v, c)
               /\ m = Len(vConnect(b)) => c = b
  <1> DEFINE p == Path[b]
             n == Len(p)
             h == ForkHeight(b)
             s == SubSeq(vConnect(b), 1, m)
             v == Scanned(w, s, TRUE)
  <1>1. w \in Wallets  BY DEF Sound
  <1>2. n \in Nat /\ p \in Seq(Block) /\ p[n] = b  BY PathFacts, ShapeAssumption
  <1>3. h \in 1 .. n /\ p[h] = ForkBlock(b)  BY ForkFacts DEF ForkBlock
  <1>4. /\ s \in Seq(Block) /\ Len(s) = m /\ Len(vConnect(b)) = n - h /\ m \in 0 .. n - h
        /\ \A j \in 1 .. m : s[j] = p[h + j]
    <2> DEFINE r == SubSeq(p, h + 1, n)
    <2>1. vConnect(b) = r  BY DEF vConnect
    <2> HIDE DEF p, h
    <2>2. r \in Seq(Block) /\ Len(r) = n - h /\ \A k \in 1 .. n - h : r[k] = p[k + h]
      BY <1>2, <1>3
    <2> HIDE DEF r, n
    <2>3. m \in 0 .. n - h  BY <2>1, <2>2
    <2>4. s = SubSeq(r, 1, m)  BY <2>1
    <2> HIDE DEF s
    <2>5. s \in Seq(Block) /\ Len(s) = m /\ \A j \in 1 .. m : s[j] = r[j]
      BY <1>2, <1>3, <2>2, <2>3, <2>4
    <2>6. \A j \in 1 .. m : j \in 1 .. n - h /\ j + h = h + j  BY <1>2, <1>3, <2>3
    <2> QED  BY <2>1, <2>2, <2>3, <2>5, <2>6
  <1>5. PICK f : ScannedSteps(f, w, s, TRUE)
    <2> HIDE DEF s
    <2> QED  BY <1>1, <1>4, ScannedTrace
  <1>6. h + 0 = h /\ m \in Nat /\ \A j \in 0 .. m : h + j \in 1 .. n  BY <1>2, <1>3, <1>4
  <1> DEFINE T == {j \in 0 .. m : /\ Sound(f[j], TxsOf(p[h + j])) /\ w.known \subseteq f[j].known
                                  /\ RightAt(w, ForkBlock(b)) => RightAt(f[j], p[h + j])}
  <1>7. 0 \in T
    <2>1. f[0] = w  BY <1>5 DEF ScannedSteps
    <2>2. 0 \in 0 .. m  BY <1>6
    <2> QED  BY <1>3, <1>6, <2>1, <2>2
  <1>8. ASSUME NEW j \in 1 .. m, j - 1 \in T PROVE j \in T
    <2> DEFINE x == f[j - 1]
               y == f[j]
               k == h + j
               c == p[k]
               D == TxsOf(Parent(c))
    <2>1. k \in 2 .. n /\ k - 1 = h + (j - 1) /\ j \in 0 .. m  BY <1>2, <1>3, <1>4
    <2>2. c \in Block /\ c # Genesis /\ Parent(c) = p[h + (j - 1)] /\ Parent(c) \in Block
      <3> HIDE DEF k
      <3>1. c \in Block /\ c # Genesis /\ Parent(c) = p[k - 1] /\ p[k - 1] \in Block
        BY <2>1, Ascent
      <3> HIDE DEF c, p, h
      <3> QED  BY <2>1, <3>1
    <2>3. y = Told(x, c, TRUE)  BY <1>4, <1>5 DEF ScannedSteps
    <2>4. /\ Sound(x, D) /\ w.known \subseteq x.known
          /\ RightAt(w, ForkBlock(b)) => RightAt(x, Parent(c))
      BY <1>8, <2>2
    <2>5. D \in SUBSET Tx /\ TxsOf(c) = D \cup Range(BlockTx[c])
      BY <2>2, ParentFacts, TxsOfType
    <2> HIDE DEF x, y, c, p
    <2>6. RightAt(x, Parent(c)) => RightAt(y, c)
      BY <2>2, <2>3, <2>4, ToldRight DEF RightAt
    <2>7. c # Genesis => TxsOf(Parent(c)) \subseteq D  OBVIOUS
    <2> HIDE DEF D
    <2>8. Sound(y, TxsOf(c)) /\ x.known \subseteq y.known
      <3>1. Sound(y, D \cup Range(BlockTx[c])) /\ x.known \subseteq y.known
        BY <2>2, <2>3, <2>4, <2>5, <2>7, ToldSound
      <3> QED  BY <2>5, <3>1
    <2> QED  BY <2>1, <2>4, <2>6, <2>8 DEF y, c
  <1>9. m \in T
    <2> HIDE DEF T
    <2>1. \A j \in 0 .. m : j \in T  BY <1>6, <1>7, <1>8, UpTo
    <2> QED  BY <1>6, <2>1
  <1>10. v = f[m]  BY <1>4, <1>5 DEF ScannedSteps
  <1>11. InOrder(Connected, w, s) = v  BY DEF Scanned, InOrder, Connected
  <1>12. p[h + m] \in Block
    <2>1. h + m \in 1 .. n  BY <1>6
    <2> QED  BY <2>1, PathTo
  <1>13. m = Len(vConnect(b)) => p[h + m] = b
    <2>1. m = n - h => h + m = n  BY <1>2, <1>3
    <2> QED  BY <1>2, <1>4, <2>1
  <1> HIDE DEF v
  <1>14. /\ Sound(v, TxsOf(p[h + m])) /\ w.known \subseteq v.known
         /\ RightAt(w, ForkBlock(b)) => RightAt(v, p[h + m])
    BY <1>9, <1>10
  <1> QED  BY <1>11, <1>12, <1>13, <1>14

\* A scan without updates from the genesis block on finds nothing new.
LEMMA ScannedAgain ==
    ASSUME tip \in Block, NEW w, Sound(w, TxsOf(tip))
    PROVE  Scanned(w, Path[tip], FALSE) = w
  <1> DEFINE p == Path[tip]
             n == Len(p)
  <1>1. w \in Wallets  BY DEF Sound
  <1>2. n \in Nat /\ p \in Seq(Block)  BY PathFacts, ShapeAssumption
  <1>3. PICK f : ScannedSteps(f, w, p, FALSE)
    <2> HIDE DEF p
    <2> QED  BY <1>1, <1>2, ScannedTrace
  <1> DEFINE T == {i \in 0 .. n : f[i] = w}
  <1>4. 0 \in T  BY <1>2, <1>3 DEF ScannedSteps
  <1>5. ASSUME NEW i \in 1 .. n, i - 1 \in T PROVE i \in T
    <2> DEFINE c == p[i]
    <2>1. f[i] = Told(w, c, FALSE)  BY <1>3, <1>5 DEF ScannedSteps
    <2>2. c \in Range(Path[tip])  BY TxsOfType
    <2>3. c \in Block /\ TxsOf(tip) \in SUBSET Tx  BY <2>2, ChainWithin, TxsOfType
    <2>4. Range(BlockTx[c]) \subseteq TxsOf(tip)  BY <2>2 DEF TxsOf
    <2> HIDE DEF c
    <2>5. f[i] = w  BY <2>1, <2>3, <2>4, ToldAgain
    <2>6. i \in 0 .. n  BY <1>2
    <2> QED  BY <2>5, <2>6
  <1>6. n \in T
    <2> HIDE DEF T
    <2>1. \A i \in 0 .. n : i \in T  BY <1>2, <1>4, <1>5, UpTo
    <2> QED  BY <1>2, <2>1
  <1> QED  BY <1>3, <1>6 DEF ScannedSteps

\* The rescan of an older wallet begins early enough: it then knows the whole chain.
LEMMA ScannedUnseen ==
    ASSUME tip \in Block, copy.best \in Block, NEW w, Sound(w, TxsOf(copy.best))
    PROVE  Sound(Scanned(w, Unseen, TRUE), TxsOf(tip))
  <1> DEFINE p == Path[tip]
             n == Len(p)
             h == ForkHeight(copy.best)
  <1>1. w \in Wallets  BY DEF Sound
  <1>2. n \in Nat /\ p \in Seq(Block) /\ p[n] = tip  BY PathFacts, ShapeAssumption
  <1>3. h \in 1 .. n /\ h \in 1 .. Len(Path[copy.best]) /\ Path[copy.best][h] = p[h]
    BY ForkFacts
  <1>4. p[h] \in Block /\ Sound(w, TxsOf(p[h]))
    <2>1. p[h] \in Range(Path[copy.best])
      <3> HIDE DEF h
      <3>1. Path[copy.best][h] \in Range(Path[copy.best])  BY <1>3, TxsOfType
      <3> QED  BY <1>3, <3>1
    <2>2. p[h] \in Block /\ TxsOf(p[h]) \subseteq TxsOf(copy.best)  BY <2>1, ChainWithin
    <2> QED  BY <2>2, SoundWithin
  <1>5. CASE copy.best = tip \/ h = n
    <2>1. Unseen = << >>  BY <1>5 DEF Unseen
    <2>2. << >> \in Seq(Block) /\ Len(<< >>) = 0  OBVIOUS
    <2>3. PICK f : ScannedSteps(f, w, << >>, TRUE)  BY <1>1, <2>2, ScannedTrace
    <2>4. Scanned(w, << >>, TRUE) = w  BY <2>2, <2>3 DEF ScannedSteps
    <2>5. Sound(w, TxsOf(tip))  BY <1>2, <1>4, <1>5
    <2> QED  BY <2>1, <2>4, <2>5
  <1>6. CASE ~(copy.best = tip \/ h = n)
    <2> DEFINE s == SubSeq(p, h, n)
               m == n - h + 1
               at(j) == IF j = 0 THEN h ELSE h + j - 1
    <2>1. Unseen = s  BY <1>6 DEF Unseen
    <2>2. /\ s \in Seq(Block) /\ Len(s) = m /\ m \in Nat \ {0}
          /\ \A j \in 1 .. m : s[j] = p[h + j - 1]
      <3> HIDE DEF p, n, h
      <3>1. m \in Nat \ {0}  BY <1>2, <1>3
      <3>2. s \in Seq(Block) /\ Len(s) = m  BY <1>2, <1>3 DEF n
      <3>3. \A j \in 1 .. m : s[j] = p[h + j - 1]  BY <1>2, <1>3 DEF n
      <3> QED  BY <3>1, <3>2, <3>3
    <2>3. PICK f : ScannedSteps(f, w, s, TRUE)
      <3> HIDE DEF s
      <3> QED  BY <1>1, <2>2, ScannedTrace
    <2> DEFINE T == {j \in 0 .. m : Sound(f[j], TxsOf(p[at(j)]))}
    <2>4. 0 \in T
      <3>1. f[0] = w /\ at(0) = h /\ 0 \in 0 .. m  BY <2>2, <2>3 DEF ScannedSteps
      <3> QED  BY <1>4, <3>1
    <2>5. ASSUME NEW j \in 1 .. m, j - 1 \in T PROVE j \in T
      <3> DEFINE x == f[j - 1]
                 y == f[j]
                 k == h + j - 1
                 c == p[k]
                 D == TxsOf(p[at(j - 1)])
      <3>1. /\ k \in 1 .. n /\ at(j) = k /\ j \in 0 .. m
            /\ \/ j = 1 /\ at(j - 1) = k
               \/ k \in 2 .. n /\ at(j - 1) = k - 1
        <4> HIDE DEF p, n, h
        <4> QED  BY <1>2, <1>3
      <3> HIDE DEF k
      <3>2. c \in Block  BY <3>1, PathTo
      <3>3. y = Told(x, c, TRUE)  BY <2>2, <2>3 DEF ScannedSteps, k
      <3>4. Sound(x, D)  BY <2>5
      <3>5. /\ D \in SUBSET Tx
            /\ c # Genesis => TxsOf(Parent(c)) \subseteq D
            /\ TxsOf(c) \subseteq D \cup Range(BlockTx[c])
        <4>1. CASE at(j - 1) = k
          <5>1. D = TxsOf(c)  BY <4>1
          <5>2. c # Genesis => TxsOf(Parent(c)) \subseteq TxsOf(c)  BY <3>2, ParentFacts
          <5>3. TxsOf(c) \in SUBSET Tx  BY <3>2, TxsOfType
          <5> HIDE DEF D, c
          <5> QED  BY <5>1, <5>2, <5>3
        <4>2. CASE k \in 2 .. n /\ at(j - 1) = k - 1
          <5>1. c # Genesis /\ Parent(c) = p[at(j - 1)] /\ Parent(c) \in Block
            <6>1. p[k] # Genesis /\ Parent(p[k]) = p[k - 1] /\ p[k - 1] \in Block
              BY <4>2, Ascent
            <6> HIDE DEF at
            <6> QED  BY <4>2, <6>1
          <5>2. D = TxsOf(Parent(c))  BY <5>1
          <5>3. TxsOf(Parent(c)) \in SUBSET Tx  BY <5>1, TxsOfType
          <5>4. TxsOf(c) = TxsOf(Parent(c)) \cup Range(BlockTx[c])  BY <3>2, <5>1, ParentFacts
          <5> HIDE DEF D, c
          <5> QED  BY <5>2, <5>3, <5>4
        <4> QED  BY <3>1, <4>1, <4>2
      <3> HIDE DEF x, y, c, D
      <3>6. Sound(y, D \cup Range(BlockTx[c]))  BY <3>2, <3>3, <3>4, <3>5, ToldSound
      <3>7. Sound(y, TxsOf(c))  BY <3>5, <3>6, SoundWithin
      <3> QED  BY <3>1, <3>7 DEF y, c
    <2>6. m \in T
      <3> HIDE DEF T, m
      <3>1. m \in Nat  BY <2>2
      <3>2. \A j \in 0 .. m : j \in T  BY <2>4, <2>5, <3>1, UpTo
      <3> QED  BY <3>1, <3>2
    <2>7. at(m) = n
      <3> HIDE DEF p, n, h
      <3> QED  BY <1>2, <1>3, <2>2
    <2>8. Scanned(w, s, TRUE) = f[m]  BY <2>2, <2>3 DEF ScannedSteps
    <2>9. Sound(f[m], TxsOf(tip))
      <3> HIDE DEF m, at
      <3> QED  BY <1>2, <2>6, <2>7
    <2> HIDE DEF m, s
    <2> QED  BY <2>1, <2>8, <2>9
  <1> QED  BY <1>5, <1>6

(***************************************************************************)
(* Every step.                                                             *)
(***************************************************************************)
\* The wallet knows the chain, and the copy the chain it was made at; until a
\* commit or a reorganisation fails or the copy is used, the wallet is right about it.
IInv ==
    /\ tip \in Block /\ copy.best \in Block /\ disturbed \in BOOLEAN
    /\ Sound(mapWallet, TxsOf(tip))
    /\ Sound(copy.wallet, TxsOf(copy.best))
    /\ ~disturbed => RightAt(mapWallet, tip)

LEMMA InitIInv == Init => IInv
  <1> SUFFICES ASSUME Init PROVE IInv
    OBVIOUS
  <1> DEFINE none == [p \in {} |-> NoBlock]
             w == [known |-> {}, vfSpent |-> {}, hashBlock |-> [t \in Tx |-> NoBlock],
                   vtxPrev |-> [t \in Tx |-> none]]
  <1>1. TxsOf(Genesis) = {}
    <2>1. Genesis \in Block  BY ShapeAssumption
    <2>2. ASSUME NEW c \in Range(Path[Genesis]) PROVE Range(BlockTx[c]) = {}
      <3>1. PICK i \in 1 .. Len(Path[Genesis]) : c = Path[Genesis][i]  BY <2>1, TxsOfType
      <3>2. 1 \in 1 .. Len(Path[Genesis])  BY <2>1, PathFacts
      <3>3. Len(Path[Genesis]) = 1
        <4>1. Len(Path[Path[Genesis][1]]) = 1  BY <2>1, <3>2, PathTo
        <4>2. Path[Genesis][1] = Genesis  BY <2>1, PathFacts
        <4> QED  BY <4>1, <4>2
      <3>4. c = Genesis  BY <2>1, <3>1, <3>3, PathFacts
      <3> QED  BY <3>4, LedgerAssumption DEF Range
    <2> QED  BY <2>2 DEF TxsOf
  <1>2. none \in Copies  BY NoCopies
  <1>3. /\ tip = Genesis /\ mapWallet = w /\ copy = [wallet |-> w, best |-> Genesis]
        /\ disturbed = FALSE
    BY DEF Init
  <1> HIDE DEF none
  <1>4. w \in Wallets /\ w.known = {} /\ w.vfSpent = {} /\ \A t \in Tx : w.hashBlock[t] = NoBlock
    BY <1>2 DEF Wallets
  <1> HIDE DEF w
  <1>5. Sound(w, TxsOf(Genesis))  BY <1>1, <1>4 DEF Sound, Recorded
  <1>6. RightAt(w, Genesis)  BY <1>4 DEF RightAt, Right, Marked, Accounted, Placed
  <1> QED  BY <1>3, <1>5, <1>6, ShapeAssumption DEF IInv

LEMMA VConnectLength ==
    ASSUME tip \in Block, NEW b \in Block
    PROVE  Len(vConnect(b)) \in Nat
  <1>1. Path[b] \in Seq(Block)  BY ShapeAssumption
  <1>2. ForkHeight(b) \in 1 .. Len(Path[b])  BY ForkFacts
  <1> QED  BY <1>1, <1>2 DEF vConnect

\* The wallet after a reorganisation that got as far as its m-th block.
LEMMA NotifiedFacts ==
    ASSUME tip \in Block, NEW b \in Block, NEW w, Sound(w, TxsOf(tip)),
           NEW m \in 0 .. Len(vConnect(b))
    PROVE  /\ Sound(Notified(w, b, m), TxsOf(tip))
           /\ m = Len(vConnect(b)) =>
                 /\ Sound(Notified(w, b, m), TxsOf(b))
                 /\ RightAt(w, tip) => RightAt(Notified(w, b, m), b)
  <1> DEFINE u == InOrder(Disconnected, w, vDisconnect(b))
             v == InOrder(Connected, u, SubSeq(vConnect(b), 1, m))
             c == Path[b][ForkHeight(b) + m]
  <1>1. Notified(w, b, m) = v  BY DEF Notified
  <1>2. /\ Sound(u, TxsOf(tip)) /\ u.known = w.known
        /\ RightAt(w, tip) => RightAt(u, ForkBlock(b))
    BY Unwound
  <1>3. ForkBlock(b) \in Range(Path[tip])  
    <2> DEFINE h == ForkHeight(b)
    <2>1. h \in 1 .. Len(Path[tip])  BY ForkFacts
    <2> HIDE DEF h
    <2>2. Path[tip][h] \in Range(Path[tip])  BY <2>1, TxsOfType
    <2> QED  BY <2>2 DEF ForkBlock, h
  <1>4. TxsOf(ForkBlock(b)) \subseteq TxsOf(tip)  BY <1>3, ChainWithin
  <1> HIDE DEF u
  <1>5. Sound(u, TxsOf(ForkBlock(b)))  BY <1>2, <1>4, SoundWithin
  <1>6. /\ c \in Block /\ Sound(v, TxsOf(c)) /\ u.known \subseteq v.known
        /\ RightAt(u, ForkBlock(b)) => RightAt(v, c)
        /\ m = Len(vConnect(b)) => c = b
    BY <1>5, Rewound
  <1> HIDE DEF v, c
  <1>7. Sound(v, TxsOf(tip))  BY <1>2, <1>6 DEF Sound
  <1> QED  BY <1>1, <1>2, <1>6, <1>7

\* ReacceptWalletTransactions marks what the chain spends; the scan adds nothing.
LEMMA ReacceptFacts ==
    ASSUME tip \in Block, NEW w, Sound(w, TxsOf(tip)), Reaccept(w)
    PROVE  /\ mapWallet' = MarkedFromIndex(w)
           /\ Sound(mapWallet', TxsOf(tip))
           /\ Marked(mapWallet', TxsOf(tip))
           /\ RightAt(w, tip) => RightAt(mapWallet', tip)
  <1> DEFINE v == MarkedFromIndex(w)
             S == w.known \cap Mine \cap Spends(TxsOf(tip))
  <1>1. w \in Wallets  BY DEF Sound
  <1>2. /\ v \in Wallets /\ v.known = w.known /\ v.hashBlock = w.hashBlock
        /\ v.vfSpent = w.vfSpent \cup S
    BY <1>1 DEF MarkedFromIndex, Confirmed, Wallets
  <1>3. mapWallet' = IF v = w THEN w ELSE Scanned(v, Path[tip], FALSE)
    BY DEF Reaccept
  <1> HIDE DEF v
  <1>4. Sound(v, TxsOf(tip))  BY <1>2 DEF Sound, Recorded
  <1>5. mapWallet' = v  BY <1>3, <1>4, ScannedAgain
  <1>6. Marked(v, TxsOf(tip))  BY <1>2 DEF Marked
  <1>7. ASSUME RightAt(w, tip) PROVE RightAt(v, tip)
    <2>1. Spends(TxsOf(tip)) \subseteq Spends((v.known \ CoinStake) \cup TxsOf(tip))
      BY DEF Spends
    <2>2. Accounted(v, TxsOf(tip))  BY <1>2, <1>7, <2>1 DEF RightAt, Right, Accounted
    <2>3. Placed(v, TxsOf(tip), Range(Path[tip]))  BY <1>2, <1>7 DEF RightAt, Right, Placed
    <2> QED  BY <1>6, <2>2, <2>3 DEF RightAt, Right
  <1> QED  BY <1>4, <1>5, <1>6, <1>7 DEF v

\* A transaction that is in no block of the chain comes to the wallet.
LEMMA AddedRight ==
    ASSUME NEW w, tip \in Block, Sound(w, TxsOf(tip)), NEW t \in Tx \ CoinStake,
           t \notin TxsOf(tip), NEW v, Adds(w, t, NoBlock, v)
    PROVE  Sound(v, TxsOf(tip)) /\ (RightAt(w, tip) => RightAt(v, tip))
  <1> DEFINE D == TxsOf(tip)
  <1>1. Spends(D) \subseteq D  BY SpentIsThere
  <1> HIDE DEF D
  <1>2. /\ v \in Wallets /\ v.known = w.known \cup {t}
        /\ v.vfSpent = w.vfSpent \cup (Vin[t] \cap v.known)
        /\ \A u \in Tx : u # t => v.hashBlock[u] = w.hashBlock[u]
        /\ v.hashBlock[t] = IF t \notin w.known THEN NoBlock ELSE w.hashBlock[t]
    BY DEF Adds
  <1>3. Sound(w, D) /\ t \notin D  BY DEF D
  <1>4. Sound(v, D)
    <2>1. v.vfSpent \subseteq v.known \cap Mine  BY <1>2, <1>3, VinType DEF Sound
    <2>2. Recorded(v)  BY <1>2, <1>3 DEF Sound, Recorded
    <2> QED  BY <1>2, <1>3, <2>1, <2>2 DEF Sound
  <1>5. ASSUME RightAt(w, tip) PROVE RightAt(v, tip)
    <2>1. Marked(w, D) /\ Accounted(w, D) /\ Placed(w, D, Range(Path[tip]))
      BY <1>5 DEF RightAt, Right, D
    <2>2. Marked(v, D)  BY <1>1, <1>2, <1>3, <2>1 DEF Marked
    <2>3. ASSUME NEW c \in v.vfSpent PROVE c \in Spends((v.known \ CoinStake) \cup D)
      <3>1. CASE c \in w.vfSpent
        <4>1. PICK x \in (w.known \ CoinStake) \cup D : c \in Vin[x]
          BY <2>1, <3>1, SpendsElement DEF Accounted
        <4>2. x \in (v.known \ CoinStake) \cup D  BY <1>2
        <4> QED  BY <4>1, <4>2, SpendsElement
      <3>2. CASE c \in Vin[t]
        <4>1. t \in (v.known \ CoinStake) \cup D  BY <1>2
        <4> QED  BY <3>2, <4>1, SpendsElement
      <3> QED  BY <1>2, <2>3, <3>1, <3>2
    <2>4. Placed(v, D, Range(Path[tip]))  BY <1>2, <1>3, <2>1 DEF Placed, Sound, Wallets
    <2>5. Accounted(v, D)  BY <2>3 DEF Accounted
    <2> QED  BY <2>2, <2>4, <2>5 DEF RightAt, Right, D
  <1> QED  BY <1>4, <1>5 DEF D

LEMMA StepIInv == IInv /\ [Next]_vars => IInv'
  <1> SUFFICES ASSUME IInv, [Next]_vars PROVE IInv'
    OBVIOUS
  <1> USE DEF IInv
  <1>1. ASSUME NEW b \in Block, Extend(b) PROVE IInv'
    <2>1. b # Genesis /\ Parent(b) = tip  BY <1>1 DEF Extend, OnTop
    <2>2. TxsOf(tip) \in SUBSET Tx /\ TxsOf(b) = TxsOf(tip) \cup Range(BlockTx[b])
      BY <2>1, ParentFacts, TxsOfType
    <2> DEFINE v == Told(mapWallet, b, TRUE)
    <2>3. Sound(v, TxsOf(tip) \cup Range(BlockTx[b]))  BY <2>1, <2>2, ToldSound
    <2>4. Sound(v, TxsOf(b))  BY <2>2, <2>3
    <2>5. RightAt(mapWallet, tip) => RightAt(v, b)  BY <2>1, ToldRight DEF RightAt
    <2>6. tip' = b /\ mapWallet' = v /\ copy' = copy /\ disturbed' = disturbed
      BY <1>1 DEF Extend, Connected
    <2> HIDE DEF v
    <2> QED  BY <2>4, <2>5, <2>6
  <1>2. ASSUME NEW b \in Block, Reorganize(b) PROVE IInv'
    <2> DEFINE m == Len(vConnect(b))
               v == Notified(mapWallet, b, m)
    <2>1. m \in 0 .. m  BY VConnectLength
    <2>2. Sound(v, TxsOf(b)) /\ (RightAt(mapWallet, tip) => RightAt(v, b))
      BY <2>1, NotifiedFacts
    <2>3. tip' = b /\ mapWallet' = v /\ copy' = copy /\ disturbed' = disturbed
      BY <1>2 DEF Reorganize
    <2> HIDE DEF v
    <2> QED  BY <2>2, <2>3
  <1>3. ASSUME NEW b \in Block, ReorganizeFails(b) PROVE IInv'
    <2>1. PICK m \in 0 .. Len(vConnect(b)) : mapWallet' = Notified(mapWallet, b, m)
      BY <1>3 DEF ReorganizeFails
    <2>2. Sound(mapWallet', TxsOf(tip))  BY <2>1, NotifiedFacts
    <2>3. tip' = tip /\ copy' = copy /\ disturbed' = TRUE  BY <1>3 DEF ReorganizeFails
    <2> QED  BY <2>2, <2>3
  <1>4. ASSUME NEW t \in Tx, ReceiveTx(t) PROVE IInv'
    <2>1. t \in Tx \ CoinStake /\ t \notin TxsOf(tip)  BY <1>4 DEF ReceiveTx, Acceptable
    <2>2. /\ tip' = tip /\ copy' = copy /\ disturbed' = disturbed
          /\ \/ mapWallet' = mapWallet
             \/ mapWallet' = AddToWalletIfInvolvingMe(mapWallet, t, NoBlock, TRUE)
      BY <1>4 DEF ReceiveTx
    <2> DEFINE none == [p \in {} |-> NoBlock]
    <2>3. none \in Copies /\ mapWallet \in Wallets  BY NoCopies DEF Sound
    <2>0. CASE mapWallet' = mapWallet  BY <2>0, <2>2
    <2>4. CASE /\ mapWallet' # mapWallet
               /\ t \in mapWallet.known \cup Mine \/ IsFromMe(mapWallet, t)
      <3>1. mapWallet' = AddToWallet(mapWallet, t, NoBlock, none)
        BY <2>2, <2>4 DEF AddToWalletIfInvolvingMe
      <3> HIDE DEF none
      <3>2. NoBlock \in Block \cup {NoBlock}  OBVIOUS
      <3>3. Adds(mapWallet, t, NoBlock, mapWallet')  BY <2>3, <3>1, <3>2, Added
      <3>4. Sound(mapWallet', TxsOf(tip)) /\ (RightAt(mapWallet, tip) => RightAt(mapWallet', tip))
        BY <2>1, <3>3, AddedRight
      <3> QED  BY <2>2, <3>4
    <2>5. CASE /\ mapWallet' # mapWallet
               /\ ~(t \in mapWallet.known \cup Mine \/ IsFromMe(mapWallet, t))
      <3>1. mapWallet' = WalletUpdateSpent(mapWallet, t, FALSE)
        BY <2>2, <2>5 DEF AddToWalletIfInvolvingMe
      <3>2. Vin[t] \cap mapWallet.known = {}  BY <2>5 DEF IsFromMe, Own
      <3>3. mapWallet' = mapWallet  BY <2>3, <3>1, <3>2, Untouched
      <3> QED  BY <2>2, <3>3
    <2> QED  BY <2>0, <2>4, <2>5
  <1>5. ASSUME NEW t \in Tx, CommitTransaction(t) PROVE IInv'
    <2> DEFINE prev == AddSupportingTransactions(t)
    <2>1. /\ tip' = tip /\ copy' = copy /\ disturbed' = disturbed
          /\ mapWallet' = AddToWallet(mapWallet, t, NoBlock, prev)
          /\ t \in Payment /\ t \notin mapWallet.known /\ Vin[t] \subseteq AvailableCoins
      BY <1>5 DEF CommitTransaction
    <2>2. mapWallet \in Wallets  BY DEF Sound
    <2>3. prev \in Copies
      <3> DEFINE S == Supporting(t)
      <3>1. S \in SUBSET Tx  BY DEF Supporting
      <3>2. prev = [u \in S |-> mapWallet.hashBlock[u]]  BY DEF AddSupportingTransactions
      <3>3. mapWallet.hashBlock \in [Tx -> Block \cup {NoBlock}]  BY <2>2 DEF Wallets
      <3> HIDE DEF S, prev
      <3>4. prev \in [S -> Block \cup {NoBlock}]  BY <3>1, <3>2, <3>3
      <3> QED  BY <3>1, <3>4 DEF Copies
    <2>4. t \in Tx \ CoinStake  BY <2>1, ShapeAssumption
    <2>5. t \notin TxsOf(tip)  BY <2>1, ShapeAssumption DEF Sound, Involving
    <2> HIDE DEF prev
    <2>6. NoBlock \in Block \cup {NoBlock}  OBVIOUS
    <2>7. Adds(mapWallet, t, NoBlock, mapWallet')  BY <2>1, <2>2, <2>3, <2>6, Added
    <2>8. Sound(mapWallet', TxsOf(tip)) /\ (RightAt(mapWallet, tip) => RightAt(mapWallet', tip))
      BY <2>4, <2>5, <2>7, AddedRight
    <2> QED  BY <2>1, <2>8
  <1>6. CASE FixSpentCoins
    <2> DEFINE w == mapWallet
               D == TxsOf(tip)
               v == mapWallet'
    <2>1. /\ tip' = tip /\ copy' = copy /\ disturbed' = disturbed
          /\ v = [w EXCEPT !.vfSpent = (w.vfSpent \ D) \cup (w.vfSpent \cap Spends(D))
                                        \cup (w.known \cap Mine \cap D \cap Spends(D))]
      BY <1>6 DEF FixSpentCoins, Confirmed, Sound, Wallets
    <2>2. Spends(D) \subseteq D  BY SpentIsThere
    <2>3. Sound(w, D) /\ (~disturbed => RightAt(w, tip))  OBVIOUS
    <2>4. Spends(D) \subseteq Spends((w.known \ CoinStake) \cup D)  BY DEF Spends
    <2> HIDE DEF D, v, w
    <2>5. /\ v \in Wallets /\ v.known = w.known /\ v.hashBlock = w.hashBlock
          /\ v.vfSpent = (w.vfSpent \ D) \cup (w.vfSpent \cap Spends(D))
                            \cup (w.known \cap Mine \cap D \cap Spends(D))
      BY <2>1, <2>3 DEF Wallets, Sound
    <2>6. Sound(v, D)  BY <2>3, <2>5 DEF Sound, Recorded
    <2>7. ASSUME RightAt(w, tip) PROVE RightAt(v, tip)
      <3>1. Marked(w, D) /\ Accounted(w, D) /\ Placed(w, D, Range(Path[tip]))
        BY <2>7 DEF RightAt, Right, D
      <3>2. Marked(v, D)  BY <2>2, <2>5, <3>1 DEF Marked
      <3>3. Accounted(v, D)  BY <2>4, <2>5, <3>1 DEF Accounted
      <3>4. Placed(v, D, Range(Path[tip]))  BY <2>5, <3>1 DEF Placed
      <3> QED  BY <3>2, <3>3, <3>4 DEF RightAt, Right, D
    <2> QED  BY <2>1, <2>3, <2>6, <2>7 DEF D, v, w
  <1>7. CASE Restart
    <2>1. Reaccept(mapWallet) /\ tip' = tip /\ copy' = copy /\ disturbed' = disturbed
      BY <1>7 DEF Restart
    <2>2. Sound(mapWallet', TxsOf(tip)) /\ (RightAt(mapWallet, tip) => RightAt(mapWallet', tip))
      BY <2>1, ReacceptFacts
    <2> QED  BY <2>1, <2>2
  <1>8. CASE Backup
    <2>1. /\ tip' = tip /\ mapWallet' = mapWallet /\ disturbed' = disturbed
          /\ copy' = [wallet |-> mapWallet, best |-> tip]
      BY <1>8 DEF Backup
    <2>2. copy'.wallet = mapWallet /\ copy'.best = tip  BY <2>1
    <2> QED  BY <2>1, <2>2
  <1>9. CASE Restore
    <2> DEFINE v == Scanned(copy.wallet, Unseen, TRUE)
    <2>1. Reaccept(v) /\ tip' = tip /\ copy' = copy /\ disturbed' = TRUE
      BY <1>9 DEF Restore
    <2>2. Sound(v, TxsOf(tip))  BY ScannedUnseen
    <2> HIDE DEF v
    <2>3. Sound(mapWallet', TxsOf(tip))  BY <2>1, <2>2, ReacceptFacts
    <2> QED  BY <2>1, <2>3
  <1>10. ASSUME NEW b \in Block, ExtendFails(b) PROVE IInv'
    <2>1. Parent(b) = tip /\ b # Genesis  BY <1>10 DEF ExtendFails, OnTop
    <2> DEFINE v == Told(mapWallet, b, TRUE)
    <2>2. TxsOf(tip) \in SUBSET Tx  BY TxsOfType
    <2>3. Sound(v, TxsOf(tip) \cup Range(BlockTx[b]))  BY <2>1, <2>2, ToldSound
    <2>4. tip' = tip /\ mapWallet' = v /\ copy' = copy /\ disturbed' = TRUE
      BY <1>10 DEF ExtendFails, Connected
    <2> HIDE DEF v
    <2>5. Sound(v, TxsOf(tip))  BY <2>3, SoundWithin
    <2> QED  BY <2>4, <2>5
  <1>11. CASE UNCHANGED vars
    <2>1. /\ tip' = tip /\ mapWallet' = mapWallet /\ disturbed' = disturbed /\ copy' = copy
      BY <1>11 DEF vars
    <2> QED  BY <2>1
  <1> QED
    BY <1>1, <1>2, <1>3, <1>4, <1>5, <1>6, <1>7, <1>8, <1>9, <1>10, <1>11 DEF Next

LEMMA IInvInduct == Spec => []IInv
  <1> QED  BY InitIInv, StepIInv, PTL DEF Spec

(***************************************************************************)
(* The theorems.                                                           *)
(***************************************************************************)
\* For every chain and every order of payments, confirmations, reorganisations,
\* repairs and restarts, what the main chain spends is marked in the wallet, until a
\* commit or a reorganisation fails or an older file is used.
THEOREM SpentStaysMarked == Spec => []ChainSpentIsMarked
  <1>1. IInv => ChainSpentIsMarked
    BY DEF IInv, RightAt, Right, Marked, ChainSpentIsMarked, SpentMarked, Confirmed
  <1> QED  BY <1>1, IInvInduct, PTL

\* Until then the block recorded for a transaction of the wallet is in the main chain
\* exactly when the transaction is.
THEOREM BlocksAreRecorded == Spec => []BlockIsRecorded
  <1>1. IInv => BlockIsRecorded
    <2> SUFFICES ASSUME IInv, ~disturbed, NEW t \in mapWallet.known
                 PROVE  t \in Confirmed <=> InMainChain(mapWallet.hashBlock[t])
      BY DEF BlockIsRecorded
    <2> DEFINE b == mapWallet.hashBlock[t]
    <2>1. Sound(mapWallet, TxsOf(tip)) /\ RightAt(mapWallet, tip) /\ tip \in Block
      BY DEF IInv
    <2>2. t \in Tx  BY <2>1 DEF Sound, Wallets
    <2>3. t \in Confirmed => b \in Range(Path[tip])
      BY <2>1 DEF Confirmed, RightAt, Right, Placed
    <2>4. ASSUME b \in Range(Path[tip]) PROVE t \in Confirmed
      <3>1. b \in Block  BY <2>1, <2>4, TxsOfType
      <3>2. b # NoBlock  BY <3>1, ShapeAssumption
      <3>3. t \in Range(BlockTx[b])  BY <2>1, <2>2, <3>2 DEF Sound, Recorded
      <3> QED  BY <2>4, <3>3 DEF Confirmed, TxsOf
    <2> QED  BY <2>3, <2>4 DEF InMainChain
  <1> QED  BY <1>1, IInvInduct, PTL

\* Until then every mark has a spender in the chain or a payment of the wallet: a
\* coinstake that left the chain holds none.
THEOREM MarksAreAccounted == Spec => []MarksHaveSpenders
  <1>1. IInv => MarksHaveSpenders
    BY DEF IInv, RightAt, Right, Accounted, MarksHaveSpenders, Confirmed
  <1> QED  BY <1>1, IInvInduct, PTL

\* After whatever failed commit or reorganisation, and with however old a copy of the
\* wallet, a start marks all that the chain spends.
THEOREM StartsHeal == Spec => StartHeals
  <1>1. IInv /\ [Next]_vars => [SpentMarked' \/ ~(Restart \/ Restore)]_vars
    <2> SUFFICES ASSUME IInv, Restart \/ Restore PROVE SpentMarked'
      OBVIOUS
    <2>1. PICK w : Sound(w, TxsOf(tip)) /\ Reaccept(w) /\ tip' = tip
      <3>1. CASE Restart  BY <3>1 DEF Restart, IInv
      <3>2. CASE Restore
        <4> DEFINE v == Scanned(copy.wallet, Unseen, TRUE)
        <4>1. Reaccept(v) /\ tip' = tip  BY <3>2 DEF Restore
        <4>2. Sound(v, TxsOf(tip))  BY ScannedUnseen DEF IInv
        <4> HIDE DEF v
        <4> QED  BY <4>1, <4>2
      <3> QED  BY <3>1, <3>2
    <2>2. Marked(mapWallet', TxsOf(tip))  BY <2>1, ReacceptFacts DEF IInv
    <2>3. TxsOf(tip)' = TxsOf(tip)  BY <2>1 DEF TxsOf
    <2> QED  BY <2>2, <2>3 DEF Marked, SpentMarked, Confirmed
  <1> QED  BY <1>1, IInvInduct, PTL DEF Spec, StartHeals

\* A start does no more than that: the scan which ReacceptWalletTransactions makes for
\* spenders it does not know of finds none, so its loop ends with the first scan.
THEOREM OneScanSuffices ==
    Spec => [][Restart => mapWallet' = MarkedFromIndex(mapWallet)]_vars
  <1>1. IInv /\ Restart => mapWallet' = MarkedFromIndex(mapWallet)
    BY ReacceptFacts DEF Restart, IInv
  <1>2. IInv /\ [Next]_vars => [Restart => mapWallet' = MarkedFromIndex(mapWallet)]_vars
    BY <1>1
  <1> QED  BY <1>2, IInvInduct, PTL DEF Spec
=============================================================================
