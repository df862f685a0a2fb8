-------------------------- MODULE ChainStateProofs --------------------------
(***************************************************************************)
(* Proofs about ChainState for every block tree, every assignment of       *)
(* transactions to blocks and every number of crashes, faults and forced   *)
(* moves.                                                                  *)
(***************************************************************************)
EXTENDS ChainState, WellFoundedInduction, TLAPS

(***************************************************************************)
(* The block tree.  What holds along a chain of any length is proved for   *)
(* the lowest block for which it could fail.                               *)
(***************************************************************************)
LEMMA LeastNatural ==
    ASSUME NEW T \in SUBSET Nat, T # {}
    PROVE  \E m \in T : \A k \in T : m <= k
  <1>1. PICK R : IsWellFoundedOn(R, Nat) /\ \A x, y \in Nat : x < y => <<x, y>> \in R
    <2> DEFINE R == OpToRel(<, Nat)
    <2>1. IsWellFoundedOn(R, Nat)  BY NatLessThanWellFounded
    <2>2. \A x, y \in Nat : x < y => <<x, y>> \in R  BY DEF OpToRel
    <2> HIDE DEF R
    <2> QED  BY <2>1, <2>2
  <1>2. \E m \in T : \A y \in T : ~ (<<y, m>> \in R)
    <2>1. IsWellFoundedOn(R, Nat) /\ T \subseteq Nat /\ T # {}  BY <1>1
    <2> QED  BY <2>1, WFMin
  <1>3. PICK m \in T : \A y \in T : ~ (<<y, m>> \in R)  BY <1>2
  <1>4. \A y \in T : ~(y < m)  BY <1>1, <1>3
  <1> QED  BY <1>4

Lineage(b) ==
    /\ Genesis \in Anc[b]
    /\ \A a \in Anc[b] :
        /\ Anc[a] \subseteq Anc[b]
        /\ Height[a] <= Height[b]
        /\ ChainTrust[a] <= ChainTrust[b]
        /\ \A c \in Anc[b] : Height[a] = Height[c] => a = c
        /\ a # b => \E c \in Anc[b] : Prev[c] = a

\* The ancestors of a block are a chain from Genesis to it.
LEMMA Lineages == \A b \in Block : Lineage(b)
  <1> DEFINE Bad == {b \in Block : ~Lineage(b)}
  <1> SUFFICES ASSUME Bad # {} PROVE FALSE  OBVIOUS
  <1>1. PICK b \in Bad : \A d \in Bad : Height[b] <= Height[d]
    <2>1. {Height[d] : d \in Bad} \in SUBSET Nat /\ {Height[d] : d \in Bad} # {}
      BY TreeAssumption
    <2>2. PICK m \in {Height[d] : d \in Bad} : \A k \in {Height[d] : d \in Bad} : m <= k
      BY <2>1, LeastNatural
    <2> QED  BY <2>2
  <1>2. b # Genesis  BY TreeAssumption DEF Lineage
  <1> DEFINE p == Prev[b]
  <1>3. /\ p \in Block /\ Anc[b] = Anc[p] \cup {b} /\ Height[b] = Height[p] + 1
        /\ ChainTrust[p] < ChainTrust[b]
    BY <1>2, TreeAssumption
  <1>4. Height[p] \in Nat /\ Height[b] \in Nat /\ ChainTrust[p] \in Nat /\ ChainTrust[b] \in Nat
        /\ Anc[p] \subseteq Block /\ p \in Anc[p]
    BY <1>3, TreeAssumption
  <1>5. Lineage(p)  BY <1>1, <1>3, <1>4
  <1> HIDE DEF p
  <1>6. \A a \in Anc[p] : Height[a] \in Nat /\ ChainTrust[a] \in Nat  BY <1>4, TreeAssumption
  <1>7. ASSUME NEW a \in Anc[b]
        PROVE  /\ Anc[a] \subseteq Anc[b]
               /\ Height[a] <= Height[b]
               /\ ChainTrust[a] <= ChainTrust[b]
    <2>1. CASE a = b  BY <1>4, <2>1
    <2>2. CASE a \in Anc[p]  BY <1>3, <1>4, <1>5, <1>6, <2>2 DEF Lineage
    <2> QED  BY <1>3, <2>1, <2>2
  <1>8. ASSUME NEW a \in Anc[b], NEW c \in Anc[b], Height[a] = Height[c]
        PROVE  a = c
    <2>1. \A d \in Anc[p] : Height[d] < Height[b]  BY <1>3, <1>4, <1>5, <1>6 DEF Lineage
    <2>2. CASE a \in Anc[p] /\ c \in Anc[p]  BY <1>5, <1>8, <2>2 DEF Lineage
    <2>3. CASE a = b \/ c = b  BY <1>3, <1>6, <1>8, <2>1, <2>3
    <2> QED  BY <1>3, <2>2, <2>3
  <1>9. ASSUME NEW a \in Anc[b], a # b
        PROVE  \E c \in Anc[b] : Prev[c] = a
    <2>1. a \in Anc[p]  BY <1>3, <1>9
    <2>2. CASE a = p  BY <1>3, <2>2 DEF p
    <2>3. CASE a # p  BY <1>3, <1>5, <2>1, <2>3 DEF Lineage
    <2> QED  BY <2>2, <2>3
  <1>10. Genesis \in Anc[b]  BY <1>3, <1>5 DEF Lineage
  <1>11. Lineage(b)  BY <1>7, <1>8, <1>9, <1>10 DEF Lineage
  <1> QED  BY <1>11

LEMMA Ancestors ==
    \A b \in Block :
        /\ Genesis \in Anc[b]
        /\ \A a \in Anc[b] :
            /\ Anc[a] \subseteq Anc[b]
            /\ Height[a] <= Height[b]
            /\ ChainTrust[a] <= ChainTrust[b]
            /\ \A c \in Anc[b] : Height[a] = Height[c] => a = c
            /\ a # b => \E c \in Anc[b] : Prev[c] = a
  BY Lineages DEF Lineage

(***************************************************************************)
(* The block tree.                                                         *)
(***************************************************************************)
\* A block is one of its own ancestors, and so is its parent.
LEMMA AncSelf ==
    ASSUME NEW b \in Block
    PROVE  /\ b \in Anc[b]
           /\ b # Genesis => Prev[b] \in Block /\ Prev[b] \in Anc[b]
  BY TreeAssumption

\* A child is higher than every ancestor of its parent, so not one of them.
LEMMA ChildIsNew ==
    ASSUME NEW n \in Block, NEW c \in Block, Prev[n] = c
    PROVE  /\ n # Genesis
           /\ n \notin Anc[c]
           /\ Anc[n] = Anc[c] \cup {n}
           /\ \A a \in Anc[c] : a \in Block /\ Height[a] < Height[n]
  <1>1. n # Genesis  BY TreeAssumption
  <1>2. Height[n] = Height[c] + 1 /\ Anc[n] = Anc[c] \cup {n}  BY <1>1, TreeAssumption
  <1>3. \A a \in Anc[c] : a \in Block /\ Height[a] \in Nat /\ Height[a] <= Height[c]
    BY TreeAssumption, Ancestors
  <1> QED  BY <1>1, <1>2, <1>3, TreeAssumption

\* A chain has at most one child of each of its blocks.
LEMMA OneChild ==
    ASSUME NEW c \in Block, NEW m \in Anc[c], NEW n \in Anc[c], NEW a \in Block,
           Prev[m] = a, Prev[n] = a
    PROVE  m = n
  <1>1. m \in Block /\ n \in Block  BY TreeAssumption
  <1>2. m # Genesis /\ n # Genesis  BY <1>1, TreeAssumption
  <1>3. Height[m] = Height[n]  BY <1>1, <1>2, TreeAssumption
  <1> QED  BY <1>3, Ancestors

(***************************************************************************)
(* Transactions and blocks.                                                *)
(***************************************************************************)
\* Membership in Txs, SpentIn and Before in terms of positions in the block.
LEMMA BlockContents ==
    ASSUME NEW b \in Block
    PROVE  /\ \A t : t \in Txs(b) <=> \E i \in DOMAIN Vtx[b] : t = Vtx[b][i]
           /\ \A o : o \in SpentIn(b) <=> \E i \in DOMAIN Vtx[b] : o \in Vin[Vtx[b][i]]
           /\ Txs(b) \subseteq Tx
           /\ SpentIn(b) \subseteq Out
           /\ DOMAIN Vtx[b] \subseteq Nat \ {0}
  <1>1. Vtx[b] \in Seq(Tx)  BY TxAssumption
  <1>2. DOMAIN Vtx[b] = 1 .. Len(Vtx[b]) /\ Len(Vtx[b]) \in Nat  BY <1>1
  <1>3. \A i \in DOMAIN Vtx[b] : Vtx[b][i] \in Tx  BY <1>1
  <1>4. \A t \in Tx : Vin[t] \subseteq Out  BY TxAssumption
  <1>5. \A t : t \in Txs(b) <=> \E i \in DOMAIN Vtx[b] : t = Vtx[b][i]  BY DEF Txs
  <1>6. \A o : o \in SpentIn(b) <=> \E i \in DOMAIN Vtx[b] : o \in Vin[Vtx[b][i]]
    BY <1>5 DEF SpentIn
  <1> QED  BY <1>2, <1>3, <1>4, <1>5, <1>6

\* The transactions before position i are those at the smaller positions.
LEMMA BeforeContents ==
    ASSUME NEW b \in Block, NEW i \in DOMAIN Vtx[b]
    PROVE  /\ \A t : t \in Before(b, i) <=> \E j \in DOMAIN Vtx[b] : j < i /\ t = Vtx[b][j]
           /\ Before(b, i) \subseteq Txs(b)
  <1>1. Vtx[b] \in Seq(Tx)  BY TxAssumption
  <1>2. DOMAIN Vtx[b] = 1 .. Len(Vtx[b]) /\ Len(Vtx[b]) \in Nat  BY <1>1
  <1>3. \A j : j \in 1 .. (i - 1) <=> j \in DOMAIN Vtx[b] /\ j < i  BY <1>2
  <1>4. \A t : t \in Before(b, i) <=> \E j \in DOMAIN Vtx[b] : j < i /\ t = Vtx[b][j]
    BY <1>3 DEF Before
  <1> QED  BY <1>4, BlockContents

\* Every nonempty set of numbers has a least element.
LEMMA LeastNumber ==
    ASSUME NEW S, S \subseteq Nat, S # {}
    PROVE  \E i \in S : \A j \in S : ~(j < i)
  <1>1. PICK i \in S : \A j \in S : ~(<<j, i>> \in OpToRel(<, Nat))
    BY NatLessThanWellFounded, WFMin, Zenon
  <1>2. \A j \in S : j < i => <<j, i>> \in OpToRel(<, Nat)
    BY DEF OpToRel
  <1> QED  BY <1>1, <1>2

\* On a valid chain the creator of a spent output is a transaction of the chain.
LEMMA CreatorOnChain ==
    ASSUME NEW c \in Block, InputsExist(c), NEW b \in Anc[c], NEW o \in SpentIn(b)
    PROVE  \E a \in Anc[c] : OutTx[o] \in Txs(a)
  <1>1. b \in Block /\ Anc[b] \subseteq Anc[c]  BY TreeAssumption, Ancestors
  <1>2. PICK i \in DOMAIN Vtx[b] : o \in Vin[Vtx[b][i]]  BY <1>1, BlockContents
  <1>3. \/ OutTx[o] \in Before(b, i)
        \/ \E a \in Anc[b] \ {b} : OutTx[o] \in Txs(a)
    BY <1>2 DEF InputsExist
  <1>4. Before(b, i) \subseteq Txs(b)  BY <1>1, BeforeContents
  <1> QED  BY <1>1, <1>3, <1>4

(***************************************************************************)
(* A view of the store that stands at block c.                             *)
(***************************************************************************)
Standing(view, c) ==
    /\ view \in Store
    /\ IndexMatches(view, c)
    /\ LinksMatch(view.hashNext, c)
    /\ ValidChain(c)

\* A block that passes ConnectBlock has no transaction of its chain: one with
\* inputs would have a spent input, and the first one cannot get it from its
\* own block; a coinbase has the height in it.
LEMMA NoTxOfChain ==
    ASSUME NEW view, NEW c \in Block, Standing(view, c),
           NEW n \in Block, Prev[n] = c, CanConnect(n, view)
    PROVE  \A t \in Txs(n), a \in Anc[c] : t \notin Txs(a)
  <1> DEFINE S == {i \in DOMAIN Vtx[n] : \E a \in Anc[c] : Vtx[n][i] \in Txs(a)}
  <1>1. SUFFICES ASSUME S # {} PROVE FALSE
    BY BlockContents
  <1>2. S \subseteq Nat  BY BlockContents
  <1>3. PICK i \in S : \A j \in S : ~(j < i)  BY <1>1, <1>2, LeastNumber
  <1> DEFINE t == Vtx[n][i]
  <1>4. PICK a \in Anc[c] : t \in Txs(a)  BY <1>3
  <1>5. a \in Block /\ Anc[a] \subseteq Anc[c] /\ Height[a] < Height[n] /\ Height[a] \in Nat
        /\ Height[n] \in Nat
    BY TreeAssumption, Ancestors, ChildIsNew
  <1>6. t \in Txs(n)  BY BlockContents
  <1>7. Vin[t] # {}
    <2>1. \A a1, b1 \in Block : \A t1 \in Txs(a1) \cap Txs(b1) :
             Vin[t1] = {} => Height[a1] = Height[b1]
      BY TxAssumption
    <2>2. Vin[t] = {} => Height[a] = Height[n]  BY <1>4, <1>5, <1>6, <2>1
    <2> QED  BY <1>5, <2>2
  <1>8. PICK o : o \in Vin[t]  BY <1>7
  <1>9. o \in Out /\ o \in SpentIn(a)
    BY <1>4, <1>5, <1>8, BlockContents
  <1>10. view.vSpent[o] # Nil
    BY <1>5, <1>9, TreeAssumption DEF Standing, IndexMatches
  <1>11. OutTx[o] \in Before(n, i)
    BY <1>8, <1>10 DEF CanConnect, ConnectInputs
  <1>12. PICK j \in DOMAIN Vtx[n] : j < i /\ OutTx[o] = Vtx[n][j]
    BY <1>11, BeforeContents
  <1>13. \E d \in Anc[c] : OutTx[o] \in Txs(d)
    BY <1>9, CreatorOnChain DEF Standing, ValidChain
  <1>14. j \in S  BY <1>12, <1>13
  <1> QED  BY <1>3, <1>12, <1>14

\* ConnectBlock takes a view that stands at the parent to one that stands at
\* the block.
LEMMA ConnectStanding ==
    ASSUME NEW view, NEW c \in Block, Standing(view, c),
           NEW n \in Block, Prev[n] = c, CanConnect(n, view),
           pnext \in [Block -> BlockOrNil], pnext[n] = Nil
    PROVE  Standing(ConnectBlock(n, view), n)
  <1> DEFINE new == ConnectBlock(n, view)
  <1>1. /\ n # Genesis
        /\ n \notin Anc[c]
        /\ Anc[n] = Anc[c] \cup {n}
        /\ Anc[c] \subseteq Block
        /\ \A a \in Anc[c] : Height[a] < Height[n]
    BY ChildIsNew
  <1>2. \A t \in Txs(n), a \in Anc[c] : t \notin Txs(a)  BY NoTxOfChain
  <1>3. /\ view \in Store /\ IndexMatches(view, c)
        /\ LinksMatch(view.hashNext, c) /\ ValidChain(c)
    BY DEF Standing
  <1>4. /\ new \in Store
        /\ new.txindex = [t \in Tx |-> IF t \in Txs(n) THEN n ELSE view.txindex[t]]
        /\ new.vSpent = [o \in Out |-> IF o \in SpentIn(n) THEN n
                                      ELSE IF OutTx[o] \in Txs(n) THEN Nil ELSE view.vSpent[o]]
        /\ new.hashNext = [view.hashNext EXCEPT ![n] = Nil, ![c] = n]
    BY <1>3 DEF ConnectBlock, Store, BlockOrNil
  <1>5. \A o \in Out : OutTx[o] \in Txs(n) => \A a \in Anc[c] : o \notin SpentIn(a)
    BY <1>2, <1>3, CreatorOnChain DEF ValidChain
  <1>6. \A o \in SpentIn(n), a \in Anc[c] : o \notin SpentIn(a)
    <2> SUFFICES ASSUME NEW o \in SpentIn(n), NEW a \in Anc[c], o \in SpentIn(a)
                 PROVE FALSE
      OBVIOUS
    <2>1. PICK i \in DOMAIN Vtx[n] : o \in Vin[Vtx[n][i]]  BY BlockContents
    <2>2. OutTx[o] \in Before(n, i) \/ view.vSpent[o] = Nil
      BY <2>1 DEF CanConnect, ConnectInputs
    <2>3. OutTx[o] \notin Txs(n)  BY <1>5, BlockContents
    <2>4. view.vSpent[o] = Nil  BY <2>2, <2>3, BeforeContents
    <2>5. view.vSpent[o] = a  BY <1>1, <1>3, BlockContents DEF IndexMatches
    <2> QED  BY <1>1, <2>4, <2>5, TreeAssumption
  <1>7. IndexMatches(new, n)
    <2>1. ASSUME NEW t \in Tx, NEW a \in Block
          PROVE  new.txindex[t] = a <=> a \in Anc[n] /\ t \in Txs(a)
      <3>1. view.txindex[t] = a <=> a \in Anc[c] /\ t \in Txs(a)
        BY <1>3 DEF IndexMatches
      <3>2. CASE t \in Txs(n)  BY <1>1, <1>2, <1>4, <3>2
      <3>3. CASE t \notin Txs(n)  BY <1>1, <1>4, <3>1, <3>3
      <3> QED  BY <3>2, <3>3
    <2>2. ASSUME NEW o \in Out, NEW a \in Block
          PROVE  new.vSpent[o] = a <=> a \in Anc[n] /\ o \in SpentIn(a)
      <3>1. view.vSpent[o] = a <=> a \in Anc[c] /\ o \in SpentIn(a)
        BY <1>3 DEF IndexMatches
      <3>2. CASE o \in SpentIn(n)  BY <1>1, <1>4, <1>6, <3>2
      <3>3. CASE o \notin SpentIn(n) /\ OutTx[o] \in Txs(n)
        BY <1>1, <1>4, <1>5, <3>3, TreeAssumption
      <3>4. CASE o \notin SpentIn(n) /\ OutTx[o] \notin Txs(n)
        BY <1>1, <1>4, <3>1, <3>4
      <3> QED  BY <3>2, <3>3, <3>4
    <2> QED  BY <2>1, <2>2 DEF IndexMatches
  <1>8. LinksMatch(new.hashNext, n)
    <2> SUFFICES ASSUME NEW a \in Block, NEW m \in Block
                 PROVE  new.hashNext[a] = m <=> m \in Anc[n] /\ Prev[m] = a
      BY DEF LinksMatch
    <2>1. view.hashNext[a] = m <=> m \in Anc[c] /\ Prev[m] = a
      BY <1>3 DEF LinksMatch
    <2>2. c # n  BY <1>1, AncSelf
    <2>3. view.hashNext \in [Block -> BlockOrNil]  BY <1>3 DEF Store
    <2>4. CASE a = c
      <3>1. new.hashNext[a] = n  BY <1>4, <2>2, <2>3, <2>4
      <3>2. \A k \in Anc[c] : Prev[k] # c  BY <1>1, ChildIsNew, AncSelf
      <3> QED  BY <1>1, <2>4, <3>1, <3>2
    <2>5. CASE a = n
      <3>1. new.hashNext[a] = Nil  BY <1>4, <2>2, <2>3, <2>5
      <3>2. \A k \in Anc[n] : Prev[k] # n  BY <1>1, ChildIsNew, AncSelf, TreeAssumption
      <3> QED  BY <2>5, <3>1, <3>2, TreeAssumption
    <2>6. CASE a # c /\ a # n
      BY <1>1, <1>4, <2>1, <2>3, <2>6
    <2> QED  BY <2>4, <2>5, <2>6
  <1>9. ValidChain(n)
    <2>1. Anc[n] \ {Genesis} \subseteq Sound
      BY <1>1, <1>3 DEF ValidChain, CanConnect
    <2>2. NoTxTwice(n)
      BY <1>1, <1>2, <1>3 DEF ValidChain, NoTxTwice
    <2>3. SpendsOnce(n)
      <3>1. \A i, j \in DOMAIN Vtx[n] : j < i => Vin[Vtx[n][i]] \cap Vin[Vtx[n][j]] = {}
        <4> SUFFICES ASSUME NEW i \in DOMAIN Vtx[n], NEW j \in DOMAIN Vtx[n], j < i,
                            NEW o \in Vin[Vtx[n][i]]
                     PROVE  o \notin Vin[Vtx[n][j]]
          OBVIOUS
        <4>1. Vtx[n][j] \in Before(n, i)  BY BeforeContents
        <4> QED  BY <4>1 DEF CanConnect, ConnectInputs
      <3>2. \A i, j \in DOMAIN Vtx[n] : i # j => i < j \/ j < i  BY BlockContents
      <3>3. \A i, j \in DOMAIN Vtx[n] : i # j => Vin[Vtx[n][i]] \cap Vin[Vtx[n][j]] = {}
        BY <3>1, <3>2
      <3> QED  BY <1>1, <1>3, <1>6, <3>3 DEF ValidChain, SpendsOnce
    <2>4. InputsExist(n)
      <3> SUFFICES ASSUME NEW i \in DOMAIN Vtx[n], NEW o \in Vin[Vtx[n][i]]
                   PROVE  \/ OutTx[o] \in Before(n, i)
                             /\ (OutTx[o] \in Generated => nCoinbaseMaturity = 0)
                          \/ \E a \in Anc[n] \ {n} :
                                /\ OutTx[o] \in Txs(a)
                                /\ OutTx[o] \in Generated
                                      => Height[n] - Height[a] >= nCoinbaseMaturity
        BY <1>1, <1>3 DEF ValidChain, InputsExist
      <3>1. Position(n, i, o, view) # Nil
        BY DEF CanConnect, FetchInputs
      <3>2. OutTx[o] \in Generated =>
              \A a \in Anc[n] : Height[n] - Height[a] < nCoinbaseMaturity
                                   => Position(n, i, o, view) # a
        BY DEF CanConnect, ConnectInputs
      <3>3. o \in Out /\ OutTx[o] \in Tx
        <4>1. o \in SpentIn(n)  BY BlockContents
        <4> QED  BY <4>1, BlockContents, TxAssumption
      <3>4. CASE OutTx[o] \in Before(n, i)
        <4>1. Position(n, i, o, view) = n  BY <3>4 DEF Position
        <4>2. n \in Anc[n] /\ Height[n] \in Nat  BY AncSelf, TreeAssumption
        <4>3. OutTx[o] \in Generated => ~(0 < nCoinbaseMaturity)
          BY <3>2, <4>1, <4>2
        <4>4. nCoinbaseMaturity \in Nat  BY TxAssumption
        <4> QED  BY <3>4, <4>3, <4>4
      <3>5. CASE OutTx[o] \notin Before(n, i)
        <4>1. Position(n, i, o, view) = view.txindex[OutTx[o]]  BY <3>5 DEF Position
        <4>2. view.txindex[OutTx[o]] \in Block
          BY <1>3, <3>1, <3>3, <4>1 DEF Store, BlockOrNil
        <4> DEFINE a == view.txindex[OutTx[o]]
        <4>3. a \in Anc[c] /\ OutTx[o] \in Txs(a)
          BY <1>3, <3>3, <4>2 DEF IndexMatches
        <4>4. a \in Anc[n] \ {n}  BY <1>1, <4>3
        <4>5. Height[n] \in Nat /\ Height[a] \in Nat  BY <4>2, TreeAssumption
        <4>7. nCoinbaseMaturity \in Nat  BY TxAssumption
        <4>6. OutTx[o] \in Generated => Height[n] - Height[a] >= nCoinbaseMaturity
          BY <3>2, <4>1, <4>4, <4>5, <4>7
        <4> QED  BY <4>3, <4>4, <4>6
      <3> QED  BY <3>4, <3>5
    <2> QED  BY <2>1, <2>2, <2>3, <2>4 DEF ValidChain
  <1> QED  BY <1>4, <1>7, <1>8, <1>9 DEF Standing

\* DisconnectBlock takes a view that stands at a block to one that stands at
\* its parent.
LEMMA DisconnectStanding ==
    ASSUME NEW view, NEW c \in Block, Standing(view, c), c # Genesis
    PROVE  /\ Prev[c] \in Block
           /\ Standing(DisconnectBlock(c, view), Prev[c])
  <1> DEFINE p == Prev[c]
             new == DisconnectBlock(c, view)
  <1>0. p \in Block  BY AncSelf
  <1>1. /\ c \notin Anc[p]
        /\ Anc[c] = Anc[p] \cup {c}
        /\ Anc[p] \subseteq Block
    BY <1>0, ChildIsNew
  <1>2. /\ view \in Store /\ IndexMatches(view, c)
        /\ LinksMatch(view.hashNext, c) /\ ValidChain(c)
    BY DEF Standing
  <1>3. /\ new \in Store
        /\ new.txindex = [t \in Tx |-> IF t \in Txs(c) THEN Nil ELSE view.txindex[t]]
        /\ new.vSpent = [o \in Out |-> IF o \in SpentIn(c) \/ OutTx[o] \in Txs(c)
                                      THEN Nil ELSE view.vSpent[o]]
        /\ new.hashNext = [view.hashNext EXCEPT ![p] = Nil]
    BY <1>0, <1>2 DEF DisconnectBlock, Store, BlockOrNil
  <1>4. ValidChain(p)
    BY <1>1, <1>2 DEF ValidChain, SpendsOnce, NoTxTwice, InputsExist
  <1>5. \A t \in Txs(c), a \in Anc[p] : t \notin Txs(a)
    BY <1>1, <1>2 DEF ValidChain, NoTxTwice
  <1>6. \A o \in Out, a \in Anc[p] :
           o \in SpentIn(c) \/ OutTx[o] \in Txs(c) => o \notin SpentIn(a)
    <2>1. \A o \in SpentIn(c), a \in Anc[p] : o \notin SpentIn(a)
      BY <1>1, <1>2 DEF ValidChain, SpendsOnce
    <2>2. \A o, a : a \in Anc[p] /\ o \in SpentIn(a) => OutTx[o] \notin Txs(c)
      BY <1>0, <1>4, <1>5, CreatorOnChain DEF ValidChain
    <2> QED  BY <2>1, <2>2
  <1>7. IndexMatches(new, p)
    <2>1. ASSUME NEW t \in Tx, NEW a \in Block
          PROVE  new.txindex[t] = a <=> a \in Anc[p] /\ t \in Txs(a)
      <3>1. view.txindex[t] = a <=> a \in Anc[c] /\ t \in Txs(a)
        BY <1>2 DEF IndexMatches
      <3> QED  BY <1>1, <1>3, <1>5, <3>1, TreeAssumption
    <2>2. ASSUME NEW o \in Out, NEW a \in Block
          PROVE  new.vSpent[o] = a <=> a \in Anc[p] /\ o \in SpentIn(a)
      <3>1. view.vSpent[o] = a <=> a \in Anc[c] /\ o \in SpentIn(a)
        BY <1>2 DEF IndexMatches
      <3> QED  BY <1>1, <1>3, <1>6, <3>1, TreeAssumption
    <2> QED  BY <2>1, <2>2 DEF IndexMatches
  <1>8. LinksMatch(new.hashNext, p)
    <2> SUFFICES ASSUME NEW a \in Block, NEW m \in Block
                 PROVE  new.hashNext[a] = m <=> m \in Anc[p] /\ Prev[m] = a
      BY DEF LinksMatch
    <2>1. view.hashNext[a] = m <=> m \in Anc[c] /\ Prev[m] = a
      BY <1>2 DEF LinksMatch
    <2>2. view.hashNext \in [Block -> BlockOrNil]  BY <1>2 DEF Store
    <2>3. \A k \in Anc[p] : Prev[k] # p  BY <1>0, <1>1, ChildIsNew, AncSelf
    <2> QED  BY <1>0, <1>1, <1>3, <2>1, <2>2, <2>3, TreeAssumption
  <1> QED  BY <1>0, <1>3, <1>4, <1>7, <1>8 DEF Standing

\* The links of a chain are determined by its last block.
LEMMA LinksUnique ==
    ASSUME NEW f \in [Block -> BlockOrNil], NEW g \in [Block -> BlockOrNil],
           NEW c, LinksMatch(f, c), LinksMatch(g, c)
    PROVE  f = g
  <1>1. ASSUME NEW a \in Block  PROVE f[a] = g[a]
    <2>1. f[a] \in Block => g[a] = f[a]  BY DEF LinksMatch
    <2>2. g[a] \in Block => f[a] = g[a]  BY DEF LinksMatch
    <2> QED  BY <2>1, <2>2 DEF BlockOrNil
  <1> QED  BY <1>1

\* The memory update after a reorganisation gives the links of the new chain.
LEMMA RelinkMatches ==
    ASSUME NEW old \in Block, NEW new \in Block,
           pnext \in [Block -> BlockOrNil], LinksMatch(pnext, old)
    PROVE  /\ Relink(old, new) \in [Block -> BlockOrNil]
           /\ LinksMatch(Relink(old, new), new)
  <1>0. Anc[old] \subseteq Block /\ Anc[new] \subseteq Block  BY TreeAssumption
  <1>1. ASSUME NEW a \in Block
        PROVE  /\ Relink(old, new)[a] \in BlockOrNil
               /\ \A m \in Block : Relink(old, new)[a] = m <=> m \in Anc[new] /\ Prev[m] = a
    <2>1. CASE \E n \in Anc[new] \ Anc[old] : Prev[n] = a
      <3> DEFINE k == CHOOSE n \in Anc[new] \ Anc[old] : Prev[n] = a
      <3>1. k \in Anc[new] \ Anc[old] /\ Prev[k] = a  BY <2>1
      <3>2. Relink(old, new)[a] = k  BY <2>1 DEF Relink
      <3> HIDE DEF k
      <3> QED  BY <1>0, <3>1, <3>2, OneChild DEF BlockOrNil
    <2>2. CASE /\ ~(\E n \in Anc[new] \ Anc[old] : Prev[n] = a)
               /\ \E n \in Anc[old] \ Anc[new] : Prev[n] = a
      <3>1. Relink(old, new)[a] = Nil  BY <2>2 DEF Relink
      <3>2. PICK k \in Anc[old] \ Anc[new] : Prev[k] = a  BY <2>2
      <3>3. \A m \in Anc[new] : Prev[m] # a  BY <2>2, <3>2, OneChild
      <3> QED  BY <3>1, <3>3, TreeAssumption DEF BlockOrNil
    <2>3. CASE /\ ~(\E n \in Anc[new] \ Anc[old] : Prev[n] = a)
               /\ ~(\E n \in Anc[old] \ Anc[new] : Prev[n] = a)
      <3>1. Relink(old, new)[a] = pnext[a]  BY <2>3 DEF Relink
      <3> QED  BY <2>3, <3>1 DEF LinksMatch
    <2> QED  BY <2>1, <2>2, <2>3
  <1>2. Relink(old, new) = [a \in Block |-> Relink(old, new)[a]]  BY DEF Relink
  <1> QED  BY <1>1, <1>2 DEF LinksMatch

(***************************************************************************)
(* The inductive invariant.  TypeOK, StoreIsItsChain and StoreIsValid say  *)
(* nothing of a call in progress; what is needed in addition is that the   *)
(* open view stands at the block the call has reached, and where that      *)
(* block is relative to the tip and the goal of the call.                  *)
(***************************************************************************)
CallOK ==
    /\ call.phase = "none" => call = NoCall
    /\ call.phase # "none" => call.new \in Block /\ call.target \in Block /\ call.at \in Block
    /\ call.phase = "inner" => Prev[call.new] = pindexBest
    /\ call.phase = "reorg" =>
          /\ batch \in Store
          /\ call.target \in Anc[call.new]
          /\ \A n \in Anc[pindexBest] : n \in Anc[call.target] => n \in Anc[call.at]
    /\ call.phase = "extend" => /\ call.at \in Anc[call.new]
                               /\ txdb.hashBestChain = call.at

ViewsStand ==
    ~damaged =>
        /\ Standing(txdb, txdb.hashBestChain)
        /\ pnext = txdb.hashNext
        /\ call.phase \in {"inner", "reorg"} => txdb.hashBestChain = pindexBest
        /\ call.phase = "reorg" => Standing(batch, call.at)

IInv == TypeOK /\ CallOK /\ ViewsStand

\* The store of a new node stands at the genesis block.
LEMMA InitIInv == Init => IInv
  <1> SUFFICES ASSUME Init PROVE IInv  OBVIOUS
  <1>1. txdb \in Store  BY TreeAssumption DEF Init, Store, BlockOrNil
  <1>2. TypeOK
    <2>1. call \in Call  BY DEF Init, BlockOrNil, Call, NoCall, Phases
    <2>2. crashes \in 0 .. MaxCrashes /\ faults \in 0 .. MaxFaults /\ forced \in 0 .. MaxForced
      BY BoundAssumption DEF Init
    <2>3. mapBlockIndex \subseteq Block /\ pindexBest \in Block /\ pnext \in [Block -> BlockOrNil]
      BY TreeAssumption DEF Init, BlockOrNil
    <2>4. batch \in Store \cup {NoBatch} /\ damaged \in BOOLEAN
          /\ nBestInvalidTrust \in Nat /\ diskInvalidTrust \in Nat
      BY DEF Init
    <2> QED  BY <1>1, <2>1, <2>2, <2>3, <2>4 DEF TypeOK
  <1>3. CallOK  BY DEF Init, CallOK, NoCall
  <1>0. DOMAIN Vtx[Genesis] = {}
    <2>1. Vtx[Genesis] = << >>  BY TxAssumption
    <2> QED  BY <2>1
  <1>4. Txs(Genesis) = {} /\ SpentIn(Genesis) = {}
    BY <1>0, TreeAssumption, BlockContents
  <1>5. Anc[Genesis] = {Genesis}  BY TreeAssumption
  <1>6. IndexMatches(txdb, Genesis)
    BY <1>4, <1>5, TreeAssumption DEF Init, IndexMatches
  <1>7. LinksMatch(txdb.hashNext, Genesis)
    BY <1>5, TreeAssumption DEF Init, LinksMatch
  <1>8. ValidChain(Genesis)
    BY <1>0, <1>4, <1>5 DEF ValidChain, SpendsOnce, NoTxTwice, InputsExist
  <1>9. ViewsStand
    BY <1>1, <1>6, <1>7, <1>8 DEF Init, ViewsStand, Standing, NoCall
  <1> QED  BY <1>2, <1>3, <1>9 DEF IInv

\* The store stays typed under the three writes.
LEMMA StoreTyped ==
    ASSUME NEW view \in Store, NEW b \in Block, pnext \in [Block -> BlockOrNil]
    PROVE  /\ WriteHashBestChain(b, view) \in Store
           /\ b # Genesis => ConnectBlock(b, view) \in Store
           /\ b # Genesis => DisconnectBlock(b, view) \in Store
  <1>1. b # Genesis => Prev[b] \in Block  BY AncSelf
  <1>2. WriteHashBestChain(b, view) \in Store  BY DEF WriteHashBestChain, Store
  <1>3. ASSUME b # Genesis PROVE ConnectBlock(b, view) \in Store
    BY <1>1, <1>3 DEF ConnectBlock, Store, BlockOrNil
  <1>4. ASSUME b # Genesis PROVE DisconnectBlock(b, view) \in Store
    BY <1>1, <1>4 DEF DisconnectBlock, Store, BlockOrNil
  <1> QED  BY <1>2, <1>3, <1>4

\* Recording the tip does not move a view from where it stands.
LEMMA WriteTipStanding ==
    ASSUME NEW view, NEW c \in Block, Standing(view, c)
    PROVE  /\ Standing(WriteHashBestChain(c, view), c)
           /\ WriteHashBestChain(c, view).hashBestChain = c
           /\ WriteHashBestChain(c, view).hashNext = view.hashNext
  <1>1. view \in Store  BY DEF Standing
  <1> DEFINE w == WriteHashBestChain(c, view)
  <1>2. /\ w \in Store /\ w.hashBestChain = c /\ w.hashNext = view.hashNext
        /\ w.txindex = view.txindex /\ w.vSpent = view.vSpent
    BY <1>1 DEF WriteHashBestChain, Store
  <1> QED  BY <1>2 DEF Standing, IndexMatches

\* A new entry for a block without a link does not move it either.
LEMMA AddEntryStanding ==
    ASSUME NEW b \in Block, NEW c \in Block, Standing(txdb, c), pnext = txdb.hashNext
    PROVE  LET w == [txdb EXCEPT !.blockindex = @ \cup {b}, !.hashNext[b] = pnext[b]]
           IN  Standing(w, c) /\ w.hashNext = txdb.hashNext
  <1> DEFINE w == [txdb EXCEPT !.blockindex = @ \cup {b}, !.hashNext[b] = pnext[b]]
  <1>1. txdb \in Store  BY DEF Standing
  <1>2. w \in Store /\ w.hashNext = [txdb.hashNext EXCEPT ![b] = pnext[b]]
        /\ w.txindex = txdb.txindex /\ w.vSpent = txdb.vSpent
    BY <1>1 DEF Store, BlockOrNil
  <1>3. w.hashNext = txdb.hashNext  BY <1>1, <1>2 DEF Store
  <1> QED  BY <1>2, <1>3 DEF Standing, IndexMatches

\* What the beginning of a SetBestChain call establishes.
LEMMA BeginCall ==
    ASSUME NEW new \in Block, NEW tip \in Block, NEW store \in Store,
           SetBestChain(new, tip, store), pindexBest' = tip, txdb' = store,
           damaged \in BOOLEAN
    PROVE  /\ call' \in Call
           /\ batch' \in Store \cup {NoBatch}
           /\ damaged' \in BOOLEAN
           /\ CallOK'
           /\ ~damaged' => /\ ~damaged
                           /\ store.hashBestChain = tip
                           /\ call'.phase = "reorg" => batch' = store /\ call'.at = tip
  <1>1. damaged' \in BOOLEAN /\ (~damaged' => ~damaged /\ store.hashBestChain = tip)
    BY DEF SetBestChain
  <1>2. CASE /\ Prev[new] = tip
             /\ call' = [phase |-> "inner", new |-> new, target |-> new, at |-> tip]
             /\ batch' = NoBatch
    <2>1. call' \in Call  BY <1>2 DEF Call, Phases, BlockOrNil
    <2>2. CallOK'  BY <1>2 DEF CallOK
    <2> QED  BY <1>1, <1>2, <2>1, <2>2
  <1>3. ASSUME NEW a \in Block, IsIntermediate(a, new, tip),
               call' = [phase |-> "reorg", new |-> new, target |-> a, at |-> tip],
               batch' = store
        PROVE  call' \in Call /\ CallOK'
    <2>1. call' \in Call  BY <1>3 DEF Call, Phases, BlockOrNil
    <2>2. a \in Anc[new]  BY <1>3 DEF IsIntermediate
    <2>3. CallOK'  BY <1>3, <2>2 DEF CallOK
    <2> QED  BY <2>1, <2>3
  <1> QED  BY <1>1, <1>2, <1>3 DEF SetBestChain

\* A block whose parent is where a view stands, and which is not on the chain
\* of the store, has no link in memory.
LEMMA NoLinkYet ==
    ASSUME NEW n \in Block, NEW c \in Block, LinksMatch(pnext, c),
           pnext \in [Block -> BlockOrNil], n \notin Anc[c]
    PROVE  pnext[n] = Nil
  <1>1. SUFFICES ASSUME NEW m \in Block, pnext[n] = m PROVE FALSE
    BY DEF BlockOrNil
  <1>2. m \in Anc[c] /\ Prev[m] = n  BY <1>1 DEF LinksMatch
  <1>3. m # Genesis  BY <1>2, TreeAssumption
  <1>4. Prev[m] \in Anc[m] /\ Anc[m] \subseteq Anc[c]
    BY <1>2, <1>3, AncSelf, Ancestors
  <1> QED  BY <1>2, <1>4

\* InvalidChainFound keeps the two counters numbers.
LEMMA InvalidTyped ==
    ASSUME NEW b \in Block, InvalidChainFound(b),
           nBestInvalidTrust \in Nat, diskInvalidTrust \in Nat
    PROVE  nBestInvalidTrust' \in Nat /\ diskInvalidTrust' \in Nat
  BY TreeAssumption DEF InvalidChainFound

\* The environment counters stay within their bounds.
LEMMA EnvironmentTyped ==
    ASSUME TypeOK, Fault \/ NoFault
    PROVE  /\ crashes' \in 0 .. MaxCrashes
           /\ faults' \in 0 .. MaxFaults
           /\ forced' \in 0 .. MaxForced
  BY BoundAssumption DEF TypeOK, Fault, NoFault, environment

(***************************************************************************)
(* One lemma per action.                                                   *)
(***************************************************************************)
\* AddToBlockIndex, with or without a call it begins.
LEMMA AddToBlockIndexIInv ==
    ASSUME IInv, NEW b \in Block, AddToBlockIndex(b)
    PROVE  IInv'
  <1> DEFINE w == [txdb EXCEPT !.blockindex = @ \cup {b}, !.hashNext[b] = pnext[b]]
  <1> USE DEF IInv
  <1>1. txdb' = w  BY DEF AddToBlockIndex
  <1>2. w \in Store /\ w.hashBestChain = txdb.hashBestChain
    BY DEF TypeOK, Store, BlockOrNil
  <1>3. ~damaged => Standing(w, w.hashBestChain) /\ pnext = w.hashNext
    BY <1>2, AddEntryStanding DEF ViewsStand, TypeOK, Store
  <1>4. /\ mapBlockIndex' \subseteq Block
        /\ pnext' = pnext /\ pindexBest' = pindexBest
        /\ nBestInvalidTrust' = nBestInvalidTrust /\ diskInvalidTrust' = diskInvalidTrust
        /\ crashes' = crashes /\ faults' = faults /\ forced' = forced
    BY DEF AddToBlockIndex, TypeOK, environment
  <1>5. CASE UNCHANGED <<call, batch, damaged>>
    <2>1. call = NoCall  BY DEF AddToBlockIndex
    <2>2. TypeOK'  BY <1>1, <1>2, <1>4, <1>5 DEF TypeOK
    <2>3. CallOK'  BY <2>1, <1>5 DEF CallOK, NoCall
    <2>4. ViewsStand'  BY <1>1, <1>3, <1>4, <1>5, <2>1 DEF ViewsStand, NoCall
    <2> QED  BY <2>2, <2>3, <2>4
  <1>6. CASE SetBestChain(b, pindexBest, txdb')
    <2>1. pindexBest \in Block /\ damaged \in BOOLEAN  BY DEF TypeOK
    <2>2. /\ call' \in Call
          /\ batch' \in Store \cup {NoBatch}
          /\ damaged' \in BOOLEAN
          /\ CallOK'
          /\ ~damaged' => /\ ~damaged
                          /\ w.hashBestChain = pindexBest
                          /\ call'.phase = "reorg" => batch' = w /\ call'.at = pindexBest
      BY <1>1, <1>2, <1>4, <1>6, <2>1, BeginCall
    <2>3. TypeOK'  BY <1>1, <1>2, <1>4, <2>2 DEF TypeOK
    <2>4. ViewsStand'  BY <1>1, <1>3, <1>4, <2>2 DEF ViewsStand
    <2> QED  BY <2>2, <2>3, <2>4
  <1> QED  BY <1>5, <1>6 DEF AddToBlockIndex

\* AddToBlockIndex whose commit fails.
LEMMA AddToBlockIndexFailsIInv ==
    ASSUME IInv, NEW b \in Block, AddToBlockIndexFails(b)
    PROVE  IInv'
  <1> USE DEF IInv
  <1>1. /\ mapBlockIndex' \subseteq Block
        /\ UNCHANGED <<pnext, pindexBest, nBestInvalidTrust, txdb, diskInvalidTrust,
                       call, batch, damaged>>
    BY DEF AddToBlockIndexFails, TypeOK
  <1>2. TypeOK'
    BY <1>1, EnvironmentTyped DEF AddToBlockIndexFails, TypeOK
  <1>3. CallOK' /\ ViewsStand'
    BY <1>1 DEF CallOK, ViewsStand
  <1> QED  BY <1>2, <1>3

\* A checkpoint or a move back at load begins a call.
LEMMA ForceCheckpointIInv ==
    ASSUME IInv, NEW b \in Block, ForceCheckpoint(b)
    PROVE  IInv'
  <1> USE DEF IInv
  <1>1. /\ UNCHANGED <<mapBlockIndex, pnext, pindexBest, nBestInvalidTrust, txdb,
                       diskInvalidTrust, crashes, faults>>
        /\ SetBestChain(b, pindexBest, txdb)
    BY DEF ForceCheckpoint, memory
  <1>2. forced' \in 0 .. MaxForced
    BY BoundAssumption DEF ForceCheckpoint, TypeOK
  <1>3. pindexBest \in Block /\ txdb \in Store /\ damaged \in BOOLEAN  BY DEF TypeOK
  <1>4. /\ call' \in Call
        /\ batch' \in Store \cup {NoBatch}
        /\ damaged' \in BOOLEAN
        /\ CallOK'
        /\ ~damaged' => /\ ~damaged
                        /\ txdb.hashBestChain = pindexBest
                        /\ call'.phase = "reorg" => batch' = txdb /\ call'.at = pindexBest
    BY <1>1, <1>3, BeginCall
  <1>5. TypeOK'  BY <1>1, <1>2, <1>4 DEF TypeOK
  <1>6. ViewsStand'  BY <1>1, <1>4 DEF ViewsStand
  <1> QED  BY <1>4, <1>5, <1>6

\* What LoadBlockIndex restores from the store.
LEMMA ReloadTyped ==
    ASSUME IInv, Reload
    PROVE  /\ mapBlockIndex' \subseteq Block
           /\ pnext' = txdb.hashNext /\ pnext' \in [Block -> BlockOrNil]
           /\ pindexBest' = txdb.hashBestChain /\ pindexBest' \in Block
           /\ nBestInvalidTrust' \in Nat
           /\ txdb' = txdb /\ diskInvalidTrust' = diskInvalidTrust /\ faults' = faults
           /\ crashes' \in 0 .. MaxCrashes
           /\ txdb \in Store /\ damaged \in BOOLEAN
           /\ ~damaged => Standing(txdb, txdb.hashBestChain)
  <1>1. txdb \in Store  BY DEF IInv, TypeOK
  <1>2. /\ txdb.blockindex \subseteq Block
        /\ txdb.hashNext \in [Block -> BlockOrNil]
        /\ txdb.hashBestChain \in Block
    BY <1>1 DEF Store
  <1>3. crashes' \in 0 .. MaxCrashes  BY BoundAssumption DEF Reload, IInv, TypeOK
  <1> QED  BY <1>1, <1>2, <1>3 DEF Reload, IInv, TypeOK, ViewsStand

\* A restart that keeps the stored tip.
LEMMA RestartIInv ==
    ASSUME IInv, Restart
    PROVE  IInv'
  <1>1. Reload /\ call' = NoCall /\ batch' = NoBatch /\ forced' = forced /\ damaged' = damaged
    BY DEF Restart, Return
  <1>2. NoCall \in Call /\ NoCall.phase = "none"  BY DEF Call, NoCall, Phases, BlockOrNil
  <1>3. TypeOK'  BY <1>1, <1>2, ReloadTyped DEF IInv, TypeOK
  <1>4. CallOK'  BY <1>1, <1>2 DEF CallOK
  <1>5. ViewsStand'  BY <1>1, <1>2, ReloadTyped DEF ViewsStand
  <1> QED  BY <1>3, <1>4, <1>5 DEF IInv

\* A restart that moves the tip back.
LEMMA RestartAndMoveBackIInv ==
    ASSUME IInv, NEW b \in Block, RestartAndMoveBack(b)
    PROVE  IInv'
  <1>1. Reload /\ SetBestChain(b, txdb.hashBestChain, txdb)
    BY DEF RestartAndMoveBack
  <1>2. forced' \in 0 .. MaxForced
    BY BoundAssumption DEF RestartAndMoveBack, IInv, TypeOK
  <1>3. txdb.hashBestChain \in Block /\ txdb \in Store  BY <1>1, ReloadTyped
  <1>4. /\ call' \in Call
        /\ batch' \in Store \cup {NoBatch}
        /\ damaged' \in BOOLEAN
        /\ CallOK'
        /\ ~damaged' => /\ ~damaged
                        /\ call'.phase = "reorg" =>
                              batch' = txdb /\ call'.at = txdb.hashBestChain
    BY <1>1, <1>3, BeginCall, ReloadTyped
  <1>5. TypeOK'  BY <1>1, <1>2, <1>4, ReloadTyped DEF IInv, TypeOK
  <1>6. ViewsStand'  BY <1>1, <1>4, ReloadTyped DEF ViewsStand
  <1> QED  BY <1>4, <1>5, <1>6 DEF IInv

\* Connecting one block to the stored tip and committing: the step of
\* SetBestChainInner, for the new tip and for a postponed block.
LEMMA ConnectAndCommit ==
    ASSUME NEW n \in Block, Prev[n] = txdb.hashBestChain, txdb \in Store,
           Standing(txdb, txdb.hashBestChain), pnext = txdb.hashNext, CanConnect(n, txdb)
    PROVE  LET w == WriteHashBestChain(n, ConnectBlock(n, txdb))
           IN  /\ Standing(w, n)
               /\ w.hashBestChain = n
               /\ w.hashNext = [pnext EXCEPT ![Prev[n]] = n]
  <1> DEFINE c == txdb.hashBestChain
             v == ConnectBlock(n, txdb)
             w == WriteHashBestChain(n, v)
  <1>1. c \in Block /\ pnext \in [Block -> BlockOrNil]  BY DEF Store
  <1>2. n \notin Anc[c]  BY <1>1, ChildIsNew
  <1>3. pnext[n] = Nil  BY <1>1, <1>2, NoLinkYet DEF Standing
  <1>4. Standing(v, n)  BY <1>1, <1>3, ConnectStanding
  <1>5. Standing(w, n) /\ w.hashBestChain = n /\ w.hashNext = v.hashNext
    BY <1>4, WriteTipStanding
  <1>6. v.hashNext = [pnext EXCEPT ![n] = Nil, ![c] = n]
    BY <1>3 DEF ConnectBlock, Store
  <1>7. [pnext EXCEPT ![n] = Nil, ![c] = n] = [pnext EXCEPT ![c] = n]
    BY <1>1, <1>3
  <1> QED  BY <1>5, <1>6, <1>7

\* The step that makes a child of the tip the new tip.
LEMMA ConnectTipIInv ==
    ASSUME IInv, ConnectTip
    PROVE  IInv'
  <1> DEFINE n == call.new
             w == WriteHashBestChain(n, ConnectBlock(n, txdb))
  <1>1. /\ call.phase = "inner" /\ CanConnect(n, txdb)
        /\ txdb' = w /\ pnext' = [pnext EXCEPT ![Prev[n]] = n] /\ pindexBest' = n
        /\ call' = NoCall /\ batch' = NoBatch
        /\ UNCHANGED <<mapBlockIndex, nBestInvalidTrust, diskInvalidTrust, damaged>>
        /\ NoFault
    BY DEF ConnectTip, Return
  <1>2. n \in Block /\ Prev[n] = pindexBest /\ pindexBest \in Block
    BY <1>1 DEF IInv, CallOK, TypeOK
  <1>3. n # Genesis  BY <1>2, ChildIsNew
  <1>4. w \in Store  BY <1>2, <1>3, StoreTyped DEF IInv, TypeOK
  <1>5. NoCall \in Call /\ NoCall.phase = "none"  BY DEF Call, NoCall, Phases, BlockOrNil
  <1>6. pnext' \in [Block -> BlockOrNil]  BY <1>1, <1>2 DEF IInv, TypeOK, BlockOrNil
  <1>7. TypeOK'
    BY <1>1, <1>2, <1>4, <1>5, <1>6, EnvironmentTyped DEF IInv, TypeOK
  <1>8. CallOK'  BY <1>1, <1>5 DEF CallOK
  <1>9. ASSUME ~damaged
        PROVE  Standing(w, n) /\ w.hashBestChain = n /\ w.hashNext = pnext'
    <2>1. /\ Standing(txdb, txdb.hashBestChain) /\ pnext = txdb.hashNext
          /\ txdb.hashBestChain = pindexBest /\ txdb \in Store
      BY <1>1, <1>9 DEF IInv, ViewsStand, TypeOK
    <2> QED  BY <1>1, <1>2, <2>1, ConnectAndCommit
  <1>10. ViewsStand'  BY <1>1, <1>5, <1>9 DEF ViewsStand
  <1> QED  BY <1>7, <1>8, <1>10 DEF IInv

\* A call that fails before anything is committed leaves the store and the
\* memory as they were.
LEMMA CallFailsIInv ==
    ASSUME IInv, Return, Fault \/ NoFault,
           UNCHANGED <<mapBlockIndex, pnext, pindexBest, txdb, damaged>>,
           nBestInvalidTrust' \in Nat, diskInvalidTrust' \in Nat
    PROVE  IInv'
  <1>1. NoCall \in Call /\ NoCall.phase = "none"  BY DEF Call, NoCall, Phases, BlockOrNil
  <1>2. call' = NoCall /\ batch' = NoBatch  BY DEF Return
  <1>3. TypeOK'  BY <1>1, <1>2, EnvironmentTyped DEF IInv, TypeOK
  <1>4. CallOK'  BY <1>1, <1>2 DEF CallOK
  <1>5. ViewsStand'  BY <1>1, <1>2 DEF IInv, ViewsStand
  <1> QED  BY <1>3, <1>4, <1>5 DEF IInv

\* The block is rejected, or the commit fails.
LEMMA ConnectTipFailsIInv ==
    ASSUME IInv, ConnectTipFails
    PROVE  IInv'
  <1>1. call.new \in Block  BY DEF ConnectTipFails, IInv, CallOK
  <1>2. nBestInvalidTrust' \in Nat /\ diskInvalidTrust' \in Nat
    BY <1>1, InvalidTyped DEF ConnectTipFails, IInv, TypeOK
  <1> QED  BY <1>2, CallFailsIInv DEF ConnectTipFails

\* The reorganisation fails at any point before its commit.
LEMMA ReorgFailsIInv ==
    ASSUME IInv, ReorgFails
    PROVE  IInv'
  <1>1. call.new \in Block  BY DEF ReorgFails, IInv, CallOK
  <1>2. nBestInvalidTrust' \in Nat /\ diskInvalidTrust' \in Nat
    BY <1>1, InvalidTyped DEF ReorgFails, IInv, TypeOK
  <1> QED  BY <1>2, CallFailsIInv DEF ReorgFails

\* One block of the branch that is left.
LEMMA ReorgDisconnectIInv ==
    ASSUME IInv, ReorgDisconnect
    PROVE  IInv'
  <1> DEFINE c == call.at
             v == DisconnectBlock(c, batch)
  <1>1. /\ call.phase = "reorg" /\ c \notin Anc[call.target]
        /\ batch' = v /\ call' = [call EXCEPT !.at = Prev[c]]
        /\ UNCHANGED <<mapBlockIndex, pnext, pindexBest, nBestInvalidTrust, txdb,
                       diskInvalidTrust, crashes, faults, forced, damaged>>
    BY DEF ReorgDisconnect, memory, environment
  <1>2. /\ c \in Block /\ call.target \in Block /\ call.new \in Block /\ batch \in Store
        /\ call.target \in Anc[call.new] /\ call \in Call
    BY <1>1 DEF IInv, CallOK, TypeOK
  <1>3. c # Genesis  BY <1>1, <1>2, Ancestors
  <1>4. Prev[c] \in Block  BY <1>2, <1>3, AncSelf
  <1>5. /\ call' \in Call /\ call'.at = Prev[c] /\ call'.phase = "reorg"
        /\ call'.new = call.new /\ call'.target = call.target
    BY <1>1, <1>2, <1>4 DEF Call, BlockOrNil
  <1>6. v \in Store  BY <1>2, <1>3, StoreTyped DEF IInv, TypeOK
  <1>7. TypeOK'  BY <1>1, <1>5, <1>6 DEF IInv, TypeOK
  <1>8. \A n \in Anc[pindexBest] : n \in Anc[call.target] => n \in Anc[Prev[c]]
    <2>1. Anc[c] = Anc[Prev[c]] \cup {c}  BY <1>2, <1>3, TreeAssumption
    <2> QED  BY <1>1, <2>1 DEF IInv, CallOK
  <1>9. CallOK'  BY <1>1, <1>2, <1>4, <1>5, <1>6, <1>8 DEF CallOK
  <1>10. ~damaged => Standing(v, Prev[c])
    BY <1>1, <1>2, <1>3, DisconnectStanding DEF IInv, ViewsStand
  <1>11. ViewsStand'  BY <1>1, <1>5, <1>10 DEF IInv, ViewsStand
  <1> QED  BY <1>7, <1>9, <1>11 DEF IInv

\* One block of the branch that is taken.
LEMMA ReorgConnectIInv ==
    ASSUME IInv, ReorgConnect
    PROVE  IInv'
  <1>1. PICK n \in Block :
          /\ call.at \in Anc[call.target]
          /\ n \in Anc[call.target] /\ Prev[n] = call.at
          /\ CanConnect(n, batch)
          /\ batch' = ConnectBlock(n, batch)
          /\ call' = [call EXCEPT !.at = n]
    BY DEF ReorgConnect, NextTo
  <1>2. /\ call.phase = "reorg"
        /\ UNCHANGED <<mapBlockIndex, pnext, pindexBest, nBestInvalidTrust, txdb,
                       diskInvalidTrust, crashes, faults, forced, damaged>>
    BY DEF ReorgConnect, memory, environment
  <1>3. /\ call.at \in Block /\ call.target \in Block /\ call.new \in Block /\ batch \in Store
        /\ call.target \in Anc[call.new] /\ call \in Call
        /\ pnext \in [Block -> BlockOrNil] /\ pindexBest \in Block
    BY <1>2 DEF IInv, CallOK, TypeOK
  <1>4. /\ n # Genesis /\ n \notin Anc[call.at] /\ Anc[n] = Anc[call.at] \cup {n}
    BY <1>1, <1>3, ChildIsNew
  <1>5. /\ call' \in Call /\ call'.at = n /\ call'.phase = "reorg"
        /\ call'.new = call.new /\ call'.target = call.target
    BY <1>1, <1>2, <1>3 DEF Call, BlockOrNil
  <1>6. batch' \in Store  BY <1>1, <1>3, <1>4, StoreTyped
  <1>7. TypeOK'  BY <1>2, <1>5, <1>6 DEF IInv, TypeOK
  <1>8. \A m \in Anc[pindexBest] : m \in Anc[call.target] => m \in Anc[n]
    BY <1>2, <1>4 DEF IInv, CallOK
  <1>9. CallOK'  BY <1>2, <1>3, <1>5, <1>6, <1>8 DEF CallOK
  <1>10. ASSUME ~damaged PROVE Standing(batch', n)
    <2>1. /\ Standing(batch, call.at) /\ pnext = txdb.hashNext
          /\ Standing(txdb, pindexBest)
      BY <1>2, <1>10 DEF IInv, ViewsStand
    <2>2. LinksMatch(pnext, pindexBest)  BY <2>1 DEF Standing
    <2>3. n \notin Anc[pindexBest]  BY <1>1, <1>2, <1>4 DEF IInv, CallOK
    <2>4. pnext[n] = Nil  BY <1>3, <2>2, <2>3, NoLinkYet
    <2> QED  BY <1>1, <1>3, <2>1, <2>4, ConnectStanding
  <1>11. ViewsStand'  BY <1>2, <1>5, <1>10 DEF IInv, ViewsStand
  <1> QED  BY <1>7, <1>9, <1>11 DEF IInv

\* The commit of a reorganisation and the update of memory that follows it.
LEMMA ReorgCommitIInv ==
    ASSUME IInv, ReorgCommit
    PROVE  IInv'
  <1> DEFINE c == call.target
             w == WriteHashBestChain(c, batch)
  <1>1. /\ call.phase = "reorg" /\ call.at = c
        /\ txdb' = w /\ pnext' = Relink(pindexBest, c) /\ batch' = NoBatch
        /\ call' = [call EXCEPT !.phase = "extend"]
        /\ UNCHANGED <<mapBlockIndex, pindexBest, nBestInvalidTrust, diskInvalidTrust, damaged>>
        /\ NoFault
    BY DEF ReorgCommit
  <1>2. /\ c \in Block /\ call.new \in Block /\ batch \in Store /\ c \in Anc[call.new]
        /\ call \in Call /\ pindexBest \in Block /\ pnext \in [Block -> BlockOrNil]
    BY <1>1 DEF IInv, CallOK, TypeOK
  <1>3. /\ call' \in Call /\ call'.phase = "extend" /\ call'.at = c
        /\ call'.new = call.new /\ call'.target = c
    BY <1>1, <1>2 DEF Call, Phases
  <1>4. w \in Store /\ w.hashBestChain = c
    BY <1>2 DEF WriteHashBestChain, Store
  <1>5. pnext' \in [Block -> BlockOrNil]
    <2>1. \A a \in Block : Relink(pindexBest, c)[a] \in BlockOrNil
      <3> SUFFICES ASSUME NEW a \in Block PROVE Relink(pindexBest, c)[a] \in BlockOrNil
        OBVIOUS
      <3>1. CASE \E n \in Anc[c] \ Anc[pindexBest] : Prev[n] = a
        <4> DEFINE k == CHOOSE n \in Anc[c] \ Anc[pindexBest] : Prev[n] = a
        <4>1. k \in Anc[c]  BY <3>1
        <4>2. Relink(pindexBest, c)[a] = k  BY <3>1 DEF Relink
        <4> QED  BY <1>2, <4>1, <4>2, TreeAssumption DEF BlockOrNil
      <3>2. CASE ~ \E n \in Anc[c] \ Anc[pindexBest] : Prev[n] = a
        <4>1. Relink(pindexBest, c)[a] \in {Nil, pnext[a]}  BY <3>2 DEF Relink
        <4> QED  BY <1>2, <4>1 DEF BlockOrNil
      <3> QED  BY <3>1, <3>2
    <2>2. Relink(pindexBest, c) = [a \in Block |-> Relink(pindexBest, c)[a]]  BY DEF Relink
    <2> QED  BY <1>1, <2>1, <2>2
  <1>6. TypeOK'
    BY <1>1, <1>3, <1>4, <1>5, EnvironmentTyped DEF IInv, TypeOK
  <1>7. CallOK'  BY <1>1, <1>2, <1>3, <1>4 DEF CallOK
  <1>8. ASSUME ~damaged
        PROVE  Standing(w, c) /\ w.hashNext = pnext'
    <2>1. /\ Standing(batch, c) /\ pnext = txdb.hashNext /\ Standing(txdb, pindexBest)
      BY <1>1, <1>8 DEF IInv, ViewsStand
    <2>2. Standing(w, c) /\ w.hashNext \in [Block -> BlockOrNil]
      BY <1>2, <1>4, <2>1, WriteTipStanding DEF Store
    <2>3. LinksMatch(pnext, pindexBest)  BY <2>1 DEF Standing
    <2>4. LinksMatch(pnext', c)  BY <1>1, <1>2, <2>3, RelinkMatches
    <2>5. LinksMatch(w.hashNext, c)  BY <2>2 DEF Standing
    <2> QED  BY <1>5, <2>2, <2>4, <2>5, LinksUnique
  <1>9. ViewsStand'  BY <1>1, <1>3, <1>4, <1>8 DEF ViewsStand
  <1> QED  BY <1>6, <1>7, <1>9 DEF IInv

\* A postponed block is connected.
LEMMA ExtendConnectIInv ==
    ASSUME IInv, ExtendConnect
    PROVE  IInv'
  <1>1. PICK n \in Block :
          /\ n \in Anc[call.new] /\ Prev[n] = call.at
          /\ CanConnect(n, txdb)
          /\ txdb' = WriteHashBestChain(n, ConnectBlock(n, txdb))
          /\ pnext' = [pnext EXCEPT ![Prev[n]] = n]
          /\ call' = [call EXCEPT !.at = n]
    BY DEF ExtendConnect, NextTo
  <1>2. /\ call.phase = "extend" /\ NoFault
        /\ UNCHANGED <<mapBlockIndex, pindexBest, nBestInvalidTrust, diskInvalidTrust,
                       batch, damaged>>
    BY DEF ExtendConnect
  <1>3. /\ call.at \in Block /\ call.target \in Block /\ call.new \in Block
        /\ txdb.hashBestChain = call.at /\ call \in Call /\ txdb \in Store
        /\ pnext \in [Block -> BlockOrNil]
    BY <1>2 DEF IInv, CallOK, TypeOK
  <1>4. n # Genesis  BY <1>1, <1>3, ChildIsNew
  <1>5. /\ call' \in Call /\ call'.at = n /\ call'.phase = "extend"
        /\ call'.new = call.new /\ call'.target = call.target
    BY <1>1, <1>2, <1>3 DEF Call, BlockOrNil
  <1>6. txdb' \in Store /\ txdb'.hashBestChain = n
    <2>1. ConnectBlock(n, txdb) \in Store  BY <1>3, <1>4, StoreTyped
    <2> QED  BY <1>1, <2>1 DEF WriteHashBestChain, Store
  <1>7. pnext' \in [Block -> BlockOrNil]  BY <1>1, <1>3 DEF BlockOrNil
  <1>8. TypeOK'  BY <1>2, <1>5, <1>6, <1>7, EnvironmentTyped DEF IInv, TypeOK
  <1>9. CallOK'  BY <1>1, <1>3, <1>5, <1>6 DEF CallOK
  <1>10. ASSUME ~damaged PROVE Standing(txdb', n) /\ txdb'.hashNext = pnext'
    BY <1>1, <1>3, <1>10, ConnectAndCommit DEF IInv, ViewsStand
  <1>11. ViewsStand'  BY <1>2, <1>5, <1>6, <1>10 DEF ViewsStand
  <1> QED  BY <1>8, <1>9, <1>11 DEF IInv

\* The end of the call, complete or cut short.
LEMMA ExtendEndsIInv ==
    ASSUME IInv, ExtendFails \/ ExtendDone
    PROVE  IInv'
  <1>1. /\ call.phase = "extend" /\ pindexBest' = call.new
        /\ call' = NoCall /\ batch' = NoBatch
        /\ UNCHANGED <<mapBlockIndex, pnext, txdb, damaged>>
        /\ Fault \/ NoFault
    BY DEF ExtendFails, ExtendDone, Return
  <1>2. nBestInvalidTrust' \in Nat /\ diskInvalidTrust' \in Nat
    BY InvalidTyped DEF ExtendFails, ExtendDone, IInv, TypeOK
  <1>3. call.new \in Block  BY <1>1 DEF IInv, CallOK
  <1>4. NoCall \in Call /\ NoCall.phase = "none"  BY DEF Call, NoCall, Phases, BlockOrNil
  <1>5. TypeOK'  BY <1>1, <1>2, <1>3, <1>4, EnvironmentTyped DEF IInv, TypeOK
  <1>6. CallOK'  BY <1>1, <1>4 DEF CallOK
  <1>7. ViewsStand'  BY <1>1, <1>4 DEF IInv, ViewsStand
  <1> QED  BY <1>5, <1>6, <1>7 DEF IInv

\* Every step keeps the invariant.
LEMMA NextIInv == IInv /\ [Next]_vars => IInv'
  <1> SUFFICES ASSUME IInv, [Next]_vars PROVE IInv'  OBVIOUS
  <1>1. CASE UNCHANGED vars
    BY <1>1 DEF vars, memory, environment, IInv, TypeOK, CallOK, ViewsStand
  <1>2. CASE Next
    BY <1>2, AddToBlockIndexIInv, AddToBlockIndexFailsIInv, ForceCheckpointIInv,
       ConnectTipIInv, ConnectTipFailsIInv, ReorgDisconnectIInv, ReorgConnectIInv,
       ReorgCommitIInv, ReorgFailsIInv, ExtendConnectIInv, ExtendEndsIInv,
       RestartIInv, RestartAndMoveBackIInv
    DEF Next, CallStep
  <1> QED  BY <1>1, <1>2

\* The invariant holds in every reachable state.
THEOREM Invariance == Spec => []IInv
  BY InitIInv, NextIInv, PTL DEF Spec

\* The variables keep their types, for every tree and every environment.
THEOREM TypeCorrect == Spec => []TypeOK
  <1>1. IInv => TypeOK  BY DEF IInv
  <1> QED  BY <1>1, Invariance, PTL

\* The committed transaction index and links are those of the committed chain,
\* at every moment and so after a crash at every moment.
THEOREM StoreConsistent == Spec => []StoreIsItsChain
  <1>1. IInv => StoreIsItsChain
    BY DEF IInv, ViewsStand, Standing, StoreIsItsChain
  <1> QED  BY <1>1, Invariance, PTL

\* The committed chain obeys the ledger rules.
THEOREM StoreValid == Spec => []StoreIsValid
  <1>1. IInv => StoreIsValid
    BY DEF IInv, ViewsStand, Standing, StoreIsValid
  <1> QED  BY <1>1, Invariance, PTL

\* The links of memory are those of the store.
THEOREM LinksConsistent == Spec => []LinksAreStored
  <1>1. IInv => LinksAreStored
    BY DEF IInv, ViewsStand, LinksAreStored
  <1> QED  BY <1>1, Invariance, PTL

(***************************************************************************)
(* The stored tip moves up.  As long as nothing was forced, memory is at   *)
(* least as heavy as the store and the goal of a call is heavier.          *)
(***************************************************************************)
TrustOK ==
    forced = 0 =>
        /\ call.phase # "extend" =>
              ChainTrust[txdb.hashBestChain] <= ChainTrust[pindexBest]
        /\ call.phase = "inner" => ChainTrust[call.new] > ChainTrust[pindexBest]
        /\ call.phase = "reorg" => ChainTrust[call.target] > ChainTrust[pindexBest]

\* The block Reorganize goes to is heavier than the tip if the new block is.
LEMMA IntermediateHeavier ==
    ASSUME NEW a \in Block, NEW new \in Block, NEW tip \in Block,
           IsIntermediate(a, new, tip), ChainTrust[new] > ChainTrust[tip]
    PROVE  ChainTrust[a] > ChainTrust[tip]
  <1>1. a \in Anc[new]  BY DEF IsIntermediate
  <1>2. CASE a = new  BY <1>2
  <1>3. CASE a # new
    <2>1. PICK c \in Anc[new] : Prev[c] = a  BY <1>1, <1>3, Ancestors
    <2>2. c \in Block /\ c # Genesis  BY <2>1, TreeAssumption
    <2>3. Height[c] > Height[a]  BY <2>1, <2>2, TreeAssumption
    <2> QED  BY <2>1, <2>3 DEF IsIntermediate
  <1> QED  BY <1>2, <1>3

\* A step keeps TrustOK and moves the stored tip up.
LEMMA NextTrust ==
    ASSUME IInv, TrustOK, [Next]_vars
    PROVE  /\ TrustOK'
           /\ forced = 0 /\ forced' = 0 /\ txdb'.hashBestChain # txdb.hashBestChain
                => ChainTrust[txdb'.hashBestChain] > ChainTrust[txdb.hashBestChain]
  <1> DEFINE best == txdb.hashBestChain
  <1>0. /\ best \in Block /\ pindexBest \in Block /\ txdb \in Store
        /\ forced \in Nat /\ ChainTrust \in [Block -> Nat]
    BY BoundAssumption, TreeAssumption DEF IInv, TypeOK, Store
  <1>1. CASE UNCHANGED vars
    BY <1>1 DEF vars, memory, environment, TrustOK
  <1>2. ASSUME NEW b \in Block, AddToBlockIndex(b)
        PROVE  TrustOK' /\ txdb'.hashBestChain = best
    <2>1. txdb'.hashBestChain = best /\ pindexBest' = pindexBest /\ forced' = forced
      BY <1>0, <1>2 DEF AddToBlockIndex, environment, Store
    <2>2. call.phase = "none"  BY <1>2 DEF AddToBlockIndex, NoCall
    <2>3. CASE UNCHANGED <<call, batch, damaged>>
      BY <2>1, <2>2, <2>3 DEF TrustOK
    <2>4. CASE ChainTrust[b] > ChainTrust[pindexBest] /\ SetBestChain(b, pindexBest, txdb')
      BY <1>0, <2>1, <2>2, <2>4, IntermediateHeavier DEF TrustOK, SetBestChain
    <2> QED  BY <1>2, <2>1, <2>3, <2>4 DEF AddToBlockIndex, IsNewBest
  <1>3. ASSUME NEW b \in Block, AddToBlockIndexFails(b)
        PROVE  TrustOK' /\ txdb'.hashBestChain = best
    BY <1>3 DEF AddToBlockIndexFails, Fault, TrustOK
  <1>4. ASSUME NEW b \in Block, ForceCheckpoint(b) \/ RestartAndMoveBack(b)
        PROVE  TrustOK' /\ txdb'.hashBestChain = best
    BY <1>0, <1>4 DEF ForceCheckpoint, RestartAndMoveBack, Reload, TrustOK
  <1>5. ASSUME Restart PROVE TrustOK' /\ txdb'.hashBestChain = best
    BY <1>0, <1>5 DEF Restart, Reload, Return, NoCall, TrustOK
  <1>6. ASSUME ConnectTipFails \/ ReorgFails
        PROVE  TrustOK' /\ txdb'.hashBestChain = best
    BY <1>6 DEF ConnectTipFails, ReorgFails, Return, NoCall, Fault, NoFault, environment, TrustOK
  <1>7. ASSUME ReorgDisconnect \/ ReorgConnect
        PROVE  TrustOK' /\ txdb'.hashBestChain = best
    <2>1. call \in Call  BY DEF IInv, TypeOK
    <2> QED
      BY <1>7, <2>1 DEF ReorgDisconnect, ReorgConnect, memory, environment, TrustOK, Call
  <1>8. ASSUME ExtendFails \/ ExtendDone
        PROVE  TrustOK' /\ txdb'.hashBestChain = best
    <2>1. call.new \in Block /\ best \in Anc[call.new]
      BY <1>8 DEF ExtendFails, ExtendDone, IInv, CallOK
    <2>2. ChainTrust[best] <= ChainTrust[call.new]  BY <2>1, Ancestors
    <2> QED
      BY <1>8, <2>2 DEF ExtendFails, ExtendDone, Return, NoCall, TrustOK
  <1>9. ASSUME ConnectTip
        PROVE  /\ TrustOK'
               /\ forced = 0 => ChainTrust[txdb'.hashBestChain] > ChainTrust[best]
    <2>1. call.new \in Block /\ call.phase = "inner" /\ Prev[call.new] = pindexBest
      BY <1>9 DEF ConnectTip, IInv, CallOK
    <2>2. ConnectBlock(call.new, txdb) \in Store
      BY <1>0, <2>1, ChildIsNew, StoreTyped DEF IInv, TypeOK
    <2>3. txdb'.hashBestChain = call.new
      BY <1>9, <2>2 DEF ConnectTip, WriteHashBestChain, Store
    <2>4. forced' = forced /\ pindexBest' = call.new /\ call'.phase = "none"
      BY <1>9 DEF ConnectTip, NoFault, environment, Return, NoCall
    <2> QED  BY <1>0, <2>1, <2>3, <2>4 DEF TrustOK
  <1>10. ASSUME ReorgCommit
         PROVE  /\ TrustOK'
                /\ forced = 0 => ChainTrust[txdb'.hashBestChain] > ChainTrust[best]
    <2>1. call.target \in Block /\ call.phase = "reorg" /\ batch \in Store /\ call \in Call
      BY <1>10 DEF ReorgCommit, IInv, CallOK, TypeOK
    <2>2. txdb'.hashBestChain = call.target
      BY <1>10, <2>1 DEF ReorgCommit, WriteHashBestChain, Store
    <2>3. call'.phase = "extend"  BY <1>10, <2>1 DEF ReorgCommit, Call
    <2> QED  BY <1>0, <2>1, <2>2, <2>3 DEF TrustOK
  <1>11. ASSUME ExtendConnect
         PROVE  /\ TrustOK'
                /\ ChainTrust[txdb'.hashBestChain] > ChainTrust[best]
    <2>1. PICK n \in Block :
            /\ Prev[n] = call.at
            /\ txdb' = WriteHashBestChain(n, ConnectBlock(n, txdb))
            /\ call' = [call EXCEPT !.at = n]
      BY <1>11 DEF ExtendConnect, NextTo
    <2>2. call.at = best /\ call.phase = "extend" /\ call \in Call
      BY <1>11 DEF ExtendConnect, IInv, CallOK, TypeOK
    <2>3. n # Genesis  BY <1>0, <2>1, <2>2, ChildIsNew
    <2>4. ConnectBlock(n, txdb) \in Store
      BY <1>0, <2>3, StoreTyped DEF IInv, TypeOK
    <2>5. txdb'.hashBestChain = n  BY <2>1, <2>4 DEF WriteHashBestChain, Store
    <2>6. call'.phase = "extend"  BY <2>1, <2>2 DEF Call
    <2>7. ChainTrust[n] > ChainTrust[best]  BY <2>1, <2>2, <2>3, TreeAssumption
    <2> QED  BY <2>5, <2>6, <2>7 DEF TrustOK
  <1> QED
    BY <1>1, <1>2, <1>3, <1>4, <1>5, <1>6, <1>7, <1>8, <1>9, <1>10, <1>11
    DEF Next, CallStep

\* Unless a move is forced, the stored tip only ever gets heavier.
THEOREM StoreOnlyMovesUp == Spec => StoreMovesUp
  <1>1. Init => TrustOK
    BY TreeAssumption DEF Init, TrustOK, NoCall
  <1>2. IInv /\ TrustOK /\ [Next]_vars => TrustOK'  BY NextTrust
  <1>3. IInv /\ TrustOK /\ [Next]_vars =>
          [forced = 0 /\ forced' = 0 /\ txdb'.hashBestChain # txdb.hashBestChain
             => ChainTrust[txdb'.hashBestChain] > ChainTrust[txdb.hashBestChain]]_vars
    BY NextTrust
  <1> QED  BY <1>1, <1>2, <1>3, Invariance, PTL DEF Spec, StoreMovesUp

(***************************************************************************)
(* The calm node: nothing crashes, fails or is forced.  ConnectBlock       *)
(* computes the reward for the height of the old tip, so it must fit the   *)
(* block at every tip c from which the block may be connected: its parent, *)
(* or a tip of another branch no lighter than the parent.  Then every      *)
(* valid block was tried when it arrived, so the node is at the heaviest   *)
(* valid chain it knows.                                                   *)
(***************************************************************************)
ClaimsFit ==
    \A b \in Sound \ {Genesis}, c \in Block :
        b \notin Anc[c] /\ ChainTrust[Prev[b]] <= ChainTrust[c]
            => Claim[b] <= GetProofOfWorkReward(Height[c])

Calm == MaxCrashes = 0 /\ MaxFaults = 0 /\ MaxForced = 0 /\ ClaimsFit

\* The ancestors of a block of the index are in the index.
IndexClosed == \A b \in mapBlockIndex : Anc[b] \subseteq mapBlockIndex

\* A call goes to a heavier block; where Reorganize would stop before it, it
\* will fail.
GoalOK ==
    call.phase # "none" =>
        /\ call.new \in mapBlockIndex
        /\ ChainTrust[call.new] > ChainTrust[pindexBest]
        /\ call.phase = "reorg" /\ call.target # call.new => ~ValidChain(call.target)

\* The tip of memory is that of the store until the commit of a call.
TipOK ==
    /\ call.phase = "extend" => call.at = call.new
    /\ call.phase # "extend" => pindexBest = txdb.hashBestChain

\* Every valid block but the one being tried is no heavier than the tip.
MostTrust ==
    \A b \in mapBlockIndex \ {call.new} :
        ValidChain(b) => ChainTrust[b] <= ChainTrust[pindexBest]

CInv == Calm /\ ~damaged /\ IndexClosed /\ GoalOK /\ TipOK /\ MostTrust

\* The chain to an ancestor of a valid chain's end is valid.
LEMMA ValidPrefix ==
    ASSUME NEW c \in Block, NEW a \in Anc[c], ValidChain(c)
    PROVE  ValidChain(a)
  <1>1. Anc[a] \subseteq Anc[c]  BY Ancestors
  <1>2. SpendsOnce(a) /\ NoTxTwice(a)
    BY <1>1 DEF ValidChain, SpendsOnce, NoTxTwice
  <1>3. InputsExist(a)
    BY <1>1 DEF ValidChain, InputsExist
  <1> QED  BY <1>1, <1>2, <1>3 DEF ValidChain

\* ConnectBlock, which sees only the index, refuses no block of a valid chain:
\* the converse of ConnectStanding.
LEMMA ValidConnects ==
    ASSUME NEW view, NEW c \in Block, Standing(view, c),
           NEW n \in Block, Prev[n] = c, ValidChain(n), ClaimsFit, pindexBest \in Block,
           n \notin Anc[pindexBest], ChainTrust[c] <= ChainTrust[pindexBest]
    PROVE  CanConnect(n, view)
  <1>1. /\ n # Genesis /\ n \notin Anc[c] /\ Anc[n] = Anc[c] \cup {n} /\ Anc[c] \subseteq Block
        /\ \A a \in Anc[c] : Height[a] < Height[n]
    BY ChildIsNew
  <1>2. n \in Sound  BY <1>1 DEF ValidChain
  <1>3. /\ view \in Store /\ IndexMatches(view, c)
        /\ SpendsOnce(n) /\ NoTxTwice(n) /\ InputsExist(n)
    BY DEF Standing, ValidChain
  <1>4. /\ \A t \in Tx : view.txindex[t] \in Block \cup {Nil}
        /\ \A o \in Out : view.vSpent[o] \in Block \cup {Nil}
    BY <1>3 DEF Store, BlockOrNil
  <1>5. \A t \in Txs(n), a \in Anc[c] : t \notin Txs(a)
    BY <1>1, <1>3 DEF NoTxTwice
  <1>6. NoOverwrite(n, view)
    <2> SUFFICES ASSUME NEW o \in Out, OutTx[o] \in Txs(n), view.txindex[OutTx[o]] # Nil
                 PROVE  FALSE
      BY DEF NoOverwrite
    <2>1. OutTx[o] \in Tx  BY TxAssumption
    <2>2. PICK a \in Block : view.txindex[OutTx[o]] = a  BY <1>4, <2>1
    <2>3. a \in Anc[c] /\ OutTx[o] \in Txs(a)  BY <1>3, <2>1, <2>2 DEF IndexMatches
    <2> QED  BY <1>5, <2>3
  <1>7. ASSUME NEW i \in DOMAIN Vtx[n], NEW o \in Vin[Vtx[n][i]]
        PROVE  /\ Position(n, i, o, view) # Nil
               /\ OutTx[o] \in Generated =>
                     \A a \in Anc[n] : Height[n] - Height[a] < nCoinbaseMaturity
                                          => Position(n, i, o, view) # a
               /\ OutTx[o] \in Before(n, i) \/ view.vSpent[o] = Nil
               /\ \A t \in Before(n, i) : o \notin Vin[t]
    <2>1. o \in SpentIn(n) /\ o \in Out /\ OutTx[o] \in Tx
      BY BlockContents, TxAssumption
    <2>2. /\ Height[n] \in Nat /\ nCoinbaseMaturity \in Nat
          /\ \A a \in Anc[n] : Height[a] \in Nat /\ Height[a] <= Height[n]
      BY TreeAssumption, TxAssumption, Ancestors
    <2>3. n \in Anc[n] /\ n # Nil  BY AncSelf, TreeAssumption
    <2>4. \/ OutTx[o] \in Before(n, i) /\ (OutTx[o] \in Generated => nCoinbaseMaturity = 0)
          \/ \E a \in Anc[n] \ {n} :
                /\ OutTx[o] \in Txs(a)
                /\ OutTx[o] \in Generated => Height[n] - Height[a] >= nCoinbaseMaturity
      BY <1>3, <2>3 DEF InputsExist
    <2>5. view.vSpent[o] = Nil
      <3> SUFFICES ASSUME NEW d \in Block, view.vSpent[o] = d PROVE FALSE
        BY <1>4, <2>1
      <3>1. d \in Anc[c] /\ o \in SpentIn(d)  BY <1>3, <2>1 DEF IndexMatches
      <3> QED  BY <1>1, <1>3, <2>1, <2>3, <3>1 DEF SpendsOnce
    <2>6. \A t \in Before(n, i) : o \notin Vin[t]
      <3> SUFFICES ASSUME NEW t \in Before(n, i), o \in Vin[t] PROVE FALSE
        OBVIOUS
      <3>1. PICK j \in DOMAIN Vtx[n] : j < i /\ t = Vtx[n][j]  BY BeforeContents
      <3>2. i # j  BY <3>1, BlockContents
      <3> QED  BY <1>3, <2>3, <3>1, <3>2 DEF SpendsOnce
    <2>7. CASE OutTx[o] \in Before(n, i) /\ (OutTx[o] \in Generated => nCoinbaseMaturity = 0)
      <3>1. Position(n, i, o, view) = n  BY <2>7 DEF Position
      <3>2. OutTx[o] \in Generated =>
              \A a \in Anc[n] : ~(Height[n] - Height[a] < nCoinbaseMaturity)
        BY <2>2, <2>7
      <3> QED  BY <2>3, <2>5, <2>6, <3>1, <3>2
    <2>8. ASSUME NEW a \in Anc[n] \ {n}, OutTx[o] \in Txs(a),
                 OutTx[o] \in Generated => Height[n] - Height[a] >= nCoinbaseMaturity
          PROVE  /\ Position(n, i, o, view) # Nil
                 /\ OutTx[o] \in Generated =>
                       \A d \in Anc[n] : Height[n] - Height[d] < nCoinbaseMaturity
                                            => Position(n, i, o, view) # d
      <3>1. a \in Anc[c] /\ a \in Block /\ a # Nil  BY <1>1, <2>8, TreeAssumption
      <3>2. OutTx[o] \notin Before(n, i)
        BY <1>5, <2>8, <3>1, BeforeContents
      <3>3. Position(n, i, o, view) = a
        BY <1>3, <2>1, <2>8, <3>1, <3>2 DEF Position, IndexMatches
      <3>4. OutTx[o] \in Generated => ~(Height[n] - Height[a] < nCoinbaseMaturity)
        BY <2>2, <2>8
      <3> QED  BY <3>1, <3>3, <3>4
    <2> QED  BY <2>4, <2>5, <2>6, <2>7, <2>8
  <1>8. \A i \in DOMAIN Vtx[n] : FetchInputs(n, i, view) /\ ConnectInputs(n, i, view)
    BY <1>7 DEF FetchInputs, ConnectInputs
  <1>9. Claim[n] <= GetProofOfWorkReward(Height[pindexBest])
    BY <1>1, <1>2 DEF ClaimsFit
  <1> QED  BY <1>2, <1>6, <1>8, <1>9 DEF CanConnect

\* DisconnectInputs finds what it reads for every block of a valid chain.
LEMMA ValidDisconnects ==
    ASSUME NEW view, NEW c \in Block, Standing(view, c), c # Genesis
    PROVE  CanDisconnect(c, view)
  <1>1. /\ view \in Store /\ IndexMatches(view, c) /\ c \in Sound /\ c \in Anc[c]
        /\ NoTxTwice(c) /\ InputsExist(c)
    BY AncSelf DEF Standing, ValidChain
  <1>2. Vtx[c] \in Seq(Tx)  BY TxAssumption
  <1>3. DOMAIN Vtx[c] = 1 .. Len(Vtx[c]) /\ Len(Vtx[c]) \in Nat  BY <1>2
  <1>4. ASSUME NEW i \in DOMAIN Vtx[c], NEW o \in Vin[Vtx[c][i]]
        PROVE  /\ view.txindex[OutTx[o]] # Nil
               /\ \A j \in (i + 1) .. Len(Vtx[c]) : Vtx[c][j] # OutTx[o]
    <2>1. OutTx[o] \in Tx  BY BlockContents, TxAssumption
    <2>2. \/ OutTx[o] \in Before(c, i)
          \/ \E a \in Anc[c] \ {c} : OutTx[o] \in Txs(a)
      BY <1>1 DEF InputsExist
    <2>3. PICK a \in Anc[c] : OutTx[o] \in Txs(a)
      BY <1>1, <2>2, BeforeContents
    <2>4. a \in Block /\ a # Nil  BY <2>3, TreeAssumption
    <2>5. view.txindex[OutTx[o]] = a  BY <1>1, <2>1, <2>3, <2>4 DEF IndexMatches
    <2>6. ASSUME NEW j \in (i + 1) .. Len(Vtx[c]), Vtx[c][j] = OutTx[o]
          PROVE  FALSE
      <3>1. j \in DOMAIN Vtx[c] /\ i < j /\ i \in Nat /\ j \in Nat  BY <1>3, <2>6
      <3>2. OutTx[o] \in Txs(c)  BY <2>6, <3>1, BlockContents
      <3>3. OutTx[o] \in Before(c, i)  BY <1>1, <2>2, <3>2 DEF NoTxTwice
      <3>4. PICK k \in DOMAIN Vtx[c] : k < i /\ OutTx[o] = Vtx[c][k]
        BY <3>3, BeforeContents
      <3>5. k # j  BY <1>3, <3>1, <3>4
      <3> QED  BY <1>1, <2>6, <3>1, <3>4, <3>5, TxAssumption
    <2> QED  BY <2>4, <2>5, <2>6
  <1> QED  BY <1>4 DEF CanDisconnect

\* In the calm node no fault, crash or forced move happens.
LEMMA NothingHappens ==
    ASSUME TypeOK, Calm
    PROVE  /\ ~Fault /\ ~Reload
           /\ \A b \in Block : ~ForceCheckpoint(b) /\ ~AddToBlockIndexFails(b)
  <1>1. ~(faults < MaxFaults) /\ ~(crashes < MaxCrashes) /\ ~(forced < MaxForced)
    BY DEF TypeOK, Calm
  <1> QED  BY <1>1 DEF Fault, Reload, ForceCheckpoint, AddToBlockIndexFails

\* A block arrives.
LEMMA AddToBlockIndexCalm ==
    ASSUME IInv, CInv, NEW b \in Block, AddToBlockIndex(b)
    PROVE  CInv'
  <1>0. /\ ~damaged /\ IndexClosed /\ TipOK /\ MostTrust /\ TypeOK
        /\ pindexBest \in Block /\ txdb \in Store /\ mapBlockIndex \subseteq Block
        /\ ChainTrust \in [Block -> Nat]
    BY TreeAssumption DEF CInv, IInv, TypeOK
  <1>1. /\ call = NoCall /\ Prev[b] \in mapBlockIndex
        /\ mapBlockIndex' = mapBlockIndex \cup {b}
        /\ pindexBest' = pindexBest
    BY DEF AddToBlockIndex
  <1>2. txdb'.hashBestChain = txdb.hashBestChain
    BY <1>0 DEF AddToBlockIndex, Store
  <1>3. NoCall.phase = "none" /\ NoCall.new = Nil  BY DEF NoCall
  <1>4. b # Genesis /\ Anc[b] = Anc[Prev[b]] \cup {b}
    BY <1>0, <1>1, TreeAssumption
  <1>5. IndexClosed'
    BY <1>0, <1>1, <1>4 DEF IndexClosed
  <1>6. \A d \in mapBlockIndex : ValidChain(d) => ChainTrust[d] <= ChainTrust[pindexBest]
    BY <1>0, <1>1, <1>3, TreeAssumption DEF MostTrust
  <1>7. pindexBest = txdb.hashBestChain  BY <1>0, <1>1, <1>3 DEF TipOK
  <1>8. CASE ~IsNewBest(b) /\ UNCHANGED <<call, damaged>>
    <2>1. ChainTrust[b] <= ChainTrust[pindexBest]
      BY <1>0, <1>8 DEF IsNewBest
    <2>2. MostTrust'
      BY <1>1, <1>6, <2>1 DEF MostTrust
    <2>3. GoalOK' /\ TipOK'
      BY <1>1, <1>2, <1>3, <1>7, <1>8 DEF GoalOK, TipOK
    <2> QED  BY <1>0, <1>5, <1>8, <2>2, <2>3 DEF CInv
  <1>9. CASE IsNewBest(b) /\ SetBestChain(b, pindexBest, txdb')
    <2>1. ~damaged'  BY <1>0, <1>2, <1>7, <1>9 DEF SetBestChain
    <2>2. call'.new = b /\ call'.phase \in {"inner", "reorg"}
      BY <1>9 DEF SetBestChain
    <2>3. ASSUME call'.phase = "reorg", call'.target # b
          PROVE  ~ValidChain(call'.target)
      <3>1. PICK a \in Block : IsIntermediate(a, b, pindexBest) /\ call'.target = a
        BY <1>9, <2>3 DEF SetBestChain
      <3>2. ChainTrust[a] > ChainTrust[pindexBest]
        BY <1>0, <1>9, <3>1, IntermediateHeavier DEF IsNewBest
      <3>3. a \in Anc[b] /\ a # b  BY <2>3, <3>1 DEF IsIntermediate
      <3>4. a \in mapBlockIndex  BY <1>0, <1>1, <1>4, <3>3 DEF IndexClosed
      <3>5. ChainTrust[a] \in Nat /\ ChainTrust[pindexBest] \in Nat  BY <1>0, <3>1
      <3> QED  BY <1>6, <3>1, <3>2, <3>4, <3>5
    <2>4. ChainTrust[b] > ChainTrust[pindexBest]  BY <1>9 DEF IsNewBest
    <2>5. GoalOK'
      BY <1>1, <2>2, <2>3, <2>4 DEF GoalOK
    <2>6. TipOK'
      BY <1>1, <1>2, <1>7, <2>2 DEF TipOK
    <2>7. MostTrust'
      BY <1>1, <1>6, <2>2 DEF MostTrust
    <2> QED  BY <1>5, <2>1, <2>5, <2>6, <2>7 DEF CInv
  <1> QED  BY <1>8, <1>9 DEF AddToBlockIndex

\* A call that ends with the new block as the tip.
LEMMA EndsAtNew ==
    ASSUME IInv, CInv, call.phase # "none", Return, pindexBest' = call.new,
           txdb'.hashBestChain = call.new, UNCHANGED <<mapBlockIndex, damaged>>
    PROVE  CInv'
  <1>0. /\ ~damaged /\ IndexClosed /\ GoalOK /\ MostTrust /\ pindexBest \in Block
        /\ mapBlockIndex \subseteq Block /\ ChainTrust \in [Block -> Nat]
    BY TreeAssumption DEF CInv, IInv, TypeOK
  <1>1. call'.phase = "none" /\ call'.new = Nil  BY DEF Return, NoCall
  <1>2. /\ call.new \in mapBlockIndex /\ call.new \in Block
        /\ ChainTrust[call.new] > ChainTrust[pindexBest]
    BY <1>0 DEF GoalOK
  <1>3. MostTrust'
    <2> SUFFICES ASSUME NEW b \in mapBlockIndex, ValidChain(b)
                 PROVE  ChainTrust[b] <= ChainTrust[call.new]
      BY DEF MostTrust
    <2>1. b \in Block /\ ChainTrust[b] \in Nat /\ ChainTrust[call.new] \in Nat
          /\ ChainTrust[pindexBest] \in Nat
      BY <1>0, <1>2
    <2>2. CASE b = call.new  BY <2>1, <2>2
    <2>3. CASE b # call.new
      <3>1. ChainTrust[b] <= ChainTrust[pindexBest]  BY <1>0, <2>3 DEF MostTrust
      <3> QED  BY <1>2, <2>1, <3>1
    <2> QED  BY <2>2, <2>3
  <1>4. GoalOK' /\ TipOK'  BY <1>1 DEF GoalOK, TipOK
  <1>5. IndexClosed'  BY <1>0 DEF IndexClosed
  <1> QED  BY <1>0, <1>3, <1>4, <1>5 DEF CInv

\* A call that fails because the new block does not end a valid chain.
LEMMA EndsAtOld ==
    ASSUME IInv, CInv, call.phase \in {"inner", "reorg"}, Return, ~ValidChain(call.new),
           UNCHANGED <<mapBlockIndex, pindexBest, txdb, damaged>>
    PROVE  CInv'
  <1>0. ~damaged /\ IndexClosed /\ TipOK /\ MostTrust  BY DEF CInv
  <1>1. call'.phase = "none" /\ call'.new = Nil  BY DEF Return, NoCall
  <1>2. MostTrust'  BY <1>0 DEF MostTrust
  <1>3. GoalOK' /\ TipOK'  BY <1>0, <1>1 DEF GoalOK, TipOK
  <1>4. IndexClosed'  BY <1>0 DEF IndexClosed
  <1> QED  BY <1>0, <1>2, <1>3, <1>4 DEF CInv

\* A child of the tip.
LEMMA ConnectTipCalm ==
    ASSUME IInv, CInv, ConnectTip \/ ConnectTipFails
    PROVE  CInv'
  <1>0. /\ ~damaged /\ Calm /\ TypeOK /\ CallOK /\ ViewsStand /\ pindexBest \in Block
        /\ txdb \in Store
    BY DEF CInv, IInv, TypeOK
  <1>1. call.phase = "inner"  BY DEF ConnectTip, ConnectTipFails
  <1>2. call.new \in Block /\ Prev[call.new] = pindexBest  BY <1>0, <1>1 DEF CallOK
  <1>3. Standing(txdb, pindexBest)  BY <1>0, <1>1 DEF ViewsStand
  <1>4. CASE ConnectTip
    <2>1. ConnectBlock(call.new, txdb) \in Store
      BY <1>0, <1>2, ChildIsNew, StoreTyped DEF TypeOK
    <2>2. txdb'.hashBestChain = call.new
      BY <1>4, <2>1 DEF ConnectTip, WriteHashBestChain, Store
    <2> QED  BY <1>1, <1>4, <2>2, EndsAtNew DEF ConnectTip
  <1>5. CASE ConnectTipFails
    <2>1. ~CanConnect(call.new, txdb)
      BY <1>0, <1>5, NothingHappens DEF ConnectTipFails
    <2>2. ClaimsFit  BY <1>0 DEF Calm
    <2>3. call.new \notin Anc[pindexBest] /\ ChainTrust[pindexBest] <= ChainTrust[pindexBest]
      BY <1>0, <1>2, ChildIsNew, TreeAssumption
    <2>4. ~ValidChain(call.new)
      BY <1>0, <1>2, <1>3, <2>1, <2>2, <2>3, ValidConnects
    <2> QED  BY <1>1, <1>5, <2>4, EndsAtOld DEF ConnectTipFails
  <1> QED  BY <1>4, <1>5

\* A step inside Reorganize.
LEMMA ReorgStepCalm ==
    ASSUME IInv, CInv, ReorgDisconnect \/ ReorgConnect
    PROVE  CInv'
  <1>0. /\ ~damaged /\ IndexClosed /\ GoalOK /\ TipOK /\ MostTrust /\ call \in Call
    BY DEF CInv, IInv, TypeOK
  <1>1. /\ UNCHANGED <<mapBlockIndex, pindexBest, txdb, damaged>>
        /\ call.phase = "reorg" /\ \E a : call' = [call EXCEPT !.at = a]
    BY DEF ReorgDisconnect, ReorgConnect, memory
  <1>2. call'.phase = "reorg" /\ call'.new = call.new /\ call'.target = call.target
    BY <1>0, <1>1 DEF Call
  <1>3. GoalOK' /\ TipOK' /\ MostTrust' /\ IndexClosed'
    BY <1>0, <1>1, <1>2 DEF GoalOK, TipOK, MostTrust, IndexClosed
  <1> QED  BY <1>0, <1>1, <1>3 DEF CInv

\* Reorganize commits only the chain to the new block itself.
LEMMA ReorgCommitCalm ==
    ASSUME IInv, CInv, ReorgCommit
    PROVE  /\ CInv'
           /\ call.target = call.new /\ txdb'.hashBestChain = call.new /\ ValidChain(call.new)
  <1>0. /\ ~damaged /\ IndexClosed /\ GoalOK /\ MostTrust /\ call \in Call
        /\ CallOK /\ ViewsStand
    BY DEF CInv, IInv, TypeOK
  <1>1. /\ call.phase = "reorg" /\ call.at = call.target
        /\ txdb' = WriteHashBestChain(call.target, batch)
        /\ call' = [call EXCEPT !.phase = "extend"]
        /\ UNCHANGED <<mapBlockIndex, pindexBest, damaged>>
    BY DEF ReorgCommit
  <1>2. batch \in Store /\ call.target \in Block  BY <1>0, <1>1 DEF CallOK
  <1>3. ValidChain(call.target)  BY <1>0, <1>1 DEF ViewsStand, Standing
  <1>4. call.target = call.new  BY <1>0, <1>1, <1>3 DEF GoalOK
  <1>5. txdb'.hashBestChain = call.new
    BY <1>1, <1>2, <1>4 DEF WriteHashBestChain, Store
  <1>6. call'.phase = "extend" /\ call'.new = call.new /\ call'.at = call.new
    BY <1>0, <1>1, <1>4 DEF Call
  <1>7. GoalOK' /\ TipOK' /\ MostTrust' /\ IndexClosed'
    BY <1>0, <1>1, <1>6 DEF GoalOK, TipOK, MostTrust, IndexClosed
  <1> QED  BY <1>0, <1>1, <1>3, <1>4, <1>5, <1>7 DEF CInv

\* Reorganize fails only for a chain that is not valid.
LEMMA ReorgFailsCalm ==
    ASSUME IInv, CInv, ReorgFails
    PROVE  CInv'
  <1>0. /\ ~damaged /\ Calm /\ TypeOK /\ CallOK /\ ViewsStand /\ pindexBest \in Block
    BY DEF CInv, IInv, TypeOK
  <1>1. call.phase = "reorg"  BY DEF ReorgFails
  <1>2. /\ call.at \in Block /\ call.target \in Block /\ call.new \in Block
        /\ call.target \in Anc[call.new] /\ Standing(batch, call.at)
    BY <1>0, <1>1 DEF CallOK, ViewsStand
  <1>3. call.at \notin Anc[call.target] => call.at # Genesis
    BY <1>2, Ancestors
  <1>4. call.at \notin Anc[call.target] => CanDisconnect(call.at, batch)
    BY <1>2, <1>3, ValidDisconnects
  <1>5. PICK n \in Block : NextTo(n, call.target) /\ ~CanConnect(n, batch)
    BY <1>0, <1>4, NothingHappens DEF ReorgFails
  <1>6. n \in Anc[call.target] /\ Prev[n] = call.at  BY <1>5 DEF NextTo
  <1>7. n \in Anc[call.new]  BY <1>2, <1>6, Ancestors
  <1>8. ClaimsFit  BY <1>0 DEF Calm
  <1>9. ~ValidChain(n)
    <2> SUFFICES ASSUME ValidChain(n) PROVE FALSE  OBVIOUS
    <2>1. n \notin Anc[call.at] /\ call.at \in Anc[n] /\ call.at \in Anc[call.new]
      BY <1>2, <1>6, <1>7, ChildIsNew, AncSelf, Ancestors
    <2>2. n \notin Anc[pindexBest]  BY <1>0, <1>1, <1>6, <2>1 DEF CallOK
    <2>3. call.at # call.new  BY <1>7, <2>1
    <2>4. call.at \in mapBlockIndex
      BY <1>1, <2>1 DEF CInv, GoalOK, IndexClosed
    <2>5. ValidChain(call.at)  BY <1>2, <2>1, ValidPrefix
    <2>6. ChainTrust[call.at] <= ChainTrust[pindexBest]
      BY <2>3, <2>4, <2>5 DEF CInv, MostTrust
    <2> QED  BY <1>0, <1>2, <1>5, <1>6, <1>8, <2>2, <2>6, ValidConnects
  <1>10. ~ValidChain(call.new)  BY <1>2, <1>7, <1>9, ValidPrefix
  <1> QED  BY <1>1, <1>10, EndsAtOld DEF ReorgFails

\* Nothing is left to connect after the commit.
LEMMA ExtendCalm ==
    ASSUME IInv, CInv, ExtendConnect \/ ExtendFails \/ ExtendDone
    PROVE  ExtendDone /\ CInv'
  <1>0. CallOK /\ TipOK  BY DEF CInv, IInv
  <1>1. call.phase = "extend"  BY DEF ExtendConnect, ExtendFails, ExtendDone
  <1>2. call.new \in Block /\ call.at = call.new /\ txdb.hashBestChain = call.new
    BY <1>0, <1>1 DEF CallOK, TipOK
  <1>3. \A n \in Block : ~NextTo(n, call.new)
    <2>1. ASSUME NEW n \in Block, NextTo(n, call.new) PROVE FALSE
      <3>1. n \in Anc[call.new] /\ Prev[n] = call.new
        BY <1>2, <2>1 DEF NextTo
      <3> QED  BY <1>2, <3>1, ChildIsNew
    <2> QED  BY <2>1
  <1>4. ExtendDone  BY <1>3 DEF ExtendConnect, ExtendFails
  <1> QED  BY <1>1, <1>2, <1>4, EndsAtNew DEF ExtendDone

\* Every step of the calm node keeps CInv.
LEMMA NextCalm == IInv /\ CInv /\ [Next]_vars => CInv'
  <1> SUFFICES ASSUME IInv, CInv, [Next]_vars PROVE CInv'  OBVIOUS
  <1>1. CASE UNCHANGED vars
    BY <1>1 DEF vars, memory, CInv, IndexClosed, GoalOK, TipOK, MostTrust
  <1>2. TypeOK /\ Calm  BY DEF IInv, CInv
  <1>3. CASE CallStep
    BY <1>3, ConnectTipCalm, ReorgStepCalm, ReorgCommitCalm, ReorgFailsCalm, ExtendCalm
    DEF CallStep
  <1> QED
    BY <1>1, <1>2, <1>3, NothingHappens, AddToBlockIndexCalm
    DEF Next, Restart, RestartAndMoveBack

\* The calm node begins at Genesis.
LEMMA InitCalm == Calm /\ Init => CInv
  <1> SUFFICES ASSUME Calm, Init PROVE CInv  OBVIOUS
  <1>0. mapBlockIndex = {Genesis} /\ Anc[Genesis] = {Genesis}
    BY TreeAssumption, Ancestors DEF Init
  <1>1. IndexClosed  BY <1>0 DEF IndexClosed
  <1>2. GoalOK /\ TipOK  BY DEF Init, GoalOK, TipOK, NoCall
  <1>3. MostTrust  BY TreeAssumption DEF Init, MostTrust
  <1> QED  BY <1>1, <1>2, <1>3 DEF Init, CInv

\* The invariant of the calm node.
LEMMA CalmInvariance == Calm /\ Spec => [](IInv /\ CInv)
  <1>1. Calm /\ Init => IInv /\ CInv  BY InitIInv, InitCalm
  <1>2. (IInv /\ CInv) /\ [Next]_vars => (IInv /\ CInv)'  BY NextIInv, NextCalm
  <1> QED  BY <1>1, <1>2, PTL DEF Spec

\* In the calm node the tip of memory is the tip of the store between calls:
\* the postponed blocks, whose failure would part them, never come up
\* (SetBestChain, pindexIntermediate).
THEOREM TipStored == Calm /\ Spec => []TipIsStored
  <1>1. IInv /\ CInv => TipIsStored
    BY DEF CInv, TipOK, TipIsStored, NoCall
  <1> QED  BY <1>1, CalmInvariance, PTL

\* In the calm node no indexed block that ends a valid chain is heavier than
\* the tip, in whatever order blocks and branches arrive: Reorganize fails for
\* no valid branch (AddToBlockIndex, Reorganize, ConnectBlock).
THEOREM TipIsHeaviest == Calm /\ Spec => []TipHasMostTrust
  <1>1. IInv /\ CInv => TipHasMostTrust
    <2> SUFFICES ASSUME IInv, CInv, call = NoCall, NEW b \in mapBlockIndex, ValidChain(b)
                 PROVE  ChainTrust[b] <= ChainTrust[pindexBest]
      BY DEF TipHasMostTrust
    <2>1. call.new = Nil /\ b # Nil  BY TreeAssumption DEF NoCall, IInv, TypeOK
    <2> QED  BY <2>1 DEF CInv, MostTrust
  <1> QED  BY <1>1, CalmInvariance, PTL

\* A step of the calm node is a step of BestChain: a block is learnt, a heavier
\* valid block is adopted, or nothing is seen.
LEMMA NextImplements ==
    ASSUME IInv, CInv, [Next]_vars
    PROVE  [Abstract!Next]_<<mapBlockIndex, txdb.hashBestChain>>
  <1> DEFINE best == txdb.hashBestChain
  <1>0. /\ TypeOK /\ Calm /\ ~damaged /\ GoalOK /\ TipOK /\ CallOK /\ ViewsStand
        /\ txdb \in Store /\ pindexBest \in Block /\ mapBlockIndex \subseteq Block
    BY DEF IInv, CInv, TypeOK
  <1>1. ASSUME UNCHANGED <<mapBlockIndex, txdb>>
        PROVE  UNCHANGED <<mapBlockIndex, txdb.hashBestChain>>
    BY <1>1
  <1>2. ASSUME NEW b \in Block, AddToBlockIndex(b) PROVE Abstract!Next
    <2>1. mapBlockIndex' = mapBlockIndex \cup {b} /\ txdb'.hashBestChain = best
      BY <1>0, <1>2 DEF AddToBlockIndex, Store
    <2> QED  BY <2>1 DEF Abstract!Next, Abstract!Learn
  <1>3. ASSUME call.phase \in {"inner", "reorg"}, call.new \in Block, ValidChain(call.new),
               txdb'.hashBestChain = call.new, mapBlockIndex' = mapBlockIndex
        PROVE  Abstract!Next
    <2>1. call.new \in mapBlockIndex /\ ChainTrust[call.new] > ChainTrust[best]
      BY <1>0, <1>3 DEF GoalOK, TipOK
    <2>2. Abstract!Adopt(call.new)
      BY <1>3, <2>1 DEF Abstract!Adopt
    <2> QED  BY <1>3, <2>2 DEF Abstract!Next
  <1>4. CASE ConnectTip
    <2>1. call.phase = "inner" /\ mapBlockIndex' = mapBlockIndex  BY <1>4 DEF ConnectTip
    <2>2. /\ call.new \in Block /\ Prev[call.new] = pindexBest /\ best = pindexBest
          /\ Standing(txdb, best) /\ pnext = txdb.hashNext
      BY <1>0, <2>1 DEF CallOK, ViewsStand
    <2>3. /\ Standing(txdb', call.new) /\ txdb'.hashBestChain = call.new
      BY <1>0, <1>4, <2>2, ConnectAndCommit DEF ConnectTip
    <2>4. ValidChain(call.new)  BY <2>3 DEF Standing
    <2> QED  BY <1>3, <2>1, <2>2, <2>3, <2>4
  <1>5. CASE ReorgCommit
    <2>1. call.phase = "reorg" /\ mapBlockIndex' = mapBlockIndex  BY <1>5 DEF ReorgCommit
    <2>2. call.new \in Block  BY <1>0, <2>1 DEF CallOK
    <2>3. txdb'.hashBestChain = call.new /\ ValidChain(call.new)
      BY <1>5, ReorgCommitCalm
    <2> QED  BY <1>3, <2>1, <2>2, <2>3
  <1>6. CASE ConnectTipFails \/ ReorgDisconnect \/ ReorgConnect \/ ReorgFails
    BY <1>1, <1>6 DEF ConnectTipFails, ReorgDisconnect, ReorgConnect, ReorgFails, memory
  <1>7. CASE ExtendConnect \/ ExtendFails \/ ExtendDone
    <2>1. ExtendDone  BY <1>7, ExtendCalm
    <2> QED  BY <1>1, <2>1 DEF ExtendDone
  <1>8. CASE UNCHANGED vars
    BY <1>1, <1>8 DEF vars, memory
  <1> QED
    BY <1>0, <1>2, <1>4, <1>5, <1>6, <1>7, <1>8, NothingHappens
    DEF Next, CallStep, Restart, RestartAndMoveBack

\* The calm node implements BestChain without its fairness: it only collects
\* blocks and adopts heavier blocks that end valid chains (AddToBlockIndex,
\* SetBestChain).
THEOREM Refinement == Calm /\ Spec => Abstract!Safe
  <1>1. Init => Abstract!Init  BY DEF Init, Abstract!Init
  <1>2. IInv /\ CInv /\ [Next]_vars => [Abstract!Next]_<<mapBlockIndex, txdb.hashBestChain>>
    BY NextImplements
  <1> QED  BY <1>1, <1>2, CalmInvariance, PTL DEF Spec, Abstract!Safe
=============================================================================
