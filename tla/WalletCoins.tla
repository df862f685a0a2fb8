---------------------------- MODULE WalletCoins ----------------------------
(***************************************************************************)
(* The wallet's picture of its own coins.  For every transaction it keeps, *)
(* the wallet stores the block it was last seen in and, for each output of *)
(* its own, a flag that says the output is spent.  Neither is computed     *)
(* from the chain when it is asked for: both are moved by notifications,   *)
(* as blocks are connected and disconnected and payments are made, and a   *)
(* payment is built from whatever they say at that moment.                 *)
(*                                                                         *)
(* Abstractions: a transaction has at most one output of the wallet, its   *)
(* coin, and Vin[t] are the coins of the wallet that t spends, named by    *)
(* their transactions.  Every block weighs the same, so that a branch is   *)
(* preferred when it is longer.  Amounts, fees, scripts, times, accounts   *)
(* and the merkle branch are left out.  mapWallet is in the order of       *)
(* hashes, which is arbitrary: ReacceptWalletTransactions may end in any   *)
(* of the largest sets of transactions that the pool can hold together.    *)
(***************************************************************************)
EXTENDS Integers, Sequences, FiniteSets, SequencesExt

CONSTANTS
    Tx,             \* transactions
    Vin,            \* Vin[t]: the coins of the wallet that t spends
    Mine,           \* transactions with a coin of the wallet
    Payment,        \* made by CreateTransaction, of this wallet
    CoinStake,      \* made by the staker of this wallet
    Block, NoBlock,
    Path,           \* Path[b]: the blocks from the genesis block to b
    BlockTx,        \* BlockTx[b]: the sequence of the transactions of b
    Genesis,
    Maturity        \* depth at which the coin of a coinstake may be spent

ASSUME ShapeAssumption ==
    /\ Vin \in [Tx -> SUBSET Mine] /\ Mine \subseteq Tx
    /\ Payment \subseteq {t \in Tx : Vin[t] # {}} /\ CoinStake \subseteq Tx \ Payment
    /\ NoBlock \notin Block /\ Genesis \in Block
    /\ Path \in [Block -> Seq(Block)] /\ BlockTx \in [Block -> Seq(Tx)]
    /\ Maturity \in Nat

ASSUME PathAssumption ==
    \A b \in Block : /\ Path[b] # << >> /\ Path[b][1] = Genesis /\ Last(Path[b]) = b
                     /\ \A i \in DOMAIN Path[b] : Path[Path[b][i]] = SubSeq(Path[b], 1, i)

Parent(b) == Path[b][Len(Path[b]) - 1]
TxsOf(b) == UNION {Range(BlockTx[c]) : c \in Range(Path[b])}
Spends(S) == UNION {Vin[t] : t \in S}

\* The transactions of the chain before the i-th one of block b.
Before(b, i) == TxsOf(Parent(b)) \cup {BlockTx[b][k] : k \in 1 .. i - 1}

\* Only blocks that ConnectBlock takes are connected: each transaction is new to
\* the chain, and the coins it spends are there and unspent (StoreIsValid of
\* ChainState).
ASSUME LedgerAssumption ==
    /\ BlockTx[Genesis] = << >>
    /\ \A b \in Block \ {Genesis} : \A i \in DOMAIN BlockTx[b] :
          LET t == BlockTx[b][i]
          IN  /\ t \notin Before(b, i)
              /\ Vin[t] \subseteq Before(b, i)
              /\ Vin[t] \cap Spends(Before(b, i)) = {}

VARIABLES
    tip,            \* pindexBest
    mempool,        \* transactions of the memory pool
    mapWallet,      \* [known, hashBlock, vfSpent, vtxPrev], as in wallet.dat
    copy,           \* the copy of wallet.dat: [wallet, best], the block it knew
    disturbed       \* history: a block was told of in vain, or an older wallet.dat used

vars == <<tip, mempool, mapWallet, copy, disturbed>>

COPY_DEPTH == 3

InMainChain(b) == b \in Range(Path[tip])
Confirmed == TxsOf(tip)

\* base, taken through op by the elements of s in their order.
InOrder(op(_, _), base, s) ==
    LET f[i \in 0 .. Len(s)] == IF i = 0 THEN base ELSE op(f[i - 1], s[i])
    IN  f[Len(s)]

(***************************************************************************)
(* The wallet's own functions, of a wallet w.                              *)
(***************************************************************************)
\* The coins t spends that this wallet knows to be its own.
Own(w, t) == Vin[t] \cap w.known

IsFromMe(w, t) == Own(w, t) # {}

\* Mutant of WalletUpdateSpent: what a block spends is taken to be marked.
WalletUpdateSpentPaid(w, t, fBlock) ==
    [w EXCEPT !.vfSpent = IF fBlock THEN @ \ {t} ELSE @ \cup Own(w, t)]

WalletUpdateSpent(w, t, fBlock) ==
    LET marked == w.vfSpent \cup Own(w, t)
    IN  [w EXCEPT !.vfSpent = IF fBlock THEN marked \ {t} ELSE marked]

\* Mutant of AddToWallet: a transaction that is known keeps its block.
AddToWalletKeep(w, t, b, prev) ==
    IF t \in w.known THEN WalletUpdateSpent(w, t, b # NoBlock)
    ELSE WalletUpdateSpent(
            [w EXCEPT !.known = @ \cup {t}, !.hashBlock[t] = b, !.vtxPrev[t] = prev],
            t, b # NoBlock)

AddToWallet(w, t, b, prev) ==
    LET new == [w EXCEPT !.known = @ \cup {t}, !.hashBlock[t] = b, !.vtxPrev[t] = prev]
        merged == [w EXCEPT !.hashBlock[t] = IF b # NoBlock THEN b ELSE @]
    IN  WalletUpdateSpent(IF t \in w.known THEN merged ELSE new, t, b # NoBlock)

AddToWalletIfInvolvingMe(w, t, b, fUpdate) ==
    IF t \in w.known /\ ~fUpdate THEN w
    ELSE IF t \in w.known \cup Mine \/ IsFromMe(w, t)
         THEN AddToWallet(w, t, b, [p \in {} |-> NoBlock])
         ELSE WalletUpdateSpent(w, t, FALSE)

\* Mutant of DisableTransaction: the coins of a coinstake stay marked.
DisableTransactionNot(w, t) == w

DisableTransaction(w, t) ==
    IF t \in CoinStake THEN [w EXCEPT !.vfSpent = @ \ Own(w, t)] ELSE w

\* The wallet is told of the transactions of a block, in their order.
Told(w, b, fUpdate) ==
    InOrder(LAMBDA v, t : AddToWalletIfInvolvingMe(v, t, b, fUpdate), w, BlockTx[b])

\* SyncWithWallets, as ConnectBlock and DisconnectBlock call it.
Connected(w, b) == Told(w, b, TRUE)

Disconnected(w, b) == InOrder(DisableTransaction, w, BlockTx[b])

\* ScanForWalletTransactions, over blocks of the main chain.
Scanned(w, blocks, fUpdate) == InOrder(LAMBDA v, b : Told(v, b, fUpdate), w, blocks)

(***************************************************************************)
(* What the wallet thinks of a transaction.                                *)
(***************************************************************************)
\* GetDepthInMainChain of a transaction, or a copy of one, that claims to be
\* in block b: -1 is "not in chain, not in mempool".
GetDepthInMainChain(t, b) ==
    IF InMainChain(b) THEN Len(Path[tip]) - Len(Path[b]) + 1
    ELSE IF t \in mempool THEN 0 ELSE 0 - 1

Depth(t) == GetDepthInMainChain(t, mapWallet.hashBlock[t])

\* The transactions that IsTrusted visits, over the copies in vtxPrev.
CopyDepth(t, u) ==
    IF u = t THEN Depth(t) ELSE GetDepthInMainChain(u, mapWallet.vtxPrev[t][u])

HasCopy(t, u) == u = t \/ u \in DOMAIN mapWallet.vtxPrev[t]

Visited(t) ==
    {u \in Tx : \A V \in SUBSET Tx :
        /\ t \in V
        /\ \A v \in V : HasCopy(t, v) /\ CopyDepth(t, v) = 0 => Vin[v] \subseteq V
        => u \in V}

IsTrusted(t) ==
    \/ Depth(t) >= 1
    \/ /\ Depth(t) = 0
       /\ \A u \in Visited(t) :
            /\ HasCopy(t, u)
            /\ \/ CopyDepth(t, u) >= 1
               \/ CopyDepth(t, u) = 0 /\ IsFromMe(mapWallet, u)

AvailableCoins ==
    {t \in mapWallet.known \cap Mine :
        /\ IsTrusted(t)
        /\ t \in CoinStake => Depth(t) >= Maturity
        /\ t \notin mapWallet.vfSpent}

\* AddSupportingTransactions: copies of the transactions t spends from, and of
\* the ones behind those that are not COPY_DEPTH deep yet.
Supporting(t) ==
    {u \in Tx : \A V \in SUBSET Tx :
        /\ Vin[t] \subseteq V
        /\ \A v \in V : Depth(v) < COPY_DEPTH => Vin[v] \subseteq V
        => u \in V}

AddSupportingTransactions(t) == [u \in Supporting(t) |-> mapWallet.hashBlock[u]]

(***************************************************************************)
(* The memory pool, as Mempool models it, above block b.                   *)
(***************************************************************************)
Acceptable(t, pool, b) ==
    /\ t \notin CoinStake /\ t \notin pool /\ t \notin TxsOf(b)
    /\ Vin[t] \subseteq pool \cup TxsOf(b)
    /\ Vin[t] \cap Spends(pool \cup TxsOf(b)) = {}

\* Reorganize: AcceptToMemoryPool with fCheckInputs false, which looks only at
\* the pool; what the new branch confirms or spends is removed after it.
Resurrected(pool, dropped) ==
    InOrder(LAMBDA p, c :
                InOrder(LAMBDA q, t :
                            IF t \notin CoinStake \cup q /\ Vin[t] \cap Spends(q) = {}
                            THEN q \cup {t} ELSE q,
                         p, BlockTx[c]),
             pool, dropped)

\* remove(t, true) of every pool transaction that spends a coin of S.
Dependents(S, pool) ==
    {u \in pool : \A D \in SUBSET pool :
        {t \in pool : Vin[t] \cap (S \cup D) # {}} \subseteq D => u \in D}

\* Reorganize: remove(tx) and removeConflicts(tx) for each connected one.
Cleaned(pool, blocks) ==
    InOrder(LAMBDA p, c :
                InOrder(LAMBDA q, t :
                            LET rest == q \ {t}
                                conflict == {u \in rest : Vin[u] \cap Vin[t] # {}}
                            IN  rest \ (conflict \cup Dependents(conflict, rest)),
                         p, BlockTx[c]),
             pool, blocks)

(***************************************************************************)
(* Blocks.                                                                 *)
(***************************************************************************)
ForkHeight(b) ==
    CHOOSE i \in 1 .. Len(Path[tip]) :
        /\ i <= Len(Path[b]) /\ Path[b][i] = Path[tip][i]
        /\ i < Len(Path[tip]) /\ i < Len(Path[b]) => Path[b][i + 1] # Path[tip][i + 1]

vDisconnect(b) == Reverse(SubSeq(Path[tip], ForkHeight(b) + 1, Len(Path[tip])))
vConnect(b) == SubSeq(Path[b], ForkHeight(b) + 1, Len(Path[b]))

\* A block confirms a payment only once the wallet has made and relayed it.
Minable(b) ==
    \A c \in Range(Path[b]) : Range(BlockTx[c]) \cap Payment \subseteq mapWallet.known

\* SetBestChainInner: a block on top of the tip.
OnTop(b) == b # Genesis /\ Parent(b) = tip /\ Minable(b)

Extend(b) ==
    /\ OnTop(b)
    /\ tip' = b
    /\ mapWallet' = Connected(mapWallet, b)
    /\ mempool' = mempool \ Range(BlockTx[b])
    /\ UNCHANGED <<copy, disturbed>>

\* WriteHashBestChain or TxnCommit fails: the wallet has been told of the block.
ExtendFails(b) ==
    /\ OnTop(b)
    /\ mapWallet' = Connected(mapWallet, b)
    /\ disturbed' = TRUE
    /\ UNCHANGED <<tip, mempool, copy>>

Preferred(b) ==
    /\ Len(Path[b]) > Len(Path[tip]) /\ Len(Path[b]) - 1 <= Len(Path[tip])
    /\ b # Genesis /\ Parent(b) # tip
    /\ Minable(b)

\* The wallet during Reorganize: blocks are disconnected, then n are connected.
Notified(w, b, n) ==
    InOrder(Connected, InOrder(Disconnected, w, vDisconnect(b)), SubSeq(vConnect(b), 1, n))

Reorganize(b) ==
    /\ Preferred(b)
    /\ tip' = b
    /\ mapWallet' = Notified(mapWallet, b, Len(vConnect(b)))
    /\ mempool' = Cleaned(Resurrected(mempool, vDisconnect(b)), vConnect(b))
    /\ UNCHANGED <<copy, disturbed>>

\* A block fails to connect, or TxnCommit fails: the wallet has been told of the
\* blocks before.
ReorganizeFails(b) ==
    /\ Preferred(b)
    /\ \E n \in 0 .. Len(vConnect(b)) : mapWallet' = Notified(mapWallet, b, n)
    /\ disturbed' = TRUE
    /\ UNCHANGED <<tip, mempool, copy>>

(***************************************************************************)
(* Transactions.                                                           *)
(***************************************************************************)
\* The "tx" message with a payment to the wallet by somebody else.  The wallet is
\* told of it, unless it came as an orphan: then it is told of the parent instead.
ReceiveTx(t) ==
    /\ t \notin Payment
    /\ Acceptable(t, mempool, tip)
    /\ mempool' = mempool \cup {t}
    /\ mapWallet' \in {mapWallet, AddToWalletIfInvolvingMe(mapWallet, t, NoBlock, TRUE)}
    /\ UNCHANGED <<tip, copy, disturbed>>

\* CreateTransaction and CommitTransaction, under cs_main and cs_wallet.
CommitTransaction(t) ==
    /\ t \in Payment \ mapWallet.known
    /\ Vin[t] \subseteq AvailableCoins
    /\ mapWallet' = AddToWallet(mapWallet, t, NoBlock, AddSupportingTransactions(t))
    /\ mempool' = IF Acceptable(t, mempool, tip) THEN mempool \cup {t} ELSE mempool
    /\ UNCHANGED <<tip, copy, disturbed>>

(***************************************************************************)
(* Repair and restart.                                                     *)
(***************************************************************************)
\* repairwallet: FixSpentCoins, for the transactions in the index.
FixSpentCoins ==
    /\ mapWallet' = [mapWallet EXCEPT !.vfSpent =
            (@ \ Confirmed) \cup (@ \cap Spends(Confirmed))
                \cup (mapWallet.known \cap Mine \cap Confirmed \cap Spends(Confirmed))]
    /\ UNCHANGED <<tip, mempool, copy, disturbed>>

\* Mutant of MarkedFromIndex: the index is not compared with the wallet.
MarkedFromIndexNot(w) == w

\* ReacceptWalletTransactions: coins the index knows to be spent are marked.
MarkedFromIndex(w) ==
    [w EXCEPT !.vfSpent = @ \cup (w.known \cap Mine \cap Spends(Confirmed))]

\* ... and the other transactions go back to the pool, as far as they can.
Holdable(P) ==
    \A t \in P : /\ Vin[t] \subseteq P \cup Confirmed
                 /\ Vin[t] \cap Spends((P \ {t}) \cup Confirmed) = {}

Reaccepted(w) ==
    LET sets == {P \in SUBSET (w.known \ (CoinStake \cup Confirmed)) : Holdable(P)}
    IN  {P \in sets : \A t \in w.known \ P : P \cup {t} \notin sets}

\* Spenders the wallet did not know of are found by a scan from the genesis.
Reaccept(w) ==
    LET marked == MarkedFromIndex(w)
        found == IF marked = w THEN w ELSE Scanned(marked, Path[tip], FALSE)
    IN  /\ mapWallet' = found
        /\ mempool' \in Reaccepted(found)

Restart ==
    /\ Reaccept(mapWallet)
    /\ UNCHANGED <<tip, copy, disturbed>>

\* backupwallet, while the node runs.
Backup ==
    /\ copy' = [wallet |-> mapWallet, best |-> tip]
    /\ UNCHANGED <<tip, mempool, mapWallet, disturbed>>

\* The part of the chain the copy may not have seen: from the fork on, unless
\* the tip is not higher than that.
Unseen ==
    IF copy.best = tip \/ ForkHeight(copy.best) = Len(Path[tip]) THEN << >>
    ELSE SubSeq(Path[tip], ForkHeight(copy.best), Len(Path[tip]))

\* A restart on the older copy of wallet.dat.
Restore ==
    /\ Reaccept(Scanned(copy.wallet, Unseen, TRUE))
    /\ disturbed' = TRUE
    /\ UNCHANGED <<tip, copy>>

Init ==
    /\ tip = Genesis
    /\ mempool = {}
    /\ mapWallet = [known |-> {}, vfSpent |-> {}, hashBlock |-> [t \in Tx |-> NoBlock],
                    vtxPrev |-> [t \in Tx |-> [p \in {} |-> NoBlock]]]
    /\ copy = [wallet |-> mapWallet, best |-> Genesis]
    /\ disturbed = FALSE

Next ==
    \/ \E b \in Block : Extend(b) \/ ExtendFails(b) \/ Reorganize(b) \/ ReorganizeFails(b)
    \/ \E t \in Tx : ReceiveTx(t) \/ CommitTransaction(t)
    \/ FixSpentCoins \/ Restart \/ Backup \/ Restore

Spec == Init /\ [][Next]_vars

(***************************************************************************)
(* Properties.                                                             *)
(***************************************************************************)
\* The type of the state: what the wallet marks are coins it knows.
TypeOK ==
    /\ tip \in Block
    /\ mempool \subseteq Tx \ CoinStake
    /\ mapWallet.known \subseteq Tx
    /\ mapWallet.vfSpent \subseteq mapWallet.known \cap Mine
    /\ mapWallet.hashBlock \in [Tx -> Block \cup {NoBlock}]
    /\ disturbed \in BOOLEAN

\* Until a commit or a reorganisation fails or an older file is used, a coin that
\* the main chain spends is never offered for payment again: every order of
\* payments, confirmations, reorganisations and repairs leaves it marked
\* (WalletUpdateSpent, DisableTransaction).
SpentMarked == mapWallet.known \cap Mine \cap Spends(Confirmed) \subseteq mapWallet.vfSpent
ChainSpentIsMarked == ~disturbed => SpentMarked

\* Until then the wallet also knows which of its transactions are in the main
\* chain: the block it recorded is there exactly when the transaction is
\* (AddToWallet, GetDepthInMainChain).
BlockIsRecorded ==
    ~disturbed =>
        \A t \in mapWallet.known : t \in Confirmed <=> InMainChain(mapWallet.hashBlock[t])

\* And a coin that is marked as spent has a spender in the chain, or a payment the
\* wallet keeps: a stake that has left the chain holds no coin back, in whatever
\* order blocks leave and come (DisableTransaction).
MarksHaveSpenders ==
    ~disturbed =>
        mapWallet.vfSpent \subseteq Spends((mapWallet.known \ CoinStake) \cup Confirmed)

\* Whatever a failed commit or reorganisation or an old copy of the file left
\* behind, the next start marks every coin the chain spends (ReacceptWalletTransactions).
StartHeals == [][SpentMarked' \/ ~(Restart \/ Restore)]_vars

\* CommitTransaction: "This must not fail."
CommitSucceeds == [][\A t \in Tx : CommitTransaction(t) => t \in mempool']_vars

\* IsTrusted: "If no confirmations but it's from us, we can still consider it
\* confirmed if all dependencies are confirmed".
TrustedWhenParentsConfirmed ==
    \A t \in mapWallet.known \cap Payment \cap mempool :
        Vin[t] \subseteq Confirmed => IsTrusted(t)
=============================================================================
