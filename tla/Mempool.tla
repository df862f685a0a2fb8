------------------------------ MODULE Mempool ------------------------------
(***************************************************************************)
(* The memory pool, the orphan transactions and what the wallet is told    *)
(* of both (main.cpp, and its callers in wallet.cpp, rpcrawtransaction.cpp *)
(* and init.cpp).                                                          *)
(*                                                                         *)
(* The chain is abstracted to its tip: ChainStateProofs shows that the     *)
(* transaction index is the one of the chain that ends in the tip and that *)
(* this chain obeys the ledger rules.                                      *)
(*                                                                         *)
(* Two threads change the pool.  Messages, RPC calls and blocks are        *)
(* handled one at a time under cs_main (variable main); after a start      *)
(* ReacceptWalletTransactions runs in a thread that does not hold cs_main  *)
(* (variable reaccept).  mempool.cs covers the whole of an acceptance in   *)
(* the second thread, but in the first only the lookup in mapTx and, later,*)
(* the insertion: what was checked may be stale when the transaction is    *)
(* added.                                                                  *)
(***************************************************************************)
EXTENDS Integers, Sequences, FiniteSets

CONSTANTS
    Block, Genesis, Prev, Anc, Height,  \* the block tree, as in ChainState
    Tx, Out, OutTx, Vin, Generated,     \* transactions, as in ChainState
    BlockTx,        \* the transactions of a block
    Nil,
    Standard,       \* pass CheckTransaction, the nLockTime check and IsStandard
    Payable,        \* pass AreInputsStandard, the fee rules and the signatures
    Free,           \* below MIN_RELAY_TX_FEE and not from the wallet: rate limited
    Large,          \* more than 5000 bytes
    Mine,           \* involve a key of the wallet
    Supporting,     \* vtxPrev of a wallet transaction
    nCoinbaseMaturity,
    MAX_ORPHAN_TRANSACTIONS,
    MaxReorgs, MaxRestarts      \* bounds on the environment

Parents(t) == {OutTx[o] : o \in Vin[t]}

SpentBy(S) == UNION {Vin[t] : t \in S}

TxsOf(B) == UNION {BlockTx[b] : b \in B}

ASSUME MempoolAssumption ==
    /\ Genesis \in Block
    /\ Prev \in [Block -> Block \cup {Nil}]
    /\ Anc \in [Block -> SUBSET Block]
    /\ Height \in [Block -> Nat]
    /\ OutTx \in [Out -> Tx]
    /\ Vin \in [Tx -> SUBSET Out]
    /\ BlockTx \in [Block -> SUBSET Tx]
    /\ Nil \notin Tx
    /\ Generated \subseteq Tx
    /\ Supporting \in [Tx -> Seq(Tx)]
    /\ nCoinbaseMaturity \in Nat
    /\ MAX_ORPHAN_TRANSACTIONS \in Nat
    /\ MaxReorgs \in Nat /\ MaxRestarts \in Nat
    /\ Anc[Genesis] = {Genesis}
    /\ Nil \notin Block /\ Prev[Genesis] = Nil
    /\ \A b \in Block : b # Genesis =>
          /\ Prev[b] \in Block
          /\ Anc[b] = Anc[Prev[b]] \cup {b}

\* Every chain spends an output once and has a transaction once
\* (ChainStateProofs, StoreValid).
ASSUME ChainAssumption ==
    \A b \in Block :
        /\ \A t, u \in TxsOf(Anc[b]) : t # u => Vin[t] \cap Vin[u] = {}
        /\ \A a, c \in Anc[b] : a # c => BlockTx[a] \cap BlockTx[c] = {}

VARIABLES
    tip,                            \* the tip of the stored chain
    mapTx,                          \* the transactions of the pool
    mapNextTx,                      \* the pool transaction that spends an output
    mapOrphanTransactions,
    mapOrphanTransactionsByPrev,
    mapWallet,                      \* the transactions the wallet knows
    main,                           \* the handler that holds cs_main
    reaccept,                       \* the thread in ReacceptWalletTransactions
    reorgs, restarts

pool == <<mapTx, mapNextTx>>
orphans == <<mapOrphanTransactions, mapOrphanTransactionsByPrev>>
bounds == <<reorgs, restarts>>
vars == <<tip, pool, orphans, mapWallet, main, reaccept, bounds>>

Origins == {"peer", "orphan", "rpc", "wallet"}

Main == [phase  : {"idle", "store", "sync", "orphans", "commit", "block"},
         tx     : Tx \cup {Nil},            \* passed the checks, now being added
         from   : Origins,
         queue  : Seq(Tx),                  \* vWorkQueue from its current entry on
         todo   : SUBSET Tx,                \* orphans of that entry still to try
         erase  : SUBSET Tx,                \* vEraseQueue
         block  : Block \cup {Nil},         \* connected, and not yet committed
         vResurrect : SUBSET Tx,
         vDelete : SUBSET Tx,
         reorg  : BOOLEAN]                  \* Reorganize, not SetBestChainInner

Idle == [phase |-> "idle", tx |-> Nil, from |-> "peer", queue |-> << >>,
         todo |-> {}, erase |-> {}, block |-> Nil, vResurrect |-> {}, vDelete |-> {},
         reorg |-> FALSE]

Reaccept == [phase   : {"waiting", "running", "done"},
             pending : SUBSET Tx,       \* entries of mapWallet still to visit
             queue   : Seq(Tx)]         \* being accepted with mempool.cs held

Done == [phase |-> "done", pending |-> {}, queue |-> << >>]

Confirmed == TxsOf(Anc[tip])

(***************************************************************************)
(* CTxMemPool::accept.                                                     *)
(***************************************************************************)
\* Mutant of Unclaimed: conflicts with pool transactions are not looked for.
UnclaimedUnchecked(t) == t \notin mapTx

Unclaimed(t) ==
    /\ t \notin mapTx
    /\ \A o \in Vin[t] : mapNextTx[o] = Nil

\* The checks before the inputs are fetched.
PassesFirst(t, fCheckInputs) ==
    /\ t \in Standard
    /\ t \notin Generated
    /\ Unclaimed(t)
    /\ fCheckInputs => t \notin Confirmed

\* Mutant of InputsKnown: one known input is enough.
InputsKnownSome(t) == \E p \in Parents(t) : p \in Confirmed \cup mapTx

\* FetchInputs, from the index or else from the pool.
InputsKnown(t) == \A p \in Parents(t) : p \in Confirmed \cup mapTx

\* ConnectInputs on top of the tip: every reward is mature, nothing is spent.
InputsMature(t) ==
    \A p \in Parents(t) \cap Generated : \A a \in Anc[tip] :
        p \in BlockTx[a] => Height[tip] - Height[a] >= nCoinbaseMaturity

InputsUnspent(t) == Vin[t] \cap SpentBy(Confirmed) = {}

Acceptable(t) ==
    /\ PassesFirst(t, TRUE)
    /\ InputsKnown(t)
    /\ t \in Payable
    /\ InputsMature(t)
    /\ InputsUnspent(t)

\* A free transaction may be over the limit of -limitfreerelay.
Refusable(t) == ~Acceptable(t) \/ t \in Free

fMissingInputs(t) == PassesFirst(t, TRUE) /\ ~InputsKnown(t)

\* addUnchecked enters the inputs of the transactions S into the index.
Added(S, next) ==
    [o \in Out |-> IF \E t \in S : o \in Vin[t]
                   THEN CHOOSE t \in S : o \in Vin[t] ELSE next[o]]

addUnchecked(t) ==
    /\ mapTx' = mapTx \cup {t}
    /\ mapNextTx' = Added({t}, mapNextTx)

\* The pool transactions that spend an output of one of S.
Spenders(S, next) == {next[o] : o \in {p \in Out : OutTx[p] \in S}} \ {Nil}

\* What remove(t, true) visits: t, and the pool transactions that depend on it.
Dependents(S, next) ==
    {u \in Tx : \A D \in SUBSET Tx :
        S \subseteq D /\ Spenders(D, next) \subseteq D => u \in D}

(***************************************************************************)
(* Handlers under cs_main.  Each begins when no other holds the lock.      *)
(***************************************************************************)
SyncWithWallets(S) == mapWallet' = mapWallet \cup (S \cap Mine)

\* The "tx" message, up to the insertion; a transaction that is known, invalid
\* or in conflict is dropped.
ReceiveTx(t) ==
    /\ main = Idle
    /\ ~fMissingInputs(t)
    /\ \/ /\ Acceptable(t)
          /\ main' = [Idle EXCEPT !.phase = "store", !.tx = t, !.from = "peer"]
       \/ Refusable(t) /\ UNCHANGED main
    /\ UNCHANGED <<tip, pool, orphans, mapWallet, reaccept, bounds>>

\* Mutant of Enter: only one parent is entered.
EnterOne(t, byPrev) ==
    [byPrev EXCEPT ![CHOOSE p \in Parents(t) : TRUE] = @ \cup {t}]

\* AddOrphanTx and EraseOrphanTx as functions of mapOrphanTransactionsByPrev.
Enter(t, byPrev) ==
    [p \in Tx |-> IF p \in Parents(t) THEN byPrev[p] \cup {t} ELSE byPrev[p]]

EraseOrphanTx(S, byPrev) ==
    [p \in Tx |-> byPrev[p] \ {t \in S : p \in Parents(t)}]

\* The orphans that may be evicted, at random, until the others fit.
LimitOrphanTxSize(held) ==
    IF Cardinality(held) > MAX_ORPHAN_TRANSACTIONS
    THEN {E \in SUBSET held : Cardinality(held \ E) = MAX_ORPHAN_TRANSACTIONS}
    ELSE {{}}

\* The "tx" message when inputs are missing: AddOrphanTx, LimitOrphanTxSize.
ReceiveOrphan(t) ==
    /\ main = Idle
    /\ fMissingInputs(t)
    /\ t \notin Large
    /\ t \notin mapOrphanTransactions
    /\ LET held == mapOrphanTransactions \cup {t}
       IN  \E evicted \in LimitOrphanTxSize(held) :
              /\ mapOrphanTransactions' = held \ evicted
              /\ mapOrphanTransactionsByPrev' =
                    EraseOrphanTx(evicted, Enter(t, mapOrphanTransactionsByPrev))
    /\ UNCHANGED <<tip, pool, mapWallet, main, reaccept, bounds>>

\* Store transaction in memory.
Store ==
    /\ main.phase = "store"
    /\ reaccept.queue = << >>
    /\ addUnchecked(main.tx)
    /\ main' = [main EXCEPT !.phase = "sync"]
    /\ UNCHANGED <<tip, orphans, mapWallet, reaccept, bounds>>

\* The rest of the handler that asked for it; telling the wallet waits for
\* cs_wallet.  For an orphan that is accepted the wallet is told, again, of the
\* transaction that arrived, and not of the orphan.
AfterStore ==
    /\ main.phase = "sync"
    /\ reaccept.phase # "running"
    /\ \/ /\ main.from = "peer"
          /\ SyncWithWallets({main.tx})
          /\ main' = [Idle EXCEPT !.phase = "orphans", !.queue = <<main.tx>>,
                                  !.todo = mapOrphanTransactionsByPrev[main.tx],
                                  !.erase = {main.tx}]
       \/ /\ main.from = "orphan"
          /\ main' = [main EXCEPT !.phase = "orphans", !.tx = Nil, !.from = "peer",
                                  !.queue = Append(@, main.tx),
                                  !.erase = @ \cup {main.tx}]
          /\ UNCHANGED mapWallet
       \/ main.from = "rpc" /\ SyncWithWallets({main.tx}) /\ main' = Idle
       \/ main.from = "wallet" /\ main' = Idle /\ UNCHANGED mapWallet
    /\ UNCHANGED <<tip, pool, orphans, reaccept, bounds>>

\* The loop over the orphans that depend on the entry of vWorkQueue.
TryOrphan(t) ==
    /\ main.phase = "orphans"
    /\ t \in main.todo
    /\ \/ /\ Acceptable(t)
          /\ main' = [main EXCEPT !.phase = "store", !.tx = t, !.from = "orphan",
                                  !.todo = @ \ {t}]
       \/ fMissingInputs(t) /\ main' = [main EXCEPT !.todo = @ \ {t}]
       \/ /\ Refusable(t) /\ ~fMissingInputs(t)
          /\ main' = [main EXCEPT !.todo = @ \ {t}, !.erase = @ \cup {t}]
    /\ UNCHANGED <<tip, pool, orphans, mapWallet, reaccept, bounds>>

\* Mutant of NextInQueue: the same entry is taken again.
NextInQueueAgain ==
    /\ main.phase = "orphans"
    /\ main.todo = {}
    /\ Len(main.queue) > 1
    /\ main' = [main EXCEPT !.todo = mapOrphanTransactionsByPrev[main.queue[1]]]
    /\ UNCHANGED <<tip, pool, orphans, mapWallet, reaccept, bounds>>

NextInQueue ==
    /\ main.phase = "orphans"
    /\ main.todo = {}
    /\ Len(main.queue) > 1
    /\ main' = [main EXCEPT !.queue = Tail(@),
                            !.todo = mapOrphanTransactionsByPrev[main.queue[2]]]
    /\ UNCHANGED <<tip, pool, orphans, mapWallet, reaccept, bounds>>

EraseOrphans ==
    /\ main.phase = "orphans"
    /\ main.todo = {}
    /\ Len(main.queue) = 1
    /\ mapOrphanTransactions' = mapOrphanTransactions \ main.erase
    /\ mapOrphanTransactionsByPrev' =
          EraseOrphanTx(main.erase \cap mapOrphanTransactions, mapOrphanTransactionsByPrev)
    /\ main' = Idle
    /\ UNCHANGED <<tip, pool, mapWallet, reaccept, bounds>>

\* sendrawtransaction, for a transaction GetTransaction does not find.  An RPC
\* call holds cs_main and cs_wallet.
SendRawTransaction(t) ==
    /\ main = Idle
    /\ reaccept.phase # "running"
    /\ Acceptable(t)
    /\ main' = [Idle EXCEPT !.phase = "store", !.tx = t, !.from = "rpc"]
    /\ UNCHANGED <<tip, pool, orphans, mapWallet, reaccept, bounds>>

\* CWallet::CommitTransaction of a transaction that spends coins the wallet may
\* choose: mature and in the chain or the pool.  Which of them it has marked as
\* spent is WalletCoins' subject: here it may choose any.  The transaction is
\* recorded whether or not the pool takes it.
CommitTransaction(t) ==
    /\ main = Idle
    /\ reaccept.phase # "running"
    /\ t \in Mine \ (mapWallet \cup Generated)
    /\ Parents(t) \subseteq mapWallet
    /\ InputsKnown(t)
    /\ InputsMature(t)
    /\ mapWallet' = mapWallet \cup {t}
    /\ main' = IF Acceptable(t)
               THEN [Idle EXCEPT !.phase = "store", !.tx = t, !.from = "wallet"]
               ELSE main
    /\ UNCHANGED <<tip, pool, orphans, reaccept, bounds>>

(***************************************************************************)
(* Blocks.  ConnectBlock tells the wallet, so it waits for a thread in     *)
(* ReacceptWalletTransactions, which holds cs_wallet; but that thread may  *)
(* come in before the commit, and the pool is updated only after it.       *)
(***************************************************************************)
SetBestChainInner(b) ==
    /\ main = Idle
    /\ reaccept.phase # "running"
    /\ Prev[b] = tip
    /\ SyncWithWallets(BlockTx[b])
    /\ main' = [Idle EXCEPT !.phase = "commit", !.block = b, !.vDelete = BlockTx[b]]
    /\ UNCHANGED <<tip, pool, orphans, reaccept, bounds>>

Reorganize(b) ==
    /\ main = Idle
    /\ reaccept.phase # "running"
    /\ reorgs < MaxReorgs
    /\ b \notin Anc[tip]
    /\ Prev[b] # tip
    /\ SyncWithWallets(TxsOf(Anc[b] \ Anc[tip]))
    /\ main' = [Idle EXCEPT !.phase = "commit", !.block = b, !.reorg = TRUE,
                    !.vResurrect = TxsOf(Anc[tip] \ Anc[b]) \ Generated,
                    !.vDelete = TxsOf(Anc[b] \ Anc[tip])]
    /\ reorgs' = reorgs + 1
    /\ UNCHANGED <<tip, pool, orphans, reaccept, restarts>>

TxnCommit ==
    /\ main.phase = "commit"
    /\ \/ /\ tip' = main.block
          /\ main' = [main EXCEPT !.phase = "block", !.block = Nil]
       \/ UNCHANGED tip /\ main' = Idle
    /\ UNCHANGED <<pool, orphans, mapWallet, reaccept, bounds>>

\* remove, for every transaction of S that is in the pool.
Without(S, next) == [o \in Out |-> IF o \in SpentBy(S) THEN Nil ELSE next[o]]

\* Mutants of Removed: conflicts are removed and what depends on them is not;
\* the transactions of the block stay.
RemovedConflictsOnly(next, gone, conflicts) == gone \cup conflicts
RemovedDependents(next, gone, conflicts) == Dependents(conflicts, next)

\* What leaves the pool: the transactions of the block, and the conflicts with
\* all that depends on them.
Removed(next, gone, conflicts) == gone \cup Dependents(conflicts, next)

\* The end of Reorganize and of SetBestChainInner: AcceptToMemoryPool without
\* input checks, remove, and after a reorganisation removeConflicts.  The
\* loops are taken at once: transactions of one chain neither conflict nor
\* depend on a transaction that conflicts with it (ChainAssumption).
UpdatePool ==
    /\ main.phase = "block"
    /\ reaccept.queue = << >>
    /\ LET back == {t \in main.vResurrect : PassesFirst(t, FALSE)}
           all  == mapTx \cup back
           next == Added(back, mapNextTx)
           gone == all \cap main.vDelete
           left == Without(gone, next)
           conflicts == IF main.reorg
                        THEN {left[o] : o \in SpentBy(main.vDelete)} \ {Nil}
                        ELSE {}
           out  == Removed(left, gone, conflicts)
       IN  /\ mapTx' = all \ out
           /\ mapNextTx' = Without(all \cap out, left)
    /\ main' = Idle
    /\ UNCHANGED <<tip, orphans, mapWallet, reaccept, bounds>>

(***************************************************************************)
(* A restart empties the pool.  StartNode comes before                     *)
(* ReacceptWalletTransactions in AppInit2, so messages are handled before, *)
(* during and after it.                                                    *)
(***************************************************************************)
Restart ==
    /\ restarts < MaxRestarts
    /\ restarts' = restarts + 1
    /\ mapTx' = {}
    /\ mapNextTx' = [o \in Out |-> Nil]
    /\ mapOrphanTransactions' = {}
    /\ mapOrphanTransactionsByPrev' = [p \in Tx |-> {}]
    /\ main' = Idle
    /\ reaccept' = [Done EXCEPT !.phase = "waiting"]
    /\ UNCHANGED <<tip, mapWallet, reorgs>>

\* The handlers of RPC calls and of the wallet hold cs_wallet throughout.
StartReaccept ==
    /\ reaccept.phase = "waiting"
    /\ main.from \notin {"rpc", "wallet"}
    /\ reaccept' = [Done EXCEPT !.phase = "running", !.pending = mapWallet]
    /\ UNCHANGED <<tip, pool, orphans, mapWallet, main, bounds>>

\* An entry that is not in a block: AcceptWalletTransaction takes mempool.cs
\* and accepts the supporting transactions and then the entry.
VisitWalletTx(t) ==
    /\ reaccept.phase = "running"
    /\ reaccept.queue = << >>
    /\ t \in reaccept.pending
    /\ reaccept' = [reaccept EXCEPT
                       !.pending = @ \ {t},
                       !.queue = IF t \in Generated \cup Confirmed
                                 THEN << >> ELSE Append(Supporting[t], t)]
    /\ UNCHANGED <<tip, pool, orphans, mapWallet, main, bounds>>

AcceptWalletTransaction ==
    /\ reaccept.queue # << >>
    /\ \/ Acceptable(Head(reaccept.queue)) /\ addUnchecked(Head(reaccept.queue))
       \/ Refusable(Head(reaccept.queue)) /\ UNCHANGED pool
    /\ reaccept' = [reaccept EXCEPT !.queue = Tail(@)]
    /\ UNCHANGED <<tip, orphans, mapWallet, main, bounds>>

ReacceptDone ==
    /\ reaccept.phase = "running"
    /\ reaccept.queue = << >>
    /\ reaccept.pending = {}
    /\ reaccept' = Done
    /\ UNCHANGED <<tip, pool, orphans, mapWallet, main, bounds>>

Init ==
    /\ tip = Genesis
    /\ mapTx = {}
    /\ mapNextTx = [o \in Out |-> Nil]
    /\ mapOrphanTransactions = {}
    /\ mapOrphanTransactionsByPrev = [p \in Tx |-> {}]
    /\ mapWallet = {}
    /\ main = Idle
    /\ reaccept = Done
    /\ reorgs = 0 /\ restarts = 0

MainStep ==
    \/ \E t \in Tx : TryOrphan(t)
    \/ Store \/ AfterStore \/ NextInQueue \/ EraseOrphans \/ TxnCommit \/ UpdatePool

ReacceptStep ==
    \/ \E t \in Tx : VisitWalletTx(t)
    \/ AcceptWalletTransaction \/ ReacceptDone

Next ==
    \/ \E t \in Tx : \/ ReceiveTx(t) \/ ReceiveOrphan(t)
                     \/ SendRawTransaction(t) \/ CommitTransaction(t)
    \/ \E b \in Block : SetBestChainInner(b) \/ Reorganize(b)
    \/ MainStep
    \/ Restart \/ StartReaccept
    \/ ReacceptStep

Spec == Init /\ [][Next]_vars

\* Each thread goes on with what it has begun.
FairSpec == Spec /\ WF_vars(MainStep) /\ WF_vars(ReacceptStep)

-----------------------------------------------------------------------------
(***************************************************************************)
(* Properties.                                                             *)
(***************************************************************************)
\* Every variable has its type (main.h, CTxMemPool).
TypeOK ==
    /\ tip \in Block
    /\ mapTx \subseteq Tx
    /\ mapNextTx \in [Out -> Tx \cup {Nil}]
    /\ mapOrphanTransactions \subseteq Tx
    /\ mapOrphanTransactionsByPrev \in [Tx -> SUBSET Tx]
    /\ mapWallet \subseteq Tx
    /\ main \in Main
    /\ reaccept \in Reaccept
    /\ reorgs \in 0 .. MaxReorgs /\ restarts \in 0 .. MaxRestarts

\* An index has an entry for exactly the outputs that the transactions P spend,
\* and it names the transaction that spends the output.
IsIndexOf(next, P) == \A o \in Out, t \in Tx : next[o] = t <=> t \in P /\ o \in Vin[t]

Indexed == IsIndexOf(mapNextTx, mapTx)

\* Through any sequence of arrivals, resurrections and removals the index of
\* spent outputs agrees with the pool, so no two pool transactions spend the
\* same output (CTxMemPool::accept, remove, removeConflicts), as long as only
\* handlers under cs_main change the pool.
PoolIndexed == restarts = 0 => Indexed

\* The same, also while ReacceptWalletTransactions runs beside the handlers.
PoolAlwaysIndexed == Indexed

\* A transaction of the best chain is not in the pool, unless the handler of
\* the block that holds it is still at work (Reorganize, SetBestChainInner).
PoolUnconfirmed == main.phase # "block" => mapTx \cap Confirmed = {}

\* Every input of a pool transaction is in the chain or in the pool.
Connected == \A t \in mapTx : Parents(t) \subseteq Confirmed \cup mapTx

\* CreateNewBlock relies on Connected; it holds until a reorganisation.
PoolConnects == reorgs = 0 => Connected

\* What CreateNewBlock says of every state of the pool.
PoolAlwaysConnects == main.phase # "block" => Connected

\* When a reorganisation has updated the pool, no pool transaction spends an
\* output that the connected blocks spend, and none spends an output of a
\* transaction that was dropped for that reason (removeConflicts).
ReorgDropsConflicts ==
    [][main.phase = "block" /\ main.reorg /\ main'.phase = "idle" /\ restarts' = 0 =>
          /\ SpentBy(mapTx') \cap SpentBy(main.vDelete) = {}
          /\ \A t \in mapTx' : Parents(t) \cap (mapTx \ (mapTx' \cup main.vDelete)) = {}]_vars

\* The loop over dependent orphans ends, although it extends the queue it walks,
\* and the threads do not wait for each other for ever: from every state the node
\* comes to one in which no handler and no wallet thread is at work.
ThreadsFinish == []<>(main.phase = "idle" /\ reaccept.phase # "running")

\* The orphan transactions and their index by parent agree, also while the "tx"
\* handler walks the index and reads mapOrphanTransactions for what it finds,
\* and LimitOrphanTxSize keeps them below the limit.
OrphansIndexed ==
    /\ \A p, t \in Tx : t \in mapOrphanTransactionsByPrev[p]
                           <=> t \in mapOrphanTransactions /\ p \in Parents(t)
    /\ Cardinality(mapOrphanTransactions) <= MAX_ORPHAN_TRANSACTIONS

\* When its handler is done, a pool transaction that involves the wallet is one
\* the wallet knows (SyncWithWallets).
WalletKnowsPool == main = Idle => mapTx \cap Mine \subseteq mapWallet
=============================================================================
