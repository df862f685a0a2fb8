------------------------------ MODULE Staking ------------------------------
(***************************************************************************)
(* The staking thread.  It copies transactions of the memory pool into a   *)
(* block, looks among the coins of the wallet for one that may stake,      *)
(* completes and signs the block, and hands it to ProcessBlock.  It holds  *)
(* cs_main only while it copies and while it hands the block over: in      *)
(* between, blocks arrive, the wallet pays and is locked, and the clock    *)
(* runs.  A block whose parent is no longer the tip is dropped; any other  *)
(* has to be accepted by the node that made it.                            *)
(*                                                                         *)
(* Abstractions: a transaction has one output, named by the transaction,   *)
(* and Vin[t] are the outputs it spends; the coins of the wallet are old   *)
(* enough to stake.  Whether a coin may stake at some second is decided by *)
(* a hash: any choice is possible.  The subsidy is a function of the coins *)
(* and the time of the coinstake, and so of the reward only the fees are   *)
(* kept.  A coinstake's own outputs are not spent again.  Size, priority   *)
(* and minimum fee may leave any transaction out of the block.  A          *)
(* reorganisation replaces one block by two.                               *)
(***************************************************************************)
EXTENDS Naturals, Sequences, FiniteSets, FiniteSetsExt, SequencesExt

CONSTANTS
    Coin,                       \* outputs of the wallet in the first block
    Tx, Vin, TxTime, TxFee,     \* transactions, what they spend, nTime, fee
    Payment,                    \* those the wallet makes
    nMaxStakeSearchInterval,    \* 60 seconds
    Drift,                      \* ten minutes, of PastDrift and FutureDrift
    MaxTime, MaxBlocks          \* bounds: the clock, blocks ever connected

\* What the transactions S pay.
Fees(S) == MapThenSumSet(LAMBDA t : TxFee[t], S)

ASSUME StakingAssumption ==
    /\ Coin # {} /\ Coin \cap Tx = {} /\ Payment \subseteq Tx /\ IsFiniteSet(Tx)
    /\ Vin \in [Tx -> SUBSET (Coin \cup Tx)]
    /\ TxTime \in [Tx -> 0 .. MaxTime] /\ TxFee \in [Tx -> Nat]
    /\ \A t \in Tx : \A u \in Vin[t] \cap Tx : TxTime[u] <= TxTime[t]
    /\ nMaxStakeSearchInterval \in Nat \ {0} /\ Drift \in Nat
    /\ MaxTime \in Nat /\ MaxBlocks \in Nat

VARIABLES
    clock,          \* GetAdjustedTime
    chain,          \* the best chain: blocks [id, nTime, txs, coins]
    blocks,         \* blocks connected so far, to name the next one
    mempool,        \* transactions of the memory pool
    vfSpent,        \* coins the wallet marks spent
    locked,         \* CWallet::IsLocked
    online,         \* vNodes is not empty and the initial download is over
    setStakeSeen,   \* stakes <<coin, time>> of the blocks in the index
    refunded,       \* history: coins freed by DisableTransaction
    untold,         \* history: coins spent by orphans that entered the pool, of which
                    \* the wallet is not told
    pc,             \* where the staking thread is
    fTryToSync,     \* local of StakeMiner
    block,          \* the block being made: [prev, nTime, txs, nFees, coins]
    search,         \* CreateCoinStake: [prev, nTime, coins]
    stake,          \* txCoinStake: [kernel, coins, nTime]
    nLastSearch,    \* nLastCoinStakeSearchTime
    result          \* the last block: [what, coins]

node == <<clock, chain, blocks, mempool, vfSpent, setStakeSeen, refunded, untold>>
vars == <<node, locked, online, pc, fTryToSync, block, search, stake,
          nLastSearch, result>>

\* Values of the locals of the thread where they have none.
NoBlock == [prev |-> 0, nTime |-> 0, txs |-> {}, nFees |-> 0, coins |-> {}]
NoSearch == [prev |-> 0, nTime |-> 0, coins |-> {}]
NoStake == [kernel |-> CHOOSE c \in Coin : TRUE, coins |-> {}, nTime |-> 0]
NoResult == [what |-> "none", coins |-> {}]

(***************************************************************************)
(* The chain and the pool.                                                 *)
(***************************************************************************)
Best(c) == c[Len(c)]
Spends(S) == UNION {Vin[t] : t \in S}
Confirmed(c) == UNION {c[i].txs : i \in DOMAIN c}
SpentIn(c) == Spends(Confirmed(c)) \cup UNION {c[i].coins : i \in DOMAIN c}

\* The median of the last blocks; the chains here are shorter than the span.
GetPastTimeLimit(c) ==
    CHOOSE t \in {c[i].nTime : i \in DOMAIN c} :
        /\ Cardinality({i \in DOMAIN c : c[i].nTime < t}) <= Len(c) \div 2
        /\ Cardinality({i \in DOMAIN c : c[i].nTime <= t}) > Len(c) \div 2

PastDrift(t) == IF t > Drift THEN t - Drift ELSE 0
FutureDrift(t) == t + Drift

\* ConnectInputs for all of S, after a coinstake that spends used.
Connects(S, used, c) ==
    /\ S \cap Confirmed(c) = {}
    /\ Spends(S) \subseteq Coin \cup Confirmed(c) \cup S
    /\ Spends(S) \cap (SpentIn(c) \cup used) = {}
    /\ \A t, u \in S : t # u => Vin[t] \cap Vin[u] = {}

\* AcceptToMemoryPool of the transactions S, parents before their children.
Acceptable(S) ==
    /\ S \cap (mempool \cup Confirmed(chain)) = {}
    /\ Spends(S) \subseteq Coin \cup Confirmed(chain) \cup mempool \cup S
    /\ Spends(S) \cap (SpentIn(chain) \cup Spends(mempool)) = {}
    /\ \A t, u \in S : t # u => Vin[t] \cap Vin[u] = {}

\* Mutant of Marked: what a coinstake spends is taken to be marked.
MarkedPaid(S, staked) == vfSpent \cup (Spends(S) \cap Coin)

\* WalletUpdateSpent, for the transactions S and a coinstake.
Marked(S, staked) == vfSpent \cup (Spends(S) \cap Coin) \cup staked

(***************************************************************************)
(* The other threads.                                                      *)
(***************************************************************************)
Tick ==
    /\ clock < MaxTime /\ clock' = clock + 1
    /\ UNCHANGED <<chain, blocks, mempool, vfSpent, setStakeSeen, refunded, untold>>

\* The tx message: AcceptToMemoryPool and SyncWithWallets for t, and for the orphans
\* that were waiting for it; with each of them the wallet is told of t once more.
ReceiveTx(t, orphans) ==
    /\ Acceptable({t} \cup orphans)
    /\ \A u \in orphans : Vin[u] \cap ({t} \cup orphans) # {}
    /\ mempool' = mempool \cup {t} \cup orphans /\ vfSpent' = Marked({t}, {})
    /\ untold' = untold \cup (Spends(orphans) \cap Coin)
    /\ UNCHANGED <<clock, chain, blocks, setStakeSeen, refunded>>

\* The coins were chosen before, without the locks, and may be spent by now.
CommitTransaction(t) ==
    /\ t \in Payment \ mempool /\ ~locked
    /\ vfSpent' = Marked({t}, {})
    /\ mempool' = mempool \cup (IF Acceptable({t}) THEN {t} ELSE {})
    /\ UNCHANGED <<clock, chain, blocks, setStakeSeen, refunded, untold>>

\* A block of another node may follow c.
Foreign(S, time, c) ==
    /\ Connects(S, {}, c)
    /\ time > GetPastTimeLimit(c) /\ FutureDrift(time) >= Best(c).nTime
    /\ time <= FutureDrift(clock) /\ \A t \in S : TxTime[t] <= time

\* A block extends the tip: SetBestChainInner removes only its transactions.
ExtendTip(S, time) ==
    /\ blocks < MaxBlocks /\ Foreign(S, time, chain)
    /\ chain' = Append(chain, [id |-> blocks + 1, nTime |-> time, txs |-> S, coins |-> {}])
    /\ blocks' = blocks + 1
    /\ mempool' = mempool \ S /\ vfSpent' = Marked(S, {})
    /\ UNCHANGED <<clock, setStakeSeen, refunded, untold>>

\* Transactions of the branch that is left, put back with input checks off, in
\* the order of the block, which has parents before their children.
Resurrected(S) == {t \in S \ mempool : Vin[t] \cap Spends(mempool) = {}}

\* removeConflicts for a transaction of S: the conflicting transactions and
\* those that spend them.
Conflicts(S, pool) ==
    LET hit == {t \in pool \ S : Vin[t] \cap Spends(S) # {}}
    IN  {u \in pool \ S : \A D \in SUBSET pool :
            hit \cup {t \in pool : Vin[t] \cap D # {}} \subseteq D => u \in D}

\* Two blocks replace the last one; the first holds S.  DisableTransaction
\* frees the coins of a coinstake of the wallet that is disconnected.
Reorganize(S, time) ==
    LET rest == Front(chain)
        pool == mempool \cup Resurrected(Best(chain).txs)
    IN  /\ Len(chain) > 1 /\ blocks + 2 <= MaxBlocks
        /\ Foreign(S, time, rest)
        /\ chain' = rest \o <<[id |-> blocks + 1, nTime |-> time, txs |-> S, coins |-> {}],
                              [id |-> blocks + 2, nTime |-> time + 1, txs |-> {}, coins |-> {}]>>
        /\ time + 1 \in GetPastTimeLimit(Front(chain')) + 1 .. FutureDrift(clock)
        /\ blocks' = blocks + 2
        /\ mempool' = (pool \ S) \ Conflicts(S, pool)
        /\ vfSpent' = (vfSpent \ Best(chain).coins) \cup (Spends(S) \cap Coin)
        /\ refunded' = refunded \cup Best(chain).coins
        /\ UNCHANGED <<clock, setStakeSeen, untold>>

\* A reorganisation that fails with its second block, or with the first, when S is
\* empty: the wallet is told of what was disconnected and connected all the same.
ReorganizeFails(S) ==
    /\ Len(chain) > 1 /\ Connects(S, {}, Front(chain))
    /\ vfSpent' = (vfSpent \ Best(chain).coins) \cup (Spends(S) \cap Coin)
    /\ refunded' = refunded \cup Best(chain).coins
    /\ UNCHANGED <<clock, chain, blocks, mempool, setStakeSeen, untold>>

Others ==
    /\ \/ Tick
       \/ \E t \in Tx : CommitTransaction(t) \/ \E S \in SUBSET (Tx \ {t}) : ReceiveTx(t, S)
       \/ \E S \in SUBSET Tx : ReorganizeFails(S)
       \/ \E S \in SUBSET Tx, time \in 0 .. MaxTime - 1 :
             ExtendTip(S, time + 1) \/ Reorganize(S, time)
    /\ UNCHANGED <<locked, online, pc, fTryToSync, block, search, stake, nLastSearch, result>>

\* The wallet is locked or unlocked; peers come and go, which the staking thread
\* sees only at the head of its loop.
Toggle ==
    /\ \/ locked' = ~locked /\ UNCHANGED online
       \/ pc = "idle" /\ online' = ~online /\ UNCHANGED locked
    /\ UNCHANGED <<node, pc, fTryToSync, block, search, stake, nLastSearch, result>>

(***************************************************************************)
(* The staking thread.                                                     *)
(***************************************************************************)
\* StakeMiner waits for peers; CreateNewBlock then reads pindexBest and the
\* time of the coinbase without a lock.
StakeMiner ==
    /\ pc = "idle" /\ ~locked
    /\ \/ /\ ~online /\ fTryToSync' = TRUE
          /\ UNCHANGED <<pc, block, result>>
       \/ /\ online /\ fTryToSync /\ fTryToSync' = FALSE
          /\ UNCHANGED <<pc, block, result>>
       \/ /\ online /\ fTryToSync' = FALSE
          /\ pc' = "collect" /\ result' = NoResult
          /\ block' = [NoBlock EXCEPT !.prev = Best(chain).id, !.nTime = clock]
    /\ UNCHANGED <<node, locked, online, search, stake, nLastSearch>>

\* CreateNewBlock, under cs_main and mempool.cs.
CreateNewBlock ==
    /\ pc = "collect" /\ pc' = "sign"
    /\ \E S \in SUBSET {t \in mempool : TxTime[t] <= clock /\ TxTime[t] <= block.nTime} :
          /\ Connects(S, {}, chain)
          /\ block' = [block EXCEPT !.txs = S, !.nFees = Fees(S)]
    /\ UNCHANGED <<node, locked, online, fTryToSync, search, stake, nLastSearch, result>>

\* SignBlock calls CreateCoinStake, which chooses coins; nothing to do within
\* the second that was searched last.
SelectCoinsSimple ==
    /\ pc = "sign"
    /\ \/ /\ clock <= nLastSearch
          /\ pc' = "idle" /\ block' = NoBlock /\ UNCHANGED search
       \/ /\ clock > nLastSearch /\ pc' = "search" /\ UNCHANGED block
          /\ \E C \in SUBSET (Coin \ vfSpent) :
                search' = [prev |-> Best(chain).id, nTime |-> clock, coins |-> C]
    /\ UNCHANGED <<node, locked, online, fTryToSync, stake, nLastSearch, result>>

KernelTime(time, n) == time - n

\* CreateCoinStake: a kernel is found, n seconds back, and other coins join it.
FindKernel ==
    /\ pc = "search" /\ pc' = "finish"
    /\ ~locked /\ Best(chain).id = search.prev
    /\ \E c \in search.coins, n \in 0 .. nMaxStakeSearchInterval - 1 :
          /\ n < search.nTime - nLastSearch
          /\ \E more \in SUBSET (search.coins \ {c}) :
                stake' = [kernel |-> c, coins |-> more \cup {c},
                          nTime |-> KernelTime(search.nTime, n)]
    /\ UNCHANGED <<node, locked, online, fTryToSync, block, search, nLastSearch, result>>

\* No kernel, no reward, a coinstake that cannot be signed or comes too early.
SearchFails ==
    /\ pc \in {"search", "finish"} /\ pc' = "idle"
    /\ nLastSearch' = search.nTime
    /\ block' = NoBlock /\ search' = NoSearch /\ stake' = NoStake
    /\ UNCHANGED <<node, locked, online, fTryToSync, result>>

\* Mutant of BlockTime: the block has the time of its coinstake.
BlockTimeStake(txs) == stake.nTime

\* nTime, with GetMaxTransactionTime over the coinbase, which now has the time
\* of the coinstake, and the transactions copied from the pool.
BlockTime(txs) ==
    Max({GetPastTimeLimit(chain) + 1, PastDrift(Best(chain).nTime), stake.nTime}
        \cup {TxTime[t] : t \in txs})

\* The end of SignBlock, with pindexBest read again.
SignBlock ==
    /\ pc = "finish" /\ pc' = "check"
    /\ ~locked
    /\ stake.nTime >= Max({GetPastTimeLimit(chain) + 1, PastDrift(Best(chain).nTime)})
    /\ LET nTime == BlockTime(block.txs)
       IN  block' = [block EXCEPT !.nTime = nTime, !.coins = stake.coins,
                                  !.txs = {t \in @ : TxTime[t] <= nTime}]
    /\ search' = NoSearch
    /\ UNCHANGED <<node, locked, online, fTryToSync, stake, nLastSearch, result>>

\* The block cannot be signed: the same second may be searched again.
SignFails ==
    /\ pc = "finish" /\ pc' = "idle"
    /\ block' = NoBlock /\ search' = NoSearch /\ stake' = NoStake
    /\ UNCHANGED <<node, locked, online, fTryToSync, nLastSearch, result>>

\* CheckBlock and AcceptBlock: the times.
TimesFit ==
    /\ block.nTime = stake.nTime
    /\ \A t \in block.txs : TxTime[t] <= block.nTime
    /\ block.nTime > GetPastTimeLimit(chain)
    /\ FutureDrift(block.nTime) >= Best(chain).nTime
    /\ block.nTime <= FutureDrift(clock)

\* ConnectBlock: the coinstake claims the fees of the block as it was made.
RewardFits == block.nFees <= Fees(block.txs)

InputsFree ==
    /\ block.coins \cap SpentIn(chain) = {}
    /\ Connects(block.txs, block.coins, chain)

\* Blocks that reach AddToBlockIndex.
Indexed == {"spent", "reward", "accepted"}

\* CheckStake and, under cs_main, ProcessBlock.
CheckStake ==
    LET kernel == <<stake.kernel, stake.nTime>>
        what == IF block.prev # Best(chain).id THEN "stale"
                ELSE IF kernel \in setStakeSeen THEN "seen"
                ELSE IF ~TimesFit THEN "time"
                ELSE IF ~InputsFree THEN "spent"
                ELSE IF ~RewardFits THEN "reward"
                ELSE "accepted"
    IN  /\ pc = "check" /\ pc' = "idle"
        /\ what = "accepted" => blocks < MaxBlocks
        /\ result' = [what |-> what, coins |-> block.coins]
        /\ setStakeSeen' = setStakeSeen \cup (IF what \in Indexed THEN {kernel} ELSE {})
        /\ IF what = "accepted"
           THEN /\ chain' = Append(chain, [id |-> blocks + 1, nTime |-> block.nTime,
                                           txs |-> block.txs, coins |-> block.coins])
                /\ blocks' = blocks + 1
                /\ mempool' = mempool \ block.txs
                /\ vfSpent' = Marked(block.txs, block.coins)
           ELSE UNCHANGED <<chain, blocks, mempool, vfSpent>>
        /\ block' = NoBlock /\ stake' = NoStake
        /\ UNCHANGED <<clock, refunded, untold, locked, online, fTryToSync, search, nLastSearch>>

Init ==
    /\ clock = 0 /\ blocks = 0 /\ mempool = {} /\ vfSpent = {}
    /\ chain = <<[id |-> 0, nTime |-> 0, txs |-> {}, coins |-> {}]>>
    /\ locked = FALSE /\ online = TRUE /\ setStakeSeen = {} /\ refunded = {} /\ untold = {}
    /\ pc = "idle" /\ fTryToSync = TRUE /\ nLastSearch = 0 /\ result = NoResult
    /\ block = NoBlock /\ search = NoSearch /\ stake = NoStake

Next ==
    \/ Others \/ Toggle
    \/ StakeMiner \/ CreateNewBlock \/ SelectCoinsSimple \/ FindKernel
    \/ SearchFails \/ SignBlock \/ SignFails \/ CheckStake

Spec == Init /\ [][Next]_vars

(***************************************************************************)
(* Properties.                                                             *)
(***************************************************************************)
\* The variables are of their types; a coinstake is never dated in the future
\* (the search of CreateCoinStake goes back from the current time).
TypeOK ==
    /\ clock \in 0 .. MaxTime /\ blocks \in 0 .. MaxBlocks
    /\ chain \in Seq([id : 0 .. MaxBlocks, nTime : 0 .. MaxTime, txs : SUBSET Tx,
                      coins : SUBSET Coin])
    /\ mempool \subseteq Tx /\ vfSpent \subseteq Coin /\ refunded \cup untold \subseteq Coin
    /\ setStakeSeen \subseteq Coin \X (0 .. MaxTime)
    /\ {locked, online, fTryToSync} \subseteq BOOLEAN
    /\ pc \in {"idle", "collect", "sign", "search", "finish", "check"}
    /\ block \in [prev : 0 .. MaxBlocks, nTime : 0 .. MaxTime, txs : SUBSET Tx,
                  nFees : Nat, coins : SUBSET Coin]
    /\ search \in [prev : 0 .. MaxBlocks, nTime : 0 .. clock, coins : SUBSET Coin]
    /\ stake \in [kernel : Coin, coins : SUBSET Coin, nTime : 0 .. clock]
    /\ nLastSearch \in 0 .. clock
    /\ result \in [what : Indexed \cup {"none", "stale", "seen", "time"},
                   coins : SUBSET Coin]

\* The coinstake of a block that passed the test for stale blocks claims no
\* more fees than the transactions of the block pay (the fees are added up in
\* CreateNewBlock, ConnectBlock compares; the time that SignBlock gives the block
\* is such that it takes no transaction out again).
FeesAreEarned == result.what # "reward"

\* A block made on the tip spends nothing twice, unless a reorganisation gave one
\* of the coins of its coinstake back to the wallet, or the wallet was not told of
\* the transaction that spends it, which came as an orphan; only then is a stake
\* offered again (CreateNewBlock copies transactions before CreateCoinStake chooses
\* coins; SyncWithWallets in the tx message, DisableTransaction).
StakesOnce ==
    /\ result.what = "spent" => result.coins \cap (refunded \cup untold) # {}
    /\ result.what = "seen" => refunded \cup untold # {}

\* A signed block that is not stale has the time of its coinstake, as the
\* comment in SignBlock has it.
CoinStakeTimeIsBlockTime == result.what # "time"
=============================================================================
