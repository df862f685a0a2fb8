# A TLA+ development for silkcoin

silkcoin is a proof-of-work / proof-of-stake node in the Bitcoin, PPCoin and
NovaCoin line. These modules model the parts of the node that decide which
chain it follows, which transactions it holds and what of both survives a crash;
the wallet's coins and keys; how the node gets blocks and transactions from its
peers; the life of a connection; and the staking thread. TLC checks them on small
instances; TLAPS proves every safety property that a run checks for every value of
the constants: every block tree, every set of transactions, peers, keys and
threads, every length of a chain, every number of crashes and faults.

All paths below are relative to `src/src/`.

## 1. The system

| component | state | operations | interacts with |
|---|---|---|---|
| chain state (`main.cpp`, `txdb-leveldb.cpp`) | `mapBlockIndex`, `pnext`, `pindexBest` in memory; block index, `hashBestChain`, a `CTxIndex` per transaction in LevelDB | `AddToBlockIndex`, `SetBestChain`, `SetBestChainInner`, `Reorganize`, `ConnectBlock`, `DisconnectBlock`, `LoadBlockIndex` | tells the wallet of transactions (`SyncWithWallets`), updates the pool |
| memory pool (`main.cpp`) | `mapTx`, `mapNextTx`; `mapOrphanTransactions` and its index by parent | `accept`, `addUnchecked`, `remove`, `removeConflicts`, the `tx` message, `LimitOrphanTxSize` | asks the chain for inputs; called by blocks, RPC and the wallet |
| block arrival (`main.cpp`) | `mapOrphanBlocks`, `mapOrphanBlocksByPrev`, `setStakeSeen`, `setStakeSeenOrphan` | `ProcessBlock`, `AcceptBlock` | asks peers for blocks, settles pending checkpoints, calls the chain state |
| checkpoints (`checkpoints.cpp`) | `hashSyncCheckpoint` (also stored), `hashPendingCheckpoint` | `CheckSync`, `CheckHardened`, `ProcessSyncCheckpoint`, `AcceptPendingSyncCheckpoint`, `ResetSyncCheckpoint` | force the chain state onto a block |
| wallet (`wallet.cpp`, `walletdb.cpp`) | `mapWallet`, spent flags, key pool, encryption, `wallet.dat` | `AddToWallet`, `CommitTransaction`, `ReacceptWalletTransactions`, coin selection, key reservation | its own lock `cs_wallet`; puts payments into the pool |
| peer protocol (`main.cpp`, `net.h`) | `mapAskFor`, `mapAlreadyAskedFor`, `setInventoryKnown`, `hashContinue` | `AskFor`, `SendMessages`, `inv`, `getdata`, `getblocks` | feeds the two arrival paths |
| connections (`net.cpp`) | `vNodes`, reference counts, ban scores, message buffers | accept, connect, disconnect, send, receive | threads of their own |
| address manager (`addrman.cpp`) | new and tried tables | `Add_`, `Good_`, `Attempt_`, `Select_` | connections |
| staking and mining (`miner.cpp`, `kernel.cpp`) | the block being built, the stake modifier | `CreateNewBlock`, `CheckStake`, `ComputeNextStakeModifier` | pool, wallet, block arrival |
| alerts (`alert.cpp`) | `mapAlerts` | `ProcessAlert` | peers |

Startup (`init.cpp`) loads the block index and the wallet, starts the network
and only then lets the wallet put its transactions back into the pool. The
script interpreter, the RPC layer, base types, hash functions, the graphical
interface and the vendored libraries are listed in `PROJECT.json` with the
reason why they are not modelled.

### What is hard

* **Partial work.** `SetBestChain` may disconnect and connect many blocks in
  several database transactions. A read, a commit or a block may fail, or the
  process may die, between any two of them.
* **Two places for one fact.** The tip, the links and the block index are both
  in memory and in the store; the pool has an index of spent outputs, the orphans
  an index by parent. They have to agree again after every path, early returns
  included.
* **Order of arrival.** Blocks, transactions and checkpoint messages come in any
  order; what comes early is held as an orphan or as pending and must be picked up
  by the handler that brings what it waited for.
* **Threads.** Nearly all handlers run under `cs_main`, so they do not interleave.
  `ReacceptWalletTransactions` does not, and `CTxMemPool::accept` checks
  and inserts under two separate holds of `mempool.cs`; the staking thread reads
  the pool, the tip and the wallet one after the other; socket handler, message
  handler and two opening threads share nodes under `cs_vNodes` and reference
  counts.
* **Notifications instead of facts.** The wallet does not ask the chain whether a
  coin is spent; it keeps flags that blocks, payments and repairs move, in the
  order in which they happen to come.
* **Keys on disk.** `wallet.dat` holds the only copy of the keys; encryption
  rewrites all of it in several writes, any of which may fail or be the last.
* **Other people's time.** Requests to peers are spaced by a clock that all peers
  share, and the peers may be silent, repeat themselves or leave.
* **Rules that pull in opposite directions.** Trust says "go to the heaviest
  chain", a checkpoint may force a lighter one; the duplicate-stake rule refuses
  a block that an orphan chain may need later.

`PROJECT.json` lists the hazards line by line, with the property that covers
each, or the reason why none does yet.

### What correctness means here

* Chain state: the store is that of one valid chain at every moment; the
  committed tip only gets heavier unless forced; left alone, the node ends
  on the heaviest valid chain it has.
* Pool: no two pool transactions spend one output, none is confirmed, each
  connects to the chain or to the pool, a reorganisation leaves no conflict.
* Arrival: the orphan maps agree, nothing is freed twice, nothing is held
  that could be accepted, no orphan is held for ever.
* Checkpoints: chain and checkpoint never part; no chain takes the node off a
  checkpoint that it has reached.
* Wallet coins: what the chain spends is marked as spent, no stake that left the
  chain holds a coin back, the wallet knows which of its transactions are in the chain, and a start repairs
  what a failure or an old file left behind.
* Keys: a key is given out once; no failure loses a key; the file loads and opens
  with the passphrase the user was told.
* Peers: a client gets all of a server's chain; an item announced by an
  honest peer arrives whatever silent peers do.
* Connections: a node is freed only when nobody uses it, and then surely; slots and
  outbound connections agree.
* Staking: a block the node makes on its own tip is one it can accept.

## 2. The modules

Blocks, transactions and outpoints are elements of constant sets; the tree
(`Prev`, `Anc`, `Height`, trust) and the contents of blocks are constant
functions with assumptions that TLC evaluates on every run. A hash is an
injective name. Checks that depend on nothing but the block or the transaction
(scripts, signatures, sizes, timestamps) are one constant set each.

### ChainState

`txdb` is the committed store, `batch` the store as an open database transaction
sees it, `call` the `SetBestChain` call in progress. `ConnectBlock` and
`DisconnectBlock` are functions on a view of the store: transaction index, spent
marks, links. A disk position is abstracted to the block it lies in.

| action | code |
|---|---|
| `AddToBlockIndex`, `AddToBlockIndexFails` | `CBlock::AddToBlockIndex`, with the commit of the entry and the call of `SetBestChain` |
| `ConnectTip`, `ConnectTipFails` | `SetBestChainInner` on a child of the tip |
| `ReorgDisconnect`, `ReorgConnect`, `ReorgCommit`, `ReorgFails` | `Reorganize` to `pindexIntermediate`, block by block in one batch |
| `ExtendConnect`, `ExtendFails`, `ExtendDone` | the postponed blocks, one commit each; a failure leaves the loop, and the new block becomes the tip all the same |
| `ForceCheckpoint` | the calls of `SetBestChain` from `checkpoints.cpp` |
| `Restart`, `RestartAndMoveBack` | a crash at any point and `LoadBlockIndex`, which may move the tip back |

`damaged` is a history variable: a call of `SetBestChain` started from a tip that
the store does not have (section 4). The properties of the store are
stated for behaviours in which that has not happened; `chain_tip` shows how it
happens.

**BestChain** is the abstract specification: a set of known blocks and a tip that
moves to heavier valid blocks and reaches the heaviest. `Abstract` in ChainState maps
`known` to `mapBlockIndex` and `tip` to the committed `hashBestChain`.

### Mempool

The chain is its tip; that the transaction index is the one of the chain, and
that the chain obeys the ledger rules, is what `ChainStateProofs` shows and what
`ChainAssumption` takes over. `main` is the handler under `cs_main`, `reaccept` the
thread of `ReacceptWalletTransactions`.

| action | code |
|---|---|
| `ReceiveTx`, `ReceiveOrphan` | the `tx` message up to the insertion, or `AddOrphanTx` and `LimitOrphanTxSize` |
| `SendRawTransaction`, `CommitTransaction` | the RPC command, the wallet's payment |
| `Store`, `AfterStore` | the second half of `accept` under `mempool.cs`; what the caller then tells the wallet |
| `TryOrphan`, `NextInQueue`, `EraseOrphans` | the loop over `vWorkQueue`, which it extends, and over `vEraseQueue` |
| `SetBestChainInner`, `Reorganize`, `TxnCommit`, `UpdatePool` | the blocks are connected and the wallet is told; the commit, which may fail; then resurrect, remove and (after a reorganisation) `removeConflicts` |
| `Restart`, `StartReaccept`, `VisitWalletTx`, `AcceptWalletTransaction`, `ReacceptDone` | the start of the node and the thread that follows it |

The check of a transaction and its insertion are two steps in the handler, because
`accept` holds `mempool.cs` for each of them and not in between; the wallet thread
holds it throughout, so its acceptance is one step and waits for no handler. It may also come
between the connection of a block, which takes `cs_wallet`, and the commit.

### BlockArrival

| action | code |
|---|---|
| `ProcessBlock`, `HoldOrphan`, `DropBlock` | `ProcessBlock` up to `AcceptBlock`, or to the orphan maps, or to an early return, with what each asks of peers |
| `RejectBlock`, `AcceptBlock` | `CBlock::AcceptBlock`: the contextual checks, both kinds of checkpoint, the index entry, the move of the tip |
| `AcceptPendingSyncCheckpoint`, `ProcessSyncCheckpoint` | the two ways to take a checkpoint |
| `MoveToCheckpoint`, `WriteSyncCheckpoint` | the two commits of taking one; each may fail |
| `AfterAcceptBlock`, `TryOrphan`, `AfterOrphan`, `NextInQueue` | the loop over the orphans that waited |
| `Answer` | a peer delivers what it was asked for |
| `Restart`, `ResetSyncCheckpoint` | a start, with the stored checkpoint or with a new master key |

Here `SetBestChain` moves the tip or fails; its inside is ChainState. An index
entry stays in the index once it is there; what a failed commit of the entry does
to the next start is also ChainState's subject. A block that fails `CheckBlock` or
has too little work for the time since the checkpoint is dropped as if it had not
arrived. `hashInvalidCheckpoint`, which only feeds a warning, and the sending and
relaying of checkpoints are left out. `PushGetBlocks` is the set of blocks that the
peer's answer makes the node ask for; the limit of 500 hashes is BlockDownload's
subject and the times of `AskFor` are Inventory's.

### WalletCoins

`mapWallet` is the wallet's record: the transactions it knows, the block each was
last seen in, the coins marked as spent, and the copies of earlier transactions that
a payment carries (`vtxPrev`). The chain is its tip, the pool a set, moved as Mempool
moves it. `copy` is a backup of `wallet.dat`. `disturbed` is a history variable: a
commit or a reorganisation failed after the wallet was told of the blocks, or an older
file was put in place. The properties of the running wallet are stated until then, and
`StartHeals` says what a start does about it.

| action | code |
|---|---|
| `Extend`, `ExtendFails`, `Reorganize`, `ReorganizeFails` | `SyncWithWallets` from `ConnectBlock` and `DisconnectBlock`, block by block and before the commit; the pool after it |
| `ReceiveTx`, `CommitTransaction` | a `tx` message that concerns the wallet, which is not told if it came as an orphan; a payment from `AvailableCoins` |
| `FixSpentCoins` | the command `repairwallet` |
| `Restart`, `Backup`, `Restore` | a start with the rescan from the block the file knew, then `ReacceptWalletTransactions` |

`AddToWallet`, `WalletUpdateSpent`, `DisableTransaction`, `AddToWalletIfInvolvingMe`,
`GetDepthInMainChain`, `IsTrusted`, `AvailableCoins` and `AddSupportingTransactions`
are functions of the wallet; what is done for each transaction of a block and for each
block of a branch is applied in order by the recursive function of `InOrder`. A
transaction has at most one coin of the wallet and may spend several; amounts, fees and
the choice among coins are left out. That the blocks connected obey the ledger rules
(`LedgerAssumption`) is what `StoreIsValid` of ChainState says of them.

### KeyPool

`setKeyPool` is in memory, `pool` are the records of the file. A key that is reserved
is only out of the set; keeping it erases the record.

| action | code |
|---|---|
| `TopUpKeyPool`, `Refill` | the loop of `TopUpKeyPool`; `keypoolrefill` |
| `GetReservedKey`, `ReturnKey`, `KeepKey`, `AddToWallet` | a payment, write by write |
| `GetKeyFromPool` | `getnewaddress` |
| `CreateNewBlock`, `CheckWork` | the coinbase key of mining |
| `EncryptWallet`, `ErasePool`, `ClearPool`, `WritePool`, `Encrypted` | `NewKeyPool` at the end of an encryption, record by record |
| `Lock`, `Unlock`, `Restart` | the timer of `walletpassphrase`; a crash anywhere and the load of every record |

### WalletEncrypt

The private keys in memory (`mapKeys`, `mapCryptedKeys`), in `wallet.dat` (`file`), in
`wallet.dat.rewrite` (`copy`) and in the open transaction (`txn`). `added` are the keys
the wallet was told it has, `told` is the passphrase the user was told is set.

| action | code |
|---|---|
| `GenerateNewKey` | `AddKey` / `AddCryptedKey` with their writes |
| `EncryptWallet`, `TxnBegin`, `EncryptKeys`, `TxnCommit`, `NewKeyPool`, `Return` | `CWallet::EncryptWallet`; the first test is made outside `cs_wallet`, by two callers |
| `RewriteCopy`, `RewriteGivesUp`, `RewriteRemove`, `RewriteRename` | `CDB::Rewrite` |
| `Lock`, `Unlock`, `ChangeWalletPassphrase` | the passphrase |
| `Stop`, `Start` | a stop between any two steps; `LoadWallet`, which refuses a file with both kinds of key |

`Faults` names the calls that may fail. Each is a line of the code whose failure is
possible; the run leaves out four (`"mkey"`, `"change"`, `"erase"`, `"rename"`), whose results
the code does not look at or cannot repair and for which the properties do not hold
(section 4).

### BlockDownload

A client and a server over a connection that keeps the order of messages. The chain
is one branch and a block is its height. `ClientReceive` is `inv` and `block`
(`OnInv`, `OnBlock`, `OnNext`, `OnOrphan`), `ClientSend` the requests of `SendMessages`,
`ServerReceive` is `getblocks` and `getdata` with the trigger for the next batch,
`ServerSend` the announcements with `setInventoryKnown`, which forgets its oldest
entries; `AcceptBlock` lengthens the server's chain, `Reconnect` loses everything that
belongs to the connection. `AskFor` plans a request for two minutes after the last one for
the same block: `askFor` are the requests that are due, `later` those that are not, `lastAsked`
is `mapAlreadyAskedFor`, which belongs to no connection and stays over a `Reconnect`, and
`Tick` is the clock, which may tick at any moment. `hurried` is a history variable: a
connection was made again within two minutes of a request for a block that is still
missing. What the client asks for depends on what it has at that
moment: `CNode::PushGetBlocks` drops a request equal to the last one, the stake of an orphan is checked only if its coin is known, and in the initial
download no parent of an orphan is asked for directly. Constants, variables and the
invariant are in `DownloadState`, which `NetworkProofs` also extends.

### Inventory

`mapAskFor` per peer and `mapAlreadyAskedFor` for all of them, in times relative to
now. `ReceiveInv` is `AskFor`, `SendMessages` sends what is due and moves
`mapAlreadyAskedFor`, `Receive` is the answer of an honest peer, `Tick` the clock;
`Disconnect` forgets a peer's queue, but not the shared times. Constants, variables and
the invariant are in `InventoryState`.

### Connections

Nodes are numbered; `vNodes`, `vNodesDisconnected` and `deleted` say where each is.
`Disconnect`, `Accept`, `SocketCopy`, `SocketService` and `SocketRelease` are the loop
of `ThreadSocketHandler2`; `MessageCopy`, `ProcessMessages` and `MessageRelease` that of
`ThreadMessageHandler2`; `Acquire`, `GiveUp`, `OpenNetworkConnection`, `FindNode`,
`AddRefFound`, `ConnectNode`, `MoveTo` and `SetNetworkNode` a thread that opens
connections. A step ends where the code leaves `cs_vNodes`, so what runs without that
lock (`AddRef` on a node that was found, the slot, `fNetworkNode`) interleaves. The
constant `EarlyEnd` says whether a connection may end while a thread opens one to its
address; `nFound` counts the references of threads that found a node connected. The
`TRY_LOCK`s before a node is deleted are taken to succeed, since a thread that holds one of
these locks holds a reference or `cs_vNodes` as well, and an unreferenced node is disconnected without
a look at its buffers.

### Staking

`StakeMiner`, `CreateNewBlock`, `SelectCoinsSimple`, `FindKernel`, `SearchFails`,
`SignBlock`, `SignFails` and `CheckStake` are the steps of the staking thread, which holds
`cs_main` in the second and the last only. `Tick`, `ReceiveTx`, `CommitTransaction`,
`ExtendTip`, `Reorganize`, `ReorganizeFails` and `Toggle` (lock, network) are everybody else.
`ReceiveTx` takes a transaction and the orphans that waited for it; the wallet is told of the
first only (`main.cpp:3302`). `result` is
what `ProcessBlock` makes of the block, by the tests of `CheckBlock`, `ConnectBlock` and
the duplicate-stake rule. Whether a coin may stake at some second is a free choice;
`refunded` are coins that a reorganisation, also one that failed, gave back to the wallet,
`untold` those that orphans spent of which the wallet was not told.

## 3. The runs

| run | instance | distinct states | shows |
|---|---|---|---|
| `chain_crash` | ten blocks in four branches, 1 crash, 1 fault, 1 forced move | 56 014 | `StoreIsItsChain`, `StoreIsValid`, `LinksAreStored`, `StoreMovesUp` |
| `chain_calm` | the same tree, no crash, fault or force | 276 | `TipIsStored`, `TipHasMostTrust`; the node implements `BestChain`, its liveness included |
| `chain_tip` | 1 crash | violated | the finding of section 4 |
| `pool` | seven blocks, five transactions, 1 reorganisation, 1 restart | 226 381 | `PoolIndexed`, `PoolUnconfirmed`, `PoolConnects`, `OrphansIndexed`, `ReorgDropsConflicts`, `ThreadsFinish` |
| `arrival` | six blocks in two branches, two signed, 1 fault, 1 restart | 50 948 | `CheckpointHolds`, `CheckpointIsFinal`, `OrphanMapsAgree`, `OrphansWait`, `PendingIsSettled`, `OrphansLeave` |
| `wallet_coins` | ten blocks in three branches, six transactions, one of them a stake | 198 018 | `ChainSpentIsMarked`, `BlockIsRecorded`, `MarksHaveSpenders`, `StartHeals` |
| `keypool` | six keys, a pool of one, refills to 0 and 2 | 326 131 | `PoolReadable`, `TakenOnce`, `OldKeysRetired` |
| `encrypt` | three keys, two master keys, two passphrases, two callers, five kinds of failure | 33 892 | `KeysOnDisk`, `KeysInWallet`, `FileLoads`, `PassphraseOpens` |
| `conn` | two openers, two addresses, two outbound slots, two nodes | 193 656 | `NoneFreedInUse`, `CountIsUsers`, `OutboundLimit`, `EndedAreDeleted` |
| `download` | seven blocks in batches of two, one of them new, 1 lost connection | 46 669 | `OrphansAreLatest`, `CatchesUp` |
| `inventory` | three peers, one honest, 1 lost connection | 127 184 | `NothingForgotten`, `HonestIsHeard` |
| `staking` | two coins, two transactions, three blocks, three seconds | 1 496 616 | `FeesAreEarned`, `StakesOnce` |

Every module also has `TypeOK`. It is proved, alone or as a part of the inductive
invariant, and TLC confirmed it on the same instances; no run repeats it. The one
exception is WalletCoins, whose invariant has the types of the wallet and of the tip but
not that of the pool, which no property there is about.

**Bounds.** `MaxCrashes`, `MaxFaults`, `MaxForced`, `MaxReorgs` and `MaxRestarts`
bound the environment; one of each lets every failure path be followed by normal
operation, and the proofs hold for any number. The trees are chosen so that each
case happens: two branches that spend the same coinbase, a spend inside the block
that creates the output, an immature and an unknown input, a heavier block on an
invalid parent, a tie, a proof-of-stake block of more weight, a checkpoint on the
lighter branch, two blocks with one stake, an orphan chain of two. The pool has two
rivals, a chain of three transactions and one more orphan than
`MAX_ORPHAN_TRANSACTIONS` of 2 admits.

The wallet's branches confirm a payment before and in one block with the payment that
spends its change, stake the coins that another branch pays with, and have the first
blocks of the other branches in a later one; a payment and the stake spend two coins each. `MaxKey` 6 of the key pool is enough to refill it after an
encryption and once more after a restart. `MaxMaster` 2 lets the second of two
callers of `EncryptWallet` get as far as it can. `MaxAhead` 6 of Inventory is three
times `Retry`: a request now and three planned after it, one for each peer and one for
a repeated announcement. The download has an initial part
(`Estimate` 3), two proof-of-stake blocks whose coins come three blocks earlier, a
block that appears meanwhile, and a `setInventoryKnown` smaller than the chain; `TwoMinutes`
is one tick, before which and after which everything can happen, and the proof is for any
number.
The staking search goes back two seconds of three. Two nodes in `conn` are enough
for two threads on one address and for a node that is accepted while another ends.

No symmetry is used: in the trees the elements differ, and with liveness it would
be unsound. `CHECK_DEADLOCK FALSE` stands in the ChainState runs and in `download`:
the block set is finite, and a node that has all blocks waits.

**Fairness.** `FairSpec` of ChainState has weak fairness of `CallStep`, of Mempool
weak fairness of each thread's steps, of BlockArrival weak fairness of `MainStep`:
a handler that has begun runs to its end, since it holds `cs_main` and waits only
for `mempool.cs`, which no thread keeps. `Answer(b)` is strongly fair: some
peer answers a request, although each request competes with unsolicited messages;
the node asks again through every announcement, so this stands for "not every
peer stays silent". A node in its initial block download does not ask on `inv`;
the run assumes that it is over. BlockDownload has weak fairness of receiving and
sending at both ends and of the clock: each side's threads run on, TCP delivers until the
connection is lost, and time goes by. Inventory has weak fairness of the clock, of `SendMessages` for
each peer (the message thread goes round all of them) and of the answers of honest
peers; silent peers owe nothing. Connections has weak fairness of the socket handler,
of the message handler and of each opening thread: each is a loop that waits for no
lock for ever, and that a thread may wait for a slot is in its guard.

Nothing obliges peers to send unasked blocks,
transactions or checkpoints, and no fairness is assumed of them, of crashes or of
faults. `OrphansLeave` is about lives of the node without a fault or restart.
`ThreadsFinish` says that the node comes to rest again and again, whatever arrives.

## 4. Where the code departs from its comments

Each property here states what a comment, a help text or a message of the repository
says, and TLC finds a behaviour of the code that violates it. The first is
the run `chain_tip`. The others are definitions of their modules that no run lists; each
is reproduced with the configuration of its module after the change named in the last
column.

| property | line | what happens | the text | configuration |
|---|---|---|---|---|
| `TipIsStored` | `main.cpp:1852` | when a postponed block fails to connect, the new block becomes `pindexBest` although it was never connected | `main.cpp:1850`, `main.h:1101` | run `chain_tip` |
| `PoolAlwaysIndexed` | `main.cpp:588` | a `tx` message and the wallet thread after a start put two spenders of one output into the pool | `main.cpp:583` | `MCMempool`: the property |
| `PoolAlwaysConnects` | `main.cpp:1750` | transactions that a reorganisation puts back are taken without input checks, so a child may return without its parent | `miner.cpp:197` | `MCMempool`: the property |
| `WalletKnowsPool` | `main.cpp:3302` | for an accepted orphan the wallet is told of its parent | `main.cpp:133` | `MCMempool`: the property |
| `OrphansOnlyWait` | `main.cpp:2331` | the orphans of a block that was indexed but failed to connect are never looked at again | `main.cpp:2300` | `MCBlockArrival`: `Block <- MCBlock` |
| `PendingIsKept` | `checkpoints.cpp:414` | a message for a known block forgets the checkpoint that is pending | `checkpoints.cpp:378` | `MCBlockArrival`: the property |
| `CommitSucceeds` | `wallet.cpp:400` | confirmation resets the spent flag of a coin that a pool payment spends; the next payment takes the coin and is refused after it was recorded | `wallet.cpp:1803` | `MCWalletCoins`: the property |
| `TrustedWhenParentsConfirmed` | `wallet.h:673` | the depth of a parent is that of a copy made with the payment; a parent confirmed since counts as unconfirmed | `wallet.h:658` | `MCWalletCoins`: the property |
| `MinedKeyRemoved` | `miner.cpp:127` | the reservation of the coinbase key ends with its scope; the key of a found block is still in the pool | `miner.cpp:465` | `MCKeyPool`: the property |
| `KeysInWallet`, `KeysOnDisk` | `db.cpp:431`, `db.cpp:416` | a stop between the removal of `wallet.dat` and the rename starts an empty wallet; the copy left behind later wins over newer records | `walletdb.cpp:476` | `MCWalletEncrypt`: `"rename"` in `Faults` |
| `KeysOnDisk` | `wallet.cpp:294` | the result of `WriteMasterKey` is not looked at before the plain keys are replaced | `walletdb.cpp:476` | `"mkey"` in `Faults` |
| `PassphraseOpens` | `wallet.cpp:176` | nor when the passphrase is changed | `qt/askpassphrasedialog.cpp:177` | `"change"` in `Faults` |
| `FileLoads` | `walletdb.h:107` | the result of `Erase` is not looked at: the transaction commits a plain record beside the encrypted one, and the next start refuses the file | `walletdb.cpp:476` | `"erase"` in `Faults` |
| `OrphansAreLatest`, `CatchesUp` without `hurried` | `net.h:315`, `main.cpp:3765` | the time of the last request outlives the connection: after a quick reconnection a block asked for before is put off behind those that follow it, which arrive as orphans; the announcements that would help are held back as known, and the download stops until a new block is found | `net.h:326`, `main.cpp:3206` | `MCBlockDownload`: `hurried` dropped from the property |
| `StakesOnce` without `untold` | `main.cpp:3302` | the wallet does not learn of an accepted orphan that spends its coin; the next block holds the orphan and stakes the coin, and the node refuses its own block | `main.cpp:133` | `MCStaking`: `untold` dropped from the first conjunct |
| `CatchesUp` | `main.cpp:3142` | above the last proof-of-work block the trigger for the next batch names an old block, and the second getblocks from it is dropped as a duplicate | `main.cpp:3206` | `MCBlockDownload`: `ProofOfWork <- MCEarlyWork`, `Height = 6`, `MaxReconnect = 0` |
| `RetriesApart` | `main.cpp:3765` | sending a request moves the shared time back, and two peers are asked at once | `net.h:326` | `MCInventory`: the property |
| `NoneFreedInUse` | `net.cpp:482` | a node found by `FindNode` is deleted before `AddRef` | `net.cpp:703` | `MCConnections`: `EarlyEnd = TRUE` |
| `EndedAreDeleted` | `net.cpp:1567` | a connection that ends before `fNetworkNode` is set keeps its reference, and its slot, for ever | `net.cpp:692` | `EarlyEnd = TRUE` with one opener |
| `EndedAreDeleted` without `nFound` | `net.cpp:485` | a node that a second thread found has a reference nobody releases | `net.cpp:692` | the disjunct dropped |
| `CoinStakeTimeIsBlockTime` | `main.cpp:2391` | the block time is raised to that of a transaction before those later than the coinstake are looked for | `main.cpp:2388` | `MCStaking`: the property |

Three more were met in parts that no module covers: `SelectTried` (`addrman.cpp:142`)
remembers the position of the entry it has just swapped away, so that the entry evicted
is not "the least recently tried among them"; `walletpassphrase` keeps a timer set by an
earlier call when the wallet was locked in between (`rpcwallet.cpp:1417`), so that the
key may stay in memory longer than its timeout; and the first retarget rule
(`main.cpp:1076`) can turn a target negative when a block is dated far enough before its
parent, which `GetNextTargetRequiredV2` guards against.

## 5. What is proved

Eight modules hold proofs that TLAPS checks completely: `ChainStateProofs`,
`MempoolProofs`, `BlockArrivalProofs`, `WalletCoinsProofs`, `KeyPoolProofs`,
`WalletEncryptProofs`, `StakingProofs`, and `NetworkProofs` for Connections, Inventory
and BlockDownload. They rest on the assumptions of the modules they are about and on
nothing else: the recurrences of the block tree, that transactions have fixed inputs and
outputs, that there are finitely many threads, and, for Mempool and WalletCoins, that
every chain obeys the ledger rules. What follows from the recurrences along a chain of any
length is proved. Where a theorem has a hypothesis of its own (`Calm`, `~EarlyEnd`, the faults of WalletEncrypt) it
is in the statement; sections 3 and 4 name the instances in which the properties fail
without it (for `ClaimsFit`, a part of `Calm`, there is none yet). Each inductive
invariant was an invariant of a TLC run before it was proved.

**Induction over data.** The library's induction theorems take an operator as a
parameter, which the installed provers cannot instantiate. The proofs use a least
counterexample instead: `LeastNatural` (from the library's `NatLessThanWellFounded` and
`WFMin`, which take a relation and a set) gives `UpTo`, that a *set* which has 0 and every
successor has all numbers up to n; the set is then the indexes at which the claim
holds. For a recursive function, `Iterated` shows that functions applied one after the
other have a trace, so that the `CHOOSE` behind the recursive definition has a value
that satisfies its equation; what it returns is followed along the trace
(`ToldTrace`, `ScannedTrace`, `WithoutTrace`, `InvTrace`, `DataTrace`, `SendTrace`). The
tree facts of ChainState and BlockArrival and the sum of fees in Staking are proved in
the same way, by height and by cardinality.

**ChainState** (`TypeCorrect`, `StoreConsistent`, `StoreValid`, `LinksConsistent`,
`StoreOnlyMovesUp`). That the store is the one of its chain is not inductive: a
reorganisation works on a batch that is committed later. `IInv` is `TypeOK`,
`CallOK` (where a call stands between its old tip and its goal) and `ViewsStand`:
the committed store *and* the open batch each stand at a block, that is, their
index is the one of the chain to that block, and that chain is valid. The lemmas
`ConnectStanding` and `DisconnectStanding` show that connecting a block moves a
view from its parent to the block, and that disconnecting moves it back, which
needs validity: only because no output is spent twice does erasing a spent mark
restore what was there. `RelinkMatches` does the same for the forward links.
`TrustOK` adds what the upward movement needs.

**ChainState, calm** (`TipStored`, `TipIsHeaviest`, `Refinement`). Under `Calm` nothing
crashes, fails or is forced, and `ClaimsFit` holds. The latter is needed because
`ConnectBlock` (`main.cpp:1612`) computes the proof-of-work reward for the height of
the old tip, not of the block: a block paid correctly on its own branch may be refused
when a reorganisation connects it from another tip. `ClaimsFit` asks only for the tips
from which that can happen, the parent of the block and tips of other branches no
lighter than the parent. The invariant `CInv` says that every valid block but the one
in hand is no heavier than the tip (`MostTrust`), and that `Reorganize` only stops
short of the new block on a branch that is not valid (`GoalOK`): a heavier valid
predecessor would have been tried when it arrived. So the postponed blocks of
`SetBestChain` never come up, and memory and store agree on the tip. The main lemmas are
the converses of those above, `ValidConnects` and `ValidDisconnects`: on a view that
stands at the parent, a block of a valid chain always connects. `Refinement` is the
step simulation of `BestChain`; its fairness is left to TLC.

**Mempool** (`PoolIsIndexed`, `PoolIsUnconfirmed`, `PoolIsConnected`,
`OrphansAreIndexed`, `ConflictsLeave`). `IInv` strengthens the properties by
`StoreOK` (what a handler found when it checked the transaction still holds when
it stores it, the point that fails once the second thread runs), `CommitOK` (between the
connection of the blocks and the commit, what will be removed is exactly what the new blocks
confirm, so that what the wallet thread puts into the pool meanwhile is covered too) and `BlockOK` (between the move of the chain and
`UpdatePool`, what is about to be removed covers the pool transactions that are now
confirmed).

**BlockArrival** (`CheckpointIsKept`, `OrphansAgree`, `CheckpointsAreFinal`). `IInv`
has `TargetOK` (a checkpoint being taken descends from the current one, and when it
is written the tip is above it, so neither a failure nor a crash between the two
commits parts them), `LoopOK` and `IndexOK` (which entries of the orphan map point
to freed blocks while the loop runs), `QueueOK` (`vWorkQueue` has no entry twice, so
no orphan is freed twice), `StakeOK` and `IndexClosed`.
For `OrphansOnlyWaitForBlocks` and `CheckpointsAreSettled`, `WInv` adds what holds inside
a handler: an orphan whose previous block is there has it in `AcceptBlock` or still in
`vWorkQueue` (`WaitOK`), `AcceptBlock` reports a failure only for a block that is not
indexed or does not connect (`ReportOK`), and a pending checkpoint whose block is there
is being taken (`SettleOK`).

**KeyPool** (`TypeCorrect`, `RecordsAreReadable`, `KeysAreTakenOnce`, `RecordsDiffer`,
`OldKeysAreRetired`). `RecordsOK`: the indexes in memory are those of the file but the
one a payment holds, or, while `NewKeyPool` erases, the file has exactly what is left to
erase. That gives readable records; that no key is given twice needs also that no two
records hold one key (`NoKeyTwice`, proved as `RecordsDiffer`) and that indexes never
exceed the number of keys generated (`BoundOK`), so that a refill reuses no index.

**Connections** (`TypeCorrect`, `NoNodeIsFreedInUse`, `CountsAreUsers`,
`OutboundIsLimited`), for any number of opening threads, under `~EarlyEnd`: no node ends
before the thread that opened it has marked it. `CountOK` states the count of a node as the sum of
its users, and what each handler and each opener may hold in each phase makes it
inductive; `SlotsOK` adds up the slots in the semaphore, at threads and at nodes. With
`EarlyEnd` the code breaks these (section 4).

**WalletEncrypt** (`TypeCorrect`, `KeysStayOnDisk`, `KeysStayInWallet`,
`FileAlwaysLoads`, `PassphraseAlwaysOpens`), for any number of threads and keys and all
faults but four: the unchecked writes of a master key, the unchecked erasing of a plain
record, and the missing file between removal and rename (section 4). The invariant is a list of the shapes wallet and file may have together:
new, plain, committing, sealed under one master key, renaming. That the one master key
stored is the one all encrypted keys have, although two callers may each have made one,
needs `MastersOK`.

**WalletCoins** (`SpentStaysMarked`, `BlocksAreRecorded`, `MarksAreAccounted`,
`StartsHeal`, `OneScanSuffices`), for every tree of blocks that obey the ledger rules. The
invariant has two parts. `Sound` holds always: the wallet has every transaction of the
chain that pays it or spends its coins, and a block recorded for a transaction contains
it. `Right` holds until a commit or a reorganisation fails or an older file is used: what
the chain spends is marked, every mark has a spender in the chain or a payment the wallet
keeps, and the block recorded for a transaction of the chain is in the chain. Both are
stated for a wallet and any chain, since inside a reorganisation the wallet stands at
blocks that are never the tip. The lemmas follow a wallet through one transaction, then
through a block, then through the disconnected and the connected part of a branch;
disconnecting needs the ledger rules, because `DisableTransaction` takes a mark away
without looking for another spender. `Sound` alone is enough for `StartsHeal`: the copy of
the file stands at the block it was made at, and a start scans from the fork.
`OneScanSuffices` says that the scan for unknown spenders in
`ReacceptWalletTransactions` finds none, so the loop around it in the code is run once. `MarksHaveSpenders` speaks of *a payment the wallet keeps* and not of one that can
still be confirmed: a payment that was refused, or one of whose coins a block has spent
otherwise, keeps its other coins marked until `repairwallet`. A stronger property had
held on an instance whose payments have one coin each; the attempt to prove it showed why
it does not hold in general.

**Inventory** (`RequestTypes`, `NothingIsForgotten`), for any number of peers and
items: the property is inductive together with the types.

**BlockDownload** (`DownloadTypes`, `OrphansComeFromOutside`), for a chain and batches of
any length, any `setInventoryKnown` and any number of lost connections, as long as none is
made again within two minutes of a request for a block still missing. That no block of a
batch is an orphan depends on everything that is under way, so the invariant is about the
whole line a block comes along: the announcements the server has still to send, the `inv`
messages, the requests the client has queued, the `getdata` messages and the blocks.
`InLine` says that in each of them all blocks before an entry are further up the line
or with the client, unless the entry was announced outside of a batch; and that what the
server takes the client to know has been announced. The second half is what makes the
first inductive: `PushInventory` and `SendMessages` leave out entries of
`setInventoryKnown`, and an entry forgotten there is announced again, which does no harm.
Each handler moves entries one place up the line and drops only those the client has.
Requests that are put off are what would break the line. While no connection is hurried
none of them matters: a block whose last request is less than two minutes old is with the
client or still on its way (in the requests, a `getdata` message or a block message), so that
the request put off is a repeated one, and every later block is behind the first.
The invariant holds while `best < Estimate`; above it an orphan's parent is asked for
directly and the order is lost, which is what the mutant shows. The proof also corrected
the property: it named blocks above `Start`, but the announcement of the latest block
after an answer that stops early (`main.cpp:3199`) may be of `Start` itself.

**Staking** (`TypeCorrect`, `FeesAlwaysEarned`, `StakesAreOnce`). The block copied from
the pool pays the fees it counted and connects while the tip stays (`TxsOK`); a coin
spent in chain or pool is marked, was given back by a reorganisation or is spent by an orphan
of which the wallet was not told (`MarkedOK`),
so coins chosen for a stake are not spent in the chain (`CoinsOK`), and a stake seen
before is in the chain unless one of the latter two has happened (`SeenOK`). That the fees of a
block are a natural number is `FeesNatural`, by induction over the size of the set summed.
The first attempt at this proof showed that the outcomes of `CheckStake` had been written
as overlapping alternatives; they are now in the order of the code's returns.

**Only model-checked:** liveness, and the fairness in `ImplementsBestChain`:
`ThreadsFinish`, `OrphansLeave`, `CatchesUp`, `HonestIsHeard`, `EndedAreDeleted`. The installed provers do not handle
fairness and ENABLED.

## 6. Plan

Done: the eleven modules above and the proofs of section 5. Left, in order:

1. A run of ChainState with a tree in which `ClaimsFit` fails and a correctly paid
   block is refused.
2. `StoreOnlyMovesUp` and the checkpoint properties for the composition of ChainState
   and BlockArrival, which now share a tree only by their assumptions.
3. Modules for the address manager, the unlock timer and the retarget rules.

## 7. Not modelled

Scripts, signatures, hashes and serialisation (pure data, one predicate or an
injective name here); sockets, ban scores, name resolution, UPnP, IRC seeding, HTTP and
JSON (input and output); the graphical interface, whose translations are most of the
repository's lines; LevelDB and Berkeley DB themselves, which appear as batches that are
committed as a whole or not at all; zerocoin, which the node links but no consensus rule
calls. The money supply and mint counters of the block index feed only reports.

The address manager and alerts are structures under one lock that nothing modelled here
depends on. The timer of `walletpassphrase` appears in KeyPool and WalletEncrypt as a
lock at any time. Retargeting and the stake modifier are functions of the ancestors of a
block, coin age and stake rewards functions of its inputs: a block that violates them
is one that fails its checks. Of the wallet, the knapsack choice of coins (any
choice is allowed), accounts, the address book and the resending of transactions are
left out; of mining, `getwork` and `getblocktemplate`, which copy a block under `cs_main`.
`getheaders`, `mempool`, `ping` and `addr` messages change no modelled state.

`txdb-leveldb.cpp:145` writes batches without
sync, so a power loss may bring back an older committed state; every committed state
satisfies the properties of the store, so an older one does too.

## 8. Running

    tlc -workers 2 -config MCChainState.cfg MCChainState
    tlapm ChainStateProofs.tla

and likewise for each entry of "runs" and each module with proofs.
