----------------------------- MODULE ChainState -----------------------------
(***************************************************************************)
(* The block tree, the best chain and the transaction index of a node      *)
(* (main.cpp, txdb-leveldb.cpp).                                           *)
(*                                                                         *)
(* A node keeps mapBlockIndex, the pnext links and pindexBest in memory    *)
(* and a LevelDB store with the same block index, the tip (hashBestChain)  *)
(* and, for every transaction of the best chain, a CTxIndex: where the     *)
(* transaction is and where each of its outputs is spent.  SetBestChain    *)
(* moves all of it from one tip to another: a child of the tip is          *)
(* connected in one database transaction; for any other block Reorganize   *)
(* disconnects and connects blocks inside one database transaction up to   *)
(* the first block heavier than the old tip, and the blocks above that one *)
(* are connected in a database transaction each.                           *)
(*                                                                         *)
(* One step of this module disconnects or connects one block.  cs_main is  *)
(* held during the whole of AcceptBlock, so no other handler runs between  *)
(* the steps; a crash may come between any two of them.  The memory pool,  *)
(* which the same handlers update, is module Mempool.                      *)
(***************************************************************************)
EXTENDS Integers, Sequences

CONSTANTS
    Block,      \* the blocks that exist (hashes)
    Genesis,    \* hashGenesisBlock
    Nil,        \* a null pointer, hash or disk position
    Prev,       \* hashPrevBlock of a block, Nil for Genesis
    Anc,        \* the blocks reached from a block through pprev, itself included
    Height,     \* nHeight
    ChainTrust, \* nChainTrust
    Tx,         \* transactions (hashes)
    Out,        \* outpoints
    OutTx,      \* COutPoint::hash, the transaction that creates an outpoint
    Vin,        \* the outpoints a transaction spends, {} for a coinbase
    Vtx,        \* the transactions of a block, in order
    Generated,  \* the transactions that are a coinbase or a coinstake
    Sound,      \* blocks that pass the checks no chain state enters
    Claim,      \* what the coinbase of a proof-of-work block pays beyond fees
    nCoinbaseMaturity,
    MaxCrashes, MaxFaults, MaxForced    \* bounds on the environment

ASSUME TreeAssumption ==
    /\ Genesis \in Block
    /\ Nil \notin Block
    /\ Prev \in [Block -> Block \cup {Nil}]
    /\ Height \in [Block -> Nat]
    /\ ChainTrust \in [Block -> Nat]
    /\ Anc \in [Block -> SUBSET Block]
    /\ Anc[Genesis] = {Genesis}
    /\ \A b \in Block :
          /\ Prev[b] = Nil <=> b = Genesis
          /\ b # Genesis => /\ Anc[b] = Anc[Prev[b]] \cup {b}
                            /\ Height[b] = Height[Prev[b]] + 1
                            /\ ChainTrust[b] > ChainTrust[Prev[b]]

Txs(b) == {Vtx[b][i] : i \in DOMAIN Vtx[b]}

SpentIn(b) == UNION {Vin[t] : t \in Txs(b)}

\* A coinbase starts with the height of its block (AcceptBlock checks it), so
\* the coinbases of two heights differ; any other transaction has an input.
ASSUME TxAssumption ==
    /\ OutTx \in [Out -> Tx]
    /\ Vin \in [Tx -> SUBSET Out]
    /\ Vtx \in [Block -> Seq(Tx)]
    /\ Generated \subseteq Tx
    /\ Sound \subseteq Block
    /\ Claim \in [Block -> Nat]
    /\ nCoinbaseMaturity \in Nat
    /\ Vtx[Genesis] = << >>
    /\ \A a, b \in Block : \A t \in Txs(a) \cap Txs(b) :
          Vin[t] = {} => Height[a] = Height[b]
    /\ \A b \in Sound : \A i, j \in DOMAIN Vtx[b] :
          i # j => Vtx[b][i] # Vtx[b][j]

ASSUME BoundAssumption ==
    MaxCrashes \in Nat /\ MaxFaults \in Nat /\ MaxForced \in Nat

VARIABLES
    mapBlockIndex,      \* blocks in the memory index
    pnext,              \* CBlockIndex::pnext
    pindexBest,         \* the tip; hashBestChain and nBestChainTrust go with it
    nBestInvalidTrust,  \* heaviest rejected chain, in memory
    txdb,               \* the committed store
    diskInvalidTrust,   \* bnBestInvalidTrust of the store
    call,               \* the SetBestChain call in progress
    batch,              \* the store as the active database transaction sees it
    crashes, faults, forced,
    damaged             \* history: a call started from a tip the store does not have

memory == <<mapBlockIndex, pnext, pindexBest, nBestInvalidTrust>>
environment == <<crashes, faults, forced>>
vars == <<memory, txdb, diskInvalidTrust, call, batch, environment, damaged>>

(***************************************************************************)
(* The store.  A disk position is abstracted to the block it lies in;      *)
(* vSpent of an outpoint is meaningful while its transaction is indexed.   *)
(***************************************************************************)
BlockOrNil == Block \cup {Nil}

Store == [blockindex    : SUBSET Block,
          hashNext      : [Block -> BlockOrNil],
          hashBestChain : Block,
          txindex       : [Tx -> BlockOrNil],
          vSpent        : [Out -> BlockOrNil]]

NoBatch == Nil

Phases == {"none", "inner", "reorg", "extend"}

Call == [phase  : Phases,
         new    : BlockOrNil,   \* pindexNew
         target : BlockOrNil,   \* pindexIntermediate, where Reorganize goes
         at     : BlockOrNil]   \* the block the open view of the store stands at

NoCall == [phase |-> "none", new |-> Nil, target |-> Nil, at |-> Nil]

(***************************************************************************)
(* ConnectBlock and DisconnectBlock as functions of a view of the store.   *)
(***************************************************************************)
Before(b, i) == {Vtx[b][j] : j \in 1 .. (i - 1)}

\* FetchInputs: the changes queued by this block first, then the store.
Position(b, i, o, view) ==
    IF OutTx[o] \in Before(b, i) THEN b ELSE view.txindex[OutTx[o]]

FetchInputs(b, i, view) ==
    \A o \in Vin[Vtx[b][i]] : Position(b, i, o, view) # Nil

\* Mutant of ConnectInputs: the spent pointer of the store is not looked at.
ConnectInputsUnchecked(b, i, view) ==
    \A o \in Vin[Vtx[b][i]] : \A t \in Before(b, i) : o \notin Vin[t]

\* ConnectInputs: no input is immature, none is spent already.
ConnectInputs(b, i, view) ==
    \A o \in Vin[Vtx[b][i]] :
        /\ OutTx[o] \in Generated =>
              \A a \in Anc[b] : Height[b] - Height[a] < nCoinbaseMaturity
                                   => Position(b, i, o, view) # a
        /\ OutTx[o] \in Before(b, i) \/ view.vSpent[o] = Nil
        /\ \A t \in Before(b, i) : o \notin Vin[t]

\* BIP30: a transaction may only overwrite one that is completely spent.
NoOverwrite(b, view) ==
    \A o \in Out : OutTx[o] \in Txs(b) /\ view.txindex[OutTx[o]] # Nil
                      => view.vSpent[o] # Nil

GetProofOfWorkReward(nHeight) ==
    IF nHeight = 1 THEN 2000000 ELSE IF nHeight < 50000 THEN 5000 ELSE 2500

\* The reward is computed for the height of pindexBest, which is the parent of
\* the block only when the block extends the tip.
CanConnect(b, view) ==
    /\ b \in Sound
    /\ NoOverwrite(b, view)
    /\ \A i \in DOMAIN Vtx[b] : FetchInputs(b, i, view) /\ ConnectInputs(b, i, view)
    /\ Claim[b] <= GetProofOfWorkReward(Height[pindexBest])

ConnectBlock(b, view) ==
    [view EXCEPT
        !.blockindex = @ \cup {b, Prev[b]},
        !.hashNext = [@ EXCEPT ![b] = pnext[b], ![Prev[b]] = b],
        !.txindex = [t \in Tx |-> IF t \in Txs(b) THEN b ELSE @[t]],
        !.vSpent = [o \in Out |-> IF o \in SpentIn(b) THEN b
                                  ELSE IF OutTx[o] \in Txs(b) THEN Nil ELSE @[o]]]

\* DisconnectInputs reads the CTxIndex of every input, last transaction first.
CanDisconnect(b, view) ==
    \A i \in DOMAIN Vtx[b] : \A o \in Vin[Vtx[b][i]] :
        /\ view.txindex[OutTx[o]] # Nil
        /\ \A j \in (i + 1) .. Len(Vtx[b]) : Vtx[b][j] # OutTx[o]

\* Mutant of DisconnectBlock: spent pointers are not relinquished.
DisconnectBlockOnly(b, view) ==
    [view EXCEPT
        !.hashNext = [@ EXCEPT ![Prev[b]] = Nil],
        !.txindex = [t \in Tx |-> IF t \in Txs(b) THEN Nil ELSE @[t]]]

DisconnectBlock(b, view) ==
    [view EXCEPT
        !.hashNext = [@ EXCEPT ![Prev[b]] = Nil],
        !.blockindex = @ \cup {Prev[b]},
        !.txindex = [t \in Tx |-> IF t \in Txs(b) THEN Nil ELSE @[t]],
        !.vSpent = [o \in Out |-> IF o \in SpentIn(b) \/ OutTx[o] \in Txs(b)
                                  THEN Nil ELSE @[o]]]

WriteHashBestChain(b, view) == [view EXCEPT !.hashBestChain = b]

(***************************************************************************)
(* SetBestChain.                                                           *)
(***************************************************************************)
IsInMainChain(b) == pnext[b] # Nil \/ b = pindexBest

\* The block pindexIntermediate is left at by the walk back from pindexNew.
IsIntermediate(a, new, tip) ==
    LET postponed(c) == c # Genesis /\ ChainTrust[Prev[c]] > ChainTrust[tip]
    IN  /\ a \in Anc[new]
        /\ ~postponed(a)
        /\ \A c \in Anc[new] : Height[c] > Height[a] => postponed(c)

\* TxnBegin and the choice between the two ways to get from tip to new.
SetBestChain(new, tip, store) ==
    /\ damaged' = (damaged \/ store.hashBestChain # tip)
    /\ \/ /\ Prev[new] = tip
          /\ call' = [phase |-> "inner", new |-> new, target |-> new, at |-> tip]
          /\ batch' = NoBatch
       \/ /\ Prev[new] # tip
          /\ \E a \in Block :
                /\ IsIntermediate(a, new, tip)
                /\ call' = [phase |-> "reorg", new |-> new, target |-> a, at |-> tip]
          /\ batch' = store

InvalidChainFound(b) ==
    IF ChainTrust[b] > nBestInvalidTrust
    THEN nBestInvalidTrust' = ChainTrust[b] /\ diskInvalidTrust' = ChainTrust[b]
    ELSE UNCHANGED <<nBestInvalidTrust, diskInvalidTrust>>

Return == call' = NoCall /\ batch' = NoBatch

\* A read of a block file or a commit that fails.
Fault == faults < MaxFaults /\ faults' = faults + 1 /\ UNCHANGED <<crashes, forced>>

NoFault == UNCHANGED environment

\* The next block to connect on the way to goal.
NextTo(n, goal) == n \in Anc[goal] /\ Prev[n] = call.at

(***************************************************************************)
(* SetBestChainInner for a block whose parent is the tip.                  *)
(***************************************************************************)
ConnectTip ==
    /\ call.phase = "inner"
    /\ CanConnect(call.new, txdb)
    /\ txdb' = WriteHashBestChain(call.new, ConnectBlock(call.new, txdb))
    /\ pnext' = [pnext EXCEPT ![Prev[call.new]] = call.new]
    /\ pindexBest' = call.new
    /\ Return
    /\ NoFault
    /\ UNCHANGED <<mapBlockIndex, nBestInvalidTrust, diskInvalidTrust, damaged>>

\* Mutant of ConnectTipFails: the failure does not keep the tip from moving.
ConnectTipFailsOnward ==
    /\ call.phase = "inner"
    /\ ~CanConnect(call.new, txdb)
    /\ InvalidChainFound(call.new)
    /\ pindexBest' = call.new
    /\ Return
    /\ NoFault
    /\ UNCHANGED <<mapBlockIndex, pnext, txdb, damaged>>

ConnectTipFails ==
    /\ call.phase = "inner"
    /\ \/ ~CanConnect(call.new, txdb) /\ InvalidChainFound(call.new) /\ NoFault
       \/ Fault /\ UNCHANGED <<nBestInvalidTrust, diskInvalidTrust>>
    /\ Return
    /\ UNCHANGED <<mapBlockIndex, pnext, pindexBest, txdb, damaged>>

(***************************************************************************)
(* Reorganize.  While the view stands at a block that is not an ancestor   *)
(* of the target, that block is disconnected; from the fork on, the blocks *)
(* towards the target are connected.                                       *)
(***************************************************************************)
ReorgDisconnect ==
    /\ call.phase = "reorg"
    /\ call.at \notin Anc[call.target]
    /\ CanDisconnect(call.at, batch)
    /\ batch' = DisconnectBlock(call.at, batch)
    /\ call' = [call EXCEPT !.at = Prev[@]]
    /\ UNCHANGED <<memory, txdb, diskInvalidTrust, environment, damaged>>

ReorgConnect ==
    /\ call.phase = "reorg"
    /\ \E n \in Block :
          /\ call.at \in Anc[call.target]
          /\ NextTo(n, call.target)
          /\ CanConnect(n, batch)
          /\ batch' = ConnectBlock(n, batch)
          /\ call' = [call EXCEPT !.at = n]
    /\ UNCHANGED <<memory, txdb, diskInvalidTrust, environment, damaged>>

\* Mutant of Relink: the links of the branch that is left stay.
RelinkNewOnly(old, new) ==
    [a \in Block |-> IF \E n \in Anc[new] \ Anc[old] : Prev[n] = a
                     THEN CHOOSE n \in Anc[new] \ Anc[old] : Prev[n] = a
                     ELSE pnext[a]]

\* The links of the branch left are cleared, then those of the new one set.
Relink(old, new) ==
    [a \in Block |->
        IF \E n \in Anc[new] \ Anc[old] : Prev[n] = a
        THEN CHOOSE n \in Anc[new] \ Anc[old] : Prev[n] = a
        ELSE IF \E n \in Anc[old] \ Anc[new] : Prev[n] = a THEN Nil ELSE pnext[a]]

ReorgCommit ==
    /\ call.phase = "reorg"
    /\ call.at = call.target
    /\ txdb' = WriteHashBestChain(call.target, batch)
    /\ pnext' = Relink(pindexBest, call.target)
    /\ batch' = NoBatch
    /\ call' = [call EXCEPT !.phase = "extend"]
    /\ NoFault
    /\ UNCHANGED <<mapBlockIndex, pindexBest, nBestInvalidTrust, diskInvalidTrust, damaged>>

\* Any failure aborts the transaction; nothing in memory has changed.
ReorgFails ==
    /\ call.phase = "reorg"
    /\ \/ /\ call.at \notin Anc[call.target]
          /\ ~CanDisconnect(call.at, batch)
          /\ NoFault
       \/ /\ call.at \in Anc[call.target]
          /\ \E n \in Block : NextTo(n, call.target) /\ ~CanConnect(n, batch)
          /\ NoFault
       \/ Fault
    /\ InvalidChainFound(call.new)
    /\ Return
    /\ UNCHANGED <<mapBlockIndex, pnext, pindexBest, txdb, damaged>>

(***************************************************************************)
(* The postponed blocks, each in a database transaction of its own.  When  *)
(* one fails the loop is left, and pindexNew becomes the tip all the same. *)
(***************************************************************************)
ExtendConnect ==
    /\ call.phase = "extend"
    /\ \E n \in Block :
          /\ NextTo(n, call.new)
          /\ CanConnect(n, txdb)
          /\ txdb' = WriteHashBestChain(n, ConnectBlock(n, txdb))
          /\ pnext' = [pnext EXCEPT ![Prev[n]] = n]
          /\ call' = [call EXCEPT !.at = n]
    /\ NoFault
    /\ UNCHANGED <<mapBlockIndex, pindexBest, nBestInvalidTrust, diskInvalidTrust,
                   batch, damaged>>

ExtendFails ==
    /\ call.phase = "extend"
    /\ \E n \in Block :
          /\ NextTo(n, call.new)
          /\ \/ ~CanConnect(n, txdb) /\ InvalidChainFound(n) /\ NoFault
             \/ Fault /\ UNCHANGED <<nBestInvalidTrust, diskInvalidTrust>>
    /\ pindexBest' = call.new
    /\ Return
    /\ UNCHANGED <<mapBlockIndex, pnext, txdb, damaged>>

ExtendDone ==
    /\ call.phase = "extend"
    /\ call.at = call.new
    /\ pindexBest' = call.new
    /\ Return
    /\ NoFault
    /\ UNCHANGED <<mapBlockIndex, pnext, nBestInvalidTrust, diskInvalidTrust, txdb, damaged>>

(***************************************************************************)
(* The callers of SetBestChain.                                            *)
(***************************************************************************)
\* Mutants of IsNewBest: a tie is enough; the height decides.
IsNewBestAtTie(b) == ChainTrust[b] >= ChainTrust[pindexBest]
IsNewBestByHeight(b) == Height[b] > Height[pindexBest]

IsNewBest(b) == ChainTrust[b] > ChainTrust[pindexBest]

\* AddToBlockIndex, once AcceptBlock has let the block through.
AddToBlockIndex(b) ==
    /\ call = NoCall
    /\ b \notin mapBlockIndex
    /\ Prev[b] \in mapBlockIndex
    /\ mapBlockIndex' = mapBlockIndex \cup {b}
    /\ txdb' = [txdb EXCEPT !.blockindex = @ \cup {b},
                            !.hashNext[b] = pnext[b]]
    /\ IF IsNewBest(b)
       THEN SetBestChain(b, pindexBest, txdb')
       ELSE UNCHANGED <<call, batch, damaged>>
    /\ UNCHANGED <<pnext, pindexBest, nBestInvalidTrust, diskInvalidTrust, environment>>

\* The commit of the new entry fails: the block stays in memory only.
AddToBlockIndexFails(b) ==
    /\ call = NoCall
    /\ b \notin mapBlockIndex
    /\ Prev[b] \in mapBlockIndex
    /\ Fault
    /\ mapBlockIndex' = mapBlockIndex \cup {b}
    /\ UNCHANGED <<pnext, pindexBest, nBestInvalidTrust, txdb, diskInvalidTrust,
                   call, batch, damaged>>

\* A checkpoint whose block is not in the main chain is made the tip,
\* whatever its trust (AcceptPendingSyncCheckpoint, ResetSyncCheckpoint).
ForceCheckpoint(b) ==
    /\ call = NoCall
    /\ forced < MaxForced
    /\ b \in mapBlockIndex
    /\ ~IsInMainChain(b)
    /\ SetBestChain(b, pindexBest, txdb)
    /\ forced' = forced + 1
    /\ UNCHANGED <<memory, txdb, diskInvalidTrust, crashes, faults>>

(***************************************************************************)
(* The process dies and starts again: CTxDB::LoadBlockIndex.  When a block *)
(* of the best chain no longer passes CheckBlock (its timestamp is checked *)
(* against a clock), the tip is moved back to the parent of the lowest     *)
(* such block.  A store in which the parent of an entry is missing is left *)
(* out: the load would invent an empty entry for it.                       *)
(***************************************************************************)
Reload ==
    /\ crashes < MaxCrashes
    /\ crashes' = crashes + 1
    /\ \A b \in txdb.blockindex : b = Genesis \/ Prev[b] \in txdb.blockindex
    /\ mapBlockIndex' = txdb.blockindex
    /\ pnext' = txdb.hashNext
    /\ pindexBest' = txdb.hashBestChain
    /\ nBestInvalidTrust' = diskInvalidTrust
    /\ UNCHANGED <<txdb, diskInvalidTrust, faults>>

Restart ==
    /\ Reload
    /\ Return
    /\ UNCHANGED <<forced, damaged>>

RestartAndMoveBack(b) ==
    /\ Reload
    /\ forced < MaxForced
    /\ forced' = forced + 1
    /\ b \in Anc[txdb.hashBestChain] \ {txdb.hashBestChain}
    /\ SetBestChain(b, txdb.hashBestChain, txdb)

(***************************************************************************)
(* A new node holds the genesis block, which is never connected: its       *)
(* transaction is not indexed.                                             *)
(***************************************************************************)
Init ==
    /\ mapBlockIndex = {Genesis}
    /\ pnext = [b \in Block |-> Nil]
    /\ pindexBest = Genesis
    /\ nBestInvalidTrust = 0
    /\ txdb = [blockindex |-> {Genesis}, hashNext |-> [b \in Block |-> Nil],
               hashBestChain |-> Genesis,
               txindex |-> [t \in Tx |-> Nil], vSpent |-> [o \in Out |-> Nil]]
    /\ diskInvalidTrust = 0
    /\ call = NoCall
    /\ batch = NoBatch
    /\ crashes = 0 /\ faults = 0 /\ forced = 0
    /\ damaged = FALSE

CallStep ==
    \/ ConnectTip \/ ConnectTipFails
    \/ ReorgDisconnect \/ ReorgConnect \/ ReorgCommit \/ ReorgFails
    \/ ExtendConnect \/ ExtendFails \/ ExtendDone

Next ==
    \/ \E b \in Block : AddToBlockIndex(b) \/ AddToBlockIndexFails(b) \/ ForceCheckpoint(b)
    \/ CallStep
    \/ Restart
    \/ \E b \in Block : RestartAndMoveBack(b)

Spec == Init /\ [][Next]_vars

\* A call that has begun goes on: nothing else runs while cs_main is held.
FairSpec == Spec /\ WF_vars(CallStep)

-----------------------------------------------------------------------------
(***************************************************************************)
(* Properties.                                                             *)
(***************************************************************************)
\* Every variable has its type (main.h, txdb-leveldb.h).
TypeOK ==
    /\ mapBlockIndex \subseteq Block
    /\ pnext \in [Block -> BlockOrNil]
    /\ pindexBest \in Block
    /\ nBestInvalidTrust \in Nat /\ diskInvalidTrust \in Nat
    /\ txdb \in Store
    /\ call \in Call
    /\ batch \in Store \cup {NoBatch}
    /\ crashes \in 0 .. MaxCrashes
    /\ faults \in 0 .. MaxFaults
    /\ forced \in 0 .. MaxForced
    /\ damaged \in BOOLEAN

\* What it means for a view of the store to be the one of the chain to c: a
\* transaction is indexed where the chain has it, an output is marked spent
\* where the chain spends it.
IndexMatches(view, c) ==
    /\ \A t \in Tx, a \in Block :
          view.txindex[t] = a <=> a \in Anc[c] /\ t \in Txs(a)
    /\ \A o \in Out, a \in Block :
          view.vSpent[o] = a <=> a \in Anc[c] /\ o \in SpentIn(a)

\* The forward links lead from Genesis to c and nowhere else.
LinksMatch(links, c) ==
    \A a, n \in Block : links[a] = n <=> n \in Anc[c] /\ Prev[n] = a

\* The ledger rules, said of a chain of blocks without any index.
SpendsOnce(c) ==
    /\ \A a, b \in Anc[c] : a # b => SpentIn(a) \cap SpentIn(b) = {}
    /\ \A b \in Anc[c] : \A i, j \in DOMAIN Vtx[b] :
          i # j => Vin[Vtx[b][i]] \cap Vin[Vtx[b][j]] = {}

NoTxTwice(c) == \A a, b \in Anc[c] : a # b => Txs(a) \cap Txs(b) = {}

\* Every input is created before, at maturity if it is a reward.
InputsExist(c) ==
    \A b \in Anc[c] : \A i \in DOMAIN Vtx[b] : \A o \in Vin[Vtx[b][i]] :
        \/ OutTx[o] \in Before(b, i)
           /\ (OutTx[o] \in Generated => nCoinbaseMaturity = 0)
        \/ \E a \in Anc[b] \ {b} :
              /\ OutTx[o] \in Txs(a)
              /\ OutTx[o] \in Generated => Height[b] - Height[a] >= nCoinbaseMaturity

ValidChain(c) ==
    /\ Anc[c] \ {Genesis} \subseteq Sound
    /\ SpendsOnce(c)
    /\ NoTxTwice(c)
    /\ InputsExist(c)

\* At any moment, so after a crash at any moment, the committed transaction
\* index and hashNext links are exactly those of the chain that ends in the
\* committed hashBestChain: Reorganize, DisconnectBlock and ConnectBlock leave
\* no spent mark, entry or link of a branch that was left or rejected.
StoreIsItsChain ==
    ~damaged => /\ IndexMatches(txdb, txdb.hashBestChain)
                /\ LinksMatch(txdb.hashNext, txdb.hashBestChain)

\* The chain the store ends in obeys the ledger rules: ConnectBlock, which
\* sees only the index, never lets a double spend, an overwrite, an unknown or
\* an immature input into it, in whatever order branches come and go.
StoreIsValid == ~damaged => ValidChain(txdb.hashBestChain)

\* The links of memory, which IsInMainChain, FindBlockByHeight and getblocks
\* follow and every CDiskBlockIndex copies, are those of the store: they change
\* only after a commit, and a call that fails half-way leaves them alone.
LinksAreStored == ~damaged => pnext = txdb.hashNext

\* Between calls, the tip of memory is the tip of the store.
TipIsStored == call = NoCall => pindexBest = txdb.hashBestChain

\* Between calls, no indexed block of a valid chain is heavier than the tip.
TipHasMostTrust ==
    call = NoCall =>
        \A b \in mapBlockIndex : ValidChain(b) => ChainTrust[b] <= ChainTrust[pindexBest]

\* A step moves the stored tip only to a heavier block, unless a checkpoint or
\* a move back at load has forced it (SetBestChain, pindexIntermediate).
StoreMovesUp ==
    [][forced = 0 /\ forced' = 0 /\ txdb'.hashBestChain # txdb.hashBestChain
         => ChainTrust[txdb'.hashBestChain] > ChainTrust[txdb.hashBestChain]]_vars

\* The node implements BestChain: known blocks are those of the block index,
\* the tip is the committed one (AddToBlockIndex, SetBestChain).
Abstract == INSTANCE BestChain WITH known <- mapBlockIndex, tip <- txdb.hashBestChain,
                                    Valid <- {b \in Block : ValidChain(b)}
ImplementsBestChain == Abstract!Spec
=============================================================================
