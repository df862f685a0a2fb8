------------------------------ MODULE KeyPool ------------------------------
(***************************************************************************)
(* The wallet's pool of generated keys (wallet.cpp): a set of indexes in   *)
(* memory, setKeyPool, and a record per index in the wallet file.  A key   *)
(* is reserved by taking its index out of the set, and kept by erasing its *)
(* record; in between it is only out of memory, and a restart, which loads *)
(* every record, puts it back.                                             *)
(*                                                                         *)
(* Who reserves a key holds cs_main and cs_wallet until the key is kept or *)
(* returned (every RPC command that pays, and sendCoins), so there is one  *)
(* reservation at a time; the process may die between any two writes, and  *)
(* the unlock timer may lock the wallet at any time.  Keys are numbered in *)
(* the order in which they are generated.                                  *)
(***************************************************************************)
EXTENDS Integers, FiniteSets

CONSTANTS
    nKeyPool,       \* the argument -keypool
    Refills,        \* sizes asked of keypoolrefill
    MaxKey          \* bound on the number of keys generated

ASSUME KeyPoolAssumption ==
    /\ nKeyPool \in Nat
    /\ Refills \subseteq Nat
    /\ MaxKey \in Nat

VARIABLES
    setKeyPool,     \* indexes that may be reserved
    pool,           \* the records of the wallet file: keys by index
    nKeys,          \* number of keys generated
    pay,            \* the payment under way
    job,            \* EncryptWallet under way
    crypt,          \* "plain", "locked" or "unlocked"
    taken,          \* keys given out: as addresses, or as change that is recorded
    work,           \* the key of the coinbase of the block being worked on
    mined,          \* keys of the coinbases of blocks that were found
    old             \* keys of the pool when the wallet was encrypted

vars == <<setKeyPool, pool, nKeys, pay, job, crypt, taken, work, mined, old>>

NoKey == -1
Keys == 0 .. nKeys - 1
NoPayment == [phase |-> "none", nIndex |-> -1, key |-> NoKey]
NoJob == [phase |-> "none", left |-> {}, i |-> 0]

Least(S) == CHOOSE i \in S : \A j \in S : i <= j
Greatest(S) == CHOOSE i \in S : \A j \in S : j <= i

PoolKeys == {pool[i] : i \in DOMAIN pool}

Erased(p, i) == [j \in DOMAIN p \ {i} |-> p[j]]

\* cs_wallet is free.
Free == pay = NoPayment /\ job = NoJob

IsLocked == crypt = "locked"

(***************************************************************************)
(* TopUpKeyPool: keys are added behind the last index, or from 1 on.       *)
(***************************************************************************)
Missing(nTargetSize) ==
    IF IsLocked \/ Cardinality(setKeyPool) > nTargetSize THEN 0
    ELSE nTargetSize + 1 - Cardinality(setKeyPool)

nEnd == IF setKeyPool = {} THEN 1 ELSE Greatest(setKeyPool) + 1

Added(nTargetSize) == nEnd .. nEnd + Missing(nTargetSize) - 1

ToppedUpSet(nTargetSize) == setKeyPool \cup Added(nTargetSize)

ToppedUpPool(nTargetSize) ==
    [i \in DOMAIN pool \cup Added(nTargetSize) |->
        IF i \in Added(nTargetSize) THEN nKeys + (i - nEnd) ELSE pool[i]]

TopUpKeyPool(nTargetSize) ==
    /\ nKeys + Missing(nTargetSize) <= MaxKey
    /\ nKeys' = nKeys + Missing(nTargetSize)

\* keypoolrefill, and the thread that walletpassphrase starts.
Refill(nSize) ==
    /\ Free
    /\ ~IsLocked
    /\ TopUpKeyPool(nSize)
    /\ setKeyPool' = ToppedUpSet(nSize)
    /\ pool' = ToppedUpPool(nSize)
    /\ UNCHANGED <<pay, job, crypt, taken, work, mined, old>>

\* ReserveKeyFromKeyPool takes the oldest key.  When the record cannot be read
\* it throws, with the index already out of the set.
nReserved == Least(ToppedUpSet(nKeyPool))

\* An empty pool of a locked wallet is left alone: the caller takes the default
\* key instead, or gets none, and the pool does not change.
CanReserve ==
    /\ ToppedUpSet(nKeyPool) # {}
    /\ TopUpKeyPool(nKeyPool)

ReadPool == IF nReserved \in DOMAIN ToppedUpPool(nKeyPool)
            THEN ToppedUpPool(nKeyPool)[nReserved] ELSE NoKey

(***************************************************************************)
(* A payment: CreateTransaction reserves the key for change, and           *)
(* CommitTransaction keeps it, then records the transaction.               *)
(***************************************************************************)
GetReservedKey ==
    /\ Free
    /\ CanReserve
    /\ setKeyPool' = ToppedUpSet(nKeyPool) \ {nReserved}
    /\ pool' = ToppedUpPool(nKeyPool)
    /\ pay' = [phase |-> "reserved", nIndex |-> nReserved, key |-> ReadPool]
    /\ UNCHANGED <<job, crypt, taken, work, mined, old>>

\* The payment is given up, or GetOldestKeyPoolTime has seen the key.
ReturnKey ==
    /\ pay.phase = "reserved"
    /\ setKeyPool' = setKeyPool \cup {pay.nIndex}
    /\ pay' = NoPayment
    /\ UNCHANGED <<pool, nKeys, job, crypt, taken, work, mined, old>>

KeepKey ==
    /\ pay.phase = "reserved"
    /\ pool' = Erased(pool, pay.nIndex)
    /\ pay' = [pay EXCEPT !.phase = "kept"]
    /\ UNCHANGED <<setKeyPool, nKeys, job, crypt, taken, work, mined, old>>

AddToWallet ==
    /\ pay.phase = "kept"
    /\ taken' = taken \cup {pay.key}
    /\ pay' = NoPayment
    /\ UNCHANGED <<setKeyPool, pool, nKeys, job, crypt, work, mined, old>>

\* Mutant of GetKeyFromPool: the record stays.
GetKeyFromPoolInFile ==
    /\ Free
    /\ CanReserve
    /\ setKeyPool' = ToppedUpSet(nKeyPool) \ {nReserved}
    /\ pool' = ToppedUpPool(nKeyPool)
    /\ taken' = taken \cup {ReadPool}
    /\ UNCHANGED <<pay, job, crypt, work, mined, old>>

\* A new address: reserved and kept in one go.
GetKeyFromPool ==
    /\ Free
    /\ CanReserve
    /\ setKeyPool' = ToppedUpSet(nKeyPool) \ {nReserved}
    /\ pool' = Erased(ToppedUpPool(nKeyPool), nReserved)
    /\ taken' = taken \cup {ReadPool}
    /\ UNCHANGED <<pay, job, crypt, work, mined, old>>

(***************************************************************************)
(* Mining: the CReserveKey of CreateNewBlock goes out of scope, and its    *)
(* destructor returns the key; the one that CheckWork keeps is another,    *)
(* which has never reserved a key.                                         *)
(***************************************************************************)
CreateNewBlock ==
    /\ Free
    /\ CanReserve
    /\ setKeyPool' = ToppedUpSet(nKeyPool)
    /\ pool' = ToppedUpPool(nKeyPool)
    /\ work' = ReadPool
    /\ UNCHANGED <<pay, job, crypt, taken, mined, old>>

CheckWork ==
    /\ Free
    /\ work # NoKey
    /\ mined' = mined \cup {work}
    /\ work' = NoKey
    /\ UNCHANGED <<setKeyPool, pool, nKeys, pay, job, crypt, taken, old>>

(***************************************************************************)
(* EncryptWallet: the encryption is committed, then NewKeyPool erases all  *)
(* records and writes new ones, each write on its own; then the process    *)
(* shuts down.                                                             *)
(***************************************************************************)
EncryptWallet ==
    /\ Free
    /\ crypt = "plain"
    /\ crypt' = "unlocked"
    /\ job' = [phase |-> "erase", left |-> setKeyPool, i |-> 0]
    /\ old' = PoolKeys
    /\ UNCHANGED <<setKeyPool, pool, nKeys, pay, taken, work, mined>>

\* Mutant of ErasePool: only the memory forgets.
ErasePoolInMemory ==
    /\ job.phase = "erase"
    /\ job.left # {}
    /\ job' = [job EXCEPT !.left = @ \ {Least(job.left)}]
    /\ UNCHANGED <<setKeyPool, pool, nKeys, pay, crypt, taken, work, mined, old>>

ErasePool ==
    /\ job.phase = "erase"
    /\ job.left # {}
    /\ pool' = Erased(pool, Least(job.left))
    /\ job' = [job EXCEPT !.left = @ \ {Least(job.left)}]
    /\ UNCHANGED <<setKeyPool, nKeys, pay, crypt, taken, work, mined, old>>

\* Mutant of ClearPool: the erased indexes stay in memory.
ClearPoolLater ==
    /\ job.phase = "erase"
    /\ job.left = {}
    /\ job' = [job EXCEPT !.phase = "write"]
    /\ UNCHANGED <<setKeyPool, pool, nKeys, pay, crypt, taken, work, mined, old>>

ClearPool ==
    /\ job.phase = "erase"
    /\ job.left = {}
    /\ setKeyPool' = {}
    /\ job' = [job EXCEPT !.phase = "write"]
    /\ UNCHANGED <<pool, nKeys, pay, crypt, taken, work, mined, old>>

WritePool ==
    /\ job.phase = "write"
    /\ job.i < nKeyPool
    /\ nKeys < MaxKey
    /\ pool' = [j \in DOMAIN pool \cup {job.i + 1} |->
                  IF j = job.i + 1 THEN nKeys ELSE pool[j]]
    /\ setKeyPool' = setKeyPool \cup {job.i + 1}
    /\ nKeys' = nKeys + 1
    /\ job' = [job EXCEPT !.i = @ + 1]
    /\ UNCHANGED <<pay, crypt, taken, work, mined, old>>

Encrypted ==
    /\ job.phase = "write"
    /\ job.i = nKeyPool
    /\ crypt' = "locked"
    /\ job' = [job EXCEPT !.phase = "stop"]
    /\ UNCHANGED <<setKeyPool, pool, nKeys, pay, taken, work, mined, old>>

\* walletlock, the timer, and walletpassphrase.  The timer waits for nobody;
\* EncryptWallet unlocks the wallet itself.
Lock ==
    /\ crypt = "unlocked"
    /\ job = NoJob
    /\ crypt' = "locked"
    /\ UNCHANGED <<setKeyPool, pool, nKeys, pay, job, taken, work, mined, old>>

Unlock ==
    /\ Free
    /\ IsLocked
    /\ crypt' = "unlocked"
    /\ UNCHANGED <<setKeyPool, pool, nKeys, pay, job, taken, work, mined, old>>

\* The process ends or dies, and LoadWallet reads the records.  Encryption that
\* was interrupted after its commit is not resumed.
Restart ==
    /\ setKeyPool' = DOMAIN pool
    /\ pay' = NoPayment
    /\ job' = NoJob
    /\ crypt' = IF crypt = "plain" THEN "plain" ELSE "locked"
    /\ work' = NoKey
    /\ old' = IF job.phase \in {"none", "stop"} THEN old ELSE {}
    /\ UNCHANGED <<pool, nKeys, taken, mined>>

Init ==
    /\ setKeyPool = {}
    /\ pool = << >>
    /\ nKeys = 0
    /\ pay = NoPayment
    /\ job = NoJob
    /\ crypt = "plain"
    /\ taken = {}
    /\ work = NoKey
    /\ mined = {}
    /\ old = {}

Next ==
    \/ \E nSize \in Refills : Refill(IF nSize = 0 THEN nKeyPool ELSE nSize)
    \/ GetReservedKey \/ ReturnKey \/ KeepKey \/ AddToWallet
    \/ GetKeyFromPool
    \/ CreateNewBlock \/ CheckWork
    \/ EncryptWallet \/ ErasePool \/ ClearPool \/ WritePool \/ Encrypted
    \/ Lock \/ Unlock
    \/ Restart

Spec == Init /\ [][Next]_vars

-----------------------------------------------------------------------------
(***************************************************************************)
(* Properties.                                                             *)
(***************************************************************************)
TypeOK ==
    /\ setKeyPool \subseteq Nat \ {0}
    /\ IsFiniteSet(setKeyPool)
    /\ DOMAIN pool \subseteq Nat \ {0}
    /\ IsFiniteSet(DOMAIN pool)
    /\ pool \in [DOMAIN pool -> Keys]
    /\ nKeys \in 0 .. MaxKey
    /\ pay \in [phase : {"none", "reserved", "kept"}, nIndex : Int, key : Keys \cup {NoKey}]
    /\ job \in [phase : {"none", "erase", "write", "stop"}, left : SUBSET (Nat \ {0}), i : Nat]
    /\ crypt \in {"plain", "locked", "unlocked"}
    /\ taken \subseteq Keys \cup {NoKey}
    /\ work \in Keys \cup {NoKey}
    /\ mined \subseteq Keys \cup {NoKey}
    /\ old \subseteq Keys

\* Every index that may be reserved has its record, so that
\* ReserveKeyFromKeyPool never throws "read failed" (wallet.cpp:2048), whatever
\* was erased, returned or interrupted before; NewKeyPool works on it.
PoolReadable ==
    job.phase # "erase" => setKeyPool \subseteq DOMAIN pool

\* "Take key pair from key pool so it won't be used again": a key that was given
\* out as an address or as recorded change is under no index of the file, so
\* that no thread, no returned reservation and no restart gives it out again.
TakenOnce ==
    /\ taken \cap PoolKeys = {}
    /\ pay.phase # "none" => pay.key \notin taken

\* No two records hold one key, and no record the key of the payment once it is
\* kept.
NoKeyTwice ==
    /\ \A i, j \in DOMAIN pool : pool[i] = pool[j] => i = j
    /\ pay.phase = "kept" => pay.key \notin PoolKeys

\* Once a wallet is encrypted, no key that was in its pool before, and is in
\* every backup in the clear, is given out any more ("Mark old keypool keys as
\* used").
OldKeysRetired ==
    job.phase # "erase" => old \cap PoolKeys = {}

\* The key of the coinbase of a block that was found is out of the pool
\* ("Remove key from key pool", miner.cpp:465).
MinedKeyRemoved == mined \cap PoolKeys = {}
=============================================================================
