--------------------------- MODULE KeyPoolProofs ---------------------------
(***************************************************************************)
(* What holds of the key pool for every size of the pool, every sequence   *)
(* of refills, payments and encryptions, and a crash between any two       *)
(* writes.                                                                 *)
(***************************************************************************)
EXTENDS KeyPool, FiniteSetTheorems, WellFoundedInduction, TLAPS

(***************************************************************************)
(* Facts about sets of indexes.                                            *)
(***************************************************************************)
\* A set of naturals with an element has a least one.
LEMMA LeastNatural ==
  ASSUME NEW S \in SUBSET Nat, S # {}
  PROVE  \E m \in S : \A k \in S : m <= k
<1>1. PICK m \in S : \A k \in S : <<k, m>> \notin OpToRel(<, Nat)
  BY WFMin, NatLessThanWellFounded
<1>2. ASSUME NEW k \in S PROVE m <= k
  <2>1. ~(k < m)
    BY <1>1 DEF OpToRel
  <2> QED BY <2>1
<1> QED BY <1>2

\* Least is an element that no other is below.
LEMMA LeastIs ==
  ASSUME NEW S \in SUBSET Nat, S # {}
  PROVE  Least(S) \in S /\ \A k \in S : Least(S) <= k
  BY LeastNatural DEF Least

\* A set of naturals that is not empty and has a bound has a greatest element.
LEMMA GreatestIs ==
  ASSUME NEW S \in SUBSET Nat, S # {}, NEW n \in Nat, \A k \in S : k <= n
  PROVE  Greatest(S) \in S /\ \A k \in S : k <= Greatest(S)
<1> DEFINE B == {b \in Nat : \A k \in S : k <= b}
<1>1. PICK m \in B : \A b \in B : m <= b
  <2>1. n \in B /\ B \in SUBSET Nat
    OBVIOUS
  <2> QED BY <2>1, LeastNatural
<1>2. m \in S
  <2> SUFFICES ASSUME m \notin S PROVE FALSE
    OBVIOUS
  <2>1. \A k \in S : k \in Nat /\ k <= m - 1
    BY <1>1
  <2>2. m - 1 \in B
    <3>1. PICK k \in S : TRUE
      OBVIOUS
    <3> QED BY <3>1, <2>1, <1>1
  <2> QED BY <2>2, <1>1
<1> QED BY <1>1, <1>2 DEF Greatest

(***************************************************************************)
(* The inductive invariant.  Outside of NewKeyPool the indexes in memory   *)
(* are those of the records, but for the one that is reserved; NewKeyPool  *)
(* erases every record there is.                                           *)
(***************************************************************************)
Held == IF pay.phase = "reserved" THEN {pay.nIndex} ELSE {}

RecordsOK ==
    /\ job.phase # "erase" => setKeyPool = DOMAIN pool \ Held
    /\ job.phase = "erase" => DOMAIN pool = job.left

\* No index is above the number of keys ever generated.
BoundOK ==
    /\ setKeyPool \cup DOMAIN pool \cup job.left \subseteq 1 .. nKeys
    /\ job.i <= nKeys

PayOK ==
    /\ pay.phase = "none" => pay = NoPayment
    /\ job.phase = "none" => job = NoJob
    /\ pay.phase # "none" => job = NoJob /\ pay.key \in Keys
    /\ pay.phase = "reserved" => pay.nIndex \in DOMAIN pool /\ pool[pay.nIndex] = pay.key

IInv ==
    /\ TypeOK
    /\ RecordsOK
    /\ BoundOK
    /\ PayOK
    /\ NoKeyTwice
    /\ TakenOnce
    /\ taken \subseteq Keys
    /\ OldKeysRetired

\* A set of indexes that obeys the bound is finite.
LEMMA IndexesFinite ==
  ASSUME NEW n \in Nat, NEW S \in SUBSET (1 .. n)
  PROVE  IsFiniteSet(S) /\ Cardinality(S) \in Nat
<1>1. IsFiniteSet(1 .. n)
  BY FS_Interval
<1>2. IsFiniteSet(S)
  BY <1>1, FS_Subset
<1> QED BY <1>2, FS_CardinalityType

\* A pool p of indexes D, whose records hold different keys below n, none of
\* them in the set K of keys that are gone.
Sound(p, D, n, K) ==
    /\ D \subseteq 1 .. n
    /\ p \in [D -> 0 .. n - 1]
    /\ \A i, j \in D : p[i] = p[j] => i = j
    /\ \A i \in D : p[i] \notin K

\* While nobody holds cs_wallet, memory and file have the same indexes.
LEMMA FreeIsSound ==
  ASSUME IInv, Free
  PROVE  setKeyPool = DOMAIN pool /\ Sound(pool, DOMAIN pool, nKeys, taken \cup old)
<1>1. job.phase = "none" /\ pay.phase = "none"
  BY DEF Free, NoJob, NoPayment
<1>2. setKeyPool = DOMAIN pool
  BY <1>1 DEF IInv, RecordsOK, Held
<1>3. \A i \in DOMAIN pool : pool[i] \notin taken \cup old
  BY <1>1 DEF IInv, TakenOnce, OldKeysRetired, PoolKeys
<1> QED BY <1>2, <1>3 DEF Sound, IInv, TypeOK, BoundOK, NoKeyTwice, Keys

\* TopUpKeyPool adds records behind the last index, with new keys.
LEMMA TopUpIsSound ==
  ASSUME IInv, Free, NEW n \in Nat, TopUpKeyPool(n)
  PROVE  /\ nKeys' \in nKeys .. MaxKey
         /\ ToppedUpSet(n) = DOMAIN ToppedUpPool(n)
         /\ Sound(ToppedUpPool(n), ToppedUpSet(n), nKeys', taken \cup old)
<1> DEFINE m == Missing(n)
<1>1. /\ nKeys \in Nat /\ MaxKey \in Nat
      /\ setKeyPool = DOMAIN pool
      /\ Sound(pool, DOMAIN pool, nKeys, taken \cup old)
      /\ taken \cup old \subseteq 0 .. nKeys - 1
  BY FreeIsSound, KeyPoolAssumption DEF IInv, TypeOK, Keys
<1>2. m \in Nat
  <2>1. Cardinality(setKeyPool) \in Nat
    BY <1>1, IndexesFinite DEF Sound
  <2> QED BY <2>1 DEF Missing
<1>3. nEnd \in 1 .. nKeys + 1 /\ \A i \in setKeyPool : i < nEnd
  <2>1. CASE setKeyPool = {}
    BY <2>1, <1>1 DEF nEnd
  <2>2. CASE setKeyPool # {}
    <3>1. /\ setKeyPool \in SUBSET Nat
          /\ setKeyPool \subseteq 1 .. nKeys
          /\ \A k \in setKeyPool : k <= nKeys
      BY <1>1 DEF Sound
    <3>2. Greatest(setKeyPool) \in setKeyPool /\ \A k \in setKeyPool : k <= Greatest(setKeyPool)
      BY <3>1, <2>2, <1>1, GreatestIs
    <3> QED BY <3>1, <3>2, <2>2, <1>1 DEF nEnd
  <2> QED BY <2>1, <2>2
<1>4. nKeys' = nKeys + m /\ nKeys' <= MaxKey
  BY DEF TopUpKeyPool
<1> DEFINE A == Added(n)
           P == ToppedUpPool(n)
           D == ToppedUpSet(n)
<1>5. /\ A = nEnd .. nEnd + m - 1
      /\ D = DOMAIN pool \cup A
      /\ P = [i \in D |-> IF i \in A THEN nKeys + (i - nEnd) ELSE pool[i]]
  BY <1>1 DEF Added, ToppedUpSet, ToppedUpPool
<1> HIDE DEF m, A, P, D
<1>6. D \subseteq 1 .. nKeys'
  BY <1>1, <1>2, <1>3, <1>4, <1>5 DEF Sound
<1>7. \A i \in D : \/ i \in DOMAIN pool /\ i \notin A /\ P[i] = pool[i]
                   \/ i \in A /\ i \in Int /\ P[i] = nKeys + (i - nEnd) /\ P[i] \in nKeys .. nKeys' - 1
  BY <1>1, <1>2, <1>3, <1>4, <1>5
<1>8. \A i \in DOMAIN pool : pool[i] \in 0 .. nKeys - 1
  BY <1>1 DEF Sound
<1>9. P \in [D -> 0 .. nKeys' - 1]
  <2>1. \A i \in D : P[i] \in 0 .. nKeys' - 1
    <3>1. 0 .. nKeys - 1 \subseteq 0 .. nKeys' - 1 /\ nKeys .. nKeys' - 1 \subseteq 0 .. nKeys' - 1
      BY <1>1, <1>2, <1>4
    <3> QED BY <3>1, <1>7, <1>8
  <2>2. DOMAIN P = D /\ P = [i \in D |-> P[i]]
    BY <1>5
  <2> QED BY <2>1, <2>2
<1>10. \A i, j \in D : P[i] = P[j] => i = j
  BY <1>1, <1>3, <1>7, <1>8 DEF Sound
<1>11. \A i \in D : P[i] \notin taken \cup old
  BY <1>1, <1>7, <1>8 DEF Sound
<1>12. Sound(P, D, nKeys', taken \cup old)
  BY <1>6, <1>9, <1>10, <1>11 DEF Sound
<1>13. ToppedUpSet(n) = DOMAIN ToppedUpPool(n)
  BY <1>5 DEF P, D
<1> QED BY <1>1, <1>2, <1>4, <1>12, <1>13 DEF P, D

\* ReserveKeyFromKeyPool finds the record of the index that it takes.
LEMMA ReserveReads ==
  ASSUME IInv, Free, CanReserve
  PROVE  /\ nReserved \in ToppedUpSet(nKeyPool)
         /\ ReadPool = ToppedUpPool(nKeyPool)[nReserved]
         /\ ReadPool \in 0 .. nKeys' - 1
         /\ ReadPool \notin taken \cup old
<1>1. /\ ToppedUpSet(nKeyPool) = DOMAIN ToppedUpPool(nKeyPool)
      /\ Sound(ToppedUpPool(nKeyPool), ToppedUpSet(nKeyPool), nKeys', taken \cup old)
  BY TopUpIsSound, KeyPoolAssumption DEF CanReserve
<1>2. ToppedUpSet(nKeyPool) \in SUBSET Nat
  BY <1>1 DEF Sound
<1>3. nReserved \in ToppedUpSet(nKeyPool)
  BY <1>2, LeastIs DEF nReserved, CanReserve
<1>4. ReadPool = ToppedUpPool(nKeyPool)[nReserved]
  BY <1>1, <1>3 DEF ReadPool
<1> QED BY <1>1, <1>3, <1>4 DEF Sound

\* Erased leaves a sound pool, in which the key of that record is no more.
LEMMA ErasedIsSound ==
  ASSUME NEW n \in Nat, NEW K, NEW p, Sound(p, DOMAIN p, n, K), NEW i \in DOMAIN p
  PROVE  /\ DOMAIN Erased(p, i) = DOMAIN p \ {i}
         /\ Sound(Erased(p, i), DOMAIN p \ {i}, n, K \cup {p[i]})
<1>1. /\ DOMAIN Erased(p, i) = DOMAIN p \ {i}
      /\ \A j \in DOMAIN p \ {i} : Erased(p, i)[j] = p[j]
      /\ Erased(p, i) = [j \in DOMAIN p \ {i} |-> p[j]]
  BY DEF Erased
<1>2. Erased(p, i) \in [DOMAIN p \ {i} -> 0 .. n - 1]
  BY <1>1 DEF Sound
<1> QED BY <1>1, <1>2 DEF Sound

(***************************************************************************)
(* Each operation keeps the invariant.                                     *)
(***************************************************************************)
\* An operation that ends with cs_wallet free, memory and file with the same
\* indexes, and a sound pool.
LEMMA FreeStep ==
  ASSUME IInv, Free',
         nKeys' \in nKeys .. MaxKey,
         setKeyPool' = DOMAIN pool',
         Sound(pool', DOMAIN pool', nKeys', (taken \cup old)'),
         taken' \subseteq Keys', old' \subseteq Keys',
         mined' \subseteq Keys' \cup {NoKey}, work' \in Keys' \cup {NoKey},
         crypt' \in {"plain", "locked", "unlocked"}
  PROVE  IInv'
<1>1. /\ pay' = NoPayment /\ job' = NoJob
      /\ (pay.phase = "none")' /\ (job.phase = "none")'
      /\ (job.left = {})' /\ (job.i = 0)'
  BY DEF Free, NoPayment, NoJob
<1>2. nKeys \in Nat /\ MaxKey \in Nat /\ nKeys' \in 0 .. MaxKey /\ nKeys' \in Nat
  BY KeyPoolAssumption DEF IInv, TypeOK
<1>3. DOMAIN pool' \subseteq 1 .. nKeys' /\ DOMAIN pool' \subseteq Nat \ {0}
  BY <1>2 DEF Sound
<1>4. IsFiniteSet(DOMAIN pool')
  BY <1>2, <1>3, IndexesFinite
<1>5. TypeOK'
  <2>1. pay' \in [phase : {"none", "reserved", "kept"}, nIndex : Int, key : Keys' \cup {NoKey}]
    BY <1>1 DEF NoPayment
  <2>2. job' \in [phase : {"none", "erase", "write", "stop"}, left : SUBSET (Nat \ {0}), i : Nat]
    BY <1>1 DEF NoJob
  <2> QED BY <1>2, <1>3, <1>4, <2>1, <2>2 DEF TypeOK, Sound, Keys
<1>6. RecordsOK' /\ BoundOK' /\ PayOK'
  BY <1>1, <1>2, <1>3 DEF RecordsOK, Held, BoundOK, PayOK
<1>7. NoKeyTwice' /\ TakenOnce' /\ OldKeysRetired'
  BY <1>1 DEF NoKeyTwice, TakenOnce, OldKeysRetired, PoolKeys, Sound
<1> QED BY <1>5, <1>6, <1>7 DEF IInv

\* Keys stay keys when others are generated.
LEMMA KeysGrow ==
  ASSUME IInv, nKeys' \in nKeys .. MaxKey
  PROVE  Keys \subseteq Keys' /\ nKeys' \in Nat
  BY KeyPoolAssumption DEF IInv, TypeOK, Keys

LEMMA RefillKeeps ==
  ASSUME IInv, NEW n \in Nat, Refill(n)
  PROVE  IInv'
<1>1. Free /\ Free' /\ TopUpKeyPool(n)
  BY DEF Refill, Free
<1>2. /\ nKeys' \in nKeys .. MaxKey
      /\ setKeyPool' = DOMAIN pool'
      /\ Sound(pool', DOMAIN pool', nKeys', (taken \cup old)')
  BY <1>1, TopUpIsSound DEF Refill
<1>3. taken' \subseteq Keys' /\ old' \subseteq Keys' /\ mined' \subseteq Keys' \cup {NoKey}
      /\ work' \in Keys' \cup {NoKey} /\ crypt' \in {"plain", "locked", "unlocked"}
  BY <1>2, KeysGrow DEF Refill, IInv, TypeOK
<1> QED BY <1>1, <1>2, <1>3, FreeStep

LEMMA CreateNewBlockKeeps ==
  ASSUME IInv, CreateNewBlock
  PROVE  IInv'
<1>1. Free /\ Free' /\ CanReserve /\ TopUpKeyPool(nKeyPool) /\ nKeyPool \in Nat
  BY KeyPoolAssumption DEF CreateNewBlock, Free, CanReserve
<1>2. /\ nKeys' \in nKeys .. MaxKey
      /\ setKeyPool' = DOMAIN pool'
      /\ Sound(pool', DOMAIN pool', nKeys', (taken \cup old)')
  BY <1>1, TopUpIsSound DEF CreateNewBlock
<1>3. work' \in Keys' \cup {NoKey}
  BY <1>1, ReserveReads DEF CreateNewBlock, Keys
<1>4. taken' \subseteq Keys' /\ old' \subseteq Keys' /\ mined' \subseteq Keys' \cup {NoKey}
      /\ crypt' \in {"plain", "locked", "unlocked"}
  BY <1>2, KeysGrow DEF CreateNewBlock, IInv, TypeOK
<1> QED BY <1>1, <1>2, <1>3, <1>4, FreeStep

LEMMA GetKeyFromPoolKeeps ==
  ASSUME IInv, GetKeyFromPool
  PROVE  IInv'
<1> DEFINE P == ToppedUpPool(nKeyPool)
<1>1. Free /\ Free' /\ CanReserve /\ TopUpKeyPool(nKeyPool) /\ nKeyPool \in Nat
  BY KeyPoolAssumption DEF GetKeyFromPool, Free, CanReserve
<1>2. /\ nKeys' \in nKeys .. MaxKey
      /\ ToppedUpSet(nKeyPool) = DOMAIN P
      /\ Sound(P, DOMAIN P, nKeys', taken \cup old)
  BY <1>1, TopUpIsSound
<1>3. nReserved \in DOMAIN P /\ ReadPool = P[nReserved] /\ ReadPool \in Keys'
  BY <1>1, <1>2, ReserveReads DEF Keys
<1>4. nKeys' \in Nat /\ Keys \subseteq Keys'
  BY <1>2, KeysGrow
<1>5. /\ setKeyPool' = DOMAIN pool'
      /\ Sound(pool', DOMAIN pool', nKeys', taken \cup old \cup {ReadPool})
  <2>1. /\ DOMAIN Erased(P, nReserved) = DOMAIN P \ {nReserved}
        /\ Sound(Erased(P, nReserved), DOMAIN P \ {nReserved}, nKeys', taken \cup old \cup {P[nReserved]})
    BY <1>2, <1>3, <1>4, ErasedIsSound
  <2> QED BY <2>1, <1>2, <1>3 DEF GetKeyFromPool
<1>6. (taken \cup old)' = taken \cup old \cup {ReadPool}
  BY DEF GetKeyFromPool
<1>7. taken' \subseteq Keys' /\ old' \subseteq Keys' /\ mined' \subseteq Keys' \cup {NoKey}
      /\ work' \in Keys' \cup {NoKey} /\ crypt' \in {"plain", "locked", "unlocked"}
  BY <1>3, <1>4 DEF GetKeyFromPool, IInv, TypeOK
<1>8. Sound(pool', DOMAIN pool', nKeys', (taken \cup old)')
  BY <1>5, <1>6
<1> QED BY <1>1, <1>2, <1>5, <1>7, <1>8, FreeStep

\* The pool is sound at any time with respect to what was given out, and to the
\* old keys once NewKeyPool has erased them.
LEMMA PoolIsSound ==
  ASSUME IInv
  PROVE  /\ Sound(pool, DOMAIN pool, nKeys, taken)
         /\ job.phase # "erase" => Sound(pool, DOMAIN pool, nKeys, taken \cup old)
  BY DEF IInv, TypeOK, BoundOK, NoKeyTwice, TakenOnce, OldKeysRetired, PoolKeys, Keys, Sound

LEMMA ReturnKeyKeeps ==
  ASSUME IInv, ReturnKey
  PROVE  IInv'
<1>1. pay.phase = "reserved" /\ job = NoJob /\ pay.nIndex \in DOMAIN pool /\ job.phase # "erase"
  BY DEF ReturnKey, IInv, PayOK, NoJob
<1>2. Free' /\ nKeys' = nKeys /\ nKeys \in 0 .. MaxKey /\ MaxKey \in Nat
  BY <1>1, KeyPoolAssumption DEF ReturnKey, Free, IInv, TypeOK
<1>3. setKeyPool' = DOMAIN pool'
  BY <1>1 DEF ReturnKey, IInv, RecordsOK, Held
<1>4. Sound(pool', DOMAIN pool', nKeys', (taken \cup old)')
  BY <1>1, PoolIsSound DEF ReturnKey
<1>5. taken' \subseteq Keys' /\ old' \subseteq Keys' /\ mined' \subseteq Keys' \cup {NoKey}
      /\ work' \in Keys' \cup {NoKey} /\ crypt' \in {"plain", "locked", "unlocked"}
  BY DEF ReturnKey, IInv, TypeOK, Keys
<1> QED BY <1>2, <1>3, <1>4, <1>5, FreeStep

LEMMA AddToWalletKeeps ==
  ASSUME IInv, AddToWallet
  PROVE  IInv'
<1>1. /\ pay.phase = "kept" /\ job = NoJob /\ pay.key \in Keys /\ job.phase # "erase"
      /\ pay.key \notin PoolKeys
  BY DEF AddToWallet, IInv, PayOK, NoJob, NoKeyTwice
<1>2. Free' /\ nKeys' = nKeys /\ nKeys \in 0 .. MaxKey /\ MaxKey \in Nat
  BY <1>1, KeyPoolAssumption DEF AddToWallet, Free, IInv, TypeOK
<1>3. setKeyPool' = DOMAIN pool'
  BY <1>1 DEF AddToWallet, IInv, RecordsOK, Held
<1>4. Sound(pool', DOMAIN pool', nKeys', (taken \cup old)')
  <2>1. Sound(pool, DOMAIN pool, nKeys, taken \cup old \cup {pay.key})
    BY <1>1, PoolIsSound DEF Sound, PoolKeys
  <2>2. (taken \cup old)' = taken \cup old \cup {pay.key}
    BY DEF AddToWallet
  <2> QED BY <2>1, <2>2 DEF AddToWallet
<1>5. taken' \subseteq Keys' /\ old' \subseteq Keys' /\ mined' \subseteq Keys' \cup {NoKey}
      /\ work' \in Keys' \cup {NoKey} /\ crypt' \in {"plain", "locked", "unlocked"}
  BY <1>1 DEF AddToWallet, IInv, TypeOK, Keys
<1> QED BY <1>2, <1>3, <1>4, <1>5, FreeStep

LEMMA CheckWorkKeeps ==
  ASSUME IInv, CheckWork
  PROVE  IInv'
<1>1. Free /\ Free' /\ nKeys' = nKeys /\ nKeys \in 0 .. MaxKey /\ MaxKey \in Nat
  BY KeyPoolAssumption DEF CheckWork, Free, IInv, TypeOK
<1>2. setKeyPool' = DOMAIN pool' /\ Sound(pool', DOMAIN pool', nKeys', (taken \cup old)')
  BY <1>1, FreeIsSound DEF CheckWork
<1>3. taken' \subseteq Keys' /\ old' \subseteq Keys' /\ mined' \subseteq Keys' \cup {NoKey}
      /\ work' \in Keys' \cup {NoKey} /\ crypt' \in {"plain", "locked", "unlocked"}
  BY DEF CheckWork, IInv, TypeOK, Keys
<1> QED BY <1>1, <1>2, <1>3, FreeStep

LEMMA UnlockKeeps ==
  ASSUME IInv, Unlock
  PROVE  IInv'
<1>1. Free /\ Free' /\ nKeys' = nKeys /\ nKeys \in 0 .. MaxKey /\ MaxKey \in Nat
  BY KeyPoolAssumption DEF Unlock, Free, IInv, TypeOK
<1>2. setKeyPool' = DOMAIN pool' /\ Sound(pool', DOMAIN pool', nKeys', (taken \cup old)')
  BY <1>1, FreeIsSound DEF Unlock
<1>3. taken' \subseteq Keys' /\ old' \subseteq Keys' /\ mined' \subseteq Keys' \cup {NoKey}
      /\ work' \in Keys' \cup {NoKey} /\ crypt' \in {"plain", "locked", "unlocked"}
  BY DEF Unlock, IInv, TypeOK, Keys
<1> QED BY <1>1, <1>2, <1>3, FreeStep

\* A crash between any two writes.
LEMMA RestartKeeps ==
  ASSUME IInv, Restart
  PROVE  IInv'
<1>1. Free' /\ nKeys' = nKeys /\ nKeys \in 0 .. MaxKey /\ MaxKey \in Nat /\ setKeyPool' = DOMAIN pool'
  BY KeyPoolAssumption DEF Restart, Free, IInv, TypeOK
<1>2. Sound(pool', DOMAIN pool', nKeys', (taken \cup old)')
  <2>1. CASE job.phase \in {"none", "stop"}
    BY <2>1, PoolIsSound DEF Restart
  <2>2. CASE job.phase \notin {"none", "stop"}
    <3>1. (taken \cup old)' = taken
      BY <2>2 DEF Restart
    <3> QED BY <3>1, PoolIsSound DEF Restart
  <2> QED BY <2>1, <2>2
<1>3. taken' \subseteq Keys' /\ old' \subseteq Keys' /\ mined' \subseteq Keys' \cup {NoKey}
      /\ work' \in Keys' \cup {NoKey} /\ crypt' \in {"plain", "locked", "unlocked"}
  BY DEF Restart, IInv, TypeOK, Keys
<1> QED BY <1>1, <1>2, <1>3, FreeStep

\* A payment holds the index of its key, whose record stays.
LEMMA GetReservedKeyKeeps ==
  ASSUME IInv, GetReservedKey
  PROVE  IInv'
<1> DEFINE P == ToppedUpPool(nKeyPool)
<1>1. Free /\ CanReserve /\ TopUpKeyPool(nKeyPool) /\ nKeyPool \in Nat
  BY KeyPoolAssumption DEF GetReservedKey, CanReserve
<1>2. /\ nKeys' \in nKeys .. MaxKey
      /\ ToppedUpSet(nKeyPool) = DOMAIN P
      /\ Sound(P, DOMAIN P, nKeys', taken \cup old)
  BY <1>1, TopUpIsSound
<1>3. /\ nReserved \in DOMAIN P /\ ReadPool = P[nReserved]
      /\ ReadPool \in Keys' /\ ReadPool \notin taken
  BY <1>1, <1>2, ReserveReads DEF Keys
<1>4. nKeys' \in Nat /\ Keys \subseteq Keys'
  BY <1>2, KeysGrow
<1>5. pool' = P /\ setKeyPool' = DOMAIN P \ {nReserved} /\ job' = NoJob /\ job'.phase = "none"
      /\ pay' = [phase |-> "reserved", nIndex |-> nReserved, key |-> ReadPool]
      /\ taken' = taken /\ old' = old /\ mined' = mined /\ work' = work /\ crypt' = crypt
      /\ job'.left = {} /\ job'.i = 0
  BY <1>1, <1>2 DEF GetReservedKey, Free, NoJob
<1> HIDE DEF P
<1>6. DOMAIN P \subseteq 1 .. nKeys' /\ DOMAIN P \subseteq Nat \ {0} /\ IsFiniteSet(DOMAIN P)
  <2>1. DOMAIN P \subseteq 1 .. nKeys'
    BY <1>2 DEF Sound
  <2>2. IsFiniteSet(DOMAIN P)
    BY <2>1, <1>4, IndexesFinite
  <2> QED BY <2>1, <2>2, <1>4
<1>7. TypeOK'
  <2>1. IsFiniteSet(DOMAIN P \ {nReserved})
    BY <1>6, FS_Subset
  <2>2. pay' \in [phase : {"none", "reserved", "kept"}, nIndex : Int, key : Keys' \cup {NoKey}]
    BY <1>3, <1>5, <1>6
  <2>3. job' \in [phase : {"none", "erase", "write", "stop"}, left : SUBSET (Nat \ {0}), i : Nat]
    BY <1>5 DEF NoJob
  <2>4. nKeys' \in 0 .. MaxKey
    BY <1>2, <1>4, KeyPoolAssumption DEF IInv, TypeOK
  <2>5. pool' \in [DOMAIN pool' -> Keys']
    BY <1>2, <1>5 DEF Sound, Keys
  <2>6. taken \subseteq Keys' \cup {NoKey} /\ mined \subseteq Keys' \cup {NoKey} /\ old \subseteq Keys'
        /\ work \in Keys' \cup {NoKey}
    BY <1>4 DEF IInv, TypeOK
  <2> QED BY <1>5, <1>6, <2>1, <2>2, <2>3, <2>4, <2>5, <2>6 DEF TypeOK, IInv
<1>8. RecordsOK' /\ BoundOK' /\ PayOK'
  BY <1>3, <1>4, <1>5, <1>6 DEF RecordsOK, Held, BoundOK, PayOK
<1>9. NoKeyTwice' /\ TakenOnce' /\ OldKeysRetired'
  BY <1>2, <1>3, <1>5 DEF NoKeyTwice, TakenOnce, OldKeysRetired, PoolKeys, Sound
<1>10. taken' \subseteq Keys'
  BY <1>4, <1>5 DEF IInv
<1> QED BY <1>7, <1>8, <1>9, <1>10 DEF IInv

\* KeepKey erases the record of the reserved key before the key is given out.
LEMMA KeepKeyKeeps ==
  ASSUME IInv, KeepKey
  PROVE  IInv'
<1> DEFINE E == Erased(pool, pay.nIndex)
<1>1. /\ pay.phase = "reserved" /\ job = NoJob /\ pay.nIndex \in DOMAIN pool
      /\ pool[pay.nIndex] = pay.key /\ pay.key \in Keys /\ job.phase = "none"
      /\ setKeyPool = DOMAIN pool \ {pay.nIndex}
      /\ job.left = {} /\ job.i = 0
  BY DEF KeepKey, IInv, PayOK, NoJob, RecordsOK, Held
<1>2. /\ pool' = E /\ nKeys' = nKeys /\ job' = job /\ crypt' = crypt /\ taken' = taken
      /\ work' = work /\ mined' = mined /\ old' = old /\ setKeyPool' = setKeyPool
  BY DEF KeepKey
<1>3. nKeys \in Nat /\ Keys' = Keys
  BY <1>2, KeyPoolAssumption DEF IInv, TypeOK, Keys
<1>4. /\ DOMAIN E = DOMAIN pool \ {pay.nIndex}
      /\ Sound(E, DOMAIN E, nKeys, taken \cup old \cup {pay.key})
  <2>1. Sound(pool, DOMAIN pool, nKeys, taken \cup old)
    BY <1>1, PoolIsSound
  <2>2. /\ DOMAIN E = DOMAIN pool \ {pay.nIndex}
        /\ Sound(E, DOMAIN pool \ {pay.nIndex}, nKeys, taken \cup old \cup {pool[pay.nIndex]})
    BY <2>1, <1>1, <1>3, ErasedIsSound
  <2> QED BY <2>2, <1>1
<1> HIDE DEF E
<1>5. pay' = [pay EXCEPT !.phase = "kept"] /\ pay'.phase = "kept" /\ pay'.key = pay.key
      /\ pay' \in [phase : {"none", "reserved", "kept"}, nIndex : Int, key : Keys' \cup {NoKey}]
  BY <1>3 DEF KeepKey, IInv, TypeOK
<1>6. TypeOK'
  <2>1. DOMAIN E \subseteq Nat \ {0} /\ IsFiniteSet(DOMAIN E)
    BY <1>4, FS_Subset DEF IInv, TypeOK
  <2>2. E \in [DOMAIN E -> Keys]
    BY <1>4 DEF Sound, Keys
  <2> QED BY <1>2, <1>3, <1>5, <2>1, <2>2 DEF IInv, TypeOK
<1>7. RecordsOK' /\ BoundOK' /\ PayOK'
  BY <1>1, <1>2, <1>3, <1>4, <1>5 DEF IInv, RecordsOK, Held, BoundOK, PayOK
<1>8. NoKeyTwice' /\ OldKeysRetired'
  BY <1>2, <1>4, <1>5 DEF NoKeyTwice, OldKeysRetired, PoolKeys, Sound
<1>9. TakenOnce' /\ taken' \subseteq Keys'
  <2>1. pay.key \notin taken
    BY <1>1 DEF IInv, TakenOnce
  <2> QED BY <2>1, <1>2, <1>3, <1>4, <1>5 DEF TakenOnce, PoolKeys, Sound, IInv
<1> QED BY <1>6, <1>7, <1>8, <1>9 DEF IInv

LEMMA EncryptWalletKeeps ==
  ASSUME IInv, EncryptWallet
  PROVE  IInv'
<1>1. /\ Free /\ pay.phase = "none" /\ pay' = pay /\ setKeyPool' = setKeyPool /\ pool' = pool
      /\ nKeys' = nKeys /\ taken' = taken /\ work' = work /\ mined' = mined
      /\ crypt' = "unlocked" /\ old' = PoolKeys
      /\ job' = [phase |-> "erase", left |-> setKeyPool, i |-> 0]
      /\ pay = NoPayment
  BY DEF EncryptWallet, Free, NoPayment
<1>2. setKeyPool = DOMAIN pool
  BY <1>1, FreeIsSound
<1>3. Keys' = Keys /\ PoolKeys \subseteq Keys /\ PoolKeys' = PoolKeys /\ nKeys \in Nat
  BY <1>1, KeyPoolAssumption DEF Keys, IInv, TypeOK, PoolKeys
<1>4. TypeOK'
  <2>1. job' \in [phase : {"none", "erase", "write", "stop"}, left : SUBSET (Nat \ {0}), i : Nat]
    BY <1>1 DEF IInv, TypeOK
  <2> QED BY <1>1, <1>3, <2>1 DEF IInv, TypeOK
<1>5. RecordsOK' /\ BoundOK'
  BY <1>1, <1>2, <1>3 DEF IInv, RecordsOK, BoundOK
<1>6. PayOK'
  BY <1>1 DEF PayOK
<1>7. NoKeyTwice' /\ TakenOnce' /\ OldKeysRetired' /\ taken' \subseteq Keys'
  BY <1>1, <1>3 DEF IInv, NoKeyTwice, TakenOnce, OldKeysRetired
<1> QED BY <1>4, <1>5, <1>6, <1>7 DEF IInv

\* While NewKeyPool works, no payment holds a key.
LEMMA NoPaymentInJob ==
  ASSUME IInv, job.phase # "none"
  PROVE  pay.phase = "none" /\ pay = NoPayment
  BY DEF IInv, PayOK, NoJob, TypeOK

LEMMA ErasePoolKeeps ==
  ASSUME IInv, ErasePool
  PROVE  IInv'
<1> DEFINE m == Least(job.left)
<1>1. /\ job.phase = "erase" /\ job.left # {} /\ DOMAIN pool = job.left /\ pool' = Erased(pool, m)
      /\ job' = [job EXCEPT !.left = @ \ {m}]
      /\ setKeyPool' = setKeyPool /\ nKeys' = nKeys /\ pay' = pay /\ crypt' = crypt
      /\ taken' = taken /\ work' = work /\ mined' = mined /\ old' = old
  BY DEF ErasePool, IInv, RecordsOK
<1>2. m \in DOMAIN pool
  <2>1. job.left \in SUBSET Nat
    BY DEF IInv, TypeOK
  <2> QED BY <2>1, <1>1, LeastIs
<1> HIDE DEF m
<1>3. nKeys \in Nat /\ Keys' = Keys
  BY <1>1, KeyPoolAssumption DEF IInv, TypeOK, Keys
<1>4. /\ DOMAIN pool' = DOMAIN pool \ {m}
      /\ Sound(pool', DOMAIN pool', nKeys, taken \cup {pool[m]})
  BY <1>1, <1>2, <1>3, PoolIsSound, ErasedIsSound
<1>5. /\ job' \in [phase : {"none", "erase", "write", "stop"}, left : SUBSET (Nat \ {0}), i : Nat]
      /\ job'.phase = "erase" /\ job'.left = job.left \ {m} /\ job'.i = job.i
  BY <1>1 DEF IInv, TypeOK
<1>6. TypeOK'
  <2>1. DOMAIN pool' \subseteq Nat \ {0} /\ IsFiniteSet(DOMAIN pool')
    BY <1>4, FS_Subset DEF IInv, TypeOK
  <2>2. pool' \in [DOMAIN pool' -> Keys]
    BY <1>4 DEF Sound, Keys
  <2> QED BY <1>1, <1>3, <1>5, <2>1, <2>2 DEF IInv, TypeOK
<1>7. RecordsOK' /\ BoundOK'
  BY <1>1, <1>4, <1>5 DEF IInv, RecordsOK, BoundOK
<1>8. PayOK'
  BY <1>1, <1>5, NoPaymentInJob DEF PayOK
<1>9. NoKeyTwice' /\ TakenOnce' /\ OldKeysRetired' /\ taken' \subseteq Keys'
  BY <1>1, <1>3, <1>4, <1>5, NoPaymentInJob DEF IInv, NoKeyTwice, TakenOnce, OldKeysRetired, PoolKeys, Sound
<1> QED BY <1>6, <1>7, <1>8, <1>9 DEF IInv

LEMMA ClearPoolKeeps ==
  ASSUME IInv, ClearPool
  PROVE  IInv'
<1>1. /\ job.phase = "erase" /\ job.left = {} /\ DOMAIN pool = {} /\ pool' = pool
      /\ job' = [job EXCEPT !.phase = "write"]
      /\ setKeyPool' = {} /\ nKeys' = nKeys /\ pay' = pay /\ crypt' = crypt
      /\ taken' = taken /\ work' = work /\ mined' = mined /\ old' = old
  BY DEF ClearPool, IInv, RecordsOK
<1>2. pay.phase = "none" /\ pay = NoPayment
  BY <1>1, NoPaymentInJob
<1>3. nKeys \in Nat /\ Keys' = Keys /\ PoolKeys' = PoolKeys /\ PoolKeys = {}
  BY <1>1, KeyPoolAssumption DEF IInv, TypeOK, Keys, PoolKeys
<1>4. /\ job' \in [phase : {"none", "erase", "write", "stop"}, left : SUBSET (Nat \ {0}), i : Nat]
      /\ job'.phase = "write" /\ job'.left = {} /\ job'.i = job.i
  BY <1>1 DEF IInv, TypeOK
<1>5. TypeOK'
  <2>1. IsFiniteSet({})
    BY FS_EmptySet
  <2> QED BY <1>1, <1>3, <1>4, <2>1 DEF IInv, TypeOK
<1>6. RecordsOK' /\ BoundOK' /\ PayOK'
  BY <1>1, <1>2, <1>4 DEF IInv, RecordsOK, Held, BoundOK, PayOK
<1>7. NoKeyTwice' /\ TakenOnce' /\ OldKeysRetired' /\ taken' \subseteq Keys'
  BY <1>1, <1>2, <1>3, <1>4 DEF IInv, NoKeyTwice, TakenOnce, OldKeysRetired
<1> QED BY <1>5, <1>6, <1>7 DEF IInv

\* NewKeyPool writes a new key under the next index.
LEMMA WritePoolKeeps ==
  ASSUME IInv, WritePool
  PROVE  IInv'
<1> DEFINE k == job.i + 1
<1>1. /\ job.phase = "write" /\ nKeys < MaxKey /\ setKeyPool' = setKeyPool \cup {k}
      /\ pool' = [j \in DOMAIN pool \cup {k} |-> IF j = k THEN nKeys ELSE pool[j]]
      /\ nKeys' = nKeys + 1 /\ job' = [job EXCEPT !.i = @ + 1]
      /\ pay' = pay /\ crypt' = crypt
      /\ taken' = taken /\ work' = work /\ mined' = mined /\ old' = old
  BY DEF WritePool
<1>2. pay.phase = "none" /\ pay = NoPayment /\ pay.key = NoKey
  BY <1>1, NoPaymentInJob DEF NoPayment
<1>3. setKeyPool = DOMAIN pool
  BY <1>1, <1>2 DEF IInv, RecordsOK, Held
<1>4. /\ nKeys \in Nat /\ MaxKey \in Nat /\ job.i \in Nat /\ job.i <= nKeys
      /\ DOMAIN pool \subseteq 1 .. nKeys /\ job.left \subseteq 1 .. nKeys
  BY KeyPoolAssumption DEF IInv, TypeOK, BoundOK
<1>5. /\ job' \in [phase : {"none", "erase", "write", "stop"}, left : SUBSET (Nat \ {0}), i : Nat]
      /\ job'.phase = "write" /\ job'.left = job.left /\ job'.i = k
  BY <1>1 DEF IInv, TypeOK
<1>6. k \in 1 .. nKeys' /\ DOMAIN pool' = DOMAIN pool \cup {k} /\ DOMAIN pool' \subseteq 1 .. nKeys'
  BY <1>1, <1>4
<1>7. \A j \in DOMAIN pool' : \/ j = k /\ pool'[j] = nKeys
                              \/ j # k /\ j \in DOMAIN pool /\ pool'[j] = pool[j]
  BY <1>1
<1>8. Sound(pool, DOMAIN pool, nKeys, taken \cup old)
  BY <1>1, PoolIsSound
<1> HIDE DEF k
<1>9. taken \cup old \subseteq 0 .. nKeys - 1 /\ Keys \subseteq Keys' /\ nKeys \in Keys' /\ nKeys' \in Nat
  BY <1>1, <1>4 DEF IInv, TypeOK, Keys
<1>10. \A j \in DOMAIN pool : pool[j] \in Keys /\ pool[j] \in Keys' /\ pool[j] # nKeys
  BY <1>8, <1>9, <1>4 DEF Sound, Keys
<1>11. TypeOK'
  <2>1. DOMAIN pool' \subseteq Nat \ {0}
    BY <1>6, <1>9
  <2>2. IsFiniteSet(DOMAIN pool')
    BY <1>6, <1>9, IndexesFinite
  <2>3. pool' \in [DOMAIN pool' -> Keys']
    <3>1. \A j \in DOMAIN pool' : pool'[j] \in Keys'
      BY <1>7, <1>9, <1>10
    <3>2. pool' = [j \in DOMAIN pool' |-> pool'[j]]
      BY <1>1
    <3> QED BY <3>1, <3>2
  <2>4. nKeys' \in 0 .. MaxKey
    BY <1>1, <1>4
  <2>5. pay' \in [phase : {"none", "reserved", "kept"}, nIndex : Int, key : Keys' \cup {NoKey}]
    BY <1>1, <1>2 DEF NoPayment
  <2>6. setKeyPool' = DOMAIN pool'
    BY <1>1, <1>3, <1>6
  <2> QED BY <1>1, <1>5, <1>9, <2>1, <2>2, <2>3, <2>4, <2>5, <2>6 DEF IInv, TypeOK
<1>12. RecordsOK' /\ PayOK'
  BY <1>1, <1>2, <1>3, <1>5, <1>6 DEF RecordsOK, Held, PayOK
<1>13. BoundOK'
  <2>1. job.left \subseteq 1 .. nKeys' /\ k <= nKeys'
    BY <1>1, <1>4, <1>6
  <2> QED BY <2>1, <1>1, <1>3, <1>5, <1>6 DEF BoundOK
<1>14. NoKeyTwice'
  BY <1>1, <1>2, <1>7, <1>8, <1>10 DEF NoKeyTwice, Sound
<1>15. nKeys \notin taken \cup old
  BY <1>4, <1>9
<1>16. TakenOnce' /\ OldKeysRetired'
  <2>1. \A j \in DOMAIN pool' : pool'[j] \notin taken \cup old
    BY <1>7, <1>8, <1>15 DEF Sound
  <2> QED BY <2>1, <1>1, <1>2 DEF TakenOnce, OldKeysRetired, PoolKeys
<1>17. taken' \subseteq Keys'
  BY <1>1, <1>9 DEF IInv
<1> QED BY <1>11, <1>12, <1>13, <1>14, <1>16, <1>17 DEF IInv

LEMMA EncryptedKeeps ==
  ASSUME IInv, Encrypted
  PROVE  IInv'
<1>1. /\ job.phase = "write" /\ crypt' = "locked" /\ job' = [job EXCEPT !.phase = "stop"]
      /\ setKeyPool' = setKeyPool /\ pool' = pool /\ nKeys' = nKeys /\ pay' = pay
      /\ taken' = taken /\ work' = work /\ mined' = mined /\ old' = old
  BY DEF Encrypted
<1>2. pay.phase = "none" /\ pay = NoPayment
  BY <1>1, NoPaymentInJob
<1>3. /\ job' \in [phase : {"none", "erase", "write", "stop"}, left : SUBSET (Nat \ {0}), i : Nat]
      /\ job'.phase = "stop" /\ job'.left = job.left /\ job'.i = job.i
  BY <1>1 DEF IInv, TypeOK
<1>4. Keys' = Keys /\ PoolKeys' = PoolKeys
  BY <1>1 DEF Keys, PoolKeys
<1>5. TypeOK'
  BY <1>1, <1>3, <1>4 DEF IInv, TypeOK
<1>6. RecordsOK' /\ BoundOK' /\ PayOK'
  BY <1>1, <1>2, <1>3 DEF IInv, RecordsOK, Held, BoundOK, PayOK
<1>7. NoKeyTwice' /\ TakenOnce' /\ OldKeysRetired' /\ taken' \subseteq Keys'
  BY <1>1, <1>2, <1>3, <1>4 DEF IInv, NoKeyTwice, TakenOnce, OldKeysRetired
<1> QED BY <1>5, <1>6, <1>7 DEF IInv

\* The timer locks the wallet, also while a payment holds a key.
LEMMA LockKeeps ==
  ASSUME IInv, Lock
  PROVE  IInv'
<1>1. /\ crypt' = "locked" /\ setKeyPool' = setKeyPool /\ pool' = pool /\ nKeys' = nKeys
      /\ pay' = pay /\ job' = job /\ taken' = taken /\ work' = work /\ mined' = mined /\ old' = old
  BY DEF Lock
<1> QED BY <1>1 DEF IInv, TypeOK, RecordsOK, Held, BoundOK, PayOK, NoKeyTwice, TakenOnce,
                    OldKeysRetired, PoolKeys, Keys

\* A new wallet has an empty pool.
LEMMA InitIInv == Init => IInv
<1> SUFFICES ASSUME Init PROVE IInv
  OBVIOUS
<1>1. /\ setKeyPool = {} /\ DOMAIN pool = {} /\ PoolKeys = {} /\ nKeys = 0 /\ Keys = {}
      /\ pay = NoPayment /\ job = NoJob /\ pay.phase = "none" /\ job.phase = "none"
      /\ job.left = {} /\ job.i = 0 /\ taken = {} /\ old = {} /\ mined = {} /\ work = NoKey
      /\ crypt = "plain"
  BY DEF Init, NoPayment, NoJob, PoolKeys, Keys
<1>2. TypeOK
  <2>1. IsFiniteSet({})
    BY FS_EmptySet
  <2>2. pay \in [phase : {"none", "reserved", "kept"}, nIndex : Int, key : Keys \cup {NoKey}]
    BY <1>1 DEF NoPayment
  <2>3. job \in [phase : {"none", "erase", "write", "stop"}, left : SUBSET (Nat \ {0}), i : Nat]
    BY <1>1 DEF NoJob
  <2>4. pool \in [DOMAIN pool -> Keys]
    BY <1>1 DEF Init
  <2>5. nKeys \in 0 .. MaxKey
    BY <1>1, KeyPoolAssumption
  <2> QED BY <1>1, <2>1, <2>2, <2>3, <2>4, <2>5 DEF TypeOK
<1> QED BY <1>1, <1>2 DEF IInv, RecordsOK, Held, BoundOK, PayOK, NoKeyTwice, TakenOnce, OldKeysRetired

\* Every step keeps the invariant.
LEMMA StepIInv == IInv /\ [Next]_vars => IInv'
<1> SUFFICES ASSUME IInv, [Next]_vars PROVE IInv'
  OBVIOUS
<1>1. ASSUME NEW nSize \in Refills, Refill(IF nSize = 0 THEN nKeyPool ELSE nSize)
      PROVE  IInv'
  <2>1. (IF nSize = 0 THEN nKeyPool ELSE nSize) \in Nat
    BY KeyPoolAssumption
  <2> QED BY <1>1, <2>1, RefillKeeps
<1>2. CASE UNCHANGED vars
  BY <1>2 DEF vars, IInv, TypeOK, RecordsOK, Held, BoundOK, PayOK, NoKeyTwice, TakenOnce,
              OldKeysRetired, PoolKeys, Keys
<1> QED
  BY <1>1, <1>2, GetReservedKeyKeeps, ReturnKeyKeeps, KeepKeyKeeps, AddToWalletKeeps,
     GetKeyFromPoolKeeps, CreateNewBlockKeeps, CheckWorkKeeps, EncryptWalletKeeps,
     ErasePoolKeeps, ClearPoolKeeps, WritePoolKeeps, EncryptedKeeps, LockKeeps, UnlockKeeps,
     RestartKeeps
  DEF Next

LEMMA IInvHolds == Spec => []IInv
  BY InitIInv, StepIInv, PTL DEF Spec

(***************************************************************************)
(* The theorems.                                                           *)
(***************************************************************************)
\* The state of the pool has its type: indexes are finite sets of positive
\* numbers, records hold keys that were generated.
THEOREM TypeCorrect == Spec => []TypeOK
<1>1. IInv => TypeOK
  BY DEF IInv
<1> QED BY <1>1, IInvHolds, PTL

\* ReserveKeyFromKeyPool never finds an index without its record
\* (wallet.cpp:2048), whatever was reserved, returned, erased or interrupted.
THEOREM RecordsAreReadable == Spec => []PoolReadable
<1>1. IInv => PoolReadable
  BY DEF IInv, RecordsOK, PoolReadable
<1> QED BY <1>1, IInvHolds, PTL

\* A key that was given out is under no index of the file, so that neither a
\* returned reservation nor a restart gives it out again (wallet.cpp:1776).
THEOREM KeysAreTakenOnce == Spec => []TakenOnce
<1>1. IInv => TakenOnce
  BY DEF IInv
<1> QED BY <1>1, IInvHolds, PTL

\* No two indexes hold one key, and no index the key of a payment that keeps it.
THEOREM RecordsDiffer == Spec => []NoKeyTwice
<1>1. IInv => NoKeyTwice
  BY DEF IInv
<1> QED BY <1>1, IInvHolds, PTL

\* After NewKeyPool no key of the pool that was there before the encryption is
\* left in the file (wallet.cpp:1979).
THEOREM OldKeysAreRetired == Spec => []OldKeysRetired
<1>1. IInv => OldKeysRetired
  BY DEF IInv
<1> QED BY <1>1, IInvHolds, PTL
=============================================================================
