------------------------ MODULE WalletEncryptProofs ------------------------
(***************************************************************************)
(* What holds of the keys and passphrases of the wallet for every number   *)
(* of keys, passphrases and callers, when any call may fail but the        *)
(* unchecked writes of a master key, the unchecked erasing of a plain key  *)
(* and the rename of the rewritten file.                                   *)
(***************************************************************************)
EXTENDS WalletEncrypt, FiniteSetTheorems, WellFoundedInduction, TLAPS

\* The writes and erasures whose result the code does not use, and the rename without which
\* there is no file.
Unchecked == {"mkey", "change", "erase", "rename"}

(***************************************************************************)
(* The inductive invariant: a file is plain, or it is sealed, with one     *)
(* master key record, whose key all its encrypted keys have.               *)
(***************************************************************************)
Plain(f) ==
    /\ f.there
    /\ Crypted(f.ckey) = {}
    /\ Stored(f.mkey) = {}

Sealed(f, r) ==
    /\ f.there
    /\ f.key = {}
    /\ Crypted(f.ckey) # {}
    /\ Stored(f.mkey) = {r}
    /\ r <= made
    /\ f.mkey[r].key <= made
    /\ \A k \in Crypted(f.ckey) : f.ckey[k] = f.mkey[r].key

\* Memory has what the sealed file has, and keys whose write has failed.
HeldOf(f, r) ==
    /\ fUseCrypto
    /\ mapKeys = {}
    /\ mapMasterKeys[r] = f.mkey[r]
    /\ vMasterKey \in {0, f.mkey[r].key}
    /\ \A k \in Keys : /\ mapCryptedKeys[k] \in {0, f.mkey[r].key}
                       /\ f.ckey[k] # 0 => mapCryptedKeys[k] # 0

\* Each master key is in one place, and there is an id left for each caller's.
Pending == {t \in Threads : call[t] # NoRecord}

MastersOK ==
    /\ \A i, j \in Stored(mapMasterKeys) : mapMasterKeys[i].key = mapMasterKeys[j].key => i = j
    /\ \A i \in Stored(mapMasterKeys) : mapMasterKeys[i].key <= made
    /\ \A t \in Pending : call[t].key <= made
    /\ \A t \in Pending, i \in Stored(mapMasterKeys) : call[t].key # mapMasterKeys[i].key
    /\ \A s, t \in Pending : call[s].key = call[t].key => s = t
    /\ \A i \in Stored(mapMasterKeys) \cup {0} : i + Cardinality(Pending) <= made

NewDisk == file = NoFile /\ copy = NoFile /\ added = {} /\ told = 0

PlainDisk == Plain(file) /\ copy = NoFile /\ added \subseteq file.key /\ told = 0

SealedDisk(r) ==
    /\ Sealed(file, r)
    /\ added \subseteq Crypted(file.ckey)
    /\ told \in {0, file.mkey[r].pass}

Down ==
    /\ job = NoJob
    /\ Pending = {}
    /\ NewDisk \/ PlainDisk \/ \E r \in Masters : SealedDisk(r)

PlainUp ==
    /\ PlainDisk
    /\ ~fUseCrypto
    /\ vMasterKey = 0
    /\ file.key \subseteq mapKeys
    /\ Crypted(mapCryptedKeys) = {}
    /\ job.pc \in {"none", "keys"}
    /\ Pending # {} \/ job.pc = "keys" => file.key # {}
    /\ job.pc = "keys" =>
          \E r \in Stored(mapMasterKeys) :
                             /\ mapMasterKeys[r] = [key |-> job.key, pass |-> job.pass]
                             /\ r <= made
                             /\ txn = [file EXCEPT !.mkey[r] = mapMasterKeys[r]]

Committing(r) ==
    /\ PlainDisk
    /\ job.pc = "commit"
    /\ Sealed(txn, r)
    /\ HeldOf(txn, r)
    /\ txn.mkey[r].pass = job.pass
    /\ file.key \subseteq Crypted(txn.ckey)

SealedUp(r) ==
    /\ SealedDisk(r)
    /\ HeldOf(file, r)
    /\ job.pc \in {"none", "keys", "pool", "copy", "remove"}
    /\ job.pc \in {"pool", "copy", "remove"} => job.pass = file.mkey[r].pass
    /\ job.pc \in {"pool", "copy"} => copy = NoFile
    /\ job.pc = "remove" => Sealed(copy, r) /\ copy.ckey = file.ckey /\ copy.mkey = file.mkey

Renaming(r) ==
    /\ file = NoFile
    /\ Sealed(copy, r)
    /\ HeldOf(copy, r)
    /\ job.pc = "rename"
    /\ job.pass = copy.mkey[r].pass
    /\ added \subseteq Crypted(copy.ckey)

Up == PlainUp \/ \E r \in Masters : Committing(r) \/ SealedUp(r) \/ Renaming(r)

IInv ==
    /\ Faults \cap Unchecked = {}
    /\ TypeOK
    /\ MastersOK
    /\ proc # "corrupt"
    /\ proc = "down" => Down
    /\ proc = "up" => Up

(***************************************************************************)
(* Facts about the operators.                                              *)
(***************************************************************************)
\* A set of naturals with an element has a least one.
LEMMA LeastNatural ==
  ASSUME NEW S \in SUBSET Nat, S # {}
  PROVE  \E m \in S : \A k \in S : m <= k
<1>1. PICK m \in S : \A k \in S : <<k, m>> \notin OpToRel(<, Nat)
  BY WFMin, NatLessThanWellFounded
<1>2. ASSUME NEW k \in S PROVE m <= k
  <2>1. ~(k < m)
    BY <1>1 DEF OpToRel
  <2> QED BY <2>1
<1> QED BY <1>2

LEMMA MinIs ==
  ASSUME NEW S \in SUBSET Nat, S # {}
  PROVE  Min(S) \in S
  BY LeastNatural DEF Min

\* A set of naturals that is not empty and has a bound has a greatest element.
LEMMA MaxIs ==
  ASSUME NEW S \in SUBSET Nat, S # {}, NEW n \in Nat, \A k \in S : k <= n
  PROVE  Max(S) \in S /\ \A k \in S : k <= Max(S)
<1> DEFINE B == {b \in Nat : \A k \in S : k <= b}
<1>1. PICK m \in B : \A b \in B : m <= b
  <2>1. n \in B /\ B \in SUBSET Nat
    OBVIOUS
  <2> QED BY <2>1, LeastNatural
<1>2. m \in S
  <2> SUFFICES ASSUME m \notin S PROVE FALSE
    OBVIOUS
  <2>1. \A k \in S : k \in Nat /\ k <= m - 1
    BY <1>1
  <2>2. m - 1 \in B
    <3>1. PICK k \in S : TRUE
      OBVIOUS
    <3> QED BY <3>1, <2>1, <1>1
  <2> QED BY <2>2, <1>1
<1>3. \E x \in S : \A y \in S : x >= y
  BY <1>1, <1>2
<1>4. Max(S) \in S /\ \A y \in S : Max(S) >= y
  BY <1>3 DEF Max
<1> QED BY <1>4

\* CWallet::Unlock, when all encrypted keys have the master key of record r and
\* no other record has it: it finds record r or none.
LEMMA OpeningIs ==
  ASSUME NEW records \in [Masters -> Records], NEW keys \in [Keys -> 0 .. MaxMaster],
         Crypted(keys) # {}, NEW r \in Stored(records), NEW pass,
         \A k \in Crypted(keys) : keys[k] = records[r].key,
         \A i \in Stored(records) : records[i].key = records[r].key => i = r
  PROVE  /\ Opening(records, keys, pass) \subseteq {r}
         /\ Opening(records, keys, pass) # {} =>
               /\ Min(Opening(records, keys, pass)) = r
               /\ records[r].pass = pass
               /\ MasterFor(records, keys, pass) = records[r].key
         /\ MasterFor(records, keys, pass) \in {0, records[r].key}
         /\ Stored(records) = {r} /\ records[r].pass = pass =>
               MasterFor(records, keys, pass) = records[r].key
<1> DEFINE O == Opening(records, keys, pass)
<1>1. Min(Crypted(keys)) \in Crypted(keys)
  <2>1. Crypted(keys) \in SUBSET Nat
    BY DEF Crypted, Keys
  <2> QED BY <2>1, MinIs
<1>2. \A i \in Stored(records) : Opens(records[i].key, keys) <=> i = r
  BY <1>1 DEF Opens
<1>3. O \subseteq {r} /\ (O # {} => records[r].pass = pass)
  <2>1. \A i \in O : i = r
    BY <1>2 DEF Opening
  <2>2. \A i \in O : records[i].pass = pass
    <3>1. \A i \in Stored(records) : i <= i
      BY DEF Stored, Masters
    <3> QED BY <3>1 DEF Opening
  <2> QED BY <2>1, <2>2
<1>4. ASSUME O # {} PROVE Min(O) = r
  <2>1. O \in SUBSET Nat
    BY DEF Opening, Stored, Masters
  <2>2. Min(O) \in O
    BY <2>1, <1>4, MinIs
  <2> QED BY <2>2, <1>3
<1>5. ASSUME Stored(records) = {r}, records[r].pass = pass PROVE O # {}
  <2>1. r \in O
    <3>1. ~(r < r)
      BY DEF Stored, Masters
    <3> QED BY <3>1, <1>2, <1>5 DEF Opening
  <2> QED BY <2>1
<1> QED BY <1>3, <1>4, <1>5 DEF MasterFor

\* A record that is stored is no empty one.
LEMMA StoredIs ==
  ASSUME NEW records \in [Masters -> Records], NEW r \in Stored(records)
  PROVE  r \in Masters /\ records[r].key \in Masters /\ records[r].pass \in Passes
         /\ records[r] \in [key : Masters, pass : Passes]
  BY DEF Stored, Records, NoRecord

\* What a sealed file opens with.
LEMMA SealedOpens ==
  ASSUME NEW f \in Files, NEW r, Sealed(f, r)
  PROVE  /\ f.mkey[r].key \in Masters /\ f.mkey[r].pass \in Passes /\ r \in Masters
         /\ f.mkey[r].key # 0
         /\ \A pass \in Passes : MasterFor(f.mkey, f.ckey, pass) # 0 <=> pass = f.mkey[r].pass
         /\ MasterFor(f.mkey, f.ckey, f.mkey[r].pass) = f.mkey[r].key
         /\ Usable(f) = Crypted(f.ckey)
<1>1. /\ f.mkey \in [Masters -> Records] /\ f.ckey \in [Keys -> 0 .. MaxMaster]
      /\ Crypted(f.ckey) # {} /\ r \in Stored(f.mkey) /\ Stored(f.mkey) = {r} /\ f.key = {}
      /\ \A k \in Crypted(f.ckey) : f.ckey[k] = f.mkey[r].key
      /\ \A i \in Stored(f.mkey) : f.mkey[i].key = f.mkey[r].key => i = r
  BY DEF Files, Sealed
<1>2. f.mkey[r].key \in Masters /\ f.mkey[r].pass \in Passes /\ r \in Masters
  BY <1>1, StoredIs
<1>3. f.mkey[r].key # 0
  BY <1>2 DEF Masters
<1>4. \A pass \in Passes : /\ MasterFor(f.mkey, f.ckey, pass) # 0 <=> pass = f.mkey[r].pass
                           /\ MasterFor(f.mkey, f.ckey, f.mkey[r].pass) = f.mkey[r].key
  <2> SUFFICES ASSUME NEW pass \in Passes
               PROVE  /\ MasterFor(f.mkey, f.ckey, pass) # 0 <=> pass = f.mkey[r].pass
                      /\ MasterFor(f.mkey, f.ckey, f.mkey[r].pass) = f.mkey[r].key
    OBVIOUS
  <2>1. MasterFor(f.mkey, f.ckey, f.mkey[r].pass) = f.mkey[r].key
    BY <1>1, OpeningIs
  <2>2. Opening(f.mkey, f.ckey, pass) # {} => f.mkey[r].pass = pass
    BY <1>1, OpeningIs
  <2> QED BY <2>1, <2>2, <1>3 DEF MasterFor
<1>5. Usable(f) = Crypted(f.ckey)
  BY <1>1, <1>2, <1>4 DEF Usable
<1> QED BY <1>2, <1>3, <1>4, <1>5

(***************************************************************************)
(* What the invariant implies.                                             *)
(***************************************************************************)
LEMMA IInvImplies ==
  ASSUME IInv
  PROVE  TypeOK /\ KeysOnDisk /\ KeysInWallet /\ FileLoads /\ PassphraseOpens
<1>1. TypeOK /\ FileLoads /\ file \in Files /\ copy \in Files
  BY DEF IInv, TypeOK, FileLoads
<1>2. proc \in {"up", "down"}
  BY DEF IInv, TypeOK
<1>3. CASE NewDisk /\ proc = "down"
  BY <1>1, <1>3 DEF NewDisk, KeysOnDisk, KeysInWallet, PassphraseOpens
<1>4. ASSUME PlainDisk
      PROVE  KeysOnDisk /\ PassphraseOpens
  BY <1>4 DEF PlainDisk, KeysOnDisk, Usable, PassphraseOpens
<1>5. ASSUME NEW r, SealedDisk(r)
      PROVE  KeysOnDisk /\ PassphraseOpens
  BY <1>1, <1>5, SealedOpens DEF SealedDisk, KeysOnDisk, PassphraseOpens
<1>6. CASE proc = "down"
  BY <1>1, <1>3, <1>4, <1>5, <1>6 DEF IInv, Down, KeysInWallet
<1>7. CASE proc = "up" /\ PlainUp
  BY <1>1, <1>4, <1>7 DEF PlainUp, PlainDisk, KeysInWallet
<1>8. ASSUME proc = "up", NEW r \in Masters, Committing(r)
      PROVE  KeysOnDisk /\ PassphraseOpens /\ KeysInWallet
  BY <1>4, <1>8 DEF Committing, PlainDisk, KeysInWallet, HeldOf, Crypted
<1>9. ASSUME proc = "up", NEW r \in Masters, SealedUp(r)
      PROVE  KeysOnDisk /\ PassphraseOpens /\ KeysInWallet
  BY <1>5, <1>9 DEF SealedUp, SealedDisk, KeysInWallet, HeldOf, Crypted
<1>10. ASSUME proc = "up", NEW r \in Masters, Renaming(r)
       PROVE  KeysOnDisk /\ PassphraseOpens /\ KeysInWallet
  <2>1. Usable(copy) = Crypted(copy.ckey)
    BY <1>1, <1>10, SealedOpens DEF Renaming
  <2> QED BY <1>10, <2>1 DEF Renaming, KeysOnDisk, PassphraseOpens, NoFile, KeysInWallet, HeldOf, Crypted
<1>11. CASE proc = "up"
  BY <1>1, <1>7, <1>8, <1>9, <1>10, <1>11 DEF IInv, Up
<1> QED BY <1>2, <1>6, <1>11

(***************************************************************************)
(* Starting and stopping.                                                  *)
(***************************************************************************)
JobType == [pc : {"none", "keys", "commit", "pool", "copy", "remove", "rename"},
            pass : Passes \cup {0}, key : 0 .. MaxMaster, left : 0 .. nKeyPool]

LEMMA NoFileType ==
  /\ NoFile \in Files /\ NewFile \in Files
  /\ NewFile.there /\ NewFile.key = {}
  /\ Crypted(NewFile.ckey) = {} /\ Stored(NewFile.mkey) = {}
  /\ ~NoFile.there
<1>1. [k \in Keys |-> 0] \in [Keys -> 0 .. MaxMaster] /\ [i \in Masters |-> NoRecord] \in [Masters -> Records]
  BY WalletEncryptAssumption DEF Records
<1>2. /\ NoFile \in Files /\ ~NoFile.there /\ NoFile.key = {}
      /\ NoFile.ckey = [k \in Keys |-> 0] /\ NoFile.mkey = [i \in Masters |-> NoRecord]
  BY <1>1 DEF NoFile, Files
<1>3. /\ NewFile \in Files /\ NewFile.there /\ NewFile.key = NoFile.key
      /\ NewFile.ckey = NoFile.ckey /\ NewFile.mkey = NoFile.mkey
  BY <1>2 DEF NewFile, Files
<1>4. Crypted(NewFile.ckey) = {} /\ Stored(NewFile.mkey) = {}
  BY <1>2, <1>3 DEF Crypted, Stored
<1> QED BY <1>2, <1>3, <1>4

LEMMA NoJobType ==
  NoJob \in [pc : {"none", "keys", "commit", "pool", "copy", "remove", "rename"},
             pass : Passes \cup {0}, key : 0 .. MaxMaster, left : 0 .. nKeyPool]
  /\ NoJob.pc = "none"
  BY WalletEncryptAssumption DEF NoJob

\* The number of callers that wait.
LEMMA PendingFinite ==
  IsFiniteSet(Pending) /\ Cardinality(Pending) \in Nat
<1>1. IsFiniteSet(Threads) /\ Pending \in SUBSET Threads
  BY WalletEncryptAssumption DEF Pending
<1>2. IsFiniteSet(Pending)
  BY <1>1, FS_Subset
<1> QED BY <1>2, FS_CardinalityType

LEMMA MastersStay ==
  ASSUME IInv, UNCHANGED <<mapMasterKeys, call, made>>
  PROVE  MastersOK'
  BY DEF IInv, MastersOK, Pending, Stored

\* The disk is as it was, up to a copy that a sealed file does not need.
LEMMA DeadKeeps ==
  ASSUME IInv, proc = "up", Dead, UNCHANGED <<file, added, told>>, copy' \in Files,
         job.pc # "rename",
         copy' = copy \/ \E r \in Masters : SealedDisk(r)
  PROVE  IInv'
<1>1. /\ proc' = "down" /\ mapKeys' = {} /\ mapCryptedKeys' = [k \in Keys |-> 0] /\ fUseCrypto' = FALSE
      /\ vMasterKey' = 0 /\ mapMasterKeys' = [i \in Masters |-> NoRecord] /\ txn' = NoFile
      /\ call' = [t \in Threads |-> NoRecord] /\ job' = NoJob /\ leaked' = 0 /\ made' = made
  BY DEF Dead
<1>2. TypeOK'
  <2>1. mapCryptedKeys' \in [Keys -> 0 .. MaxMaster] /\ mapMasterKeys' \in [Masters -> Records]
        /\ call' \in [Threads -> Records] /\ vMasterKey' \in 0 .. MaxMaster
    BY <1>1, WalletEncryptAssumption DEF Records
  <2>2. file' \in Files /\ txn' \in Files
    BY <1>1, NoFileType DEF IInv, TypeOK
  <2> QED BY <1>1, <2>1, <2>2, NoJobType DEF IInv, TypeOK
<1>3. Pending' = {}
  BY <1>1 DEF Pending
<1>4. MastersOK'
  <2>1. Stored(mapMasterKeys') = {}
    BY <1>1 DEF Stored
  <2>2. Cardinality(Pending') = 0 /\ made' \in Nat
    BY <1>1, <1>3, FS_EmptySet DEF IInv, TypeOK
  <2> QED BY <1>3, <2>1, <2>2 DEF MastersOK
<1>5. PlainDisk' \/ \E r \in Masters : SealedDisk(r)'
  <2>1. ASSUME PlainDisk PROVE PlainDisk'
    <3>1. \A r : ~SealedDisk(r)
      BY <2>1 DEF PlainDisk, SealedDisk, Plain, Sealed
    <3> QED BY <2>1, <3>1 DEF PlainDisk, Plain
  <2>2. ASSUME NEW r \in Masters, SealedDisk(r) PROVE SealedDisk(r)'
    BY <1>1, <2>2 DEF SealedDisk, Sealed
  <2> QED BY <2>1, <2>2 DEF IInv, Up, PlainUp, Committing, SealedUp, Renaming
<1>6. Down'
  BY <1>1, <1>3, <1>5 DEF Down
<1> QED BY <1>1, <1>2, <1>4, <1>6 DEF IInv

LEMMA StopKeeps ==
  ASSUME IInv, Stop
  PROVE  IInv'
<1>1. job.pc # "rename"
  BY DEF Stop, May, IInv, Unchecked
<1>2. copy' \in Files /\ copy' = copy /\ proc = "up" /\ Dead /\ UNCHANGED <<file, added, told>>
  BY DEF Stop, IInv, TypeOK
<1> QED BY <1>1, <1>2, DeadKeeps

\* LoadWallet takes a plain file as well as a sealed one.
LEMMA StartKeeps ==
  ASSUME IInv, Start
  PROVE  IInv'
<1>1. /\ proc = "down" /\ Down /\ file' = (IF file.there THEN file ELSE NewFile)
      /\ proc' = (IF file.key # {} /\ Crypted(file.ckey) # {} THEN "corrupt" ELSE "up")
      /\ mapKeys' = file'.key /\ mapCryptedKeys' = file'.ckey
      /\ fUseCrypto' = (Crypted(file'.ckey) # {})
      /\ mapMasterKeys' = file'.mkey /\ vMasterKey' = 0
      /\ UNCHANGED <<copy, txn, call, job, leaked, made, added, told>>
  BY DEF Start, Loaded, IInv
<1>2. file' \in Files /\ file \in Files
  BY <1>1, NoFileType DEF IInv, TypeOK
<1>3. TypeOK' \/ proc' = "corrupt"
  <2>1. /\ mapKeys' \in SUBSET Keys /\ mapCryptedKeys' \in [Keys -> 0 .. MaxMaster]
        /\ mapMasterKeys' \in [Masters -> Records] /\ fUseCrypto' \in BOOLEAN /\ vMasterKey' \in 0 .. MaxMaster
    BY <1>1, <1>2, WalletEncryptAssumption DEF Files
  <2> QED BY <1>1, <1>2, <2>1 DEF IInv, TypeOK
<1>4. Pending' = {} /\ Cardinality(Pending') = 0 /\ made' = made /\ made \in Nat
  <2>1. Pending' = {}
    BY <1>1 DEF Down, Pending
  <2> QED BY <1>1, <2>1, FS_EmptySet DEF IInv, TypeOK
<1>5. job.pc = "none" /\ job'.pc = "none"
  BY <1>1, NoJobType DEF Down
<1>6. ASSUME Plain(file'), PlainDisk' PROVE PlainUp' /\ MastersOK'
  <2>1. Stored(mapMasterKeys') = {}
    BY <1>1, <1>6 DEF Plain
  <2>2. MastersOK'
    BY <1>4, <2>1 DEF MastersOK
  <2>3. PlainUp'
    BY <1>1, <1>4, <1>5, <1>6 DEF PlainUp, Plain
  <2> QED BY <2>2, <2>3
<1>7. CASE NewDisk
  <2>1. file' = NewFile /\ proc' = "up"
    BY <1>1, <1>7, NoFileType DEF NewDisk, NoFile
  <2>2. Plain(file') /\ PlainDisk'
    BY <1>1, <1>7, <2>1, NoFileType DEF NewDisk, PlainDisk, Plain
  <2> QED BY <1>1, <1>3, <1>6, <2>1, <2>2 DEF IInv, Up
<1>8. CASE PlainDisk
  <2>1. file' = file /\ proc' = "up"
    BY <1>1, <1>8 DEF PlainDisk, Plain
  <2>2. Plain(file') /\ PlainDisk'
    BY <1>1, <1>8, <2>1 DEF PlainDisk, Plain
  <2> QED BY <1>1, <1>3, <1>6, <2>1, <2>2 DEF IInv, Up
<1>9. ASSUME NEW r \in Masters, SealedDisk(r) PROVE IInv'
  <2>1. file' = file /\ proc' = "up" /\ fUseCrypto'
    BY <1>1, <1>9 DEF SealedDisk, Sealed
  <2>2. SealedDisk(r)'
    BY <1>1, <1>9, <2>1 DEF SealedDisk, Sealed
  <2>3. HeldOf(file, r)'
    <3>1. \A k \in Keys : file.ckey[k] \in {0, file.mkey[r].key}
      BY <1>9 DEF SealedDisk, Sealed, Crypted
    <3> QED BY <1>1, <1>9, <2>1, <3>1 DEF HeldOf, SealedDisk, Sealed
  <2>4. SealedUp(r)'
    BY <1>5, <2>2, <2>3 DEF SealedUp
  <2>5. MastersOK'
    <3>1. Stored(mapMasterKeys') = {r} /\ mapMasterKeys'[r].key <= made /\ r <= made /\ r \in Int
      BY <1>1, <1>9, <2>1 DEF SealedDisk, Sealed, Masters
    <3> QED BY <1>4, <3>1 DEF MastersOK
  <2> QED BY <1>1, <1>3, <2>1, <2>4, <2>5 DEF IInv, Up
<1> QED BY <1>1, <1>7, <1>8, <1>9 DEF Down

(***************************************************************************)
(* Adding keys.                                                            *)
(***************************************************************************)
\* In a plain wallet the key goes to the plain records.
LEMMA AddPlainKey ==
  ASSUME IInv, proc = "up", PlainUp, NEW k \in Keys, NEW written \in BOOLEAN, AddKey(k, written)
  PROVE  /\ file' \in Files /\ mapKeys' \in SUBSET Keys /\ mapCryptedKeys' = mapCryptedKeys
         /\ PlainDisk' /\ file'.key \subseteq mapKeys' /\ (file.key # {} => file'.key # {})
         /\ added' \in SUBSET Keys
<1>1. /\ mapKeys' = mapKeys \cup {k} /\ mapCryptedKeys' = mapCryptedKeys
      /\ file' = (IF written THEN WriteKey(file, k) ELSE file)
      /\ added' = (IF written THEN added \cup {k} ELSE added)
      /\ copy' = copy /\ told' = told
  BY DEF AddKey, PlainUp
<1>2. file \in Files /\ mapKeys \in SUBSET Keys /\ added \in SUBSET Keys
  BY DEF IInv, TypeOK
<1>3. /\ WriteKey(file, k) \in Files /\ WriteKey(file, k).there = file.there
      /\ WriteKey(file, k).key = file.key \cup {k} /\ WriteKey(file, k).ckey = file.ckey
      /\ WriteKey(file, k).mkey = file.mkey
  BY <1>2 DEF WriteKey, Files
<1>4. /\ file' \in Files /\ file'.there = file.there /\ file'.ckey = file.ckey /\ file'.mkey = file.mkey
      /\ file'.key = (IF written THEN file.key \cup {k} ELSE file.key)
  BY <1>1, <1>2, <1>3
<1>5. PlainDisk' /\ file'.key \subseteq mapKeys'
  BY <1>1, <1>4 DEF PlainUp, PlainDisk, Plain
<1> QED BY <1>1, <1>2, <1>4, <1>5

\* In an encrypted one it is encrypted under the one master key.
LEMMA AddCryptedKey ==
  ASSUME IInv, proc = "up", NEW r \in Masters, SealedDisk(r), HeldOf(file, r),
         NEW k \in Keys, NEW written \in BOOLEAN, AddKey(k, written)
  PROVE  /\ file' \in Files /\ mapKeys' = mapKeys /\ mapCryptedKeys' \in [Keys -> 0 .. MaxMaster]
         /\ SealedDisk(r)' /\ HeldOf(file, r)' /\ file'.mkey = file.mkey
         /\ added' \in SUBSET Keys
<1> DEFINE m == file.mkey[r].key
<1>1. /\ vMasterKey # 0 /\ fUseCrypto /\ vMasterKey = m
      /\ mapCryptedKeys' = [mapCryptedKeys EXCEPT ![k] = vMasterKey]
      /\ file' = (IF written THEN WriteCryptedKey(file, k, vMasterKey) ELSE file)
      /\ added' = (IF written THEN added \cup {k} ELSE added)
      /\ mapKeys' = mapKeys /\ fUseCrypto' = fUseCrypto /\ vMasterKey' = vMasterKey
      /\ mapMasterKeys' = mapMasterKeys /\ told' = told /\ made' = made
  BY DEF AddKey, HeldOf, IsLocked
<1>2. /\ file \in Files /\ added \in SUBSET Keys /\ mapCryptedKeys \in [Keys -> 0 .. MaxMaster]
      /\ vMasterKey \in 0 .. MaxMaster /\ file.ckey \in [Keys -> 0 .. MaxMaster]
  BY DEF IInv, TypeOK, Files
<1>3. /\ WriteCryptedKey(file, k, vMasterKey) \in Files
      /\ WriteCryptedKey(file, k, vMasterKey).there = file.there
      /\ WriteCryptedKey(file, k, vMasterKey).key = file.key \ {k}
      /\ WriteCryptedKey(file, k, vMasterKey).ckey = [file.ckey EXCEPT ![k] = vMasterKey]
      /\ WriteCryptedKey(file, k, vMasterKey).mkey = file.mkey
  BY <1>2 DEF WriteCryptedKey, Files
<1>4. /\ file' \in Files /\ file'.there = file.there /\ file'.mkey = file.mkey
      /\ file'.key = (IF written THEN file.key \ {k} ELSE file.key)
      /\ file'.ckey = (IF written THEN [file.ckey EXCEPT ![k] = vMasterKey] ELSE file.ckey)
  BY <1>1, <1>2, <1>3
<1>5. /\ \A j \in Keys : mapCryptedKeys'[j] = (IF j = k THEN m ELSE mapCryptedKeys[j])
      /\ \A j \in Keys : file'.ckey[j] = (IF j = k /\ written THEN m ELSE file.ckey[j])
      /\ mapCryptedKeys' \in [Keys -> 0 .. MaxMaster]
  BY <1>1, <1>2, <1>4
<1>6. Crypted(file'.ckey) = Crypted(file.ckey) \cup (IF written THEN {k} ELSE {})
  BY <1>1, <1>5 DEF Crypted
<1>7. Sealed(file', r)
  <2>1. \A j \in Crypted(file'.ckey) : file'.ckey[j] = m
    BY <1>5, <1>6 DEF SealedDisk, Sealed, Crypted
  <2> QED BY <1>4, <1>6, <2>1 DEF SealedDisk, Sealed
<1>8. SealedDisk(r)'
  BY <1>1, <1>4, <1>6, <1>7 DEF SealedDisk, Sealed
<1>9. HeldOf(file, r)'
  BY <1>1, <1>4, <1>5 DEF HeldOf
<1> QED BY <1>1, <1>2, <1>4, <1>5, <1>8, <1>9

\* The types that AddKey leaves.
LEMMA AddKeyType ==
  ASSUME IInv, proc = "up", NEW k \in Keys, NEW written \in BOOLEAN, AddKey(k, written),
         file' \in Files, mapKeys' \in SUBSET Keys, mapCryptedKeys' \in [Keys -> 0 .. MaxMaster],
         added' \in SUBSET Keys,
         job' \in [pc : {"none", "keys", "commit", "pool", "copy", "remove", "rename"},
                   pass : Passes \cup {0}, key : 0 .. MaxMaster, left : 0 .. nKeyPool]
  PROVE  TypeOK' /\ MastersOK' /\ proc' = "up"
<1>1. UNCHANGED <<proc, fUseCrypto, vMasterKey, mapMasterKeys, copy, txn, call, leaked, made, told>>
  BY DEF AddKey
<1>2. TypeOK'
  BY <1>1 DEF IInv, TypeOK
<1> QED BY <1>1, <1>2, MastersStay

LEMMA GenerateNewKeyKeeps ==
  ASSUME IInv, GenerateNewKey
  PROVE  IInv'
<1>1. PICK k \in Keys, written \in BOOLEAN : AddKey(k, written)
  BY DEF GenerateNewKey, Unused
<1>2. proc = "up" /\ job = NoJob /\ job' = job /\ job.pc = "none"
  BY NoJobType DEF GenerateNewKey, Free
<1>3. job' \in [pc : {"none", "keys", "commit", "pool", "copy", "remove", "rename"},
                pass : Passes \cup {0}, key : 0 .. MaxMaster, left : 0 .. nKeyPool]
  BY <1>2, NoJobType
<1>4. UNCHANGED <<proc, fUseCrypto, vMasterKey, mapMasterKeys, copy, txn, call, leaked, made, told>>
  BY <1>1 DEF AddKey
<1>5. CASE PlainUp
  <2>1. /\ file' \in Files /\ mapKeys' \in SUBSET Keys /\ mapCryptedKeys' = mapCryptedKeys
        /\ PlainDisk' /\ file'.key \subseteq mapKeys' /\ (file.key # {} => file'.key # {})
        /\ added' \in SUBSET Keys
    BY <1>1, <1>2, <1>5, AddPlainKey
  <2>2. TypeOK' /\ MastersOK' /\ proc' = "up"
    BY <1>1, <1>2, <1>3, <2>1, AddKeyType DEF IInv, TypeOK
  <2>3. PlainUp'
    BY <1>2, <1>4, <1>5, <2>1 DEF PlainUp, Pending
  <2> QED BY <2>2, <2>3 DEF IInv, Up
<1>6. ASSUME NEW r \in Masters, SealedUp(r) PROVE IInv'
  <2>1. /\ file' \in Files /\ mapKeys' = mapKeys /\ mapCryptedKeys' \in [Keys -> 0 .. MaxMaster]
        /\ SealedDisk(r)' /\ HeldOf(file, r)' /\ added' \in SUBSET Keys
    BY <1>1, <1>2, <1>6, AddCryptedKey DEF SealedUp
  <2>2. TypeOK' /\ MastersOK' /\ proc' = "up"
    BY <1>1, <1>2, <1>3, <2>1, AddKeyType DEF IInv, TypeOK
  <2>3. SealedUp(r)'
    BY <1>2, <2>1 DEF SealedUp
  <2> QED BY <2>2, <2>3 DEF IInv, Up
<1> QED BY <1>2, <1>5, <1>6 DEF IInv, Up, Committing, Renaming

(***************************************************************************)
(* EncryptWallet up to its transaction.                                    *)
(***************************************************************************)
\* A caller past its first test has a master key of its own.
LEMMA EncryptWalletKeeps ==
  ASSUME IInv, NEW t \in Threads, NEW pass \in Passes, EncryptWallet(t, pass)
  PROVE  IInv'
<1>1. /\ proc = "up" /\ file.key # {} /\ call[t] = NoRecord /\ ~fUseCrypto /\ made < MaxMaster
      /\ call' = [call EXCEPT ![t] = [key |-> made + 1, pass |-> pass]] /\ made' = made + 1
      /\ UNCHANGED <<proc, mapKeys, mapCryptedKeys, fUseCrypto, vMasterKey, mapMasterKeys, file,
                     copy, txn, job, leaked, added, told>>
  BY DEF EncryptWallet, memory
<1>2. made \in Nat /\ MaxMaster \in Nat /\ call \in [Threads -> Records]
  BY WalletEncryptAssumption DEF IInv, TypeOK
<1>3. made + 1 \in Masters /\ [key |-> made + 1, pass |-> pass] \in Records
      /\ [key |-> made + 1, pass |-> pass] # NoRecord
  BY <1>1, <1>2 DEF Masters, Records, NoRecord
<1>4. /\ call' \in [Threads -> Records] /\ call'[t] = [key |-> made + 1, pass |-> pass]
      /\ \A s \in Threads \ {t} : call'[s] = call[s]
  BY <1>1, <1>2, <1>3
<1>5. TypeOK'
  BY <1>1, <1>2, <1>4 DEF IInv, TypeOK
<1>6. Pending' = Pending \cup {t} /\ t \notin Pending
  BY <1>1, <1>3, <1>4 DEF Pending
<1>7. Cardinality(Pending') = Cardinality(Pending) + 1 /\ Cardinality(Pending) \in Nat
  BY <1>6, PendingFinite, FS_AddElement
<1>8. MastersOK'
  <2>1. MastersOK /\ mapMasterKeys \in [Masters -> Records]
    BY DEF IInv, TypeOK
  <2>2. \A i \in Stored(mapMasterKeys) : i \in Nat /\ mapMasterKeys[i].key \in Nat
    <3>1. \A i \in Stored(mapMasterKeys) : i \in Masters /\ mapMasterKeys[i].key \in Masters
      BY <2>1, StoredIs
    <3> QED BY <3>1 DEF Masters
  <2>3. \A s \in Pending : call[s].key \in Nat
    BY <1>2 DEF Pending, Records, NoRecord, Masters
  <2>4. \A s \in Pending : call'[s] = call[s] /\ s # t
    BY <1>4, <1>6 DEF Pending
  <2>5. call'[t].key = made + 1
    BY <1>4
  <2>6. \A i \in Stored(mapMasterKeys) : mapMasterKeys[i].key <= made
        /\ \A s \in Pending : call[s].key # mapMasterKeys[i].key
    BY <2>1 DEF MastersOK
  <2>7. \A s \in Pending : call[s].key <= made
    BY <2>1 DEF MastersOK
  <2>8. \A i \in Stored(mapMasterKeys) \cup {0} : i + Cardinality(Pending') <= made'
    BY <1>1, <1>2, <1>7, <2>1, <2>2 DEF MastersOK
  <2>9. \A s \in Pending' : call'[s].key <= made' /\ \A i \in Stored(mapMasterKeys) : call'[s].key # mapMasterKeys[i].key
    BY <1>1, <1>2, <1>6, <2>2, <2>3, <2>4, <2>5, <2>6, <2>7
  <2>10. \A a, b \in Pending' : call'[a].key = call'[b].key => a = b
    BY <1>2, <1>6, <2>1, <2>3, <2>4, <2>5, <2>7 DEF MastersOK
  <2>11. \A i \in Stored(mapMasterKeys) : mapMasterKeys[i].key <= made'
    BY <1>1, <1>2, <2>2, <2>6
  <2> QED BY <1>1, <2>1, <2>8, <2>9, <2>10, <2>11 DEF MastersOK
<1>9. PlainUp
  BY <1>1 DEF IInv, Up, Committing, SealedUp, Renaming, HeldOf
<1>10. PlainUp'
  <2>1. \A r \in Masters : r <= made => r <= made'
    BY <1>1, <1>2 DEF Masters
  <2>2. Stored(mapMasterKeys)' = Stored(mapMasterKeys) /\ Stored(mapMasterKeys) \subseteq Masters
        /\ Crypted(mapCryptedKeys)' = Crypted(mapCryptedKeys)
    BY <1>1 DEF Stored, Crypted
  <2>3. PlainDisk'
    BY <1>1, <1>9 DEF PlainUp, PlainDisk, Plain
  <2> QED BY <1>1, <1>9, <2>1, <2>2, <2>3 DEF PlainUp
<1> QED BY <1>1, <1>5, <1>8, <1>10 DEF IInv, Up

\* The id of the next record is the next one, and there is room for it.
LEMMA NextId ==
  ASSUME IInv, NEW t \in Pending
  PROVE  /\ nMasterKeyMaxID + 1 \in Masters
         /\ nMasterKeyMaxID + Cardinality(Pending) <= made
         /\ nMasterKeyMaxID + 1 <= made
         /\ nMasterKeyMaxID \in Nat
         /\ \A i \in Stored(mapMasterKeys) : i <= nMasterKeyMaxID
<1> DEFINE S == Stored(mapMasterKeys) \cup {0}
<1>1. S \in SUBSET Nat /\ S # {} /\ made \in Nat /\ MaxMaster \in Nat /\ made <= MaxMaster
  BY WalletEncryptAssumption DEF Stored, Masters, IInv, TypeOK
<1>2. Cardinality(Pending) \in Nat /\ Cardinality(Pending) >= 1
  <2>1. Cardinality(Pending) # 0
    BY PendingFinite, FS_EmptySet
  <2> QED BY <2>1, PendingFinite
<1>3. \A i \in S : i + Cardinality(Pending) <= made
  BY DEF IInv, MastersOK
<1>4. \A i \in S : i <= made
  BY <1>1, <1>2, <1>3
<1>5. nMasterKeyMaxID \in S /\ \A k \in S : k <= nMasterKeyMaxID
  BY <1>1, <1>4, MaxIs DEF nMasterKeyMaxID
<1> QED BY <1>1, <1>2, <1>3, <1>5 DEF Masters

\* The master key of a caller takes the next id.
LEMMA TxnBeginMasters ==
  ASSUME IInv, NEW t \in Threads, TxnBegin(t), NEW id, id = nMasterKeyMaxID + 1
  PROVE  /\ id \in Masters /\ id \notin Stored(mapMasterKeys) /\ id <= made /\ t \in Pending
         /\ mapMasterKeys' \in [Masters -> Records] /\ mapMasterKeys'[id] = call[t]
         /\ call[t] \in [key : Masters, pass : Passes]
         /\ \A i \in Masters \ {id} : mapMasterKeys'[i] = mapMasterKeys[i]
         /\ call' \in [Threads -> Records] /\ Pending' = Pending \ {t}
         /\ MastersOK'
<1>1. /\ call[t] # NoRecord /\ made' = made
      /\ mapMasterKeys' = [mapMasterKeys EXCEPT ![id] = call[t]]
      /\ call' = [call EXCEPT ![t] = NoRecord]
  BY DEF TxnBegin
<1>2. /\ mapMasterKeys \in [Masters -> Records] /\ call \in [Threads -> Records] /\ made \in Nat
      /\ MastersOK
  BY DEF IInv, TypeOK
<1>3. t \in Pending
  BY <1>1 DEF Pending
<1>4. /\ id \in Masters /\ id <= made /\ id \in Nat
      /\ nMasterKeyMaxID + Cardinality(Pending) <= made /\ nMasterKeyMaxID \in Nat
      /\ \A i \in Stored(mapMasterKeys) : i <= nMasterKeyMaxID
  BY <1>3, NextId
<1>5. id \notin Stored(mapMasterKeys)
  BY <1>4
<1>6. /\ mapMasterKeys' \in [Masters -> Records] /\ mapMasterKeys'[id] = call[t]
      /\ \A i \in Masters \ {id} : mapMasterKeys'[i] = mapMasterKeys[i]
  BY <1>1, <1>2, <1>4
<1>7. call[t] \in [key : Masters, pass : Passes]
  BY <1>1, <1>2 DEF Records
<1>8. /\ call' \in [Threads -> Records] /\ Pending' = Pending \ {t}
      /\ \A s \in Pending' : call'[s] = call[s]
  BY <1>1, <1>2 DEF Pending, Records
<1>9. Stored(mapMasterKeys') = Stored(mapMasterKeys) \cup {id}
  BY <1>1, <1>4, <1>6 DEF Stored
<1>10. Cardinality(Pending') = Cardinality(Pending) - 1 /\ Cardinality(Pending) \in Nat
  BY <1>3, <1>8, PendingFinite, FS_RemoveElement
<1>11. MastersOK'
  <2>1. \A i \in Stored(mapMasterKeys) : mapMasterKeys'[i] = mapMasterKeys[i] /\ i # id
    BY <1>5, <1>6 DEF Stored
  <2>2. \A i \in Stored(mapMasterKeys) : i \in Nat
    BY DEF Stored, Masters
  <2>3. \A i \in Stored(mapMasterKeys') \cup {0} : i + Cardinality(Pending') <= made'
    <3>1. \A i \in Stored(mapMasterKeys) \cup {0} : i <= nMasterKeyMaxID
      BY <1>4
    <3>2. \A i \in Stored(mapMasterKeys') \cup {0} : i \in Nat /\ i <= nMasterKeyMaxID + 1
      BY <1>4, <1>9, <2>2, <3>1
    <3> QED BY <1>1, <1>2, <1>4, <1>10, <3>2
  <2>4. \A i, j \in Stored(mapMasterKeys') : mapMasterKeys'[i].key = mapMasterKeys'[j].key => i = j
    BY <1>2, <1>3, <1>6, <1>9, <2>1 DEF MastersOK
  <2>5. \A i \in Stored(mapMasterKeys') : mapMasterKeys'[i].key <= made'
    BY <1>1, <1>2, <1>3, <1>6, <1>9, <2>1 DEF MastersOK
  <2>6. \A s \in Pending' : s \in Pending /\ s # t /\ call'[s] = call[s]
    BY <1>8
  <2>7. \A s \in Pending', i \in Stored(mapMasterKeys') : call'[s].key # mapMasterKeys'[i].key
    BY <1>2, <1>3, <1>6, <1>9, <2>1, <2>6 DEF MastersOK
  <2>8. \A s \in Pending' : call'[s].key <= made'
    BY <1>1, <1>2, <2>6 DEF MastersOK
  <2>9. \A a, b \in Pending' : call'[a].key = call'[b].key => a = b
    BY <1>2, <2>6 DEF MastersOK
  <2> QED BY <2>3, <2>4, <2>5, <2>7, <2>8, <2>9 DEF MastersOK
<1> QED BY <1>3, <1>4, <1>5, <1>6, <1>7, <1>8, <1>11

LEMMA TxnBeginKeeps ==
  ASSUME IInv, NEW t \in Threads, TxnBegin(t)
  PROVE  IInv'
<1>id. PICK id : id = nMasterKeyMaxID + 1
  OBVIOUS
<1>1. /\ id \in Masters /\ id \notin Stored(mapMasterKeys) /\ id <= made /\ t \in Pending
      /\ mapMasterKeys' \in [Masters -> Records] /\ mapMasterKeys'[id] = call[t]
      /\ call[t] \in [key : Masters, pass : Passes]
      /\ \A i \in Masters \ {id} : mapMasterKeys'[i] = mapMasterKeys[i]
      /\ call' \in [Threads -> Records] /\ Pending' = Pending \ {t}
      /\ MastersOK'
  BY <1>id, TxnBeginMasters
<1>2. /\ proc = "up" /\ job = NoJob /\ job.pc = "none"
      /\ UNCHANGED <<proc, mapKeys, mapCryptedKeys, fUseCrypto, vMasterKey, file, copy, made, added, told>>
  BY NoJobType DEF TxnBegin, Free
<1>3. \/ txn' = txn /\ job' = job /\ leaked' \in {leaked, leaked + 1}
      \/ /\ txn' = [file EXCEPT !.mkey[id] = call[t]]
         /\ job' = [pc |-> "keys", pass |-> call[t].pass, key |-> call[t].key, left |-> nKeyPool]
         /\ leaked' = leaked
  <2>1. ~May("mkey")
    BY DEF IInv, May, Unchecked
  <2> QED BY <1>id, <2>1 DEF TxnBegin
<1>4. /\ file \in Files /\ txn \in Files /\ job \in JobType /\ leaked \in Nat /\ made \in Nat
      /\ file.mkey \in [Masters -> Records]
  BY DEF IInv, TypeOK, Files, JobType
<1>5. txn' \in Files /\ job' \in JobType /\ leaked' \in Nat /\ job'.pc \in {"none", "keys"}
  <2>1. [file EXCEPT !.mkey[id] = call[t]] \in Files
    BY <1>1, <1>4 DEF Files, Records
  <2>2. [pc |-> "keys", pass |-> call[t].pass, key |-> call[t].key, left |-> nKeyPool] \in JobType
    BY <1>1, WalletEncryptAssumption DEF JobType, Masters
  <2> QED BY <1>2, <1>3, <1>4, <2>1, <2>2
<1>6. TypeOK'
  BY <1>1, <1>2, <1>5 DEF IInv, TypeOK, JobType
<1>7. CASE PlainUp
  <2>1. PlainDisk' /\ file.key # {}
    BY <1>1, <1>2, <1>7 DEF PlainUp, PlainDisk, Plain
  <2>2. job'.pc = "keys" =>
          /\ id \in Stored(mapMasterKeys)'
          /\ mapMasterKeys'[id] = [key |-> job'.key, pass |-> job'.pass]
          /\ txn' = [file EXCEPT !.mkey[id] = mapMasterKeys'[id]]
    <3>1. mapMasterKeys'[id].key \in Masters /\ 0 \notin Masters
      BY <1>1 DEF Masters
    <3>2. id \in Stored(mapMasterKeys)'
      BY <1>1, <3>1 DEF Stored, NoRecord
    <3> QED BY <1>1, <1>2, <1>3, <3>2
  <2>3. PlainUp'
    BY <1>1, <1>2, <1>5, <1>7, <2>1, <2>2 DEF PlainUp
  <2> QED BY <1>1, <1>2, <1>6, <2>3 DEF IInv, Up
<1>8. ASSUME NEW r \in Masters, SealedUp(r) PROVE IInv'
  <2>1. r # id
    BY <1>1, <1>8 DEF SealedUp, SealedDisk, Sealed, HeldOf, Stored
  <2>2. SealedDisk(r)' /\ HeldOf(file, r)'
    BY <1>1, <1>2, <1>8, <2>1 DEF SealedUp, SealedDisk, Sealed, HeldOf
  <2>3. SealedUp(r)'
    BY <1>5, <2>2 DEF SealedUp
  <2> QED BY <1>1, <1>2, <1>6, <2>3 DEF IInv, Up
<1> QED BY <1>2, <1>7, <1>8 DEF IInv, Up, Committing, Renaming

(***************************************************************************)
(* EncryptWallet with its transaction: the keys and the commit.            *)
(***************************************************************************)
LEMMA EncryptKeysKeeps ==
  ASSUME IInv, proc = "up", EncryptKeys
  PROVE  IInv'
<1>1. job.pc = "keys" /\ UNCHANGED <<file, copy, added, told>> /\ copy' \in Files
  BY DEF EncryptKeys, IInv, TypeOK
<1>2. CASE Dead
  BY <1>1, <1>2, DeadKeeps
<1>3. CASE ~Dead
  <2>1. /\ Crypted(mapCryptedKeys) = {} /\ ~fUseCrypto
        /\ fUseCrypto' = TRUE
        /\ mapCryptedKeys' = [k \in Keys |-> IF k \in mapKeys THEN job.key ELSE 0]
        /\ txn' = Encrypted(txn, mapKeys, job.key)
        /\ mapKeys' = {}
        /\ job' = [job EXCEPT !.pc = "commit"]
        /\ UNCHANGED <<proc, vMasterKey, mapMasterKeys, call, leaked, made>>
    <3>1. ~May("erase")
      BY DEF IInv, May, Unchecked
    <3> QED BY <1>3, <3>1 DEF EncryptKeys
  <2>2. PlainUp
    BY <1>1, <2>1 DEF IInv, Up, Committing, SealedUp, Renaming, HeldOf
  <2>3. PICK r \in Stored(mapMasterKeys) :
                             /\ mapMasterKeys[r] = [key |-> job.key, pass |-> job.pass]
                             /\ r <= made
                             /\ txn = [file EXCEPT !.mkey[r] = mapMasterKeys[r]]
    BY <1>1, <2>2 DEF PlainUp
  <2>4. /\ file \in Files /\ txn \in Files /\ mapKeys \in SUBSET Keys /\ job \in JobType
        /\ job.key \in 0 .. MaxMaster /\ mapMasterKeys \in [Masters -> Records]
        /\ file.mkey \in [Masters -> Records] /\ file.ckey \in [Keys -> 0 .. MaxMaster]
    BY DEF IInv, TypeOK, Files, JobType
  <2>5. /\ txn.there = file.there /\ txn.key = file.key /\ txn.ckey = file.ckey
        /\ txn.mkey = [file.mkey EXCEPT ![r] = mapMasterKeys[r]]
    BY <2>3, <2>4 DEF Files
  <2>6. file.there /\ Crypted(file.ckey) = {} /\ Stored(file.mkey) = {} /\ file.key # {}
        /\ file.key \subseteq mapKeys
    BY <1>1, <2>2 DEF PlainUp, PlainDisk, Plain
  <2>7. r \in Masters /\ mapMasterKeys[r].key \in Masters /\ mapMasterKeys[r] # NoRecord
        /\ mapMasterKeys[r].key = job.key /\ mapMasterKeys[r].pass = job.pass /\ job.key # 0
        /\ job.key <= made
    <3>1. r \in Masters /\ mapMasterKeys[r].key \in Masters
      BY <2>3, <2>4, StoredIs
    <3>2. mapMasterKeys[r].key <= made
      BY <2>3 DEF IInv, MastersOK
    <3> QED BY <2>3, <3>1, <3>2 DEF Masters, Stored
  <2>8. Stored(txn.mkey) = {r} /\ txn.mkey[r] = mapMasterKeys[r]
    BY <2>4, <2>5, <2>6, <2>7 DEF Stored
  <2>9. /\ txn' \in Files /\ txn'.there /\ txn'.key = {} /\ txn'.mkey = txn.mkey
        /\ \A k \in Keys : txn'.ckey[k] = IF k \in mapKeys THEN job.key ELSE txn.ckey[k]
    <3>1. /\ txn' \in Files /\ txn'.there = txn.there /\ txn'.key = txn.key \ mapKeys
          /\ txn'.mkey = txn.mkey
          /\ \A k \in Keys : txn'.ckey[k] = IF k \in mapKeys THEN job.key ELSE txn.ckey[k]
      <4>1. txn.ckey \in [Keys -> 0 .. MaxMaster]
        BY <2>4, <2>5
      <4>2. [k \in Keys |-> IF k \in mapKeys THEN job.key ELSE txn.ckey[k]] \in [Keys -> 0 .. MaxMaster]
        BY <2>4, <4>1
      <4> QED BY <2>1, <2>4, <4>1, <4>2 DEF Encrypted, Files
    <3> QED BY <2>1, <2>5, <2>6, <3>1
  <2>10. \A k \in Keys : txn'.ckey[k] = mapCryptedKeys'[k]
    BY <2>1, <2>4, <2>5, <2>6, <2>9 DEF Crypted
  <2>11. Crypted(txn'.ckey) = mapKeys
    BY <2>1, <2>4, <2>7, <2>10 DEF Crypted
  <2>12. job' \in JobType /\ job'.pc = "commit" /\ job'.pass = job.pass /\ job'.key = job.key
    BY <2>1, <2>4 DEF JobType
  <2>13. mapCryptedKeys' \in [Keys -> 0 .. MaxMaster]
    BY <2>1, <2>4, WalletEncryptAssumption
  <2>14. TypeOK'
    BY <1>1, <2>1, <2>9, <2>12, <2>13 DEF IInv, TypeOK, JobType
  <2>15. MastersOK'
    BY <2>1, MastersStay
  <2>16. Sealed(txn, r)'
    <3>1. \A k \in Crypted(txn'.ckey) : txn'.ckey[k] = job.key
      BY <2>4, <2>9, <2>11
    <3>2. Crypted(txn'.ckey) # {} /\ Stored(txn'.mkey) = {r} /\ txn'.mkey[r].key = job.key
      BY <2>6, <2>7, <2>8, <2>9, <2>11
    <3> QED BY <2>1, <2>3, <2>7, <2>9, <3>1, <3>2 DEF Sealed
  <2>17. HeldOf(txn, r)'
    <3>1. vMasterKey' = 0
      BY <2>1, <2>2 DEF PlainUp
    <3>2. \A k \in Keys : mapCryptedKeys'[k] \in {0, job.key}
      BY <2>1
    <3> QED BY <2>1, <2>7, <2>8, <2>9, <2>10, <3>1, <3>2 DEF HeldOf
  <2>18. PlainDisk'
    BY <1>1, <2>2 DEF PlainUp, PlainDisk, Plain
  <2>19. Committing(r)'
    BY <1>1, <2>6, <2>7, <2>8, <2>9, <2>11, <2>12, <2>16, <2>17, <2>18 DEF Committing
  <2> QED BY <2>1, <2>7, <2>14, <2>15, <2>19 DEF IInv, Up
<1> QED BY <1>2, <1>3

\* The records and keys in memory, tried with a passphrase.
LEMMA HeldOpening ==
  ASSUME IInv, NEW f \in Files, NEW r \in Masters, Sealed(f, r), HeldOf(f, r), NEW pass
  PROVE  /\ r \in Stored(mapMasterKeys)
         /\ MasterFor(mapMasterKeys, mapCryptedKeys, pass) \in {0, f.mkey[r].key}
         /\ Opening(mapMasterKeys, mapCryptedKeys, pass) # {} =>
               Min(Opening(mapMasterKeys, mapCryptedKeys, pass)) = r
<1>1. mapCryptedKeys \in [Keys -> 0 .. MaxMaster] /\ mapMasterKeys \in [Masters -> Records]
  BY DEF IInv, TypeOK
<1>2. f.mkey[r].key \in Masters /\ f.mkey[r].key # 0
  BY SealedOpens
<1>3. r \in Stored(mapMasterKeys) /\ mapMasterKeys[r] = f.mkey[r]
  BY <1>2 DEF HeldOf, Stored, Sealed
<1>4. Crypted(mapCryptedKeys) # {}
  BY DEF HeldOf, Sealed, Crypted
<1>5. \A k \in Crypted(mapCryptedKeys) : mapCryptedKeys[k] = mapMasterKeys[r].key
  BY <1>3 DEF HeldOf, Crypted
<1>6. \A i \in Stored(mapMasterKeys) : mapMasterKeys[i].key = mapMasterKeys[r].key => i = r
  BY <1>3 DEF IInv, MastersOK
<1> QED BY <1>1, <1>3, <1>4, <1>5, <1>6, OpeningIs

\* After the commit the file is sealed; the passphrase opens its record or,
\* when another record comes first, none.
LEMMA TxnCommitKeeps ==
  ASSUME IInv, proc = "up", TxnCommit
  PROVE  IInv'
<1>1. job.pc = "commit" /\ UNCHANGED <<copy, added, told>> /\ copy' \in Files
  BY DEF TxnCommit, IInv, TypeOK
<1>2. CASE Dead /\ UNCHANGED file
  BY <1>1, <1>2, DeadKeeps
<1>3. CASE ~(Dead /\ UNCHANGED file)
  <2>1. /\ file' = txn /\ txn' = NoFile
        /\ vMasterKey' = MasterFor(mapMasterKeys, mapCryptedKeys, job.pass)
        /\ job' = [job EXCEPT !.pc = IF vMasterKey' = 0 THEN "copy" ELSE "pool"]
        /\ UNCHANGED <<proc, mapKeys, mapCryptedKeys, fUseCrypto, mapMasterKeys, call, leaked, made>>
    BY <1>3 DEF TxnCommit
  <2>2. PICK r \in Masters : Committing(r)
    BY <1>1 DEF IInv, Up, PlainUp, SealedUp, Renaming
  <2>3. /\ txn \in Files /\ mapCryptedKeys \in [Keys -> 0 .. MaxMaster]
        /\ mapMasterKeys \in [Masters -> Records] /\ job \in JobType
    BY DEF IInv, TypeOK, JobType
  <2>4. /\ PlainDisk /\ Sealed(txn, r) /\ HeldOf(txn, r) /\ txn.mkey[r].pass = job.pass
        /\ file.key \subseteq Crypted(txn.ckey)
    BY <2>2 DEF Committing
  <2>5. txn.mkey[r].key \in Masters /\ txn.mkey[r].key # 0
    BY <2>3, <2>4, SealedOpens
  <2>7. vMasterKey' \in {0, txn.mkey[r].key}
    BY <2>1, <2>3, <2>4, HeldOpening
  <2>8. vMasterKey' \in 0 .. MaxMaster
    BY <2>5, <2>7, WalletEncryptAssumption DEF Masters
  <2>9. job' \in JobType /\ job'.pc \in {"copy", "pool"} /\ job'.pass = job.pass
    BY <2>1, <2>3 DEF JobType
  <2>10. TypeOK'
    <3>1. txn' \in Files /\ file' \in Files
      BY <2>1, <2>3, NoFileType
    <3> QED BY <1>1, <2>1, <2>8, <2>9, <3>1 DEF IInv, TypeOK, JobType
  <2>11. MastersOK'
    BY <2>1, MastersStay
  <2>12. SealedDisk(r)'
    BY <1>1, <2>1, <2>4 DEF SealedDisk, Sealed, PlainDisk
  <2>13. HeldOf(file, r)'
    BY <2>1, <2>4, <2>7 DEF HeldOf
  <2>14. SealedUp(r)'
    <3>1. copy' = NoFile /\ job'.pass = file'.mkey[r].pass
      BY <1>1, <2>1, <2>4, <2>9 DEF PlainDisk
    <3> QED BY <2>9, <2>12, <2>13, <3>1 DEF SealedUp
  <2> QED BY <2>1, <2>10, <2>11, <2>14 DEF IInv, Up
<1> QED BY <1>2, <1>3

LEMMA NewKeyPoolKeeps ==
  ASSUME IInv, proc = "up", NewKeyPool
  PROVE  IInv'
<1>1. job.pc = "pool" /\ job \in JobType
  BY DEF NewKeyPool, IInv, TypeOK, JobType
<1>2. PICK r \in Masters : SealedUp(r)
  BY <1>1 DEF IInv, Up, PlainUp, Committing, Renaming
<1>3. /\ SealedDisk(r) /\ HeldOf(file, r) /\ job.pass = file.mkey[r].pass /\ copy = NoFile
  BY <1>1, <1>2 DEF SealedUp
<1>4. ASSUME NEW k \in Unused, NEW written \in BOOLEAN, job.left > 0, AddKey(k, written),
             job' = IF written THEN [job EXCEPT !.left = @ - 1] ELSE NoJob
      PROVE  IInv'
  <2>1. k \in Keys
    BY DEF Unused
  <2>2. /\ file' \in Files /\ mapKeys' = mapKeys /\ mapCryptedKeys' \in [Keys -> 0 .. MaxMaster]
        /\ SealedDisk(r)' /\ HeldOf(file, r)' /\ file'.mkey = file.mkey /\ added' \in SUBSET Keys
    BY <1>3, <1>4, <2>1, AddCryptedKey
  <2>3. job' \in JobType /\ (job'.pc = "none" \/ (job'.pc = "pool" /\ job'.pass = job.pass))
    <3>1. CASE written
      <4>1. job.left - 1 \in 0 .. nKeyPool
        BY <1>1, <1>4, WalletEncryptAssumption DEF JobType
      <4> QED BY <1>1, <1>4, <3>1, <4>1 DEF JobType
    <3> QED BY <1>4, <3>1, NoJobType DEF JobType
  <2>4. TypeOK' /\ MastersOK' /\ proc' = "up"
    BY <1>4, <2>1, <2>2, <2>3, AddKeyType DEF IInv, TypeOK, JobType
  <2>5. copy' = copy
    BY <1>4 DEF AddKey
  <2>6. SealedUp(r)'
    BY <1>3, <2>2, <2>3, <2>5 DEF SealedUp
  <2> QED BY <2>4, <2>6 DEF IInv, Up
<1>5. ASSUME job' \in JobType, job'.pc = "none" \/ (job'.pc = "copy" /\ job'.pass = job.pass),
             vMasterKey' \in {0, vMasterKey},
             UNCHANGED <<proc, mapKeys, mapCryptedKeys, fUseCrypto, mapMasterKeys, file, copy,
                         txn, call, leaked, made, added, told>>
      PROVE  IInv'
  <2>1. TypeOK'
    BY <1>5, WalletEncryptAssumption DEF IInv, TypeOK, JobType
  <2>2. MastersOK'
    BY <1>5, MastersStay
  <2>3. SealedDisk(r)' /\ HeldOf(file, r)'
    BY <1>3, <1>5 DEF SealedDisk, Sealed, HeldOf
  <2>4. SealedUp(r)'
    BY <1>3, <1>5, <2>3 DEF SealedUp
  <2> QED BY <1>5, <2>1, <2>2, <2>4 DEF IInv, Up
<1>6. [job EXCEPT !.pc = "copy"] \in JobType /\ [job EXCEPT !.pc = "copy"].pc = "copy"
      /\ [job EXCEPT !.pc = "copy"].pass = job.pass /\ NoJob \in JobType /\ NoJob.pc = "none"
  BY <1>1, NoJobType DEF JobType
<1>7. CASE \E k \in Unused, written \in BOOLEAN :
              /\ job.left > 0 /\ AddKey(k, written)
              /\ job' = IF written THEN [job EXCEPT !.left = @ - 1] ELSE NoJob
  BY <1>4, <1>7
<1>8. CASE job' = NoJob /\ UNCHANGED <<proc, memory, file, copy, txn, call, leaked, made, added, told>>
  BY <1>5, <1>6, <1>8 DEF memory
<1>9. CASE /\ vMasterKey' = 0 /\ job' = [job EXCEPT !.pc = "copy"]
           /\ UNCHANGED <<proc, mapKeys, mapCryptedKeys, fUseCrypto, mapMasterKeys, file,
                          copy, txn, call, leaked, made, added, told>>
  BY <1>5, <1>6, <1>9
<1> QED BY <1>7, <1>8, <1>9 DEF NewKeyPool

(***************************************************************************)
(* CDB::Rewrite.                                                           *)
(***************************************************************************)
\* EncryptWallet runs in a process that is up.
LEMMA JobIsUp ==
  ASSUME IInv, job.pc # "none"
  PROVE  proc = "up"
  BY NoJobType DEF IInv, TypeOK, Down

\* The records copied into a new file.
LEMMA PutIs ==
  ASSUME NEW f \in Files, NEW ks \in SUBSET Keys, NEW is \in SUBSET Masters,
         NEW c, c = Put(NoFile, f, ks, is)
  PROVE  /\ c \in Files /\ c.there /\ c.key = f.key \cap ks
         /\ ks = Keys => c.ckey = f.ckey
         /\ is = Masters => c.mkey = f.mkey
<1>1. /\ NoFile.key = {} /\ NoFile.ckey = [k \in Keys |-> 0] /\ NoFile.mkey = [i \in Masters |-> NoRecord]
      /\ f.key \in SUBSET Keys /\ f.ckey \in [Keys -> 0 .. MaxMaster] /\ f.mkey \in [Masters -> Records]
  BY DEF NoFile, Files
<1>2. PICK ck : ck = [k \in Keys |-> IF NoFile.ckey[k] = 0 /\ k \in ks THEN f.ckey[k] ELSE NoFile.ckey[k]]
  OBVIOUS
<1>3. PICK mk : mk = [i \in Masters |-> IF NoFile.mkey[i] = NoRecord /\ i \in is THEN f.mkey[i] ELSE NoFile.mkey[i]]
  OBVIOUS
<1>4. ck \in [Keys -> 0 .. MaxMaster] /\ (ks = Keys => ck = f.ckey)
  BY <1>1, <1>2, WalletEncryptAssumption
<1>5. mk \in [Masters -> Records] /\ (is = Masters => mk = f.mkey)
  <2>1. \A i \in Masters : NoFile.mkey[i] = NoRecord /\ f.mkey[i] \in Records /\ NoRecord \in Records
    BY <1>1 DEF Records
  <2> QED BY <1>1, <1>3, <2>1
<1>6. c = [there |-> TRUE, key |-> f.key \cap ks, ckey |-> ck, mkey |-> mk]
  BY <1>1, <1>2, <1>3 DEF Put
<1> QED BY <1>1, <1>4, <1>5, <1>6 DEF Files

\* EncryptWallet returns, leaving the sealed file.
LEMMA ReturnKeeps ==
  ASSUME IInv, proc = "up", NEW r \in Masters, Return,
         Sealed(file, r)', HeldOf(file, r)', added \subseteq Crypted(file'.ckey),
         job.pass = file'.mkey[r].pass, file' \in Files, copy' \in Files,
         UNCHANGED <<proc, memory, txn, call, leaked, made, added>>
  PROVE  IInv'
<1>1. told' = job.pass /\ job' = NoJob
      /\ UNCHANGED <<mapKeys, mapCryptedKeys, fUseCrypto, vMasterKey, mapMasterKeys>>
  BY DEF Return, memory
<1>2. told' \in Passes \cup {0}
  BY <1>1 DEF IInv, TypeOK
<1>3. TypeOK'
  BY <1>1, <1>2, NoJobType DEF IInv, TypeOK
<1>4. MastersOK'
  BY <1>1, MastersStay
<1>5. SealedDisk(r)'
  BY <1>1 DEF SealedDisk
<1>6. SealedUp(r)'
  BY <1>1, <1>5, NoJobType DEF SealedUp
<1> QED BY <1>3, <1>4, <1>6 DEF IInv, Up

LEMMA RewriteCopyKeeps ==
  ASSUME IInv, RewriteCopy
  PROVE  IInv'
<1>1. job.pc = "copy" /\ UNCHANGED <<file, added>> /\ job \in JobType
  BY DEF RewriteCopy, IInv, TypeOK, JobType
<1>2. proc = "up"
  BY <1>1, JobIsUp
<1>3. PICK r \in Masters : SealedUp(r)
  BY <1>1, <1>2 DEF IInv, Up, PlainUp, Committing, Renaming
<1>4. /\ SealedDisk(r) /\ HeldOf(file, r) /\ job.pass = file.mkey[r].pass /\ copy = NoFile
      /\ file \in Files
  BY <1>1, <1>3 DEF SealedUp, IInv, TypeOK
<1>5. CASE /\ copy' = Put(copy, file, Keys, Masters)
           /\ job' = [job EXCEPT !.pc = "remove"]
           /\ UNCHANGED <<proc, memory, txn, call, leaked, made, told>>
  <2>1. /\ copy' \in Files /\ copy'.there /\ copy'.key = file.key \cap Keys
        /\ copy'.ckey = file.ckey /\ copy'.mkey = file.mkey
    BY <1>4, <1>5, PutIs
  <2>2. job' \in JobType /\ job'.pc = "remove" /\ job'.pass = job.pass
    BY <1>1, <1>5 DEF JobType
  <2>3. UNCHANGED <<mapKeys, mapCryptedKeys, fUseCrypto, vMasterKey, mapMasterKeys>>
    BY <1>5 DEF memory
  <2>4. TypeOK' /\ MastersOK'
    BY <1>1, <1>5, <2>1, <2>2, <2>3, MastersStay DEF IInv, TypeOK, JobType
  <2>5. SealedDisk(r)' /\ HeldOf(file, r)'
    BY <1>1, <1>4, <1>5, <2>3 DEF SealedDisk, Sealed, HeldOf
  <2>6. Sealed(copy, r)'
    BY <1>4, <1>5, <2>1 DEF SealedDisk, Sealed
  <2>7. SealedUp(r)'
    BY <1>1, <1>4, <2>1, <2>2, <2>5, <2>6 DEF SealedUp
  <2> QED BY <1>2, <1>5, <2>4, <2>7 DEF IInv, Up
<1>6. ASSUME NEW ks \in SUBSET Keys, NEW is \in SUBSET Masters, copy' = Put(copy, file, ks, is),
             \/ Return /\ UNCHANGED <<proc, memory, txn, call, leaked, made>>
             \/ Dead /\ UNCHANGED told
      PROVE  IInv'
  <2>1. copy' \in Files
    BY <1>4, <1>6, PutIs
  <2>2. CASE Return /\ UNCHANGED <<proc, memory, txn, call, leaked, made>>
    <3>1. UNCHANGED <<mapKeys, mapCryptedKeys, fUseCrypto, vMasterKey, mapMasterKeys>>
      BY <2>2 DEF memory
    <3>2. Sealed(file, r)' /\ HeldOf(file, r)' /\ added \subseteq Crypted(file'.ckey)
      BY <1>1, <1>4, <2>2, <3>1 DEF SealedDisk, Sealed, HeldOf
    <3> QED BY <1>1, <1>2, <1>4, <2>1, <2>2, <3>2, ReturnKeeps
  <2>3. CASE Dead /\ UNCHANGED told
    BY <1>1, <1>2, <1>4, <2>1, <2>3, DeadKeeps
  <2> QED BY <1>6, <2>2, <2>3
<1> QED BY <1>5, <1>6 DEF RewriteCopy

LEMMA RewriteGivesUpKeeps ==
  ASSUME IInv, RewriteGivesUp
  PROVE  IInv'
<1>1. job.pc = "copy" /\ Return
      /\ UNCHANGED <<proc, memory, file, copy, txn, call, leaked, made, added>>
  BY DEF RewriteGivesUp
<1>2. proc = "up"
  BY <1>1, JobIsUp
<1>3. PICK r \in Masters : SealedUp(r)
  BY <1>1, <1>2 DEF IInv, Up, PlainUp, Committing, Renaming
<1>4. Sealed(file, r)' /\ HeldOf(file, r)' /\ added \subseteq Crypted(file'.ckey)
  BY <1>1, <1>3 DEF SealedUp, SealedDisk, Sealed, HeldOf, memory
<1>5. job.pass = file'.mkey[r].pass /\ file' \in Files /\ copy' \in Files
  BY <1>1, <1>3 DEF SealedUp, IInv, TypeOK
<1> QED BY <1>1, <1>2, <1>4, <1>5, ReturnKeeps

\* When the old file is removed the copy has all it had.
LEMMA RewriteRemoveKeeps ==
  ASSUME IInv, RewriteRemove
  PROVE  IInv'
<1>1. job.pc = "remove" /\ job \in JobType
      /\ UNCHANGED <<proc, memory, copy, txn, call, leaked, made, added>>
      /\ UNCHANGED <<mapKeys, mapCryptedKeys, fUseCrypto, vMasterKey, mapMasterKeys>>
  BY DEF RewriteRemove, memory, IInv, TypeOK, JobType
<1>2. proc = "up"
  BY <1>1, JobIsUp
<1>3. PICK r \in Masters : SealedUp(r)
  BY <1>1, <1>2 DEF IInv, Up, PlainUp, Committing, Renaming
<1>4. /\ SealedDisk(r) /\ HeldOf(file, r) /\ job.pass = file.mkey[r].pass
      /\ Sealed(copy, r) /\ copy.ckey = file.ckey /\ copy.mkey = file.mkey
      /\ file \in Files /\ copy \in Files
  BY <1>1, <1>3 DEF SealedUp, IInv, TypeOK
<1>5. CASE file' = NoFile /\ job' = [job EXCEPT !.pc = "rename"] /\ UNCHANGED told
  <2>1. job' \in JobType /\ job'.pc = "rename" /\ job'.pass = job.pass
    BY <1>1, <1>5 DEF JobType
  <2>2. file' \in Files
    BY <1>5, NoFileType
  <2>3. TypeOK' /\ MastersOK'
    BY <1>1, <1>5, <2>1, <2>2, MastersStay DEF IInv, TypeOK, JobType
  <2>4. Sealed(copy, r)' /\ HeldOf(copy, r)'
    BY <1>1, <1>4 DEF Sealed, HeldOf
  <2>5. Renaming(r)'
    BY <1>1, <1>4, <1>5, <2>1, <2>4 DEF Renaming, SealedDisk
  <2> QED BY <1>1, <1>2, <2>3, <2>5 DEF IInv, Up
<1>6. CASE Return /\ UNCHANGED file
  <2>1. Sealed(file, r)' /\ HeldOf(file, r)' /\ added \subseteq Crypted(file'.ckey)
    BY <1>1, <1>4, <1>6 DEF SealedDisk, Sealed, HeldOf
  <2> QED BY <1>1, <1>2, <1>4, <1>6, <2>1, ReturnKeeps
<1> QED BY <1>5, <1>6 DEF RewriteRemove

LEMMA RewriteRenameKeeps ==
  ASSUME IInv, RewriteRename
  PROVE  IInv'
<1>1. /\ job.pc = "rename" /\ file' = copy /\ copy' = NoFile /\ Return
      /\ UNCHANGED <<proc, memory, txn, call, leaked, made, added>>
      /\ UNCHANGED <<mapKeys, mapCryptedKeys, fUseCrypto, vMasterKey, mapMasterKeys>>
  <2>1. ~May("rename")
    BY DEF IInv, May, Unchecked
  <2> QED BY <2>1 DEF RewriteRename, memory
<1>2. proc = "up"
  BY <1>1, JobIsUp
<1>3. PICK r \in Masters : Renaming(r)
  BY <1>1, <1>2 DEF IInv, Up, PlainUp, Committing, SealedUp
<1>4. file' \in Files /\ copy' \in Files
  BY <1>1, NoFileType DEF IInv, TypeOK
<1>5. Sealed(file, r)' /\ HeldOf(file, r)' /\ added \subseteq Crypted(file'.ckey)
      /\ job.pass = file'.mkey[r].pass
  BY <1>1, <1>3 DEF Renaming, Sealed, HeldOf
<1> QED BY <1>1, <1>2, <1>4, <1>5, ReturnKeeps

(***************************************************************************)
(* Locking, unlocking and changing the passphrase.                         *)
(***************************************************************************)
LEMMA LockKeeps ==
  ASSUME IInv, Lock
  PROVE  IInv'
<1>1. /\ proc = "up" /\ fUseCrypto /\ vMasterKey' = 0
      /\ UNCHANGED <<proc, mapKeys, mapCryptedKeys, fUseCrypto, mapMasterKeys, file, copy,
                     txn, call, job, leaked, made, added, told>>
  BY DEF Lock
<1>2. TypeOK' /\ MastersOK'
  BY <1>1, MastersStay, WalletEncryptAssumption DEF IInv, TypeOK
<1>3. PICK r \in Masters : Committing(r) \/ SealedUp(r) \/ Renaming(r)
  BY <1>1 DEF IInv, Up, PlainUp
<1>4. CASE Committing(r)
  <2>1. PlainDisk' /\ Sealed(txn, r)' /\ HeldOf(txn, r)'
    BY <1>1, <1>4 DEF Committing, PlainDisk, Plain, Sealed, HeldOf
  <2>2. Committing(r)'
    BY <1>1, <1>4, <2>1 DEF Committing
  <2> QED BY <1>1, <1>2, <2>2 DEF IInv, Up
<1>5. CASE SealedUp(r)
  <2>1. SealedDisk(r)' /\ HeldOf(file, r)' /\ (Sealed(copy, r) => Sealed(copy, r)')
    BY <1>1, <1>5 DEF SealedUp, SealedDisk, Sealed, HeldOf
  <2>2. SealedUp(r)'
    BY <1>1, <1>5, <2>1 DEF SealedUp
  <2> QED BY <1>1, <1>2, <2>2 DEF IInv, Up
<1>6. CASE Renaming(r)
  <2>1. Sealed(copy, r)' /\ HeldOf(copy, r)'
    BY <1>1, <1>6 DEF Renaming, Sealed, HeldOf
  <2>2. Renaming(r)'
    BY <1>1, <1>6, <2>1 DEF Renaming
  <2> QED BY <1>1, <1>2, <2>2 DEF IInv, Up
<1> QED BY <1>3, <1>4, <1>5, <1>6

LEMMA UnlockKeeps ==
  ASSUME IInv, NEW pass \in Passes, Unlock(pass)
  PROVE  IInv'
<1>1. /\ proc = "up" /\ fUseCrypto /\ job.pc = "none"
      /\ vMasterKey' = MasterFor(mapMasterKeys, mapCryptedKeys, pass)
      /\ UNCHANGED <<proc, mapKeys, mapCryptedKeys, fUseCrypto, mapMasterKeys, file, copy,
                     txn, call, job, leaked, made, added, told>>
  BY NoJobType DEF Unlock, Free, IsLocked
<1>2. PICK r \in Masters : SealedUp(r)
  BY <1>1 DEF IInv, Up, PlainUp, Committing, Renaming
<1>3. file \in Files /\ Sealed(file, r) /\ HeldOf(file, r) /\ SealedDisk(r)
  BY <1>2 DEF SealedUp, SealedDisk, IInv, TypeOK
<1>4. vMasterKey' \in {0, file.mkey[r].key}
  BY <1>1, <1>3, HeldOpening
<1>5. file.mkey[r].key \in Masters
  BY <1>3, SealedOpens
<1>6. TypeOK'
  BY <1>1, <1>4, <1>5, WalletEncryptAssumption DEF IInv, TypeOK, Masters
<1>7. MastersOK'
  BY <1>1, MastersStay
<1>8. SealedDisk(r)' /\ HeldOf(file, r)'
  BY <1>1, <1>3, <1>4 DEF SealedDisk, Sealed, HeldOf
<1>9. SealedUp(r)'
  BY <1>1, <1>8 DEF SealedUp
<1> QED BY <1>1, <1>6, <1>7, <1>9 DEF IInv, Up

\* The record that opens is the one of the sealed file, in memory and on disk.
LEMMA ChangeWalletPassphraseKeeps ==
  ASSUME IInv, NEW old \in Passes, NEW new \in Passes, ChangeWalletPassphrase(old, new)
  PROVE  IInv'
<1>1. /\ proc = "up" /\ fUseCrypto /\ job.pc = "none"
      /\ UNCHANGED <<proc, mapKeys, mapCryptedKeys, fUseCrypto, copy, txn, call, job,
                     leaked, made, added>>
  BY NoJobType DEF ChangeWalletPassphrase, Free
<1>2. PICK r \in Masters : SealedUp(r)
  BY <1>1 DEF IInv, Up, PlainUp, Committing, Renaming
<1>3. /\ file \in Files /\ Sealed(file, r) /\ HeldOf(file, r) /\ SealedDisk(r)
      /\ mapMasterKeys \in [Masters -> Records] /\ file.mkey \in [Masters -> Records]
      /\ mapMasterKeys[r] = file.mkey[r]
  BY <1>2 DEF SealedUp, SealedDisk, HeldOf, IInv, TypeOK, Files
<1>4. /\ r \in Stored(mapMasterKeys)
      /\ Opening(mapMasterKeys, mapCryptedKeys, old) # {} =>
            Min(Opening(mapMasterKeys, mapCryptedKeys, old)) = r
  BY <1>3, HeldOpening
<1>5. mapMasterKeys[r] \in [key : Masters, pass : Passes] /\ 0 \notin Masters
  <2>1. mapMasterKeys[r] \in [key : Masters, pass : Passes]
    BY <1>3, <1>4, StoredIs
  <2> QED BY <2>1 DEF Masters
<1>6. CASE Opening(mapMasterKeys, mapCryptedKeys, old) = {}
  <2>1. vMasterKey' = 0 /\ UNCHANGED <<mapMasterKeys, file, told>>
    BY <1>6 DEF ChangeWalletPassphrase
  <2>2. TypeOK' /\ MastersOK'
    BY <1>1, <2>1, MastersStay, WalletEncryptAssumption DEF IInv, TypeOK
  <2>3. SealedDisk(r)' /\ HeldOf(file, r)'
    BY <1>1, <1>3, <2>1 DEF SealedDisk, Sealed, HeldOf
  <2>4. SealedUp(r)'
    BY <1>1, <2>3 DEF SealedUp
  <2> QED BY <1>1, <2>2, <2>4 DEF IInv, Up
<1>7. CASE Opening(mapMasterKeys, mapCryptedKeys, old) # {}
  <2>1. /\ vMasterKey' \in {0, mapMasterKeys[r].key}
        /\ mapMasterKeys' = [mapMasterKeys EXCEPT ![r].pass = new]
        /\ file' = [file EXCEPT !.mkey[r] = [mapMasterKeys EXCEPT ![r].pass = new][r]]
        /\ told' = new
    <3>1. ~May("change") /\ file.there
      BY <1>3 DEF IInv, May, Unchecked, Sealed
    <3>2. Min(Opening(mapMasterKeys, mapCryptedKeys, old)) = r
      BY <1>4, <1>7
    <3> QED BY <1>7, <3>1, <3>2 DEF ChangeWalletPassphrase
  <2>2. PICK m : m = [mapMasterKeys[r] EXCEPT !.pass = new]
    OBVIOUS
  <2>3. m \in Records /\ m # NoRecord /\ m.key = mapMasterKeys[r].key /\ m.pass = new
    <3>1. m \in [key : Masters, pass : Passes] /\ m.key = mapMasterKeys[r].key /\ m.pass = new
      BY <1>5, <2>2
    <3> QED BY <1>5, <3>1 DEF Records, NoRecord
  <2>4. mapMasterKeys' = [mapMasterKeys EXCEPT ![r] = m]
    BY <1>3, <1>5, <2>1, <2>2
  <2>5. /\ mapMasterKeys' \in [Masters -> Records] /\ mapMasterKeys'[r] = m
        /\ \A i \in Masters \ {r} : mapMasterKeys'[i] = mapMasterKeys[i]
    BY <1>3, <2>3, <2>4
  <2>6. /\ file' \in Files /\ file'.there = file.there /\ file'.key = file.key
        /\ file'.ckey = file.ckey /\ file'.mkey = [file.mkey EXCEPT ![r] = m]
    <3>1. file' = [file EXCEPT !.mkey[r] = m]
      BY <2>1, <2>4, <2>5
    <3> QED BY <1>3, <2>3, <3>1 DEF Files
  <2>7. Stored(mapMasterKeys') = Stored(mapMasterKeys)
    BY <1>4, <2>3, <2>5 DEF Stored
  <2>8. Stored(file'.mkey) = Stored(file.mkey) /\ file'.mkey[r] = m
    BY <1>3, <1>4, <2>3, <2>6 DEF Stored
  <2>9. vMasterKey' \in 0 .. MaxMaster
    BY <1>5, <2>1, WalletEncryptAssumption DEF Masters
  <2>10. TypeOK'
    BY <1>1, <2>1, <2>5, <2>6, <2>9 DEF IInv, TypeOK
  <2>11. \A i \in Stored(mapMasterKeys) : mapMasterKeys'[i].key = mapMasterKeys[i].key
    BY <2>3, <2>5 DEF Stored
  <2>12. MastersOK'
    <3>1. Pending' = Pending /\ MastersOK
      BY <1>1 DEF Pending, IInv
    <3> QED BY <1>1, <2>7, <2>11, <3>1 DEF MastersOK
  <2>13. SealedDisk(r)'
    <3>1. Sealed(file, r)'
      BY <1>1, <1>3, <2>3, <2>6, <2>8 DEF Sealed
    <3> QED BY <1>1, <1>3, <2>1, <2>3, <2>6, <2>8, <3>1 DEF SealedDisk
  <2>14. HeldOf(file, r)'
    BY <1>1, <1>3, <2>1, <2>3, <2>5, <2>6, <2>8 DEF HeldOf
  <2>15. SealedUp(r)'
    BY <1>1, <2>13, <2>14 DEF SealedUp
  <2> QED BY <1>1, <2>10, <2>12, <2>15 DEF IInv, Up
<1> QED BY <1>6, <1>7

(***************************************************************************)
(* The invariant holds.                                                    *)
(***************************************************************************)
LEMMA InitIInv ==
  ASSUME Faults \cap Unchecked = {}, Init
  PROVE  IInv
<1>1. Pending = {} /\ Stored(mapMasterKeys) = {}
  BY DEF Init, Pending, Stored
<1>2. Cardinality(Pending) = 0
  BY <1>1, FS_EmptySet
<1>3. MastersOK
  BY <1>1, <1>2 DEF MastersOK, Init
<1>4. TypeOK
  <2>1. mapCryptedKeys \in [Keys -> 0 .. MaxMaster] /\ mapMasterKeys \in [Masters -> Records]
        /\ call \in [Threads -> Records] /\ vMasterKey \in 0 .. MaxMaster /\ made \in 0 .. MaxMaster
    BY WalletEncryptAssumption DEF Init, Records
  <2> QED BY <2>1, NoFileType, NoJobType DEF Init, TypeOK
<1>5. Down
  BY <1>1 DEF Init, Down, NewDisk
<1> QED BY <1>3, <1>4, <1>5 DEF IInv, Init

LEMMA StepIInv ==
  ASSUME IInv, [Next]_vars
  PROVE  IInv'
<1>1. CASE UNCHANGED vars
  <2>1. UNCHANGED <<proc, mapKeys, mapCryptedKeys, fUseCrypto, vMasterKey, mapMasterKeys, file, copy,
                    txn, call, job, leaked, made, added, told>>
    BY <1>1 DEF vars, memory
  <2>2. TypeOK' /\ MastersOK'
    BY <2>1, MastersStay DEF IInv, TypeOK
  <2>3. Pending' = Pending /\ Stored(mapMasterKeys)' = Stored(mapMasterKeys)
    BY <2>1 DEF Pending, Stored
  <2>4. \A r \in Masters : SealedDisk(r)' = SealedDisk(r) /\ Sealed(txn, r)' = Sealed(txn, r)
          /\ Sealed(copy, r)' = Sealed(copy, r) /\ HeldOf(file, r)' = HeldOf(file, r)
          /\ HeldOf(txn, r)' = HeldOf(txn, r) /\ HeldOf(copy, r)' = HeldOf(copy, r)
    BY <2>1 DEF SealedDisk, Sealed, HeldOf
  <2>5. PlainDisk' = PlainDisk /\ NewDisk' = NewDisk
    BY <2>1 DEF PlainDisk, NewDisk, Plain
  <2>6. Down => Down'
    BY <2>1, <2>3, <2>4, <2>5 DEF Down
  <2>7. PlainUp => PlainUp'
    BY <2>1, <2>3, <2>5 DEF PlainUp, Crypted
  <2>8. \A r \in Masters : (Committing(r) => Committing(r)') /\ (SealedUp(r) => SealedUp(r)')
                           /\ (Renaming(r) => Renaming(r)')
    BY <2>1, <2>4, <2>5 DEF Committing, SealedUp, Renaming
  <2> QED BY <2>1, <2>2, <2>6, <2>7, <2>8 DEF IInv, Up
<1>2. CASE Start
  BY <1>2, StartKeeps
<1>3. CASE Stop
  BY <1>3, StopKeeps
<1>4. CASE GenerateNewKey
  BY <1>4, GenerateNewKeyKeeps
<1>5. CASE \E t \in Threads, pass \in Passes : EncryptWallet(t, pass)
  BY <1>5, EncryptWalletKeeps
<1>6. CASE \E t \in Threads : TxnBegin(t)
  BY <1>6, TxnBeginKeeps
<1>7. CASE EncryptKeys
  <2>1. proc = "up"
    BY <1>7, JobIsUp DEF EncryptKeys
  <2> QED BY <1>7, <2>1, EncryptKeysKeeps
<1>8. CASE TxnCommit
  <2>1. proc = "up"
    BY <1>8, JobIsUp DEF TxnCommit
  <2> QED BY <1>8, <2>1, TxnCommitKeeps
<1>9. CASE NewKeyPool
  <2>1. proc = "up"
    BY <1>9, JobIsUp DEF NewKeyPool
  <2> QED BY <1>9, <2>1, NewKeyPoolKeeps
<1>10. CASE RewriteCopy
  BY <1>10, RewriteCopyKeeps
<1>11. CASE RewriteGivesUp
  BY <1>11, RewriteGivesUpKeeps
<1>12. CASE RewriteRemove
  BY <1>12, RewriteRemoveKeeps
<1>13. CASE RewriteRename
  BY <1>13, RewriteRenameKeeps
<1>14. CASE Lock
  BY <1>14, LockKeeps
<1>15. CASE \E pass \in Passes : Unlock(pass)
  BY <1>15, UnlockKeeps
<1>16. CASE \E old, new \in Passes : ChangeWalletPassphrase(old, new)
  BY <1>16, ChangeWalletPassphraseKeeps
<1> QED BY <1>1, <1>2, <1>3, <1>4, <1>5, <1>6, <1>7, <1>8, <1>9, <1>10, <1>11, <1>12, <1>13,
           <1>14, <1>15, <1>16 DEF Next

LEMMA IInvHolds ==
  Faults \cap Unchecked = {} /\ Spec => []IInv
<1>1. Faults \cap Unchecked = {} /\ Init => IInv
  BY InitIInv
<1>2. IInv /\ [Next]_vars => IInv'
  BY StepIInv
<1> QED BY <1>1, <1>2, PTL DEF Spec

(***************************************************************************)
(* The types of the variables of wallet and file.                          *)
(***************************************************************************)
THEOREM TypeCorrect ==
  Faults \cap Unchecked = {} /\ Spec => []TypeOK
<1>1. IInv => TypeOK
  BY IInvImplies
<1> QED BY <1>1, IInvHolds, PTL

(***************************************************************************)
(* No key whose AddKey has returned true is lost from disk, whatever       *)
(* checked call fails and wherever the process stops: EncryptWallet's      *)
(* commit leaves all keys under the one master key that is stored with     *)
(* them, and CDB::Rewrite removes the old file only when the copy has all  *)
(* of it.                                                                  *)
(***************************************************************************)
THEOREM KeysStayOnDisk ==
  Faults \cap Unchecked = {} /\ Spec => []KeysOnDisk
<1>1. IInv => KeysOnDisk
  BY IInvImplies
<1> QED BY <1>1, IInvHolds, PTL

(***************************************************************************)
(* A running wallet has every key it was ever told to keep (LoadWallet,    *)
(* AddKey, EncryptKeys).                                                   *)
(***************************************************************************)
THEOREM KeysStayInWallet ==
  Faults \cap Unchecked = {} /\ Spec => []KeysInWallet
<1>1. IInv => KeysInWallet
  BY IInvImplies
<1> QED BY <1>1, IInvHolds, PTL

(***************************************************************************)
(* No start is refused for plain beside encrypted keys (SetCrypted): the   *)
(* transaction erases every plain record that it replaces.                 *)
(***************************************************************************)
THEOREM FileAlwaysLoads ==
  Faults \cap Unchecked = {} /\ Spec => []FileLoads
<1>1. IInv => FileLoads
  BY IInvImplies
<1> QED BY <1>1, IInvHolds, PTL

(***************************************************************************)
(* The passphrase a successful call has set opens the wallet that the next *)
(* start reads, and no other does, also when two callers have encrypted    *)
(* and one of their records never reached the file (EncryptWallet,         *)
(* ChangeWalletPassphrase, Unlock).                                        *)
(***************************************************************************)
THEOREM PassphraseAlwaysOpens ==
  Faults \cap Unchecked = {} /\ Spec => []PassphraseOpens
<1>1. IInv => PassphraseOpens
  BY IInvImplies
<1> QED BY <1>1, IInvHolds, PTL
=============================================================================
