--------------------------- MODULE WalletEncrypt ---------------------------
(***************************************************************************)
(* The private keys of the wallet between memory and wallet.dat            *)
(* (wallet.cpp, keystore.cpp, walletdb.cpp, db.cpp): generating keys,      *)
(* EncryptWallet with its database transaction and the rewrite of the      *)
(* file, ChangeWalletPassphrase, locking, and loading the file at a start. *)
(*                                                                         *)
(* A key is a number (its place in the order of mapCryptedKeys), a master  *)
(* key too.  A private key encrypted under a master key is the name of     *)
(* that master key; a master key record holds the passphrase under which   *)
(* it is encrypted, and decrypting with another passphrase fails.  The     *)
(* process may stop between any two writes.  Faults names the calls that   *)
(* may fail:                                                               *)
(*    "begin"   TxnBegin             "put"     a write of a key            *)
(*    "commit"  TxnCommit            "copy"    a put into the copy         *)
(*    "remove"  the removal of the old file                                *)
(*    "mkey"    WriteMasterKey in EncryptWallet, whose result is unused    *)
(*    "change"  WriteMasterKey in ChangeWalletPassphrase, likewise         *)
(*    "erase"   an Erase of a plain key in EncryptWallet, likewise         *)
(*    "rename"  the rename that follows the removal, or dying before it    *)
(***************************************************************************)
EXTENDS Integers, FiniteSets, FiniteSetsExt

CONSTANTS
    MaxKey,         \* bound on the number of private keys
    MaxMaster,      \* bound on the number of master keys made
    Passes,         \* passphrases
    nKeyPool,       \* the argument -keypool
    Threads,        \* callers of EncryptWallet: the interface, an RPC thread
    Faults

ASSUME WalletEncryptAssumption ==
    /\ MaxKey \in Nat /\ MaxMaster \in Nat /\ nKeyPool \in Nat
    /\ 0 \notin Passes
    /\ IsFiniteSet(Threads)
    /\ Faults \subseteq {"begin", "put", "commit", "copy", "mkey", "change", "erase",
                     "remove", "rename"}

VARIABLES
    proc,           \* "up", "down", or "corrupt": the load was refused
    mapKeys,        \* plain keys in memory
    mapCryptedKeys, \* encrypted keys in memory: the master key of each, 0 for none
    fUseCrypto,
    vMasterKey,     \* the master key in memory, 0 when locked
    mapMasterKeys,  \* master key records in memory, by id
    file,           \* wallet.dat
    copy,           \* wallet.dat.rewrite
    txn,            \* what pwalletdbEncryption will commit
    call,           \* the master key that each caller past its first test has made
    job,            \* EncryptWallet in the region that holds cs_wallet
    leaked,         \* database handles never closed
    made,           \* master keys made
    added,          \* keys whose AddKey returned true
    told            \* the passphrase the last successful call has set, 0 for none

memory == <<mapKeys, mapCryptedKeys, fUseCrypto, vMasterKey, mapMasterKeys>>
vars == <<proc, memory, file, copy, txn, call, job, leaked, made, added, told>>

Keys == 1 .. MaxKey
Masters == 1 .. MaxMaster
NoRecord == [key |-> 0, pass |-> 0]
Records == [key : Masters, pass : Passes] \cup {NoRecord}

NoFile == [there |-> FALSE, key |-> {}, ckey |-> [k \in Keys |-> 0],
           mkey |-> [i \in Masters |-> NoRecord]]
NewFile == [NoFile EXCEPT !.there = TRUE]
Files == [there : BOOLEAN, key : SUBSET Keys, ckey : [Keys -> 0 .. MaxMaster],
          mkey : [Masters -> Records]]

NoJob == [pc |-> "none", pass |-> 0, key |-> 0, left |-> 0]

\* cs_wallet is free.
Free == proc = "up" /\ job = NoJob

IsLocked == fUseCrypto /\ vMasterKey = 0

May(fault) == fault \in Faults

Stored(records) == {i \in Masters : records[i] # NoRecord}
Crypted(keys) == {k \in Keys : keys[k] # 0}

(***************************************************************************)
(* CWallet::Unlock: the records in the order of their ids, up to one that  *)
(* does not decrypt or whose master key opens the first encrypted key.     *)
(* 0 when the passphrase opens nothing.                                    *)
(***************************************************************************)
Opens(master, keys) ==
    Crypted(keys) = {} \/ keys[Min(Crypted(keys))] = master

Opening(records, keys, pass) ==
    {i \in Stored(records) :
        /\ Opens(records[i].key, keys)
        /\ \A j \in Stored(records) : j <= i => records[j].pass = pass
        /\ \A j \in Stored(records) : j < i => ~Opens(records[j].key, keys)}

MasterFor(records, keys, pass) ==
    IF Opening(records, keys, pass) = {} THEN 0
    ELSE records[Min(Opening(records, keys, pass))].key

(***************************************************************************)
(* Starting.  LoadWallet reads the records in the order of their names,    *)
(* "key" before "ckey": SetCrypted refuses an encrypted key when a plain   *)
(* one is in memory.  A missing file is created.                           *)
(***************************************************************************)
Loaded(f) ==
    /\ mapKeys' = f.key
    /\ mapCryptedKeys' = f.ckey
    /\ fUseCrypto' = (Crypted(f.ckey) # {})
    /\ mapMasterKeys' = f.mkey

Start ==
    /\ proc = "down"
    /\ file' = IF file.there THEN file ELSE NewFile
    /\ proc' = IF file.key # {} /\ Crypted(file.ckey) # {} THEN "corrupt" ELSE "up"
    /\ Loaded(file')
    /\ vMasterKey' = 0
    /\ UNCHANGED <<copy, txn, call, job, leaked, made, added, told>>

\* The process ends, by a crash, a signal or exit(1): memory, the open
\* transaction and the handles are gone.
Dead ==
    /\ proc' = "down"
    /\ mapKeys' = {}
    /\ mapCryptedKeys' = [k \in Keys |-> 0]
    /\ fUseCrypto' = FALSE
    /\ vMasterKey' = 0
    /\ mapMasterKeys' = [i \in Masters |-> NoRecord]
    /\ txn' = NoFile
    /\ call' = [t \in Threads |-> NoRecord]
    /\ job' = NoJob
    /\ leaked' = 0
    /\ UNCHANGED made

Stop ==
    /\ proc = "up"
    /\ job.pc = "rename" => May("rename")
    /\ Dead
    /\ UNCHANGED <<file, copy, added, told>>

(***************************************************************************)
(* CWallet::AddKey: the key enters the store, then the file; it is the     *)
(* caller's only if both succeed.  In an encrypted wallet AddCryptedKey    *)
(* writes it and erases its plain record.                                  *)
(***************************************************************************)
Unused == {k \in Keys : k \notin mapKeys \cup Crypted(mapCryptedKeys) \cup added}

WriteKey(f, k) == [f EXCEPT !.key = @ \cup {k}]

WriteCryptedKey(f, k, master) ==
    [f EXCEPT !.ckey[k] = master, !.key = @ \ {k}]

AddKey(k, written) ==
    /\ ~IsLocked
    /\ written \/ May("put") \/ ~file.there
    /\ written => file.there
    /\ IF fUseCrypto
       THEN /\ mapCryptedKeys' = [mapCryptedKeys EXCEPT ![k] = vMasterKey]
            /\ file' = IF written THEN WriteCryptedKey(file, k, vMasterKey) ELSE file
            /\ UNCHANGED mapKeys
       ELSE /\ mapKeys' = mapKeys \cup {k}
            /\ file' = IF written THEN WriteKey(file, k) ELSE file
            /\ UNCHANGED mapCryptedKeys
    /\ added' = IF written THEN added \cup {k} ELSE added
    /\ UNCHANGED <<proc, fUseCrypto, vMasterKey, mapMasterKeys, copy, txn, call,
                   leaked, made, told>>

\* A key is generated or imported.
GenerateNewKey ==
    /\ Free
    /\ \E k \in Unused, written \in BOOLEAN : AddKey(k, written)
    /\ UNCHANGED job

(***************************************************************************)
(* EncryptWallet.  The test that the wallet is not encrypted, and the new  *)
(* master key, come before cs_wallet is taken.  AppInit2 has given a new   *)
(* wallet its default key before either caller runs.                       *)
(***************************************************************************)
EncryptWallet(t, pass) ==
    /\ proc = "up"
    /\ file.key # {}
    /\ call[t] = NoRecord
    /\ ~fUseCrypto
    /\ made < MaxMaster
    /\ call' = [call EXCEPT ![t] = [key |-> made + 1, pass |-> pass]]
    /\ made' = made + 1
    /\ UNCHANGED <<proc, memory, file, copy, txn, job, leaked, added, told>>

nMasterKeyMaxID == Max(Stored(mapMasterKeys) \cup {0})

\* The record is in memory before TxnBegin; when that fails the handle stays.
TxnBegin(t) ==
    /\ Free
    /\ call[t] # NoRecord
    /\ LET id == nMasterKeyMaxID + 1
           kMasterKey == call[t]
       IN  /\ mapMasterKeys' = [mapMasterKeys EXCEPT ![id] = kMasterKey]
           /\ \/ /\ May("begin") \/ ~file.there
                 /\ leaked' = IF file.there THEN leaked + 1 ELSE leaked
                 /\ UNCHANGED <<txn, job>>
              \/ /\ file.there
                 /\ \E written \in BOOLEAN :
                       /\ written \/ May("mkey")
                       /\ txn' = IF written THEN [file EXCEPT !.mkey[id] = kMasterKey]
                                 ELSE file
                 /\ job' = [pc |-> "keys", pass |-> kMasterKey.pass, key |-> kMasterKey.key,
                            left |-> nKeyPool]
                 /\ UNCHANGED leaked
    /\ call' = [call EXCEPT ![t] = NoRecord]
    /\ UNCHANGED <<proc, mapKeys, mapCryptedKeys, fUseCrypto, vMasterKey, file, copy,
                   made, added, told>>

\* Mutant: the plain record is not erased.
EncryptedKeepsPlain(f, ks, master) ==
    [f EXCEPT !.ckey = [k \in Keys |-> IF k \in ks THEN master ELSE @[k]]]

\* The records of keys ks, encrypted inside the transaction.
Encrypted(f, ks, master) ==
    [f EXCEPT !.ckey = [k \in Keys |-> IF k \in ks THEN master ELSE @[k]],
              !.key = @ \ ks]

\* Mutant: the encrypted keys are written outside the transaction.
EncryptKeysUnlogged ==
    /\ job.pc = "keys"
    /\ Crypted(mapCryptedKeys) = {} /\ ~fUseCrypto
    /\ fUseCrypto' = TRUE
    /\ mapCryptedKeys' = [k \in Keys |-> IF k \in mapKeys THEN job.key ELSE 0]
    /\ file' = Encrypted(file, mapKeys, job.key)
    /\ txn' = Encrypted(txn, mapKeys, job.key)
    /\ mapKeys' = {}
    /\ job' = [job EXCEPT !.pc = "commit"]
    /\ UNCHANGED <<proc, vMasterKey, mapMasterKeys, call, leaked, made, copy, added, told>>

\* Mutant: the plain keys are cleared before they are encrypted.
EncryptKeysCleared ==
    /\ job.pc = "keys"
    /\ Crypted(mapCryptedKeys) = {} /\ ~fUseCrypto
    /\ fUseCrypto' = TRUE
    /\ mapKeys' = {}
    /\ job' = [job EXCEPT !.pc = "commit"]
    /\ UNCHANGED <<proc, mapCryptedKeys, vMasterKey, mapMasterKeys, call, leaked, made,
                   file, txn, copy, added, told>>

\* A wallet that another caller has encrypted meanwhile, or a failing write,
\* aborts the transaction and ends the process.
EncryptKeys ==
    /\ job.pc = "keys"
    /\ \/ /\ Crypted(mapCryptedKeys) = {} /\ ~fUseCrypto
          /\ fUseCrypto' = TRUE
          /\ mapCryptedKeys' = [k \in Keys |-> IF k \in mapKeys THEN job.key ELSE 0]
          /\ \/ txn' = Encrypted(txn, mapKeys, job.key)
             \/ /\ May("erase")
                /\ \E left \in SUBSET txn.key :
                      txn' = [Encrypted(txn, mapKeys, job.key) EXCEPT !.key = left]
          /\ mapKeys' = {}
          /\ job' = [job EXCEPT !.pc = "commit"]
          /\ UNCHANGED <<proc, vMasterKey, mapMasterKeys, call, leaked, made>>
       \/ /\ fUseCrypto \/ May("put")
          /\ Dead
    /\ UNCHANGED <<file, copy, added, told>>

\* After the commit the new passphrase is tried, and the key pool renewed if
\* it opened the wallet.
TxnCommit ==
    /\ job.pc = "commit"
    /\ \/ /\ file' = txn
          /\ txn' = NoFile
          /\ vMasterKey' = MasterFor(mapMasterKeys, mapCryptedKeys, job.pass)
          /\ job' = [job EXCEPT !.pc = IF vMasterKey' = 0 THEN "copy" ELSE "pool"]
          /\ UNCHANGED <<proc, mapKeys, mapCryptedKeys, fUseCrypto, mapMasterKeys,
                         call, leaked, made>>
       \/ /\ May("commit")
          /\ UNCHANGED file
          /\ Dead
    /\ UNCHANGED <<copy, added, told>>

\* NewKeyPool: a key that cannot be added leaves EncryptWallet by an exception.
NewKeyPool ==
    /\ job.pc = "pool"
    /\ \/ /\ job.left > 0
          /\ \E k \in Unused, written \in BOOLEAN :
                /\ AddKey(k, written)
                /\ job' = IF written THEN [job EXCEPT !.left = @ - 1] ELSE NoJob
       \/ /\ job.left > 0
          /\ IsLocked
          /\ job' = NoJob
          /\ UNCHANGED <<proc, memory, file, copy, txn, call, leaked, made, added, told>>
       \/ /\ job.left = 0 \/ Unused = {}    \* the second by the bound only
          /\ vMasterKey' = 0
          /\ job' = [job EXCEPT !.pc = "copy"]
          /\ UNCHANGED <<proc, mapKeys, mapCryptedKeys, fUseCrypto, mapMasterKeys, file,
                         copy, txn, call, leaked, made, added, told>>

\* EncryptWallet returns true, whatever Rewrite has returned.
Return ==
    /\ told' = job.pass
    /\ job' = NoJob

(***************************************************************************)
(* CDB::Rewrite.  It waits until no handle is open, or gives up when the   *)
(* program shuts down.  The copy is created or, when an earlier one is     *)
(* there, opened: DB_NOOVERWRITE keeps the records it holds, and           *)
(* DB_KEYEXIST, a negative number, does not count as a failure.  ks and is *)
(* are the records copied when the process died or a put failed.           *)
(***************************************************************************)
Put(c, f, ks, is) ==
    [there |-> TRUE,
     key   |-> c.key \cup (f.key \cap ks),
     ckey  |-> [k \in Keys |-> IF c.ckey[k] = 0 /\ k \in ks THEN f.ckey[k] ELSE c.ckey[k]],
     mkey  |-> [i \in Masters |->
                    IF c.mkey[i] = NoRecord /\ i \in is THEN f.mkey[i] ELSE c.mkey[i]]]

RewriteCopy ==
    /\ job.pc = "copy"
    /\ leaked = 0
    /\ \/ /\ copy' = Put(copy, file, Keys, Masters)
          /\ job' = [job EXCEPT !.pc = "remove"]
          /\ UNCHANGED <<proc, memory, txn, call, leaked, made, told>>
       \/ \E ks \in SUBSET Keys, is \in SUBSET Masters :
             /\ copy' = Put(copy, file, ks, is)
             /\ \/ May("copy") /\ Return /\ UNCHANGED <<proc, memory, txn, call, leaked, made>>
                \/ Dead /\ UNCHANGED told
    /\ UNCHANGED <<file, added>>

\* fShutdown is set.
RewriteGivesUp ==
    /\ job.pc = "copy"
    /\ Return
    /\ UNCHANGED <<proc, memory, file, copy, txn, call, leaked, made, added>>

\* Where the old file cannot be removed, the rename fails as well.
RewriteRemove ==
    /\ job.pc = "remove"
    /\ \/ /\ file' = NoFile
          /\ job' = [job EXCEPT !.pc = "rename"]
          /\ UNCHANGED told
       \/ May("remove") /\ Return /\ UNCHANGED file
    /\ UNCHANGED <<proc, memory, copy, txn, call, leaked, made, added>>

RewriteRename ==
    /\ job.pc = "rename"
    /\ \/ file' = copy /\ copy' = NoFile
       \/ May("rename") /\ UNCHANGED <<file, copy>>
    /\ Return
    /\ UNCHANGED <<proc, memory, txn, call, leaked, made, added>>

(***************************************************************************)
(* Locking takes the lock of the key store only; unlocking and changing    *)
(* the passphrase take cs_wallet.                                          *)
(***************************************************************************)
Lock ==
    /\ proc = "up"
    /\ fUseCrypto
    /\ vMasterKey' = 0
    /\ UNCHANGED <<proc, mapKeys, mapCryptedKeys, fUseCrypto, mapMasterKeys, file, copy,
                   txn, call, job, leaked, made, added, told>>

Unlock(pass) ==
    /\ Free
    /\ IsLocked
    /\ vMasterKey' = MasterFor(mapMasterKeys, mapCryptedKeys, pass)
    /\ UNCHANGED <<proc, mapKeys, mapCryptedKeys, fUseCrypto, mapMasterKeys, file, copy,
                   txn, call, job, leaked, made, added, told>>

\* Mutant: the new record is not written.
ChangePassphraseUnsaved(old, new) ==
    /\ Free
    /\ fUseCrypto
    /\ LET ids == Opening(mapMasterKeys, mapCryptedKeys, old)
       IN  /\ ids # {}
           /\ mapMasterKeys' = [mapMasterKeys EXCEPT ![Min(ids)].pass = new]
    /\ told' = new
    /\ UNCHANGED <<proc, mapKeys, mapCryptedKeys, fUseCrypto, vMasterKey, file, copy,
                   txn, call, job, leaked, made, added>>

\* The old passphrase must open a record, which is encrypted anew in memory
\* and written; the call is a success also when the write fails.  Without
\* the file it ends in an exception.
ChangeWalletPassphrase(old, new) ==
    /\ Free
    /\ fUseCrypto
    /\ LET ids == Opening(mapMasterKeys, mapCryptedKeys, old)
           id  == Min(ids)
           records == [mapMasterKeys EXCEPT ![id].pass = new]
       IN  IF ids = {}
           THEN vMasterKey' = 0 /\ UNCHANGED <<mapMasterKeys, file, told>>
           ELSE /\ vMasterKey' = IF IsLocked THEN 0 ELSE mapMasterKeys[id].key
                /\ mapMasterKeys' = records
                /\ \/ file.there /\ file' = [file EXCEPT !.mkey[id] = records[id]]
                   \/ (May("change") \/ ~file.there) /\ UNCHANGED file
                /\ told' = IF file.there THEN new ELSE told
    /\ UNCHANGED <<proc, mapKeys, mapCryptedKeys, fUseCrypto, copy, txn, call, job,
                   leaked, made, added>>

Init ==
    /\ proc = "down"
    /\ mapKeys = {}
    /\ mapCryptedKeys = [k \in Keys |-> 0]
    /\ fUseCrypto = FALSE
    /\ vMasterKey = 0
    /\ mapMasterKeys = [i \in Masters |-> NoRecord]
    /\ file = NoFile
    /\ copy = NoFile
    /\ txn = NoFile
    /\ call = [t \in Threads |-> NoRecord]
    /\ job = NoJob
    /\ leaked = 0
    /\ made = 0
    /\ added = {}
    /\ told = 0

Next ==
    \/ Start
    \/ Stop
    \/ GenerateNewKey
    \/ \E t \in Threads, pass \in Passes : EncryptWallet(t, pass)
    \/ \E t \in Threads : TxnBegin(t)
    \/ EncryptKeys
    \/ TxnCommit
    \/ NewKeyPool
    \/ RewriteCopy
    \/ RewriteGivesUp
    \/ RewriteRemove
    \/ RewriteRename
    \/ Lock
    \/ \E pass \in Passes : Unlock(pass)
    \/ \E old, new \in Passes : ChangeWalletPassphrase(old, new)

Spec == Init /\ [][Next]_vars

----------------------------------------------------------------------------
(***************************************************************************)
(* The types of the variables.                                             *)
(***************************************************************************)
TypeOK ==
    /\ proc \in {"up", "down", "corrupt"}
    /\ mapKeys \in SUBSET Keys
    /\ mapCryptedKeys \in [Keys -> 0 .. MaxMaster]
    /\ fUseCrypto \in BOOLEAN
    /\ vMasterKey \in 0 .. MaxMaster
    /\ mapMasterKeys \in [Masters -> Records]
    /\ {file, copy, txn} \subseteq Files
    /\ call \in [Threads -> Records]
    /\ job \in [pc : {"none", "keys", "commit", "pool", "copy", "remove", "rename"},
                pass : Passes \cup {0}, key : 0 .. MaxMaster, left : 0 .. nKeyPool]
    /\ leaked \in Nat
    /\ made \in 0 .. MaxMaster
    /\ added \in SUBSET Keys
    /\ told \in Passes \cup {0}

\* The keys that a start from file f can use, given the right passphrase.
Usable(f) ==
    f.key \cup {k \in Crypted(f.ckey) :
                    \E pass \in Passes : MasterFor(f.mkey, f.ckey, pass) = f.ckey[k]}

(***************************************************************************)
(* Whatever call fails and wherever the process stops, a key the wallet    *)
(* was told it has is on disk, plain or under a master key that is stored  *)
(* beside it and that some passphrase reaches (EncryptWallet, CDB::Rewrite:*)
(* walletdb.cpp, "losing keys is considered a catastrophic error").        *)
(***************************************************************************)
KeysOnDisk == added \subseteq Usable(file) \cup Usable(copy)

(***************************************************************************)
(* The same of the running wallet: after any start it has every key it was *)
(* ever told to keep (LoadWallet).                                         *)
(***************************************************************************)
KeysInWallet == proc = "up" => added \subseteq mapKeys \cup Crypted(mapCryptedKeys)

(***************************************************************************)
(* A start is never refused for a file that holds plain beside encrypted   *)
(* keys, which SetCrypted would reject (WriteCryptedKey, Rewrite).         *)
(***************************************************************************)
FileLoads == proc # "corrupt"

(***************************************************************************)
(* When a call has told the user that a passphrase is set, the wallet that *)
(* the next start reads opens with it and with no other (EncryptWallet,    *)
(* ChangeWalletPassphrase).                                                *)
(***************************************************************************)
PassphraseOpens ==
    (file.there /\ told # 0) =>
        \A pass \in Passes : (MasterFor(file.mkey, file.ckey, pass) # 0) <=> pass = told
============================================================================
