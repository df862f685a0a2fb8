SPECIFICATION Spec
CONSTANTS
    MaxKey = 3
    MaxMaster = 2
    Passes = {p, q}
    nKeyPool = 1
    Threads = {gui, rpc}
    Faults = {"begin", "put", "commit", "copy", "remove"}
INVARIANTS
    KeysOnDisk
    KeysInWallet
    FileLoads
    PassphraseOpens
