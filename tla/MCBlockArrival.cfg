SPECIFICATION FairSpec
CONSTANTS
    Block <- MCBlockArrivals
    Genesis = "G"
    Prev <- MCPrev
    Anc <- MCAnc
    Height <- MCHeight
    Trust <- MCTrust
    Stake <- MCStake
    Kernel <- MCKernel
    Contextual <- MCBlockArrivals
    Connects <- MCConnects
    Signed = {"A2", "B3"}
    Hardened = {"G", "T"}
    Strict = TRUE
    Nil = Nil
    MaxFaults = 1
    MaxRestarts = 1
INVARIANTS
    CheckpointHolds
    OrphanMapsAgree
    OrphansWait
    PendingIsSettled
PROPERTIES
    CheckpointIsFinal
    OrphansLeave
