SPECIFICATION Spec
CONSTANTS
    Block <- MCBlock
    Genesis = "G"
    Nil = Nil
    Prev <- MCPrev
    Anc <- MCAnc
    Height <- MCHeight
    ChainTrust <- MCChainTrust
    Tx <- MCTx
    Out <- MCOut
    OutTx <- MCOutTx
    Vin <- MCVin
    Vtx <- MCVtx
    Generated <- MCGenerated
    Sound <- MCBlock
    Claim <- MCClaim
    nCoinbaseMaturity = 2
    MaxCrashes = 1
    MaxFaults = 1
    MaxForced = 1
INVARIANTS
    StoreIsItsChain
    StoreIsValid
    LinksAreStored
PROPERTIES
    StoreMovesUp
CHECK_DEADLOCK FALSE
