SPECIFICATION FairSpec
CONSTANTS
    Block <- MCBlock
    Genesis = "G"
    Nil = Nil
    Prev <- MCPrev
    Anc <- MCAnc
    Height <- MCHeight
    ChainTrust <- MCChainTrust
    Tx <- MCTx
    Out <- MCOut
    OutTx <- MCOutTx
    Vin <- MCVin
    Vtx <- MCVtx
    Generated <- MCGenerated
    Sound <- MCBlock
    Claim <- MCClaim
    nCoinbaseMaturity = 2
    MaxCrashes = 0
    MaxFaults = 0
    MaxForced = 0
INVARIANTS
    TipIsStored
    TipHasMostTrust
PROPERTIES
    ImplementsBestChain
CHECK_DEADLOCK FALSE
