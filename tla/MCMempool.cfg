SPECIFICATION FairSpec
CONSTANTS
    Block <- MCBlock
    Genesis = "G"
    Prev <- MCPrev
    Anc <- MCAnc
    Height <- MCHeight
    Tx <- MCTx
    Out <- MCOut
    OutTx <- MCOutTx
    Vin <- MCVin
    Generated = {"coinbase"}
    BlockTx <- MCBlockTx
    Nil = Nil
    Standard <- MCTx
    Payable <- MCTx
    Free = {"next"}
    Large = {}
    Mine = {"coinbase", "next", "own", "rival"}
    Supporting <- MCSupporting
    nCoinbaseMaturity = 1
    MAX_ORPHAN_TRANSACTIONS = 2
    MaxReorgs = 1
    MaxRestarts = 1
INVARIANTS
    PoolIndexed
    PoolUnconfirmed
    PoolConnects
    OrphansIndexed
PROPERTIES
    ReorgDropsConflicts
    ThreadsFinish
