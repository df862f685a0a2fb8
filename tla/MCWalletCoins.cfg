SPECIFICATION Spec
CONSTANTS
    Tx <- MCTx
    Vin <- MCVin
    Mine <- MCMine
    Payment <- MCPayment
    CoinStake = {"stake"}
    Block = {"G", "F", "A", "A2", "S", "S2", "B", "B2", "B3", "B4"}
    NoBlock = NoBlock
    Path <- MCPath
    BlockTx <- MCBlockTx
    Genesis = "G"
    Maturity = 2
INVARIANTS
    ChainSpentIsMarked
    BlockIsRecorded
    MarksHaveSpenders
PROPERTIES
    StartHeals
