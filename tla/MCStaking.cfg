SPECIFICATION Spec
CONSTANTS
    c1 = c1  c2 = c2  p = p  x = x
    Coin <- MCCoin
    Tx <- MCTx
    Vin <- MCVin
    TxTime <- MCTxTime
    TxFee <- MCTxFee
    Payment = {p}
    nMaxStakeSearchInterval = 2
    Drift = 2
    MaxTime = 2
    MaxBlocks = 3
INVARIANTS FeesAreEarned 
