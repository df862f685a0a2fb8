SPECIFICATION Spec
CONSTANTS
    Height = 7
    Start = 6
    ProofOfWork <- MCMixed
    StakeOf <- MCStakeOf
    Limit = 2
    MaxKnown = 4
    Recent = 2
    Estimate = 3
    TwoMinutes = 1
    MaxReconnect = 1
INVARIANTS
    OrphansAreLatest
PROPERTY
    CatchesUp
CHECK_DEADLOCK FALSE
