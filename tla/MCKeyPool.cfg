SPECIFICATION Spec
CONSTANTS
    nKeyPool = 1
    Refills = {0, 2}
    MaxKey = 6
INVARIANTS
    PoolReadable
    TakenOnce
    OldKeysRetired
