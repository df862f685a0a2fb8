SPECIFICATION LiveSpec
CONSTANTS
    Addrs = {a, b}
    Openers = {conn, addnode}
    nMaxOutbound = 2
    nMaxInbound = 1
    MaxNodes = 2
    EarlyEnd = FALSE
INVARIANTS
    NoneFreedInUse
    CountIsUsers
    OutboundLimit
PROPERTIES
    EndedAreDeleted
