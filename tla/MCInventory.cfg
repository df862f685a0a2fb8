SPECIFICATION Spec
CONSTANTS
    Inv = {x}
    Peer = {p, q, r}
    Honest = {q}
    Retry = 2
    MaxAhead = 6
    MaxAnnounce = 2
    MaxDisconnect = 1
    fPrompt = FALSE
INVARIANTS
    NothingForgotten
PROPERTY
    HonestIsHeard
