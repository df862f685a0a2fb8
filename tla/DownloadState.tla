--------------------------- MODULE DownloadState ---------------------------
(***************************************************************************)
(* A client, a server and the messages between them, and what holds of     *)
(* them.  The steps are in BlockDownload, with what a block stands for.    *)
(***************************************************************************)
EXTENDS Naturals

CONSTANTS
    Height,         \* the server's chain ends here at last
    Start,          \* and here when the client connects
    ProofOfWork,    \* heights with a proof-of-work block
    StakeOf,        \* StakeOf[h]: the height of the coin that block h stakes
    Limit,          \* blocks in an answer to getblocks (500)
    MaxKnown,       \* entries of setInventoryKnown (SendBufferSize() / 1000)
    Recent,         \* blocks within nStakeMinAge of the last one
    Estimate,       \* GetTotalBlocksEstimate: below, it is the initial download
    TwoMinutes,     \* ticks of the clock in the two minutes of AskFor
    MaxReconnect    \* bound on lost connections

VARIABLES
    best,           \* client: nBestHeight
    orphans,        \* client: mapOrphanBlocks
    askFor,         \* client: requests of mapAskFor whose time has come, in its order
    later,          \* client: its other requests, each with the ticks it has to wait
    lastAsked,      \* client: mapAlreadyAskedFor, by the ticks that are left until two
                    \* minutes after the time in it
    lastGet,        \* client: <<pindexLastGetBlocksBegin, hashLastGetBlocksEnd>>
    tip,            \* server: nBestHeight
    known,          \* server: setInventoryKnown, oldest first
    toSend,         \* server: vInventoryToSend
    hashContinue,   \* server
    toServer,       \* messages on their way
    toClient,
    reconnects,
    hurried         \* history: a connection was made again within two minutes of the
                    \* time of a request for a block that is still missing

\* During the initial download the blocks of a batch come in their order: only
\* what the server announced outside of a batch, as its last proof-of-work block,
\* as its latest or as a new one, can be an orphan (ProcessBlock, getblocks,
\* getdata).  The holding area has no limit of its own.  A connection made again
\* within two minutes breaks this: mapAlreadyAskedFor outlives the requests that
\* were lost, and AskFor puts their blocks behind the ones that follow them.
OrphansAreLatest ==
    best < Estimate /\ ~hurried =>
        \A h \in orphans :
            \/ h >= Start
            \/ h \in ProofOfWork /\ \A p \in ProofOfWork : p <= Start => p <= h
=============================================================================
