--------------------------- MODULE InventoryState ---------------------------
(***************************************************************************)
(* The requests of a node to its peers, and what holds of them.  The steps *)
(* are in Inventory.                                                       *)
(***************************************************************************)
EXTENDS Integers

CONSTANTS
    Inv,            \* hashes of transactions and blocks
    Peer,
    Honest,         \* peers that answer, with what they announced
    Retry,          \* two minutes
    MaxAhead,       \* bound: how far into the future a request may be planned
    MaxAnnounce,    \* bound on the announcements of one item by one peer
    MaxDisconnect,  \* bound on lost connections
    fPrompt         \* a request goes out at once when it is due

VARIABLES
    have,               \* items the node has: AlreadyHave
    mapAlreadyAskedFor, \* [Inv -> time of the last request, planned or sent]
    mapAskFor,          \* [Peer -> set of <<time, item>>]
    asked,              \* [Peer -> items in a getdata on its way or lost]
    announced,          \* [Peer -> [Inv -> number of announcements]]
    sinceAsked,         \* [Inv -> time since the last getdata, up to Retry]
    disconnects

\* No request is forgotten: what a peer announced over the connection it still
\* has, and the node has not got, is queued at that peer or was asked of it, in
\* whatever way requests to other peers move the times (AskFor, SendMessages).
NothingForgotten ==
    \A p \in Peer, i \in Inv :
        announced[p][i] > 0 /\ i \notin have =>
            i \in asked[p] \/ \E e \in mapAskFor[p] : e[2] = i
=============================================================================
