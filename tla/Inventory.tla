----------------------------- MODULE Inventory -----------------------------
(***************************************************************************)
(* Who is asked for a transaction or block that several peers announce,    *)
(* and when.  AskFor queues a request at the peer that made the            *)
(* announcement, for a time two minutes after the last one planned for the *)
(* same hash at any peer; SendMessages of the peer, whenever the message   *)
(* thread comes to it, sends the requests that are due.                    *)
(*                                                                         *)
(* Times are kept relative to now, so that the clock needs no end: an      *)
(* entry of mapAskFor counts down to 0 and stays due, an entry of          *)
(* mapAlreadyAskedFor counts down to -Retry, below which it makes no       *)
(* difference (0 - Retry is also the missing entry).  The microseconds     *)
(* that keep equal times in order, and the one second by which AskFor is   *)
(* ahead of SendMessages, are left out.                                    *)
(***************************************************************************)
EXTENDS InventoryState, Integers, FiniteSets, FiniteSetsExt

ASSUME InventoryAssumption ==
    /\ Honest \subseteq Peer
    /\ Retry \in Nat \ {0} /\ MaxAhead \in Nat
    /\ MaxAnnounce \in Nat /\ MaxDisconnect \in Nat /\ fPrompt \in BOOLEAN

vars == <<have, mapAlreadyAskedFor, mapAskFor, asked, announced, sinceAsked, disconnects>>

\* Each retry is 2 minutes after the last.
RequestTime(i) == Max({mapAlreadyAskedFor[i] + Retry, 0})

Due(p) == {e \in mapAskFor[p] : e[1] = 0}

\* Mutant of Wanted: an item that another peer was asked for is skipped.
WantedOnce(p) ==
    {i \in {e[2] : e \in Due(p)} \ have : \A q \in Peer : i \notin asked[q]}

Wanted(p) == {e[2] : e \in Due(p)} \ have

Prompt == fPrompt => \A p \in Peer : Due(p) = {}

\* The inv message.
ReceiveInv(p, i) ==
    /\ Prompt
    /\ announced[p][i] < MaxAnnounce
    /\ announced' = [announced EXCEPT ![p][i] = @ + 1]
    /\ \/ /\ i \notin have
          /\ RequestTime(i) <= MaxAhead
          /\ mapAlreadyAskedFor' = [mapAlreadyAskedFor EXCEPT ![i] = RequestTime(i)]
          /\ mapAskFor' = [mapAskFor EXCEPT ![p] = @ \cup {<<RequestTime(i), i>>}]
       \/ /\ i \in have
          /\ UNCHANGED <<mapAlreadyAskedFor, mapAskFor>>
    /\ UNCHANGED <<have, asked, sinceAsked, disconnects>>

\* SendMessages, the getdata message.
SendMessages(p) ==
    /\ Due(p) # {}
    /\ mapAskFor' = [mapAskFor EXCEPT ![p] = @ \ Due(p)]
    /\ asked' = [asked EXCEPT ![p] = @ \cup Wanted(p)]
    /\ mapAlreadyAskedFor' = [i \in Inv |-> IF i \in Wanted(p) THEN 0 ELSE mapAlreadyAskedFor[i]]
    /\ sinceAsked' = [i \in Inv |-> IF i \in Wanted(p) THEN 0 ELSE sinceAsked[i]]
    /\ UNCHANGED <<have, announced, disconnects>>

\* Mutant of Receive: the answer is taken for one that was not asked for.
ReceiveIgnored(p, i) ==
    /\ p \in Honest
    /\ i \in asked[p]
    /\ UNCHANGED vars

\* The tx or block message of an honest peer: accepted unless known already.
Receive(p, i) ==
    /\ p \in Honest
    /\ i \in asked[p]
    /\ asked' = [asked EXCEPT ![p] = @ \ {i}]
    /\ have' = have \cup {i}
    /\ mapAlreadyAskedFor' =
            IF i \in have THEN mapAlreadyAskedFor
            ELSE [mapAlreadyAskedFor EXCEPT ![i] = 0 - Retry]
    /\ UNCHANGED <<mapAskFor, announced, sinceAsked, disconnects>>

\* The connection to p is lost, with its queue; a new one starts from nothing.
Disconnect(p) ==
    /\ disconnects < MaxDisconnect
    /\ disconnects' = disconnects + 1
    /\ mapAskFor' = [mapAskFor EXCEPT ![p] = {}]
    /\ asked' = [asked EXCEPT ![p] = {}]
    /\ announced' = [announced EXCEPT ![p] = [i \in Inv |-> 0]]
    /\ UNCHANGED <<have, mapAlreadyAskedFor, sinceAsked>>

Less(t, low) == IF t > low THEN t - 1 ELSE low

Tick ==
    /\ Prompt
    /\ mapAlreadyAskedFor' = [i \in Inv |-> Less(mapAlreadyAskedFor[i], 0 - Retry)]
    /\ mapAskFor' = [p \in Peer |-> {<<Less(e[1], 0), e[2]>> : e \in mapAskFor[p]}]
    /\ sinceAsked' = [i \in Inv |-> IF sinceAsked[i] < Retry THEN sinceAsked[i] + 1 ELSE Retry]
    /\ UNCHANGED <<have, asked, announced, disconnects>>

Init ==
    /\ have = {}
    /\ mapAlreadyAskedFor = [i \in Inv |-> 0 - Retry]
    /\ mapAskFor = [p \in Peer |-> {}]
    /\ asked = [p \in Peer |-> {}]
    /\ announced = [p \in Peer |-> [i \in Inv |-> 0]]
    /\ sinceAsked = [i \in Inv |-> Retry]
    /\ disconnects = 0

Next ==
    \/ \E p \in Peer, i \in Inv : ReceiveInv(p, i) \/ Receive(p, i)
    \/ \E p \in Peer : SendMessages(p) \/ Disconnect(p)
    \/ Tick

\* Time passes, the message thread comes round to every peer, and honest peers
\* answer.
Spec ==
    /\ Init /\ [][Next]_vars
    /\ WF_vars(Tick)
    /\ \A p \in Peer : WF_vars(SendMessages(p))
    /\ \A p \in Honest, i \in Inv : WF_vars(Receive(p, i))

(***************************************************************************)
(* Properties.                                                             *)
(***************************************************************************)
\* The type of the state, and the range of the relative times.
TypeOK ==
    /\ have \subseteq Inv
    /\ mapAlreadyAskedFor \in [Inv -> 0 - Retry .. MaxAhead]
    /\ mapAskFor \in [Peer -> SUBSET ((0 .. MaxAhead) \X Inv)]
    /\ asked \in [Peer -> SUBSET Inv]
    /\ announced \in [Peer -> [Inv -> 0 .. MaxAnnounce]]
    /\ sinceAsked \in [Inv -> 0 .. Retry]
    /\ disconnects \in 0 .. MaxDisconnect

\* A silent peer that announces first does not keep the node from getting an
\* item: an announcement by an honest peer is followed by the item, or by the
\* loss of the connection.
HonestIsHeard ==
    \A p \in Honest, i \in Inv :
        announced[p][i] > 0 ~> (i \in have \/ announced[p][i] = 0)

\* "Each retry is 2 minutes after the last" (AskFor): an item that nobody has
\* delivered is not asked for again, of anybody, within Retry.
RetriesApart ==
    [][\A p \in Peer : SendMessages(p) =>
            \A i \in Wanted(p) : sinceAsked[i] >= Retry]_vars
=============================================================================
