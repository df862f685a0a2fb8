--------------------------- MODULE BlockDownload ---------------------------
(***************************************************************************)
(* A node that downloads the chain of another one: getblocks, inv, getdata *)
(* and block messages between a client and a server, over a connection     *)
(* that keeps their order.  The server announces its chain in batches; the *)
(* client asks for the next batch because of what it is sent at the end of *)
(* the one before, an announcement it can do nothing with but ask.         *)
(*                                                                         *)
(* Abstractions: the chain is one branch and a block is its height, 0 is   *)
(* the genesis block and also uint256(0), a getblocks without a stop.      *)
(* Blocks are valid; what the client may not be able to check yet is the   *)
(* stake of a proof-of-stake block, while it lacks the block with the coin *)
(* that is staked.  Times are relative to the clock, which may tick at any *)
(* moment; TwoMinutes is the time that AskFor keeps between two requests   *)
(* for the same block, whatever connection they were made on.              *)
(***************************************************************************)
EXTENDS DownloadState, Naturals, Sequences, FiniteSets, SequencesExt, FiniteSetsExt

ASSUME DownloadAssumption ==
    /\ Height \in Nat /\ Start \in 0 .. Height
    /\ 0 \in ProofOfWork /\ ProofOfWork \subseteq 0 .. Height
    /\ StakeOf \in [0 .. Height -> 0 .. Height]
    /\ \A h \in (0 .. Height) \ ProofOfWork : StakeOf[h] < h
    /\ {Limit, MaxKnown, TwoMinutes} \subseteq Nat \ {0}
    /\ {Recent, Estimate, MaxReconnect} \subseteq Nat

client == <<best, orphans>>
requests == <<askFor, later, lastAsked>>
session == <<requests, lastGet, known, toSend, hashContinue, toServer, toClient>>
vars == <<client, session, tip, reconnects, hurried>>

\* base, taken through op by the elements of s in their order.
InOrder(op(_, _), base, s) ==
    LET f[i \in 0 .. Len(s)] == IF i = 0 THEN base ELSE op(f[i - 1], s[i])
    IN  f[Len(s)]

\* The elements of s that are not in S, in their order.
Without(s, S) ==
    InOrder(LAMBDA rest, h : IF h \in S THEN rest ELSE Append(rest, h), << >>, s)

(***************************************************************************)
(* Client.                                                                 *)
(***************************************************************************)
Had == 0 .. best \cup orphans

\* GetOrphanRoot: the first block of the orphan chain that ends in h.
GetOrphanRoot(h) == Min({r \in 0 .. h : \A i \in r .. h - 1 : i \in orphans})

\* What a handler of the client gathers: its requests to ask for, the last
\* getblocks and the messages it sends.
PushGetBlocks(c, begin, end) ==
    IF c.last = <<begin, end>> THEN c
    ELSE [c EXCEPT !.last = <<begin, end>>,
                   !.out = Append(@, [type |-> "getblocks", begin |-> begin, end |-> end])]

\* A request is for now, or for two minutes after the one before it.
AskFor(c, h) ==
    [c EXCEPT !.ask = IF c.asked[h] = 0 THEN Append(@, h) ELSE @,
              !.later = IF c.asked[h] = 0 THEN @
                        ELSE @ \cup {[block |-> h, wait |-> c.asked[h]]},
              !.asked[h] = @ + TwoMinutes]

Gathered ==
    [ask |-> askFor, later |-> later, asked |-> lastAsked, last |-> lastGet, out |-> << >>]

Finish(c) ==
    /\ askFor' = c.ask /\ later' = c.later /\ lastAsked' = c.asked
    /\ lastGet' = c.last
    /\ toServer' = toServer \o c.out

\* The inv message.
OnInv(inv) ==
    LET Handle(c, i) ==
            IF inv[i] \notin Had THEN AskFor(c, inv[i])
            ELSE IF inv[i] \in orphans
                 THEN PushGetBlocks(c, best, GetOrphanRoot(inv[i]))
            ELSE IF i = Len(inv) THEN PushGetBlocks(c, inv[i], 0)
            ELSE c
    IN  /\ Finish(InOrder(Handle, Gathered, [i \in 1 .. Len(inv) |-> i]))
        /\ UNCHANGED client

\* CheckProofOfStake finds the coin only in a block the client has.
StakeKnown(h) == h \in ProofOfWork \/ StakeOf[h] <= best

\* Mutant of IsInitialBlockDownload: the estimate is not looked at.
IsInitialBlockDownloadNever == FALSE

IsInitialBlockDownload == best < Estimate

\* ProcessBlock of a block without its parent.
OnOrphan(h) ==
    LET root == GetOrphanRoot(h)
        pushed == PushGetBlocks(Gathered, best, root)
        wanting == IF IsInitialBlockDownload THEN pushed ELSE AskFor(pushed, root - 1)
    IN  /\ orphans' = orphans \cup {h}
        /\ Finish([wanting EXCEPT !.asked[h] = 0])
        /\ UNCHANGED best

\* ProcessBlock of the next block, with the orphans that were waiting for it.
OnNext(h) ==
    /\ best' = Max({r \in h .. Height : \A i \in h + 1 .. r : i \in orphans})
    /\ orphans' = {o \in orphans : o > best'}
    /\ lastAsked' = [lastAsked EXCEPT ![h] = 0]
    /\ UNCHANGED <<askFor, later, lastGet, toServer>>

\* The block message; an accepted block is taken out of mapAlreadyAskedFor.
OnBlock(h) ==
    \/ /\ h \in Had \/ ~StakeKnown(h)
       /\ UNCHANGED <<client, requests, lastGet, toServer>>
    \/ /\ h \notin Had /\ StakeKnown(h)
       /\ IF h = best + 1 THEN OnNext(h) ELSE OnOrphan(h)

ClientReceive ==
    /\ toClient # << >>
    /\ LET msg == Head(toClient)
       IN  \/ msg.type = "inv" /\ OnInv(msg.inv)
           \/ msg.type = "block" /\ OnBlock(msg.block)
    /\ toClient' = Tail(toClient)
    /\ UNCHANGED <<known, toSend, hashContinue, tip, reconnects, hurried>>

\* SendMessages of the client: getdata for what is due and not there yet.
ClientSend ==
    /\ askFor # << >>
    /\ LET wanted == Without(askFor, Had)
       IN  /\ toServer' = IF wanted = << >> THEN toServer
                          ELSE Append(toServer, [type |-> "getdata", inv |-> wanted])
           /\ lastAsked' = [h \in 0 .. Height |->
                               IF Contains(wanted, h) THEN TwoMinutes ELSE lastAsked[h]]
    /\ askFor' = << >>
    /\ UNCHANGED <<client, later, lastGet, known, toSend, hashContinue, toClient>>
    /\ UNCHANGED <<tip, reconnects, hurried>>

\* Time goes by: requests become due, those of the same time in any order.
Tick ==
    /\ \E due \in SetToSeqs({r.block : r \in {x \in later : x.wait = 1}}) :
          askFor' = askFor \o due
    /\ later' = {[block |-> r.block, wait |-> r.wait - 1] : r \in {x \in later : x.wait # 1}}
    /\ lastAsked' = [h \in 0 .. Height |-> IF lastAsked[h] = 0 THEN 0 ELSE lastAsked[h] - 1]
    /\ UNCHANGED <<client, lastGet, known, toSend, hashContinue, toServer, toClient>>
    /\ UNCHANGED <<tip, reconnects, hurried>>

(***************************************************************************)
(* Server.                                                                 *)
(***************************************************************************)
\* PushInventory, of each of the sequence s.
PushInventory(s) == toSend \o Without(s, Range(known))

\* The getblocks message: announce from begin on, up to the limit or the end.
OnGetBlocks(begin, end) ==
    LET stops == end \in begin + 1 .. tip
        last == Min({tip, begin + Limit} \cup (IF stops THEN {end - 1} ELSE {}))
        batch == [i \in 1 .. last - begin |-> begin + i]
        atEnd == stops /\ last = end - 1 /\ last < begin + Limit
        latest == IF atEnd /\ end # tip /\ end + Recent > tip THEN <<tip>> ELSE << >>
    IN  /\ toSend' = PushInventory(batch \o latest)
        /\ hashContinue' = IF last = begin + Limit THEN last ELSE hashContinue
        /\ UNCHANGED toClient

\* GetLastBlockIndex(pindexBest, false).
LastProofOfWork == Max({h \in ProofOfWork : h <= tip})

\* Mutant of Trigger: nothing follows the last block of a batch.
TriggerNot(inv, i) == << >>

\* Trigger them to send a getblocks request for the next batch of inventory.
Trigger(inv, i) ==
    IF inv[i] = hashContinue /\ \A j \in 1 .. i - 1 : inv[j] # hashContinue
    THEN <<[type |-> "inv", inv |-> <<LastProofOfWork>>]>> ELSE << >>

OnGetData(inv) ==
    /\ toClient' = InOrder(LAMBDA out, i :
                        Append(out, [type |-> "block", block |-> inv[i]]) \o Trigger(inv, i),
                        toClient, [i \in 1 .. Len(inv) |-> i])
    /\ hashContinue' = IF Contains(inv, hashContinue) THEN 0 ELSE hashContinue
    /\ UNCHANGED toSend

ServerReceive ==
    /\ toServer # << >>
    /\ LET msg == Head(toServer)
       IN  \/ msg.type = "getblocks" /\ OnGetBlocks(msg.begin, msg.end)
           \/ msg.type = "getdata" /\ OnGetData(msg.inv)
    /\ toServer' = Tail(toServer)
    /\ UNCHANGED <<client, requests, lastGet, known, tip, reconnects, hurried>>

\* mruset::insert, for the entries of a message in their order.
Remember(s, h) ==
    IF Contains(s, h) THEN s
    ELSE IF Len(s) = MaxKnown THEN Append(Tail(s), h) ELSE Append(s, h)

\* SendMessages of the server: an inv for what the client is not known to have.
ServerSend ==
    /\ toSend # << >>
    /\ LET Send(a, h) == IF Contains(a.known, h) THEN a
                         ELSE [known |-> Remember(a.known, h), inv |-> Append(a.inv, h)]
           all == InOrder(Send, [known |-> known, inv |-> << >>], toSend)
       IN  /\ known' = all.known
           /\ toClient' = IF all.inv = << >> THEN toClient
                          ELSE Append(toClient, [type |-> "inv", inv |-> all.inv])
    /\ toSend' = << >>
    /\ UNCHANGED <<client, requests, lastGet, hashContinue, toServer>>
    /\ UNCHANGED <<tip, reconnects, hurried>>

\* The server accepts a new block and announces it.
AcceptBlock ==
    /\ tip < Height
    /\ tip' = tip + 1
    /\ toSend' = PushInventory(<<tip + 1>>)
    /\ UNCHANGED <<client, requests, lastGet, known, hashContinue, toServer, toClient>>
    /\ UNCHANGED <<reconnects, hurried>>

Missing == (0 .. tip) \ Had

\* The connection is lost, with its requests, and made again; the client has no
\* other peer, so that the version message makes it ask for blocks.
Reconnect ==
    /\ reconnects < MaxReconnect
    /\ reconnects' = reconnects + 1
    /\ hurried' = (hurried \/ \E h \in Missing : lastAsked[h] > 0)
    /\ askFor' = << >> /\ later' = {} /\ toSend' = << >> /\ known' = << >>
    /\ hashContinue' = 0
    /\ toClient' = << >>
    /\ lastGet' = <<best, 0>>
    /\ toServer' = <<[type |-> "getblocks", begin |-> best, end |-> 0]>>
    /\ UNCHANGED <<client, lastAsked, tip>>

Init ==
    /\ best = 0 /\ orphans = {}
    /\ tip = Start
    /\ askFor = << >> /\ later = {} /\ lastAsked = [h \in 0 .. Height |-> 0]
    /\ toSend = << >> /\ known = << >>
    /\ hashContinue = 0
    /\ toClient = << >>
    /\ lastGet = <<0, 0>>
    /\ toServer = <<[type |-> "getblocks", begin |-> 0, end |-> 0]>>
    /\ reconnects = 0 /\ hurried = FALSE

Next ==
    \/ ClientReceive \/ ClientSend \/ Tick
    \/ ServerReceive \/ ServerSend \/ AcceptBlock \/ Reconnect

\* Both message threads come round to the connection again and again, and time
\* goes by.
Spec ==
    /\ Init /\ [][Next]_vars
    /\ WF_vars(ClientReceive) /\ WF_vars(ClientSend) /\ WF_vars(Tick)
    /\ WF_vars(ServerReceive) /\ WF_vars(ServerSend)

(***************************************************************************)
(* Properties.                                                             *)
(***************************************************************************)
Requests ==
    [type : {"getblocks"}, begin : 0 .. best, end : 0 .. tip]
        \cup [type : {"getdata"}, inv : Seq(0 .. tip)]
Answers == [type : {"inv"}, inv : Seq(0 .. tip)] \cup [type : {"block"}, block : 0 .. tip]

\* The type of the state; an orphan is never next to the best block.
TypeOK ==
    /\ best \in 0 .. tip /\ tip \in Start .. Height
    /\ orphans \subseteq best + 2 .. tip
    /\ {askFor, known, toSend} \subseteq Seq(0 .. tip) /\ Len(known) <= MaxKnown
    /\ later \subseteq [block : 0 .. tip, wait : Nat \ {0}] /\ lastAsked \in [0 .. Height -> Nat]
    /\ hashContinue \in 0 .. tip /\ lastGet \in (0 .. best) \X (0 .. tip)
    /\ toServer \in Seq(Requests) /\ toClient \in Seq(Answers)
    /\ reconnects \in 0 .. MaxReconnect /\ hurried \in BOOLEAN

\* The client comes to have all of the server's chain: "we'll send an inv that'll
\* make them getblocks the next batch of inventory" (getblocks).  After a connection
\* that was made again within two minutes it may not: the last block of a batch is
\* then an orphan, or is asked for too late, and the announcements that would help
\* are held back as known.  What was announced comes all the same.
CatchesUp == <>[](IF hurried THEN Range(known) \subseteq Had ELSE best = tip)
=============================================================================
