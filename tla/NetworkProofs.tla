--------------------------- MODULE NetworkProofs ---------------------------
(***************************************************************************)
(* What holds of the connections of a node and of what goes over them, in  *)
(* three parts.  Connections: the nodes and semOutbound, for every number  *)
(* of addresses, opening threads, slots and nodes, when no connection ends *)
(* while a thread opens one to its address.  Requests: what is asked of    *)
(* the peers that announced it.  Download: the order in which the blocks   *)
(* of one peer come.                                                       *)
(***************************************************************************)
EXTENDS Connections, InventoryState, DownloadState, Sequences,
        FiniteSetTheorems, FunctionTheorems, WellFoundedInduction, TLAPS

(***************************************************************************)
(* The inductive invariant.                                                *)
(***************************************************************************)
\* A node is in one place, and the nodes made are the first ones.
PlacesOK ==
    /\ vNodes \cap vNodesDisconnected = {}
    /\ vNodes \cap deleted = {}
    /\ vNodesDisconnected \cap deleted = {}
    /\ Made = 1 .. Cardinality(Made)
    /\ \A n \in Nodes \ Made :
          /\ nRefCount[n] = 0 /\ node[n].nFound = 0
          /\ ~node[n].fInbound /\ ~node[n].fDisconnect /\ node[n].addr = 0

\* The handlers copy nodes that are not deleted, and forget the copy at the end
\* of a turn.
CopiesOK ==
    /\ socket.copied \cup message.copied \subseteq Made \ deleted
    /\ socket.pc \in {"disconnect", "accept", "copy"} => socket.copied = {}
    /\ message.pc = "copy" => message.copied = {}

One(b) == IF b THEN 1 ELSE 0

Users(n) == One(n \in vNodes) + One(n \in socket.copied) + One(n \in message.copied)

CountOK == \A n \in Made \ deleted : nRefCount[n] = node[n].nFound + Users(n)

\* An opening thread works on a node that is connected to the address it has.
OpenerAt(t) ==
    /\ opener[t].grant <=> opener[t].pc \in {"grant", "find", "found", "dial", "opened"}
    /\ opener[t].addr # 0 <=> opener[t].pc \notin {"idle", "grant"}
    /\ IF opener[t].pc \in {"found", "opened", "moved"}
       THEN /\ opener[t].pnode \in vNodes
            /\ ~node[opener[t].pnode].fInbound
            /\ node[opener[t].pnode].addr = opener[t].addr
       ELSE opener[t].pnode = 0

OpenersOK == \A t \in Openers : OpenerAt(t)

\* What an outbound connection has not got yet, a thread is about to give it.
OutboundAt(n) ==
    /\ node[n].addr # 0
    /\ node[n].fDisconnect => \A t \in Openers : opener[t].addr # node[n].addr
    /\ ~node[n].fNetworkNode =>
          \E t \in Openers : opener[t].pc \in {"opened", "moved"} /\ opener[t].pnode = n
    /\ ~node[n].grantOutbound =>
          \E t \in Openers : opener[t].pc = "opened" /\ opener[t].pnode = n

OutboundOK == \A n \in vNodes : ~node[n].fInbound => OutboundAt(n)

\* Nobody connects out to a peer that has connected.
InboundOK == \A n \in vNodes : node[n].fInbound => node[n].addr = 0

SlotsOK ==
    sem + Cardinality({n \in Nodes : node[n].grantOutbound})
        + Cardinality({t \in Openers : opener[t].grant}) = nMaxOutbound

IInv ==
    /\ ~EarlyEnd
    /\ TypeOK
    /\ PlacesOK
    /\ CopiesOK
    /\ CountOK
    /\ OpenersOK
    /\ OutboundOK
    /\ InboundOK
    /\ SlotsOK

(***************************************************************************)
(* Facts about the operators.                                              *)
(***************************************************************************)
NodeType == [addr : Addrs \cup {0}, fInbound : BOOLEAN, fNetworkNode : BOOLEAN,
             fDisconnect : BOOLEAN, grantOutbound : BOOLEAN, nFound : Nat]

OpenerType == [pc : {"idle", "grant", "find", "found", "dial", "opened", "moved"},
               grant : BOOLEAN, addr : Addrs \cup {0}, pnode : Nodes \cup {0}]

Holders == {n \in Nodes : node[n].grantOutbound}
Granted == {t \in Openers : opener[t].grant}

\* The sets that are counted are finite.
LEMMA CountedAreFinite ==
  ASSUME TypeOK
  PROVE  /\ \A S \in SUBSET Nodes : IsFiniteSet(S) /\ Cardinality(S) \in Nat
         /\ \A S \in SUBSET Openers : IsFiniteSet(S) /\ Cardinality(S) \in Nat
         /\ IsFiniteSet(Made) /\ Cardinality(Made) \in Nat
<1>1. IsFiniteSet(Nodes) /\ IsFiniteSet(Openers)
  BY FS_Interval, ConnectionsAssumption DEF Nodes
<1>2. ASSUME NEW S \in SUBSET Nodes PROVE IsFiniteSet(S)
  BY <1>1, FS_Subset
<1>3. ASSUME NEW S \in SUBSET Openers PROVE IsFiniteSet(S)
  BY <1>1, FS_Subset
<1>4. Made \in SUBSET Nodes
  BY DEF Made, TypeOK
<1> QED BY <1>2, <1>3, <1>4, FS_CardinalityType

\* The next node is none of those that were made.
LEMMA NewNodeIsNew ==
  ASSUME TypeOK, PlacesOK
  PROVE  /\ NewNode \notin Made
         /\ Made \cup {NewNode} = 1 .. Cardinality(Made \cup {NewNode})
<1> DEFINE k == Cardinality(Made)
<1>1. k \in Nat /\ IsFiniteSet(Made)
  BY CountedAreFinite
<1>2. Made = 1 .. k /\ NewNode = k + 1
  BY DEF PlacesOK, NewNode
<1> HIDE DEF k
<1>3. NewNode \notin Made /\ Made \cup {NewNode} = 1 .. k + 1
  BY <1>1, <1>2
<1>4. Cardinality(Made \cup {NewNode}) = k + 1
  BY <1>1, <1>3, FS_AddElement DEF k
<1> QED BY <1>3, <1>4

\* The number of users, as CountIsUsers counts them.
LEMMA UsersCounted ==
  ASSUME NEW n
  PROVE  Cardinality({S \in {<<1, vNodes>>, <<2, socket.copied>>, <<3, message.copied>>} : n \in S[2]})
            = Users(n)
<1> DEFINE U(b, x) == IF b THEN {x} ELSE {}
           x1 == <<1, vNodes>>
           x2 == <<2, socket.copied>>
           x3 == <<3, message.copied>>
           A == U(n \in vNodes, x1)
           B == A \cup U(n \in socket.copied, x2)
           C == B \cup U(n \in message.copied, x3)
<1>1. {S \in {x1, x2, x3} : n \in S[2]} = C
  OBVIOUS
<1>2. x1 # x2 /\ x1 # x3 /\ x2 # x3
  OBVIOUS
<1> HIDE DEF x1, x2, x3
<1>3. IsFiniteSet(A) /\ Cardinality(A) = One(n \in vNodes) /\ A \subseteq {x1}
  BY FS_Singleton, FS_EmptySet DEF One
<1> HIDE DEF A
<1>4. IsFiniteSet(B) /\ Cardinality(B) = Cardinality(A) + One(n \in socket.copied) /\ B \subseteq {x1, x2}
  <2>1. IsFiniteSet(A) /\ x2 \notin A /\ Cardinality(A) \in Nat
    BY <1>2, <1>3, FS_CardinalityType
  <2>2. IsFiniteSet(A \cup {x2}) /\ Cardinality(A \cup {x2}) = Cardinality(A) + 1
    BY <2>1, FS_AddElement
  <2> QED BY <1>3, <2>1, <2>2 DEF One
<1> HIDE DEF B
<1>5. Cardinality(C) = Cardinality(B) + One(n \in message.copied)
  <2>1. IsFiniteSet(B) /\ x3 \notin B /\ Cardinality(B) \in Nat
    BY <1>2, <1>4, FS_CardinalityType
  <2>2. Cardinality(B \cup {x3}) = Cardinality(B) + 1
    BY <2>1, FS_AddElement
  <2>3. CASE n \in message.copied
    BY <2>2, <2>3 DEF One
  <2>4. CASE n \notin message.copied
    BY <2>1, <2>4 DEF One
  <2> QED BY <2>3, <2>4
<1> HIDE DEF C
<1> QED BY <1>1, <1>3, <1>4, <1>5 DEF Users, x1, x2, x3

\* There are as many users as memberships.
LEMMA UsersType == \A n : Users(n) \in Nat /\ (n \in vNodes => Users(n) >= 1)
                          /\ (n \in socket.copied => Users(n) >= 1)
                          /\ (n \in message.copied => Users(n) >= 1)
  BY DEF Users, One

\* A node without a slot is about to get one from a thread of its own, so that
\* there are no more outbound connections than slots given out.
LEMMA LimitFollows ==
  ASSUME IInv
  PROVE  OutboundLimit
<1> DEFINE V == {n \in vNodes : ~node[n].fInbound}
           W == V \ Holders
<1>1. V \in SUBSET Nodes /\ W \in SUBSET Nodes /\ Holders \in SUBSET Nodes /\ Granted \in SUBSET Openers
  BY DEF IInv, TypeOK, Holders, Granted
<1>2. /\ IsFiniteSet(V) /\ IsFiniteSet(W) /\ IsFiniteSet(Holders) /\ IsFiniteSet(Granted)
      /\ Cardinality(V) \in Nat /\ Cardinality(W) \in Nat /\ Cardinality(Holders) \in Nat
      /\ Cardinality(Granted) \in Nat
  BY <1>1, CountedAreFinite DEF IInv
<1>3. Cardinality(W) <= Cardinality(Granted)
  <2> DEFINE f == [n \in W |-> CHOOSE t \in Openers : opener[t].pc = "opened" /\ opener[t].pnode = n]
  <2>1. \A n \in W : \E t \in Openers : opener[t].pc = "opened" /\ opener[t].pnode = n
    BY DEF IInv, OutboundOK, OutboundAt, Holders, TypeOK
  <2>2. \A n \in W : f[n] \in Openers /\ opener[f[n]].pc = "opened" /\ opener[f[n]].pnode = n
    BY <2>1
  <2>3. \A n \in W : f[n] \in Granted
    BY <2>2 DEF IInv, OpenersOK, OpenerAt, Granted
  <2>4. f \in Injection(W, Granted)
    <3>1. f \in [W -> Granted]
      BY <2>3
    <3>2. \A a, b \in W : f[a] = f[b] => a = b
      BY <2>2
    <3> QED BY <3>1, <3>2 DEF Injection, IsInjective
  <2> QED BY <2>4, <1>2, FS_Injection
<1>4. Cardinality(V) <= Cardinality(W) + Cardinality(Holders)
  <2>1. Cardinality(W) = Cardinality(V) - Cardinality(V \cap Holders)
    BY <1>2, FS_Difference
  <2>2. Cardinality(V \cap Holders) <= Cardinality(Holders) /\ Cardinality(V \cap Holders) \in Nat
    <3>1. IsFiniteSet(V \cap Holders) /\ Cardinality(V \cap Holders) <= Cardinality(Holders)
      BY <1>2, FS_Intersection
    <3> QED BY <3>1, FS_CardinalityType
  <2> QED BY <1>2, <2>1, <2>2
<1>5. sem + Cardinality(Holders) + Cardinality(Granted) = nMaxOutbound /\ sem \in Nat /\ nMaxOutbound \in Nat
  BY ConnectionsAssumption DEF IInv, SlotsOK, TypeOK, Holders, Granted
<1>6. Cardinality(V) <= nMaxOutbound
  BY <1>2, <1>3, <1>4, <1>5
<1> QED BY <1>6 DEF OutboundLimit, IInv, SlotsOK

(***************************************************************************)
(* The handlers' copies.                                                   *)
(***************************************************************************)
\* AddRef and Release, node by node.
LEMMA RefsAre ==
  ASSUME TypeOK, NEW S
  PROVE  /\ AddRef(S) \in [Nodes -> Nat]
         /\ \A n \in Nodes : AddRef(S)[n] = nRefCount[n] + One(n \in S)
         /\ \A n \in Nodes : Release(S)[n] = nRefCount[n] - One(n \in S)
         /\ (\A n \in S : n \in Nodes => nRefCount[n] >= 1) => Release(S) \in [Nodes -> Nat]
<1>1. nRefCount \in [Nodes -> Nat]
  BY DEF TypeOK
<1>2. \A n \in Nodes : nRefCount[n] \in Nat
  BY <1>1
<1>3. \A n \in Nodes : AddRef(S)[n] = nRefCount[n] + One(n \in S)
                       /\ Release(S)[n] = nRefCount[n] - One(n \in S)
  BY <1>2 DEF AddRef, Release, One
<1>4. AddRef(S) \in [Nodes -> Nat]
  BY <1>2 DEF AddRef
<1>5. ASSUME \A n \in S : n \in Nodes => nRefCount[n] >= 1
      PROVE  Release(S) \in [Nodes -> Nat]
  BY <1>2, <1>5 DEF Release
<1> QED BY <1>3, <1>4, <1>5

\* A node that a handler has copied has a reference.
LEMMA CopiedHasRef ==
  ASSUME IInv, NEW n \in Nodes, n \in vNodes \/ n \in socket.copied \/ n \in message.copied
  PROVE  nRefCount[n] >= 1 /\ n \in Made \ deleted
<1>1. n \in Made \ deleted
  BY DEF IInv, PlacesOK, CopiesOK, Made
<1>2. nRefCount[n] = node[n].nFound + Users(n) /\ node[n].nFound \in Nat
  BY <1>1 DEF IInv, CountOK, TypeOK
<1> QED BY <1>1, <1>2, UsersType

\* What stays when only counts and copies change.
LEMMA CopyStep ==
  ASSUME IInv,
         UNCHANGED <<vNodes, vNodesDisconnected, deleted, node, sem, opener>>,
         nRefCount' \in [Nodes -> Nat],
         \A n \in Nodes \ Made : nRefCount'[n] = nRefCount[n],
         socket' \in [pc : {"disconnect", "accept", "copy", "service", "release"}, copied : SUBSET Nodes],
         message' \in [pc : {"copy", "process", "release"}, copied : SUBSET Nodes],
         CopiesOK', CountOK'
  PROVE  IInv'
<1>1. Made' = Made
  BY DEF Made
<1>2. TypeOK'
  BY DEF IInv, TypeOK
<1>3. PlacesOK'
  BY <1>1 DEF IInv, PlacesOK
<1>4. OpenersOK' /\ OutboundOK' /\ InboundOK' /\ SlotsOK'
  BY DEF IInv, OpenersOK, OpenerAt, OutboundOK, OutboundAt, InboundOK, SlotsOK
<1> QED BY <1>2, <1>3, <1>4 DEF IInv

LEMMA SocketCopyKeeps ==
  ASSUME IInv, SocketCopy
  PROVE  IInv'
<1>1. /\ nRefCount' = AddRef(vNodes) /\ socket' = [pc |-> "service", copied |-> vNodes]
      /\ UNCHANGED <<vNodes, vNodesDisconnected, deleted, node, sem, opener>> /\ message' = message
      /\ socket.copied = {}
  BY DEF SocketCopy, IInv, CopiesOK
<1>2. TypeOK /\ vNodes \in SUBSET Nodes /\ Made' = Made /\ Made \in SUBSET Nodes
  BY <1>1 DEF IInv, TypeOK, Made
<1>3. /\ nRefCount' \in [Nodes -> Nat]
      /\ \A n \in Nodes : nRefCount'[n] = nRefCount[n] + One(n \in vNodes) /\ nRefCount[n] \in Nat
  BY <1>1, <1>2, RefsAre DEF TypeOK
<1>4. CopiesOK'
  BY <1>1, <1>2 DEF IInv, CopiesOK, PlacesOK, Made
<1>5. CountOK'
  <2> SUFFICES ASSUME NEW n \in Made \ deleted
               PROVE  nRefCount'[n] = node[n].nFound + Users(n)'
    BY <1>1, <1>2 DEF CountOK
  <2>1. nRefCount[n] = node[n].nFound + Users(n) /\ node[n].nFound \in Nat
    BY <1>2 DEF IInv, CountOK, TypeOK
  <2>2. Users(n)' = Users(n) + One(n \in vNodes)
    BY <1>1 DEF Users, One
  <2> QED BY <2>1, <2>2, <1>2, <1>3 DEF Users, One
<1>6. \A n \in Nodes \ Made : nRefCount'[n] = nRefCount[n]
  BY <1>3 DEF One, Made
<1>7. socket' \in [pc : {"disconnect", "accept", "copy", "service", "release"}, copied : SUBSET Nodes]
      /\ message' \in [pc : {"copy", "process", "release"}, copied : SUBSET Nodes]
  BY <1>1, <1>2 DEF TypeOK
<1> QED BY <1>1, <1>3, <1>4, <1>5, <1>6, <1>7, CopyStep

LEMMA MessageCopyKeeps ==
  ASSUME IInv, MessageCopy
  PROVE  IInv'
<1>1. /\ nRefCount' = AddRef(vNodes) /\ message' = [pc |-> "process", copied |-> vNodes]
      /\ UNCHANGED <<vNodes, vNodesDisconnected, deleted, node, sem, opener>> /\ socket' = socket
      /\ message.copied = {}
  BY DEF MessageCopy, IInv, CopiesOK
<1>2. TypeOK /\ vNodes \in SUBSET Nodes /\ Made' = Made /\ Made \in SUBSET Nodes
  BY <1>1 DEF IInv, TypeOK, Made
<1>3. /\ nRefCount' \in [Nodes -> Nat]
      /\ \A n \in Nodes : nRefCount'[n] = nRefCount[n] + One(n \in vNodes) /\ nRefCount[n] \in Nat
  BY <1>1, <1>2, RefsAre DEF TypeOK
<1>4. CopiesOK'
  BY <1>1, <1>2 DEF IInv, CopiesOK, PlacesOK, Made
<1>5. CountOK'
  <2> SUFFICES ASSUME NEW n \in Made \ deleted
               PROVE  nRefCount'[n] = node[n].nFound + Users(n)'
    BY <1>1, <1>2 DEF CountOK
  <2>1. nRefCount[n] = node[n].nFound + Users(n) /\ node[n].nFound \in Nat
    BY <1>2 DEF IInv, CountOK, TypeOK
  <2>2. Users(n)' = Users(n) + One(n \in vNodes)
    BY <1>1 DEF Users, One
  <2> QED BY <2>1, <2>2, <1>2, <1>3 DEF Users, One
<1>6. \A n \in Nodes \ Made : nRefCount'[n] = nRefCount[n]
  BY <1>3 DEF One, Made
<1>7. socket' \in [pc : {"disconnect", "accept", "copy", "service", "release"}, copied : SUBSET Nodes]
      /\ message' \in [pc : {"copy", "process", "release"}, copied : SUBSET Nodes]
  BY <1>1, <1>2 DEF TypeOK
<1> QED BY <1>1, <1>3, <1>4, <1>5, <1>6, <1>7, CopyStep

LEMMA SocketReleaseKeeps ==
  ASSUME IInv, SocketRelease
  PROVE  IInv'
<1>1. /\ nRefCount' = Release(socket.copied) /\ socket' = [pc |-> "disconnect", copied |-> {}]
      /\ UNCHANGED <<vNodes, vNodesDisconnected, deleted, node, sem, opener>> /\ message' = message
  BY DEF SocketRelease
<1>2. /\ TypeOK /\ Made' = Made /\ Made \in SUBSET Nodes
      /\ socket.copied \subseteq Made \ deleted
  BY <1>1 DEF IInv, TypeOK, Made, CopiesOK
<1>3. /\ nRefCount' \in [Nodes -> Nat]
      /\ \A n \in Nodes : nRefCount'[n] = nRefCount[n] - One(n \in socket.copied) /\ nRefCount[n] \in Nat
  <2>1. \A n \in socket.copied : n \in Nodes => nRefCount[n] >= 1
    BY CopiedHasRef
  <2> QED BY <1>1, <1>2, <2>1, RefsAre DEF TypeOK
<1>4. CopiesOK'
  BY <1>1, <1>2 DEF IInv, CopiesOK
<1>5. CountOK'
  <2> SUFFICES ASSUME NEW n \in Made \ deleted
               PROVE  nRefCount'[n] = node[n].nFound + Users(n)'
    BY <1>1, <1>2 DEF CountOK
  <2>1. nRefCount[n] = node[n].nFound + Users(n) /\ node[n].nFound \in Nat
    BY <1>2 DEF IInv, CountOK, TypeOK
  <2>2. Users(n)' = Users(n) - One(n \in socket.copied)
    BY <1>1 DEF Users, One
  <2> QED BY <2>1, <2>2, <1>2, <1>3 DEF Users, One
<1>6. \A n \in Nodes \ Made : nRefCount'[n] = nRefCount[n]
  BY <1>2, <1>3 DEF One
<1>7. socket' \in [pc : {"disconnect", "accept", "copy", "service", "release"}, copied : SUBSET Nodes]
      /\ message' \in [pc : {"copy", "process", "release"}, copied : SUBSET Nodes]
  BY <1>1, <1>2 DEF TypeOK
<1> QED BY <1>1, <1>3, <1>4, <1>5, <1>6, <1>7, CopyStep

LEMMA MessageReleaseKeeps ==
  ASSUME IInv, MessageRelease
  PROVE  IInv'
<1>1. /\ nRefCount' = Release(message.copied) /\ message' = [pc |-> "copy", copied |-> {}]
      /\ UNCHANGED <<vNodes, vNodesDisconnected, deleted, node, sem, opener>> /\ socket' = socket
  BY DEF MessageRelease
<1>2. /\ TypeOK /\ Made' = Made /\ Made \in SUBSET Nodes
      /\ message.copied \subseteq Made \ deleted
  BY <1>1 DEF IInv, TypeOK, Made, CopiesOK
<1>3. /\ nRefCount' \in [Nodes -> Nat]
      /\ \A n \in Nodes : nRefCount'[n] = nRefCount[n] - One(n \in message.copied) /\ nRefCount[n] \in Nat
  <2>1. \A n \in message.copied : n \in Nodes => nRefCount[n] >= 1
    BY CopiedHasRef
  <2> QED BY <1>1, <1>2, <2>1, RefsAre DEF TypeOK
<1>4. CopiesOK'
  BY <1>1, <1>2 DEF IInv, CopiesOK
<1>5. CountOK'
  <2> SUFFICES ASSUME NEW n \in Made \ deleted
               PROVE  nRefCount'[n] = node[n].nFound + Users(n)'
    BY <1>1, <1>2 DEF CountOK
  <2>1. nRefCount[n] = node[n].nFound + Users(n) /\ node[n].nFound \in Nat
    BY <1>2 DEF IInv, CountOK, TypeOK
  <2>2. Users(n)' = Users(n) - One(n \in message.copied)
    BY <1>1 DEF Users, One
  <2> QED BY <2>1, <2>2, <1>2, <1>3 DEF Users, One
<1>6. \A n \in Nodes \ Made : nRefCount'[n] = nRefCount[n]
  BY <1>2, <1>3 DEF One
<1>7. socket' \in [pc : {"disconnect", "accept", "copy", "service", "release"}, copied : SUBSET Nodes]
      /\ message' \in [pc : {"copy", "process", "release"}, copied : SUBSET Nodes]
  BY <1>1, <1>2 DEF TypeOK
<1> QED BY <1>1, <1>3, <1>4, <1>5, <1>6, <1>7, CopyStep

(***************************************************************************)
(* Connections end.                                                        *)
(***************************************************************************)
\* A node with the fields of another one, but for some.
SameBut(fields, a, b) ==
    /\ "addr" \notin fields => a.addr = b.addr
    /\ "fInbound" \notin fields => a.fInbound = b.fInbound
    /\ "fNetworkNode" \notin fields => a.fNetworkNode = b.fNetworkNode
    /\ "fDisconnect" \notin fields => a.fDisconnect = b.fDisconnect
    /\ "grantOutbound" \notin fields => a.grantOutbound = b.grantOutbound
    /\ "nFound" \notin fields => a.nFound = b.nFound

\* A handler ends connections that no thread opens.
LEMMA EndingStep ==
  ASSUME IInv, NEW ended, ended \subseteq MayEnd(socket.copied) \cup MayEnd(message.copied),
         node' = [n \in Nodes |->
                    IF n \in ended THEN [node[n] EXCEPT !.fDisconnect = TRUE] ELSE node[n]],
         UNCHANGED <<vNodes, vNodesDisconnected, deleted, nRefCount, sem, opener>>,
         socket' \in [pc : {"disconnect", "accept", "copy", "service", "release"}, copied : SUBSET Nodes],
         message' \in [pc : {"copy", "process", "release"}, copied : SUBSET Nodes],
         socket'.copied = socket.copied, message'.copied = message.copied,
         CopiesOK'
  PROVE  IInv'
<1>1. /\ Made' = Made /\ ~EarlyEnd
      /\ ended \subseteq Made \ deleted
      /\ \A n \in ended : node[n].fInbound \/ \A t \in Openers : opener[t].addr # node[n].addr
  BY DEF Made, MayEnd, IInv, CopiesOK
<1>2. node \in [Nodes -> NodeType]
  BY DEF IInv, TypeOK, NodeType
<1>3. /\ node' \in [Nodes -> NodeType]
      /\ \A n \in Nodes : /\ SameBut({"fDisconnect"}, node'[n], node[n])
                          /\ node'[n].fDisconnect => node[n].fDisconnect \/ n \in ended
  <2>1. \A n \in Nodes : /\ node'[n] \in NodeType
                         /\ SameBut({"fDisconnect"}, node'[n], node[n])
                         /\ node'[n].fDisconnect => node[n].fDisconnect \/ n \in ended
    BY <1>2 DEF NodeType, SameBut
  <2> QED BY <2>1
<1>4. TypeOK'
  BY <1>3 DEF IInv, TypeOK, NodeType
<1>5. PlacesOK'
  BY <1>1, <1>3 DEF IInv, PlacesOK, SameBut
<1>6. CountOK'
  <2>1. \A n : Users(n)' = Users(n)
    BY DEF Users, One
  <2>2. Made \in SUBSET Nodes
    BY DEF IInv, TypeOK, Made
  <2> QED BY <1>1, <1>3, <2>1, <2>2 DEF IInv, CountOK, SameBut
<1>7. OpenersOK'
  <2>1. vNodes \in SUBSET Nodes
    BY DEF IInv, TypeOK
  <2> QED BY <1>3, <2>1 DEF IInv, OpenersOK, OpenerAt, SameBut
<1>8. OutboundOK'
  <2> SUFFICES ASSUME NEW n \in vNodes, ~node'[n].fInbound PROVE OutboundAt(n)'
    BY DEF OutboundOK
  <2>1. n \in Nodes /\ SameBut({"fDisconnect"}, node'[n], node[n])
        /\ (node'[n].fDisconnect => node[n].fDisconnect \/ n \in ended)
    BY <1>3 DEF IInv, TypeOK
  <2>2. OutboundAt(n) /\ ~node[n].fInbound
    BY <2>1 DEF IInv, OutboundOK, SameBut
  <2> QED BY <2>1, <2>2, <1>1 DEF OutboundAt, SameBut
<1>9. SlotsOK'
  <2>1. Holders' = Holders
    BY <1>3 DEF Holders, SameBut
  <2> QED BY <2>1 DEF IInv, SlotsOK, Holders
<1>10. InboundOK'
  <2>1. vNodes \in SUBSET Nodes
    BY DEF IInv, TypeOK
  <2> QED BY <1>3, <2>1 DEF IInv, InboundOK, SameBut
<1> QED BY <1>1, <1>4, <1>5, <1>6, <1>7, <1>8, <1>9, <1>10 DEF IInv

LEMMA SocketServiceKeeps ==
  ASSUME IInv, SocketService
  PROVE  IInv'
<1>1. PICK ended \in SUBSET MayEnd(socket.copied) :
          node' = [n \in Nodes |->
                      IF n \in ended THEN [node[n] EXCEPT !.fDisconnect = TRUE] ELSE node[n]]
  BY DEF SocketService
<1>2. /\ socket' = [socket EXCEPT !.pc = "release"] /\ message' = message
      /\ UNCHANGED <<vNodes, vNodesDisconnected, deleted, nRefCount, sem, opener>>
  BY DEF SocketService
<1>3. /\ socket' \in [pc : {"disconnect", "accept", "copy", "service", "release"}, copied : SUBSET Nodes]
      /\ socket'.copied = socket.copied /\ socket'.pc = "release"
      /\ message' \in [pc : {"copy", "process", "release"}, copied : SUBSET Nodes]
      /\ message'.copied = message.copied
  BY <1>2 DEF IInv, TypeOK
<1>4. CopiesOK'
  BY <1>2, <1>3 DEF IInv, CopiesOK, Made
<1> QED BY <1>1, <1>2, <1>3, <1>4, EndingStep

LEMMA ProcessMessagesKeeps ==
  ASSUME IInv, ProcessMessages
  PROVE  IInv'
<1>1. PICK ended \in SUBSET MayEnd(message.copied) :
          node' = [n \in Nodes |->
                      IF n \in ended THEN [node[n] EXCEPT !.fDisconnect = TRUE] ELSE node[n]]
  BY DEF ProcessMessages
<1>2. /\ message' = [message EXCEPT !.pc = "release"] /\ socket' = socket
      /\ UNCHANGED <<vNodes, vNodesDisconnected, deleted, nRefCount, sem, opener>>
  BY DEF ProcessMessages
<1>3. /\ message' \in [pc : {"copy", "process", "release"}, copied : SUBSET Nodes]
      /\ message'.copied = message.copied /\ message'.pc = "release"
      /\ socket' \in [pc : {"disconnect", "accept", "copy", "service", "release"}, copied : SUBSET Nodes]
      /\ socket'.copied = socket.copied
  BY <1>2 DEF IInv, TypeOK
<1>4. CopiesOK'
  BY <1>2, <1>3 DEF IInv, CopiesOK, Made
<1> QED BY <1>1, <1>2, <1>3, <1>4, EndingStep

\* A connection that has ended is one that a peer opened or a thread has done
\* with, so that its reference is released.
LEMMA EndedAreDone ==
  ASSUME IInv
  PROVE  /\ \A n \in Ended : /\ node[n].fDisconnect
                             /\ node[n].fNetworkNode \/ node[n].fInbound
                             /\ nRefCount[n] >= 1
         /\ \A t \in Openers : opener[t].pnode \notin Ended
<1>1. ASSUME NEW n \in Ended
      PROVE  n \in vNodes /\ n \in Nodes /\ node[n].fDisconnect /\ nRefCount[n] >= 1
  <2>1. n \in vNodes /\ n \in Nodes
    BY DEF Ended, IInv, TypeOK
  <2>2. nRefCount[n] >= 1 /\ nRefCount[n] \in Nat
    BY <2>1, CopiedHasRef DEF IInv, TypeOK
  <2> QED BY <2>1, <2>2 DEF Ended
<1>2. ASSUME NEW t \in Openers, opener[t].pnode \in Ended
      PROVE  FALSE
  <2>1. opener[t].pnode \in vNodes /\ node[opener[t].pnode].fDisconnect /\ opener[t].pnode # 0
    BY <1>1, <1>2, ConnectionsAssumption DEF IInv, TypeOK, Nodes
  <2> QED BY <2>1 DEF IInv, OpenersOK, OpenerAt, OutboundOK, OutboundAt
<1>3. ASSUME NEW n \in Ended
      PROVE  node[n].fNetworkNode \/ node[n].fInbound
  BY <1>1, <1>2 DEF IInv, OutboundOK, OutboundAt
<1> QED BY <1>1, <1>2, <1>3

\* ThreadSocketHandler2 takes the connections that have ended out of vNodes, and
\* deletes those that nobody refers to.
LEMMA DisconnectKeeps ==
  ASSUME IInv, Disconnect
  PROVE  IInv'
<1> DEFINE refs == Release(Ended)
           pool == vNodesDisconnected \cup Ended
           gone == {n \in pool : refs[n] <= 0}
           X == Ended \cup gone
<1>1. {n \in Ended : node[n].fNetworkNode \/ node[n].fInbound} = Ended
  BY EndedAreDone
<1>2. /\ socket.pc = "disconnect" /\ socket.copied = {}
      /\ vNodes' = vNodes \ Ended
      /\ sem' = sem + Cardinality({n \in X : node[n].grantOutbound})
      /\ node' = [n \in Nodes |->
                     IF n \in X
                     THEN [node[n] EXCEPT !.grantOutbound = FALSE, !.fDisconnect = TRUE]
                     ELSE node[n]]
      /\ nRefCount' = refs
      /\ vNodesDisconnected' = pool \ gone
      /\ deleted' = deleted \cup gone
      /\ socket' = [socket EXCEPT !.pc = "accept"]
      /\ opener' = opener /\ message' = message
  BY <1>1 DEF Disconnect, IInv, CopiesOK
<1>3. /\ Ended \subseteq vNodes /\ vNodes \in SUBSET Nodes /\ Made \in SUBSET Nodes
      /\ X \subseteq vNodesDisconnected \cup Ended /\ vNodesDisconnected \in SUBSET Nodes
      /\ X \in SUBSET Nodes /\ X \subseteq Made \ deleted /\ X \cap vNodes' = {}
  BY <1>2 DEF IInv, TypeOK, Ended, PlacesOK, Made
<1>4. Made' = Made
  BY <1>2, <1>3 DEF Made
<1>5. /\ refs \in [Nodes -> Nat]
      /\ \A n \in Nodes : refs[n] = nRefCount[n] - One(n \in Ended) /\ nRefCount[n] \in Nat
  <2>1. \A n \in Ended : n \in Nodes => nRefCount[n] >= 1
    BY EndedAreDone
  <2> QED BY <2>1, RefsAre DEF IInv, TypeOK
<1>5a. nRefCount' = refs /\ \A n \in gone : refs[n] <= 0
  BY <1>2
<1> HIDE DEF refs, pool, gone, X
<1>6. socket' \in [pc : {"disconnect", "accept", "copy", "service", "release"}, copied : SUBSET Nodes]
      /\ socket'.copied = socket.copied /\ socket'.pc = "accept" /\ socket'.copied = {}
  BY <1>2 DEF IInv, TypeOK
<1>7. node \in [Nodes -> NodeType]
  BY DEF IInv, TypeOK, NodeType
<1>8. /\ node' \in [Nodes -> NodeType]
      /\ \A n \in Nodes : /\ SameBut({"fDisconnect", "grantOutbound"}, node'[n], node[n])
                          /\ n \notin X => node'[n] = node[n]
                          /\ n \in X => ~node'[n].grantOutbound
  <2>1. \A n \in Nodes : /\ node'[n] \in NodeType
                         /\ SameBut({"fDisconnect", "grantOutbound"}, node'[n], node[n])
                         /\ n \notin X => node'[n] = node[n]
                         /\ n \in X => ~node'[n].grantOutbound
    BY <1>2, <1>7 DEF NodeType, SameBut
  <2>2. node' = [n \in Nodes |-> node'[n]]
    BY <1>2
  <2> QED BY <2>1, <2>2
<1>9. SlotsOK' /\ sem' \in 0 .. nMaxOutbound
  <2> DEFINE H == Holders \cap X
  <2>1. Holders' = Holders \ X /\ {n \in X : node[n].grantOutbound} = H
    BY <1>3, <1>8 DEF Holders
  <2>2. Granted' = Granted
    BY <1>2 DEF Granted
  <2>3. /\ IsFiniteSet(Holders) /\ Cardinality(Holders) \in Nat
        /\ Cardinality(H) \in Nat
        /\ Cardinality(Granted) \in Nat
    BY CountedAreFinite DEF IInv, Holders, Granted
  <2>4. Cardinality(Holders \ X) = Cardinality(Holders) - Cardinality(H)
    BY <2>3, FS_Difference
  <2>5. Cardinality(Holders \ X) \in Nat
    BY CountedAreFinite DEF IInv, Holders
  <2>6. /\ sem + Cardinality(Holders) + Cardinality(Granted) = nMaxOutbound
        /\ sem \in Nat /\ nMaxOutbound \in Nat
    BY ConnectionsAssumption DEF IInv, SlotsOK, Holders, Granted, TypeOK
  <2>7. sem' = sem + Cardinality(H)
    BY <1>2, <2>1
  <2> HIDE DEF H
  <2>8. sem' + Cardinality(Holders') + Cardinality(Granted') = nMaxOutbound /\ sem' \in Nat
        /\ Cardinality(Holders') \in Nat /\ Cardinality(Granted') \in Nat
    BY <2>1, <2>2, <2>3, <2>4, <2>5, <2>6, <2>7
  <2>9. sem' \in 0 .. nMaxOutbound
    BY <2>6, <2>8
  <2> QED BY <2>8, <2>9 DEF SlotsOK, Holders, Granted
<1>10. TypeOK'
  <2>1. vNodes' \in SUBSET Nodes /\ vNodesDisconnected' \in SUBSET Nodes /\ deleted' \in SUBSET Nodes
    BY <1>2, <1>3 DEF IInv, TypeOK, pool, X
  <2> QED BY <2>1, <1>2, <1>5, <1>6, <1>8, <1>9 DEF IInv, TypeOK, NodeType
<1>11. PlacesOK'
  <2>1. /\ vNodes' \cap vNodesDisconnected' = {}
        /\ vNodes' \cap deleted' = {}
        /\ vNodesDisconnected' \cap deleted' = {}
    BY <1>2, <1>3 DEF IInv, PlacesOK, pool, gone
  <2>2. \A n \in Nodes \ Made : n \notin X /\ n \notin Ended
    BY <1>3 DEF Made
  <2>3. \A n \in Nodes \ Made : nRefCount'[n] = nRefCount[n] /\ node'[n] = node[n]
    BY <2>2, <1>5a, <1>5, <1>8 DEF One
  <2> QED BY <1>4, <2>1, <2>3 DEF IInv, PlacesOK
<1>12. CountOK' /\ CopiesOK'
  <2>1. ASSUME NEW n \in Made \ deleted
        PROVE  /\ nRefCount'[n] = node'[n].nFound + Users(n)'
               /\ n \in gone => n \notin message.copied
    <3>1. /\ nRefCount[n] = node[n].nFound + Users(n) /\ node[n].nFound \in Nat
          /\ node'[n].nFound = node[n].nFound
          /\ nRefCount'[n] = nRefCount[n] - One(n \in Ended)
          /\ nRefCount[n] \in Nat
      BY <1>5a, <1>3, <1>5, <1>7, <1>8 DEF IInv, CountOK, SameBut, NodeType
    <3>2. Users(n)' = Users(n) - One(n \in Ended) /\ (n \in message.copied => Users(n)' >= 1)
      <4>1. /\ vNodes' = vNodes \ Ended /\ socket'.copied = {} /\ socket.copied = {}
            /\ message' = message /\ Ended \subseteq vNodes
        BY <1>2, <1>3, <1>6
      <4> QED BY <4>1 DEF Users, One
    <3>3. nRefCount'[n] = node'[n].nFound + Users(n)'
      BY <3>1, <3>2 DEF Users, One
    <3>4. ASSUME n \in message.copied PROVE nRefCount'[n] >= 1
      <4>1. Users(n)' \in Nat
        BY DEF Users, One
      <4> QED BY <4>1, <3>1, <3>2, <3>3, <3>4
    <3>5. nRefCount'[n] \in Int
      BY <3>1 DEF One
    <3> QED BY <3>3, <3>4, <3>5, <1>5a
  <2>2. Made' \ deleted' \subseteq Made \ deleted
    BY <1>2, <1>4
  <2>3. CountOK'
    BY <2>1, <2>2 DEF CountOK
  <2>4. message.copied \subseteq Made \ deleted
    BY DEF IInv, CopiesOK
  <2>5. message.copied \cap gone = {}
    BY <2>1, <2>4
  <2>6. CopiesOK'
    BY <1>2, <1>4, <1>6, <2>4, <2>5 DEF IInv, CopiesOK
  <2> QED BY <2>3, <2>6
<1>13. OpenersOK'
  <2>1. \A t \in Openers : opener[t].pnode \in vNodes =>
            opener[t].pnode \in vNodes' /\ node'[opener[t].pnode] = node[opener[t].pnode]
    BY <1>2, <1>3, <1>8, EndedAreDone
  <2> QED BY <1>2, <2>1 DEF IInv, OpenersOK, OpenerAt
<1>14. OutboundOK'
  <2> SUFFICES ASSUME NEW n \in vNodes', ~node'[n].fInbound PROVE OutboundAt(n)'
    BY DEF OutboundOK
  <2>1. n \in vNodes /\ node'[n] = node[n]
    BY <1>2, <1>3, <1>8
  <2>2. OutboundAt(n)
    BY <2>1 DEF IInv, OutboundOK
  <2> QED BY <1>2, <2>1, <2>2 DEF OutboundAt
<1>15. InboundOK'
  <2>1. \A n \in vNodes' : n \in vNodes /\ node'[n] = node[n]
    BY <1>2, <1>3, <1>8
  <2> QED BY <2>1 DEF IInv, InboundOK
<1> QED BY <1>9, <1>10, <1>11, <1>12, <1>13, <1>14, <1>15 DEF IInv

(***************************************************************************)
(* New nodes.                                                              *)
(***************************************************************************)
LEMMA AcceptKeeps ==
  ASSUME IInv, Accept
  PROVE  IInv'
<1>1. /\ socket.pc = "accept" /\ socket' = [socket EXCEPT !.pc = "copy"]
      /\ UNCHANGED <<vNodesDisconnected, deleted, sem, opener>> /\ message' = message
  BY DEF Accept
<1>2. /\ socket' \in [pc : {"disconnect", "accept", "copy", "service", "release"}, copied : SUBSET Nodes]
      /\ socket'.copied = {} /\ socket.copied = {} /\ socket'.pc = "copy"
      /\ message' \in [pc : {"copy", "process", "release"}, copied : SUBSET Nodes]
  BY <1>1 DEF IInv, TypeOK, CopiesOK
<1>3. CASE UNCHANGED <<node, nRefCount, vNodes>>
  <2>1. Made' = Made
    BY <1>1, <1>3 DEF Made
  <2>2. CopiesOK'
    BY <2>1, <1>1, <1>2 DEF IInv, CopiesOK
  <2>3. CountOK'
    BY <2>1, <1>1, <1>2, <1>3 DEF IInv, CountOK, Users
  <2>4. nRefCount' \in [Nodes -> Nat]
    BY <1>3 DEF IInv, TypeOK
  <2> QED BY <1>1, <1>2, <1>3, <2>2, <2>3, <2>4, CopyStep
<1>4. CASE /\ NewNode \in Nodes
           /\ node' = [node EXCEPT ![NewNode].fInbound = TRUE]
           /\ nRefCount' = AddRef({NewNode})
           /\ vNodes' = vNodes \cup {NewNode}
  <2>p. PICK p : p = NewNode
    OBVIOUS
  <2>1. p \notin Made /\ Made' = Made \cup {p} /\ Made' = 1 .. Cardinality(Made') /\ p \in Nodes
    BY <2>p, <1>1, <1>4, NewNodeIsNew DEF IInv, Made
  <2>2. node \in [Nodes -> NodeType] /\ Made \in SUBSET Nodes /\ vNodes \subseteq Made
    BY DEF IInv, TypeOK, NodeType, Made
  <2>3. /\ node' \in [Nodes -> NodeType]
        /\ \A n \in Nodes \ {p} : node'[n] = node[n]
        /\ node'[p].fInbound /\ node'[p].grantOutbound = node[p].grantOutbound
        /\ node'[p].nFound = node[p].nFound /\ node'[p].addr = node[p].addr
    BY <2>p, <1>4, <2>2 DEF NodeType
  <2>4. /\ nRefCount' \in [Nodes -> Nat]
        /\ \A n \in Nodes : nRefCount'[n] = nRefCount[n] + One(n \in {p}) /\ nRefCount[n] \in Nat
    BY <2>p, <1>4, RefsAre DEF IInv, TypeOK
  <2>5. nRefCount[p] = 0 /\ node[p].nFound = 0 /\ node[p].addr = 0
    BY <2>1 DEF IInv, PlacesOK
  <2>6. vNodes' = vNodes \cup {p}
    BY <2>p, <1>4
  <2>7. TypeOK'
    BY <1>1, <1>2, <2>1, <2>3, <2>4, <2>6 DEF IInv, TypeOK, NodeType
  <2>8. PlacesOK'
    <3>1. \A n \in Nodes \ Made' : nRefCount'[n] = nRefCount[n] /\ node'[n] = node[n] /\ n \notin Made
      BY <2>1, <2>3, <2>4 DEF One
    <3>2. p \notin vNodesDisconnected /\ p \notin deleted
      BY <2>1 DEF Made
    <3> QED BY <1>1, <2>1, <2>6, <3>1, <3>2 DEF IInv, PlacesOK
  <2>9. CopiesOK'
    BY <1>1, <1>2, <2>1 DEF IInv, CopiesOK, Made
  <2>10. CountOK'
    <3> SUFFICES ASSUME NEW n \in Made' \ deleted'
                 PROVE  nRefCount'[n] = node'[n].nFound + Users(n)'
      BY DEF CountOK
    <3>1. CASE n = p
      <4>1. p \notin message.copied
        BY <2>1 DEF IInv, CopiesOK
      <4>2. Users(n)' = 1
        BY <3>1, <4>1, <1>1, <1>2, <2>6 DEF Users, One
      <4> QED BY <3>1, <4>2, <2>1, <2>3, <2>4, <2>5 DEF One
    <3>2. CASE n # p
      <4>1. n \in Made \ deleted /\ n \in Nodes
        BY <3>2, <1>1, <2>1, <2>2
      <4>2. Users(n)' = Users(n)
        BY <3>2, <1>1, <1>2, <2>6 DEF Users, One
      <4>3. nRefCount'[n] = nRefCount[n] /\ node'[n] = node[n]
        BY <3>2, <4>1, <2>3, <2>4 DEF One
      <4> QED BY <4>1, <4>2, <4>3 DEF IInv, CountOK
    <3> QED BY <3>1, <3>2
  <2>11. \A n \in vNodes : n \in vNodes' /\ node'[n] = node[n]
    BY <2>1, <2>2, <2>3, <2>6
  <2>12. OpenersOK'
    BY <1>1, <2>11 DEF IInv, OpenersOK, OpenerAt
  <2>13. OutboundOK'
    <3> SUFFICES ASSUME NEW n \in vNodes', ~node'[n].fInbound PROVE OutboundAt(n)'
      BY DEF OutboundOK
    <3>1. n \in vNodes /\ node'[n] = node[n]
      BY <2>3, <2>6, <2>11
    <3>2. OutboundAt(n)
      BY <3>1 DEF IInv, OutboundOK
    <3> QED BY <1>1, <3>1, <3>2 DEF OutboundAt
  <2>14. SlotsOK'
    <3>1. Holders' = Holders
      BY <2>1, <2>3 DEF Holders
    <3> QED BY <3>1, <1>1 DEF IInv, SlotsOK, Holders
  <2>15. InboundOK'
    BY <2>3, <2>5, <2>6, <2>11 DEF IInv, InboundOK
  <2> QED BY <2>7, <2>8, <2>9, <2>10, <2>12, <2>13, <2>14, <2>15 DEF IInv
<1> QED BY <1>3, <1>4 DEF Accept

(***************************************************************************)
(* The opening threads.                                                    *)
(***************************************************************************)
\* What an opening thread does, but for what it does to nodes and slots.
LEMMA OpenerStep ==
  ASSUME IInv, NEW t \in Openers,
         opener' \in [Openers -> OpenerType],
         \A s \in Openers \ {t} : opener'[s] = opener[s],
         OpenerAt(t)',
         UNCHANGED <<vNodesDisconnected, deleted, socket, message>>,
         vNodes \subseteq vNodes', vNodes' \in SUBSET Nodes,
         node' \in [Nodes -> NodeType], nRefCount' \in [Nodes -> Nat],
         \A n \in vNodes : SameBut({"fNetworkNode", "grantOutbound", "nFound"}, node'[n], node[n]),
         OutboundOK', InboundOK', CountOK', PlacesOK', SlotsOK', sem' \in 0 .. nMaxOutbound
  PROVE  IInv'
<1>1. TypeOK'
  BY DEF IInv, TypeOK, NodeType, OpenerType
<1>2. CopiesOK'
  <2>1. Made \subseteq Made'
    BY DEF Made
  <2> QED BY <2>1 DEF IInv, CopiesOK
<1>3. OpenersOK'
  <2> SUFFICES ASSUME NEW s \in Openers, s # t PROVE OpenerAt(s)'
    BY DEF OpenersOK
  <2>1. OpenerAt(s) /\ opener'[s] = opener[s]
    BY DEF IInv, OpenersOK
  <2> QED BY <2>1 DEF OpenerAt, SameBut
<1> QED BY <1>1, <1>2, <1>3 DEF IInv

\* The same, when the nodes stay as they are.
LEMMA ThreadStep ==
  ASSUME IInv, NEW t \in Openers,
         opener' \in [Openers -> OpenerType],
         \A s \in Openers \ {t} : opener'[s] = opener[s],
         OpenerAt(t)',
         UNCHANGED <<vNodes, vNodesDisconnected, deleted, node, nRefCount, socket, message>>,
         opener[t].pc \notin {"opened", "moved"},
         \A n \in vNodes : ~node[n].fInbound /\ node[n].fDisconnect => opener'[t].addr # node[n].addr,
         SlotsOK', sem' \in 0 .. nMaxOutbound
  PROVE  IInv'
<1>1. OutboundOK'
  <2> SUFFICES ASSUME NEW n \in vNodes, ~node[n].fInbound PROVE OutboundAt(n)'
    BY DEF OutboundOK
  <2>1. OutboundAt(n)
    BY DEF IInv, OutboundOK
  <2>2. \A s \in Openers : opener[s].pc \in {"opened", "moved"} => opener'[s] = opener[s]
    OBVIOUS
  <2> QED BY <2>1, <2>2 DEF OutboundAt
<1>2. CountOK' /\ PlacesOK' /\ InboundOK'
  BY DEF IInv, CountOK, Users, PlacesOK, Made, InboundOK
<1>3. \A n \in vNodes : SameBut({"fNetworkNode", "grantOutbound", "nFound"}, node'[n], node[n])
  BY DEF SameBut
<1>4. vNodes' \in SUBSET Nodes /\ node' \in [Nodes -> NodeType] /\ nRefCount' \in [Nodes -> Nat]
  BY DEF IInv, TypeOK, NodeType
<1> QED BY <1>1, <1>2, <1>3, <1>4, OpenerStep

\* Slots are counted while they move.
LEMMA SlotsAre ==
  ASSUME IInv
  PROVE  /\ sem + Cardinality(Holders) + Cardinality(Granted) = nMaxOutbound
         /\ sem \in Nat /\ Cardinality(Holders) \in Nat /\ Cardinality(Granted) \in Nat
         /\ nMaxOutbound \in Nat /\ IsFiniteSet(Holders) /\ IsFiniteSet(Granted)
  BY CountedAreFinite, ConnectionsAssumption DEF IInv, SlotsOK, TypeOK, Holders, Granted

LEMMA AcquireKeeps ==
  ASSUME IInv, NEW t \in Openers, Acquire(t)
  PROVE  IInv'
<1>1. /\ opener[t].pc = "idle" /\ sem >= 1 /\ sem' = sem - 1
      /\ UNCHANGED <<vNodes, vNodesDisconnected, deleted, node, nRefCount, socket, message>>
      /\ opener \in [Openers -> OpenerType]
  BY DEF Acquire, IInv, TypeOK, OpenerType
<1>2. /\ opener' \in [Openers -> OpenerType]
      /\ \A s \in Openers \ {t} : opener'[s] = opener[s]
      /\ opener'[t].pc = "grant" /\ opener'[t].grant /\ opener'[t].addr = 0 /\ opener'[t].pnode = 0
  BY <1>1 DEF Acquire, OpenerType, Idle
<1>3. OpenerAt(t)'
  BY <1>2 DEF OpenerAt
<1>4. SlotsOK' /\ sem' \in 0 .. nMaxOutbound
  <2>1. Holders' = Holders /\ Granted' = Granted \cup {t} /\ t \notin Granted
    BY <1>1, <1>2 DEF Holders, Granted, IInv, OpenersOK, OpenerAt
  <2>2. Cardinality(Granted \cup {t}) = Cardinality(Granted) + 1
    BY <2>1, SlotsAre, FS_AddElement
  <2>3. sem' + Cardinality(Holders') + Cardinality(Granted') = nMaxOutbound /\ sem' \in 0 .. nMaxOutbound
    BY <1>1, <2>1, <2>2, SlotsAre
  <2> QED BY <2>3 DEF SlotsOK, Holders, Granted
<1>5. \A n \in vNodes : ~node[n].fInbound => opener'[t].addr # node[n].addr
  BY <1>2 DEF IInv, OutboundOK, OutboundAt
<1> QED BY <1>1, <1>2, <1>3, <1>4, <1>5, ThreadStep

\* The call fails, and the slot goes back.
LEMMA GiveUpKeeps ==
  ASSUME IInv, NEW t \in Openers, GiveUp(t), opener[t].pc \in {"grant", "dial"},
         UNCHANGED <<vNodes, vNodesDisconnected, deleted, node, nRefCount, socket, message>>
  PROVE  IInv'
<1>1. sem' = sem + 1 /\ opener \in [Openers -> OpenerType]
  BY DEF GiveUp, IInv, TypeOK, OpenerType
<1>2. /\ opener' \in [Openers -> OpenerType]
      /\ \A s \in Openers \ {t} : opener'[s] = opener[s]
      /\ opener'[t].pc = "idle" /\ ~opener'[t].grant /\ opener'[t].addr = 0 /\ opener'[t].pnode = 0
  BY <1>1 DEF GiveUp, OpenerType, Idle
<1>3. OpenerAt(t)'
  BY <1>2 DEF OpenerAt
<1>4. SlotsOK' /\ sem' \in 0 .. nMaxOutbound
  <2>1. Holders' = Holders /\ Granted' = Granted \ {t} /\ t \in Granted
    BY <1>1, <1>2 DEF Holders, Granted, IInv, OpenersOK, OpenerAt
  <2>2. Cardinality(Granted \ {t}) = Cardinality(Granted) - 1 /\ IsFiniteSet(Granted \ {t})
    BY <2>1, SlotsAre, FS_RemoveElement
  <2>3. Cardinality(Granted \ {t}) \in Nat
    BY <2>2, FS_CardinalityType
  <2>4. sem' + Cardinality(Holders') + Cardinality(Granted') = nMaxOutbound /\ sem' \in 0 .. nMaxOutbound
    BY <1>1, <2>1, <2>2, <2>3, SlotsAre
  <2> QED BY <2>4 DEF SlotsOK, Holders, Granted
<1>5. \A n \in vNodes : ~node[n].fInbound => opener'[t].addr # node[n].addr
  BY <1>2 DEF IInv, OutboundOK, OutboundAt
<1> QED BY <1>1, <1>2, <1>3, <1>4, <1>5, ThreadStep

\* When no slot moves.
LEMMA SlotsStay ==
  ASSUME IInv, sem' = sem, Holders' = Holders, Granted' = Granted
  PROVE  SlotsOK' /\ sem' \in 0 .. nMaxOutbound
  BY DEF IInv, SlotsOK, Holders, Granted, TypeOK

\* An address is taken up only when no connection has it.
LEMMA OpenNetworkConnectionKeeps ==
  ASSUME IInv, NEW t \in Openers, OpenNetworkConnection(t)
  PROVE  IInv'
<1>1. /\ opener[t].pc = "grant"
      /\ UNCHANGED <<vNodes, vNodesDisconnected, deleted, node, nRefCount, socket, message>>
      /\ opener \in [Openers -> OpenerType]
  BY DEF OpenNetworkConnection, IInv, TypeOK, OpenerType
<1>2. ASSUME NEW a \in Addrs, Found(a) = {}, sem' = sem,
             opener' = [opener EXCEPT ![t].pc = "find", ![t].addr = a]
      PROVE  IInv'
  <2>1. /\ opener' \in [Openers -> OpenerType]
        /\ \A s \in Openers \ {t} : opener'[s] = opener[s]
        /\ opener'[t].pc = "find" /\ opener'[t].grant = opener[t].grant
        /\ opener'[t].addr = a /\ opener'[t].pnode = opener[t].pnode
    BY <1>1, <1>2 DEF OpenerType
  <2>2. OpenerAt(t)
    BY DEF IInv, OpenersOK
  <2>3. OpenerAt(t)'
    BY <1>1, <2>1, <2>2, ConnectionsAssumption DEF OpenerAt
  <2>4. \A n \in vNodes : opener'[t].addr # node[n].addr
    BY <1>2, <2>1 DEF Found
  <2>5. Holders' = Holders /\ Granted' = Granted
    BY <1>1, <2>1 DEF Holders, Granted
  <2>6. SlotsOK' /\ sem' \in 0 .. nMaxOutbound
    BY <1>2, <2>5, SlotsStay
  <2> QED BY <1>1, <2>1, <2>3, <2>4, <2>6, ThreadStep
<1>3. CASE GiveUp(t)
  BY <1>1, <1>3, GiveUpKeeps
<1> QED BY <1>2, <1>3 DEF OpenNetworkConnection

LEMMA FindNodeKeeps ==
  ASSUME IInv, NEW t \in Openers, FindNode(t)
  PROVE  IInv'
<1>1. /\ opener[t].pc = "find" /\ sem' = sem
      /\ UNCHANGED <<vNodes, vNodesDisconnected, deleted, node, nRefCount, socket, message>>
      /\ opener \in [Openers -> OpenerType] /\ vNodes \in SUBSET Nodes
  BY DEF FindNode, IInv, TypeOK, OpenerType
<1>2. OpenerAt(t) /\ opener[t].addr # 0
  BY <1>1 DEF IInv, OpenersOK, OpenerAt
<1> DEFINE Goal ==
      /\ opener' \in [Openers -> OpenerType]
      /\ \A s \in Openers \ {t} : opener'[s] = opener[s]
      /\ opener'[t].grant = opener[t].grant /\ opener'[t].addr = opener[t].addr
      /\ \/ opener'[t].pc = "dial" /\ opener'[t].pnode = opener[t].pnode
         \/ opener'[t].pc = "found" /\ opener'[t].pnode \in Found(opener[t].addr)
<1>3. Goal
  <2>1. CASE opener' = [opener EXCEPT ![t].pc = "dial"]
    BY <1>1, <2>1 DEF OpenerType
  <2>2. ASSUME NEW n \in Found(opener[t].addr), opener' = [opener EXCEPT ![t].pc = "found", ![t].pnode = n]
        PROVE  Goal
    <3>1. n \in Nodes
      BY <1>1 DEF Found
    <3> QED BY <1>1, <2>2, <3>1 DEF OpenerType
  <2> QED BY <2>1, <2>2 DEF FindNode, To
<1>4. \A n \in Found(opener[t].addr) : n \in vNodes /\ node[n].addr = opener[t].addr /\ ~node[n].fInbound
  BY <1>2 DEF Found, IInv, InboundOK
<1>5. OpenerAt(t)'
  BY <1>1, <1>2, <1>3, <1>4 DEF OpenerAt
<1>6. \A n \in vNodes : ~node[n].fInbound /\ node[n].fDisconnect => opener'[t].addr # node[n].addr
  BY <1>3 DEF IInv, OutboundOK, OutboundAt
<1>7. Holders' = Holders /\ Granted' = Granted
  BY <1>1, <1>3 DEF Holders, Granted
<1>8. SlotsOK' /\ sem' \in 0 .. nMaxOutbound
  BY <1>1, <1>7, SlotsStay
<1> QED BY <1>1, <1>3, <1>5, <1>6, <1>8, ThreadStep

\* The places of the nodes when none is made.
LEMMA PlacesStay ==
  ASSUME IInv, UNCHANGED <<vNodes, vNodesDisconnected, deleted>>,
         \A n \in Nodes \ Made : node'[n] = node[n] /\ nRefCount'[n] = nRefCount[n]
  PROVE  PlacesOK' /\ Made' = Made
  BY DEF IInv, PlacesOK, Made

\* A thread that found its address connected takes a reference, which stays.
LEMMA AddRefFoundKeeps ==
  ASSUME IInv, NEW t \in Openers, AddRefFound(t)
  PROVE  IInv'
<1>1. /\ opener[t].pc = "found" /\ sem' = sem
      /\ UNCHANGED <<vNodes, vNodesDisconnected, deleted, socket, message>>
      /\ opener \in [Openers -> OpenerType] /\ vNodes \in SUBSET Nodes
      /\ node \in [Nodes -> NodeType] /\ Made \in SUBSET Nodes
  BY DEF AddRefFound, IInv, TypeOK, OpenerType, NodeType, Made
<1>2. OpenerAt(t) /\ opener[t].pnode \in vNodes
  BY <1>1 DEF IInv, OpenersOK, OpenerAt
<1>p. PICK p \in vNodes : p = opener[t].pnode
  BY <1>2
<1>3. /\ opener' \in [Openers -> OpenerType]
      /\ \A s \in Openers \ {t} : opener'[s] = opener[s]
      /\ opener'[t].grant = opener[t].grant /\ opener'[t].addr = opener[t].addr
      /\ opener'[t].pc = "opened" /\ opener'[t].pnode = opener[t].pnode
  BY <1>1 DEF AddRefFound, To, OpenerType
<1>4. /\ node' \in [Nodes -> NodeType]
      /\ \A n \in Nodes : SameBut({"nFound"}, node'[n], node[n])
      /\ \A n \in Nodes : node'[n].nFound = node[n].nFound + One(n \in {p})
      /\ \A n \in Nodes : n # p => node'[n] = node[n]
  <2>1. node' = [node EXCEPT ![p].nFound = @ + 1] /\ p \in Nodes
    BY <1>1, <1>p DEF AddRefFound
  <2>2. \A n \in Nodes : node[n].nFound \in Nat
    BY <1>1 DEF NodeType
  <2> QED BY <1>1, <2>1, <2>2 DEF NodeType, SameBut, One
<1>5. /\ nRefCount' \in [Nodes -> Nat]
      /\ \A n \in Nodes : nRefCount'[n] = nRefCount[n] + One(n \in {p}) /\ nRefCount[n] \in Nat
  BY <1>p, RefsAre DEF AddRefFound, IInv, TypeOK
<1>6. PlacesOK' /\ Made' = Made
  <2>1. p \in Made
    BY DEF Made
  <2>2. \A n \in Nodes \ Made : node'[n] = node[n] /\ nRefCount'[n] = nRefCount[n]
    BY <2>1, <1>4, <1>5 DEF One
  <2> QED BY <2>2, <1>1, PlacesStay
<1>7. CountOK'
  <2> SUFFICES ASSUME NEW n \in Made \ deleted PROVE nRefCount'[n] = node'[n].nFound + Users(n)'
    BY <1>1, <1>6 DEF CountOK
  <2>1. nRefCount[n] = node[n].nFound + Users(n) /\ node[n].nFound \in Nat /\ n \in Nodes
    BY <1>1 DEF IInv, CountOK, NodeType
  <2>2. Users(n)' = Users(n) /\ Users(n) \in Nat
    BY <1>1 DEF Users, One
  <2> QED BY <2>1, <2>2, <1>4, <1>5 DEF One
<1>8. OutboundOK' /\ InboundOK'
  <2>1. ASSUME NEW n \in vNodes, ~node'[n].fInbound PROVE OutboundAt(n)'
    <3>1. SameBut({"nFound"}, node'[n], node[n])
      BY <1>1, <1>4
    <3>2. OutboundAt(n)
      BY <2>1, <3>1 DEF IInv, OutboundOK, SameBut
    <3>3. \A s \in Openers : /\ opener'[s].addr = opener[s].addr
                             /\ opener[s].pc \in {"opened", "moved"} => opener'[s] = opener[s]
      BY <1>1, <1>3
    <3> QED BY <3>1, <3>2, <3>3 DEF OutboundAt, SameBut
  <2>2. InboundOK'
    BY <1>1, <1>4 DEF IInv, InboundOK, SameBut
  <2> QED BY <1>1, <2>1, <2>2 DEF OutboundOK
<1>9. OpenerAt(t)'
  BY <1>1, <1>2, <1>3, <1>4 DEF OpenerAt, SameBut
<1>10. Holders' = Holders /\ Granted' = Granted
  BY <1>3, <1>4 DEF Holders, Granted, SameBut
<1>11. SlotsOK' /\ sem' \in 0 .. nMaxOutbound
  BY <1>1, <1>10, SlotsStay
<1>12. \A n \in vNodes : SameBut({"fNetworkNode", "grantOutbound", "nFound"}, node'[n], node[n])
  BY <1>1, <1>4 DEF SameBut
<1> QED BY <1>1, <1>3, <1>4, <1>5, <1>6, <1>7, <1>8, <1>9, <1>11, <1>12, OpenerStep

\* A new connection; its slot is still with the thread.
LEMMA ConnectNodeKeeps ==
  ASSUME IInv, NEW t \in Openers, ConnectNode(t)
  PROVE  IInv'
<1>1. /\ opener[t].pc = "dial"
      /\ UNCHANGED <<vNodesDisconnected, deleted, socket, message>>
      /\ opener \in [Openers -> OpenerType] /\ vNodes \in SUBSET Nodes
      /\ node \in [Nodes -> NodeType] /\ Made \in SUBSET Nodes /\ vNodes \subseteq Made
  BY DEF ConnectNode, IInv, TypeOK, OpenerType, NodeType, Made
<1>2. CASE GiveUp(t) /\ UNCHANGED <<vNodes, node, nRefCount>>
  BY <1>1, <1>2, GiveUpKeeps
<1>3. CASE /\ NewNode \in Nodes
           /\ node' = [node EXCEPT ![NewNode].addr = opener[t].addr]
           /\ nRefCount' = AddRef({NewNode})
           /\ vNodes' = vNodes \cup {NewNode}
           /\ opener' = [opener EXCEPT ![t].pc = "opened", ![t].pnode = NewNode]
           /\ sem' = sem
  <2>p. PICK p : p = NewNode
    OBVIOUS
  <2>1. p \notin Made /\ Made' = Made \cup {p} /\ Made' = 1 .. Cardinality(Made') /\ p \in Nodes
    BY <2>p, <1>1, <1>3, NewNodeIsNew DEF IInv, Made
  <2>2. OpenerAt(t) /\ opener[t].addr # 0 /\ opener[t].addr \in Addrs \cup {0}
    BY <1>1 DEF IInv, OpenersOK, OpenerAt, OpenerType
  <2>3. /\ node' \in [Nodes -> NodeType]
        /\ \A n \in Nodes \ {p} : node'[n] = node[n]
        /\ node'[p].addr = opener[t].addr /\ SameBut({"addr"}, node'[p], node[p])
    BY <2>p, <1>1, <1>3, <2>2 DEF NodeType, SameBut
  <2>4. /\ nRefCount' \in [Nodes -> Nat]
        /\ \A n \in Nodes : nRefCount'[n] = nRefCount[n] + One(n \in {p}) /\ nRefCount[n] \in Nat
    BY <2>p, <1>3, RefsAre DEF IInv, TypeOK
  <2>5. nRefCount[p] = 0 /\ node[p].nFound = 0 /\ ~node[p].fInbound /\ ~node[p].fDisconnect
    BY <2>1 DEF IInv, PlacesOK
  <2>6. vNodes' = vNodes \cup {p} /\ vNodes' \in SUBSET Nodes
    BY <2>p, <1>1, <1>3, <2>1
  <2>7. /\ opener' \in [Openers -> OpenerType]
        /\ \A s \in Openers \ {t} : opener'[s] = opener[s]
        /\ opener'[t].grant = opener[t].grant /\ opener'[t].addr = opener[t].addr
        /\ opener'[t].pc = "opened" /\ opener'[t].pnode = p
    BY <2>p, <1>1, <1>3, <2>1 DEF OpenerType
  <2>8. PlacesOK'
    <3>1. \A n \in Nodes \ Made' : nRefCount'[n] = nRefCount[n] /\ node'[n] = node[n] /\ n \notin Made
      BY <2>1, <2>3, <2>4 DEF One
    <3>2. p \notin vNodesDisconnected /\ p \notin deleted
      BY <2>1 DEF Made
    <3> QED BY <1>1, <2>1, <2>6, <3>1, <3>2 DEF IInv, PlacesOK
  <2>9. CountOK'
    <3> SUFFICES ASSUME NEW n \in Made' \ deleted'
                 PROVE  nRefCount'[n] = node'[n].nFound + Users(n)'
      BY DEF CountOK
    <3>1. CASE n = p
      <4>1. p \notin message.copied /\ p \notin socket.copied
        BY <2>1 DEF IInv, CopiesOK
      <4>2. Users(n)' = 1
        BY <3>1, <4>1, <1>1, <2>6 DEF Users, One
      <4> QED BY <3>1, <4>2, <2>1, <2>3, <2>4, <2>5 DEF One, SameBut
    <3>2. CASE n # p
      <4>1. n \in Made \ deleted /\ n \in Nodes
        BY <3>2, <1>1, <2>1
      <4>2. Users(n)' = Users(n)
        BY <3>2, <1>1, <2>6 DEF Users, One
      <4>3. nRefCount'[n] = nRefCount[n] /\ node'[n] = node[n]
        BY <3>2, <4>1, <2>3, <2>4 DEF One
      <4> QED BY <4>1, <4>2, <4>3 DEF IInv, CountOK
    <3> QED BY <3>1, <3>2
  <2>10. \A n \in vNodes : n \in vNodes' /\ node'[n] = node[n]
    BY <1>1, <2>1, <2>3, <2>6
  <2>11. InboundOK'
    BY <2>3, <2>5, <2>6, <2>10 DEF IInv, InboundOK, SameBut
  <2>12. OutboundOK'
    <3> SUFFICES ASSUME NEW n \in vNodes', ~node'[n].fInbound PROVE OutboundAt(n)'
      BY DEF OutboundOK
    <3>1. CASE n = p
      BY <3>1, <2>2, <2>3, <2>5, <2>7 DEF OutboundAt, SameBut
    <3>2. CASE n # p
      <4>1. n \in vNodes /\ node'[n] = node[n]
        BY <3>2, <2>6, <2>10
      <4>2. OutboundAt(n)
        BY <4>1 DEF IInv, OutboundOK
      <4>3. \A s \in Openers : /\ opener'[s].addr = opener[s].addr
                               /\ opener[s].pc \in {"opened", "moved"} => opener'[s] = opener[s]
        BY <1>1, <2>7
      <4> QED BY <4>1, <4>2, <4>3 DEF OutboundAt
    <3> QED BY <3>1, <3>2
  <2>13. OpenerAt(t)'
    BY <1>1, <2>2, <2>3, <2>5, <2>6, <2>7 DEF OpenerAt, SameBut
  <2>14. Holders' = Holders /\ Granted' = Granted
    BY <2>1, <2>3, <2>7 DEF Holders, Granted, SameBut
  <2>15. SlotsOK' /\ sem' \in 0 .. nMaxOutbound
    BY <1>3, <2>14, SlotsStay
  <2>16. \A n \in vNodes : SameBut({"fNetworkNode", "grantOutbound", "nFound"}, node'[n], node[n])
    BY <2>10 DEF SameBut
  <2> QED BY <1>1, <2>3, <2>4, <2>6, <2>7, <2>8, <2>9, <2>11, <2>12, <2>13, <2>15, <2>16, OpenerStep
<1> QED BY <1>2, <1>3 DEF ConnectNode

\* The slot goes to the node, or back when the node has one.
LEMMA MoveToKeeps ==
  ASSUME IInv, NEW t \in Openers, MoveTo(t)
  PROVE  IInv'
<1>1. /\ opener[t].pc = "opened"
      /\ UNCHANGED <<vNodes, vNodesDisconnected, deleted, nRefCount, socket, message>>
      /\ opener \in [Openers -> OpenerType] /\ vNodes \in SUBSET Nodes
      /\ node \in [Nodes -> NodeType] /\ Made \in SUBSET Nodes
      /\ nRefCount' \in [Nodes -> Nat]
  BY DEF MoveTo, IInv, TypeOK, OpenerType, NodeType, Made
<1>2. OpenerAt(t) /\ opener[t].pnode \in vNodes
  BY <1>1 DEF IInv, OpenersOK, OpenerAt
<1>p. PICK p \in vNodes : p = opener[t].pnode
  BY <1>2
<1>3. /\ opener' \in [Openers -> OpenerType]
      /\ \A s \in Openers \ {t} : opener'[s] = opener[s]
      /\ ~opener'[t].grant /\ opener'[t].addr = opener[t].addr
      /\ opener'[t].pc = "moved" /\ opener'[t].pnode = opener[t].pnode
  BY <1>1 DEF MoveTo, OpenerType
<1>4. /\ node' \in [Nodes -> NodeType]
      /\ \A n \in Nodes : SameBut({"grantOutbound"}, node'[n], node[n])
      /\ \A n \in Nodes : n # p => node'[n] = node[n]
      /\ node'[p].grantOutbound /\ p \in Nodes
  <2>1. node' = [node EXCEPT ![p].grantOutbound = TRUE] /\ p \in Nodes
    BY <1>1, <1>p DEF MoveTo
  <2> QED BY <1>1, <2>1 DEF NodeType, SameBut
<1>5. PlacesOK' /\ Made' = Made
  <2>1. p \in Made
    BY DEF Made
  <2>2. \A n \in Nodes \ Made : node'[n] = node[n] /\ nRefCount'[n] = nRefCount[n]
    BY <2>1, <1>1, <1>4
  <2> QED BY <2>2, <1>1, PlacesStay
<1>6. CountOK'
  <2>1. \A n : Users(n)' = Users(n)
    BY <1>1 DEF Users
  <2> QED BY <1>1, <1>4, <1>5, <2>1 DEF IInv, CountOK, SameBut
<1>7. InboundOK'
  BY <1>1, <1>4 DEF IInv, InboundOK, SameBut
<1>8. OutboundOK'
  <2> SUFFICES ASSUME NEW n \in vNodes, ~node'[n].fInbound PROVE OutboundAt(n)'
    BY <1>1 DEF OutboundOK
  <2>1. SameBut({"grantOutbound"}, node'[n], node[n]) /\ (n # p => node'[n] = node[n])
    BY <1>1, <1>4
  <2>2. OutboundAt(n)
    BY <2>1 DEF IInv, OutboundOK, SameBut
  <2>3. \A s \in Openers : /\ opener'[s].addr = opener[s].addr
                           /\ opener[s].pc = "moved" => opener'[s] = opener[s]
                           /\ opener[s].pc = "opened" =>
                                 /\ opener'[s].pc \in {"opened", "moved"}
                                 /\ opener'[s].pnode = opener[s].pnode
                           /\ opener[s].pnode # p => opener'[s] = opener[s]
    BY <1>1, <1>3, <1>p
  <2>4. n = p => node'[n].grantOutbound
    BY <1>4
  <2> QED BY <2>1, <2>2, <2>3, <2>4 DEF OutboundAt, SameBut
<1>9. OpenerAt(t)'
  BY <1>1, <1>2, <1>3, <1>4 DEF OpenerAt, SameBut
<1>10. SlotsOK' /\ sem' \in 0 .. nMaxOutbound
  <2>1. Granted' = Granted \ {t} /\ t \in Granted
    BY <1>1, <1>2, <1>3 DEF Granted, OpenerAt
  <2>2. Cardinality(Granted \ {t}) = Cardinality(Granted) - 1 /\ IsFiniteSet(Granted \ {t})
    BY <2>1, SlotsAre, FS_RemoveElement
  <2>3. Cardinality(Granted \ {t}) \in Nat
    BY <2>2, FS_CardinalityType
  <2>4. Holders' = Holders \cup {p}
    BY <1>4 DEF Holders, SameBut
  <2>5. Cardinality(Holders \cup {p}) = IF p \in Holders THEN Cardinality(Holders) ELSE Cardinality(Holders) + 1
    BY SlotsAre, FS_AddElement
  <2>6. sem' = IF p \in Holders THEN sem + 1 ELSE sem
    BY <1>p, <1>4 DEF MoveTo, Holders
  <2>7. sem' + Cardinality(Holders') + Cardinality(Granted') = nMaxOutbound /\ sem' \in 0 .. nMaxOutbound
    BY <2>1, <2>2, <2>3, <2>4, <2>5, <2>6, SlotsAre
  <2> QED BY <2>7 DEF SlotsOK, Holders, Granted
<1>11. \A n \in vNodes : SameBut({"fNetworkNode", "grantOutbound", "nFound"}, node'[n], node[n])
  BY <1>1, <1>4 DEF SameBut
<1> QED BY <1>1, <1>3, <1>4, <1>5, <1>6, <1>7, <1>8, <1>9, <1>10, <1>11, OpenerStep

\* The thread has done with the node, which may end from now on.
LEMMA SetNetworkNodeKeeps ==
  ASSUME IInv, NEW t \in Openers, SetNetworkNode(t)
  PROVE  IInv'
<1>1. /\ opener[t].pc = "moved" /\ sem' = sem
      /\ UNCHANGED <<vNodes, vNodesDisconnected, deleted, nRefCount, socket, message>>
      /\ opener \in [Openers -> OpenerType] /\ vNodes \in SUBSET Nodes
      /\ node \in [Nodes -> NodeType] /\ Made \in SUBSET Nodes
      /\ nRefCount' \in [Nodes -> Nat]
  BY DEF SetNetworkNode, IInv, TypeOK, OpenerType, NodeType, Made
<1>2. OpenerAt(t) /\ opener[t].pnode \in vNodes
  BY <1>1 DEF IInv, OpenersOK, OpenerAt
<1>p. PICK p \in vNodes : p = opener[t].pnode
  BY <1>2
<1>3. /\ opener' \in [Openers -> OpenerType]
      /\ \A s \in Openers \ {t} : opener'[s] = opener[s]
      /\ ~opener'[t].grant /\ opener'[t].addr = 0
      /\ opener'[t].pc = "idle" /\ opener'[t].pnode = 0
  BY <1>1 DEF SetNetworkNode, OpenerType, Idle
<1>4. /\ node' \in [Nodes -> NodeType]
      /\ \A n \in Nodes : SameBut({"fNetworkNode"}, node'[n], node[n])
      /\ \A n \in Nodes : n # p => node'[n] = node[n]
      /\ node'[p].fNetworkNode /\ p \in Nodes
  <2>1. node' = [node EXCEPT ![p].fNetworkNode = TRUE] /\ p \in Nodes
    BY <1>1, <1>p DEF SetNetworkNode
  <2> QED BY <1>1, <2>1 DEF NodeType, SameBut
<1>5. PlacesOK' /\ Made' = Made
  <2>1. p \in Made
    BY DEF Made
  <2>2. \A n \in Nodes \ Made : node'[n] = node[n] /\ nRefCount'[n] = nRefCount[n]
    BY <2>1, <1>1, <1>4
  <2> QED BY <2>2, <1>1, PlacesStay
<1>6. CountOK'
  <2>1. \A n : Users(n)' = Users(n)
    BY <1>1 DEF Users
  <2> QED BY <1>1, <1>4, <1>5, <2>1 DEF IInv, CountOK, SameBut
<1>7. InboundOK'
  BY <1>1, <1>4 DEF IInv, InboundOK, SameBut
<1>8. OutboundOK'
  <2> SUFFICES ASSUME NEW n \in vNodes, ~node'[n].fInbound PROVE OutboundAt(n)'
    BY <1>1 DEF OutboundOK
  <2>1. SameBut({"fNetworkNode"}, node'[n], node[n]) /\ (n # p => node'[n] = node[n])
    BY <1>1, <1>4
  <2>2. OutboundAt(n)
    BY <2>1 DEF IInv, OutboundOK, SameBut
  <2>3. \A s \in Openers : /\ opener[s].pc = "opened" => opener'[s] = opener[s]
                           /\ opener[s].pnode # p => opener'[s] = opener[s]
                           /\ opener'[s].addr \in {opener[s].addr, 0}
    BY <1>1, <1>3, <1>p
  <2>4. n = p => node'[n].fNetworkNode
    BY <1>4
  <2> QED BY <2>1, <2>2, <2>3, <2>4 DEF OutboundAt, SameBut
<1>9. OpenerAt(t)'
  BY <1>3 DEF OpenerAt
<1>10. Holders' = Holders /\ Granted' = Granted
  BY <1>1, <1>2, <1>3, <1>4 DEF Holders, Granted, SameBut, OpenerAt
<1>11. SlotsOK' /\ sem' \in 0 .. nMaxOutbound
  BY <1>1, <1>10, SlotsStay
<1>12. \A n \in vNodes : SameBut({"fNetworkNode", "grantOutbound", "nFound"}, node'[n], node[n])
  BY <1>1, <1>4 DEF SameBut
<1> QED BY <1>1, <1>3, <1>4, <1>5, <1>6, <1>7, <1>8, <1>9, <1>11, <1>12, OpenerStep

(***************************************************************************)
(* The invariant is inductive.                                             *)
(***************************************************************************)
LEMMA InitIInv == ~EarlyEnd /\ Init => IInv
<1> SUFFICES ASSUME ~EarlyEnd, Init PROVE IInv
  OBVIOUS
<1>1. Made = {} /\ MaxNodes \in Nat /\ nMaxOutbound \in Nat /\ IsFiniteSet({}) /\ Cardinality({}) = 0
  BY FS_EmptySet, ConnectionsAssumption DEF Init, Made
<1>2. TypeOK
  <2>1. NoNode \in NodeType /\ Idle \in OpenerType
    BY DEF NoNode, Idle, NodeType, OpenerType
  <2> QED BY <1>1, <2>1 DEF Init, TypeOK, NodeType, OpenerType
<1>3. PlacesOK
  <2>1. 1 .. 0 = {}
    OBVIOUS
  <2> QED BY <1>1, <2>1 DEF Init, PlacesOK, NoNode
<1>4. CopiesOK /\ CountOK
  BY <1>1 DEF Init, CopiesOK, CountOK
<1>5. OpenersOK /\ OutboundOK /\ InboundOK
  BY DEF Init, OpenersOK, OpenerAt, OutboundOK, InboundOK, Idle
<1>6. SlotsOK
  <2>1. Holders = {} /\ Granted = {}
    BY DEF Init, Holders, Granted, NoNode, Idle
  <2>2. sem = nMaxOutbound /\ sem + Cardinality(Holders) + Cardinality(Granted) = nMaxOutbound
    BY <1>1, <2>1 DEF Init
  <2> QED BY <2>2 DEF SlotsOK, Holders, Granted
<1> QED BY <1>2, <1>3, <1>4, <1>5, <1>6 DEF IInv

LEMMA StepIInv == IInv /\ [Next]_vars => IInv'
<1> SUFFICES ASSUME IInv, [Next]_vars PROVE IInv'
  OBVIOUS
<1>1. CASE SocketHandler
  BY <1>1, DisconnectKeeps, AcceptKeeps, SocketCopyKeeps, SocketServiceKeeps, SocketReleaseKeeps
  DEF SocketHandler
<1>2. CASE MessageHandler
  BY <1>2, MessageCopyKeeps, ProcessMessagesKeeps, MessageReleaseKeeps DEF MessageHandler
<1>3. ASSUME NEW t \in Openers, Opening(t) PROVE IInv'
  BY <1>3, AcquireKeeps, OpenNetworkConnectionKeeps, FindNodeKeeps, AddRefFoundKeeps,
     ConnectNodeKeeps, MoveToKeeps, SetNetworkNodeKeeps
  DEF Opening
<1>4. CASE UNCHANGED vars
  <2>1. TypeOK' /\ PlacesOK'
    BY <1>4 DEF vars, IInv, TypeOK, PlacesOK, Made
  <2>2. CopiesOK' /\ CountOK'
    BY <1>4 DEF vars, IInv, CopiesOK, CountOK, Users, Made
  <2>3. OpenersOK' /\ OutboundOK' /\ InboundOK' /\ SlotsOK'
    BY <1>4 DEF vars, IInv, OpenersOK, OpenerAt, OutboundOK, OutboundAt, InboundOK, SlotsOK
  <2> QED BY <2>1, <2>2, <2>3 DEF IInv
<1> QED BY <1>1, <1>2, <1>3, <1>4 DEF Next

LEMMA IInvHolds == ~EarlyEnd /\ Spec => []IInv
  BY InitIInv, StepIInv, PTL DEF Spec

(***************************************************************************)
(* The theorems.  They hold when no connection ends while a thread opens   *)
(* one to its address; with EarlyEnd the code breaks them.                 *)
(***************************************************************************)
\* The state has its type; no count is negative, which GetRefCount asserts
\* (net.h:262), and the semaphore never has more slots than it began with.
THEOREM TypeCorrect == ~EarlyEnd /\ Spec => []TypeOK
<1>1. IInv => TypeOK
  BY DEF IInv
<1> QED BY <1>1, IInvHolds, PTL

\* A node is deleted only when no handler has it in its copy of vNodes and no
\* thread opens a connection to it (net.cpp, ThreadSocketHandler2).
THEOREM NoNodeIsFreedInUse == ~EarlyEnd /\ Spec => []NoneFreedInUse
<1>1. IInv => NoneFreedInUse
  <2> SUFFICES ASSUME IInv PROVE NoneFreedInUse
    OBVIOUS
  <2>1. (socket.copied \cup message.copied) \cap deleted = {}
    BY DEF IInv, CopiesOK
  <2>2. \A t \in Openers : opener[t].pnode # 0 => opener[t].pnode \notin deleted
    BY DEF IInv, OpenersOK, OpenerAt, PlacesOK
  <2> QED BY <2>1, <2>2 DEF NoneFreedInUse, InUse
<1> QED BY <1>1, IInvHolds, PTL

\* The reference count of a node is the number of those who have it, whatever
\* the interleaving of the handlers' copies and the opening threads.
THEOREM CountsAreUsers == ~EarlyEnd /\ Spec => []CountIsUsers
<1>1. IInv => CountIsUsers
  BY UsersCounted DEF IInv, CountOK, CountIsUsers
<1> QED BY <1>1, IInvHolds, PTL

\* No slot of semOutbound is lost or doubled on its way from the semaphore to
\* the thread and to the node, so that there are never more outbound
\* connections than slots.
THEOREM OutboundIsLimited == ~EarlyEnd /\ Spec => []OutboundLimit
<1>1. IInv => OutboundLimit
  BY LimitFollows
<1> QED BY <1>1, IInvHolds, PTL

(***************************************************************************)
(* Requests: the announcements of the peers and what is asked of them.     *)
(***************************************************************************)
Requests == INSTANCE Inventory

Typed == Requests!InventoryAssumption /\ Requests!TypeOK

\* The request is planned for now or for Retry after the last one.
LEMMA RequestTimeIs ==
  ASSUME Typed, NEW i \in Inv
  PROVE  Requests!RequestTime(i) \in Nat
<1>1. mapAlreadyAskedFor[i] \in Int /\ Retry \in Nat
  BY DEF Typed, Requests!TypeOK, Requests!InventoryAssumption
<1>2. PICK t \in Int : t = mapAlreadyAskedFor[i] + Retry
  BY <1>1
<1>3. \E x \in {t, 0} : \A y \in {t, 0} : x >= y
  <2>1. CASE t >= 0
    BY <1>2, <2>1
  <2>2. CASE t < 0
    BY <1>2, <2>2
  <2> QED BY <1>2, <2>1, <2>2
<1>4. Requests!Max({t, 0}) \in {t, 0} /\ \A y \in {t, 0} : Requests!Max({t, 0}) >= y
  BY <1>3 DEF Requests!Max
<1> QED BY <1>2, <1>4 DEF Requests!RequestTime

(***************************************************************************)
(* Types.                                                                  *)
(***************************************************************************)
LEMMA InitTypeOK ==
  ASSUME Requests!InventoryAssumption, Requests!Init
  PROVE  Typed
<1>1. Retry \in Nat /\ 0 - Retry \in 0 - Retry .. MaxAhead /\ Retry \in 0 .. Retry
      /\ 0 \in 0 .. MaxAnnounce /\ 0 \in 0 .. MaxDisconnect
  BY DEF Typed, Requests!TypeOK, Requests!InventoryAssumption
<1>2. mapAlreadyAskedFor \in [Inv -> 0 - Retry .. MaxAhead] /\ sinceAsked \in [Inv -> 0 .. Retry]
  BY <1>1 DEF Requests!Init
<1>3. announced \in [Peer -> [Inv -> 0 .. MaxAnnounce]]
  BY <1>1 DEF Requests!Init
<1> QED BY <1>1, <1>2, <1>3 DEF Typed, Requests!TypeOK, Requests!Init

LEMMA ReceiveInvType ==
  ASSUME Typed, NEW p \in Peer, NEW i \in Inv, Requests!ReceiveInv(p, i)
  PROVE  Typed'
<1>1. announced' \in [Peer -> [Inv -> 0 .. MaxAnnounce]]
  <2>1. announced[p][i] + 1 \in 0 .. MaxAnnounce
    BY DEF Typed, Requests!TypeOK, Requests!ReceiveInv, Requests!InventoryAssumption
  <2> QED BY <2>1 DEF Typed, Requests!TypeOK, Requests!ReceiveInv
<1>2. CASE i \in have
  BY <1>1, <1>2 DEF Typed, Requests!TypeOK, Requests!ReceiveInv
<1>3. CASE i \notin have
  <2>1. Requests!RequestTime(i) \in 0 .. MaxAhead /\ Requests!RequestTime(i) \in 0 - Retry .. MaxAhead
    BY <1>3, RequestTimeIs DEF Typed, Requests!TypeOK, Requests!ReceiveInv, Requests!InventoryAssumption
  <2>2. mapAlreadyAskedFor' \in [Inv -> 0 - Retry .. MaxAhead]
    BY <1>3, <2>1 DEF Typed, Requests!TypeOK, Requests!ReceiveInv
  <2>3. mapAskFor' \in [Peer -> SUBSET ((0 .. MaxAhead) \X Inv)]
    <3>1. <<Requests!RequestTime(i), i>> \in (0 .. MaxAhead) \X Inv
      BY <2>1
    <3>2. mapAskFor[p] \cup {<<Requests!RequestTime(i), i>>} \in SUBSET ((0 .. MaxAhead) \X Inv)
      BY <3>1 DEF Typed, Requests!TypeOK
    <3> QED BY <1>3, <3>2 DEF Typed, Requests!TypeOK, Requests!ReceiveInv
  <2> QED BY <1>1, <2>2, <2>3 DEF Typed, Requests!TypeOK, Requests!ReceiveInv
<1> QED BY <1>2, <1>3

LEMMA SendMessagesType ==
  ASSUME Typed, NEW p \in Peer, Requests!SendMessages(p)
  PROVE  Typed'
<1>1. Requests!Wanted(p) \subseteq Inv
  BY DEF Typed, Requests!TypeOK, Requests!Wanted, Requests!Due
<1>2. 0 \in 0 - Retry .. MaxAhead /\ 0 \in 0 .. Retry
  BY DEF Typed, Requests!TypeOK, Requests!InventoryAssumption
<1>3. mapAlreadyAskedFor' \in [Inv -> 0 - Retry .. MaxAhead] /\ sinceAsked' \in [Inv -> 0 .. Retry]
  BY <1>2 DEF Typed, Requests!TypeOK, Requests!SendMessages
<1>4. asked' \in [Peer -> SUBSET Inv]
  BY <1>1 DEF Typed, Requests!TypeOK, Requests!SendMessages
<1>5. mapAskFor' \in [Peer -> SUBSET ((0 .. MaxAhead) \X Inv)]
  BY DEF Typed, Requests!TypeOK, Requests!SendMessages
<1> QED BY <1>3, <1>4, <1>5 DEF Typed, Requests!TypeOK, Requests!SendMessages

LEMMA TickType ==
  ASSUME Typed, Requests!Tick
  PROVE  Typed'
<1>1. \A i \in Inv : Requests!Less(mapAlreadyAskedFor[i], 0 - Retry) \in 0 - Retry .. MaxAhead
  BY DEF Typed, Requests!TypeOK, Requests!Less, Requests!InventoryAssumption
<1>2. mapAlreadyAskedFor' \in [Inv -> 0 - Retry .. MaxAhead]
  BY <1>1 DEF Requests!Tick
<1>3. \A i \in Inv : (IF sinceAsked[i] < Retry THEN sinceAsked[i] + 1 ELSE Retry) \in 0 .. Retry
  BY DEF Typed, Requests!TypeOK, Requests!InventoryAssumption
<1>4. sinceAsked' \in [Inv -> 0 .. Retry]
  BY <1>3 DEF Requests!Tick
<1>5. \A e \in (0 .. MaxAhead) \X Inv : <<Requests!Less(e[1], 0), e[2]>> \in (0 .. MaxAhead) \X Inv
  BY DEF Typed, Requests!TypeOK, Requests!Less, Requests!InventoryAssumption
<1>6. mapAskFor' \in [Peer -> SUBSET ((0 .. MaxAhead) \X Inv)]
  BY <1>5 DEF Typed, Requests!TypeOK, Requests!Tick
<1> QED BY <1>2, <1>4, <1>6 DEF Typed, Requests!TypeOK, Requests!Tick

LEMMA StepTypeOK ==
  ASSUME Typed, [Requests!Next]_(Requests!vars)
  PROVE  Typed'
<1>1. ASSUME NEW p \in Peer, NEW i \in Inv, Requests!Receive(p, i) PROVE Typed'
  <2>1. 0 - Retry \in 0 - Retry .. MaxAhead
    BY DEF Typed, Requests!TypeOK, Requests!InventoryAssumption
  <2>2. mapAlreadyAskedFor' \in [Inv -> 0 - Retry .. MaxAhead]
    BY <1>1, <2>1 DEF Typed, Requests!TypeOK, Requests!Receive
  <2>3. asked' \in [Peer -> SUBSET Inv]
    BY <1>1 DEF Typed, Requests!TypeOK, Requests!Receive
  <2> QED BY <1>1, <2>2, <2>3 DEF Typed, Requests!TypeOK, Requests!Receive
<1>2. ASSUME NEW p \in Peer, Requests!Disconnect(p) PROVE Typed'
  <2>1. [i \in Inv |-> 0] \in [Inv -> 0 .. MaxAnnounce]
    BY DEF Typed, Requests!TypeOK, Requests!InventoryAssumption
  <2>2. announced' \in [Peer -> [Inv -> 0 .. MaxAnnounce]]
    BY <1>2, <2>1 DEF Typed, Requests!TypeOK, Requests!Disconnect
  <2>3. disconnects' \in 0 .. MaxDisconnect
    BY <1>2 DEF Typed, Requests!TypeOK, Requests!Disconnect, Requests!InventoryAssumption
  <2>4. asked' \in [Peer -> SUBSET Inv] /\ mapAskFor' \in [Peer -> SUBSET ((0 .. MaxAhead) \X Inv)]
    BY <1>2 DEF Typed, Requests!TypeOK, Requests!Disconnect
  <2> QED BY <1>2, <2>2, <2>3, <2>4 DEF Typed, Requests!TypeOK, Requests!Disconnect
<1>3. CASE UNCHANGED Requests!vars
  BY <1>3 DEF Typed, Requests!TypeOK, Requests!vars
<1> QED BY <1>1, <1>2, <1>3, ReceiveInvType, SendMessagesType, TickType DEF Requests!Next

(***************************************************************************)
(* The promise, for one peer and one item.                                 *)
(***************************************************************************)
Remembered(p, i) ==
    announced[p][i] > 0 /\ i \notin have =>
        i \in asked[p] \/ \E e \in mapAskFor[p] : e[2] = i

\* What is new at the peer of the step, and nothing is lost at another.
LEMMA StepRemembers ==
  ASSUME Typed, [Requests!Next]_(Requests!vars), NEW p \in Peer, NEW i \in Inv, Remembered(p, i)
  PROVE  Remembered(p, i)'
<1>1. ASSUME NEW q \in Peer, NEW j \in Inv, Requests!ReceiveInv(q, j) PROVE Remembered(p, i)'
  <2>1. have' = have /\ asked' = asked
    BY <1>1 DEF Requests!ReceiveInv
  <2>2. mapAskFor[p] \subseteq mapAskFor'[p]
    BY <1>1 DEF Typed, Requests!TypeOK, Requests!ReceiveInv
  <2>3. CASE p = q /\ i = j
    <3>1. i \notin have => <<Requests!RequestTime(i), i>> \in mapAskFor'[p]
      BY <1>1, <2>3 DEF Typed, Requests!TypeOK, Requests!ReceiveInv
    <3> QED BY <2>1, <3>1 DEF Remembered
  <2>4. CASE ~(p = q /\ i = j)
    <3>1. announced'[p][i] = announced[p][i]
      BY <1>1, <2>4 DEF Typed, Requests!TypeOK, Requests!ReceiveInv
    <3> QED BY <2>1, <2>2, <3>1 DEF Remembered
  <2> QED BY <2>3, <2>4
<1>2. ASSUME NEW q \in Peer, NEW j \in Inv, Requests!Receive(q, j) PROVE Remembered(p, i)'
  <2>1. /\ announced' = announced /\ mapAskFor' = mapAskFor /\ have' = have \cup {j}
        /\ (i # j => (i \in asked[p] => i \in asked'[p]))
    BY <1>2 DEF Typed, Requests!TypeOK, Requests!Receive
  <2> QED BY <2>1 DEF Remembered
<1>3. ASSUME NEW q \in Peer, Requests!SendMessages(q) PROVE Remembered(p, i)'
  <2>1. announced' = announced /\ have' = have /\ asked[p] \subseteq asked'[p]
    BY <1>3 DEF Typed, Requests!TypeOK, Requests!SendMessages
  <2>2. ASSUME NEW e \in mapAskFor[p], e[2] = i, i \notin have
        PROVE  e \in mapAskFor'[p] \/ i \in asked'[p]
    <3>1. CASE e \in Requests!Due(p) /\ p = q
      <4>1. i \in Requests!Wanted(p)
        BY <2>2, <3>1 DEF Requests!Wanted
      <4> QED BY <1>3, <3>1, <4>1 DEF Typed, Requests!TypeOK, Requests!SendMessages
    <3>2. CASE ~(e \in Requests!Due(p) /\ p = q)
      BY <1>3, <3>2 DEF Typed, Requests!TypeOK, Requests!SendMessages
    <3> QED BY <3>1, <3>2
  <2> QED BY <2>1, <2>2 DEF Remembered
<1>4. ASSUME NEW q \in Peer, Requests!Disconnect(q) PROVE Remembered(p, i)'
  <2>1. CASE p = q
    <3>1. announced'[p][i] = 0
      BY <1>4, <2>1 DEF Typed, Requests!TypeOK, Requests!Disconnect
    <3> QED BY <3>1 DEF Remembered
  <2>2. CASE p # q
    <3>1. announced'[p] = announced[p] /\ mapAskFor'[p] = mapAskFor[p] /\ asked'[p] = asked[p]
          /\ have' = have
      BY <1>4, <2>2 DEF Typed, Requests!TypeOK, Requests!Disconnect
    <3> QED BY <3>1 DEF Remembered
  <2> QED BY <2>1, <2>2
<1>5. CASE Requests!Tick
  <2>1. announced' = announced /\ have' = have /\ asked' = asked
    BY <1>5 DEF Requests!Tick
  <2>2. ASSUME NEW e \in mapAskFor[p], e[2] = i PROVE \E f \in mapAskFor'[p] : f[2] = i
    <3>1. <<Requests!Less(e[1], 0), e[2]>> \in mapAskFor'[p]
      BY <1>5 DEF Requests!Tick
    <3> QED BY <2>2, <3>1
  <2> QED BY <2>1, <2>2 DEF Remembered
<1>6. CASE UNCHANGED Requests!vars
  BY <1>6 DEF Requests!vars, Remembered
<1> QED BY <1>1, <1>2, <1>3, <1>4, <1>5, <1>6 DEF Requests!Next

(***************************************************************************)
(* The types of the variables; the planned times stay within their bound.  *)
(***************************************************************************)
THEOREM RequestTypes ==
    Requests!InventoryAssumption /\ Requests!Spec => []Requests!TypeOK
<1>1. Requests!InventoryAssumption /\ Requests!Init => Typed
  BY InitTypeOK DEF Typed
<1>2. Typed /\ [Requests!Next]_(Requests!vars) => Typed'
  BY StepTypeOK
<1>3. Typed => Requests!TypeOK
  BY DEF Typed
<1> QED BY <1>1, <1>2, <1>3, PTL DEF Requests!Spec

(***************************************************************************)
(* What a peer announced over the connection it still has, and the node    *)
(* has not got, is queued at that peer or was asked of it, however many    *)
(* peers announce and however SendMessages moves the shared times (AskFor, *)
(* SendMessages).                                                          *)
(***************************************************************************)
THEOREM NothingIsForgotten ==
    Requests!InventoryAssumption /\ Requests!Spec => []NothingForgotten
<1>1. Requests!InventoryAssumption /\ Requests!Init => Typed /\ NothingForgotten
  BY InitTypeOK DEF Typed, Requests!Init, NothingForgotten
<1>2. Typed /\ NothingForgotten /\ [Requests!Next]_(Requests!vars)
        => Typed' /\ NothingForgotten'
  <2> SUFFICES ASSUME Typed, NothingForgotten, [Requests!Next]_(Requests!vars)
               PROVE  Typed' /\ NothingForgotten'
    OBVIOUS
  <2>1. ASSUME NEW p \in Peer, NEW i \in Inv PROVE Remembered(p, i)'
    <3>1. Remembered(p, i)
      BY DEF NothingForgotten, Remembered
    <3> QED BY <3>1, StepRemembers
  <2>2. NothingForgotten'
    BY <2>1 DEF NothingForgotten, Remembered
  <2> QED BY <2>2, StepTypeOK
<1> QED BY <1>1, <1>2, PTL DEF Requests!Spec

(***************************************************************************)
(* Download: the blocks of one node, asked for and announced in batches.   *)
(***************************************************************************)
Download == INSTANCE BlockDownload

\* A set of natural numbers that is not empty has a least element.
LEMMA LeastNatural ==
    ASSUME NEW T \in SUBSET Nat, T # {}
    PROVE  \E m \in T : \A k \in T : m <= k
  <1>1. PICK R : IsWellFoundedOn(R, Nat) /\ \A x, y \in Nat : x < y => <<x, y>> \in R
    <2> DEFINE R == OpToRel(<, Nat)
    <2>1. IsWellFoundedOn(R, Nat)  BY NatLessThanWellFounded
    <2>2. \A x, y \in Nat : x < y => <<x, y>> \in R  BY DEF OpToRel
    <2> HIDE DEF R
    <2> QED  BY <2>1, <2>2
  <1>2. \E m \in T : \A y \in T : ~ (<<y, m>> \in R)
    <2>1. IsWellFoundedOn(R, Nat) /\ T \subseteq Nat /\ T # {}  BY <1>1
    <2> QED  BY <2>1, WFMin
  <1>3. PICK m \in T : \A y \in T : ~ (<<y, m>> \in R)  BY <1>2
  <1>4. \A y \in T : ~(y < m)  BY <1>1, <1>3
  <1> QED  BY <1>4

\* A set that has 0, and every number whose predecessor it has, has them all.
LEMMA UpTo ==
    ASSUME NEW n \in Nat, NEW T, 0 \in T, \A i \in 1 .. n : i - 1 \in T => i \in T
    PROVE  \A i \in 0 .. n : i \in T
  <1> DEFINE Bad == {i \in 0 .. n : i \notin T}
  <1>1. SUFFICES ASSUME Bad # {} PROVE FALSE
    OBVIOUS
  <1>2. Bad \in SUBSET Nat  OBVIOUS
  <1>3. PICK m \in Bad : \A k \in Bad : m <= k  BY <1>1, <1>2, LeastNatural
  <1>4. m \in 1 .. n /\ m - 1 \in 0 .. n /\ ~(m <= m - 1)  BY <1>3
  <1>5. m - 1 \notin Bad  BY <1>3, <1>4
  <1> QED  BY <1>3, <1>4, <1>5

\* n functions on S may be applied one after the other.
Iterates(f, S, n, base, step) ==
    /\ f \in [0 .. n -> S]
    /\ f[0] = base
    /\ \A i \in 1 .. n : f[i] = step[i][f[i - 1]]

LEMMA Iterated ==
    ASSUME NEW S, NEW n \in Nat, NEW base \in S, NEW step \in [1 .. n -> [S -> S]]
    PROVE  \E f : Iterates(f, S, n, base, step)
  <1> DEFINE Tr(k, f) == /\ f \in [0 .. k -> S] /\ f[0] = base
                         /\ \A i \in 1 .. k : f[i] = step[i][f[i - 1]]
             T == {k \in 0 .. n : \E f : Tr(k, f)}
  <1>1. 0 \in T
    <2>1. Tr(0, [i \in 0 .. 0 |-> base])  OBVIOUS
    <2>2. 0 \in 0 .. n  OBVIOUS
    <2> HIDE DEF Tr
    <2> QED  BY <2>1, <2>2
  <1>2. ASSUME NEW m \in 1 .. n, m - 1 \in T PROVE m \in T
    <2>1. PICK f : Tr(m - 1, f)  BY <1>2
    <2> DEFINE g == [i \in 0 .. m |-> IF i = m THEN step[m][f[m - 1]] ELSE f[i]]
    <2>2. f[m - 1] \in S  BY <2>1
    <2>3. step[m][f[m - 1]] \in S  BY <2>2
    <2>4. g \in [0 .. m -> S]  BY <2>1, <2>3
    <2>5. g[0] = base  BY <2>1
    <2>6. ASSUME NEW i \in 1 .. m PROVE g[i] = step[i][g[i - 1]]
      <3>1. CASE i = m  BY <3>1
      <3>2. CASE i # m
        <4>1. i \in 1 .. m - 1 /\ i - 1 \in 0 .. m - 1 /\ i - 1 # m  BY <3>2
        <4> QED  BY <3>2, <4>1, <2>1
      <3> QED  BY <3>1, <3>2
    <2>7. Tr(m, g)  BY <2>4, <2>5, <2>6
    <2>8. m \in 0 .. n  OBVIOUS
    <2> QED  BY <2>7, <2>8
  <1>3. \A i \in 0 .. n : i \in T
    <2> HIDE DEF T
    <2> QED  BY <1>1, <1>2, UpTo
  <1>4. PICK f : Tr(n, f)  BY <1>3
  <1> QED  BY <1>4 DEF Iterates

(***************************************************************************)
(* The line in which blocks come to the client.                            *)
(***************************************************************************)
Elems(s, n) == {s[i] : i \in 1 .. n}

\* What a message carries, and what the first n messages of a type carry.
Carried(m) == IF m.type = "block" THEN <<m.block>> ELSE m.inv

Load(m, type) == IF m.type = type THEN Elems(Carried(m), Len(Carried(m))) ELSE {}

Items(q, type, n) == UNION {Load(q[i], type) : i \in 1 .. n}

\* What the server may announce outside of a batch.
LastWork == Download!Max({w \in ProofOfWork : w <= Start})

Outside(h) == h >= Start \/ h = LastWork

\* All blocks before h are in S, unless it was announced outside of a batch.
Follows(h, S) == Outside(h) \/ 1 .. h - 1 \subseteq S

InSequence(s, S) == \A i \in 1 .. Len(s) : Follows(s[i], S \cup Elems(s, i - 1))

QueueInSequence(q, type, S) ==
    \A i \in 1 .. Len(q) :
        q[i].type = type => InSequence(Carried(q[i]), S \cup Items(q, type, i - 1))

\* Up to the blocks on their way, the requests on their way, those that are queued,
\* and the announcements on their way, when the client has the blocks had.
Sent(had, toC) == had \cup Items(toC, "block", Len(toC))
Requested(had, toS, toC) == Sent(had, toC) \cup Items(toS, "getdata", Len(toS))
Queued(had, ask, toS, toC) == Requested(had, toS, toC) \cup Elems(ask, Len(ask))
Offered(had, ask, toS, toC) == Queued(had, ask, toS, toC) \cup Items(toC, "inv", Len(toC))

Line(had, ask, kn, send, toS, toC) ==
    /\ QueueInSequence(toC, "block", had)
    /\ QueueInSequence(toS, "getdata", Sent(had, toC))
    /\ InSequence(ask, Requested(had, toS, toC))
    /\ QueueInSequence(toC, "inv", Queued(had, ask, toS, toC))
    /\ InSequence(send, Offered(had, ask, toS, toC))
    /\ \A h \in Elems(kn, Len(kn)) : h < Start => h \in Offered(had, ask, toS, toC)

\* The blocks a request for which would be put off, or has been.
Pending(late, dates) == {h \in 0 .. Height : dates[h] > 0} \cup {r.block : r \in late}

\* S is in T, as far as the order of blocks depends on it.
Covers(T, S) == \A h \in S : h < Start => h \in T

\* A request is put off only behind an earlier one that is still on its way.
InLine ==
    /\ Line(Download!Had, askFor, known, toSend, toServer, toClient)
    /\ Covers(Queued(Download!Had, askFor, toServer, toClient), Pending(later, lastAsked))

(***************************************************************************)
(* Sequences and queues.                                                   *)
(***************************************************************************)
LEMMA FollowsMore ==
    ASSUME NEW S, NEW T, Covers(T, S), NEW h \in Nat, Follows(h, S), Start \in Nat
    PROVE  Follows(h, T)
  BY DEF Covers, Follows, Outside

LEMMA InSequenceMore ==
    ASSUME NEW S, NEW T, Covers(T, S), NEW s \in Seq(Nat), InSequence(s, S), Start \in Nat
    PROVE  InSequence(s, T)
  <1> SUFFICES ASSUME NEW i \in 1 .. Len(s) PROVE Follows(s[i], T \cup Elems(s, i - 1))
    BY DEF InSequence
  <1>1. s[i] \in Nat /\ Follows(s[i], S \cup Elems(s, i - 1))  BY DEF InSequence
  <1>2. Covers(T \cup Elems(s, i - 1), S \cup Elems(s, i - 1))  BY DEF Covers
  <1> QED  BY <1>1, <1>2, FollowsMore

\* The elements of a sequence, and of one that is longer by one.
LEMMA ElemsAppend ==
    ASSUME NEW s \in Seq(Nat), NEW h \in Nat
    PROVE  /\ Append(s, h) \in Seq(Nat) /\ Len(Append(s, h)) = Len(s) + 1
           /\ \A n \in 0 .. Len(s) : Elems(Append(s, h), n) = Elems(s, n)
           /\ Elems(Append(s, h), Len(s) + 1) = Elems(s, Len(s)) \cup {h}
  <1> DEFINE u == Append(s, h)
  <1>1. /\ u \in Seq(Nat) /\ Len(u) = Len(s) + 1 /\ Len(s) \in Nat
        /\ \A i \in 1 .. Len(s) : u[i] = s[i]
        /\ u[Len(s) + 1] = h
    OBVIOUS
  <1> HIDE DEF u
  <1>2. ASSUME NEW n \in 0 .. Len(s) PROVE Elems(u, n) = Elems(s, n)
    <2>1. 1 .. n \subseteq 1 .. Len(s)
      <3>1. n \in Nat /\ n <= Len(s)  BY <1>1
      <3> QED  BY <1>1, <3>1
    <2>2. \A i \in 1 .. n : u[i] = s[i]  BY <1>1, <2>1
    <2> QED  BY <2>2 DEF Elems
  <1>3. Elems(u, Len(s) + 1) = Elems(s, Len(s)) \cup {h}
    <2>1. 1 .. Len(s) + 1 = (1 .. Len(s)) \cup {Len(s) + 1}  BY <1>1
    <2> QED  BY <1>1, <2>1 DEF Elems
  <1> QED  BY <1>1, <1>2, <1>3 DEF u

LEMMA AppendInSequence ==
    ASSUME NEW S, NEW s \in Seq(Nat), NEW h \in Nat,
           InSequence(s, S), Follows(h, S \cup Elems(s, Len(s)))
    PROVE  InSequence(Append(s, h), S)
  <1> DEFINE u == Append(s, h)
  <1>1. /\ u \in Seq(Nat) /\ Len(u) = Len(s) + 1 /\ Len(s) \in Nat
        /\ \A i \in 1 .. Len(s) : u[i] = s[i]
        /\ u[Len(s) + 1] = h
    OBVIOUS
  <1>2. \A n \in 0 .. Len(s) : Elems(u, n) = Elems(s, n)  BY ElemsAppend
  <1> HIDE DEF u
  <1> SUFFICES ASSUME NEW i \in 1 .. Len(u) PROVE Follows(u[i], S \cup Elems(u, i - 1))
    BY DEF InSequence, u
  <1>3. CASE i = Len(s) + 1
    <2>1. Elems(u, i - 1) = Elems(s, Len(s))  BY <1>1, <1>2, <1>3
    <2> QED  BY <1>1, <1>3, <2>1
  <1>4. CASE i # Len(s) + 1
    <2>1. i \in 1 .. Len(s) /\ i - 1 \in 0 .. Len(s)  BY <1>1, <1>4
    <2>2. Elems(u, i - 1) = Elems(s, i - 1) /\ u[i] = s[i]  BY <2>1, <1>1, <1>2
    <2> QED  BY <2>1, <2>2 DEF InSequence
  <1> QED  BY <1>3, <1>4

LEMMA ItemsAppend ==
    ASSUME NEW M, NEW q \in Seq(M), NEW m \in M, NEW type
    PROVE  /\ Append(q, m) \in Seq(M) /\ Len(Append(q, m)) = Len(q) + 1
           /\ \A n \in 0 .. Len(q) : Items(Append(q, m), type, n) = Items(q, type, n)
           /\ Items(Append(q, m), type, Len(q) + 1) = Items(q, type, Len(q)) \cup Load(m, type)
  <1> DEFINE u == Append(q, m)
  <1>1. /\ u \in Seq(M) /\ Len(u) = Len(q) + 1 /\ Len(q) \in Nat
        /\ \A i \in 1 .. Len(q) : u[i] = q[i]
        /\ u[Len(q) + 1] = m
    OBVIOUS
  <1> HIDE DEF u
  <1>2. ASSUME NEW n \in 0 .. Len(q) PROVE Items(u, type, n) = Items(q, type, n)
    <2>1. \A i \in 1 .. n : u[i] = q[i]  BY <1>1
    <2> QED  BY <2>1 DEF Items
  <1>3. Items(u, type, Len(q) + 1) = Items(q, type, Len(q)) \cup Load(m, type)
    <2>1. 1 .. Len(q) + 1 = (1 .. Len(q)) \cup {Len(q) + 1}  BY <1>1
    <2> QED  BY <1>1, <2>1 DEF Items
  <1> QED  BY <1>1, <1>2, <1>3 DEF u

LEMMA AppendQueueInSequence ==
    ASSUME NEW M, NEW q \in Seq(M), NEW m \in M, NEW type, NEW S,
           QueueInSequence(q, type, S),
           m.type = type => InSequence(Carried(m), S \cup Items(q, type, Len(q)))
    PROVE  QueueInSequence(Append(q, m), type, S)
  <1> DEFINE u == Append(q, m)
  <1>1. /\ u \in Seq(M) /\ Len(u) = Len(q) + 1 /\ Len(q) \in Nat
        /\ \A i \in 1 .. Len(q) : u[i] = q[i]
        /\ u[Len(q) + 1] = m
    OBVIOUS
  <1>2. \A n \in 0 .. Len(q) : Items(u, type, n) = Items(q, type, n)  BY ItemsAppend
  <1> HIDE DEF u
  <1> SUFFICES ASSUME NEW i \in 1 .. Len(u), u[i].type = type
               PROVE  InSequence(Carried(u[i]), S \cup Items(u, type, i - 1))
    BY DEF QueueInSequence, u
  <1>3. CASE i = Len(q) + 1
    <2>1. Items(u, type, i - 1) = Items(q, type, Len(q))  BY <1>1, <1>2, <1>3
    <2> QED  BY <1>1, <1>3, <2>1
  <1>4. CASE i # Len(q) + 1
    <2>1. i \in 1 .. Len(q) /\ i - 1 \in 0 .. Len(q)  BY <1>1, <1>4
    <2>2. Items(u, type, i - 1) = Items(q, type, i - 1) /\ u[i] = q[i]
      BY <2>1, <1>1, <1>2
    <2> QED  BY <2>1, <2>2 DEF QueueInSequence
  <1> QED  BY <1>3, <1>4

\* Without its first message.
LEMMA ItemsTail ==
    ASSUME NEW M, NEW q \in Seq(M), q # << >>, NEW type
    PROVE  /\ Head(q) \in M /\ Tail(q) \in Seq(M) /\ Len(Tail(q)) = Len(q) - 1
           /\ \A n \in 0 .. Len(q) - 1 :
                 Items(q, type, n + 1) = Load(Head(q), type) \cup Items(Tail(q), type, n)
  <1> DEFINE u == Tail(q)
             m == Head(q)
  <1>1. /\ u \in Seq(M) /\ Len(u) = Len(q) - 1 /\ Len(q) \in Nat
        /\ \A i \in 1 .. Len(u) : u[i] = q[i + 1]
        /\ m = q[1] /\ m \in M
    OBVIOUS
  <1> HIDE DEF u, m
  <1>2. ASSUME NEW n \in 0 .. Len(q) - 1
        PROVE  Items(q, type, n + 1) = Load(m, type) \cup Items(u, type, n)
    <2>1. ASSUME NEW h \in Items(q, type, n + 1) PROVE h \in Load(m, type) \cup Items(u, type, n)
      <3>1. PICK i \in 1 .. n + 1 : h \in Load(q[i], type)  BY DEF Items
      <3>2. CASE i = 1  BY <1>1, <3>1, <3>2
      <3>3. CASE i # 1
        <4> DEFINE k == i - 1
        <4>1. k \in 1 .. n /\ k \in 1 .. Len(u) /\ i = k + 1  BY <1>1, <3>3
        <4> HIDE DEF k
        <4>2. u[k] = q[i]  BY <1>1, <4>1
        <4> QED  BY <3>1, <4>1, <4>2 DEF Items
      <3> QED  BY <3>2, <3>3
    <2>2. Load(m, type) \subseteq Items(q, type, n + 1)  BY <1>1 DEF Items
    <2>3. ASSUME NEW h \in Items(u, type, n) PROVE h \in Items(q, type, n + 1)
      <3>1. PICK k \in 1 .. n : h \in Load(u[k], type)  BY DEF Items
      <3>2. k + 1 \in 1 .. n + 1 /\ u[k] = q[k + 1]  BY <1>1
      <3> QED  BY <3>1, <3>2 DEF Items
    <2> QED  BY <2>1, <2>2, <2>3
  <1> QED  BY <1>1, <1>2 DEF u, m

LEMMA TailInSequence ==
    ASSUME NEW M, NEW q \in Seq(M), q # << >>, NEW type, NEW S, QueueInSequence(q, type, S)
    PROVE  /\ Head(q).type = type => InSequence(Carried(Head(q)), S)
           /\ QueueInSequence(Tail(q), type, S \cup Load(Head(q), type))
  <1> DEFINE u == Tail(q)
             m == Head(q)
  <1>1. /\ u \in Seq(M) /\ Len(u) = Len(q) - 1 /\ Len(q) \in Nat
        /\ \A i \in 1 .. Len(u) : u[i] = q[i + 1]
        /\ m = q[1] /\ m \in M /\ 1 \in 1 .. Len(q)
    OBVIOUS
  <1>2. \A n \in 0 .. Len(q) - 1 : Items(q, type, n + 1) = Load(m, type) \cup Items(u, type, n)
    BY ItemsTail
  <1> HIDE DEF u, m
  <1>3. m.type = type => InSequence(Carried(m), S)
    <2>1. S \cup Items(q, type, 0) = S  BY DEF Items
    <2>2. ASSUME NEW k \in 1 .. Len(q), k = 1, q[k].type = type
          PROVE  InSequence(Carried(q[k]), S)
      <3>1. k - 1 = 0  BY <2>2
      <3>2. InSequence(Carried(q[k]), S \cup Items(q, type, k - 1))  BY <2>2 DEF QueueInSequence
      <3> QED  BY <2>1, <3>1, <3>2
    <2> QED  BY <1>1, <2>2
  <1>4. QueueInSequence(u, type, S \cup Load(m, type))
    <2> SUFFICES ASSUME NEW i \in 1 .. Len(u), u[i].type = type
                 PROVE  InSequence(Carried(u[i]), S \cup Load(m, type) \cup Items(u, type, i - 1))
      BY DEF QueueInSequence
    <2> DEFINE k == i + 1
               n == i - 1
    <2>1. k \in 1 .. Len(q) /\ u[i] = q[k] /\ n \in 0 .. Len(q) - 1 /\ k - 1 = n + 1  BY <1>1
    <2> HIDE DEF k, n
    <2>2. InSequence(Carried(q[k]), S \cup Items(q, type, k - 1))
      BY <2>1 DEF QueueInSequence
    <2>3. S \cup Items(q, type, k - 1) = S \cup Load(m, type) \cup Items(u, type, n)
      BY <1>2, <2>1
    <2> QED  BY <2>1, <2>2, <2>3 DEF n
  <1> QED  BY <1>3, <1>4 DEF u, m

LEMMA QueueMore ==
    ASSUME NEW M, NEW q \in Seq(M), NEW type, NEW S, NEW T,
           \A m \in M : m.type = type => Carried(m) \in Seq(Nat),
           QueueInSequence(q, type, S), Covers(T, S), Start \in Nat
    PROVE  QueueInSequence(q, type, T)
  <1> SUFFICES ASSUME NEW i \in 1 .. Len(q), q[i].type = type
               PROVE  InSequence(Carried(q[i]), T \cup Items(q, type, i - 1))
    BY DEF QueueInSequence
  <1>1. q[i] \in M  OBVIOUS
  <1>2. Carried(q[i]) \in Seq(Nat)  BY <1>1
  <1>3. InSequence(Carried(q[i]), S \cup Items(q, type, i - 1))  BY DEF QueueInSequence
  <1>4. Covers(T \cup Items(q, type, i - 1), S \cup Items(q, type, i - 1))  BY DEF Covers
  <1> QED  BY <1>2, <1>3, <1>4, InSequenceMore

LEMMA SeqElement ==
    ASSUME NEW K, NEW s \in Seq(K)
    PROVE  Len(s) \in Nat /\ \A i \in 1 .. Len(s) : s[i] \in K
  OBVIOUS

LEMMA SeqWider ==
    ASSUME NEW L, NEW K \in SUBSET L
    PROVE  \A r \in Seq(K) : r \in Seq(L)
  <1> TAKE r \in Seq(K)
  <1>1. Len(r) \in Nat /\ r \in [1 .. Len(r) -> K]  OBVIOUS
  <1>2. r \in [1 .. Len(r) -> L]  BY <1>1
  <1> QED  BY <1>1, <1>2

\* One sequence after another.
LEMMA ElemsConcat ==
    ASSUME NEW K \in SUBSET Nat, NEW s \in Seq(K), NEW r \in Seq(K)
    PROVE  /\ s \o r \in Seq(K) /\ Len(s \o r) = Len(s) + Len(r)
           /\ \A n \in 0 .. Len(s) : Elems(s \o r, n) = Elems(s, n)
           /\ \A n \in 0 .. Len(r) : Elems(s \o r, Len(s) + n) = Elems(s, Len(s)) \cup Elems(r, n)
  <1> DEFINE u == s \o r
  <1>1. /\ u \in Seq(K) /\ Len(u) = Len(s) + Len(r) /\ Len(s) \in Nat /\ Len(r) \in Nat
        /\ \A i \in 1 .. Len(s) : u[i] = s[i]
        /\ \A i \in 1 .. Len(r) : u[Len(s) + i] = r[i]
    OBVIOUS
  <1> HIDE DEF u
  <1>2. ASSUME NEW n \in 0 .. Len(s) PROVE Elems(u, n) = Elems(s, n)
    <2>1. 1 .. n \subseteq 1 .. Len(s)
      <3>1. n \in Nat /\ n <= Len(s)  BY <1>1
      <3> QED  BY <1>1, <3>1
    <2>2. \A i \in 1 .. n : u[i] = s[i]  BY <1>1, <2>1
    <2> QED  BY <2>2 DEF Elems
  <1>3. ASSUME NEW n \in 0 .. Len(r)
        PROVE  Elems(u, Len(s) + n) = Elems(s, Len(s)) \cup Elems(r, n)
    <2>1. ASSUME NEW h \in Elems(u, Len(s) + n) PROVE h \in Elems(s, Len(s)) \cup Elems(r, n)
      <3>1. PICK i \in 1 .. Len(s) + n : h = u[i]  BY DEF Elems
      <3>2. CASE i \in 1 .. Len(s)  BY <1>1, <3>1, <3>2 DEF Elems
      <3>3. CASE i \notin 1 .. Len(s)
        <4> DEFINE k == i - Len(s)
        <4>1. k \in 1 .. n /\ k \in 1 .. Len(r) /\ i = Len(s) + k  BY <1>1, <3>1, <3>3
        <4> HIDE DEF k
        <4> QED  BY <1>1, <3>1, <4>1 DEF Elems
      <3> QED  BY <3>2, <3>3
    <2>2. ASSUME NEW h \in Elems(s, Len(s)) PROVE h \in Elems(u, Len(s) + n)
      <3>1. PICK i \in 1 .. Len(s) : h = s[i]  BY DEF Elems
      <3>2. i \in 1 .. Len(s) + n /\ h = u[i]  BY <1>1, <3>1
      <3> QED  BY <3>2 DEF Elems
    <2>3. ASSUME NEW h \in Elems(r, n) PROVE h \in Elems(u, Len(s) + n)
      <3>1. PICK i \in 1 .. n : h = r[i]  BY DEF Elems
      <3> DEFINE k == Len(s) + i
      <3>2. k \in 1 .. Len(s) + n /\ h = u[k]  BY <1>1, <3>1
      <3> HIDE DEF k
      <3> QED  BY <3>2 DEF Elems
    <2> QED  BY <2>1, <2>2, <2>3
  <1> QED  BY <1>1, <1>2, <1>3 DEF u

LEMMA ConcatInSequence ==
    ASSUME NEW K \in SUBSET Nat, NEW s \in Seq(K), NEW r \in Seq(K), NEW S,
           InSequence(s, S), InSequence(r, S \cup Elems(s, Len(s)))
    PROVE  InSequence(s \o r, S)
  <1> DEFINE u == s \o r
  <1>1. /\ u \in Seq(K) /\ Len(u) = Len(s) + Len(r) /\ Len(s) \in Nat /\ Len(r) \in Nat
        /\ \A i \in 1 .. Len(s) : u[i] = s[i]
        /\ \A i \in 1 .. Len(r) : u[Len(s) + i] = r[i]
    OBVIOUS
  <1>2. /\ \A n \in 0 .. Len(s) : Elems(u, n) = Elems(s, n)
        /\ \A n \in 0 .. Len(r) : Elems(u, Len(s) + n) = Elems(s, Len(s)) \cup Elems(r, n)
    BY ElemsConcat
  <1> HIDE DEF u
  <1> SUFFICES ASSUME NEW i \in 1 .. Len(u) PROVE Follows(u[i], S \cup Elems(u, i - 1))
    BY DEF InSequence, u
  <1>3. CASE i \in 1 .. Len(s)
    <2>1. i - 1 \in 0 .. Len(s)  BY <1>3
    <2>2. Elems(u, i - 1) = Elems(s, i - 1) /\ u[i] = s[i]  BY <2>1, <1>1, <1>2, <1>3
    <2> QED  BY <1>3, <2>2 DEF InSequence
  <1>4. CASE i \notin 1 .. Len(s)
    <2> DEFINE k == i - Len(s)
               n == k - 1
    <2>1. k \in 1 .. Len(r) /\ n \in 0 .. Len(r) /\ i = Len(s) + k /\ i - 1 = Len(s) + n
      BY <1>1, <1>4
    <2> HIDE DEF n
    <2>2. Follows(r[k], S \cup Elems(s, Len(s)) \cup Elems(r, n))
      BY <2>1 DEF InSequence, n
    <2> HIDE DEF k
    <2>3. u[i] = r[k] /\ Elems(u, i - 1) = Elems(s, Len(s)) \cup Elems(r, n)
      BY <1>1, <1>2, <2>1
    <2>4. S \cup Elems(u, i - 1) = S \cup Elems(s, Len(s)) \cup Elems(r, n)  BY <2>3
    <2> QED  BY <2>2, <2>3, <2>4
  <1> QED  BY <1>3, <1>4

\* A sequence without some of its elements.
WithoutSteps(f, s, X, K) ==
    /\ f[0] = << >>
    /\ \A i \in 1 .. Len(s) : f[i] = IF s[i] \in X THEN f[i - 1] ELSE Append(f[i - 1], s[i])
    /\ Download!Without(s, X) = f[Len(s)]
    /\ f \in [0 .. Len(s) -> Seq(K)]

LEMMA WithoutTrace ==
    ASSUME NEW K, NEW s \in Seq(K), NEW X
    PROVE  \E f : WithoutSteps(f, s, X, K)
  <1> DEFINE n == Len(s)
             V == Seq(K)
             op(v, i) == IF s[i] \in X THEN v ELSE Append(v, s[i])
             Rec(f) == f = [i \in 0 .. n |-> IF i = 0 THEN << >> ELSE op(f[i - 1], i)]
             step == [i \in 1 .. n |-> [v \in V |-> op(v, i)]]
             g == CHOOSE f : Rec(f)
  <1>1. n \in Nat /\ \A i \in 1 .. n : s[i] \in K  OBVIOUS
  <1>2. Download!Without(s, X) = g[n]  BY DEF Download!Without, Download!InOrder
  <1>3. \A v \in V : \A i \in 1 .. n : op(v, i) \in V  BY <1>1
  <1>4. << >> \in V  OBVIOUS
  <1> HIDE DEF n, op, V
  <1>5. step \in [1 .. n -> [V -> V]]  BY <1>3
  <1>6. PICK f : Iterates(f, V, n, << >>, step)
    <2> HIDE DEF step
    <2> QED  BY <1>1, <1>4, <1>5, Iterated
  <1>7. \A i \in 1 .. n : f[i] = op(f[i - 1], i)
    <2> TAKE i \in 1 .. n
    <2>1. i - 1 \in 0 .. n  BY <1>1
    <2>2. f[i - 1] \in V  BY <1>6, <2>1 DEF Iterates
    <2> QED  BY <1>6, <2>2 DEF Iterates
  <1>8. Rec(f)
    <2>1. \A i \in 0 .. n : f[i] = IF i = 0 THEN << >> ELSE op(f[i - 1], i)
      BY <1>1, <1>6, <1>7 DEF Iterates
    <2> QED  BY <1>6, <2>1 DEF Iterates
  <1>9. Rec(g)  BY <1>8, Zenon
  <1> HIDE DEF g
  <1>10. g[0] = << >> /\ \A i \in 1 .. n : g[i] = op(g[i - 1], i)
    <2>1. \A i \in 0 .. n : g[i] = IF i = 0 THEN << >> ELSE op(g[i - 1], i)  BY <1>9
    <2> QED  BY <1>1, <2>1
  <1>11. g \in [0 .. n -> V]
    <2> DEFINE T == {i \in 0 .. n : g[i] \in V}
    <2>1. 0 \in T  BY <1>1, <1>4, <1>10
    <2>2. \A i \in 1 .. n : i - 1 \in T => i \in T  BY <1>1, <1>3, <1>10
    <2>3. \A i \in 0 .. n : i \in T
      <3> HIDE DEF T
      <3> QED  BY <1>1, <2>1, <2>2, UpTo
    <2> QED  BY <1>9, <2>3
  <1>12. WithoutSteps(g, s, X, K)  BY <1>2, <1>10, <1>11 DEF WithoutSteps, n, op, V
  <1> QED  BY <1>12

\* What is left is in sequence when what is left out came before.
LeftOf(r, s, X, K, S) ==
    /\ r \in Seq(K)
    /\ Elems(r, Len(r)) \subseteq Elems(s, Len(s))
    /\ Elems(s, Len(s)) \subseteq X \cup Elems(r, Len(r))
    /\ InSequence(s, S) /\ Covers(S, X) => InSequence(r, S)

LEMMA WithoutLeaves ==
    ASSUME NEW K \in SUBSET Nat, NEW s \in Seq(K), NEW X, NEW S, Start \in Nat
    PROVE  LeftOf(Download!Without(s, X), s, X, K, S)
  <1> DEFINE n == Len(s)
  <1>1. PICK f : WithoutSteps(f, s, X, K)  BY WithoutTrace
  <1>2. /\ n \in Nat /\ \A i \in 1 .. n : s[i] \in K /\ s[i] \in Nat
        /\ f[0] = << >>
        /\ \A i \in 0 .. n : f[i] \in Seq(K) /\ f[i] \in Seq(Nat)
        /\ \A i \in 1 .. n : f[i] = IF s[i] \in X THEN f[i - 1] ELSE Append(f[i - 1], s[i])
        /\ Download!Without(s, X) = f[n]
    <2>1. \A r \in Seq(K) : r \in Seq(Nat)  BY SeqWider
    <2>2. \A i \in 0 .. n : f[i] \in Seq(K)  BY <1>1 DEF WithoutSteps
    <2>3. n \in Nat /\ \A i \in 1 .. n : s[i] \in K /\ s[i] \in Nat
      <3>1. n \in Nat  OBVIOUS
      <3>2. ASSUME NEW i \in 1 .. n PROVE s[i] \in K  OBVIOUS
      <3>3. ASSUME NEW i \in 1 .. n PROVE s[i] \in Nat  BY <3>2
      <3> QED  BY <3>1, <3>2, <3>3
    <2> HIDE DEF n
    <2> QED  BY <1>1, <2>1, <2>2, <2>3 DEF WithoutSteps, n
  <1> DEFINE Good(r, i) == /\ Elems(r, Len(r)) \subseteq Elems(s, i)
                           /\ Elems(s, i) \subseteq X \cup Elems(r, Len(r))
                           /\ InSequence(s, S) /\ Covers(S, X) => InSequence(r, S)
             T == {i \in 0 .. n : Good(f[i], i)}
  <1>3. 0 \in T
    <2>1. Elems(<< >>, 0) = {} /\ Elems(s, 0) = {} /\ Len(<< >>) = 0  BY DEF Elems
    <2>2. InSequence(<< >>, S)  BY DEF InSequence
    <2> QED  BY <1>2, <2>1, <2>2
  <1>4. ASSUME NEW i \in 1 .. n, i - 1 \in T PROVE i \in T
    <2> DEFINE k == i - 1
               v == f[k]
    <2>1. k \in 0 .. n /\ i \in 0 .. n /\ i = k + 1  BY <1>2
    <2>2. Good(v, k)  BY <1>4
    <2>3. v \in Seq(Nat) /\ s[i] \in Nat  BY <1>2, <2>1
    <2>4. f[i] = IF s[i] \in X THEN v ELSE Append(v, s[i])  BY <1>2
    <2>5. Elems(s, i) = Elems(s, k) \cup {s[i]}
      <3>1. 1 .. i = (1 .. k) \cup {i}  BY <2>1
      <3> QED  BY <3>1 DEF Elems
    <2> HIDE DEF k, v
    <2>6. CASE s[i] \in X  BY <2>1, <2>2, <2>4, <2>5, <2>6
    <2>7. CASE s[i] \notin X
      <3>1. /\ Len(Append(v, s[i])) = Len(v) + 1
            /\ Elems(Append(v, s[i]), Len(v) + 1) = Elems(v, Len(v)) \cup {s[i]}
        BY <2>3, ElemsAppend
      <3>2. ASSUME InSequence(s, S), Covers(S, X) PROVE InSequence(Append(v, s[i]), S)
        <4>1. Follows(s[i], S \cup Elems(s, k))  BY <3>2, <2>1 DEF InSequence, k
        <4>2. Covers(S \cup Elems(v, Len(v)), S \cup Elems(s, k))  BY <2>2, <3>2 DEF Covers
        <4>3. Follows(s[i], S \cup Elems(v, Len(v)))  BY <2>3, <4>1, <4>2, FollowsMore
        <4> QED  BY <2>2, <2>3, <3>2, <4>3, AppendInSequence
      <3> QED  BY <2>1, <2>2, <2>4, <2>5, <2>7, <3>1, <3>2
    <2> QED  BY <2>6, <2>7
  <1>5. n \in T
    <2> HIDE DEF T
    <2>1. \A i \in 0 .. n : i \in T  BY <1>2, <1>3, <1>4, UpTo
    <2> QED  BY <1>2, <2>1
  <1> QED  BY <1>2, <1>5 DEF LeftOf

(***************************************************************************)
(* Types.                                                                  *)
(***************************************************************************)
WellTyped == Download!DownloadAssumption /\ Download!TypeOK

Postponed == [block : 0 .. tip, wait : Nat \ {0}]

GetBlocks == [type : {"getblocks"}, begin : 0 .. best, end : 0 .. tip]

LEMMA TypeFacts ==
    ASSUME WellTyped
    PROVE  /\ Height \in Nat /\ Start \in Nat /\ best \in Nat /\ tip \in Nat
           /\ best <= tip /\ Start <= tip /\ tip <= Height
           /\ Limit \in Nat /\ Limit # 0 /\ MaxKnown \in Nat /\ MaxKnown # 0 /\ Recent \in Nat
           /\ Estimate \in Nat /\ hashContinue \in 0 .. tip
           /\ askFor \in Seq(0 .. tip) /\ known \in Seq(0 .. tip) /\ toSend \in Seq(0 .. tip)
           /\ orphans \in SUBSET (best + 2 .. tip) /\ Download!Had \in SUBSET (0 .. tip)
           /\ toServer \in Seq(Download!Requests) /\ toClient \in Seq(Download!Answers)
           /\ 0 .. tip \in SUBSET Nat /\ 0 .. tip \in SUBSET (0 .. Height)
           /\ TwoMinutes \in Nat /\ TwoMinutes # 0
           /\ later \in SUBSET Postponed /\ lastAsked \in [0 .. Height -> Nat]
  <1>1. /\ Height \in Nat /\ Start \in 0 .. Height
        /\ {Limit, MaxKnown, TwoMinutes} \subseteq Nat \ {0} /\ {Recent, Estimate, MaxReconnect} \subseteq Nat
        /\ best \in 0 .. tip /\ tip \in Start .. Height
        /\ orphans \subseteq best + 2 .. tip
        /\ {askFor, known, toSend} \subseteq Seq(0 .. tip)
        /\ hashContinue \in 0 .. tip
        /\ toServer \in Seq(Download!Requests) /\ toClient \in Seq(Download!Answers)
    BY DEF WellTyped, Download!DownloadAssumption, Download!TypeOK
  <1>2. /\ Start \in Nat /\ best \in Nat /\ tip \in Nat /\ best <= tip /\ Start <= tip /\ tip <= Height
    BY <1>1
  <1>3. Download!Had \in SUBSET (0 .. tip)  BY <1>1, <1>2 DEF Download!Had
  <1>4. askFor \in Seq(0 .. tip) /\ known \in Seq(0 .. tip) /\ toSend \in Seq(0 .. tip)
    BY <1>1
  <1>5. 0 .. tip \in SUBSET Nat /\ 0 .. tip \in SUBSET (0 .. Height)  BY <1>1, <1>2
  <1>7. later \in SUBSET Postponed /\ lastAsked \in [0 .. Height -> Nat] /\ TwoMinutes \in Nat /\ TwoMinutes # 0
    BY <1>1 DEF WellTyped, Download!TypeOK, Postponed
  <1>6. /\ Limit \in Nat /\ Limit # 0 /\ MaxKnown \in Nat /\ MaxKnown # 0 /\ Recent \in Nat
        /\ Estimate \in Nat
    BY <1>1
  <1> QED  BY <1>1, <1>2, <1>3, <1>4, <1>5, <1>6, <1>7

\* What the messages carry.
LEMMA RequestFacts ==
    ASSUME WellTyped, NEW m \in Download!Requests
    PROVE  /\ m.type \in {"getblocks", "getdata"}
           /\ m.type = "getblocks" => m.begin \in 0 .. best /\ m.end \in 0 .. tip
           /\ m.type = "getdata" => /\ m.inv \in Seq(0 .. tip)
                                    /\ Carried(m) = m.inv
                                    /\ Carried(m) \in Seq(Nat)
  <1>1. 0 .. tip \in SUBSET Nat  BY TypeFacts
  <1>2. \A r \in Seq(0 .. tip) : r \in Seq(Nat)  BY <1>1, SeqWider
  <1>3. CASE m \in GetBlocks  BY <1>3 DEF GetBlocks
  <1>4. CASE m \in [type : {"getdata"}, inv : Seq(0 .. tip)]
    <2>1. m.type = "getdata" /\ m.inv \in Seq(0 .. tip)  BY <1>4
    <2> QED  BY <1>2, <2>1 DEF Carried
  <1> QED  BY <1>3, <1>4 DEF Download!Requests, GetBlocks

LEMMA AnswerFacts ==
    ASSUME WellTyped, NEW m \in Download!Answers
    PROVE  /\ m.type \in {"inv", "block"}
           /\ m.type = "inv" => m.inv \in Seq(0 .. tip) /\ Carried(m) = m.inv
           /\ m.type = "block" => m.block \in 0 .. tip /\ Carried(m) = <<m.block>>
           /\ Carried(m) \in Seq(Nat)
  <1>1. 0 .. tip \in SUBSET Nat  BY TypeFacts
  <1>2. \A r \in Seq(0 .. tip) : r \in Seq(Nat)  BY <1>1, SeqWider
  <1>3. CASE m \in [type : {"inv"}, inv : Seq(0 .. tip)]
    <2>1. m.type = "inv" /\ m.inv \in Seq(0 .. tip)  BY <1>3
    <2> QED  BY <1>2, <2>1 DEF Carried
  <1>4. CASE m \in [type : {"block"}, block : 0 .. tip]
    <2>1. m.type = "block" /\ m.block \in 0 .. tip  BY <1>4
    <2>2. <<m.block>> \in Seq(Nat)  BY <1>1, <2>1
    <2> QED  BY <2>1, <2>2 DEF Carried
  <1> QED  BY <1>3, <1>4 DEF Download!Answers

\* In a queue of one of the two kinds.
LEMMA CarriedType ==
    ASSUME WellTyped
    PROVE  /\ \A m \in Download!Answers : \A type : m.type = type => Carried(m) \in Seq(Nat)
           /\ \A m \in Download!Requests : m.type = "getdata" => Carried(m) \in Seq(Nat)
  <1>1. ASSUME NEW m \in Download!Answers PROVE Carried(m) \in Seq(Nat)  BY AnswerFacts
  <1>2. ASSUME NEW m \in Download!Requests, m.type = "getdata" PROVE Carried(m) \in Seq(Nat)
    BY <1>2, RequestFacts
  <1> QED  BY <1>1, <1>2

\* getblocks messages carry nothing.
LEMMA GetBlocksType ==
    ASSUME NEW r \in Seq(GetBlocks)
    PROVE  r \in Seq(Download!Requests) /\ \A i \in 1 .. Len(r) : r[i].type # "getdata"
  <1>1. GetBlocks \in SUBSET Download!Requests  BY DEF GetBlocks, Download!Requests
  <1>2. ASSUME NEW m \in GetBlocks PROVE m.type # "getdata"  BY DEF GetBlocks
  <1>3. r \in Seq(Download!Requests)  BY <1>1, SeqWider
  <1>4. \A i \in 1 .. Len(r) : r[i] \in GetBlocks  BY SeqElement
  <1> QED  BY <1>2, <1>3, <1>4

LEMMA MinFacts ==
    ASSUME NEW S \in SUBSET Nat, S # {}
    PROVE  Download!Min(S) \in S /\ \A x \in S : Download!Min(S) <= x
  <1>1. \E m \in S : \A x \in S : m <= x  BY LeastNatural
  <1> QED  BY <1>1, Zenon DEF Download!Min

LEMMA MaxFacts ==
    ASSUME NEW n \in Nat, NEW S \in SUBSET (0 .. n), S # {}
    PROVE  Download!Max(S) \in S /\ \A x \in S : x <= Download!Max(S)
  <1> DEFINE T == {k \in 0 .. n : n - k \in S}
  <1>1. T \in SUBSET Nat  OBVIOUS
  <1>2. T # {}
    <2>1. PICK x \in S : TRUE  OBVIOUS
    <2>2. x \in 0 .. n  OBVIOUS
    <2>3. n - x \in 0 .. n /\ n - (n - x) = x  BY <2>2
    <2> QED  BY <2>3
  <1>3. PICK m \in T : \A k \in T : m <= k
    <2> HIDE DEF T
    <2> QED  BY <1>1, <1>2, LeastNatural
  <1>4. \E y \in S : \A x \in S : y >= x
    <2>1. n - m \in S  BY <1>3
    <2>2. ASSUME NEW x \in S PROVE n - m >= x
      <3>1. x \in 0 .. n  OBVIOUS
      <3>2. n - x \in T  BY <3>1
      <3> QED  BY <1>3, <3>1, <3>2
    <2> QED  BY <2>1, <2>2
  <1>5. Download!Max(S) \in S /\ \A x \in S : Download!Max(S) >= x
    BY <1>4, Zenon DEF Download!Max
  <1>6. \A x \in S : x \in Int  OBVIOUS
  <1> QED  BY <1>5, <1>6

LEMMA RootFacts ==
    ASSUME WellTyped, NEW h \in 0 .. tip
    PROVE  /\ Download!GetOrphanRoot(h) \in 0 .. h /\ Download!GetOrphanRoot(h) \in 0 .. tip
           /\ \A i \in Download!GetOrphanRoot(h) .. h - 1 : i \in orphans
  <1> DEFINE R == {r \in 0 .. h : \A i \in r .. h - 1 : i \in orphans}
  <1>1. R \in SUBSET Nat  BY TypeFacts
  <1>2. h \in R  BY TypeFacts
  <1>3. Download!Min(R) \in R
    <2> HIDE DEF R
    <2> QED  BY <1>1, <1>2, MinFacts
  <1>4. Download!GetOrphanRoot(h) = Download!Min(R)  BY DEF Download!GetOrphanRoot
  <1>5. Download!Min(R) \in 0 .. h /\ \A i \in Download!Min(R) .. h - 1 : i \in orphans  BY <1>3
  <1>6. 0 .. h \subseteq 0 .. tip  BY TypeFacts
  <1> QED  BY <1>4, <1>5, <1>6

(***************************************************************************)
(* The client.                                                             *)
(***************************************************************************)
\* Messages that carry no blocks change nothing.
LEMMA OthersFollow ==
    ASSUME NEW M, NEW q \in Seq(M), NEW r \in Seq(M), NEW type,
           \A i \in 1 .. Len(r) : r[i].type # type
    PROVE  /\ Items(q \o r, type, Len(q \o r)) = Items(q, type, Len(q))
           /\ \A S : QueueInSequence(q, type, S) => QueueInSequence(q \o r, type, S)
  <1> DEFINE u == q \o r
  <1>1. /\ u \in Seq(M) /\ Len(u) = Len(q) + Len(r) /\ Len(q) \in Nat /\ Len(r) \in Nat
        /\ \A i \in 1 .. Len(q) : u[i] = q[i]
        /\ \A i \in 1 .. Len(r) : u[Len(q) + i] = r[i]
    OBVIOUS
  <1> HIDE DEF u
  <1>2. ASSUME NEW i \in 1 .. Len(u), i \notin 1 .. Len(q) PROVE u[i].type # type
    <2> DEFINE k == i - Len(q)
    <2>1. k \in 1 .. Len(r) /\ i = Len(q) + k  BY <1>1, <1>2
    <2> HIDE DEF k
    <2> QED  BY <1>1, <2>1
  <1>3. Items(u, type, Len(u)) = Items(q, type, Len(q))
    <2>1. ASSUME NEW h \in Items(u, type, Len(u)) PROVE h \in Items(q, type, Len(q))
      <3>1. PICK i \in 1 .. Len(u) : h \in Load(u[i], type)  BY DEF Items
      <3>2. i \in 1 .. Len(q)  BY <1>2, <3>1 DEF Load
      <3> QED  BY <1>1, <3>1, <3>2 DEF Items
    <2>2. ASSUME NEW h \in Items(q, type, Len(q)) PROVE h \in Items(u, type, Len(u))
      <3>1. PICK i \in 1 .. Len(q) : h \in Load(q[i], type)  BY DEF Items
      <3>2. i \in 1 .. Len(u) /\ u[i] = q[i]  BY <1>1
      <3> QED  BY <3>1, <3>2 DEF Items
    <2> QED  BY <2>1, <2>2
  <1>4. ASSUME NEW S, QueueInSequence(q, type, S) PROVE QueueInSequence(u, type, S)
    <2> SUFFICES ASSUME NEW i \in 1 .. Len(u), u[i].type = type
                 PROVE  InSequence(Carried(u[i]), S \cup Items(u, type, i - 1))
      BY DEF QueueInSequence
    <2>1. i \in 1 .. Len(q) /\ u[i] = q[i]  BY <1>1, <1>2
    <2>2. Items(u, type, i - 1) = Items(q, type, i - 1)
      <3>1. \A k \in 1 .. i - 1 : u[k] = q[k]  BY <1>1, <2>1
      <3> QED  BY <3>1 DEF Items
    <2> QED  BY <1>4, <2>1, <2>2 DEF QueueInSequence
  <1> QED  BY <1>3, <1>4 DEF u

Gatherings == [ask : Seq(0 .. tip), later : SUBSET Postponed, asked : [0 .. Height -> Nat],
               last : (0 .. best) \X (0 .. tip), out : Seq(GetBlocks)]

\* The same requests are gathered.
SameRequests(c, d) == d.ask = c.ask /\ d.later = c.later /\ d.asked = c.asked

LEMMA PushGetBlocksType ==
    ASSUME NEW c \in Gatherings, NEW begin \in 0 .. best, NEW end \in 0 .. tip
    PROVE  /\ Download!PushGetBlocks(c, begin, end) \in Gatherings
           /\ SameRequests(c, Download!PushGetBlocks(c, begin, end))
  <1> DEFINE m == [type |-> "getblocks", begin |-> begin, end |-> end]
  <1>1. m \in GetBlocks  BY DEF GetBlocks
  <1>2. \/ Download!PushGetBlocks(c, begin, end) = c
        \/ Download!PushGetBlocks(c, begin, end) = [c EXCEPT !.last = <<begin, end>>, !.out = Append(@, m)]
    BY DEF Download!PushGetBlocks
  <1> HIDE DEF m
  <1>3. Append(c.out, m) \in Seq(GetBlocks)  BY <1>1 DEF Gatherings
  <1>4. <<begin, end>> \in (0 .. best) \X (0 .. tip)  OBVIOUS
  <1> QED  BY <1>2, <1>3, <1>4 DEF Gatherings, SameRequests

LEMMA GatheredType ==
    ASSUME WellTyped
    PROVE  /\ Download!Gathered \in Gatherings
           /\ Download!Gathered.ask = askFor /\ Download!Gathered.later = later
           /\ Download!Gathered.asked = lastAsked
  <1>1. askFor \in Seq(0 .. tip) /\ later \in SUBSET Postponed /\ lastAsked \in [0 .. Height -> Nat]
    BY TypeFacts
  <1>2. lastGet \in (0 .. best) \X (0 .. tip)  BY DEF WellTyped, Download!TypeOK
  <1>3. << >> \in Seq(GetBlocks)  OBVIOUS
  <1> QED  BY <1>1, <1>2, <1>3 DEF Download!Gathered, Gatherings

\* A request is added at the end, or its block is one that was pending.
AskedFor(c, d, h) ==
    /\ d.ask = Append(c.ask, h) \/ (d.ask = c.ask /\ h \in Pending(c.later, c.asked))
    /\ Pending(d.later, d.asked) \subseteq Pending(c.later, c.asked) \cup {h}

LEMMA AskForType ==
    ASSUME WellTyped, NEW c \in Gatherings, NEW h \in 0 .. tip
    PROVE  Download!AskFor(c, h) \in Gatherings /\ AskedFor(c, Download!AskFor(c, h), h)
  <1> DEFINE dates == [c.asked EXCEPT ![h] = @ + TwoMinutes]
             r == [block |-> h, wait |-> c.asked[h]]
             d == Download!AskFor(c, h)
  <1>1. /\ c.ask \in Seq(0 .. tip) /\ c.later \in SUBSET Postponed
        /\ c.asked \in [0 .. Height -> Nat] /\ h \in 0 .. Height /\ TwoMinutes \in Nat
        /\ c.asked[h] \in Nat
    BY TypeFacts DEF Gatherings
  <1>2. dates \in [0 .. Height -> Nat] /\ \A i \in 0 .. Height : i # h => dates[i] = c.asked[i]
    BY <1>1
  <1>3. CASE c.asked[h] = 0
    <2>1. d = [c EXCEPT !.ask = Append(c.ask, h), !.later = c.later, !.asked = dates]
      BY <1>1, <1>3 DEF Download!AskFor, Gatherings
    <2>2. Append(c.ask, h) \in Seq(0 .. tip)  BY <1>1
    <2> HIDE DEF d, dates
    <2>3. d \in Gatherings /\ d.ask = Append(c.ask, h) /\ d.later = c.later /\ d.asked = dates
      BY <1>1, <1>2, <2>1, <2>2 DEF Gatherings
    <2>4. AskedFor(c, d, h)  BY <1>2, <2>3 DEF AskedFor, Pending
    <2> QED  BY <2>3, <2>4 DEF d
  <1>4. CASE c.asked[h] # 0
    <2>1. d = [c EXCEPT !.ask = c.ask, !.later = c.later \cup {r}, !.asked = dates]
      BY <1>1, <1>4 DEF Download!AskFor, Gatherings
    <2>2. r \in Postponed /\ c.later \cup {r} \in SUBSET Postponed
      BY <1>1, <1>4 DEF Postponed
    <2>3. r.block = h  OBVIOUS
    <2> HIDE DEF d, dates, r
    <2>4. d \in Gatherings /\ d.ask = c.ask /\ d.later = c.later \cup {r} /\ d.asked = dates
      BY <1>1, <1>2, <2>1, <2>2 DEF Gatherings
    <2>5. h \in Pending(c.later, c.asked)  BY <1>1, <1>4 DEF Pending
    <2>6. AskedFor(c, d, h)
      <3> SUFFICES ASSUME NEW x \in Pending(d.later, d.asked), x # h
                   PROVE  x \in Pending(c.later, c.asked)
        BY <2>4, <2>5 DEF AskedFor
      <3>1. CASE x \in 0 .. Height /\ dates[x] > 0  BY <1>2, <3>1 DEF Pending
      <3>2. CASE x \in {e.block : e \in c.later \cup {r}}  BY <2>3, <3>2 DEF Pending
      <3> QED  BY <2>4, <3>1, <3>2 DEF Pending
    <2> QED  BY <2>4, <2>6 DEF d
  <1> QED  BY <1>1, <1>3, <1>4

\* What the handler of an inv message does for the i-th entry.
HandleInv(c, inv, i) ==
    IF inv[i] \notin Download!Had THEN Download!AskFor(c, inv[i])
    ELSE IF inv[i] \in orphans THEN Download!PushGetBlocks(c, best, Download!GetOrphanRoot(inv[i]))
    ELSE IF i = Len(inv) THEN Download!PushGetBlocks(c, inv[i], 0)
    ELSE c

LEMMA HandleInvType ==
    ASSUME WellTyped, NEW inv \in Seq(0 .. tip), NEW c \in Gatherings, NEW i \in 1 .. Len(inv)
    PROVE  /\ HandleInv(c, inv, i) \in Gatherings
           /\ inv[i] \in Download!Had => SameRequests(c, HandleInv(c, inv, i))
           /\ inv[i] \notin Download!Had => AskedFor(c, HandleInv(c, inv, i), inv[i])
  <1> DEFINE h == inv[i]
  <1>1. h \in 0 .. tip  BY SeqElement
  <1>2. HandleInv(c, inv, i) = IF h \notin Download!Had THEN Download!AskFor(c, h)
                               ELSE IF h \in orphans THEN Download!PushGetBlocks(c, best, Download!GetOrphanRoot(h))
                               ELSE IF i = Len(inv) THEN Download!PushGetBlocks(c, h, 0) ELSE c
    BY DEF HandleInv
  <1> HIDE DEF h
  <1>3. CASE h \notin Download!Had
    <2>1. Download!AskFor(c, h) \in Gatherings /\ AskedFor(c, Download!AskFor(c, h), h)
      BY <1>1, AskForType
    <2> QED  BY <1>2, <1>3, <2>1 DEF h
  <1>4. CASE h \in Download!Had
    <2>1. CASE h \in orphans
      <3>1. Download!GetOrphanRoot(h) \in 0 .. tip /\ best \in 0 .. best
        BY <1>1, RootFacts, TypeFacts
      <3> QED  BY <1>2, <1>4, <2>1, <3>1, PushGetBlocksType DEF h
    <2>2. CASE h \notin orphans
      <3>1. h \in 0 .. best /\ 0 \in 0 .. tip  BY <1>4, <2>2, TypeFacts DEF Download!Had
      <3>2. Download!PushGetBlocks(c, h, 0) \in Gatherings /\ SameRequests(c, Download!PushGetBlocks(c, h, 0))
        BY <3>1, PushGetBlocksType
      <3>3. SameRequests(c, c)  BY DEF SameRequests
      <3> QED  BY <1>2, <1>4, <2>2, <3>2, <3>3 DEF h
    <2> QED  BY <2>1, <2>2
  <1> QED  BY <1>3, <1>4

\* What the client has gathered after each entry.
InvSteps(f, inv) ==
    /\ f[0] = Download!Gathered
    /\ \A i \in 1 .. Len(inv) : f[i] = HandleInv(f[i - 1], inv, i)
    /\ Download!OnInv(inv) => Download!Finish(f[Len(inv)]) /\ UNCHANGED Download!client
    /\ f \in [0 .. Len(inv) -> Gatherings]

LEMMA InvTrace ==
    ASSUME WellTyped, NEW inv \in Seq(0 .. tip)
    PROVE  \E f : InvSteps(f, inv)
  <1> DEFINE n == Len(inv)
             V == Gatherings
             index == [i \in 1 .. n |-> i]
             op(v, i) == HandleInv(v, inv, i)
             Rec(f) == f = [i \in 0 .. n |-> IF i = 0 THEN Download!Gathered ELSE op(f[i - 1], i)]
             step == [i \in 1 .. n |-> [v \in V |-> op(v, i)]]
             g == CHOOSE f : Rec(f)
  <1>1. n \in Nat /\ Len(index) = n /\ \A i \in 1 .. n : index[i] = i  OBVIOUS
  <1>2. Download!OnInv(inv) => Download!Finish(g[n]) /\ UNCHANGED Download!client
    <2> DEFINE Rec2(f) == f = [i \in 0 .. Len(index) |->
                                  IF i = 0 THEN Download!Gathered ELSE HandleInv(f[i - 1], inv, index[i])]
               g2 == CHOOSE f : Rec2(f)
    <2>1. Download!OnInv(inv) => Download!Finish(g2[Len(index)]) /\ UNCHANGED Download!client
      BY DEF Download!OnInv, Download!InOrder, HandleInv
    <2>2. ASSUME NEW f PROVE Rec2(f) <=> Rec(f)
      <3>1. [i \in 0 .. Len(index) |-> IF i = 0 THEN Download!Gathered ELSE HandleInv(f[i - 1], inv, index[i])]
            = [i \in 0 .. n |-> IF i = 0 THEN Download!Gathered ELSE HandleInv(f[i - 1], inv, i)]
        BY <1>1
      <3> QED  BY <3>1
    <2>3. g2 = g
      <3> HIDE DEF Rec, Rec2
      <3> QED  BY <2>2, Zenon
    <2> HIDE DEF g, g2
    <2> QED  BY <1>1, <2>1, <2>3
  <1>3. \A v \in V : \A i \in 1 .. n : op(v, i) \in V  BY HandleInvType
  <1>4. Download!Gathered \in V  BY GatheredType
  <1> HIDE DEF n, op, V
  <1>5. step \in [1 .. n -> [V -> V]]  BY <1>3
  <1>6. PICK f : Iterates(f, V, n, Download!Gathered, step)
    <2> HIDE DEF step
    <2> QED  BY <1>1, <1>4, <1>5, Iterated
  <1>7. \A i \in 1 .. n : f[i] = op(f[i - 1], i)
    <2> TAKE i \in 1 .. n
    <2>1. i - 1 \in 0 .. n  BY <1>1
    <2>2. f[i - 1] \in V  BY <1>6, <2>1 DEF Iterates
    <2> QED  BY <1>6, <2>2 DEF Iterates
  <1>8. Rec(f)
    <2>1. \A i \in 0 .. n : f[i] = IF i = 0 THEN Download!Gathered ELSE op(f[i - 1], i)
      BY <1>1, <1>6, <1>7 DEF Iterates
    <2> QED  BY <1>6, <2>1 DEF Iterates
  <1>9. Rec(g)  BY <1>8, Zenon
  <1> HIDE DEF g
  <1>10. g[0] = Download!Gathered /\ \A i \in 1 .. n : g[i] = op(g[i - 1], i)
    <2>1. \A i \in 0 .. n : g[i] = IF i = 0 THEN Download!Gathered ELSE op(g[i - 1], i)  BY <1>9
    <2> QED  BY <1>1, <2>1
  <1>11. g \in [0 .. n -> V]
    <2> DEFINE T == {i \in 0 .. n : g[i] \in V}
    <2>1. 0 \in T  BY <1>1, <1>4, <1>10
    <2>2. \A i \in 1 .. n : i - 1 \in T => i \in T  BY <1>1, <1>3, <1>10
    <2>3. \A i \in 0 .. n : i \in T
      <3> HIDE DEF T
      <3> QED  BY <1>1, <2>1, <2>2, UpTo
    <2> QED  BY <1>9, <2>3
  <1>12. InvSteps(g, inv)  BY <1>2, <1>10, <1>11 DEF InvSteps, n, op, V
  <1> QED  BY <1>12

\* What an inv message adds to the requests queued.
InvLine(S, T, inv) ==
    /\ InSequence(askFor, S) /\ InSequence(inv, T) /\ Covers(S, Download!Had)
    /\ Covers(S \cup Elems(askFor, Len(askFor)), T)
    /\ Covers(S \cup Elems(askFor, Len(askFor)), Pending(later, lastAsked))

InvResult(c, inv) ==
    /\ c \in Gatherings /\ Download!Finish(c) /\ UNCHANGED Download!client
    /\ Elems(askFor, Len(askFor)) \subseteq Elems(c.ask, Len(c.ask))
    /\ \A S, T : InvLine(S, T, inv) =>
           /\ InSequence(c.ask, S)
           /\ Covers(S \cup Elems(c.ask, Len(c.ask)), Elems(inv, Len(inv)))
           /\ Covers(S \cup Elems(c.ask, Len(c.ask)), Pending(c.later, c.asked))

LEMMA InvFacts ==
    ASSUME WellTyped, NEW inv \in Seq(0 .. tip), Download!OnInv(inv)
    PROVE  \E c : InvResult(c, inv)
  <1> DEFINE n == Len(inv)
             old == Elems(askFor, Len(askFor))
             In(c, i, S) == /\ InSequence(c.ask, S)
                            /\ Covers(S \cup Elems(c.ask, Len(c.ask)), Elems(inv, i))
                            /\ Covers(S \cup Elems(c.ask, Len(c.ask)), Pending(c.later, c.asked))
  <1>1. PICK f : InvSteps(f, inv)  BY InvTrace
  <1>2. /\ n \in Nat /\ f[0] = Download!Gathered /\ \A i \in 0 .. n : f[i] \in Gatherings
        /\ \A i \in 1 .. n : f[i] = HandleInv(f[i - 1], inv, i)
        /\ Download!Finish(f[n]) /\ UNCHANGED Download!client
    <2>1. n \in Nat  OBVIOUS
    <2> QED  BY <1>1, <2>1 DEF InvSteps
  <1> DEFINE Good(c, i) == /\ old \subseteq Elems(c.ask, Len(c.ask))
                           /\ \A S, T : InvLine(S, T, inv) => In(c, i, S)
             J == {i \in 0 .. n : Good(f[i], i)}
  <1>3. 0 \in J
    <2>1. f[0].ask = askFor /\ f[0].later = later /\ f[0].asked = lastAsked  BY <1>2, GatheredType
    <2>2. Elems(inv, 0) = {}  BY DEF Elems
    <2>3. ASSUME NEW S, NEW T, InvLine(S, T, inv) PROVE In(f[0], 0, S)
      <3>1. Covers(S \cup Elems(f[0].ask, Len(f[0].ask)), Elems(inv, 0))  BY <2>2 DEF Covers
      <3> QED  BY <2>1, <2>3, <3>1 DEF InvLine
    <2> HIDE DEF In
    <2> QED  BY <1>2, <2>1, <2>3
  <1>4. ASSUME NEW i \in 1 .. n, i - 1 \in J PROVE i \in J
    <2> DEFINE k == i - 1
               c == f[k]
               d == f[i]
               h == inv[i]
    <2>1. k \in 0 .. n /\ i \in 0 .. n /\ i = k + 1  BY <1>2
    <2>2. Good(c, k)  BY <1>4
    <2>3. c \in Gatherings /\ d \in Gatherings  BY <1>2, <2>1
    <2>4. h \in 0 .. tip  BY SeqElement
    <2>5. c.ask \in Seq(Nat) /\ h \in Nat /\ Start \in Nat
      <3>1. c.ask \in Seq(0 .. tip)  BY <2>3 DEF Gatherings
      <3> QED  BY <2>4, <3>1, TypeFacts, SeqWider
    <2>6. /\ h \in Download!Had => SameRequests(c, d)
          /\ h \notin Download!Had => AskedFor(c, d, h)
      <3>1. d = HandleInv(c, inv, i)  BY <1>2
      <3> HIDE DEF c, d
      <3> QED  BY <2>3, <3>1, HandleInvType
    <2>7. Elems(inv, i) = Elems(inv, k) \cup {h}
      <3>1. 1 .. i = (1 .. k) \cup {i}  BY <2>1
      <3> QED  BY <3>1 DEF Elems
    <2>8. ASSUME NEW S, NEW T, InvLine(S, T, inv)
          PROVE  Covers(S, Download!Had) /\ Follows(h, T \cup Elems(inv, k)) /\ Covers(S \cup old, T)
      BY <2>8 DEF InSequence, InvLine
    <2> HIDE DEF k, c, d, h, old
    <2>9. old \subseteq Elems(c.ask, Len(c.ask))
          /\ \A S, T : InvLine(S, T, inv) => In(c, k, S)
      BY <2>2
    <2>10. CASE d.ask = c.ask
      <3>1. ASSUME NEW S, NEW T, InvLine(S, T, inv) PROVE In(d, i, S)
        <4> DEFINE all == S \cup Elems(c.ask, Len(c.ask))
        <4>1. InSequence(c.ask, S) /\ Covers(all, Elems(inv, k)) /\ Covers(all, Pending(c.later, c.asked))
          BY <2>9, <3>1
        <4>2. Covers(all, {h})
          <5>1. CASE h \in Download!Had  BY <2>8, <3>1, <5>1 DEF Covers
          <5>2. CASE h \notin Download!Had
            <6>1. CASE h \in Pending(c.later, c.asked)  BY <4>1, <6>1 DEF Covers
            <6>2. CASE c.ask = Append(c.ask, h)
              <7>1. Len(Append(c.ask, h)) = Len(c.ask) + 1 /\ Len(c.ask) \in Nat  BY <2>5
              <7> QED  BY <6>2, <7>1
            <6> QED  BY <2>6, <2>10, <5>2, <6>1, <6>2 DEF AskedFor
          <5> QED  BY <5>1, <5>2
        <4>3. Covers(all, Elems(inv, i))  BY <2>7, <4>1, <4>2 DEF Covers
        <4>4. Pending(d.later, d.asked) \subseteq Pending(c.later, c.asked) \cup {h}
          BY <2>6 DEF SameRequests, AskedFor
        <4>5. Covers(all, Pending(d.later, d.asked))  BY <4>1, <4>2, <4>4 DEF Covers
        <4> QED  BY <2>10, <4>1, <4>3, <4>5
      <3> HIDE DEF In
      <3> QED  BY <2>1, <2>9, <2>10, <3>1 DEF d
    <2>11. CASE d.ask # c.ask
      <3>1. d.ask = Append(c.ask, h) /\ Pending(d.later, d.asked) \subseteq Pending(c.later, c.asked) \cup {h}
        BY <2>6, <2>11 DEF SameRequests, AskedFor
      <3>2. /\ Len(Append(c.ask, h)) = Len(c.ask) + 1
            /\ Elems(Append(c.ask, h), Len(c.ask) + 1) = Elems(c.ask, Len(c.ask)) \cup {h}
        BY <2>5, ElemsAppend
      <3>3. Elems(d.ask, Len(d.ask)) = Elems(c.ask, Len(c.ask)) \cup {h}  BY <3>1, <3>2
      <3>4. ASSUME NEW S, NEW T, InvLine(S, T, inv) PROVE In(d, i, S)
        <4> DEFINE all == S \cup Elems(c.ask, Len(c.ask))
                   more == S \cup Elems(d.ask, Len(d.ask))
        <4>1. InSequence(c.ask, S) /\ Covers(all, Elems(inv, k)) /\ Covers(all, Pending(c.later, c.asked))
          BY <2>9, <3>4
        <4>2. Follows(h, T \cup Elems(inv, k)) /\ Covers(S \cup old, T)  BY <2>8, <3>4
        <4>3. Covers(all, T \cup Elems(inv, k))  BY <2>9, <4>1, <4>2 DEF Covers
        <4>4. Follows(h, all)
          <5> HIDE DEF all
          <5> QED  BY <2>5, <4>2, <4>3, FollowsMore
        <4>5. InSequence(d.ask, S)  BY <2>5, <3>1, <4>1, <4>4, AppendInSequence
        <4>6. Covers(more, Elems(inv, i))  BY <2>7, <3>3, <4>1 DEF Covers
        <4>7. Covers(more, Pending(d.later, d.asked))  BY <3>1, <3>3, <4>1 DEF Covers
        <4> QED  BY <4>5, <4>6, <4>7
      <3>5. old \subseteq Elems(d.ask, Len(d.ask))  BY <2>9, <3>3
      <3> HIDE DEF In
      <3> QED  BY <2>1, <3>4, <3>5 DEF d
    <2> QED  BY <2>10, <2>11
  <1>5. n \in J
    <2> HIDE DEF J
    <2>1. \A i \in 0 .. n : i \in J  BY <1>2, <1>3, <1>4, UpTo
    <2> QED  BY <1>2, <2>1
  <1>6. Good(f[n], n)  BY <1>5
  <1>7. InvResult(f[n], inv)
    <2>1. f[n] \in Gatherings /\ Download!Finish(f[n]) /\ UNCHANGED Download!client  BY <1>2
    <2> QED  BY <1>6, <2>1, Zenon DEF InvResult
  <1> QED  BY <1>7

\* What the client receives is the first message, and its type tells what it carries.
LEMMA FirstAnswer ==
    ASSUME WellTyped, toClient # << >>
    PROVE  /\ Head(toClient) \in Download!Answers /\ Tail(toClient) \in Seq(Download!Answers)
           /\ \A type : Items(toClient, type, Len(toClient))
                          = Load(Head(toClient), type) \cup Items(Tail(toClient), type, Len(Tail(toClient)))
  <1>1. toClient \in Seq(Download!Answers)  BY TypeFacts
  <1>2. Head(toClient) \in Download!Answers /\ Tail(toClient) \in Seq(Download!Answers)
        /\ Len(Tail(toClient)) = Len(toClient) - 1
    BY <1>1, ItemsTail
  <1>3. ASSUME NEW type
        PROVE  Items(toClient, type, Len(toClient))
                 = Load(Head(toClient), type) \cup Items(Tail(toClient), type, Len(Tail(toClient)))
    <2> DEFINE n == Len(toClient) - 1
    <2>1. n \in 0 .. Len(toClient) - 1 /\ n + 1 = Len(toClient)
      <3>1. Len(toClient) \in Nat /\ Len(toClient) # 0  BY <1>1
      <3> QED  BY <3>1
    <2> HIDE DEF n
    <2>2. Items(toClient, type, n + 1)
            = Load(Head(toClient), type) \cup Items(Tail(toClient), type, n)
      BY <1>1, <2>1, ItemsTail
    <2> QED  BY <1>2, <2>1, <2>2 DEF n
  <1> QED  BY <1>2, <1>3

LEMMA ReceiveInv ==
    ASSUME WellTyped, toClient # << >>, Head(toClient).type = "inv",
           Download!OnInv(Head(toClient).inv), toClient' = Tail(toClient),
           UNCHANGED <<known, toSend, hashContinue, tip, reconnects, hurried>>
    PROVE  Download!TypeOK' /\ (InLine => InLine') /\ UNCHANGED Download!client
  <1> DEFINE m == Head(toClient)
             inv == m.inv
             old == Elems(askFor, Len(askFor))
  <1>1. /\ m \in Download!Answers /\ toClient' \in Seq(Download!Answers)
        /\ \A type : Items(toClient, type, Len(toClient))
                       = Load(m, type) \cup Items(toClient', type, Len(toClient'))
    BY FirstAnswer
  <1>2. inv \in Seq(0 .. tip) /\ Carried(m) = inv /\ inv \in Seq(Nat)
    <2>1. inv \in Seq(0 .. tip) /\ Carried(m) = inv  BY <1>1, AnswerFacts
    <2> QED  BY <2>1, TypeFacts, SeqWider
  <1>3. Load(m, "inv") = Elems(inv, Len(inv)) /\ Load(m, "block") = {}
    BY <1>2 DEF Load
  <1>4. PICK c : InvResult(c, inv)  BY <1>2, InvFacts
  <1>5. /\ c.ask \in Seq(0 .. tip) /\ c.last \in (0 .. best) \X (0 .. tip)
        /\ c.out \in Seq(GetBlocks)
        /\ c.later \subseteq Postponed /\ c.asked \in [0 .. Height -> Nat]
        /\ later' = c.later /\ lastAsked' = c.asked
        /\ askFor' = c.ask /\ lastGet' = c.last /\ toServer' = toServer \o c.out
        /\ best' = best /\ orphans' = orphans
    BY <1>4 DEF InvResult, Gatherings, Download!Finish, Download!client
  <1>6. c.out \in Seq(Download!Requests)  BY <1>5, GetBlocksType
  <1>7. Download!TypeOK'
    <2>1. toServer \o c.out \in Seq(Download!Requests)  BY <1>6, TypeFacts
    <2>2. Download!Requests' = Download!Requests /\ Download!Answers' = Download!Answers
      BY <1>5 DEF Download!Requests, Download!Answers
    <2> QED  BY <1>1, <1>5, <2>1, <2>2 DEF WellTyped, Download!TypeOK, Postponed
  <1>8. ASSUME InLine PROVE InLine'
    <2> DEFINE q == toClient
               u == toClient'
               ask == c.ask
               sent == Sent(Download!Had, q)
               requested == Requested(Download!Had, toServer, q)
               queued == Queued(Download!Had, askFor, toServer, q)
               offered == Offered(Download!Had, askFor, toServer, q)
               offered2 == Offered(Download!Had, ask, toServer', u)
    <2>1. /\ QueueInSequence(q, "block", Download!Had) /\ QueueInSequence(toServer, "getdata", sent)
          /\ InSequence(askFor, requested) /\ QueueInSequence(q, "inv", queued)
          /\ InSequence(toSend, offered)
          /\ \A h \in Elems(known, Len(known)) : h < Start => h \in offered
          /\ Covers(queued, Pending(later, lastAsked))
      BY <1>8 DEF InLine, Line
    <2>2. Download!Had' = Download!Had  BY <1>5 DEF Download!Had
    <2>3. q \in Seq(Download!Answers) /\ q # << >>  BY TypeFacts
    <2>4. \A i \in 1 .. Len(c.out) : c.out[i].type # "getdata"
      BY <1>5, GetBlocksType
    <2>5. /\ Items(toServer', "getdata", Len(toServer')) = Items(toServer, "getdata", Len(toServer))
          /\ QueueInSequence(toServer', "getdata", sent)
      BY <1>5, <1>6, <2>1, <2>4, TypeFacts, OthersFollow
    <2>6. Sent(Download!Had, u) = sent /\ Requested(Download!Had, toServer', u) = requested
      <3>1. Items(u, "block", Len(u)) = Items(q, "block", Len(q))  BY <1>1, <1>3
      <3> QED  BY <3>1, <2>5 DEF Sent, Requested
    <2>7. old \subseteq Elems(ask, Len(ask))  BY <1>4 DEF InvResult
    <2>8. Download!Had \subseteq requested /\ queued = requested \cup old
      BY DEF Requested, Sent, Queued
    <2>9. Queued(Download!Had, ask, toServer', u) = requested \cup Elems(ask, Len(ask))
      BY <2>6 DEF Queued
    <2>10. offered = queued \cup Elems(inv, Len(inv)) \cup Items(u, "inv", Len(u))
      BY <1>1, <1>3 DEF Offered
    <2>11. offered2 = requested \cup Elems(ask, Len(ask)) \cup Items(u, "inv", Len(u))
      BY <2>9 DEF Offered
    <2>13. InSequence(inv, queued) /\ QueueInSequence(u, "inv", queued \cup Elems(inv, Len(inv)))
      <3> HIDE DEF queued, inv
      <3> QED  BY <1>2, <1>3, <2>1, <2>3, TailInSequence
    <2>14. QueueInSequence(u, "block", Download!Had)
      <3>1. QueueInSequence(u, "block", Download!Had \cup Load(m, "block"))
        BY <2>1, <2>3, TailInSequence
      <3>2. Download!Had \cup Load(m, "block") = Download!Had  BY <1>3
      <3> QED  BY <3>1, <3>2
    <2>15. /\ InSequence(ask, requested)
           /\ Covers(requested \cup Elems(ask, Len(ask)), Elems(inv, Len(inv)))
           /\ Covers(requested \cup Elems(ask, Len(ask)), Pending(later', lastAsked'))
      <3>1. Covers(requested, Download!Had) /\ Covers(requested \cup old, queued)
            /\ Covers(requested \cup old, Pending(later, lastAsked))
        BY <2>1, <2>8 DEF Covers
      <3>2. InvLine(requested, queued, inv)  BY <2>1, <2>13, <3>1 DEF InvLine
      <3> HIDE DEF requested, queued, inv, ask
      <3>3. /\ InSequence(c.ask, requested)
            /\ Covers(requested \cup Elems(c.ask, Len(c.ask)), Elems(inv, Len(inv)))
            /\ Covers(requested \cup Elems(c.ask, Len(c.ask)), Pending(c.later, c.asked))
        BY <1>4, <3>2 DEF InvResult
      <3> QED  BY <1>5, <3>3 DEF ask
    <2>12. Covers(offered2, offered)  BY <2>7, <2>8, <2>10, <2>11, <2>15 DEF Covers
    <2>16. QueueInSequence(u, "inv", Queued(Download!Had, ask, toServer', u))
      <3>1. Covers(Queued(Download!Had, ask, toServer', u), queued \cup Elems(inv, Len(inv)))
        BY <2>7, <2>8, <2>9, <2>15 DEF Covers
      <3>2. \A a \in Download!Answers : a.type = "inv" => Carried(a) \in Seq(Nat)
        BY CarriedType
      <3>3. u \in Seq(Download!Answers)  BY <1>1
      <3> HIDE DEF queued, inv, u
      <3> QED  BY <2>13, <3>1, <3>2, <3>3, QueueMore, TypeFacts
    <2>17. InSequence(toSend, offered2)
      <3>1. toSend \in Seq(Nat)  BY TypeFacts, SeqWider
      <3> HIDE DEF offered, offered2
      <3> QED  BY <2>1, <2>12, <3>1, InSequenceMore, TypeFacts
    <2>18. \A h \in Elems(known, Len(known)) : h < Start => h \in offered2
      BY <2>1, <2>12 DEF Covers
    <2>20. Covers(Queued(Download!Had, ask, toServer', u), Pending(later', lastAsked'))
      BY <2>9, <2>15
    <2> HIDE DEF sent, requested, queued, offered, u
    <2>19. Line(Download!Had, ask, known, toSend, toServer', u)
      BY <2>5, <2>6, <2>14, <2>15, <2>16, <2>17, <2>18 DEF Line, offered2
    <2> QED  BY <1>5, <2>2, <2>19, <2>20 DEF InLine, u
  <1> QED  BY <1>5, <1>7, <1>8 DEF Download!client

\* Messages stay what they are when the chains grow.
LEMMA TypesGrow ==
    ASSUME WellTyped, best' \in Nat, tip' \in Nat, best <= best', tip <= tip'
    PROVE  /\ \A q \in Seq(Download!Requests) : q \in Seq(Download!Requests')
           /\ \A q \in Seq(Download!Answers) : q \in Seq(Download!Answers')
           /\ \A s \in Seq(0 .. tip) : s \in Seq(0 .. tip')
           /\ (0 .. best) \X (0 .. tip) \subseteq (0 .. best') \X (0 .. tip')
           /\ Postponed \subseteq Postponed'
  <1>1. 0 .. best \subseteq 0 .. best' /\ 0 .. tip \in SUBSET (0 .. tip')
    <2>1. best \in Nat /\ tip \in Nat  BY TypeFacts
    <2>2. \A i \in 0 .. best : i \in 0 .. best'  BY <2>1
    <2>3. \A i \in 0 .. tip : i \in 0 .. tip'  BY <2>1
    <2> QED  BY <2>2, <2>3
  <1>2. \A s \in Seq(0 .. tip) : s \in Seq(0 .. tip')  BY <1>1, SeqWider
  <1>3. Download!Requests \in SUBSET Download!Requests'
    <2> SUFFICES ASSUME NEW m \in Download!Requests PROVE m \in Download!Requests'
      OBVIOUS
    <2>1. CASE m \in [type : {"getblocks"}, begin : 0 .. best, end : 0 .. tip]
      BY <1>1, <2>1 DEF Download!Requests
    <2>2. CASE m \in [type : {"getdata"}, inv : Seq(0 .. tip)]
      BY <1>2, <2>2 DEF Download!Requests
    <2> QED  BY <2>1, <2>2 DEF Download!Requests
  <1>4. Download!Answers \in SUBSET Download!Answers'
    <2> SUFFICES ASSUME NEW m \in Download!Answers PROVE m \in Download!Answers'
      OBVIOUS
    <2>1. CASE m \in [type : {"inv"}, inv : Seq(0 .. tip)]  BY <1>2, <2>1 DEF Download!Answers
    <2>2. CASE m \in [type : {"block"}, block : 0 .. tip]  BY <1>1, <2>2 DEF Download!Answers
    <2> QED  BY <2>1, <2>2 DEF Download!Answers
  <1>5. \A q \in Seq(Download!Requests) : q \in Seq(Download!Requests')  BY <1>3, SeqWider
  <1>6. \A q \in Seq(Download!Answers) : q \in Seq(Download!Answers')  BY <1>4, SeqWider
  <1>7. Postponed \subseteq Postponed'  BY <1>1 DEF Postponed
  <1> QED  BY <1>1, <1>2, <1>5, <1>6, <1>7

\* A block after the best one takes the orphans that follow it along.
LEMMA NextFacts ==
    ASSUME WellTyped, NEW h \in 0 .. tip, h = best + 1, Download!OnNext(h)
    PROVE  /\ best' \in 0 .. tip /\ best <= best'
           /\ orphans' \subseteq best' + 2 .. tip /\ orphans' \subseteq orphans
           /\ Download!Had \cup {h} \subseteq Download!Had'
  <1> DEFINE R == {r \in h .. Height : \A i \in h + 1 .. r : i \in orphans}
             m == Download!Max(R)
  <1>1. /\ best' = m /\ orphans' = {o \in orphans : o > m}
    BY DEF Download!OnNext
  <1>2. /\ h \in Nat /\ best \in Nat /\ tip \in Nat /\ Height \in Nat /\ h <= tip /\ tip <= Height
        /\ orphans \subseteq best + 2 .. tip
    BY TypeFacts
  <1>3. R \in SUBSET (0 .. Height) /\ h \in R  BY <1>2
  <1>4. m \in R /\ \A r \in R : r <= m
    <2> HIDE DEF R
    <2> QED  BY <1>2, <1>3, MaxFacts
  <1> HIDE DEF m
  <1>5. m \in h .. Height /\ (\A i \in h + 1 .. m : i \in orphans)  BY <1>4
  <1>6. m \in 0 .. tip /\ h <= m
    <2>1. CASE m = h  BY <1>2, <1>5, <2>1
    <2>2. CASE m # h
      <3>1. m \in h + 1 .. m  BY <1>2, <1>5, <2>2
      <3> QED  BY <1>2, <1>5, <3>1
    <2> QED  BY <2>1, <2>2
  <1>7. m + 1 \notin orphans
    <2> SUFFICES ASSUME m + 1 \in orphans PROVE FALSE
      OBVIOUS
    <2>1. m + 1 \in h .. Height  BY <1>2, <1>6
    <2>2. ASSUME NEW i \in h + 1 .. m + 1 PROVE i \in orphans
      <3>1. CASE i = m + 1  BY <3>1
      <3>2. CASE i # m + 1
        <4>1. i \in h + 1 .. m  BY <1>2, <1>6, <3>2
        <4> QED  BY <1>5, <4>1
      <3> QED  BY <3>1, <3>2
    <2>3. m + 1 \in R  BY <2>1, <2>2
    <2> HIDE DEF R
    <2> QED  BY <1>4, <1>6, <2>3
  <1>8. orphans' \subseteq best' + 2 .. tip
    <2> SUFFICES ASSUME NEW o \in orphans' PROVE o \in m + 2 .. tip
      BY <1>1
    <2>1. o \in orphans /\ o > m /\ o # m + 1 /\ o \in best + 2 .. tip  BY <1>1, <1>2, <1>7
    <2> QED  BY <1>2, <1>6, <2>1
  <1>9. Download!Had \cup {h} \subseteq Download!Had'
    <2> SUFFICES ASSUME NEW x \in Download!Had \cup {h} PROVE x \in 0 .. m \cup orphans'
      BY <1>1 DEF Download!Had
    <2>1. CASE x \in 0 .. best  BY <1>2, <1>6, <2>1
    <2>2. CASE x = h  BY <1>2, <1>6, <2>2
    <2>3. CASE x \in orphans  BY <1>1, <1>2, <1>6, <2>3
    <2> QED  BY <2>1, <2>2, <2>3 DEF Download!Had
  <1> QED  BY <1>1, <1>2, <1>6, <1>8, <1>9

\* No request is gathered, nor is any block pending that was not before.
NothingAsked(c) ==
    /\ c.ask = askFor /\ c.later = later
    /\ Pending(c.later, c.asked) \subseteq Pending(later, lastAsked)

\* A block that was accepted is as if it had never been asked for.
LEMMA NotAskedType ==
    ASSUME WellTyped, NEW c \in Gatherings, NEW h \in 0 .. tip
    PROVE  /\ [c EXCEPT !.asked[h] = 0] \in Gatherings
           /\ SameRequests(Download!Gathered, c) => NothingAsked([c EXCEPT !.asked[h] = 0])
  <1> DEFINE dates == [c.asked EXCEPT ![h] = 0]
             d == [c EXCEPT !.asked[h] = 0]
  <1>1. c.asked \in [0 .. Height -> Nat] /\ h \in 0 .. Height  BY TypeFacts DEF Gatherings
  <1>2. dates \in [0 .. Height -> Nat] /\ \A x \in 0 .. Height : dates[x] > 0 => c.asked[x] > 0
    BY <1>1
  <1>3. d = [c EXCEPT !.asked = dates]  BY DEF Gatherings
  <1> HIDE DEF dates, d
  <1>4. d \in Gatherings /\ d.ask = c.ask /\ d.later = c.later /\ d.asked = dates
    BY <1>2, <1>3 DEF Gatherings
  <1>5. ASSUME SameRequests(Download!Gathered, c) PROVE NothingAsked(d)
    <2>1. c.ask = askFor /\ c.later = later /\ c.asked = lastAsked
      BY <1>5, GatheredType DEF SameRequests
    <2> QED  BY <1>2, <1>4, <2>1 DEF NothingAsked, Pending
  <1> QED  BY <1>4, <1>5 DEF d

\* A block without its parent.
LEMMA OrphanFacts ==
    ASSUME WellTyped, NEW h \in 0 .. tip, h # best + 1, h \notin Download!Had, Download!OnOrphan(h)
    PROVE  /\ best' = best /\ orphans' = orphans \cup {h} /\ h \in best + 2 .. tip
           /\ \E c \in Gatherings : Download!Finish(c) /\ (best < Estimate => NothingAsked(c))
  <1> DEFINE root == Download!GetOrphanRoot(h)
             pushed == Download!PushGetBlocks(Download!Gathered, best, root)
  <1>1. h \in best + 2 .. tip
    <2>1. best \in Nat /\ tip \in Nat  BY TypeFacts
    <2>2. h \notin 0 .. best  BY DEF Download!Had
    <2> QED  BY <2>1, <2>2
  <1>2. root \in 0 .. h /\ root \in 0 .. tip /\ \A i \in root .. h - 1 : i \in orphans
    BY RootFacts
  <1>3. pushed \in Gatherings /\ SameRequests(Download!Gathered, pushed)
    <2>1. best \in 0 .. best  BY TypeFacts
    <2>2. Download!Gathered \in Gatherings  BY GatheredType
    <2> HIDE DEF root
    <2> QED  BY <1>2, <2>1, <2>2, PushGetBlocksType
  <1>4. /\ best' = best /\ orphans' = orphans \cup {h}
        /\ Download!Finish([(IF Download!IsInitialBlockDownload THEN pushed
                             ELSE Download!AskFor(pushed, root - 1)) EXCEPT !.asked[h] = 0])
    BY DEF Download!OnOrphan
  <1> HIDE DEF pushed
  <1>5. root - 1 \in 0 .. tip
    <2>1. root # 0
      <3> SUFFICES ASSUME root = 0 PROVE FALSE
        OBVIOUS
      <3> HIDE DEF root
      <3>0. h \in Nat /\ h # 0
        <4>1. best \in Nat /\ tip \in Nat  BY TypeFacts
        <4> QED  BY <1>1, <4>1
      <3>1. 0 \in root .. h - 1  BY <3>0
      <3>2. 0 \in orphans  BY <1>2, <3>1
      <3>3. best \in Nat /\ orphans \subseteq best + 2 .. tip  BY TypeFacts
      <3>4. 0 \in best + 2 .. tip  BY <3>2, <3>3
      <3> QED  BY <3>3, <3>4
    <2> HIDE DEF root
    <2> QED  BY <1>2, <2>1, TypeFacts
  <1> HIDE DEF root
  <1>6. Download!AskFor(pushed, root - 1) \in Gatherings  BY <1>3, <1>5, AskForType
  <1>7. CASE best < Estimate
    <2> DEFINE c == [pushed EXCEPT !.asked[h] = 0]
    <2>1. c \in Gatherings /\ NothingAsked(c)  BY <1>3, NotAskedType
    <2>2. Download!Finish(c)  BY <1>4, <1>7 DEF Download!IsInitialBlockDownload
    <2> HIDE DEF c
    <2> QED  BY <1>1, <1>4, <2>1, <2>2
  <1>8. CASE ~(best < Estimate)
    <2> DEFINE c == [Download!AskFor(pushed, root - 1) EXCEPT !.asked[h] = 0]
    <2>1. c \in Gatherings  BY <1>6, NotAskedType
    <2>2. Download!Finish(c)  BY <1>4, <1>8 DEF Download!IsInitialBlockDownload
    <2> HIDE DEF c
    <2> QED  BY <1>1, <1>4, <1>8, <2>1, <2>2
  <1> QED  BY <1>7, <1>8

BlockResult(h, out) ==
    /\ out \in Seq(GetBlocks) /\ toServer' = toServer \o out
    /\ askFor' \in Seq(0 .. tip) /\ lastGet' \in (0 .. best) \X (0 .. tip)
    /\ later' \subseteq Postponed /\ lastAsked' \in [0 .. Height -> Nat]
    /\ best' \in 0 .. tip /\ best <= best' /\ orphans' \subseteq best' + 2 .. tip
    /\ Download!Had \subseteq Download!Had'
    /\ Download!StakeKnown(h) => h \in Download!Had'
    /\ best < Estimate => /\ askFor' = askFor
                          /\ Pending(later', lastAsked') \subseteq Pending(later, lastAsked)
    /\ \A o \in orphans' : o \in orphans \/ (o = h /\ h >= best + 2)

LEMMA BlockFacts ==
    ASSUME WellTyped, NEW h \in 0 .. tip, Download!OnBlock(h)
    PROVE  \E out : BlockResult(h, out)
  <1>1. /\ askFor \in Seq(0 .. tip) /\ lastGet \in (0 .. best) \X (0 .. tip)
        /\ best \in 0 .. tip /\ orphans \subseteq best + 2 .. tip /\ best \in Nat
        /\ toServer \in Seq(Download!Requests)
        /\ later \subseteq Postponed /\ lastAsked \in [0 .. Height -> Nat] /\ h \in 0 .. Height
    BY TypeFacts DEF WellTyped, Download!TypeOK
  <1>2. << >> \in Seq(GetBlocks) /\ toServer = toServer \o << >>  BY <1>1
  <1>3. CASE (h \in Download!Had \/ ~Download!StakeKnown(h)) 
           /\ UNCHANGED <<Download!client, Download!requests, lastGet, toServer>>
    <2>1. /\ best' = best /\ orphans' = orphans /\ askFor' = askFor /\ lastGet' = lastGet
          /\ toServer' = toServer /\ later' = later /\ lastAsked' = lastAsked
      BY <1>3 DEF Download!client, Download!requests
    <2>2. Download!Had' = Download!Had  BY <2>1 DEF Download!Had
    <2>3. BlockResult(h, << >>)  BY <1>1, <1>2, <1>3, <2>1, <2>2 DEF BlockResult
    <2> QED  BY <2>3
  <1>4. CASE h \notin Download!Had /\ h = best + 1 /\ Download!OnNext(h)
    <2>1. /\ best' \in 0 .. tip /\ best <= best'
          /\ orphans' \subseteq best' + 2 .. tip /\ orphans' \subseteq orphans
          /\ Download!Had \cup {h} \subseteq Download!Had'
      BY <1>4, NextFacts
    <2>2. /\ askFor' = askFor /\ lastGet' = lastGet /\ toServer' = toServer /\ later' = later
          /\ lastAsked' = [lastAsked EXCEPT ![h] = 0]
      BY <1>4 DEF Download!OnNext
    <2>4. lastAsked' \in [0 .. Height -> Nat] /\ \A x \in 0 .. Height : lastAsked'[x] > 0 => lastAsked[x] > 0
      BY <1>1, <2>2
    <2>5. Pending(later', lastAsked') \subseteq Pending(later, lastAsked)
      BY <2>2, <2>4 DEF Pending
    <2>3. BlockResult(h, << >>)  BY <1>1, <1>2, <2>1, <2>2, <2>4, <2>5 DEF BlockResult
    <2> QED  BY <2>3
  <1>5. CASE h \notin Download!Had /\ h # best + 1 /\ Download!OnOrphan(h)
    <2>1. /\ best' = best /\ orphans' = orphans \cup {h} /\ h \in best + 2 .. tip
          /\ \E c \in Gatherings : Download!Finish(c) /\ (best < Estimate => NothingAsked(c))
      BY <1>5, OrphanFacts
    <2>2. PICK c \in Gatherings : Download!Finish(c) /\ (best < Estimate => NothingAsked(c))
      BY <2>1
    <2>3. /\ c.out \in Seq(GetBlocks) /\ toServer' = toServer \o c.out
          /\ askFor' \in Seq(0 .. tip) /\ lastGet' \in (0 .. best) \X (0 .. tip)
          /\ later' \subseteq Postponed /\ lastAsked' \in [0 .. Height -> Nat]
          /\ best < Estimate => /\ askFor' = askFor
                                /\ Pending(later', lastAsked') \subseteq Pending(later, lastAsked)
      BY <2>2 DEF Gatherings, Download!Finish, NothingAsked
    <2>4. Download!Had' = Download!Had \cup {h}  BY <2>1 DEF Download!Had
    <2>5. best <= best' /\ h >= best + 2 /\ best' \in 0 .. tip /\ orphans' \subseteq best' + 2 .. tip
      BY <1>1, <2>1
    <2>6. BlockResult(h, c.out)  BY <2>1, <2>3, <2>4, <2>5 DEF BlockResult
    <2> QED  BY <2>6
  <1> QED  BY <1>3, <1>4, <1>5 DEF Download!OnBlock

\* A block announced in a batch comes when the client can connect it; of the other
\* blocks before Start the stake can be checked.
OrphansOutside == \A o \in orphans : Outside(o)

LEMMA LastWorkFacts ==
    ASSUME Download!DownloadAssumption
    PROVE  /\ LastWork \in ProofOfWork /\ LastWork \in 0 .. Start
           /\ \A p \in ProofOfWork : p <= Start => p <= LastWork
  <1> DEFINE W == {w \in ProofOfWork : w <= Start}
  <1>1. Start \in Nat /\ 0 \in ProofOfWork /\ ProofOfWork \subseteq 0 .. Height /\ Height \in Nat
    BY DEF Download!DownloadAssumption
  <1>2. W \in SUBSET (0 .. Start) /\ 0 \in W
    <2>1. ASSUME NEW w \in W PROVE w \in 0 .. Start
      <3>1. w \in 0 .. Height /\ w <= Start  BY <1>1
      <3> QED  BY <1>1, <3>1
    <2>2. 0 \in W  BY <1>1
    <2> QED  BY <2>1, <2>2
  <1>3. Download!Max(W) \in W /\ \A w \in W : w <= Download!Max(W)
    <2> HIDE DEF W
    <2> QED  BY <1>1, <1>2, MaxFacts
  <1>4. LastWork = Download!Max(W)  BY DEF LastWork
  <1>5. LastWork \in ProofOfWork /\ LastWork \in 0 .. Start  BY <1>2, <1>3, <1>4
  <1> QED  BY <1>3, <1>4, <1>5

LEMMA BatchBlockFits ==
    ASSUME WellTyped, NEW h \in 0 .. tip, Follows(h, Download!Had)
    PROVE  /\ h >= best + 2 => Outside(h)
           /\ h < Start => Download!StakeKnown(h)
  <1>1. /\ best \in Nat /\ tip \in Nat /\ Start \in Nat /\ orphans \subseteq best + 2 .. tip
        /\ tip <= Height /\ Height \in Nat /\ h \in Nat /\ h \in 0 .. Height
    BY TypeFacts
  <1>2. ASSUME h >= best + 2, ~Outside(h) PROVE FALSE
    <2>1. best + 1 \in 1 .. h - 1  BY <1>1, <1>2
    <2>2. best + 1 \in Download!Had  BY <1>2, <2>1 DEF Follows
    <2> QED  BY <1>1, <2>2 DEF Download!Had
  <1>3. ASSUME h < Start, ~Download!StakeKnown(h) PROVE FALSE
    <2>1. h \notin ProofOfWork /\ StakeOf[h] \in Nat /\ StakeOf[h] < h /\ ~(StakeOf[h] <= best)
      <3>1. h \notin ProofOfWork /\ ~(StakeOf[h] <= best)  BY <1>3 DEF Download!StakeKnown
      <3>2. StakeOf \in [0 .. Height -> 0 .. Height]
            /\ \A i \in (0 .. Height) \ ProofOfWork : StakeOf[i] < i
        BY DEF WellTyped, Download!DownloadAssumption
      <3> QED  BY <1>1, <3>1, <3>2
    <2>2. h # LastWork  BY <2>1, LastWorkFacts DEF WellTyped
    <2>3. ~Outside(h)  BY <1>1, <1>3, <2>2 DEF Outside
    <2>4. h >= best + 2  BY <1>1, <2>1
    <2> QED  BY <1>2, <2>3, <2>4
  <1> QED  BY <1>2, <1>3

LEMMA ReceiveBlock ==
    ASSUME WellTyped, toClient # << >>, Head(toClient).type = "block",
           Download!OnBlock(Head(toClient).block), toClient' = Tail(toClient),
           UNCHANGED <<known, toSend, hashContinue, tip, reconnects, hurried>>
    PROVE  /\ Download!TypeOK' /\ best <= best'
           /\ best < Estimate /\ InLine /\ OrphansOutside => InLine' /\ OrphansOutside'
  <1> DEFINE m == Head(toClient)
             h == m.block
  <1>1. /\ m \in Download!Answers /\ toClient' \in Seq(Download!Answers)
        /\ \A type : Items(toClient, type, Len(toClient))
                       = Load(m, type) \cup Items(toClient', type, Len(toClient'))
    BY FirstAnswer
  <1>2. h \in 0 .. tip /\ Carried(m) = <<h>>  BY <1>1, AnswerFacts
  <1>3. Load(m, "inv") = {} /\ Load(m, "block") = {h}
    <2>1. Len(<<h>>) = 1 /\ Elems(<<h>>, 1) = {h}  BY DEF Elems
    <2> QED  BY <1>2, <2>1 DEF Load
  <1>4. PICK out : BlockResult(h, out)  BY <1>2, BlockFacts
  <1> HIDE DEF h
  <1>5. Download!TypeOK'
    <2>1. toServer \o out \in Seq(Download!Requests)
      BY <1>4, GetBlocksType, TypeFacts DEF BlockResult
    <2>2. best' \in Nat /\ tip' \in Nat /\ best <= best' /\ tip <= tip' /\ tip' = tip
      <3>1. best' \in 0 .. tip /\ best <= best'  BY <1>4 DEF BlockResult
      <3>2. tip \in Nat /\ tip' = tip  BY TypeFacts
      <3>3. tip <= tip' /\ best' \in Nat  BY <3>1, <3>2
      <3> QED  BY <3>1, <3>2, <3>3
    <2>3. toServer' \in Seq(Download!Requests')  BY <1>4, <2>1, <2>2, TypesGrow DEF BlockResult
    <2>4. toClient' \in Seq(Download!Answers')  BY <1>1, <2>2, TypesGrow
    <2>5. lastGet' \in (0 .. best') \X (0 .. tip')  BY <1>4, <2>2, TypesGrow DEF BlockResult
    <2>6. best' \in 0 .. tip' /\ orphans' \subseteq best' + 2 .. tip' /\ askFor' \in Seq(0 .. tip')
      BY <1>4, <2>2 DEF BlockResult
    <2>7. /\ tip' \in Start .. Height /\ known' \in Seq(0 .. tip') /\ toSend' \in Seq(0 .. tip')
          /\ Len(known') <= MaxKnown /\ hashContinue' \in 0 .. tip'
          /\ reconnects' \in 0 .. MaxReconnect /\ hurried' \in BOOLEAN
      BY DEF WellTyped, Download!TypeOK
    <2>8. later' \subseteq Postponed' /\ lastAsked' \in [0 .. Height -> Nat]
      BY <1>4, <2>2, TypesGrow DEF BlockResult
    <2> QED  BY <2>3, <2>4, <2>5, <2>6, <2>7, <2>8 DEF Download!TypeOK, Postponed
  <1>6. ASSUME best < Estimate, InLine, OrphansOutside PROVE InLine' /\ OrphansOutside'
    <2> DEFINE q == toClient
               u == toClient'
               had2 == Download!Had'
               sent == Sent(Download!Had, q)
               requested == Requested(Download!Had, toServer, q)
               queued == Queued(Download!Had, askFor, toServer, q)
               offered == Offered(Download!Had, askFor, toServer, q)
               sent2 == Sent(had2, u)
               requested2 == Requested(had2, toServer', u)
               queued2 == Queued(had2, askFor, toServer', u)
               offered2 == Offered(had2, askFor, toServer', u)
    <2>1. /\ QueueInSequence(q, "block", Download!Had) /\ QueueInSequence(toServer, "getdata", sent)
          /\ InSequence(askFor, requested) /\ QueueInSequence(q, "inv", queued)
          /\ InSequence(toSend, offered)
          /\ \A x \in Elems(known, Len(known)) : x < Start => x \in offered
          /\ Covers(queued, Pending(later, lastAsked))
      BY <1>6 DEF InLine, Line
    <2>2. q \in Seq(Download!Answers) /\ q # << >>  BY TypeFacts
    <2>3. InSequence(<<h>>, Download!Had) /\ QueueInSequence(u, "block", Download!Had \cup {h})
      BY <1>2, <1>3, <2>1, <2>2, TailInSequence
    <2>4. Follows(h, Download!Had)
      <3>1. 1 \in 1 .. Len(<<h>>) /\ <<h>>[1] = h /\ Elems(<<h>>, 1 - 1) = {}  BY DEF Elems
      <3>2. Follows(<<h>>[1], Download!Had \cup Elems(<<h>>, 1 - 1))
        BY <2>3, <3>1 DEF InSequence
      <3>3. Download!Had \cup Elems(<<h>>, 1 - 1) = Download!Had  BY <3>1
      <3> QED  BY <3>1, <3>2, <3>3
    <2>5. Covers(had2, Download!Had \cup {h})
      BY <1>2, <1>4, <2>4, BatchBlockFits DEF BlockResult, Covers
    <2>6. OrphansOutside'
      <3>1. \A o \in orphans' : Outside(o)
        BY <1>2, <1>4, <1>6, <2>4, BatchBlockFits DEF BlockResult, OrphansOutside
      <3> QED  BY <3>1 DEF OrphansOutside, Outside, LastWork
    <2>7. /\ Items(toServer', "getdata", Len(toServer')) = Items(toServer, "getdata", Len(toServer))
          /\ QueueInSequence(toServer', "getdata", sent)
      <3>1. out \in Seq(Download!Requests) /\ \A i \in 1 .. Len(out) : out[i].type # "getdata"
        BY <1>4, GetBlocksType DEF BlockResult
      <3>2. toServer' = toServer \o out  BY <1>4 DEF BlockResult
      <3> QED  BY <2>1, <3>1, <3>2, TypeFacts, OthersFollow
    <2>8. Items(q, "block", Len(q)) = {h} \cup Items(u, "block", Len(u))
          /\ Items(q, "inv", Len(q)) = Items(u, "inv", Len(u))
      BY <1>1, <1>3
    <2> HIDE DEF had2, u, q
    <2>9. Covers(sent2, sent)  BY <2>5, <2>8 DEF Sent, Covers
    <2>10. Covers(requested2, requested)  BY <2>7, <2>9 DEF Requested, Covers
    <2>11. Covers(queued2, queued)  BY <2>10 DEF Queued, Covers
    <2>12. Covers(offered2, offered)  BY <2>8, <2>11 DEF Offered, Covers
    <2>23. Covers(queued2, Pending(later', lastAsked'))
      <3> HIDE DEF queued, queued2
      <3>1. Pending(later', lastAsked') \subseteq Pending(later, lastAsked)
        BY <1>4, <1>6 DEF BlockResult
      <3> QED  BY <2>1, <2>11, <3>1 DEF Covers
    <2> HIDE DEF sent, requested, queued, offered, sent2, requested2, queued2, offered2
    <2>13. u \in Seq(Download!Answers) /\ toServer' \in Seq(Download!Requests)
      <3>1. toServer \o out \in Seq(Download!Requests)
        BY <1>4, GetBlocksType, TypeFacts DEF BlockResult
      <3> QED  BY <1>1, <1>4, <3>1 DEF u, BlockResult
    <2>14. Start \in Nat /\ askFor \in Seq(Nat) /\ toSend \in Seq(Nat)  BY TypeFacts, SeqWider
    <2>15. QueueInSequence(u, "block", had2)
      BY <2>3, <2>5, <2>13, <2>14, QueueMore, CarriedType
    <2>16. QueueInSequence(toServer', "getdata", sent2)
      BY <2>7, <2>9, <2>13, <2>14, QueueMore, CarriedType
    <2>17. InSequence(askFor, requested2)  BY <2>1, <2>10, <2>14, InSequenceMore
    <2>18. QueueInSequence(u, "inv", queued2)
      <3>1. QueueInSequence(u, "inv", queued \cup Load(m, "inv"))
        BY <2>1, <2>2, TailInSequence DEF u, q
      <3>2. queued \cup Load(m, "inv") = queued  BY <1>3
      <3>3. QueueInSequence(u, "inv", queued)  BY <3>1, <3>2
      <3> QED  BY <3>3, <2>11, <2>13, <2>14, QueueMore, CarriedType
    <2>19. InSequence(toSend, offered2)  BY <2>1, <2>12, <2>14, InSequenceMore
    <2>20. \A x \in Elems(known, Len(known)) : x < Start => x \in offered2
      BY <2>1, <2>12 DEF Covers
    <2>21. Line(had2, askFor, known, toSend, toServer', u)
      BY <2>15, <2>16, <2>17, <2>18, <2>19, <2>20
      DEF Line, sent2, requested2, queued2, offered2
    <2>22. askFor' = askFor  BY <1>4, <1>6 DEF BlockResult
    <2> QED  BY <2>6, <2>21, <2>22, <2>23 DEF InLine, u, had2, queued2
  <1> QED  BY <1>4, <1>5, <1>6 DEF BlockResult

\* The requests queued go out, but for those the client has meanwhile.
LEMMA ClientSendFacts ==
    ASSUME WellTyped, Download!ClientSend
    PROVE  Download!TypeOK' /\ (InLine => InLine') /\ UNCHANGED Download!client
  <1> DEFINE wanted == Download!Without(askFor, Download!Had)
             m == [type |-> "getdata", inv |-> wanted]
             requested == Requested(Download!Had, toServer, toClient)
  <1>1. /\ askFor \in Seq(0 .. tip) /\ toServer \in Seq(Download!Requests) /\ Start \in Nat
        /\ 0 .. tip \in SUBSET Nat /\ toClient \in Seq(Download!Answers)
    BY TypeFacts
  <1>2. LeftOf(wanted, askFor, Download!Had, 0 .. tip, requested)  BY <1>1, WithoutLeaves
  <1>3. /\ askFor' = << >>
        /\ toServer' = IF wanted = << >> THEN toServer ELSE Append(toServer, m)
        /\ best' = best /\ orphans' = orphans /\ lastGet' = lastGet /\ known' = known
        /\ toSend' = toSend /\ hashContinue' = hashContinue /\ toClient' = toClient
        /\ tip' = tip /\ reconnects' = reconnects /\ hurried' = hurried /\ later' = later
        /\ lastAsked' = [h \in 0 .. Height |->
                             IF Download!Contains(wanted, h) THEN TwoMinutes ELSE lastAsked[h]]
    BY DEF Download!ClientSend, Download!client
  <1> HIDE DEF wanted
  <1>4. wanted \in Seq(0 .. tip) /\ Elems(askFor, Len(askFor)) \subseteq Download!Had \cup Elems(wanted, Len(wanted))
        /\ (InSequence(askFor, requested) /\ Covers(requested, Download!Had) => InSequence(wanted, requested))
    BY <1>2 DEF LeftOf
  <1>9. lastAsked' \in [0 .. Height -> Nat]
        /\ Pending(later', lastAsked') \subseteq Pending(later, lastAsked) \cup Elems(wanted, Len(wanted))
    <2>1. lastAsked \in [0 .. Height -> Nat] /\ TwoMinutes \in Nat  BY TypeFacts
    <2>2. \A h : Download!Contains(wanted, h) => h \in Elems(wanted, Len(wanted))
      BY DEF Download!Contains, Elems
    <2>3. lastAsked' \in [0 .. Height -> Nat]  BY <1>3, <2>1
    <2>4. \A h \in 0 .. Height : lastAsked'[h] > 0 => lastAsked[h] > 0 \/ h \in Elems(wanted, Len(wanted))
      BY <1>3, <2>2
    <2> QED  BY <1>3, <2>3, <2>4 DEF Pending
  <1>5. m \in Download!Requests /\ m.type = "getdata" /\ Carried(m) = wanted
    BY <1>4 DEF Download!Requests, Carried
  <1> HIDE DEF m
  <1>6. toServer' \in Seq(Download!Requests)  BY <1>1, <1>3, <1>5
  <1>7. Download!TypeOK'
    <2>1. << >> \in Seq(0 .. tip)  OBVIOUS
    <2>2. Download!Requests' = Download!Requests /\ Download!Answers' = Download!Answers
      BY <1>3 DEF Download!Requests, Download!Answers
    <2>3. later' \subseteq [block : 0 .. tip', wait : Nat \ {0}] /\ lastAsked' \in [0 .. Height -> Nat]
      BY <1>3, <1>9, TypeFacts DEF Postponed
    <2> HIDE DEF wanted
    <2> QED  BY <1>3, <1>6, <2>1, <2>2, <2>3 DEF WellTyped, Download!TypeOK
  <1>8. ASSUME InLine PROVE InLine'
    <2> DEFINE sent == Sent(Download!Had, toClient)
               queued == Queued(Download!Had, askFor, toServer, toClient)
               offered == Offered(Download!Had, askFor, toServer, toClient)
               queued2 == Queued(Download!Had, << >>, toServer', toClient)
               offered2 == Offered(Download!Had, << >>, toServer', toClient)
    <2>1. /\ QueueInSequence(toClient, "block", Download!Had) /\ QueueInSequence(toServer, "getdata", sent)
          /\ InSequence(askFor, requested) /\ QueueInSequence(toClient, "inv", queued)
          /\ InSequence(toSend, offered)
          /\ \A h \in Elems(known, Len(known)) : h < Start => h \in offered
          /\ Covers(queued, Pending(later, lastAsked))
      BY <1>8 DEF InLine, Line
    <2>2. requested = sent \cup Items(toServer, "getdata", Len(toServer)) /\ Download!Had \subseteq requested
      BY DEF Requested, Sent
    <2>3. InSequence(wanted, requested)
      <3>1. Covers(requested, Download!Had)  BY <2>2 DEF Covers
      <3> QED  BY <1>4, <2>1, <3>1
    <2> HIDE DEF sent, requested
    <2>4. /\ QueueInSequence(toServer', "getdata", sent)
          /\ Items(toServer', "getdata", Len(toServer'))
               = Items(toServer, "getdata", Len(toServer)) \cup Elems(wanted, Len(wanted))
      <3>1. CASE wanted = << >>
        <4>1. Elems(wanted, Len(wanted)) = {}  BY <3>1 DEF Elems
        <4> QED  BY <1>3, <2>1, <3>1, <4>1
      <3>2. CASE wanted # << >>
        <4>1. toServer' = Append(toServer, m)  BY <1>3, <3>2
        <4>2. QueueInSequence(Append(toServer, m), "getdata", sent)
          BY <1>1, <1>5, <2>1, <2>2, <2>3, AppendQueueInSequence
        <4>3. Load(m, "getdata") = Elems(wanted, Len(wanted))  BY <1>5 DEF Load
        <4>4. /\ Len(Append(toServer, m)) = Len(toServer) + 1
              /\ Items(Append(toServer, m), "getdata", Len(toServer) + 1)
                   = Items(toServer, "getdata", Len(toServer)) \cup Load(m, "getdata")
          BY <1>1, <1>5, ItemsAppend
        <4> QED  BY <4>1, <4>2, <4>3, <4>4
      <3> QED  BY <3>1, <3>2
    <2>5. Elems(<< >>, Len(<< >>)) = {}  BY DEF Elems
    <2>6. queued2 = requested \cup Elems(wanted, Len(wanted))
      BY <2>2, <2>4, <2>5 DEF Queued, Requested, sent
    <2>7. Covers(queued2, queued)  BY <1>4, <2>2, <2>6 DEF Queued, Covers, requested
    <2>8. Covers(offered2, offered)  BY <2>7 DEF Offered, Covers
    <2>15. Covers(queued2, Pending(later', lastAsked'))
      <3> HIDE DEF queued, queued2
      <3> QED  BY <1>9, <2>1, <2>6, <2>7 DEF Covers
    <2> HIDE DEF queued, offered, queued2, offered2
    <2>9. QueueInSequence(toClient, "inv", queued2)
      BY <1>1, <2>1, <2>7, QueueMore, CarriedType
    <2>10. InSequence(toSend, offered2)
      <3>1. toSend \in Seq(Nat)  BY TypeFacts, SeqWider
      <3> QED  BY <1>1, <2>1, <2>8, <3>1, InSequenceMore
    <2>11. \A h \in Elems(known, Len(known)) : h < Start => h \in offered2
      BY <2>1, <2>8 DEF Covers
    <2>12. InSequence(<< >>, Requested(Download!Had, toServer', toClient))  BY DEF InSequence
    <2>13. Line(Download!Had, << >>, known, toSend, toServer', toClient)
      BY <2>1, <2>4, <2>9, <2>10, <2>11, <2>12 DEF Line, sent, queued2, offered2
    <2>14. Download!Had' = Download!Had  BY <1>3 DEF Download!Had
    <2> QED  BY <1>3, <2>13, <2>14, <2>15 DEF InLine, queued2
  <1> QED  BY <1>3, <1>7, <1>8 DEF Download!client

\* All that is in line follows what is in line.
LEMMA ItemsFollow ==
    ASSUME NEW q, NEW type, NEW S, QueueInSequence(q, type, S), Len(q) \in Nat,
           \A i \in 1 .. Len(q) : q[i].type = type => Len(Carried(q[i])) \in Nat,
           \A x \in S : Follows(x, S)
    PROVE  \A x \in S \cup Items(q, type, Len(q)) : Follows(x, S \cup Items(q, type, Len(q)))
  <1> DEFINE all == S \cup Items(q, type, Len(q))
  <1>1. \A i \in 1 .. Len(q) : Items(q, type, i - 1) \subseteq Items(q, type, Len(q))
    <2>1. \A i \in 1 .. Len(q) : 1 .. i - 1 \subseteq 1 .. Len(q)  OBVIOUS
    <2> QED  BY <2>1 DEF Items
  <1>2. ASSUME NEW x \in S PROVE Follows(x, all)  BY DEF Follows
  <1>3. ASSUME NEW x \in Items(q, type, Len(q)) PROVE Follows(x, all)
    <2>1. PICK i \in 1 .. Len(q) : x \in Load(q[i], type)  BY DEF Items
    <2> DEFINE c == Carried(q[i])
    <2>2. q[i].type = type /\ x \in Elems(c, Len(c)) /\ Len(c) \in Nat  BY <2>1 DEF Load
    <2>3. Load(q[i], type) = Elems(c, Len(c)) /\ Load(q[i], type) \subseteq Items(q, type, Len(q))
      BY <2>2 DEF Load, Items
    <2>4. InSequence(c, S \cup Items(q, type, i - 1))  BY <2>2 DEF QueueInSequence
    <2> HIDE DEF c
    <2>5. PICK j \in 1 .. Len(c) : x = c[j]  BY <2>2 DEF Elems
    <2>6. Follows(x, (S \cup Items(q, type, i - 1)) \cup Elems(c, j - 1))
      BY <2>4, <2>5 DEF InSequence
    <2>7. Elems(c, j - 1) \subseteq Elems(c, Len(c))
      <3>1. 1 .. j - 1 \subseteq 1 .. Len(c)  BY <2>2
      <3> QED  BY <3>1 DEF Elems
    <2>8. (S \cup Items(q, type, i - 1)) \cup Elems(c, j - 1) \subseteq all
      BY <1>1, <2>3, <2>7
    <2> HIDE DEF all
    <2> QED  BY <2>6, <2>8 DEF Follows
  <1> QED  BY <1>2, <1>3

LEMMA QueuedFollow ==
    ASSUME WellTyped, InLine, OrphansOutside
    PROVE  \A x \in Queued(Download!Had, askFor, toServer, toClient) :
               Follows(x, Queued(Download!Had, askFor, toServer, toClient))
  <1> DEFINE sent == Sent(Download!Had, toClient)
             requested == Requested(Download!Had, toServer, toClient)
             queued == Queued(Download!Had, askFor, toServer, toClient)
  <1>1. /\ QueueInSequence(toClient, "block", Download!Had)
        /\ QueueInSequence(toServer, "getdata", sent) /\ InSequence(askFor, requested)
    BY DEF InLine, Line
  <1>2. /\ toClient \in Seq(Download!Answers) /\ toServer \in Seq(Download!Requests)
        /\ askFor \in Seq(0 .. tip) /\ best \in Nat
    BY TypeFacts
  <1>3. \A x \in Download!Had : Follows(x, Download!Had)
    <2>1. \A x \in 0 .. best : 1 .. x - 1 \subseteq 0 .. best  BY <1>2
    <2> QED  BY <2>1 DEF Follows, OrphansOutside, Download!Had
  <1>4. \A x \in sent : Follows(x, sent)
    <2>1. Len(toClient) \in Nat  BY <1>2
    <2>2. \A i \in 1 .. Len(toClient) : toClient[i].type = "block" => Len(Carried(toClient[i])) \in Nat
      <3> TAKE i \in 1 .. Len(toClient)
      <3>1. toClient[i] \in Download!Answers  BY <1>2
      <3>2. Carried(toClient[i]) \in Seq(Nat)  BY <3>1, CarriedType
      <3> QED  BY <3>2
    <2> QED  BY <1>1, <1>3, <2>1, <2>2, ItemsFollow DEF Sent
  <1>5. \A x \in requested : Follows(x, requested)
    <2>1. Len(toServer) \in Nat  BY <1>2
    <2>2. \A i \in 1 .. Len(toServer) : toServer[i].type = "getdata" => Len(Carried(toServer[i])) \in Nat
      <3> SUFFICES ASSUME NEW i \in 1 .. Len(toServer), toServer[i].type = "getdata"
                   PROVE  Len(Carried(toServer[i])) \in Nat
        OBVIOUS
      <3>1. toServer[i] \in Download!Requests  BY <1>2
      <3>2. Carried(toServer[i]) \in Seq(Nat)  BY <3>1, CarriedType
      <3> QED  BY <3>2
    <2> HIDE DEF sent
    <2>3. \A x \in sent \cup Items(toServer, "getdata", Len(toServer)) :
              Follows(x, sent \cup Items(toServer, "getdata", Len(toServer)))
      BY <1>1, <1>4, <2>1, <2>2, ItemsFollow
    <2> QED  BY <2>3 DEF Requested, sent
  <1> HIDE DEF sent, requested
  <1>6. queued = requested \cup Elems(askFor, Len(askFor))  BY DEF Queued, requested
  <1>7. ASSUME NEW x \in requested PROVE Follows(x, queued)  BY <1>5, <1>6 DEF Follows
  <1>8. ASSUME NEW x \in Elems(askFor, Len(askFor)) PROVE Follows(x, queued)
    <2>1. PICK i \in 1 .. Len(askFor) : x = askFor[i]  BY DEF Elems
    <2>2. Follows(x, requested \cup Elems(askFor, i - 1))  BY <1>1, <2>1 DEF InSequence
    <2>3. Elems(askFor, i - 1) \subseteq Elems(askFor, Len(askFor))
      <3>1. 1 .. i - 1 \subseteq 1 .. Len(askFor)  BY <1>2
      <3> QED  BY <3>1 DEF Elems
    <2> QED  BY <1>6, <2>2, <2>3 DEF Follows
  <1> QED  BY <1>6, <1>7, <1>8

\* A request that has become due repeats one that is on its way.
LEMMA TickFacts ==
    ASSUME WellTyped, Download!Tick
    PROVE  /\ Download!TypeOK' /\ UNCHANGED Download!client
           /\ InLine /\ OrphansOutside => InLine'
  <1> DEFINE D == {r.block : r \in {x \in later : x.wait = 1}}
  <1>1. PICK due \in Download!SetToSeqs(D) : askFor' = askFor \o due
    BY DEF Download!Tick
  <1>2. /\ later' = {[block |-> r.block, wait |-> r.wait - 1] : r \in {x \in later : x.wait # 1}}
        /\ lastAsked' = [h \in 0 .. Height |-> IF lastAsked[h] = 0 THEN 0 ELSE lastAsked[h] - 1]
        /\ best' = best /\ orphans' = orphans /\ lastGet' = lastGet /\ known' = known
        /\ toSend' = toSend /\ hashContinue' = hashContinue /\ toServer' = toServer
        /\ toClient' = toClient /\ tip' = tip /\ reconnects' = reconnects /\ hurried' = hurried
    BY DEF Download!Tick, Download!client
  <1>3. /\ later \in SUBSET Postponed /\ lastAsked \in [0 .. Height -> Nat]
        /\ 0 .. tip \in SUBSET Nat /\ tip \in Nat /\ askFor \in Seq(0 .. tip) /\ Start \in Nat
        /\ toClient \in Seq(Download!Answers) /\ toServer \in Seq(Download!Requests)
        /\ toSend \in Seq(0 .. tip)
    BY TypeFacts
  <1>4. D \in SUBSET (0 .. tip) /\ D \subseteq Pending(later, lastAsked)
    BY <1>3 DEF Postponed, Pending
  <1>5. /\ due \in Seq(0 .. tip) /\ Len(due) \in Nat
        /\ \A i \in 1 .. Len(due) : due[i] \in D
    <2> DEFINE n == Cardinality(D)
               K == 0 .. tip
    <2>1. D \subseteq K /\ 0 \in Int /\ tip \in Int  BY <1>3, <1>4
    <2>2. due \in Download!SetToSeqs(D)  BY <1>1
    <2> HIDE DEF D
    <2>3. IsFiniteSet(K)  BY <2>1, FS_Interval
    <2> HIDE DEF K
    <2>4. IsFiniteSet(D)  BY <2>1, <2>3, FS_Subset
    <2>5. n \in Nat  BY <2>4, FS_CardinalityType
    <2>6. due \in [1 .. n -> D]
      <3>1. due \in [1 .. Download!Cardinality(D) -> D]  BY <2>2, SMT DEF Download!SetToSeqs
      <3>2. Download!Cardinality(D) = Cardinality(D)  BY Zenon DEF Download!Cardinality, Cardinality
      <3> QED  BY <3>1, <3>2
    <2> HIDE DEF n
    <2>7. due \in [1 .. n -> K]  BY <2>1, <2>6
    <2>8. due \in Seq(K) /\ Len(due) = n  BY <2>5, <2>7
    <2>9. due \in Seq(0 .. tip)  BY <2>8 DEF K
    <2> QED  BY <2>5, <2>6, <2>8, <2>9
  <1> HIDE DEF D
  <1>6. askFor' \in Seq(0 .. tip)
    <2> DEFINE K == 0 .. tip
    <2>1. askFor \in Seq(K) /\ due \in Seq(K)  BY <1>3, <1>5
    <2> HIDE DEF K
    <2>2. askFor \o due \in Seq(K)  BY <2>1
    <2> QED  BY <1>1, <2>2 DEF K
  <1>7. later' \subseteq Postponed /\ lastAsked' \in [0 .. Height -> Nat]
    <2>1. ASSUME NEW r \in later, r.wait # 1 PROVE [block |-> r.block, wait |-> r.wait - 1] \in Postponed
      <3>1. r.block \in 0 .. tip /\ r.wait \in Nat /\ r.wait # 0  BY <1>3 DEF Postponed
      <3>2. r.wait - 1 \in Nat \ {0}  BY <2>1, <3>1
      <3> QED  BY <3>1, <3>2 DEF Postponed
    <2>2. later' \subseteq Postponed  BY <1>2, <2>1
    <2>3. lastAsked' \in [0 .. Height -> Nat]
      <3>1. \A h \in 0 .. Height : (IF lastAsked[h] = 0 THEN 0 ELSE lastAsked[h] - 1) \in Nat
        BY <1>3
      <3> QED  BY <1>2, <3>1
    <2> QED  BY <2>2, <2>3
  <1>8. Pending(later', lastAsked') \subseteq Pending(later, lastAsked)
    <2>1. ASSUME NEW h \in 0 .. Height, lastAsked'[h] > 0 PROVE lastAsked[h] > 0
      <3>1. lastAsked'[h] = IF lastAsked[h] = 0 THEN 0 ELSE lastAsked[h] - 1  BY <1>2
      <3>2. lastAsked[h] \in Nat  BY <1>3
      <3> QED  BY <2>1, <3>1, <3>2
    <2>2. \A e \in later' : \E r \in later : e.block = r.block  BY <1>2
    <2> QED  BY <2>1, <2>2 DEF Pending
  <1>9. Download!TypeOK'
    <2>1. Download!Requests' = Download!Requests /\ Download!Answers' = Download!Answers
      BY <1>2 DEF Download!Requests, Download!Answers
    <2>2. later' \subseteq [block : 0 .. tip', wait : Nat \ {0}]  BY <1>2, <1>7 DEF Postponed
    <2>3. /\ best' \in 0 .. tip' /\ tip' \in Start .. Height /\ orphans' \subseteq best' + 2 .. tip'
          /\ {known', toSend'} \subseteq Seq(0 .. tip') /\ Len(known') <= MaxKnown
          /\ hashContinue' \in 0 .. tip' /\ lastGet' \in (0 .. best') \X (0 .. tip')
          /\ reconnects' \in 0 .. MaxReconnect /\ hurried' \in BOOLEAN
      BY <1>2 DEF WellTyped, Download!TypeOK
    <2>4. toServer' \in Seq(Download!Requests') /\ toClient' \in Seq(Download!Answers')
      BY <1>2, <1>3, <2>1
    <2>5. askFor' \in Seq(0 .. tip')  BY <1>2, <1>6
    <2> QED  BY <1>7, <2>2, <2>3, <2>4, <2>5 DEF Download!TypeOK
  <1>10. ASSUME InLine, OrphansOutside PROVE InLine'
    <2> DEFINE old == Elems(askFor, Len(askFor))
               ask == askFor \o due
               requested == Requested(Download!Had, toServer, toClient)
               queued == Queued(Download!Had, askFor, toServer, toClient)
               offered == Offered(Download!Had, askFor, toServer, toClient)
               queued2 == Queued(Download!Had, ask, toServer, toClient)
               offered2 == Offered(Download!Had, ask, toServer, toClient)
    <2>1. /\ QueueInSequence(toClient, "block", Download!Had)
          /\ QueueInSequence(toServer, "getdata", Sent(Download!Had, toClient))
          /\ InSequence(askFor, requested) /\ QueueInSequence(toClient, "inv", queued)
          /\ InSequence(toSend, offered)
          /\ \A h \in Elems(known, Len(known)) : h < Start => h \in offered
          /\ Covers(queued, Pending(later, lastAsked))
      BY <1>10 DEF InLine, Line
    <2>2. queued = requested \cup old  BY DEF Queued
    <2>3. \A x \in queued : Follows(x, queued)  BY <1>10, QueuedFollow
    <2>4. InSequence(due, requested \cup old)
      <3> SUFFICES ASSUME NEW i \in 1 .. Len(due) PROVE Follows(due[i], queued \cup Elems(due, i - 1))
        BY <2>2 DEF InSequence
      <3> DEFINE x == due[i]
      <3>1. x \in D /\ x \in Nat  BY <1>3, <1>4, <1>5
      <3> HIDE DEF x, queued
      <3>2. CASE x < Start
        <4>1. x \in queued  BY <1>4, <2>1, <3>1, <3>2 DEF Covers
        <4> QED  BY <2>3, <4>1 DEF Follows, x
      <3>3. CASE ~(x < Start)
        <4>1. x >= Start  BY <1>3, <3>1, <3>3
        <4> QED  BY <4>1 DEF Follows, Outside, x
      <3> QED  BY <3>2, <3>3
    <2> DEFINE K == 0 .. tip
    <2>5. K \in SUBSET Nat /\ askFor \in Seq(K) /\ due \in Seq(K)  BY <1>3, <1>5
    <2> HIDE DEF K, requested, old, queued
    <2>6. InSequence(ask, requested)
      <3> HIDE DEF ask
      <3>1. InSequence(askFor \o due, requested)  BY <2>1, <2>4, <2>5, ConcatInSequence DEF old
      <3> QED  BY <3>1 DEF ask
    <2>7. old \subseteq Elems(ask, Len(ask))
      <3>1. /\ Len(ask) = Len(askFor) + Len(due) /\ Len(due) \in Nat /\ Len(askFor) \in Nat
            /\ Elems(ask, Len(askFor) + Len(due)) = old \cup Elems(due, Len(due))
        BY <2>5, ElemsConcat DEF old
      <3> QED  BY <3>1
    <2>8. queued2 = requested \cup Elems(ask, Len(ask))  BY DEF Queued, requested
    <2> HIDE DEF ask
    <2>9. Covers(queued2, queued)  BY <2>2, <2>7, <2>8 DEF Covers
    <2>10. Covers(offered2, offered)  BY <2>9 DEF Offered, Covers, queued
    <2>11. Covers(queued2, Pending(later', lastAsked'))
      <3> HIDE DEF queued2
      <3> QED  BY <1>8, <2>1, <2>9 DEF Covers
    <2> HIDE DEF offered, queued2, offered2
    <2>12. QueueInSequence(toClient, "inv", queued2)
      BY <1>3, <2>1, <2>9, QueueMore, CarriedType
    <2>13. InSequence(toSend, offered2)
      <3>1. toSend \in Seq(Nat)  BY <1>3, SeqWider
      <3> QED  BY <1>3, <2>1, <2>10, <3>1, InSequenceMore
    <2>14. \A h \in Elems(known, Len(known)) : h < Start => h \in offered2
      BY <2>1, <2>10 DEF Covers
    <2>15. Line(Download!Had, ask, known, toSend, toServer, toClient)
      BY <2>1, <2>6, <2>12, <2>13, <2>14 DEF Line, requested, queued2, offered2
    <2>16. Download!Had' = Download!Had  BY <1>2 DEF Download!Had
    <2>17. askFor' = ask  BY <1>1 DEF ask
    <2> QED  BY <1>2, <2>11, <2>15, <2>16, <2>17 DEF InLine, queued2
  <1> QED  BY <1>2, <1>9, <1>10 DEF Download!client

(***************************************************************************)
(* The server.                                                             *)
(***************************************************************************)
\* What is announced stays in sequence: what the server takes the client to know was
\* announced before.
LEMMA PushInventoryFacts ==
    ASSUME WellTyped, NEW K \in SUBSET Nat, 0 .. tip \subseteq K, NEW s \in Seq(K)
    PROVE  /\ Download!PushInventory(s) \in Seq(K)
           /\ InLine /\ InSequence(s, Offered(Download!Had, askFor, toServer, toClient))
              => InSequence(Download!PushInventory(s), Offered(Download!Had, askFor, toServer, toClient))
  <1> DEFINE kn == Download!Range(known)
             r == Download!Without(s, kn)
             offered == Offered(Download!Had, askFor, toServer, toClient)
             S == offered \cup Elems(toSend, Len(toSend))
  <1>1. toSend \in Seq(K) /\ Start \in Nat /\ s \in Seq(Nat) /\ known \in Seq(0 .. tip)
    BY TypeFacts, SeqWider
  <1>2. LeftOf(r, s, kn, K, S)
    <2> HIDE DEF kn, S
    <2> QED  BY <1>1, WithoutLeaves
  <1>3. Download!PushInventory(s) = toSend \o r  BY DEF Download!PushInventory
  <1>4. kn = Elems(known, Len(known))
    <2>1. DOMAIN known = 1 .. Len(known)  BY <1>1
    <2> QED  BY <2>1 DEF Download!Range, Elems
  <1>5. r \in Seq(K)  BY <1>2 DEF LeftOf
  <1> HIDE DEF r, offered
  <1>6. toSend \o r \in Seq(K)  BY <1>1, <1>5
  <1>7. ASSUME InLine, InSequence(s, offered) PROVE InSequence(toSend \o r, offered)
    <2>1. /\ InSequence(toSend, offered)
          /\ \A h \in Elems(known, Len(known)) : h < Start => h \in offered
      BY <1>7 DEF InLine, Line, offered
    <2>2. Covers(S, kn) /\ Covers(S, offered)  BY <1>4, <2>1 DEF Covers
    <2> HIDE DEF S
    <2>3. InSequence(s, S)  BY <1>1, <1>7, <2>2, InSequenceMore
    <2>4. InSequence(r, S)  BY <1>2, <2>2, <2>3 DEF LeftOf
    <2> QED  BY <1>1, <1>5, <2>1, <2>4, ConcatInSequence DEF S
  <1> QED  BY <1>3, <1>6, <1>7 DEF offered

\* Only the announcements to be sent change, and they stay in sequence.
LEMMA SendChanges ==
    ASSUME WellTyped, UNCHANGED <<best, orphans, askFor, later, lastAsked, known, toClient>>,
           Items(toServer', "getdata", Len(toServer')) = Items(toServer, "getdata", Len(toServer)),
           \A S : QueueInSequence(toServer, "getdata", S) => QueueInSequence(toServer', "getdata", S),
           InLine => InSequence(toSend', Offered(Download!Had, askFor, toServer, toClient))
    PROVE  InLine => InLine'
  <1>1. Download!Had' = Download!Had  BY DEF Download!Had
  <1>2. /\ Requested(Download!Had, toServer', toClient) = Requested(Download!Had, toServer, toClient)
        /\ Queued(Download!Had, askFor, toServer', toClient) = Queued(Download!Had, askFor, toServer, toClient)
        /\ Offered(Download!Had, askFor, toServer', toClient) = Offered(Download!Had, askFor, toServer, toClient)
    BY DEF Requested, Queued, Offered
  <1>3. ASSUME InLine
        PROVE  /\ Line(Download!Had, askFor, known, toSend', toServer', toClient)
               /\ Covers(Queued(Download!Had, askFor, toServer', toClient), Pending(later, lastAsked))
    BY <1>2, <1>3 DEF InLine, Line
  <1> QED  BY <1>1, <1>3 DEF InLine

\* The blocks of a batch are announced one after the other, from one the client has.
LEMMA BatchFacts ==
    ASSUME WellTyped, NEW begin \in 0 .. best, NEW end \in 0 .. tip, Download!OnGetBlocks(begin, end)
    PROVE  /\ toSend' \in Seq(0 .. tip) /\ hashContinue' \in 0 .. tip /\ toClient' = toClient
           /\ InLine => InSequence(toSend', Offered(Download!Had, askFor, toServer, toClient))
  <1> DEFINE stops == end \in begin + 1 .. tip
             ends == {tip, begin + Limit} \cup (IF stops THEN {end - 1} ELSE {})
             last == Download!Min(ends)
             batch == [i \in 1 .. last - begin |-> begin + i]
             atEnd == stops /\ last = end - 1 /\ last < begin + Limit
             latest == IF atEnd /\ end # tip /\ end + Recent > tip THEN <<tip>> ELSE << >>
             offered == Offered(Download!Had, askFor, toServer, toClient)
  <1>1. /\ begin \in Nat /\ best \in Nat /\ tip \in Nat /\ begin <= best /\ best <= tip
        /\ Limit \in Nat /\ end \in Nat /\ Start \in Nat /\ Start <= tip
    BY TypeFacts
  <1>2. /\ toSend' = Download!PushInventory(batch \o latest)
        /\ hashContinue' = IF last = begin + Limit THEN last ELSE hashContinue
        /\ toClient' = toClient
    BY DEF Download!OnGetBlocks
  <1>3. ends \in SUBSET Nat /\ tip \in ends /\ \A e \in ends : begin <= e  BY <1>1
  <1>4. last \in Nat /\ begin <= last /\ last <= tip
    <2> HIDE DEF ends
    <2>1. last \in ends /\ \A e \in ends : last <= e  BY <1>3, MinFacts
    <2> QED  BY <1>3, <2>1
  <1> HIDE DEF last
  <1>5. /\ batch \in Seq(0 .. tip) /\ Len(batch) = last - begin
        /\ \A i \in 1 .. last - begin : batch[i] = begin + i
    <2>1. last - begin \in Nat  BY <1>1, <1>4
    <2>2. \A i \in 1 .. last - begin : begin + i \in 0 .. tip  BY <1>1, <1>4
    <2> DEFINE n == last - begin
    <2>3. n \in Nat /\ batch = [i \in 1 .. n |-> begin + i]
          /\ \A i \in 1 .. n : begin + i \in 0 .. tip
      BY <2>1, <2>2
    <2> HIDE DEF n, batch
    <2>4. batch \in [1 .. n -> 0 .. tip] /\ \A i \in 1 .. n : batch[i] = begin + i
      BY <2>3
    <2>5. batch \in Seq(0 .. tip) /\ Len(batch) = n  BY <2>3, <2>4
    <2> QED  BY <2>4, <2>5 DEF n
  <1>6. latest \in Seq(0 .. tip) /\ \A i \in 1 .. Len(latest) : latest[i] = tip
    <2>1. <<tip>> \in Seq(0 .. tip)  BY <1>1
    <2>2. Len(<<tip>>) = 1 /\ <<tip>>[1] = tip  OBVIOUS
    <2>3. CASE latest = <<tip>>
      <3> HIDE DEF latest
      <3> QED  BY <2>1, <2>2, <2>3
    <2>4. CASE latest = << >>
      <3> HIDE DEF latest
      <3> QED  BY <2>4
    <2> QED  BY <2>3, <2>4
  <1> HIDE DEF batch, latest
  <1>7. hashContinue' \in 0 .. tip  BY <1>1, <1>2, <1>4, TypeFacts
  <1>8. batch \o latest \in Seq(0 .. tip)  BY <1>5, <1>6
  <1>9. InSequence(batch, offered)
    <2> SUFFICES ASSUME NEW i \in 1 .. Len(batch)
                 PROVE  Follows(batch[i], offered \cup Elems(batch, i - 1))
      BY DEF InSequence
    <2>1. batch[i] = begin + i /\ i \in Nat /\ i \in 1 .. last - begin  BY <1>1, <1>4, <1>5
    <2>2. ASSUME NEW g \in 1 .. begin + i - 1 PROVE g \in offered \cup Elems(batch, i - 1)
      <3>1. CASE g <= begin
        <4>1. g \in Download!Had  BY <1>1, <2>1, <3>1 DEF Download!Had
        <4> QED  BY <4>1 DEF Offered, Queued, Requested, Sent
      <3>2. CASE ~(g <= begin)
        <4> DEFINE k == g - begin
        <4>1. k \in 1 .. i - 1 /\ k \in 1 .. last - begin /\ g = begin + k
          BY <1>1, <1>4, <2>1, <3>2
        <4> HIDE DEF k
        <4>2. batch[k] = g  BY <1>5, <4>1
        <4> QED  BY <4>1, <4>2 DEF Elems
      <3> QED  BY <3>1, <3>2
    <2>3. 1 .. batch[i] - 1 \subseteq offered \cup Elems(batch, i - 1)  BY <2>1, <2>2
    <2> QED  BY <2>3 DEF Follows
  <1>10. \A S : InSequence(latest, S)
    <2>1. Outside(tip)  BY <1>1 DEF Outside
    <2> QED  BY <1>6, <2>1 DEF InSequence, Follows
  <1>11. 0 .. tip \in SUBSET Nat  BY <1>1
  <1> HIDE DEF offered
  <1>12. InSequence(batch \o latest, offered)
    BY <1>5, <1>6, <1>9, <1>10, <1>11, ConcatInSequence
  <1> QED  BY <1>2, <1>7, <1>8, <1>11, <1>12, PushInventoryFacts DEF offered

LEMMA FirstRequest ==
    ASSUME WellTyped, toServer # << >>
    PROVE  /\ Head(toServer) \in Download!Requests /\ Tail(toServer) \in Seq(Download!Requests)
           /\ \A type : Items(toServer, type, Len(toServer))
                          = Load(Head(toServer), type) \cup Items(Tail(toServer), type, Len(Tail(toServer)))
  <1>1. toServer \in Seq(Download!Requests)  BY TypeFacts
  <1>2. Head(toServer) \in Download!Requests /\ Tail(toServer) \in Seq(Download!Requests)
        /\ Len(Tail(toServer)) = Len(toServer) - 1
    BY <1>1, ItemsTail
  <1>3. ASSUME NEW type
        PROVE  Items(toServer, type, Len(toServer))
                 = Load(Head(toServer), type) \cup Items(Tail(toServer), type, Len(Tail(toServer)))
    <2> DEFINE n == Len(toServer) - 1
    <2>1. n \in 0 .. Len(toServer) - 1 /\ n + 1 = Len(toServer)
      <3>1. Len(toServer) \in Nat /\ Len(toServer) # 0  BY <1>1
      <3> QED  BY <3>1
    <2> HIDE DEF n
    <2>2. Items(toServer, type, n + 1)
            = Load(Head(toServer), type) \cup Items(Tail(toServer), type, n)
      BY <1>1, <2>1, ItemsTail
    <2> QED  BY <1>2, <2>1, <2>2 DEF n
  <1> QED  BY <1>2, <1>3

LEMMA ReceiveGetBlocks ==
    ASSUME WellTyped, toServer # << >>, Head(toServer).type = "getblocks",
           Download!OnGetBlocks(Head(toServer).begin, Head(toServer).end), toServer' = Tail(toServer),
           UNCHANGED <<Download!client, Download!requests, lastGet, known, tip, reconnects, hurried>>
    PROVE  Download!TypeOK' /\ (InLine => InLine') /\ UNCHANGED Download!client
  <1> DEFINE m == Head(toServer)
  <1>1. /\ m \in Download!Requests /\ toServer' \in Seq(Download!Requests)
        /\ \A type : Items(toServer, type, Len(toServer))
                       = Load(m, type) \cup Items(toServer', type, Len(toServer'))
    BY FirstRequest
  <1>2. m.begin \in 0 .. best /\ m.end \in 0 .. tip  BY <1>1, RequestFacts
  <1>3. /\ toSend' \in Seq(0 .. tip) /\ hashContinue' \in 0 .. tip /\ toClient' = toClient
        /\ InLine => InSequence(toSend', Offered(Download!Had, askFor, toServer, toClient))
    BY <1>2, BatchFacts
  <1>4. /\ best' = best /\ orphans' = orphans /\ askFor' = askFor /\ lastGet' = lastGet
        /\ known' = known /\ tip' = tip /\ reconnects' = reconnects /\ hurried' = hurried
        /\ later' = later /\ lastAsked' = lastAsked
    BY DEF Download!client, Download!requests
  <1>5. Download!TypeOK'
    <2>1. Download!Requests' = Download!Requests /\ Download!Answers' = Download!Answers
      BY <1>4 DEF Download!Requests, Download!Answers
    <2> QED  BY <1>1, <1>3, <1>4, <2>1 DEF WellTyped, Download!TypeOK
  <1>6. Load(m, "getdata") = {}  BY DEF Load
  <1>7. Items(toServer', "getdata", Len(toServer')) = Items(toServer, "getdata", Len(toServer))
    BY <1>1, <1>6
  <1>8. ASSUME NEW S, QueueInSequence(toServer, "getdata", S)
        PROVE  QueueInSequence(toServer', "getdata", S)
    <2>1. QueueInSequence(toServer', "getdata", S \cup Load(m, "getdata"))
      BY <1>8, TypeFacts, TailInSequence
    <2>2. S \cup Load(m, "getdata") = S  BY <1>6
    <2> QED  BY <2>1, <2>2
  <1>9. InLine => InLine'  BY <1>3, <1>4, <1>7, <1>8, SendChanges
  <1> QED  BY <1>4, <1>5, <1>9 DEF Download!client

LEMMA AcceptBlockFacts ==
    ASSUME WellTyped, Download!AcceptBlock
    PROVE  Download!TypeOK' /\ (InLine => InLine') /\ UNCHANGED Download!client
  <1> DEFINE s == <<tip + 1>>
             K == 0 .. tip + 1
  <1>1. /\ tip < Height /\ tip' = tip + 1 /\ toSend' = Download!PushInventory(s)
        /\ best' = best /\ orphans' = orphans /\ askFor' = askFor /\ lastGet' = lastGet
        /\ known' = known /\ hashContinue' = hashContinue /\ toServer' = toServer
        /\ toClient' = toClient /\ reconnects' = reconnects /\ hurried' = hurried
        /\ later' = later /\ lastAsked' = lastAsked
    BY DEF Download!AcceptBlock, Download!client, Download!requests
  <1>2. /\ tip \in Nat /\ best \in Nat /\ Start \in Nat /\ Height \in Nat /\ Start <= tip
        /\ best <= tip /\ hashContinue \in 0 .. tip /\ orphans \in SUBSET (best + 2 .. tip)
    BY TypeFacts
  <1>3. K \in SUBSET Nat /\ 0 .. tip \subseteq K /\ s \in Seq(K)
    <2>1. tip + 1 \in K  BY <1>2
    <2>2. K \in SUBSET Nat /\ 0 .. tip \subseteq K  BY <1>2
    <2> HIDE DEF K
    <2> QED  BY <2>1, <2>2
  <1>4. InSequence(s, Offered(Download!Had, askFor, toServer, toClient))
    <2>1. Len(s) = 1 /\ s[1] = tip + 1  OBVIOUS
    <2>2. Outside(tip + 1)  BY <1>2 DEF Outside
    <2> HIDE DEF s
    <2> QED  BY <2>1, <2>2 DEF InSequence, Follows
  <1>5. /\ toSend' \in Seq(K)
        /\ InLine => InSequence(toSend', Offered(Download!Had, askFor, toServer, toClient))
    <2> HIDE DEF K, s
    <2> QED  BY <1>1, <1>3, <1>4, PushInventoryFacts
  <1>6. InLine => InLine'  BY <1>1, <1>5, SendChanges
  <1>7. Download!TypeOK'
    <2>1. best' \in Nat /\ tip' \in Nat /\ best <= best' /\ tip <= tip'  BY <1>1, <1>2
    <2>2. /\ toServer' \in Seq(Download!Requests') /\ toClient' \in Seq(Download!Answers')
          /\ askFor' \in Seq(0 .. tip') /\ known' \in Seq(0 .. tip')
          /\ lastGet' \in (0 .. best') \X (0 .. tip')
          /\ later' \subseteq Postponed'
      BY <1>1, <2>1, TypesGrow, TypeFacts DEF WellTyped, Download!TypeOK
    <2>3. best' \in 0 .. tip' /\ tip' \in Start .. Height /\ hashContinue' \in 0 .. tip'
          /\ orphans' \subseteq best' + 2 .. tip'
      BY <1>1, <1>2
    <2>4. toSend' \in Seq(0 .. tip')  BY <1>1, <1>5
    <2>5. Len(known') <= MaxKnown /\ reconnects' \in 0 .. MaxReconnect /\ hurried' \in BOOLEAN
          /\ lastAsked' \in [0 .. Height -> Nat]
      BY <1>1 DEF WellTyped, Download!TypeOK
    <2> QED  BY <2>2, <2>3, <2>4, <2>5 DEF Download!TypeOK, Postponed
  <1> QED  BY <1>1, <1>6, <1>7 DEF Download!client

\* The trigger for the next batch is announced outside of one.
Announced(t) == t \in Download!Answers /\ t.type = "inv" /\ \A S : InSequence(Carried(t), S)

LEMMA TriggerFacts ==
    ASSUME WellTyped, NEW inv, NEW i
    PROVE  Download!Trigger(inv, i) = << >> \/ \E t : Download!Trigger(inv, i) = <<t>> /\ Announced(t)
  <1> DEFINE W == {h \in ProofOfWork : h <= tip}
             w == Download!LastProofOfWork
             t == [type |-> "inv", inv |-> <<w>>]
  <1>1. /\ 0 \in ProofOfWork /\ ProofOfWork \subseteq 0 .. Height /\ Height \in Nat
        /\ tip \in Nat /\ Start \in Nat /\ Start <= tip
    BY TypeFacts DEF WellTyped, Download!DownloadAssumption
  <1>2. W \in SUBSET (0 .. tip) /\ 0 \in W
    <2>1. ASSUME NEW x \in W PROVE x \in 0 .. tip
      <3>1. x \in 0 .. Height /\ x <= tip  BY <1>1
      <3> QED  BY <1>1, <3>1
    <2>2. 0 \in W  BY <1>1
    <2> QED  BY <2>1, <2>2
  <1>3. w = Download!Max(W)  BY DEF Download!LastProofOfWork
  <1>4. w \in W /\ \A x \in W : x <= w
    <2> HIDE DEF W
    <2> QED  BY <1>1, <1>2, <1>3, MaxFacts
  <1>5. w \in 0 .. tip  BY <1>2, <1>4
  <1>6. Outside(w)
    <2>1. LastWork \in ProofOfWork /\ LastWork \in 0 .. Start  BY LastWorkFacts DEF WellTyped
    <2>2. LastWork <= w
      <3>1. LastWork \in W  BY <1>1, <2>1
      <3> HIDE DEF W
      <3> QED  BY <1>4, <3>1
    <2>3. CASE w >= Start  BY <2>3 DEF Outside
    <2>4. CASE ~(w >= Start)
      <3> DEFINE V == {x \in ProofOfWork : x <= Start}
      <3>1. w \in V  BY <1>1, <1>4, <1>5, <2>4
      <3>2. V \in SUBSET (0 .. Start)
        <4>1. ASSUME NEW x \in V PROVE x \in 0 .. Start
          <5>1. x \in 0 .. Height /\ x <= Start  BY <1>1
          <5> QED  BY <1>1, <5>1
        <4> QED  BY <4>1
      <3>3. LastWork = Download!Max(V)  BY DEF LastWork
      <3>4. w <= LastWork
        <4> HIDE DEF V
        <4> QED  BY <1>1, <3>1, <3>2, <3>3, MaxFacts
      <3>5. w = LastWork  BY <1>1, <1>5, <2>1, <2>2, <3>4
      <3> QED  BY <3>5 DEF Outside
    <2> QED  BY <2>3, <2>4
  <1>7. Download!Trigger(inv, i) = << >> \/ Download!Trigger(inv, i) = <<t>>
    BY DEF Download!Trigger
  <1> HIDE DEF w
  <1>8. Announced(t)
    <2>1. <<w>> \in Seq(0 .. tip) /\ Len(<<w>>) = 1 /\ <<w>>[1] = w  BY <1>5
    <2>2. t \in Download!Answers /\ t.type = "inv" /\ Carried(t) = <<w>>
      BY <2>1 DEF Download!Answers, Carried
    <2>3. \A S : InSequence(<<w>>, S)  BY <1>6, <2>1 DEF InSequence, Follows
    <2> HIDE DEF t
    <2> QED  BY <2>2, <2>3 DEF Announced
  <1> HIDE DEF t
  <1> QED  BY <1>7, <1>8

\* One block, and what follows it.
Deliver(out, inv, i) ==
    Append(out, [type |-> "block", block |-> inv[i]]) \o Download!Trigger(inv, i)

DeliverResult(new, out, h) ==
    /\ new \in Seq(Download!Answers)
    /\ Items(new, "block", Len(new)) = Items(out, "block", Len(out)) \cup {h}
    /\ Items(out, "inv", Len(out)) \subseteq Items(new, "inv", Len(new))
    /\ \A S : /\ QueueInSequence(out, "block", S)
              /\ Follows(h, S \cup Items(out, "block", Len(out)))
              => QueueInSequence(new, "block", S)
    /\ \A S : QueueInSequence(out, "inv", S) => QueueInSequence(new, "inv", S)

LEMMA DeliverFacts ==
    ASSUME WellTyped, NEW inv \in Seq(0 .. tip), NEW i \in 1 .. Len(inv), NEW out \in Seq(Download!Answers)
    PROVE  DeliverResult(Deliver(out, inv, i), out, inv[i])
  <1> DEFINE h == inv[i]
             m == [type |-> "block", block |-> h]
             a == Append(out, m)
  <1>1. h \in 0 .. tip  BY SeqElement
  <1>2. Deliver(out, inv, i) = a \o Download!Trigger(inv, i)  BY DEF Deliver
  <1> HIDE DEF h
  <1>3. m \in Download!Answers /\ m.type = "block" /\ Carried(m) = <<h>>
    BY <1>1 DEF Download!Answers, Carried
  <1>4. Len(<<h>>) = 1 /\ <<h>>[1] = h /\ Elems(<<h>>, 1) = {h}  BY DEF Elems
  <1>5. Load(m, "block") = {h} /\ Load(m, "inv") = {}  BY <1>3, <1>4 DEF Load
  <1>6. ASSUME NEW S, Follows(h, S) PROVE InSequence(<<h>>, S)
    <2> SUFFICES ASSUME NEW j \in 1 .. Len(<<h>>) PROVE Follows(<<h>>[j], S \cup Elems(<<h>>, j - 1))
      BY DEF InSequence
    <2>1. j = 1 /\ <<h>>[j] = h  BY <1>4
    <2>2. Elems(<<h>>, j - 1) = {}  BY <2>1 DEF Elems
    <2>3. S \cup Elems(<<h>>, j - 1) = S  BY <2>2
    <2> QED  BY <1>6, <2>1, <2>3
  <1> HIDE DEF m
  <1>7. DeliverResult(a, out, h)
    <2>1. /\ a \in Seq(Download!Answers) /\ Len(a) = Len(out) + 1
          /\ \A type : Items(a, type, Len(a)) = Items(out, type, Len(out)) \cup Load(m, type)
      BY <1>3, ItemsAppend
    <2>2. ASSUME NEW S, QueueInSequence(out, "block", S),
                 Follows(h, S \cup Items(out, "block", Len(out)))
          PROVE  QueueInSequence(a, "block", S)
      <3>1. InSequence(Carried(m), S \cup Items(out, "block", Len(out)))  BY <1>3, <1>6, <2>2
      <3> QED  BY <1>3, <2>2, <3>1, AppendQueueInSequence
    <2>3. ASSUME NEW S, QueueInSequence(out, "inv", S) PROVE QueueInSequence(a, "inv", S)
      BY <1>3, <2>3, AppendQueueInSequence
    <2> QED  BY <1>5, <2>1, <2>2, <2>3 DEF DeliverResult
  <1> HIDE DEF a
  <1>8. a \in Seq(Download!Answers)  BY <1>7 DEF DeliverResult
  <1>9. CASE Download!Trigger(inv, i) = << >>
    <2>1. a \o << >> = a  BY <1>8
    <2> QED  BY <1>2, <1>7, <1>9, <2>1 DEF h
  <1>10. CASE \E t : Download!Trigger(inv, i) = <<t>> /\ Announced(t)
    <2>1. PICK t : Download!Trigger(inv, i) = <<t>> /\ Announced(t)  BY <1>10
    <2> DEFINE b == Append(a, t)
    <2>2. t \in Download!Answers /\ t.type = "inv" /\ \A S : InSequence(Carried(t), S)
      BY <2>1 DEF Announced
    <2>3. a \o <<t>> = b  BY <1>8, <2>2
    <2>4. Load(t, "block") = {}  BY <2>2 DEF Load
    <2>5. /\ b \in Seq(Download!Answers) /\ Len(b) = Len(a) + 1
          /\ \A type : Items(b, type, Len(b)) = Items(a, type, Len(a)) \cup Load(t, type)
      BY <1>8, <2>2, ItemsAppend
    <2>6. ASSUME NEW S, QueueInSequence(a, "block", S) PROVE QueueInSequence(b, "block", S)
      BY <1>8, <2>2, <2>6, AppendQueueInSequence
    <2>7. ASSUME NEW S, QueueInSequence(a, "inv", S) PROVE QueueInSequence(b, "inv", S)
      BY <1>8, <2>2, <2>7, AppendQueueInSequence
    <2> HIDE DEF b
    <2>8. DeliverResult(b, out, h)  BY <1>7, <2>4, <2>5, <2>6, <2>7 DEF DeliverResult
    <2> QED  BY <1>2, <2>1, <2>3, <2>8 DEF h
  <1> QED  BY <1>9, <1>10, TriggerFacts

\* What is on its way to the client after each entry of a getdata message.
DataSteps(f, inv) ==
    /\ f[0] = toClient
    /\ \A i \in 1 .. Len(inv) : f[i] = Deliver(f[i - 1], inv, i)
    /\ Download!OnGetData(inv) => toClient' = f[Len(inv)]
    /\ f \in [0 .. Len(inv) -> Seq(Download!Answers)]

LEMMA DataTrace ==
    ASSUME WellTyped, NEW inv \in Seq(0 .. tip)
    PROVE  \E f : DataSteps(f, inv)
  <1> DEFINE n == Len(inv)
             V == Seq(Download!Answers)
             index == [i \in 1 .. n |-> i]
             op(v, i) == Deliver(v, inv, i)
             Rec(f) == f = [i \in 0 .. n |-> IF i = 0 THEN toClient ELSE op(f[i - 1], i)]
             step == [i \in 1 .. n |-> [v \in V |-> op(v, i)]]
             g == CHOOSE f : Rec(f)
  <1>1. n \in Nat /\ Len(index) = n /\ \A i \in 1 .. n : index[i] = i  OBVIOUS
  <1>2. Download!OnGetData(inv) => toClient' = g[n]
    <2> DEFINE Rec2(f) == f = [i \in 0 .. Len(index) |->
                                  IF i = 0 THEN toClient ELSE Deliver(f[i - 1], inv, index[i])]
               g2 == CHOOSE f : Rec2(f)
    <2>1. Download!OnGetData(inv) => toClient' = g2[Len(index)]
      BY DEF Download!OnGetData, Download!InOrder, Deliver
    <2>2. ASSUME NEW f PROVE Rec2(f) <=> Rec(f)
      <3>1. [i \in 0 .. Len(index) |-> IF i = 0 THEN toClient ELSE Deliver(f[i - 1], inv, index[i])]
            = [i \in 0 .. n |-> IF i = 0 THEN toClient ELSE Deliver(f[i - 1], inv, i)]
        BY <1>1
      <3> QED  BY <3>1
    <2>3. g2 = g
      <3> HIDE DEF Rec, Rec2
      <3> QED  BY <2>2, Zenon
    <2> HIDE DEF g, g2
    <2> QED  BY <1>1, <2>1, <2>3
  <1>3. \A v \in V : \A i \in 1 .. n : op(v, i) \in V  BY DeliverFacts DEF DeliverResult
  <1>4. toClient \in V  BY TypeFacts
  <1> HIDE DEF n, op, V
  <1>5. step \in [1 .. n -> [V -> V]]  BY <1>3
  <1>6. PICK f : Iterates(f, V, n, toClient, step)
    <2> HIDE DEF step
    <2> QED  BY <1>1, <1>4, <1>5, Iterated
  <1>7. \A i \in 1 .. n : f[i] = op(f[i - 1], i)
    <2> TAKE i \in 1 .. n
    <2>1. i - 1 \in 0 .. n  BY <1>1
    <2>2. f[i - 1] \in V  BY <1>6, <2>1 DEF Iterates
    <2> QED  BY <1>6, <2>2 DEF Iterates
  <1>8. Rec(f)
    <2>1. \A i \in 0 .. n : f[i] = IF i = 0 THEN toClient ELSE op(f[i - 1], i)
      BY <1>1, <1>6, <1>7 DEF Iterates
    <2> QED  BY <1>6, <2>1 DEF Iterates
  <1>9. Rec(g)  BY <1>8, Zenon
  <1> HIDE DEF g
  <1>10. g[0] = toClient /\ \A i \in 1 .. n : g[i] = op(g[i - 1], i)
    <2>1. \A i \in 0 .. n : g[i] = IF i = 0 THEN toClient ELSE op(g[i - 1], i)  BY <1>9
    <2> QED  BY <1>1, <2>1
  <1>11. g \in [0 .. n -> V]
    <2> DEFINE T == {i \in 0 .. n : g[i] \in V}
    <2>1. 0 \in T  BY <1>1, <1>4, <1>10
    <2>2. \A i \in 1 .. n : i - 1 \in T => i \in T  BY <1>1, <1>3, <1>10
    <2>3. \A i \in 0 .. n : i \in T
      <3> HIDE DEF T
      <3> QED  BY <1>1, <2>1, <2>2, UpTo
    <2> QED  BY <1>9, <2>3
  <1>12. DataSteps(g, inv)  BY <1>2, <1>10, <1>11 DEF DataSteps, n, op, V
  <1> QED  BY <1>12

\* The queue q is that to the client with the first i blocks of a getdata message.
DataResult(q, inv, i) ==
    /\ q \in Seq(Download!Answers)
    /\ Items(q, "block", Len(q)) = Items(toClient, "block", Len(toClient)) \cup Elems(inv, i)
    /\ Items(toClient, "inv", Len(toClient)) \subseteq Items(q, "inv", Len(q))
    /\ \A S : /\ QueueInSequence(toClient, "block", S)
              /\ InSequence(inv, S \cup Items(toClient, "block", Len(toClient)))
              => QueueInSequence(q, "block", S)
    /\ \A S : QueueInSequence(toClient, "inv", S) => QueueInSequence(q, "inv", S)

LEMMA DataFacts ==
    ASSUME WellTyped, NEW inv \in Seq(0 .. tip), Download!OnGetData(inv)
    PROVE  DataResult(toClient', inv, Len(inv))
  <1> DEFINE n == Len(inv)
  <1>1. PICK f : DataSteps(f, inv)  BY DataTrace
  <1>2. /\ n \in Nat /\ f[0] = toClient /\ toClient' = f[n]
        /\ \A i \in 1 .. n : f[i] = Deliver(f[i - 1], inv, i)
    BY <1>1 DEF DataSteps
  <1>3. DataResult(f[0], inv, 0)
    <2>1. Elems(inv, 0) = {}  BY DEF Elems
    <2> QED  BY <1>2, <2>1, TypeFacts DEF DataResult
  <1>4. ASSUME NEW i \in 1 .. n, DataResult(f[i - 1], inv, i - 1) PROVE DataResult(f[i], inv, i)
    <2> DEFINE out == f[i - 1]
               new == f[i]
               h == inv[i]
               prev == Elems(inv, i - 1)
    <2>1. /\ out \in Seq(Download!Answers)
          /\ Items(out, "block", Len(out)) = Items(toClient, "block", Len(toClient)) \cup prev
          /\ Items(toClient, "inv", Len(toClient)) \subseteq Items(out, "inv", Len(out))
          /\ \A S : /\ QueueInSequence(toClient, "block", S)
                    /\ InSequence(inv, S \cup Items(toClient, "block", Len(toClient)))
                    => QueueInSequence(out, "block", S)
          /\ \A S : QueueInSequence(toClient, "inv", S) => QueueInSequence(out, "inv", S)
      BY <1>4 DEF DataResult
    <2>2. new = Deliver(out, inv, i)  BY <1>2
    <2> HIDE DEF out, new
    <2>3. DeliverResult(new, out, h)  BY <2>1, <2>2, DeliverFacts
    <2>4. Elems(inv, i) = prev \cup {h}
      <3>1. 1 .. i = (1 .. i - 1) \cup {i}  BY <1>2
      <3> QED  BY <3>1 DEF Elems
    <2>5. ASSUME NEW S, InSequence(inv, S \cup Items(toClient, "block", Len(toClient)))
          PROVE  Follows(h, S \cup Items(out, "block", Len(out)))
      <3>1. Follows(h, S \cup Items(toClient, "block", Len(toClient)) \cup prev)
        BY <2>5 DEF InSequence
      <3>2. S \cup Items(toClient, "block", Len(toClient)) \cup prev = S \cup Items(out, "block", Len(out))
        BY <2>1
      <3> QED  BY <3>1, <3>2
    <2> HIDE DEF h, prev
    <2>6. DataResult(new, inv, i)  BY <2>1, <2>3, <2>4, <2>5 DEF DataResult, DeliverResult
    <2> QED  BY <2>6 DEF new
  <1> DEFINE T == {i \in 0 .. n : DataResult(f[i], inv, i)}
  <1>5. 0 \in T /\ \A i \in 1 .. n : i - 1 \in T => i \in T  BY <1>2, <1>3, <1>4
  <1>6. \A i \in 0 .. n : i \in T
    <2> HIDE DEF T
    <2> QED  BY <1>2, <1>5, UpTo
  <1>7. n \in 0 .. n  BY <1>2
  <1> QED  BY <1>2, <1>6, <1>7

LEMMA ReceiveGetData ==
    ASSUME WellTyped, toServer # << >>, Head(toServer).type = "getdata",
           Download!OnGetData(Head(toServer).inv), toServer' = Tail(toServer),
           UNCHANGED <<Download!client, Download!requests, lastGet, known, tip, reconnects, hurried>>
    PROVE  Download!TypeOK' /\ (InLine => InLine') /\ UNCHANGED Download!client
  <1> DEFINE m == Head(toServer)
             inv == m.inv
             all == Elems(inv, Len(inv))
  <1>1. /\ m \in Download!Requests /\ toServer' \in Seq(Download!Requests)
        /\ \A type : Items(toServer, type, Len(toServer))
                       = Load(m, type) \cup Items(toServer', type, Len(toServer'))
    BY FirstRequest
  <1>2. inv \in Seq(0 .. tip) /\ Carried(m) = inv  BY <1>1, RequestFacts
  <1>3. DataResult(toClient', inv, Len(inv))  BY <1>2, DataFacts
  <1>4. /\ best' = best /\ orphans' = orphans /\ askFor' = askFor /\ lastGet' = lastGet
        /\ known' = known /\ tip' = tip /\ reconnects' = reconnects /\ toSend' = toSend
        /\ later' = later /\ lastAsked' = lastAsked /\ hurried' = hurried
        /\ hashContinue' \in 0 .. tip
    <2>1. /\ hashContinue' = IF Download!Contains(inv, hashContinue) THEN 0 ELSE hashContinue
          /\ toSend' = toSend
      BY Zenon DEF Download!OnGetData
    <2>2. hashContinue' \in 0 .. tip
      <3>1. hashContinue' = 0 \/ hashContinue' = hashContinue  BY <2>1, Zenon
      <3>2. hashContinue \in 0 .. tip  BY DEF WellTyped, Download!TypeOK
      <3>3. 0 \in 0 .. tip
        <4>1. tip \in Nat  BY TypeFacts
        <4> QED  BY <4>1
      <3> QED  BY <3>1, <3>2, <3>3
    <2> QED  BY <2>1, <2>2 DEF Download!client, Download!requests
  <1>5. Download!TypeOK'
    <2>1. Download!Requests' = Download!Requests /\ Download!Answers' = Download!Answers
      BY <1>4 DEF Download!Requests, Download!Answers
    <2>2. toClient' \in Seq(Download!Answers)  BY <1>3 DEF DataResult
    <2> QED  BY <1>1, <1>4, <2>1, <2>2 DEF WellTyped, Download!TypeOK
  <1>6. ASSUME InLine PROVE InLine'
    <2> DEFINE q == toClient
               u == toClient'
               sent == Sent(Download!Had, q)
               requested == Requested(Download!Had, toServer, q)
               queued == Queued(Download!Had, askFor, toServer, q)
               offered == Offered(Download!Had, askFor, toServer, q)
               offered2 == Offered(Download!Had, askFor, toServer', u)
    <2>1. /\ QueueInSequence(q, "block", Download!Had) /\ QueueInSequence(toServer, "getdata", sent)
          /\ InSequence(askFor, requested) /\ QueueInSequence(q, "inv", queued)
          /\ InSequence(toSend, offered)
          /\ \A h \in Elems(known, Len(known)) : h < Start => h \in offered
          /\ Covers(queued, Pending(later, lastAsked))
      BY <1>6 DEF InLine, Line
    <2>2. Load(m, "getdata") = all  BY <1>2 DEF Load
    <2>3. toServer \in Seq(Download!Requests)  BY TypeFacts
    <2>4. InSequence(inv, sent) /\ QueueInSequence(toServer', "getdata", sent \cup all)
      <3> HIDE DEF sent, inv, all
      <3> QED  BY <1>2, <2>1, <2>2, <2>3, TailInSequence
    <2>5. sent = Download!Had \cup Items(q, "block", Len(q))  BY DEF Sent
    <2>6. /\ Items(u, "block", Len(u)) = Items(q, "block", Len(q)) \cup all
          /\ Items(q, "inv", Len(q)) \subseteq Items(u, "inv", Len(u))
          /\ QueueInSequence(u, "block", Download!Had) /\ QueueInSequence(u, "inv", queued)
      <3> HIDE DEF queued, inv
      <3> QED  BY <1>3, <2>1, <2>4, <2>5 DEF DataResult
    <2>7. Items(toServer, "getdata", Len(toServer)) = all \cup Items(toServer', "getdata", Len(toServer'))
      BY <1>1, <2>2
    <2>8. Sent(Download!Had, u) = sent \cup all /\ Requested(Download!Had, toServer', u) = requested
      BY <2>6, <2>7 DEF Sent, Requested
    <2>9. Queued(Download!Had, askFor, toServer', u) = queued  BY <2>8 DEF Queued
    <2>10. offered \subseteq offered2  BY <2>6, <2>9 DEF Offered
    <2> HIDE DEF sent, requested, queued, offered, offered2, u, all
    <2>11. InSequence(toSend, offered2)
      <3>1. toSend \in Seq(Nat)  BY TypeFacts, SeqWider
      <3>2. Covers(offered2, offered)  BY <2>10 DEF Covers
      <3> QED  BY <2>1, <3>1, <3>2, InSequenceMore, TypeFacts
    <2>12. Line(Download!Had, askFor, known, toSend, toServer', u)
      BY <2>1, <2>4, <2>6, <2>8, <2>9, <2>10, <2>11 DEF Line, offered2
    <2>13. Download!Had' = Download!Had  BY <1>4 DEF Download!Had
    <2>14. Covers(Queued(Download!Had, askFor, toServer', u), Pending(later, lastAsked))  BY <2>1, <2>9
    <2> QED  BY <1>4, <2>12, <2>13, <2>14 DEF InLine, u
  <1> QED  BY <1>4, <1>5, <1>6 DEF Download!client

\* Announcements go out to the client.
Known == {s \in Seq(0 .. tip) : Len(s) <= MaxKnown}

LEMMA RememberFacts ==
    ASSUME WellTyped, NEW s \in Known, NEW h \in 0 .. tip
    PROVE  /\ Download!Remember(s, h) \in Known
           /\ Elems(Download!Remember(s, h), Len(Download!Remember(s, h))) \subseteq Elems(s, Len(s)) \cup {h}
  <1>1. /\ s \in Seq(0 .. tip) /\ Len(s) <= MaxKnown /\ MaxKnown \in Nat /\ MaxKnown # 0
        /\ 0 .. tip \in SUBSET Nat /\ Len(s) \in Nat
    <2>1. MaxKnown \in Nat /\ MaxKnown # 0 /\ 0 .. tip \in SUBSET Nat  BY TypeFacts
    <2>2. s \in Seq(0 .. tip) /\ Len(s) <= MaxKnown  BY DEF Known
    <2> QED  BY <2>1, <2>2
  <1> DEFINE K == 0 .. tip
             T == IF Len(s) = MaxKnown THEN Tail(s) ELSE s
  <1>2. Download!Remember(s, h) = s \/ Download!Remember(s, h) = Append(T, h)
    BY Zenon DEF Download!Remember
  <1> HIDE DEF K
  <1>3. /\ T \in Seq(K) /\ Len(T) \in Nat /\ Len(T) < MaxKnown
        /\ Elems(T, Len(T)) \subseteq Elems(s, Len(s))
    <2>1. CASE Len(s) = MaxKnown
      <3> DEFINE u == Tail(s)
      <3>1. /\ u \in Seq(K) /\ Len(u) = Len(s) - 1
            /\ \A i \in 1 .. Len(u) : u[i] = s[i + 1]
        BY <1>1, <2>1 DEF K
      <3>2. T = u  BY <2>1
      <3> HIDE DEF u, T
      <3>3. ASSUME NEW i \in 1 .. Len(u) PROVE u[i] \in Elems(s, Len(s))
        <4> DEFINE k == i + 1
        <4>1. k \in 1 .. Len(s) /\ u[i] = s[k]  BY <1>1, <3>1
        <4> HIDE DEF k
        <4> QED  BY <4>1 DEF Elems
      <3>4. Elems(u, Len(u)) \subseteq Elems(s, Len(s))  BY <3>3 DEF Elems
      <3>5. Len(u) \in Nat /\ Len(u) < MaxKnown  BY <1>1, <2>1, <3>1
      <3> QED  BY <3>1, <3>2, <3>4, <3>5
    <2>2. CASE Len(s) # MaxKnown
      <3>1. T = s  BY <2>2
      <3> HIDE DEF T
      <3> QED  BY <1>1, <2>2, <3>1 DEF K
    <2> QED  BY <2>1, <2>2
  <1> HIDE DEF T
  <1>4. Append(T, h) \in Seq(K) /\ Len(Append(T, h)) = Len(T) + 1
    BY <1>3 DEF K
  <1>5. Elems(Append(T, h), Len(T) + 1) = Elems(T, Len(T)) \cup {h}
    <2>1. T \in Seq(Nat) /\ h \in Nat  BY <1>1, <1>3, SeqWider DEF K
    <2> QED  BY <2>1, ElemsAppend
  <1>6. Append(T, h) \in Known  BY <1>1, <1>3, <1>4 DEF Known, K
  <1> QED  BY <1>2, <1>3, <1>4, <1>5, <1>6

SendOne(a, h) ==
    IF Download!Contains(a.known, h) THEN a
    ELSE [known |-> Download!Remember(a.known, h), inv |-> Append(a.inv, h)]

Sendings == [known : Known, inv : Seq(0 .. tip)]

LEMMA SendOneFacts ==
    ASSUME WellTyped, NEW a \in Sendings, NEW h \in 0 .. tip
    PROVE  /\ SendOne(a, h) \in Sendings
           /\ \/ SendOne(a, h) = a /\ h \in Elems(a.known, Len(a.known))
              \/ /\ SendOne(a, h).inv = Append(a.inv, h)
                 /\ Elems(SendOne(a, h).known, Len(SendOne(a, h).known))
                      \subseteq Elems(a.known, Len(a.known)) \cup {h}
  <1>1. a.known \in Known /\ a.inv \in Seq(0 .. tip)  BY DEF Sendings
  <1>2. CASE Download!Contains(a.known, h)
    <2>1. SendOne(a, h) = a  BY <1>2 DEF SendOne
    <2>2. h \in Elems(a.known, Len(a.known))  BY <1>2 DEF Download!Contains, Elems
    <2> QED  BY <2>1, <2>2
  <1>3. CASE ~Download!Contains(a.known, h)
    <2> DEFINE r == Download!Remember(a.known, h)
    <2>1. SendOne(a, h) = [known |-> r, inv |-> Append(a.inv, h)]  BY <1>3 DEF SendOne
    <2>2. r \in Known /\ Elems(r, Len(r)) \subseteq Elems(a.known, Len(a.known)) \cup {h}
      BY <1>1, RememberFacts
    <2>3. Append(a.inv, h) \in Seq(0 .. tip)  BY <1>1
    <2> HIDE DEF r
    <2> QED  BY <2>1, <2>2, <2>3 DEF Sendings
  <1> QED  BY <1>2, <1>3

\* What is known and what the message has after each announcement.
SendSteps(f) ==
    /\ f[0] = [known |-> known, inv |-> << >>]
    /\ \A i \in 1 .. Len(toSend) : f[i] = SendOne(f[i - 1], toSend[i])
    /\ Download!ServerSend => /\ known' = f[Len(toSend)].known
                     /\ toClient' = IF f[Len(toSend)].inv = << >> THEN toClient
                                    ELSE Append(toClient, [type |-> "inv", inv |-> f[Len(toSend)].inv])
    /\ f \in [0 .. Len(toSend) -> Sendings]

LEMMA SendTrace ==
    ASSUME WellTyped
    PROVE  \E f : SendSteps(f)
  <1> DEFINE n == Len(toSend)
             V == Sendings
             base == [known |-> known, inv |-> << >>]
             op(v, i) == SendOne(v, toSend[i])
             Rec(f) == f = [i \in 0 .. n |-> IF i = 0 THEN base ELSE op(f[i - 1], i)]
             step == [i \in 1 .. n |-> [v \in V |-> op(v, i)]]
             g == CHOOSE f : Rec(f)
  <1>1. n \in Nat /\ \A i \in 1 .. n : toSend[i] \in 0 .. tip  BY TypeFacts, SeqElement
  <1>2. Download!ServerSend => /\ known' = g[n].known
                      /\ toClient' = IF g[n].inv = << >> THEN toClient
                                     ELSE Append(toClient, [type |-> "inv", inv |-> g[n].inv])
    BY DEF Download!ServerSend, Download!InOrder, SendOne
  <1>3. \A v \in V : \A i \in 1 .. n : op(v, i) \in V  BY <1>1, SendOneFacts
  <1>4. base \in V
    <2>1. << >> \in Seq(0 .. tip)  OBVIOUS
    <2>2. known \in Known  BY TypeFacts DEF Known, WellTyped, Download!TypeOK
    <2> QED  BY <2>1, <2>2 DEF Sendings
  <1> HIDE DEF n, op, V, base
  <1>5. step \in [1 .. n -> [V -> V]]  BY <1>3
  <1>6. PICK f : Iterates(f, V, n, base, step)
    <2> HIDE DEF step
    <2> QED  BY <1>1, <1>4, <1>5, Iterated
  <1>7. \A i \in 1 .. n : f[i] = op(f[i - 1], i)
    <2> TAKE i \in 1 .. n
    <2>1. i - 1 \in 0 .. n  BY <1>1
    <2>2. f[i - 1] \in V  BY <1>6, <2>1 DEF Iterates
    <2> QED  BY <1>6, <2>2 DEF Iterates
  <1>8. Rec(f)
    <2>1. \A i \in 0 .. n : f[i] = IF i = 0 THEN base ELSE op(f[i - 1], i)
      BY <1>1, <1>6, <1>7 DEF Iterates
    <2> QED  BY <1>6, <2>1 DEF Iterates
  <1>9. Rec(g)  BY <1>8, Zenon
  <1> HIDE DEF g
  <1>10. g[0] = base /\ \A i \in 1 .. n : g[i] = op(g[i - 1], i)
    <2>1. \A i \in 0 .. n : g[i] = IF i = 0 THEN base ELSE op(g[i - 1], i)  BY <1>9
    <2> QED  BY <1>1, <2>1
  <1>11. g \in [0 .. n -> V]
    <2> DEFINE T == {i \in 0 .. n : g[i] \in V}
    <2>1. 0 \in T  BY <1>1, <1>4, <1>10
    <2>2. \A i \in 1 .. n : i - 1 \in T => i \in T  BY <1>1, <1>3, <1>10
    <2>3. \A i \in 0 .. n : i \in T
      <3> HIDE DEF T
      <3> QED  BY <1>1, <2>1, <2>2, UpTo
    <2> QED  BY <1>9, <2>3
  <1>12. SendSteps(g)  BY <1>2, <1>10, <1>11 DEF SendSteps, n, op, V, base
  <1> QED  BY <1>12

\* The message a holds the first i announcements the client is not known to have.
SendResult(a, i, offered) ==
    /\ a \in Sendings
    /\ InSequence(a.inv, offered)
    /\ Covers(offered \cup Elems(a.inv, Len(a.inv)), Elems(a.known, Len(a.known)))
    /\ Covers(offered \cup Elems(a.inv, Len(a.inv)), Elems(toSend, i))

LEMMA SendStep ==
    ASSUME WellTyped, NEW offered, InSequence(toSend, offered), NEW i \in 1 .. Len(toSend),
           NEW a, SendResult(a, i - 1, offered)
    PROVE  SendResult(SendOne(a, toSend[i]), i, offered)
  <1> DEFINE h == toSend[i]
             b == SendOne(a, h)
             S == offered \cup Elems(a.inv, Len(a.inv))
             prev == Elems(toSend, i - 1)
  <1>1. toSend \in Seq(0 .. tip) /\ h \in 0 .. tip /\ h \in Nat /\ Start \in Nat
        /\ 0 .. tip \in SUBSET Nat
    <2>1. h \in 0 .. tip  BY TypeFacts, SeqElement
    <2> QED  BY <2>1, TypeFacts
  <1>2. Elems(toSend, i) = prev \cup {h}
    <2>1. 1 .. i = (1 .. i - 1) \cup {i}  BY <1>1
    <2> QED  BY <2>1 DEF Elems
  <1>3. Follows(h, offered \cup prev)  BY DEF InSequence
  <1>4. /\ a \in Sendings /\ InSequence(a.inv, offered)
        /\ Covers(S, Elems(a.known, Len(a.known))) /\ Covers(S, prev)
    BY DEF SendResult
  <1>5. a.inv \in Seq(Nat)
    <2>1. a.inv \in Seq(0 .. tip)  BY <1>4 DEF Sendings
    <2> QED  BY <1>1, <2>1, SeqWider
  <1>6. /\ b \in Sendings
        /\ \/ b = a /\ h \in Elems(a.known, Len(a.known))
           \/ /\ b.inv = Append(a.inv, h)
              /\ Elems(b.known, Len(b.known)) \subseteq Elems(a.known, Len(a.known)) \cup {h}
    BY <1>1, <1>4, SendOneFacts
  <1> HIDE DEF h, b, prev
  <1>7. CASE b = a /\ h \in Elems(a.known, Len(a.known))
    <2>1. Covers(S, Elems(toSend, i))  BY <1>2, <1>4, <1>7 DEF Covers
    <2>2. SendResult(a, i, offered)  BY <1>4, <2>1 DEF SendResult
    <2> QED  BY <1>7, <2>2 DEF b, h
  <1>8. CASE /\ b.inv = Append(a.inv, h)
             /\ Elems(b.known, Len(b.known)) \subseteq Elems(a.known, Len(a.known)) \cup {h}
    <2>1. Covers(S, offered \cup prev)  BY <1>4 DEF Covers
    <2>2. Follows(h, S)
      <3> HIDE DEF S
      <3> QED  BY <1>1, <1>3, <2>1, FollowsMore
    <2>3. InSequence(b.inv, offered)  BY <1>1, <1>4, <1>5, <1>8, <2>2, AppendInSequence
    <2>4. Elems(b.inv, Len(b.inv)) = Elems(a.inv, Len(a.inv)) \cup {h}
      <3> DEFINE s == a.inv
      <3>1. s \in Seq(Nat)  BY <1>5
      <3> HIDE DEF s
      <3>2. /\ Len(Append(s, h)) = Len(s) + 1
            /\ Elems(Append(s, h), Len(s) + 1) = Elems(s, Len(s)) \cup {h}
        BY <1>1, <3>1, ElemsAppend
      <3>3. b.inv = Append(s, h)  BY <1>8 DEF s
      <3> QED  BY <3>2, <3>3 DEF s
    <2>5. offered \cup Elems(b.inv, Len(b.inv)) = S \cup {h}  BY <2>4
    <2>6. /\ Covers(S \cup {h}, Elems(b.known, Len(b.known)))
          /\ Covers(S \cup {h}, Elems(toSend, i))
      BY <1>2, <1>4, <1>8 DEF Covers
    <2>7. SendResult(b, i, offered)  BY <1>6, <2>3, <2>5, <2>6 DEF SendResult
    <2> QED  BY <2>7 DEF b, h
  <1> QED  BY <1>6, <1>7, <1>8

LEMMA SendFacts ==
    ASSUME WellTyped, Download!ServerSend
    PROVE  \E a \in Sendings :
              /\ known' = a.known
              /\ toClient' = IF a.inv = << >> THEN toClient
                             ELSE Append(toClient, [type |-> "inv", inv |-> a.inv])
              /\ InLine => SendResult(a, Len(toSend), Offered(Download!Had, askFor, toServer, toClient))
  <1> DEFINE n == Len(toSend)
             offered == Offered(Download!Had, askFor, toServer, toClient)
  <1>1. PICK f : SendSteps(f)  BY SendTrace
  <1>2. /\ f[0] = [known |-> known, inv |-> << >>]
        /\ \A i \in 1 .. n : f[i] = SendOne(f[i - 1], toSend[i])
        /\ known' = f[n].known
        /\ toClient' = IF f[n].inv = << >> THEN toClient
                       ELSE Append(toClient, [type |-> "inv", inv |-> f[n].inv])
        /\ f \in [0 .. n -> Sendings]
    BY <1>1 DEF SendSteps
  <1>3. n \in Nat /\ n \in 0 .. n
    <2>1. n \in Nat  BY TypeFacts, SeqElement
    <2> QED  BY <2>1
  <1>4. f[n] \in Sendings  BY <1>2, <1>3
  <1>5. ASSUME InLine PROVE SendResult(f[n], n, offered)
    <2> DEFINE T == {i \in 0 .. n : SendResult(f[i], i, offered)}
    <2>1. /\ InSequence(toSend, offered)
          /\ \A h \in Elems(known, Len(known)) : h < Start => h \in offered
      BY <1>5 DEF InLine, Line
    <2> HIDE DEF offered
    <2>2. SendResult(f[0], 0, offered)
      <3> DEFINE a == f[0]
      <3>1. a.inv = << >> /\ a.known = known /\ a \in Sendings  BY <1>2, <1>3
      <3> HIDE DEF a
      <3>2. Elems(a.inv, Len(a.inv)) = {} /\ Elems(toSend, 0) = {}  BY <3>1 DEF Elems
      <3>3. InSequence(a.inv, offered)  BY <3>1 DEF InSequence
      <3>4. SendResult(a, 0, offered)  BY <2>1, <3>1, <3>2, <3>3 DEF SendResult, Covers
      <3> QED  BY <3>4 DEF a
    <2>3. 0 \in T  BY <1>3, <2>2
    <2>4. ASSUME NEW i \in 1 .. n, i - 1 \in T PROVE i \in T
      <3>1. SendResult(f[i - 1], i - 1, offered)  BY <2>4
      <3>2. SendResult(f[i], i, offered)  BY <1>2, <2>1, <3>1, SendStep
      <3> QED  BY <1>3, <3>2
    <2>5. \A i \in 0 .. n : i \in T
      <3> HIDE DEF T
      <3> QED  BY <1>3, <2>3, <2>4, UpTo
    <2> QED  BY <1>3, <2>5
  <1> QED  BY <1>2, <1>4, <1>5

LEMMA ServerSendFacts ==
    ASSUME WellTyped, Download!ServerSend
    PROVE  Download!TypeOK' /\ (InLine => InLine') /\ UNCHANGED Download!client
  <1> DEFINE offered == Offered(Download!Had, askFor, toServer, toClient)
  <1>1. PICK a \in Sendings :
              /\ known' = a.known
              /\ toClient' = IF a.inv = << >> THEN toClient
                             ELSE Append(toClient, [type |-> "inv", inv |-> a.inv])
              /\ InLine => SendResult(a, Len(toSend), offered)
    BY SendFacts
  <1>2. a.known \in Known /\ a.inv \in Seq(0 .. tip)  BY DEF Sendings
  <1>3. /\ best' = best /\ orphans' = orphans /\ askFor' = askFor /\ lastGet' = lastGet
        /\ hashContinue' = hashContinue /\ tip' = tip /\ reconnects' = reconnects
        /\ toSend' = << >> /\ toServer' = toServer /\ hurried' = hurried
        /\ later' = later /\ lastAsked' = lastAsked
    BY DEF Download!client, Download!requests, Download!ServerSend
  <1> DEFINE m == [type |-> "inv", inv |-> a.inv]
  <1>4. m \in Download!Answers /\ m.type = "inv" /\ Carried(m) = a.inv
    BY <1>2 DEF Download!Answers, Carried
  <1>5. toClient' = IF a.inv = << >> THEN toClient ELSE Append(toClient, m)  BY <1>1
  <1> HIDE DEF m
  <1>6. toClient \in Seq(Download!Answers) /\ toClient' \in Seq(Download!Answers)
    BY <1>4, <1>5, TypeFacts
  <1>7. Download!TypeOK'
    <2>1. Download!Requests' = Download!Requests /\ Download!Answers' = Download!Answers
      BY <1>3 DEF Download!Requests, Download!Answers
    <2>2. << >> \in Seq(0 .. tip)  OBVIOUS
    <2>3. known' \in Seq(0 .. tip) /\ Len(known') <= MaxKnown  BY <1>1, <1>2 DEF Known
    <2> QED  BY <1>3, <1>6, <2>1, <2>2, <2>3 DEF WellTyped, Download!TypeOK
  <1>8. ASSUME InLine PROVE InLine'
    <2> DEFINE q == toClient
               u == toClient'
               all == Elems(a.inv, Len(a.inv))
               queued == Queued(Download!Had, askFor, toServer, q)
    <2>1. /\ QueueInSequence(q, "block", Download!Had)
          /\ QueueInSequence(toServer, "getdata", Sent(Download!Had, q))
          /\ InSequence(askFor, Requested(Download!Had, toServer, q)) /\ QueueInSequence(q, "inv", queued)
          /\ Covers(queued, Pending(later, lastAsked))
      BY <1>8 DEF InLine, Line
    <2>2. InSequence(a.inv, offered) /\ Covers(offered \cup all, Elems(a.known, Len(a.known)))
      BY <1>1, <1>8 DEF SendResult
    <2>3. offered = queued \cup Items(q, "inv", Len(q))  BY DEF Offered
    <2> HIDE DEF offered, queued
    <2>4. /\ Items(u, "block", Len(u)) = Items(q, "block", Len(q))
          /\ Items(u, "inv", Len(u)) = Items(q, "inv", Len(q)) \cup all
          /\ QueueInSequence(u, "block", Download!Had) /\ QueueInSequence(u, "inv", queued)
      <3>1. CASE a.inv = << >>
        <4>1. all = {}  BY <3>1 DEF Elems
        <4> QED  BY <1>5, <2>1, <3>1, <4>1
      <3>2. CASE a.inv # << >>
        <4>1. u = Append(q, m)  BY <1>5, <3>2
        <4>2. Load(m, "inv") = all /\ Load(m, "block") = {}  BY <1>4 DEF Load
        <4>3. /\ Len(Append(q, m)) = Len(q) + 1
              /\ \A type : Items(Append(q, m), type, Len(q) + 1)
                             = Items(q, type, Len(q)) \cup Load(m, type)
          BY <1>4, <1>6, ItemsAppend
        <4>4. QueueInSequence(Append(q, m), "block", Download!Had)
          BY <1>4, <1>6, <2>1, AppendQueueInSequence
        <4>5. QueueInSequence(Append(q, m), "inv", queued)
          BY <1>4, <1>6, <2>1, <2>2, <2>3, AppendQueueInSequence
        <4> HIDE DEF u, all
        <4> QED  BY <4>1, <4>2, <4>3, <4>4, <4>5
      <3> QED  BY <3>1, <3>2
    <2>5. Sent(Download!Had, u) = Sent(Download!Had, q)  BY <2>4 DEF Sent
    <2>6. /\ Requested(Download!Had, toServer, u) = Requested(Download!Had, toServer, q)
          /\ Queued(Download!Had, askFor, toServer, u) = queued
      BY <2>5 DEF Requested, Queued, queued
    <2>7. Offered(Download!Had, askFor, toServer, u) = offered \cup all
      BY <2>3, <2>4, <2>6 DEF Offered
    <2> HIDE DEF u, all
    <2>8. InSequence(<< >>, Offered(Download!Had, askFor, toServer, u))  BY DEF InSequence
    <2>9. \A h \in Elems(a.known, Len(a.known)) : h < Start => h \in Offered(Download!Had, askFor, toServer, u)
      BY <2>2, <2>7 DEF Covers
    <2>10. Line(Download!Had, askFor, a.known, << >>, toServer, u)
      BY <2>1, <2>4, <2>5, <2>6, <2>8, <2>9 DEF Line
    <2>11. Download!Had' = Download!Had  BY <1>3 DEF Download!Had
    <2>12. Covers(Queued(Download!Had, askFor, toServer, u), Pending(later, lastAsked))  BY <2>1, <2>6
    <2> QED  BY <1>1, <1>3, <2>10, <2>11, <2>12 DEF InLine, u
  <1> QED  BY <1>3, <1>7, <1>8 DEF Download!client

\* Nothing is on its way but a request for blocks.
LEMMA NothingOnTheWay ==
    ASSUME NEW had, NEW m, m.type = "getblocks"
    PROVE  Line(had, << >>, << >>, << >>, <<m>>, << >>)
  <1>1. Len(<<m>>) = 1 /\ <<m>>[1] = m /\ Len(<< >>) = 0  OBVIOUS
  <1>2. QueueInSequence(<<m>>, "getdata", Sent(had, << >>))
    BY <1>1 DEF QueueInSequence
  <1>3. /\ QueueInSequence(<< >>, "block", had)
        /\ QueueInSequence(<< >>, "inv", Queued(had, << >>, <<m>>, << >>))
    BY <1>1 DEF QueueInSequence
  <1>4. \A S : InSequence(<< >>, S)  BY <1>1 DEF InSequence
  <1>5. Elems(<< >>, Len(<< >>)) = {}  BY <1>1 DEF Elems
  <1> QED  BY <1>2, <1>3, <1>4, <1>5 DEF Line

LEMMA ReconnectFacts ==
    ASSUME WellTyped, Download!Reconnect
    PROVE  /\ Download!TypeOK' /\ UNCHANGED Download!client
           /\ ~hurried' => ~hurried /\ InLine'
  <1> DEFINE m == [type |-> "getblocks", begin |-> best, end |-> 0]
  <1>1. /\ best' = best /\ orphans' = orphans /\ tip' = tip /\ reconnects < MaxReconnect
        /\ reconnects' = reconnects + 1 /\ hashContinue' = 0 /\ lastGet' = <<best, 0>>
        /\ askFor' = << >> /\ toSend' = << >> /\ known' = << >> /\ toClient' = << >>
        /\ toServer' = <<m>> /\ later' = {} /\ lastAsked' = lastAsked
        /\ hurried' = (hurried \/ \E h \in Download!Missing : lastAsked[h] > 0)
    BY DEF Download!Reconnect, Download!client
  <1>2. best \in Nat /\ tip \in Nat /\ best <= tip /\ MaxKnown \in Nat  BY TypeFacts
  <1>3. m \in Download!Requests /\ m.type = "getblocks"  BY <1>2 DEF Download!Requests
  <1> HIDE DEF m
  <1>4. Download!TypeOK'
    <2>1. Download!Requests' = Download!Requests /\ Download!Answers' = Download!Answers
      BY <1>1 DEF Download!Requests, Download!Answers
    <2>2. << >> \in Seq(0 .. tip) /\ << >> \in Seq(Download!Answers) /\ <<m>> \in Seq(Download!Requests)
      BY <1>3
    <2>3. lastGet' \in (0 .. best) \X (0 .. tip) /\ hashContinue' \in 0 .. tip  BY <1>1, <1>2
    <2>4. reconnects' \in 0 .. MaxReconnect
      <3>1. reconnects \in 0 .. MaxReconnect /\ MaxReconnect \in Nat
        BY DEF WellTyped, Download!TypeOK, Download!DownloadAssumption
      <3> QED  BY <1>1, <3>1
    <2>5. Len(<< >>) <= MaxKnown  BY <1>2
    <2>6. best' \in 0 .. tip' /\ tip' \in Start .. Height /\ orphans' \subseteq best' + 2 .. tip'
      BY <1>1 DEF WellTyped, Download!TypeOK
    <2>7. {askFor', known', toSend'} \subseteq Seq(0 .. tip') /\ Len(known') <= MaxKnown
      BY <1>1, <2>2, <2>5
    <2>8. toServer' \in Seq(Download!Requests') /\ toClient' \in Seq(Download!Answers')
      BY <1>1, <2>1, <2>2
    <2>9. lastGet' \in (0 .. best') \X (0 .. tip') /\ hashContinue' \in 0 .. tip'
      BY <1>1, <2>3
    <2>10. later' \subseteq [block : 0 .. tip', wait : Nat \ {0}] /\ lastAsked' \in [0 .. Height -> Nat]
      BY <1>1, TypeFacts
    <2>11. hurried' \in BOOLEAN
      <3>1. hurried \in BOOLEAN  BY DEF WellTyped, Download!TypeOK
      <3> QED  BY <1>1, <3>1, Zenon
    <2> QED  BY <2>4, <2>6, <2>7, <2>8, <2>9, <2>10, <2>11 DEF Download!TypeOK
  <1>5. ASSUME ~hurried' PROVE InLine'
    <2>1. Line(Download!Had', << >>, << >>, << >>, <<m>>, << >>)
      BY <1>3, NothingOnTheWay
    <2>2. \A h \in Download!Missing : ~(lastAsked[h] > 0)  BY <1>1, <1>5
    <2>3. Download!Had' = Download!Had  BY <1>1 DEF Download!Had
    <2>4. Covers(Queued(Download!Had', << >>, <<m>>, << >>), Pending({}, lastAsked))
      <3> SUFFICES ASSUME NEW h \in 0 .. Height, lastAsked[h] > 0, h < Start
                   PROVE  h \in Queued(Download!Had', << >>, <<m>>, << >>)
        BY DEF Covers, Pending
      <3>1. h \in 0 .. tip  BY TypeFacts
      <3>2. h \in Download!Had  BY <2>2, <3>1 DEF Download!Missing
      <3> QED  BY <2>3, <3>2 DEF Queued, Requested, Sent
    <2> QED  BY <1>1, <2>1, <2>4 DEF InLine
  <1> QED  BY <1>1, <1>4, <1>5 DEF Download!client

(***************************************************************************)
(* The invariant: until the estimate is reached blocks come in line.       *)
(***************************************************************************)
DownloadInv == WellTyped /\ (best < Estimate /\ ~hurried => InLine /\ OrphansOutside)

LEMMA DownloadInit ==
    ASSUME Download!DownloadAssumption, Download!Init
    PROVE  DownloadInv
  <1> DEFINE m == [type |-> "getblocks", begin |-> 0, end |-> 0]
  <1>1. /\ best = 0 /\ orphans = {} /\ tip = Start /\ reconnects = 0
        /\ hashContinue = 0 /\ lastGet = <<0, 0>> /\ toServer = <<m>>
        /\ askFor = << >> /\ toSend = << >> /\ known = << >> /\ toClient = << >>
        /\ later = {} /\ lastAsked = [h \in 0 .. Height |-> 0] /\ hurried = FALSE
    BY DEF Download!Init
  <1>2. Height \in Nat /\ Start \in 0 .. Height /\ MaxKnown \in Nat /\ MaxReconnect \in Nat
    BY DEF Download!DownloadAssumption
  <1>3. m \in Download!Requests /\ m.type = "getblocks"  BY <1>1, <1>2 DEF Download!Requests
  <1> HIDE DEF m
  <1>4. Download!TypeOK
    <2>1. << >> \in Seq(0 .. tip) /\ << >> \in Seq(Download!Answers) /\ <<m>> \in Seq(Download!Requests)
      BY <1>3
    <2>2. {askFor, known, toSend} \subseteq Seq(0 .. tip) /\ Len(known) <= MaxKnown
      <3>1. Len(<< >>) <= MaxKnown  BY <1>2
      <3> QED  BY <1>1, <2>1, <3>1
    <2>3. toServer \in Seq(Download!Requests) /\ toClient \in Seq(Download!Answers)
      BY <1>1, <2>1
    <2>4. /\ best \in 0 .. tip /\ tip \in Start .. Height /\ orphans \subseteq best + 2 .. tip
          /\ hashContinue \in 0 .. tip /\ lastGet \in (0 .. best) \X (0 .. tip)
          /\ reconnects \in 0 .. MaxReconnect
      BY <1>1, <1>2
    <2>5. /\ later \subseteq [block : 0 .. tip, wait : Nat \ {0}]
          /\ lastAsked \in [0 .. Height -> Nat] /\ hurried \in BOOLEAN
      BY <1>1
    <2> QED  BY <2>2, <2>3, <2>4, <2>5 DEF Download!TypeOK
  <1>5. InLine
    <2>1. Line(Download!Had, << >>, << >>, << >>, <<m>>, << >>)  BY <1>3, NothingOnTheWay
    <2>2. Pending(later, lastAsked) = {}  BY <1>1 DEF Pending
    <2> QED  BY <1>1, <2>1, <2>2 DEF InLine, Covers
  <1>6. OrphansOutside  BY <1>1 DEF OrphansOutside
  <1> QED  BY <1>4, <1>5, <1>6 DEF DownloadInv, WellTyped

LEMMA DownloadStep ==
    ASSUME DownloadInv, [Download!Next]_(Download!vars)
    PROVE  DownloadInv'
  <1>1. WellTyped /\ Download!DownloadAssumption /\ best \in Nat /\ Estimate \in Nat
    BY TypeFacts DEF DownloadInv, WellTyped
  <1>2. ASSUME Download!TypeOK', ~hurried' => ~hurried, UNCHANGED Download!client,
               best < Estimate /\ ~hurried' /\ InLine /\ OrphansOutside => InLine'
        PROVE  DownloadInv'
    <2>1. best' = best /\ orphans' = orphans  BY <1>2 DEF Download!client
    <2>2. OrphansOutside => OrphansOutside'  BY <2>1 DEF OrphansOutside, Outside, LastWork
    <2>3. WellTyped'  BY <1>1, <1>2 DEF WellTyped, Download!DownloadAssumption
    <2> QED  BY <1>2, <2>1, <2>2, <2>3 DEF DownloadInv
  <1>3. CASE Download!ClientReceive
    <2>1. /\ toClient # << >> /\ toClient' = Tail(toClient)
          /\ UNCHANGED <<known, toSend, hashContinue, tip, reconnects, hurried>>
      BY <1>3 DEF Download!ClientReceive
    <2>2. CASE Head(toClient).type = "inv" /\ Download!OnInv(Head(toClient).inv)
      BY <1>1, <1>2, <2>1, <2>2, ReceiveInv
    <2>3. CASE Head(toClient).type = "block" /\ Download!OnBlock(Head(toClient).block)
      <3>1. /\ Download!TypeOK' /\ best <= best'
            /\ best < Estimate /\ InLine /\ OrphansOutside => InLine' /\ OrphansOutside'
        BY <1>1, <2>1, <2>3, ReceiveBlock
      <3>2. WellTyped'  BY <1>1, <3>1 DEF WellTyped, Download!DownloadAssumption
      <3>3. best' \in Nat
        <4>1. best' \in 0 .. tip' /\ tip' = tip /\ tip \in Nat
          BY <1>1, <2>1, <3>1, TypeFacts DEF Download!TypeOK
        <4> QED  BY <4>1
      <3>4. best' < Estimate => best < Estimate  BY <1>1, <3>1, <3>3
      <3>5. hurried' = hurried  BY <2>1
      <3>6. best' < Estimate' /\ ~hurried' => best < Estimate /\ ~hurried /\ InLine /\ OrphansOutside
        BY <3>4, <3>5 DEF DownloadInv
      <3>7. best' < Estimate' /\ ~hurried' => InLine' /\ OrphansOutside'  BY <3>1, <3>6
      <3> QED  BY <3>2, <3>7 DEF DownloadInv
    <2> QED  BY <1>3, <2>2, <2>3 DEF Download!ClientReceive
  <1>4. CASE Download!ClientSend
    <2>1. hurried' = hurried  BY <1>4 DEF Download!ClientSend
    <2> QED  BY <1>1, <1>2, <1>4, <2>1, ClientSendFacts
  <1>10. CASE Download!Tick
    <2>1. hurried' = hurried  BY <1>10 DEF Download!Tick
    <2> QED  BY <1>1, <1>2, <1>10, <2>1, TickFacts
  <1>5. CASE Download!ServerReceive
    <2>1. /\ toServer # << >> /\ toServer' = Tail(toServer)
          /\ UNCHANGED <<Download!client, Download!requests, lastGet, known, tip, reconnects, hurried>>
      BY <1>5 DEF Download!ServerReceive
    <2>2. CASE Head(toServer).type = "getblocks" /\ Download!OnGetBlocks(Head(toServer).begin, Head(toServer).end)
      BY <1>1, <1>2, <2>1, <2>2, ReceiveGetBlocks
    <2>3. CASE Head(toServer).type = "getdata" /\ Download!OnGetData(Head(toServer).inv)
      BY <1>1, <1>2, <2>1, <2>3, ReceiveGetData
    <2> QED  BY <1>5, <2>2, <2>3 DEF Download!ServerReceive
  <1>6. CASE Download!ServerSend
    <2>1. hurried' = hurried  BY <1>6 DEF Download!ServerSend
    <2> QED  BY <1>1, <1>2, <1>6, <2>1, ServerSendFacts
  <1>7. CASE Download!AcceptBlock
    <2>1. hurried' = hurried  BY <1>7 DEF Download!AcceptBlock
    <2> QED  BY <1>1, <1>2, <1>7, <2>1, AcceptBlockFacts
  <1>8. CASE Download!Reconnect  BY <1>1, <1>2, <1>8, ReconnectFacts
  <1>9. CASE UNCHANGED Download!vars
    <2>1. /\ best' = best /\ orphans' = orphans /\ askFor' = askFor /\ lastGet' = lastGet
          /\ tip' = tip /\ known' = known /\ toSend' = toSend /\ hashContinue' = hashContinue
          /\ toServer' = toServer /\ toClient' = toClient /\ reconnects' = reconnects
          /\ later' = later /\ lastAsked' = lastAsked /\ hurried' = hurried
      BY <1>9 DEF Download!vars, Download!client, Download!session, Download!requests
    <2>2. Download!Requests' = Download!Requests /\ Download!Answers' = Download!Answers /\ Download!Had' = Download!Had
      BY <2>1 DEF Download!Requests, Download!Answers, Download!Had
    <2>3. Download!TypeOK'  BY <1>1, <2>1, <2>2 DEF WellTyped, Download!TypeOK
    <2>4. InLine => InLine'  BY <2>1, <2>2 DEF InLine, Line
    <2> QED  BY <1>2, <2>1, <2>3, <2>4 DEF Download!client
  <1> QED  BY <1>3, <1>4, <1>5, <1>6, <1>7, <1>8, <1>9, <1>10 DEF Download!Next

LEMMA DownloadInvariant == Download!DownloadAssumption /\ Download!Spec => []DownloadInv
  <1>1. Download!DownloadAssumption /\ Download!Init => DownloadInv  BY DownloadInit
  <1>2. DownloadInv /\ [Download!Next]_(Download!vars) => DownloadInv'  BY DownloadStep
  <1> QED  BY <1>1, <1>2, PTL DEF Download!Spec

\* In every reachable state of a download the variables have their types: no request
\* names a block the client or the server does not have, and an orphan is never next to
\* the client's best block (getblocks, inv, getdata and block, ProcessMessage).
THEOREM DownloadTypes == Download!DownloadAssumption /\ Download!Spec => []Download!TypeOK
  <1>1. DownloadInv => Download!TypeOK  BY DEF DownloadInv, WellTyped
  <1> QED  BY <1>1, DownloadInvariant, PTL

\* Until the client has as many blocks as the estimate, only blocks the server
\* announced outside of a batch are ever orphans, whatever the length of the chain,
\* of a batch and of the server's memory of what it announced, and however often the
\* connection is lost, as long as none was made again within two minutes of a request
\* for a block that is still missing (ProcessBlock, getblocks, getdata, AskFor).
THEOREM OrphansComeFromOutside ==
    Download!DownloadAssumption /\ Download!Spec => []OrphansAreLatest
  <1>1. ASSUME DownloadInv PROVE OrphansAreLatest
    <2>1. \A p \in ProofOfWork : p <= Start => p <= LastWork  BY <1>1, LastWorkFacts DEF DownloadInv, WellTyped
    <2>2. LastWork \in ProofOfWork  BY <1>1, LastWorkFacts DEF DownloadInv, WellTyped
    <2>3. best < Estimate /\ ~hurried => \A h \in orphans : h >= Start \/ h = LastWork
      BY <1>1 DEF DownloadInv, OrphansOutside, Outside
    <2> QED  BY <2>1, <2>2, <2>3 DEF OrphansAreLatest
  <1> QED  BY <1>1, DownloadInvariant, PTL
=============================================================================
