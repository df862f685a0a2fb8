---------------------------- MODULE Connections ----------------------------
(***************************************************************************)
(* The life of a CNode (net.cpp): made by the thread that accepts or by a  *)
(* thread that opens connections, kept in vNodes, used by the socket and   *)
(* the message handler through copies of vNodes, moved to                  *)
(* vNodesDisconnected, and deleted when its reference count is zero.  An   *)
(* outbound connection holds a slot of the semaphore semOutbound, first in *)
(* the thread that opens it, then in the node.                             *)
(*                                                                         *)
(* A thread's step ends where it leaves cs_vNodes; AddRef in ConnectNode   *)
(* and the last lines of OpenNetworkConnection run without that lock.      *)
(* Buffers and timeouts appear as the choice which connections end.        *)
(***************************************************************************)
EXTENDS Integers, FiniteSets

CONSTANTS
    Addrs,          \* addresses to connect out to
    Openers,        \* the threads that open connections
    nMaxOutbound,   \* slots of semOutbound
    nMaxInbound,    \* -maxconnections less the outbound connections
    MaxNodes,       \* bound on the nodes made
    EarlyEnd        \* whether a connection may end while a thread opens one to its address

ASSUME ConnectionsAssumption ==
    /\ nMaxOutbound \in Nat /\ nMaxInbound \in Nat /\ MaxNodes \in Nat
    /\ EarlyEnd \in BOOLEAN
    /\ 0 \notin Addrs
    /\ IsFiniteSet(Openers)

VARIABLES
    vNodes,
    vNodesDisconnected,
    deleted,        \* nodes whose memory is freed
    node,           \* the fields of each node made; nFound counts AddRefFound
    nRefCount,
    sem,            \* the value of semOutbound
    opener,         \* what each opening thread does
    socket,         \* the socket handler: its place in the loop and its copy of vNodes
    message         \* the message handler, likewise

vars == <<vNodes, vNodesDisconnected, deleted, node, nRefCount, sem, opener, socket, message>>

Nodes == 1 .. MaxNodes
Made == vNodes \cup vNodesDisconnected \cup deleted

NoNode == [addr |-> 0, fInbound |-> FALSE, fNetworkNode |-> FALSE,
           fDisconnect |-> FALSE, grantOutbound |-> FALSE, nFound |-> 0]
Idle == [pc |-> "idle", grant |-> FALSE, addr |-> 0, pnode |-> 0]

NewNode == Cardinality(Made) + 1

AddRef(S) == [n \in Nodes |-> IF n \in S THEN nRefCount[n] + 1 ELSE nRefCount[n]]
Release(S) == [n \in Nodes |-> IF n \in S THEN nRefCount[n] - 1 ELSE nRefCount[n]]

(***************************************************************************)
(* The socket handler.  Under cs_vNodes it takes the connections that have *)
(* ended out of vNodes, then deletes the nodes nobody refers to; deleting  *)
(* a node gives back the slot it may still hold.                           *)
(***************************************************************************)
Ended == {n \in vNodes : node[n].fDisconnect \/ nRefCount[n] <= 0}

\* Mutant: a disconnected node is deleted although threads refer to it.
DisconnectDeletes ==
    /\ socket.pc = "disconnect"
    /\ vNodes' = vNodes \ Ended
    /\ sem' = sem + Cardinality({n \in Ended : node[n].grantOutbound})
    /\ node' = [n \in Nodes |->
                    IF n \in Ended THEN [node[n] EXCEPT !.grantOutbound = FALSE] ELSE node[n]]
    /\ deleted' = deleted \cup Ended
    /\ socket' = [socket EXCEPT !.pc = "accept"]
    /\ UNCHANGED <<vNodesDisconnected, nRefCount, opener, message>>

Disconnect ==
    LET done == {n \in Ended : node[n].fNetworkNode \/ node[n].fInbound}
        refs == Release(done)
        pool == vNodesDisconnected \cup Ended
        gone == {n \in pool : refs[n] <= 0}
    IN  /\ socket.pc = "disconnect"
        /\ vNodes' = vNodes \ Ended
        /\ sem' = sem + Cardinality({n \in Ended \cup gone : node[n].grantOutbound})
        /\ node' = [n \in Nodes |->
                        IF n \in Ended \cup gone
                        THEN [node[n] EXCEPT !.grantOutbound = FALSE, !.fDisconnect = TRUE]
                        ELSE node[n]]
        /\ nRefCount' = refs
        /\ vNodesDisconnected' = pool \ gone
        /\ deleted' = deleted \cup gone
        /\ socket' = [socket EXCEPT !.pc = "accept"]
        /\ UNCHANGED <<opener, message>>

nInbound == Cardinality({n \in vNodes : node[n].fInbound})

\* A peer connects, or none does, or there are too many.
Accept ==
    /\ socket.pc = "accept"
    /\ \/ /\ nInbound < nMaxInbound
          /\ NewNode \in Nodes
          /\ node' = [node EXCEPT ![NewNode].fInbound = TRUE]
          /\ nRefCount' = AddRef({NewNode})
          /\ vNodes' = vNodes \cup {NewNode}
       \/ UNCHANGED <<node, nRefCount, vNodes>>
    /\ socket' = [socket EXCEPT !.pc = "copy"]
    /\ UNCHANGED <<vNodesDisconnected, deleted, sem, opener, message>>

SocketCopy ==
    /\ socket.pc = "copy"
    /\ nRefCount' = AddRef(vNodes)
    /\ socket' = [pc |-> "service", copied |-> vNodes]
    /\ UNCHANGED <<vNodes, vNodesDisconnected, deleted, node, sem, opener, message>>

\* CloseSocketDisconnect, or only fDisconnect, for some of the nodes: a closed
\* socket, an error, a full buffer, a timeout.
MayEnd(S) ==
    {n \in S : EarlyEnd \/ node[n].fInbound
                       \/ \A t \in Openers : opener[t].addr # node[n].addr}

SocketService ==
    /\ socket.pc = "service"
    /\ \E ended \in SUBSET MayEnd(socket.copied) :
          node' = [n \in Nodes |->
                      IF n \in ended THEN [node[n] EXCEPT !.fDisconnect = TRUE] ELSE node[n]]
    /\ socket' = [socket EXCEPT !.pc = "release"]
    /\ UNCHANGED <<vNodes, vNodesDisconnected, deleted, nRefCount, sem, opener, message>>

SocketRelease ==
    /\ socket.pc = "release"
    /\ nRefCount' = Release(socket.copied)
    /\ socket' = [pc |-> "disconnect", copied |-> {}]
    /\ UNCHANGED <<vNodes, vNodesDisconnected, deleted, node, sem, opener, message>>

(***************************************************************************)
(* The message handler.  A peer that misbehaves is disconnected.           *)
(***************************************************************************)
MessageCopy ==
    /\ message.pc = "copy"
    /\ nRefCount' = AddRef(vNodes)
    /\ message' = [pc |-> "process", copied |-> vNodes]
    /\ UNCHANGED <<vNodes, vNodesDisconnected, deleted, node, sem, opener, socket>>

ProcessMessages ==
    /\ message.pc = "process"
    /\ \E ended \in SUBSET MayEnd(message.copied) :
          node' = [n \in Nodes |->
                      IF n \in ended THEN [node[n] EXCEPT !.fDisconnect = TRUE] ELSE node[n]]
    /\ message' = [message EXCEPT !.pc = "release"]
    /\ UNCHANGED <<vNodes, vNodesDisconnected, deleted, nRefCount, sem, opener, socket>>

\* Mutant: the message handler leaves its loop without releasing its copy.
MessageKeeps ==
    /\ message.pc = "release"
    /\ message' = [pc |-> "copy", copied |-> {}]
    /\ UNCHANGED <<vNodes, vNodesDisconnected, deleted, node, nRefCount, sem, opener, socket>>

\* Mutant: the message handler releases the nodes connected now, not those it copied.
MessageReleasesNew ==
    /\ message.pc = "release"
    /\ nRefCount' = Release(vNodes)
    /\ message' = [pc |-> "copy", copied |-> {}]
    /\ UNCHANGED <<vNodes, vNodesDisconnected, deleted, node, sem, opener, socket>>

MessageRelease ==
    /\ message.pc = "release"
    /\ nRefCount' = Release(message.copied)
    /\ message' = [pc |-> "copy", copied |-> {}]
    /\ UNCHANGED <<vNodes, vNodesDisconnected, deleted, node, sem, opener, socket>>

(***************************************************************************)
(* A thread that opens connections.  Its grant goes back to the semaphore  *)
(* when the call fails.                                                    *)
(***************************************************************************)
To(t, pc) == opener' = [opener EXCEPT ![t].pc = pc]

Found(a) == {n \in vNodes : node[n].addr = a}

Acquire(t) ==
    /\ opener[t].pc = "idle"
    /\ sem >= 1
    /\ sem' = sem - 1
    /\ opener' = [opener EXCEPT ![t] = [Idle EXCEPT !.pc = "grant", !.grant = TRUE]]
    /\ UNCHANGED <<vNodes, vNodesDisconnected, deleted, node, nRefCount, socket, message>>

\* The destructor of the grant.
GiveUp(t) ==
    /\ sem' = sem + 1
    /\ opener' = [opener EXCEPT ![t] = Idle]

\* No address, or one that is connected, ends the attempt.
OpenNetworkConnection(t) ==
    /\ opener[t].pc = "grant"
    /\ \/ \E a \in Addrs :
             /\ Found(a) = {}
             /\ opener' = [opener EXCEPT ![t].pc = "find", ![t].addr = a]
             /\ UNCHANGED sem
       \/ GiveUp(t)
    /\ UNCHANGED <<vNodes, vNodesDisconnected, deleted, node, nRefCount, socket, message>>

\* ConnectNode looks again; FindNode leaves cs_vNodes before it returns.
FindNode(t) ==
    /\ opener[t].pc = "find"
    /\ IF Found(opener[t].addr) = {} THEN To(t, "dial")
       ELSE \E n \in Found(opener[t].addr) :
                opener' = [opener EXCEPT ![t].pc = "found", ![t].pnode = n]
    /\ UNCHANGED <<vNodes, vNodesDisconnected, deleted, node, nRefCount, sem, socket, message>>

AddRefFound(t) ==
    /\ opener[t].pc = "found"
    /\ nRefCount' = AddRef({opener[t].pnode})
    /\ node' = [node EXCEPT ![opener[t].pnode].nFound = @ + 1]
    /\ To(t, "opened")
    /\ UNCHANGED <<vNodes, vNodesDisconnected, deleted, sem, socket, message>>

ConnectNode(t) ==
    /\ opener[t].pc = "dial"
    /\ \/ /\ NewNode \in Nodes
          /\ node' = [node EXCEPT ![NewNode].addr = opener[t].addr]
          /\ nRefCount' = AddRef({NewNode})
          /\ vNodes' = vNodes \cup {NewNode}
          /\ opener' = [opener EXCEPT ![t].pc = "opened", ![t].pnode = NewNode]
          /\ UNCHANGED sem
       \/ GiveUp(t) /\ UNCHANGED <<vNodes, node, nRefCount>>
    /\ UNCHANGED <<vNodesDisconnected, deleted, socket, message>>

\* Mutant: the thread keeps the slot too and gives it back at the end of its turn.
MoveToCopies(t) ==
    /\ opener[t].pc = "opened"
    /\ node' = [node EXCEPT ![opener[t].pnode].grantOutbound = TRUE]
    /\ sem' = sem + 1
    /\ opener' = [opener EXCEPT ![t].pc = "moved", ![t].grant = FALSE]
    /\ UNCHANGED <<vNodes, vNodesDisconnected, deleted, nRefCount, socket, message>>

\* The slot goes to the node; a slot it has already is given back.
MoveTo(t) ==
    LET pnode == opener[t].pnode IN
    /\ opener[t].pc = "opened"
    /\ sem' = IF node[pnode].grantOutbound THEN sem + 1 ELSE sem
    /\ node' = [node EXCEPT ![pnode].grantOutbound = TRUE]
    /\ opener' = [opener EXCEPT ![t].pc = "moved", ![t].grant = FALSE]
    /\ UNCHANGED <<vNodes, vNodesDisconnected, deleted, nRefCount, socket, message>>

SetNetworkNode(t) ==
    /\ opener[t].pc = "moved"
    /\ node' = [node EXCEPT ![opener[t].pnode].fNetworkNode = TRUE]
    /\ opener' = [opener EXCEPT ![t] = Idle]
    /\ UNCHANGED <<vNodes, vNodesDisconnected, deleted, nRefCount, sem, socket, message>>

SocketHandler == Disconnect \/ Accept \/ SocketCopy \/ SocketService \/ SocketRelease
MessageHandler == MessageCopy \/ ProcessMessages \/ MessageRelease
Opening(t) ==
    \/ Acquire(t)
    \/ OpenNetworkConnection(t)
    \/ FindNode(t)
    \/ AddRefFound(t)
    \/ ConnectNode(t)
    \/ MoveTo(t)
    \/ SetNetworkNode(t)

Init ==
    /\ vNodes = {}
    /\ vNodesDisconnected = {}
    /\ deleted = {}
    /\ node = [n \in Nodes |-> NoNode]
    /\ nRefCount = [n \in Nodes |-> 0]
    /\ sem = nMaxOutbound
    /\ opener = [t \in Openers |-> Idle]
    /\ socket = [pc |-> "disconnect", copied |-> {}]
    /\ message = [pc |-> "copy", copied |-> {}]

Next ==
    \/ SocketHandler
    \/ MessageHandler
    \/ \E t \in Openers : Opening(t)

Spec == Init /\ [][Next]_vars

\* Every thread runs on; none waits for ever but for a slot.
LiveSpec ==
    /\ Spec
    /\ WF_vars(SocketHandler)
    /\ WF_vars(MessageHandler)
    /\ \A t \in Openers : WF_vars(Opening(t))

----------------------------------------------------------------------------
(***************************************************************************)
(* The types of the variables; the count is never negative, which          *)
(* GetRefCount asserts.                                                    *)
(***************************************************************************)
TypeOK ==
    /\ vNodes \in SUBSET Nodes
    /\ vNodesDisconnected \in SUBSET Nodes
    /\ deleted \in SUBSET Nodes
    /\ node \in [Nodes -> [addr : Addrs \cup {0}, fInbound : BOOLEAN, fNetworkNode : BOOLEAN,
                           fDisconnect : BOOLEAN, grantOutbound : BOOLEAN, nFound : Nat]]
    /\ nRefCount \in [Nodes -> Nat]
    /\ sem \in 0 .. nMaxOutbound
    /\ opener \in [Openers -> [pc : {"idle", "grant", "find", "found", "dial", "opened", "moved"},
                               grant : BOOLEAN, addr : Addrs \cup {0}, pnode : Nodes \cup {0}]]
    /\ socket \in [pc : {"disconnect", "accept", "copy", "service", "release"},
                   copied : SUBSET Nodes]
    /\ message \in [pc : {"copy", "process", "release"}, copied : SUBSET Nodes]

InUse ==
    socket.copied \cup message.copied \cup {opener[t].pnode : t \in {s \in Openers : opener[s].pnode # 0}}

(***************************************************************************)
(* A node that a thread still works with is not deleted: net.cpp, "wait    *)
(* until threads are done using it" (ThreadSocketHandler2).                *)
(***************************************************************************)
NoneFreedInUse == InUse \cap deleted = {}

(***************************************************************************)
(* The count of a node is the number of its users: one for being connected,*)
(* one for each handler whose copy has it, and one for each thread that    *)
(* found it already connected (AddRef, Release).                           *)
(***************************************************************************)
CountIsUsers ==
    \A n \in Made \ deleted :
        nRefCount[n] = node[n].nFound
            + Cardinality({S \in {<<1, vNodes>>, <<2, socket.copied>>,
                                  <<3, message.copied>>} : n \in S[2]})

(***************************************************************************)
(* There are never more outbound connections than slots, counting those    *)
(* whose slot is still with the opening thread (CSemaphoreGrant::MoveTo).  *)
(***************************************************************************)
OutboundLimit ==
    /\ Cardinality({n \in vNodes : ~node[n].fInbound}) <= nMaxOutbound
    /\ sem + Cardinality({n \in Nodes : node[n].grantOutbound})
           + Cardinality({t \in Openers : opener[t].grant}) = nMaxOutbound

(***************************************************************************)
(* A connection that has ended gives its memory and its slot back: net.cpp,*)
(* "hold in disconnected pool until all refs are released".  A node that   *)
(* ConnectNode found has a reference more, which nothing releases.         *)
(***************************************************************************)
EndedAreDeleted ==
    \A n \in Nodes :
        (n \in vNodes /\ node[n].fDisconnect) ~> (n \in deleted \/ node[n].nFound > 0)
============================================================================
