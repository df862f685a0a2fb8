---------------------------- MODULE BlockArrival ----------------------------
(***************************************************************************)
(* How blocks arrive: ProcessBlock and AcceptBlock with the orphan blocks  *)
(* (main.cpp), and the synchronized checkpoints (checkpoints.cpp), which   *)
(* may refuse a block or force the node onto a lighter chain.              *)
(*                                                                         *)
(* Handlers run one at a time under cs_main, but a crash may come between  *)
(* any two of their steps.  What SetBestChain does to the chain is         *)
(* ChainState's subject; here it moves the tip or fails.  A block that     *)
(* fails CheckBlock, or that has too little work for the time since the    *)
(* checkpoint, is dropped like one that never arrived.                     *)
(***************************************************************************)
EXTENDS Integers, Sequences, FiniteSets

CONSTANTS
    Block, Genesis, Prev, Anc, Height,  \* the block tree, as in ChainState
    Trust,          \* nChainTrust
    Stake,          \* the (prevout, time) a block stakes; Nil for proof of work
    Kernel,         \* the block that CheckProofOfStake needs in the best chain
    Contextual,     \* pass AcceptBlock's checks against the previous block
    Connects,       \* pass ConnectBlock on top of the previous block
    Signed,         \* blocks the checkpoint master signs
    Hardened,       \* mapCheckpoints
    Strict,         \* CheckpointsMode = STRICT
    Nil,
    MaxFaults, MaxRestarts      \* bounds on the environment

ASSUME BlockArrivalAssumption ==
    /\ Genesis \in Block /\ Nil \notin Block
    /\ Prev \in [Block -> Block \cup {Nil}]
    /\ Anc \in [Block -> SUBSET Block]
    /\ Height \in [Block -> Nat]
    /\ Trust \in [Block -> Nat]
    /\ Kernel \in [Block -> Block]
    /\ Genesis \in Hardened /\ Hardened \subseteq Block
    /\ \A S \in SUBSET Hardened : S # {} => \E h \in S : \A g \in S : Height[g] <= Height[h]
    /\ Genesis \in Contextual \cap Connects
    /\ Signed \subseteq Block
    /\ Strict \in BOOLEAN
    /\ MaxFaults \in Nat /\ MaxRestarts \in Nat

\* The ancestors of a block are those of the block before it, and itself.
ASSUME TreeAssumption ==
    /\ Anc[Genesis] = {Genesis}
    /\ \A b \in Block : b # Genesis =>
          /\ Prev[b] \in Block
          /\ Anc[b] = Anc[Prev[b]] \cup {b}
          /\ Height[b] = Height[Prev[b]] + 1

VARIABLES
    mapBlockIndex,
    tip,                        \* pindexBest
    mapOrphanBlocks,
    mapOrphanBlocksByPrev,      \* the orphans entered under their previous block
    setStakeSeenOrphan,
    hashSyncCheckpoint,         \* in memory and, after its commit, in the store
    hashPendingCheckpoint,
    asked,                      \* blocks asked of peers
    main,                       \* the handler that holds cs_main
    faults, restarts

orphans == <<mapOrphanBlocks, mapOrphanBlocksByPrev, setStakeSeenOrphan>>
checkpoints == <<hashSyncCheckpoint, hashPendingCheckpoint>>
bounds == <<faults, restarts>>
vars == <<mapBlockIndex, tip, orphans, checkpoints, asked, main, bounds>>

Main == [phase  : {"idle", "accept", "pending", "move", "write", "accepted", "orphans"},
         block  : Block \cup {Nil},     \* in AcceptBlock
         ok     : BOOLEAN,              \* what AcceptBlock returns
         target : Block \cup {Nil},     \* the checkpoint being taken
         queue  : Seq(Block),           \* vWorkQueue from its current entry on
         todo   : SUBSET Block]         \* orphans of that entry still to accept

Idle == [phase |-> "idle", block |-> Nil, ok |-> FALSE, target |-> Nil,
         queue |-> << >>, todo |-> {}]

setStakeSeen == {Stake[b] : b \in mapBlockIndex} \ {Nil}

HasOrphanChild(b) == \E c \in mapOrphanBlocksByPrev : Prev[c] = b

\* The previous block of the first block of the orphan chain that ends in b.
WantedByOrphan(b) ==
    CHOOSE a \in Anc[b] \ (mapOrphanBlocks \cup {b}) :
        \A c \in Anc[b] \ (mapOrphanBlocks \cup {b}) : Height[c] <= Height[a]

WantedByPendingSyncCheckpoint(b) ==
    /\ hashPendingCheckpoint # Nil
    /\ \/ b = hashPendingCheckpoint
       \/ /\ hashPendingCheckpoint \in mapOrphanBlocks
          /\ b = WantedByOrphan(hashPendingCheckpoint)

\* PushGetBlocks: the peer announces what is missing below b, and the node asks
\* for it.
MissingBelow(b) == Anc[b] \ (mapBlockIndex \cup mapOrphanBlocks \cup {b})

\* AskForPendingSyncCheckpoint.
PendingToAsk ==
    {hashPendingCheckpoint} \ (mapBlockIndex \cup mapOrphanBlocks \cup {Nil})

\* A write or a commit that fails.
Fault == faults < MaxFaults /\ faults' = faults + 1

(***************************************************************************)
(* SetBestChain(b): succeeds only if every block it connects is valid.     *)
(***************************************************************************)
BranchConnects(b) == Anc[b] \ Anc[tip] \subseteq Connects

MoveTip(b) ==
    /\ BranchConnects(b)
    /\ tip' = b
    /\ UNCHANGED faults

MoveTipFails(b) ==
    /\ \/ ~BranchConnects(b) /\ UNCHANGED faults
       \/ BranchConnects(b) /\ Fault
    /\ UNCHANGED tip

(***************************************************************************)
(* ProcessBlock.                                                           *)
(***************************************************************************)
NewBlock(b) == b \notin mapBlockIndex \cup mapOrphanBlocks

\* Mutant of StakeAllowed: no exception from the rule.
StakeAllowedOnce(b) == Stake[b] = Nil \/ (Kernel[b] \in Anc[tip] /\ Stake[b] \notin setStakeSeen)

\* A stake is used once, unless an orphan or the checkpoint needs the block;
\* the kernel of a stake must be in the best chain.
StakeAllowed(b) ==
    \/ Stake[b] = Nil
    \/ /\ Kernel[b] \in Anc[tip]
       /\ \/ Stake[b] \notin setStakeSeen
          \/ HasOrphanChild(b)
          \/ WantedByPendingSyncCheckpoint(b)

OrphanStakeAllowed(b) ==
    \/ Stake[b] \notin setStakeSeenOrphan
    \/ HasOrphanChild(b)
    \/ WantedByPendingSyncCheckpoint(b)

\* The previous block is known: on to AcceptBlock.  rest is what peers still
\* have to answer.
ProcessBlock(b, rest) ==
    /\ main = Idle
    /\ NewBlock(b)
    /\ StakeAllowed(b)
    /\ Prev[b] \in mapBlockIndex
    /\ main' = [Idle EXCEPT !.phase = "accept", !.block = b]
    /\ asked' = rest \cup PendingToAsk
    /\ UNCHANGED <<mapBlockIndex, tip, orphans, checkpoints, bounds>>

\* The previous block is not known: hold the block and ask for what is missing.
HoldOrphan(b, rest) ==
    /\ main = Idle
    /\ NewBlock(b)
    /\ StakeAllowed(b)
    /\ Prev[b] \notin mapBlockIndex
    /\ OrphanStakeAllowed(b)
    /\ setStakeSeenOrphan' = setStakeSeenOrphan \cup ({Stake[b]} \ {Nil})
    /\ mapOrphanBlocks' = mapOrphanBlocks \cup {b}
    /\ mapOrphanBlocksByPrev' = mapOrphanBlocksByPrev \cup {b}
    /\ asked' = rest \cup PendingToAsk \cup MissingBelow(b)
    /\ UNCHANGED <<mapBlockIndex, tip, checkpoints, main, bounds>>

\* The block is known or not wanted, or its stake is reserved by another orphan.
DropBlock(b, rest) ==
    /\ main = Idle
    /\ \/ /\ ~NewBlock(b) \/ ~StakeAllowed(b)
          /\ asked' = rest
       \/ /\ NewBlock(b) /\ StakeAllowed(b)
          /\ Prev[b] \notin mapBlockIndex /\ ~OrphanStakeAllowed(b)
          /\ asked' = rest \cup PendingToAsk
    /\ UNCHANGED <<mapBlockIndex, tip, orphans, checkpoints, main, bounds>>

CheckHardened(b) == \A h \in Hardened : Height[h] = Height[b] => h = b

\* Mutant of CheckSync: any higher block passes.
CheckSyncHeight(b) == Height[b] >= Height[hashSyncCheckpoint]

\* Only what comes after the checkpoint and descends from it passes.
CheckSync(b) ==
    /\ Height[b] > Height[hashSyncCheckpoint] => hashSyncCheckpoint \in Anc[b]
    /\ Height[b] = Height[hashSyncCheckpoint] => b = hashSyncCheckpoint
    /\ Height[b] < Height[hashSyncCheckpoint] => b \in mapBlockIndex

AcceptChecks(b) ==
    /\ b \notin mapBlockIndex
    /\ Prev[b] \in mapBlockIndex
    /\ b \in Contextual
    /\ CheckHardened(b)
    /\ Strict => CheckSync(b)

\* A check fails, or the block cannot be written to its file.
RejectBlock ==
    /\ main.phase = "accept"
    /\ \/ ~AcceptChecks(main.block) /\ UNCHANGED faults
       \/ AcceptChecks(main.block) /\ Fault
    /\ main' = [main EXCEPT !.phase = "accepted", !.ok = FALSE]
    /\ UNCHANGED <<mapBlockIndex, tip, orphans, checkpoints, asked, restarts>>

\* The block enters the index for good: a failing commit of its entry or a
\* failing SetBestChain does not take it out again, but AcceptBlock then reports
\* a failure.
AcceptBlock ==
    /\ main.phase = "accept"
    /\ AcceptChecks(main.block)
    /\ mapBlockIndex' = mapBlockIndex \cup {main.block}
    /\ \/ /\ \/ Trust[main.block] <= Trust[tip] /\ UNCHANGED <<tip, faults>>
             \/ Trust[main.block] > Trust[tip] /\ MoveTip(main.block)
          /\ main' = [main EXCEPT !.phase = "pending", !.ok = TRUE]
       \/ /\ \/ Trust[main.block] <= Trust[tip] /\ Fault /\ UNCHANGED tip
             \/ Trust[main.block] > Trust[tip] /\ MoveTipFails(main.block)
          /\ main' = [main EXCEPT !.phase = "accepted", !.ok = FALSE]
    /\ UNCHANGED <<orphans, checkpoints, asked, restarts>>

(***************************************************************************)
(* Checkpoints.                                                            *)
(***************************************************************************)
\* Only a descendant of the current checkpoint is allowed.
ValidateSyncCheckpoint(c) ==
    /\ Height[c] > Height[hashSyncCheckpoint]
    /\ hashSyncCheckpoint \in Anc[c]

\* Mutant of AcceptPendingSyncCheckpoint: not for an orphan.
AcceptPendingSyncCheckpointDirect ==
    /\ main.phase = "pending"
    /\ IF main.queue = << >> /\ hashPendingCheckpoint \in mapBlockIndex
       THEN main' = [main EXCEPT !.phase = "move", !.target = hashPendingCheckpoint]
       ELSE main' = [main EXCEPT !.phase = "accepted"]
    /\ UNCHANGED <<mapBlockIndex, tip, orphans, checkpoints, asked, bounds>>

\* The end of AcceptBlock.
AcceptPendingSyncCheckpoint ==
    /\ main.phase = "pending"
    /\ \/ /\ hashPendingCheckpoint \notin mapBlockIndex
          /\ main' = [main EXCEPT !.phase = "accepted"]
          /\ UNCHANGED hashPendingCheckpoint
       \/ /\ hashPendingCheckpoint \in mapBlockIndex
          /\ ~ValidateSyncCheckpoint(hashPendingCheckpoint)
          /\ hashPendingCheckpoint' = Nil
          /\ main' = [main EXCEPT !.phase = "accepted"]
       \/ /\ hashPendingCheckpoint \in mapBlockIndex
          /\ ValidateSyncCheckpoint(hashPendingCheckpoint)
          /\ main' = [main EXCEPT !.phase = "move", !.target = hashPendingCheckpoint]
          /\ UNCHANGED hashPendingCheckpoint
    /\ UNCHANGED <<mapBlockIndex, tip, orphans, hashSyncCheckpoint, asked, bounds>>

\* The "checkpoint" message, correctly signed.
ProcessSyncCheckpoint(c) ==
    /\ main = Idle
    /\ \/ /\ c \notin mapBlockIndex
          /\ hashPendingCheckpoint' = c
          /\ asked' = asked \cup MissingBelow(c) \cup ({c} \ mapOrphanBlocks)
          /\ UNCHANGED main
       \/ /\ c \in mapBlockIndex
          /\ ValidateSyncCheckpoint(c)
          /\ main' = [Idle EXCEPT !.phase = "move", !.target = c]
          /\ UNCHANGED <<hashPendingCheckpoint, asked>>
    /\ UNCHANGED <<mapBlockIndex, tip, orphans, hashSyncCheckpoint, bounds>>

\* Where the handler goes on when the checkpoint is done with.
AfterCheckpoint ==
    IF main.block = Nil THEN Idle ELSE [main EXCEPT !.phase = "accepted", !.target = Nil]

\* Mutant of MoveToCheckpoint: the outcome of SetBestChain is ignored.
MoveToCheckpointOrNot ==
    /\ main.phase = "move"
    /\ \/ main.target \in Anc[tip] /\ UNCHANGED <<tip, faults>>
       \/ main.target \notin Anc[tip] /\ (MoveTip(main.target) \/ MoveTipFails(main.target))
    /\ main' = [main EXCEPT !.phase = "write"]
    /\ UNCHANGED <<mapBlockIndex, orphans, checkpoints, asked, restarts>>

MoveToCheckpoint ==
    /\ main.phase = "move"
    /\ \/ /\ \/ main.target \in Anc[tip] /\ UNCHANGED <<tip, faults>>
             \/ main.target \notin Anc[tip] /\ MoveTip(main.target)
          /\ main' = [main EXCEPT !.phase = "write"]
       \/ /\ main.target \notin Anc[tip] /\ MoveTipFails(main.target)
          /\ main' = AfterCheckpoint
    /\ UNCHANGED <<mapBlockIndex, orphans, checkpoints, asked, restarts>>

WriteSyncCheckpoint ==
    /\ main.phase = "write"
    /\ \/ /\ hashSyncCheckpoint' = main.target
          /\ hashPendingCheckpoint' = Nil
          /\ UNCHANGED faults
       \/ Fault /\ UNCHANGED checkpoints
    /\ main' = AfterCheckpoint
    /\ UNCHANGED <<mapBlockIndex, tip, orphans, asked, restarts>>

(***************************************************************************)
(* The rest of ProcessBlock: the orphans that waited for the block.        *)
(***************************************************************************)
ChildrenOf(b) == {c \in mapOrphanBlocksByPrev : Prev[c] = b}

\* The block that arrived.
AfterAcceptBlock ==
    /\ main.phase = "accepted"
    /\ main.queue = << >>
    /\ main' = IF main.ok
               THEN [Idle EXCEPT !.phase = "orphans", !.queue = <<main.block>>,
                                 !.todo = ChildrenOf(main.block)]
               ELSE Idle
    /\ UNCHANGED <<mapBlockIndex, tip, orphans, checkpoints, asked, bounds>>

TryOrphan(b) ==
    /\ main.phase = "orphans"
    /\ b \in main.todo
    /\ main' = [main EXCEPT !.phase = "accept", !.block = b, !.todo = @ \ {b}]
    /\ UNCHANGED <<mapBlockIndex, tip, orphans, checkpoints, asked, bounds>>

\* Mutant of AfterOrphan: an orphan that is refused stays in the first map.
AfterOrphanStays ==
    /\ main.phase = "accepted"
    /\ main.queue # << >>
    /\ mapOrphanBlocks' = IF main.ok THEN mapOrphanBlocks \ {main.block} ELSE mapOrphanBlocks
    /\ setStakeSeenOrphan' = setStakeSeenOrphan \ {Stake[main.block]}
    /\ main' = [main EXCEPT !.phase = "orphans", !.block = Nil,
                            !.queue = IF main.ok THEN Append(@, main.block) ELSE @]
    /\ UNCHANGED <<mapBlockIndex, tip, mapOrphanBlocksByPrev, checkpoints, asked, bounds>>

\* Mutant of AfterOrphan: what waits for the orphan is not looked for.
AfterOrphanLast ==
    /\ main.phase = "accepted"
    /\ main.queue # << >>
    /\ mapOrphanBlocks' = mapOrphanBlocks \ {main.block}
    /\ setStakeSeenOrphan' = setStakeSeenOrphan \ {Stake[main.block]}
    /\ main' = [main EXCEPT !.phase = "orphans", !.block = Nil]
    /\ UNCHANGED <<mapBlockIndex, tip, mapOrphanBlocksByPrev, checkpoints, asked, bounds>>

\* An orphan leaves whether or not it was accepted.
AfterOrphan ==
    /\ main.phase = "accepted"
    /\ main.queue # << >>
    /\ mapOrphanBlocks' = mapOrphanBlocks \ {main.block}
    /\ setStakeSeenOrphan' = setStakeSeenOrphan \ {Stake[main.block]}
    /\ main' = [main EXCEPT !.phase = "orphans", !.block = Nil,
                            !.queue = IF main.ok THEN Append(@, main.block) ELSE @]
    /\ UNCHANGED <<mapBlockIndex, tip, mapOrphanBlocksByPrev, checkpoints, asked, bounds>>

NextInQueue ==
    /\ main.phase = "orphans"
    /\ main.todo = {}
    /\ mapOrphanBlocksByPrev' = mapOrphanBlocksByPrev \ ChildrenOf(Head(main.queue))
    /\ main' = IF Len(main.queue) = 1 THEN Idle
               ELSE [main EXCEPT !.queue = Tail(@), !.todo = ChildrenOf(main.queue[2])]
    /\ UNCHANGED <<mapBlockIndex, tip, mapOrphanBlocks, setStakeSeenOrphan, checkpoints,
                   asked, bounds>>

(***************************************************************************)
(* A restart, after a crash at any point, keeps what was committed: the    *)
(* index, the tip (LoadBlockIndex may move it back when it finds a bad     *)
(* block) and the checkpoint.  With a new master key the checkpoint is     *)
(* reset to the last hardened one.                                         *)
(***************************************************************************)
Restarted(t) ==
    /\ restarts < MaxRestarts
    /\ restarts' = restarts + 1
    /\ tip' = t
    /\ mapOrphanBlocks' = {}
    /\ mapOrphanBlocksByPrev' = {}
    /\ setStakeSeenOrphan' = {}
    /\ asked' = {}
    /\ main' = Idle
    /\ UNCHANGED <<mapBlockIndex, faults>>

Restart ==
    /\ \E t \in Anc[tip] : Restarted(t)
    /\ hashPendingCheckpoint' = Nil
    /\ UNCHANGED hashSyncCheckpoint

Highest(S) == CHOOSE h \in S : \A g \in S : Height[g] <= Height[h]

ResetSyncCheckpoint ==
    LET last == Highest(Hardened) IN
    /\ \E t \in Anc[tip] :
          IF last \in mapBlockIndex \ Anc[t]
          THEN Anc[last] \ Anc[t] \subseteq Connects /\ Restarted(last)
          ELSE Restarted(t)
    /\ hashPendingCheckpoint' = IF last \in mapBlockIndex THEN Nil ELSE last
    /\ hashSyncCheckpoint' = Highest(Hardened \cap Anc[tip'])

Init ==
    /\ mapBlockIndex = {Genesis}
    /\ tip = Genesis
    /\ mapOrphanBlocks = {}
    /\ mapOrphanBlocksByPrev = {}
    /\ setStakeSeenOrphan = {}
    /\ hashSyncCheckpoint = Genesis
    /\ hashPendingCheckpoint = IF Hardened = {Genesis} THEN Nil ELSE Highest(Hardened)
    /\ asked = {}
    /\ main = Idle
    /\ faults = 0 /\ restarts = 0

BlockMessage(b, rest) == ProcessBlock(b, rest) \/ HoldOrphan(b, rest) \/ DropBlock(b, rest)

\* A peer answers in the order in which it was asked.
Answer(b) ==
    /\ b \in asked
    /\ asked \cap Anc[b] = {b}
    /\ BlockMessage(b, asked \ {b})

MainStep ==
    \/ RejectBlock \/ AcceptBlock
    \/ AcceptPendingSyncCheckpoint \/ MoveToCheckpoint \/ WriteSyncCheckpoint
    \/ AfterAcceptBlock \/ (\E b \in Block : TryOrphan(b)) \/ AfterOrphan \/ NextInQueue

Next ==
    \/ \E b \in Block \ {Genesis} : BlockMessage(b, asked) \/ Answer(b)
    \/ \E c \in Signed : ProcessSyncCheckpoint(c)
    \/ MainStep
    \/ Restart \/ ResetSyncCheckpoint

Spec == Init /\ [][Next]_vars

\* A handler goes on to its end, and a peer answers what it is asked for.
FairSpec == Spec /\ WF_vars(MainStep) /\ \A b \in Block : SF_vars(Answer(b))

-----------------------------------------------------------------------------
(***************************************************************************)
(* Properties.                                                             *)
(***************************************************************************)
\* Every variable has its type (main.cpp, checkpoints.cpp).
TypeOK ==
    /\ mapBlockIndex \subseteq Block /\ Genesis \in mapBlockIndex
    /\ tip \in mapBlockIndex
    /\ mapOrphanBlocks \subseteq Block \ {Genesis}
    /\ mapOrphanBlocksByPrev \subseteq Block \ {Genesis}
    /\ setStakeSeenOrphan \subseteq {Stake[b] : b \in Block} \ {Nil}
    /\ hashSyncCheckpoint \in mapBlockIndex
    /\ hashPendingCheckpoint \in Block \cup {Nil}
    /\ asked \subseteq Block
    /\ main \in Main
    /\ faults \in 0 .. MaxFaults /\ restarts \in 0 .. MaxRestarts

\* In STRICT mode the best chain and the synchronized checkpoint never part: the
\* one contains the other and the checkpoint is in the index, also when a
\* checkpoint forces the node onto a lighter chain, when a step of that fails,
\* and when the tip was moved back at a start.
CheckpointHolds ==
    /\ hashSyncCheckpoint \in mapBlockIndex
    /\ Strict => hashSyncCheckpoint \in Anc[tip] \/ tip \in Anc[hashSyncCheckpoint]

\* No heavier chain takes the node off a checkpoint it has reached, and a later
\* checkpoint does not undo an earlier one, whatever the order in which blocks
\* and checkpoint messages arrive; only a start may move back.
CheckpointIsFinal ==
    [][Strict /\ hashSyncCheckpoint \in Anc[tip] /\ restarts' = restarts =>
          hashSyncCheckpoint \in Anc[tip'] /\ hashSyncCheckpoint \in Anc[hashSyncCheckpoint']]_vars

\* When no handler is at work, the two maps of orphan blocks hold the same
\* blocks (they share the pointers that ProcessBlock frees), none of them is in
\* the index, and no stake is reserved that no orphan uses.
OrphanMapsAgree ==
    main = Idle =>
        /\ mapOrphanBlocks = mapOrphanBlocksByPrev
        /\ mapOrphanBlocks \cap mapBlockIndex = {}
        /\ setStakeSeenOrphan \subseteq {Stake[b] : b \in mapOrphanBlocks}

\* An orphan is held only until its previous block is there, unless that block
\* is on a chain that does not connect (ProcessBlock, vWorkQueue).
OrphansWait ==
    main = Idle /\ faults = 0 =>
        \A b \in mapOrphanBlocks :
            Prev[b] \in mapBlockIndex => ~(Anc[Prev[b]] \subseteq Connects)

\* The same for every previous block.
OrphansOnlyWait ==
    main = Idle => \A b \in mapOrphanBlocks : Prev[b] \notin mapBlockIndex

\* A checkpoint that had to wait for its block is taken, or refused, in the
\* handler that brings the block (AcceptPendingSyncCheckpoint).
PendingIsSettled ==
    main = Idle /\ faults = 0 /\ hashPendingCheckpoint \in mapBlockIndex =>
        ~(Anc[hashPendingCheckpoint] \subseteq Connects)

\* A checkpoint whose block is not there is kept as pending until the block, or
\* another checkpoint to wait for, is there.
PendingIsKept ==
    [][/\ hashPendingCheckpoint # Nil
       /\ hashPendingCheckpoint \notin mapBlockIndex
       /\ restarts' = restarts
       => hashPendingCheckpoint' # Nil]_vars

\* An orphan on a chain that connects and keeps to the checkpoint is not held
\* for ever, although the duplicate-stake rule may have refused its ancestor
\* before: the node asks for it again (WantedByOrphan).  A failed write or a
\* restart may leave it waiting.
OrphansLeave ==
    \A b \in Block :
        b \in mapOrphanBlocks ~>
            \/ b \notin mapOrphanBlocks
            \/ faults > 0 \/ restarts > 0
            \/ ~(Anc[b] \subseteq Contextual \cap Connects)
            \/ Strict /\ hashSyncCheckpoint \notin Anc[b]
=============================================================================
