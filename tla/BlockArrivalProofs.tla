------------------------ MODULE BlockArrivalProofs ------------------------
(***************************************************************************)
(* Synchronized checkpoints and orphan blocks, for every block tree, every *)
(* order of messages and a crash or a failing write at any step.           *)
(***************************************************************************)
EXTENDS BlockArrival, SequenceTheorems, WellFoundedInduction, TLAPS

(***************************************************************************)
(* The inductive invariant.                                                *)
(***************************************************************************)
\* What the phases of a handler say of its other fields.
PhaseOK ==
    /\ main.phase \in {"accept", "pending", "accepted"} => main.block \in Block \ {Genesis}
    /\ main.phase = "idle" => main = Idle
    /\ main.phase = "orphans" => main.block = Nil /\ main.queue # << >>
    /\ main.block = Nil => main.phase = "orphans" \/ main.queue = << >>
    /\ main.block # Genesis

\* A checkpoint being taken descends from the current one; when it is written,
\* the tip is there.
TargetOK ==
    /\ main.phase \in {"move", "write"} =>
          /\ main.target \in mapBlockIndex
          /\ hashSyncCheckpoint \in Anc[main.target]
    /\ main.phase = "write" => main.target \in Anc[tip]

\* The orphans of the current entry of vWorkQueue that are not freed yet.
Current == main.todo \cup ({main.block} \ {Nil})

\* Entries of mapOrphanBlocksByPrev that point to freed blocks are under the
\* current entry of vWorkQueue, and the loop has left them behind.
LoopOK ==
    /\ mapOrphanBlocks \subseteq mapOrphanBlocksByPrev
    /\ main.queue = << >> => mapOrphanBlocksByPrev \subseteq mapOrphanBlocks /\ main.todo = {}
    /\ main.queue # << >> =>
          /\ \A c \in mapOrphanBlocksByPrev :
                Prev[c] # Head(main.queue) => c \in mapOrphanBlocks
          /\ \A c \in mapOrphanBlocks : Prev[c] = Head(main.queue) <=> c \in Current
          /\ Current \subseteq mapOrphanBlocks
          /\ main.block \notin main.todo

\* The index holds the ancestors of its blocks.
IndexClosed == \A b \in mapBlockIndex : Anc[b] \subseteq mapBlockIndex

\* Only the orphan in AcceptBlock may be in the index already.
IndexOK ==
    /\ mapOrphanBlocks \cap mapBlockIndex \subseteq
          (IF main.queue = << >> THEN {} ELSE {main.block})
    /\ main.queue = << >> => main.block \notin mapOrphanBlocks

\* vWorkQueue holds every block once, blocks of the index only, and never the
\* orphan in AcceptBlock; a block that AcceptBlock reports is in the index.
QueueOK ==
    /\ \A i \in 1 .. Len(main.queue) :
          /\ main.queue[i] \in mapBlockIndex
          /\ main.queue[i] # main.block
          /\ \A j \in 1 .. Len(main.queue) : main.queue[i] = main.queue[j] => i = j
    /\ main.ok /\ main.block # Nil /\ main.phase # "accept" => main.block \in mapBlockIndex

StakeOK == setStakeSeenOrphan \subseteq {Stake[b] : b \in mapOrphanBlocks}

IInv ==
    /\ TypeOK
    /\ PhaseOK
    /\ TargetOK
    /\ CheckpointHolds
    /\ LoopOK
    /\ IndexOK
    /\ StakeOK
    /\ IndexClosed
    /\ QueueOK

-----------------------------------------------------------------------------
(***************************************************************************)
(* The block tree.                                                         *)
(***************************************************************************)
\* A set of natural numbers that is not empty has a least element.
LEMMA LeastNatural ==
  ASSUME NEW T \in SUBSET Nat, T # {}
  PROVE  \E m \in T : \A k \in T : m <= k
<1>1. PICK R : IsWellFoundedOn(R, Nat) /\ \A x, y \in Nat : x < y => <<x, y>> \in R
  <2> DEFINE R == OpToRel(<, Nat)
  <2>1. IsWellFoundedOn(R, Nat) BY NatLessThanWellFounded
  <2>2. \A x, y \in Nat : x < y => <<x, y>> \in R BY DEF OpToRel
  <2> HIDE DEF R
  <2> QED BY <2>1, <2>2
<1>2. \E m \in T : \A y \in T : ~ (<<y, m>> \in R)
  <2>1. IsWellFoundedOn(R, Nat) /\ T \subseteq Nat /\ T # {} BY <1>1
  <2> QED BY <2>1, WFMin
<1>3. PICK m \in T : \A y \in T : ~ (<<y, m>> \in R) BY <1>2
<1>4. \A y \in T : ~(y < m) BY <1>1, <1>3
<1> QED BY <1>4

\* The ancestors of a block are a chain from the genesis block, one of each height.
Lineage(b) ==
    /\ b \in Anc[b] /\ Genesis \in Anc[b]
    /\ \A a \in Anc[b] :
          /\ Height[a] <= Height[b]
          /\ Anc[a] = {c \in Anc[b] : Height[c] <= Height[a]}
          /\ \A c \in Anc[b] : Height[c] = Height[a] => c = a

\* The lowest block of which that is not so would be one above its previous block.
LEMMA Lineages ==
  \A b \in Block : Lineage(b)
<1> DEFINE Bad == {b \in Block : ~Lineage(b)}
<1>1. SUFFICES ASSUME Bad # {} PROVE FALSE
  OBVIOUS
<1>2. PICK b \in Bad : \A c \in Bad : Height[b] <= Height[c]
  <2> DEFINE T == {Height[c] : c \in Bad}
  <2>1. T \in SUBSET Nat /\ T # {} BY <1>1, BlockArrivalAssumption
  <2>2. PICK m \in T : \A k \in T : m <= k
    <3> HIDE DEF T
    <3> QED BY <2>1, LeastNatural
  <2> QED BY <2>2
<1>3. Lineage(Genesis)
  <2>1. Height[Genesis] \in Nat BY BlockArrivalAssumption
  <2> QED BY <2>1, TreeAssumption DEF Lineage
<1>4. b \in Block /\ b # Genesis BY <1>3
<1> DEFINE p == Prev[b]
<1>5. /\ p \in Block /\ Anc[b] = Anc[p] \cup {b} /\ Height[b] = Height[p] + 1
      /\ Height[p] \in Nat /\ Anc[p] \subseteq Block /\ Height[b] \in Nat
  <2>1. p \in Block /\ Anc[b] = Anc[p] \cup {b} /\ Height[b] = Height[p] + 1
    BY <1>4, TreeAssumption
  <2> HIDE DEF p
  <2> QED BY <2>1, <1>4, BlockArrivalAssumption
<1> HIDE DEF p
<1>6. Lineage(p)
  <2>1. ~(Height[b] <= Height[p]) BY <1>5
  <2> QED BY <1>2, <1>5, <2>1
<1>7. \A a \in Anc[p] : Height[a] \in Nat /\ Height[a] < Height[b]
  <2> TAKE a \in Anc[p]
  <2>1. Height[a] \in Nat /\ Height[a] <= Height[p] BY <1>5, <1>6, BlockArrivalAssumption DEF Lineage
  <2> QED BY <1>5, <2>1
<1>8. b \in Anc[b] /\ Genesis \in Anc[b] BY <1>5, <1>6 DEF Lineage
<1>9. ASSUME NEW a \in Anc[b]
      PROVE  /\ Height[a] <= Height[b]
             /\ Anc[a] = {c \in Anc[b] : Height[c] <= Height[a]}
             /\ \A c \in Anc[b] : Height[c] = Height[a] => c = a
  <2>1. CASE a = b BY <1>5, <1>7, <2>1
  <2>2. CASE a \in Anc[p]
    <3>1. Anc[a] = {c \in Anc[p] : Height[c] <= Height[a]} BY <1>6, <2>2 DEF Lineage
    <3>2. \A c \in Anc[p] : Height[c] = Height[a] => c = a BY <1>6, <2>2 DEF Lineage
    <3>3. Height[a] \in Nat /\ Height[a] < Height[b] BY <1>7, <2>2
    <3>4. ~(Height[b] <= Height[a]) /\ Height[b] # Height[a] BY <1>5, <3>3
    <3> QED BY <1>5, <3>1, <3>2, <3>3, <3>4
  <2> QED BY <1>5, <2>1, <2>2
<1>10. Lineage(b) BY <1>8, <1>9 DEF Lineage
<1> QED BY <1>10

\* What the proofs use of the tree.
LEMMA Tree ==
    /\ Anc[Genesis] = {Genesis}
    /\ \A b \in Block : b # Genesis =>
          /\ Prev[b] \in Block
          /\ Anc[b] = Anc[Prev[b]] \cup {b}
          /\ Height[b] = Height[Prev[b]] + 1
    /\ \A b \in Block : b \in Anc[b] /\ Genesis \in Anc[b]
    /\ \A b \in Block : \A a \in Anc[b] :
          /\ Anc[a] = {c \in Anc[b] : Height[c] <= Height[a]}
          /\ \A c \in Anc[b] : Height[c] = Height[a] => c = a
<1>1. \A b \in Block : b \in Anc[b] /\ Genesis \in Anc[b]
  BY Lineages DEF Lineage
<1>2. \A b \in Block : \A a \in Anc[b] :
        /\ Anc[a] = {c \in Anc[b] : Height[c] <= Height[a]}
        /\ \A c \in Anc[b] : Height[c] = Height[a] => c = a
  BY Lineages DEF Lineage
<1> QED BY <1>1, <1>2, TreeAssumption

\* Ancestors of ancestors are ancestors.
LEMMA AncTransitive ==
  ASSUME NEW a \in Block, NEW b \in Block, a \in Anc[b]
  PROVE  Anc[a] \subseteq Anc[b]
  BY Tree

\* Of two ancestors of a block one is an ancestor of the other.
LEMMA AncComparable ==
  ASSUME NEW a \in Block, NEW b \in Block, NEW c \in Block, a \in Anc[b], c \in Anc[b]
  PROVE  a \in Anc[c] \/ c \in Anc[a]
<1>1. Height[a] \in Nat /\ Height[c] \in Nat
  BY BlockArrivalAssumption
<1>2. CASE Height[a] <= Height[c]
  BY <1>2, Tree
<1>3. CASE Height[c] <= Height[a]
  BY <1>3, Tree
<1> QED BY <1>1, <1>2, <1>3

\* A non-empty set of hardened checkpoints has a highest one.
LEMMA HighestIn ==
  ASSUME NEW S \in SUBSET Hardened, S # {}
  PROVE  Highest(S) \in S
  BY BlockArrivalAssumption DEF Highest

\* The rest state.
LEMMA IdleType == Idle \in Main
  BY DEF Idle, Main

\* What the rest state says of the fields.
LEMMA IdleFields ==
  /\ Idle.phase = "idle" /\ Idle.block = Nil /\ Idle.target = Nil
  /\ Idle.queue = << >> /\ Idle.todo = {} /\ ~Idle.ok
  BY DEF Idle

-----------------------------------------------------------------------------
(***************************************************************************)
(* Initial states.                                                         *)
(***************************************************************************)
\* The initial state.
LEMMA InitIInv == Init => IInv
<1> SUFFICES ASSUME Init PROVE IInv
  OBVIOUS
<1> USE BlockArrivalAssumption
<1>1. hashPendingCheckpoint \in Block \cup {Nil}
  <2>1. Hardened # {} /\ Hardened \in SUBSET Hardened
    OBVIOUS
  <2>2. Highest(Hardened) \in Block
    BY <2>1, HighestIn
  <2> QED BY <2>2 DEF Init
<1>2. TypeOK
  BY <1>1, IdleType DEF Init, TypeOK
<1>9. IndexClosed
  BY Tree DEF Init, IndexClosed
<1>3. PhaseOK /\ TargetOK /\ LoopOK /\ IndexOK /\ StakeOK /\ QueueOK
  BY IdleFields DEF Init, PhaseOK, TargetOK, LoopOK, IndexOK, StakeOK, QueueOK
<1>4. CheckpointHolds
  BY Tree DEF Init, CheckpointHolds
<1> QED BY <1>9, <1>2, <1>3, <1>4 DEF IInv

-----------------------------------------------------------------------------
(***************************************************************************)
(* The steps, each with what it changes.                                   *)
(***************************************************************************)
\* A handler takes a block whose previous block is known.
LEMMA ProcessBlockStep ==
  ASSUME IInv, NEW b \in Block \ {Genesis}, NEW rest \in SUBSET Block, ProcessBlock(b, rest)
  PROVE  IInv'
<1> USE DEF orphans, checkpoints, bounds
<1>0. TypeOK /\ PhaseOK /\ TargetOK /\ CheckpointHolds /\ LoopOK /\ IndexOK /\ StakeOK /\ IndexClosed /\ QueueOK
  BY DEF IInv
<1>1. /\ main = Idle
      /\ main' = [Idle EXCEPT !.phase = "accept", !.block = b]
      /\ b \notin mapBlockIndex \cup mapOrphanBlocks
      /\ UNCHANGED <<mapBlockIndex, tip, mapOrphanBlocks, mapOrphanBlocksByPrev,
                     setStakeSeenOrphan, hashSyncCheckpoint, hashPendingCheckpoint,
                     faults, restarts>>
  BY DEF ProcessBlock, NewBlock
<1>9. IndexClosed'
  BY <1>1 DEF IInv, IndexClosed
<1>2. /\ main'.phase = "accept" /\ main'.block = b /\ main'.queue = << >> /\ main'.todo = {}
      /\ main' \in Main
  BY <1>1, IdleType, IdleFields DEF Main
<1>3. asked' \subseteq Block
  BY <1>0 DEF ProcessBlock, PendingToAsk, TypeOK
<1>4. TypeOK'
  BY <1>0, <1>1, <1>2, <1>3 DEF TypeOK
<1>5. PhaseOK' /\ TargetOK'
  BY <1>2, BlockArrivalAssumption DEF PhaseOK, TargetOK
<1>6. CheckpointHolds' /\ StakeOK'
  BY <1>0, <1>1 DEF CheckpointHolds, StakeOK
<1>7. LoopOK' /\ IndexOK' /\ QueueOK'
  BY <1>0, <1>1, <1>2, IdleFields DEF LoopOK, IndexOK, QueueOK
<1> QED BY <1>9, <1>4, <1>5, <1>6, <1>7 DEF IInv

\* A handler holds an orphan.
LEMMA HoldOrphanStep ==
  ASSUME IInv, NEW b \in Block \ {Genesis}, NEW rest \in SUBSET Block, HoldOrphan(b, rest)
  PROVE  IInv'
<1> USE DEF orphans, checkpoints, bounds
<1>0. TypeOK /\ PhaseOK /\ TargetOK /\ CheckpointHolds /\ LoopOK /\ IndexOK /\ StakeOK /\ IndexClosed /\ QueueOK
  BY DEF IInv
<1>1. /\ main = Idle
      /\ b \notin mapBlockIndex \cup mapOrphanBlocks
      /\ setStakeSeenOrphan' = setStakeSeenOrphan \cup ({Stake[b]} \ {Nil})
      /\ mapOrphanBlocks' = mapOrphanBlocks \cup {b}
      /\ mapOrphanBlocksByPrev' = mapOrphanBlocksByPrev \cup {b}
      /\ UNCHANGED <<mapBlockIndex, tip, hashSyncCheckpoint, hashPendingCheckpoint, main,
                     faults, restarts>>
  BY DEF HoldOrphan, NewBlock
<1>9. IndexClosed'
  BY <1>1 DEF IInv, IndexClosed
<1>3. asked' \subseteq Block
  BY <1>0, BlockArrivalAssumption DEF HoldOrphan, PendingToAsk, MissingBelow, TypeOK
<1>4. TypeOK'
  BY <1>0, <1>1, <1>3 DEF TypeOK
<1>5. PhaseOK' /\ TargetOK'
  BY <1>0, <1>1 DEF PhaseOK, TargetOK
<1>6. CheckpointHolds' /\ StakeOK'
  BY <1>0, <1>1 DEF CheckpointHolds, StakeOK
<1>7. LoopOK' /\ IndexOK' /\ QueueOK'
  BY <1>0, <1>1, IdleFields, BlockArrivalAssumption DEF LoopOK, IndexOK, QueueOK
<1> QED BY <1>9, <1>4, <1>5, <1>6, <1>7 DEF IInv

\* A step that leaves everything but asked alone.
LEMMA AskedStep ==
  ASSUME IInv, asked' \subseteq Block,
         UNCHANGED <<mapBlockIndex, tip, orphans, checkpoints, main, bounds>>
  PROVE  IInv'
  BY DEF IInv, TypeOK, PhaseOK, TargetOK, CheckpointHolds, LoopOK, Current, IndexOK, StakeOK,
         IndexClosed, QueueOK, orphans, checkpoints, bounds

\* A step of the handler that leaves the orphans and its place in the loop alone.
KeepsPlace ==
    /\ main' \in Main
    /\ UNCHANGED <<mapOrphanBlocks, mapOrphanBlocksByPrev, setStakeSeenOrphan>>
    /\ main'.block = main.block /\ main'.queue = main.queue /\ main'.todo = main.todo
    /\ main'.ok /\ main.block # Nil /\ main'.phase # "accept" => main.block \in mapBlockIndex'

\* Such a step keeps what is said of the orphans.
LEMMA PlaceKept ==
  ASSUME IInv, KeepsPlace, mapBlockIndex \subseteq mapBlockIndex',
         mapBlockIndex' \subseteq mapBlockIndex \cup ({main.block} \ {Nil})
  PROVE  LoopOK' /\ IndexOK' /\ StakeOK' /\ QueueOK'
<1>0. LoopOK /\ IndexOK /\ StakeOK /\ QueueOK
  BY DEF IInv
<1>1. LoopOK' /\ StakeOK'
  BY <1>0 DEF KeepsPlace, LoopOK, Current, StakeOK
<1>2. IndexOK'
  BY <1>0 DEF KeepsPlace, IndexOK
<1>3. QueueOK'
  BY <1>0 DEF KeepsPlace, QueueOK
<1> QED BY <1>1, <1>2, <1>3

\* AcceptBlock refuses.
LEMMA RejectBlockStep ==
  ASSUME IInv, RejectBlock
  PROVE  IInv'
<1> USE DEF orphans, checkpoints, bounds
<1>0. TypeOK /\ PhaseOK /\ CheckpointHolds
  BY DEF IInv
<1>1. /\ main' = [main EXCEPT !.phase = "accepted", !.ok = FALSE] /\ main.phase = "accept"
      /\ UNCHANGED <<mapBlockIndex, tip, mapOrphanBlocks, mapOrphanBlocksByPrev, asked,
                     setStakeSeenOrphan, hashSyncCheckpoint, hashPendingCheckpoint, restarts>>
  BY DEF RejectBlock
<1>5. faults' \in 0 .. MaxFaults
  BY <1>0, BlockArrivalAssumption DEF RejectBlock, Fault, TypeOK
<1>9. IndexClosed'
  BY <1>1 DEF IInv, IndexClosed
<1>2. KeepsPlace /\ main'.phase = "accepted"
  BY <1>0, <1>1 DEF KeepsPlace, TypeOK, Main
<1>3. LoopOK' /\ IndexOK' /\ StakeOK' /\ QueueOK'
  BY <1>1, <1>2, PlaceKept
<1>4. TypeOK' /\ PhaseOK' /\ TargetOK' /\ CheckpointHolds'
  BY <1>0, <1>1, <1>2, <1>5, BlockArrivalAssumption
  DEF TypeOK, PhaseOK, TargetOK, CheckpointHolds, KeepsPlace
<1> QED BY <1>9, <1>3, <1>4 DEF IInv

\* A block that AcceptBlock takes in STRICT mode descends from the checkpoint.
LEMMA AcceptedDescends ==
  ASSUME TypeOK, Strict, NEW b \in Block, AcceptChecks(b)
  PROVE  hashSyncCheckpoint \in Anc[b]
<1>1. b \notin mapBlockIndex /\ hashSyncCheckpoint \in mapBlockIndex /\ CheckSync(b)
  BY DEF AcceptChecks, TypeOK
<1>2. Height[b] \in Nat /\ Height[hashSyncCheckpoint] \in Nat
  BY BlockArrivalAssumption DEF TypeOK
<1> QED BY <1>1, <1>2 DEF CheckSync

\* AcceptBlock takes a block.
LEMMA AcceptBlockStep ==
  ASSUME IInv, AcceptBlock
  PROVE  IInv'
<1> USE DEF orphans, checkpoints
<1>0. TypeOK /\ PhaseOK /\ CheckpointHolds
  BY DEF IInv
<1>1. /\ main.phase = "accept" /\ AcceptChecks(main.block)
      /\ mapBlockIndex' = mapBlockIndex \cup {main.block}
      /\ \/ main' = [main EXCEPT !.phase = "pending", !.ok = TRUE]
         \/ main' = [main EXCEPT !.phase = "accepted", !.ok = FALSE]
      /\ tip' = tip \/ tip' = main.block
      /\ UNCHANGED <<mapOrphanBlocks, mapOrphanBlocksByPrev, asked, setStakeSeenOrphan,
                     hashSyncCheckpoint, hashPendingCheckpoint, restarts>>
  BY DEF AcceptBlock, MoveTip, MoveTipFails, Fault
<1>2. main.block \in Block \ {Genesis} /\ main \in Main
  BY <1>0, <1>1 DEF PhaseOK, TypeOK
<1>9. IndexClosed'
  BY <1>0, <1>1, <1>2, Tree DEF IInv, IndexClosed, AcceptChecks
<1>3. KeepsPlace /\ main'.phase \in {"pending", "accepted"}
  BY <1>1, <1>2 DEF KeepsPlace, Main
<1>4. LoopOK' /\ IndexOK' /\ StakeOK' /\ QueueOK'
  BY <1>1, <1>2, <1>3, PlaceKept, BlockArrivalAssumption
<1>5. faults' \in 0 .. MaxFaults
  BY <1>0, BlockArrivalAssumption DEF AcceptBlock, MoveTip, MoveTipFails, Fault, TypeOK
<1>6. TypeOK'
  BY <1>0, <1>1, <1>2, <1>3, <1>5 DEF TypeOK, KeepsPlace
<1>7. PhaseOK' /\ TargetOK'
  BY <1>2, <1>3, BlockArrivalAssumption DEF PhaseOK, TargetOK, KeepsPlace
<1>8. CheckpointHolds'
  BY <1>0, <1>1, <1>2, AcceptedDescends DEF CheckpointHolds
<1> QED BY <1>9, <1>4, <1>6, <1>7, <1>8 DEF IInv

\* The pending checkpoint after AcceptBlock.
LEMMA AcceptPendingStep ==
  ASSUME IInv, AcceptPendingSyncCheckpoint
  PROVE  IInv'
<1> USE DEF orphans, bounds
<1>0. TypeOK /\ PhaseOK /\ CheckpointHolds /\ QueueOK
  BY DEF IInv
<1>1. /\ main.phase = "pending" /\ main \in Main
      /\ UNCHANGED <<mapBlockIndex, tip, mapOrphanBlocks, mapOrphanBlocksByPrev, asked,
                     setStakeSeenOrphan, hashSyncCheckpoint, faults, restarts>>
  BY <1>0 DEF AcceptPendingSyncCheckpoint, TypeOK
<1>9. IndexClosed'
  BY <1>1 DEF IInv, IndexClosed
<1>2. CASE main' = [main EXCEPT !.phase = "accepted"] /\ hashPendingCheckpoint' \in Block \cup {Nil}
  <2>1. KeepsPlace /\ main'.phase = "accepted"
    BY <1>0, <1>1, <1>2 DEF KeepsPlace, Main, QueueOK
  <2>2. LoopOK' /\ IndexOK' /\ StakeOK' /\ QueueOK'
    BY <1>1, <2>1, PlaceKept
  <2>3. TypeOK' /\ PhaseOK' /\ TargetOK' /\ CheckpointHolds'
    BY <1>0, <1>1, <1>2, <2>1, BlockArrivalAssumption
    DEF TypeOK, PhaseOK, TargetOK, CheckpointHolds, KeepsPlace
  <2> QED BY <1>9, <2>2, <2>3 DEF IInv
<1>3. CASE /\ hashPendingCheckpoint \in mapBlockIndex
           /\ ValidateSyncCheckpoint(hashPendingCheckpoint)
           /\ main' = [main EXCEPT !.phase = "move", !.target = hashPendingCheckpoint]
           /\ hashPendingCheckpoint' = hashPendingCheckpoint
  <2>0. hashPendingCheckpoint \in Block
    BY <1>0, <1>3 DEF TypeOK
  <2>1. KeepsPlace /\ main'.phase = "move" /\ main'.target = hashPendingCheckpoint
    BY <1>0, <1>1, <1>3, <2>0 DEF KeepsPlace, Main, QueueOK
  <2>2. LoopOK' /\ IndexOK' /\ StakeOK' /\ QueueOK'
    BY <1>1, <2>1, PlaceKept
  <2>3. TypeOK' /\ PhaseOK' /\ CheckpointHolds'
    BY <1>0, <1>1, <1>3, <2>1, BlockArrivalAssumption
    DEF TypeOK, PhaseOK, CheckpointHolds, KeepsPlace
  <2>4. TargetOK'
    BY <1>1, <1>3, <2>1 DEF TargetOK, ValidateSyncCheckpoint
  <2> QED BY <1>9, <2>2, <2>3, <2>4 DEF IInv
<1>4. hashPendingCheckpoint' \in Block \cup {Nil}
  BY <1>0 DEF AcceptPendingSyncCheckpoint, TypeOK
<1> QED BY <1>2, <1>3, <1>4 DEF AcceptPendingSyncCheckpoint

\* The checkpoint message.
LEMMA ProcessSyncCheckpointStep ==
  ASSUME IInv, NEW c \in Block, ProcessSyncCheckpoint(c)
  PROVE  IInv'
<1> USE DEF orphans, bounds
<1>0. TypeOK /\ PhaseOK /\ CheckpointHolds
  BY DEF IInv
<1>1. /\ main = Idle
      /\ UNCHANGED <<mapBlockIndex, tip, mapOrphanBlocks, mapOrphanBlocksByPrev,
                     setStakeSeenOrphan, hashSyncCheckpoint, faults, restarts>>
  BY DEF ProcessSyncCheckpoint
<1>9. IndexClosed'
  BY <1>1 DEF IInv, IndexClosed
<1>2. CASE /\ hashPendingCheckpoint' = c
           /\ asked' = asked \cup MissingBelow(c) \cup ({c} \ mapOrphanBlocks)
           /\ UNCHANGED main
  <2>1. asked' \subseteq Block
    BY <1>0, <1>2, BlockArrivalAssumption DEF MissingBelow, TypeOK
  <2>2. TypeOK' /\ PhaseOK' /\ TargetOK' /\ CheckpointHolds'
    BY <1>0, <1>1, <1>2, <2>1, IdleFields
    DEF TypeOK, PhaseOK, TargetOK, CheckpointHolds
  <2>3. LoopOK' /\ IndexOK' /\ StakeOK' /\ QueueOK'
    BY <1>1, <1>2 DEF IInv, LoopOK, Current, IndexOK, StakeOK, QueueOK
  <2> QED BY <1>9, <2>2, <2>3 DEF IInv
<1>3. CASE /\ c \in mapBlockIndex /\ ValidateSyncCheckpoint(c)
           /\ main' = [Idle EXCEPT !.phase = "move", !.target = c]
           /\ UNCHANGED <<hashPendingCheckpoint, asked>>
  <2>1. KeepsPlace /\ main'.phase = "move" /\ main'.target = c
    BY <1>1, <1>3, IdleType, IdleFields DEF KeepsPlace, Main
  <2>2. LoopOK' /\ IndexOK' /\ StakeOK' /\ QueueOK'
    BY <1>1, <2>1, PlaceKept
  <2>3. TypeOK' /\ PhaseOK' /\ CheckpointHolds'
    BY <1>0, <1>1, <1>3, <2>1, IdleFields, BlockArrivalAssumption
    DEF TypeOK, PhaseOK, CheckpointHolds, KeepsPlace
  <2>4. TargetOK'
    BY <1>1, <1>3, <2>1 DEF TargetOK, ValidateSyncCheckpoint
  <2> QED BY <1>9, <2>2, <2>3, <2>4 DEF IInv
<1> QED BY <1>2, <1>3 DEF ProcessSyncCheckpoint

\* Where a handler goes on after a checkpoint.
LEMMA AfterCheckpointFacts ==
  ASSUME IInv, main.phase \in {"move", "write"}, main' = AfterCheckpoint,
         UNCHANGED <<mapBlockIndex, mapOrphanBlocks, mapOrphanBlocksByPrev, setStakeSeenOrphan>>
  PROVE  KeepsPlace /\ PhaseOK' /\ TargetOK'
<1>0. main \in Main /\ PhaseOK /\ LoopOK /\ QueueOK
  BY DEF IInv, TypeOK
<1>1. CASE main.block = Nil
  <2>1. main' = Idle /\ main.queue = << >> /\ main.todo = {}
    BY <1>0, <1>1 DEF AfterCheckpoint, PhaseOK, LoopOK
  <2> QED BY <1>1, <2>1, IdleType, IdleFields, BlockArrivalAssumption
          DEF KeepsPlace, PhaseOK, TargetOK
<1>2. CASE main.block # Nil
  <2>1. main' = [main EXCEPT !.phase = "accepted", !.target = Nil]
    BY <1>2 DEF AfterCheckpoint
  <2>2. KeepsPlace /\ main'.phase = "accepted"
    BY <1>0, <2>1 DEF KeepsPlace, Main, QueueOK
  <2>3. main.block \in Block \ {Genesis}
    BY <1>0, <1>2 DEF PhaseOK, Main
  <2> QED BY <1>2, <2>2, <2>3, BlockArrivalAssumption DEF KeepsPlace, PhaseOK, TargetOK
<1> QED BY <1>1, <1>2

\* SetBestChain to a checkpoint.
LEMMA MoveToCheckpointStep ==
  ASSUME IInv, MoveToCheckpoint
  PROVE  IInv'
<1> USE DEF orphans, checkpoints
<1>0. TypeOK /\ PhaseOK /\ TargetOK /\ CheckpointHolds /\ QueueOK
  BY DEF IInv
<1>1. /\ main.phase = "move" /\ main \in Main
      /\ main.target \in mapBlockIndex /\ hashSyncCheckpoint \in Anc[main.target]
      /\ tip' \in mapBlockIndex /\ (tip' = tip \/ tip' = main.target)
      /\ UNCHANGED <<mapBlockIndex, mapOrphanBlocks, mapOrphanBlocksByPrev, asked,
                     setStakeSeenOrphan, hashSyncCheckpoint, hashPendingCheckpoint, restarts>>
  BY <1>0 DEF MoveToCheckpoint, MoveTip, MoveTipFails, Fault, TypeOK, TargetOK
<1>9. IndexClosed'
  BY <1>1 DEF IInv, IndexClosed
<1>2. faults' \in 0 .. MaxFaults
  BY <1>0, BlockArrivalAssumption DEF MoveToCheckpoint, MoveTip, MoveTipFails, Fault, TypeOK
<1>3. CheckpointHolds'
  BY <1>0, <1>1 DEF CheckpointHolds
<1>4. KeepsPlace /\ PhaseOK' /\ TargetOK'
  <2>1. CASE main' = [main EXCEPT !.phase = "write"] /\ main.target \in Anc[tip']
    <3>1. KeepsPlace /\ main'.phase = "write" /\ main'.target = main.target
      BY <1>0, <1>1, <2>1 DEF KeepsPlace, Main, QueueOK
    <3>2. PhaseOK'
      BY <1>0, <1>1, <3>1 DEF PhaseOK, KeepsPlace
    <3>3. TargetOK'
      BY <1>1, <2>1, <3>1 DEF TargetOK
    <3> QED BY <3>1, <3>2, <3>3
  <2>2. CASE main' = AfterCheckpoint
    BY <1>1, <2>2, AfterCheckpointFacts
  <2>3. main.target \in Block
    BY <1>0, <1>1 DEF TypeOK
  <2> QED BY <2>1, <2>2, <2>3, Tree DEF MoveToCheckpoint, MoveTip
<1>5. LoopOK' /\ IndexOK' /\ StakeOK' /\ QueueOK'
  BY <1>1, <1>4, PlaceKept
<1>6. TypeOK'
  BY <1>0, <1>1, <1>2, <1>4 DEF TypeOK, KeepsPlace
<1> QED BY <1>9, <1>3, <1>4, <1>5, <1>6 DEF IInv

\* The checkpoint is written, or not.
LEMMA WriteSyncCheckpointStep ==
  ASSUME IInv, WriteSyncCheckpoint
  PROVE  IInv'
<1> USE DEF orphans, checkpoints
<1>0. TypeOK /\ TargetOK /\ CheckpointHolds
  BY DEF IInv
<1>1. /\ main.phase = "write" /\ main' = AfterCheckpoint
      /\ hashSyncCheckpoint' \in {hashSyncCheckpoint, main.target}
      /\ hashPendingCheckpoint' \in Block \cup {Nil}
      /\ UNCHANGED <<mapBlockIndex, tip, mapOrphanBlocks, mapOrphanBlocksByPrev, asked,
                     setStakeSeenOrphan, restarts>>
  BY <1>0 DEF WriteSyncCheckpoint, TypeOK
<1>9. IndexClosed'
  BY <1>1 DEF IInv, IndexClosed
<1>2. faults' \in 0 .. MaxFaults
  BY <1>0, BlockArrivalAssumption DEF WriteSyncCheckpoint, Fault, TypeOK
<1>3. KeepsPlace /\ PhaseOK' /\ TargetOK'
  BY <1>1, AfterCheckpointFacts
<1>4. LoopOK' /\ IndexOK' /\ StakeOK' /\ QueueOK'
  BY <1>1, <1>3, PlaceKept
<1>5. main.target \in mapBlockIndex /\ main.target \in Anc[tip]
  BY <1>0, <1>1 DEF TargetOK
<1>6. TypeOK'
  BY <1>0, <1>1, <1>2, <1>3, <1>5 DEF TypeOK, KeepsPlace
<1>7. CheckpointHolds'
  BY <1>0, <1>1, <1>5 DEF CheckpointHolds
<1> QED BY <1>9, <1>3, <1>4, <1>6, <1>7 DEF IInv

\* The block that arrived has been through AcceptBlock.
LEMMA AfterAcceptBlockStep ==
  ASSUME IInv, AfterAcceptBlock
  PROVE  IInv'
<1> USE DEF orphans, checkpoints, bounds
<1>0. TypeOK /\ PhaseOK /\ CheckpointHolds /\ LoopOK /\ IndexOK /\ StakeOK /\ IndexClosed /\ QueueOK
  BY DEF IInv
<1>1. /\ main.phase = "accepted" /\ main.queue = << >> /\ main \in Main
      /\ main.block \in Block \ {Genesis}
      /\ mapOrphanBlocksByPrev = mapOrphanBlocks
      /\ mapOrphanBlocks \cap mapBlockIndex = {}
      /\ UNCHANGED <<mapBlockIndex, tip, mapOrphanBlocks, mapOrphanBlocksByPrev, asked,
                     setStakeSeenOrphan, hashSyncCheckpoint, hashPendingCheckpoint,
                     faults, restarts>>
  BY <1>0 DEF AfterAcceptBlock, TypeOK, PhaseOK, LoopOK, IndexOK
<1>2. CheckpointHolds' /\ StakeOK' /\ IndexClosed'
  BY <1>0, <1>1 DEF CheckpointHolds, StakeOK, IndexClosed
<1>3. CASE main' = Idle
  <2>1. TypeOK' /\ PhaseOK' /\ TargetOK'
    BY <1>0, <1>1, <1>3, IdleType, IdleFields, BlockArrivalAssumption
    DEF TypeOK, PhaseOK, TargetOK
  <2>2. LoopOK' /\ IndexOK' /\ QueueOK'
    BY <1>0, <1>1, <1>3, IdleFields, BlockArrivalAssumption DEF LoopOK, IndexOK, QueueOK, TypeOK
  <2> QED BY <1>2, <2>1, <2>2 DEF IInv
<1>4. CASE /\ main.ok
           /\ main' = [Idle EXCEPT !.phase = "orphans", !.queue = <<main.block>>,
                                   !.todo = ChildrenOf(main.block)]
  <2>1. ChildrenOf(main.block) \subseteq Block
    BY <1>0 DEF ChildrenOf, TypeOK
  <2>2. <<main.block>> \in Seq(Block) /\ <<main.block>> # << >> /\ Head(<<main.block>>) = main.block
    BY <1>1
  <2>3. /\ main' \in Main /\ main'.phase = "orphans" /\ main'.block = Nil
        /\ main'.queue = <<main.block>> /\ main'.todo = ChildrenOf(main.block)
    BY <1>4, <2>1, <2>2, IdleType, IdleFields DEF Main
  <2>4. TypeOK' /\ PhaseOK' /\ TargetOK'
    BY <1>0, <1>1, <2>2, <2>3, BlockArrivalAssumption DEF TypeOK, PhaseOK, TargetOK
  <2>5. LoopOK'
    BY <1>0, <1>1, <2>2, <2>3, BlockArrivalAssumption DEF LoopOK, Current, ChildrenOf, TypeOK
  <2>6. IndexOK'
    BY <1>1, <2>2, <2>3 DEF IndexOK
  <2>7. main.block \in mapBlockIndex
    BY <1>0, <1>1, <1>4, BlockArrivalAssumption DEF QueueOK
  <2>8. QueueOK'
    BY <1>0, <1>1, <2>2, <2>3, <2>7, BlockArrivalAssumption DEF QueueOK
  <2> QED BY <1>2, <2>4, <2>5, <2>6, <2>8 DEF IInv
<1> QED BY <1>3, <1>4 DEF AfterAcceptBlock

\* AcceptBlock is called for an orphan.
LEMMA TryOrphanStep ==
  ASSUME IInv, NEW b \in Block, TryOrphan(b)
  PROVE  IInv'
<1> USE DEF orphans, checkpoints, bounds
<1>0. TypeOK /\ PhaseOK /\ CheckpointHolds /\ LoopOK /\ IndexOK /\ StakeOK /\ IndexClosed /\ QueueOK
  BY DEF IInv
<1>1. /\ main.phase = "orphans" /\ main \in Main /\ b \in main.todo
      /\ main.block = Nil /\ main.queue # << >>
      /\ main' = [main EXCEPT !.phase = "accept", !.block = b, !.todo = main.todo \ {b}]
      /\ UNCHANGED <<mapBlockIndex, tip, mapOrphanBlocks, mapOrphanBlocksByPrev, asked,
                     setStakeSeenOrphan, hashSyncCheckpoint, hashPendingCheckpoint,
                     faults, restarts>>
  BY <1>0 DEF TryOrphan, TypeOK, PhaseOK
<1>2. /\ main' \in Main /\ main'.phase = "accept" /\ main'.block = b
      /\ main'.queue = main.queue /\ main'.todo = main.todo \ {b}
  BY <1>1 DEF Main
<1>3. b \in mapOrphanBlocks /\ b \in Block \ {Genesis} /\ b # Nil
  BY <1>0, <1>1, BlockArrivalAssumption DEF LoopOK, Current, TypeOK
<1>4. TypeOK' /\ PhaseOK' /\ TargetOK' /\ CheckpointHolds' /\ StakeOK' /\ IndexClosed'
  BY <1>0, <1>1, <1>2, <1>3
  DEF TypeOK, PhaseOK, TargetOK, CheckpointHolds, StakeOK, IndexClosed
<1>5. main.todo = Current /\ Current' = Current
  BY <1>1, <1>2, <1>3 DEF Current
<1>6. LoopOK'
  BY <1>0, <1>1, <1>2, <1>5 DEF LoopOK
<1>7. IndexOK'
  BY <1>0, <1>1, <1>2, <1>3, BlockArrivalAssumption DEF IndexOK, TypeOK
<1>8. b \notin mapBlockIndex
  BY <1>0, <1>1, <1>3 DEF IndexOK
<1>9. QueueOK'
  BY <1>0, <1>1, <1>2, <1>8 DEF QueueOK
<1> QED BY <1>4, <1>6, <1>7, <1>9 DEF IInv

\* An orphan leaves.
LEMMA AfterOrphanStep ==
  ASSUME IInv, AfterOrphan
  PROVE  IInv'
<1> USE DEF checkpoints, bounds
<1>0. TypeOK /\ PhaseOK /\ CheckpointHolds /\ LoopOK /\ IndexOK /\ StakeOK /\ IndexClosed /\ QueueOK
  BY DEF IInv
<1>1. /\ main.phase = "accepted" /\ main \in Main /\ main.queue # << >>
      /\ main.block \in Block \ {Genesis}
      /\ mapOrphanBlocks' = mapOrphanBlocks \ {main.block}
      /\ setStakeSeenOrphan' = setStakeSeenOrphan \ {Stake[main.block]}
      /\ UNCHANGED <<mapBlockIndex, tip, mapOrphanBlocksByPrev, asked,
                     hashSyncCheckpoint, hashPendingCheckpoint, faults, restarts>>
  BY <1>0 DEF AfterOrphan, TypeOK, PhaseOK
<1> DEFINE q == IF main.ok THEN Append(main.queue, main.block) ELSE main.queue
<1>2. main' = [main EXCEPT !.phase = "orphans", !.block = Nil, !.queue = q]
  BY DEF AfterOrphan
<1>3. main.queue \in Seq(Block)
  BY <1>1 DEF Main
<1>4. q \in Seq(Block) /\ q # << >> /\ Head(q) = Head(main.queue)
  BY <1>1, <1>3
<1>5. /\ main' \in Main /\ main'.phase = "orphans" /\ main'.block = Nil
      /\ main'.queue = q /\ main'.todo = main.todo
  <2> HIDE DEF q
  <2> QED BY <1>1, <1>2, <1>4 DEF Main
<1> HIDE DEF q
<1>6. TypeOK'
  BY <1>0, <1>1, <1>5 DEF TypeOK
<1>7. PhaseOK' /\ TargetOK' /\ CheckpointHolds' /\ IndexClosed'
  BY <1>0, <1>1, <1>4, <1>5, BlockArrivalAssumption
  DEF PhaseOK, TargetOK, CheckpointHolds, IndexClosed
<1>8. Current' = Current \ {main.block}
  BY <1>0, <1>1, <1>5 DEF Current, LoopOK
<1>9. main.block \in Current /\ main.block # Nil
  BY <1>1, BlockArrivalAssumption DEF Current
<1>13. Nil \notin main.todo
  BY <1>1, BlockArrivalAssumption DEF Main
<1>10. LoopOK'
  BY <1>0, <1>1, <1>4, <1>5, <1>8, <1>9, <1>13 DEF LoopOK
<1>11. IndexOK'
  BY <1>0, <1>1, <1>4, <1>5 DEF IndexOK
<1>12. StakeOK'
  BY <1>0, <1>1 DEF StakeOK
<1>14. QueueOK'
  <2>1. main.ok => main.block \in mapBlockIndex
    BY <1>0, <1>1, BlockArrivalAssumption DEF QueueOK
  <2>2. Nil \notin mapBlockIndex
    BY <1>0, BlockArrivalAssumption DEF TypeOK
  <2>3. CASE main.ok
    <3>1. /\ Len(q) = Len(main.queue) + 1 /\ q[Len(q)] = main.block
          /\ \A i \in 1 .. Len(main.queue) : q[i] = main.queue[i]
          /\ Len(main.queue) \in Nat
      BY <1>1, <1>3, <2>3 DEF q
    <3>2. \A i \in 1 .. Len(q) : i = Len(q) \/ i \in 1 .. Len(main.queue)
      BY <3>1
    <3> QED BY <1>0, <1>1, <1>5, <2>1, <2>2, <2>3, <3>1, <3>2 DEF QueueOK
  <2>4. CASE ~main.ok
    BY <1>0, <1>1, <1>5, <2>2, <2>4 DEF QueueOK, q
  <2> QED BY <2>3, <2>4
<1> QED BY <1>6, <1>7, <1>10, <1>11, <1>12, <1>14 DEF IInv

\* What is left of a longer queue without its first entry.
LEMMA TailFacts ==
  ASSUME NEW S, NEW s \in Seq(S), s # << >>, Len(s) # 1
  PROVE  /\ Tail(s) \in Seq(S) /\ Tail(s) # << >> /\ Len(Tail(s)) = Len(s) - 1
         /\ Head(Tail(s)) = s[2] /\ Len(s) \in Nat /\ Len(s) >= 2 /\ Head(s) = s[1]
         /\ \A i \in 1 .. Len(Tail(s)) : Tail(s)[i] = s[i + 1]
<1>0. Len(s) \in Nat \ {0}
  BY EmptySeq, Zenon
<1>7. \A n \in Nat \ {0} : n # 1 => n \in Nat /\ n >= 2
  OBVIOUS
<1>1. Len(s) \in Nat /\ Len(s) >= 2
  BY <1>0, <1>7, Zenon
<1>6. Head(s) = s[1]
  OBVIOUS
<1>2. Tail(s) \in Seq(S) /\ Len(Tail(s)) = Len(s) - 1
  OBVIOUS
<1>3. \A i \in 1 .. Len(Tail(s)) : Tail(s)[i] = s[i + 1]
  OBVIOUS
<1>4. Tail(s) # << >>
  BY <1>1, <1>2
<1>5. Head(Tail(s)) = Tail(s)[1] /\ 1 \in 1 .. Len(Tail(s))
  BY <1>1, <1>2, <1>4
<1> QED BY <1>1, <1>2, <1>3, <1>4, <1>5, <1>6

\* vWorkQueue moves on to its next entry, or is done.
LEMMA NextInQueueStep ==
  ASSUME IInv, NextInQueue
  PROVE  IInv'
<1> USE DEF checkpoints, bounds
<1>0. TypeOK /\ PhaseOK /\ CheckpointHolds /\ LoopOK /\ IndexOK /\ StakeOK /\ IndexClosed /\ QueueOK
  BY DEF IInv
<1> DEFINE h == Head(main.queue)
<1>1. /\ main.phase = "orphans" /\ main \in Main /\ main.todo = {}
      /\ main.block = Nil /\ main.queue # << >> /\ main.queue \in Seq(Block)
      /\ mapOrphanBlocksByPrev' = mapOrphanBlocksByPrev \ ChildrenOf(h)
      /\ UNCHANGED <<mapBlockIndex, tip, mapOrphanBlocks, setStakeSeenOrphan, asked,
                     hashSyncCheckpoint, hashPendingCheckpoint, faults, restarts>>
  BY <1>0 DEF NextInQueue, TypeOK, PhaseOK, Main
<1>2. \A c \in mapOrphanBlocks : Prev[c] # h
  BY <1>0, <1>1 DEF LoopOK, Current
<1>3. mapOrphanBlocksByPrev' = mapOrphanBlocks
  <2>1. \A c \in mapOrphanBlocksByPrev : Prev[c] # h => c \in mapOrphanBlocks
    BY <1>0, <1>1 DEF LoopOK
  <2>2. mapOrphanBlocks \subseteq mapOrphanBlocksByPrev
    BY <1>0 DEF LoopOK
  <2> QED BY <1>1, <1>2, <2>1, <2>2 DEF ChildrenOf
<1>4. mapOrphanBlocks \cap mapBlockIndex = {}
  BY <1>0, <1>1, BlockArrivalAssumption DEF IndexOK, TypeOK
<1>5. CheckpointHolds' /\ StakeOK' /\ IndexClosed'
  BY <1>0, <1>1 DEF CheckpointHolds, StakeOK, IndexClosed
<1>6. CASE main' = Idle
  <2>1. TypeOK' /\ PhaseOK' /\ TargetOK'
    BY <1>0, <1>1, <1>3, <1>6, IdleType, IdleFields, BlockArrivalAssumption
    DEF TypeOK, PhaseOK, TargetOK
  <2>2. LoopOK' /\ IndexOK' /\ QueueOK'
    BY <1>0, <1>1, <1>3, <1>4, <1>6, IdleFields, BlockArrivalAssumption
    DEF LoopOK, IndexOK, QueueOK, TypeOK
  <2> QED BY <1>5, <2>1, <2>2 DEF IInv
<1>7. CASE /\ Len(main.queue) # 1
           /\ main' = [main EXCEPT !.queue = Tail(main.queue),
                                   !.todo = ChildrenOf(main.queue[2])]
  <2> DEFINE t == Tail(main.queue)
  <2>1. /\ t \in Seq(Block) /\ t # << >> /\ Len(t) = Len(main.queue) - 1
        /\ Head(t) = main.queue[2] /\ Len(main.queue) \in Nat /\ Len(main.queue) >= 2
        /\ h = main.queue[1]
        /\ \A i \in 1 .. Len(t) : t[i] = main.queue[i + 1]
    BY <1>1, <1>7, TailFacts
  <2>2. h # main.queue[2]
    BY <1>0, <2>1 DEF QueueOK
  <2>3. ChildrenOf(main.queue[2]) = {c \in mapOrphanBlocks : Prev[c] = main.queue[2]}
    <3>1. \A c \in mapOrphanBlocksByPrev : Prev[c] # h => c \in mapOrphanBlocks
      BY <1>0, <1>1 DEF LoopOK
    <3>2. mapOrphanBlocks \subseteq mapOrphanBlocksByPrev
      BY <1>0 DEF LoopOK
    <3> HIDE DEF h
    <3> QED BY <2>2, <3>1, <3>2 DEF ChildrenOf
  <2>4. ChildrenOf(main.queue[2]) \subseteq Block
    BY <1>0, <2>3 DEF TypeOK
  <2> HIDE DEF t, h
  <2>5. /\ main' \in Main /\ main'.phase = "orphans" /\ main'.block = Nil
        /\ main'.queue = t /\ main'.todo = ChildrenOf(main.queue[2])
    BY <1>1, <1>7, <2>1, <2>4 DEF Main, t
  <2>6. TypeOK'
    BY <1>0, <1>1, <1>3, <2>5 DEF TypeOK
  <2>7. PhaseOK' /\ TargetOK'
    BY <2>1, <2>5, BlockArrivalAssumption DEF PhaseOK, TargetOK
  <2>8. Nil \notin mapOrphanBlocks /\ Nil \notin mapBlockIndex
    BY <1>0, BlockArrivalAssumption DEF TypeOK
  <2>9. LoopOK'
    BY <1>1, <1>3, <2>1, <2>3, <2>5, <2>8 DEF LoopOK, Current
  <2>10. IndexOK'
    BY <1>1, <1>4, <2>1, <2>5 DEF IndexOK
  <2>11. QueueOK'
    <3>1. \A i \in 1 .. Len(t) : i + 1 \in 1 .. Len(main.queue)
      BY <2>1
    <3>2. \A i, j \in 1 .. Len(t) : t[i] = t[j] => i = j
      BY <1>0, <2>1, <3>1 DEF QueueOK
    <3>3. \A i \in 1 .. Len(t) : t[i] \in mapBlockIndex
      BY <1>0, <2>1, <3>1 DEF QueueOK
    <3> QED BY <1>1, <2>5, <2>8, <3>2, <3>3 DEF QueueOK
  <2> QED BY <1>5, <2>6, <2>7, <2>9, <2>10, <2>11 DEF IInv
<1> QED BY <1>6, <1>7 DEF NextInQueue

\* A start, once the tip and the checkpoint are known to fit.
LEMMA RestartedStep ==
  ASSUME IInv, NEW t \in mapBlockIndex, Restarted(t),
         hashSyncCheckpoint' \in mapBlockIndex,
         hashPendingCheckpoint' \in Block \cup {Nil},
         Strict => hashSyncCheckpoint' \in Anc[t] \/ t \in Anc[hashSyncCheckpoint']
  PROVE  IInv'
<1>0. TypeOK /\ IndexClosed
  BY DEF IInv
<1>1. /\ main' = Idle /\ tip' = t /\ mapBlockIndex' = mapBlockIndex
      /\ mapOrphanBlocks' = {} /\ mapOrphanBlocksByPrev' = {} /\ setStakeSeenOrphan' = {}
      /\ asked' = {} /\ faults' = faults /\ restarts < MaxRestarts /\ restarts' = restarts + 1
  BY DEF Restarted
<1>2. restarts' \in 0 .. MaxRestarts
  BY <1>0, <1>1, BlockArrivalAssumption DEF TypeOK
<1>3. TypeOK'
  BY <1>0, <1>1, <1>2, IdleType DEF TypeOK
<1>4. PhaseOK' /\ TargetOK' /\ LoopOK' /\ IndexOK' /\ StakeOK' /\ QueueOK'
  BY <1>1, IdleFields, BlockArrivalAssumption
  DEF PhaseOK, TargetOK, LoopOK, IndexOK, StakeOK, QueueOK
<1>5. CheckpointHolds' /\ IndexClosed'
  BY <1>0, <1>1 DEF CheckpointHolds, IndexClosed
<1> QED BY <1>3, <1>4, <1>5 DEF IInv

\* A start keeps the checkpoint; the tip may move back.
LEMMA RestartStep ==
  ASSUME IInv, Restart
  PROVE  IInv'
<1>0. TypeOK /\ IndexClosed /\ CheckpointHolds
  BY DEF IInv
<1>1. PICK t \in Anc[tip] : Restarted(t)
  BY DEF Restart
<1>2. /\ t \in mapBlockIndex /\ t \in Block /\ tip \in Block
      /\ hashSyncCheckpoint \in Block /\ hashSyncCheckpoint \in mapBlockIndex
  BY <1>0 DEF TypeOK, IndexClosed
<1>3. hashPendingCheckpoint' = Nil /\ hashSyncCheckpoint' = hashSyncCheckpoint
  BY DEF Restart
<1>4. Strict => hashSyncCheckpoint \in Anc[t] \/ t \in Anc[hashSyncCheckpoint]
  <2>1. CASE hashSyncCheckpoint \in Anc[tip]
    BY <1>2, <2>1, AncComparable
  <2>2. CASE tip \in Anc[hashSyncCheckpoint]
    BY <1>2, <2>2, AncTransitive
  <2> QED BY <1>0, <2>1, <2>2 DEF CheckpointHolds
<1> QED BY <1>1, <1>2, <1>3, <1>4, RestartedStep

\* A start with a new master key takes the last hardened checkpoint of the chain.
LEMMA ResetSyncCheckpointStep ==
  ASSUME IInv, ResetSyncCheckpoint
  PROVE  IInv'
<1>0. TypeOK /\ IndexClosed
  BY DEF IInv
<1> DEFINE last == Highest(Hardened)
<1>1. last \in Block
  BY HighestIn, BlockArrivalAssumption
<1> HIDE DEF last
<1>2. PICK t \in mapBlockIndex : Restarted(t)
  BY <1>0 DEF ResetSyncCheckpoint, TypeOK, IndexClosed, last
<1>3. tip' = t /\ t \in Block
  BY <1>0, <1>2 DEF Restarted, TypeOK
<1>4. hashSyncCheckpoint' = Highest(Hardened \cap Anc[t])
  BY <1>3 DEF ResetSyncCheckpoint
<1>5. Genesis \in Hardened \cap Anc[t]
  BY <1>3, BlockArrivalAssumption, Tree
<1>6. hashSyncCheckpoint' \in Anc[t]
  BY <1>4, <1>5, HighestIn
<1>7. hashSyncCheckpoint' \in mapBlockIndex
  BY <1>0, <1>2, <1>6 DEF IndexClosed
<1>8. hashPendingCheckpoint' \in Block \cup {Nil}
  BY <1>1 DEF ResetSyncCheckpoint, last
<1> QED BY <1>2, <1>6, <1>7, <1>8, RestartedStep

-----------------------------------------------------------------------------
(***************************************************************************)
(* The theorems.                                                           *)
(***************************************************************************)
\* Every step of the module keeps the inductive invariant.
LEMMA NextIInv == IInv /\ [Next]_vars => IInv'
<1> SUFFICES ASSUME IInv, [Next]_vars PROVE IInv'
  OBVIOUS
<1>0. asked \subseteq Block
  BY DEF IInv, TypeOK
<1>1. ASSUME NEW b \in Block \ {Genesis}, NEW rest \in SUBSET Block, BlockMessage(b, rest)
      PROVE  IInv'
  <2>1. CASE ProcessBlock(b, rest)
    BY <2>1, ProcessBlockStep
  <2>2. CASE HoldOrphan(b, rest)
    BY <2>2, HoldOrphanStep
  <2>3. CASE DropBlock(b, rest)
    <3>1. PendingToAsk \subseteq Block
      BY DEF IInv, TypeOK, PendingToAsk
    <3>2. asked' \subseteq Block
      BY <2>3, <3>1 DEF DropBlock
    <3> QED BY <2>3, <3>2, AskedStep DEF DropBlock
  <2> QED BY <1>1, <2>1, <2>2, <2>3 DEF BlockMessage
<1>2. ASSUME NEW b \in Block \ {Genesis}, BlockMessage(b, asked) \/ Answer(b)
      PROVE  IInv'
  BY <1>0, <1>1, <1>2 DEF Answer
<1>3. ASSUME NEW c \in Signed, ProcessSyncCheckpoint(c)
      PROVE  IInv'
  BY <1>3, ProcessSyncCheckpointStep, BlockArrivalAssumption
<1>4. CASE MainStep
  BY <1>4, RejectBlockStep, AcceptBlockStep, AcceptPendingStep, MoveToCheckpointStep,
     WriteSyncCheckpointStep, AfterAcceptBlockStep, TryOrphanStep, AfterOrphanStep,
     NextInQueueStep DEF MainStep
<1>5. CASE UNCHANGED vars
  BY <1>0, <1>5, AskedStep DEF vars
<1> QED BY <1>2, <1>3, <1>4, <1>5, RestartStep, ResetSyncCheckpointStep DEF Next

\* The inductive invariant holds in every state of the node: ProcessBlock,
\* AcceptBlock and the checkpoint handlers, crashes and failing writes included.
THEOREM Invariance == Spec => []IInv
<1>1. Init => IInv
  BY InitIInv
<1>2. IInv /\ [Next]_vars => IInv'
  BY NextIInv
<1> QED BY <1>1, <1>2, PTL DEF Spec

\* In STRICT mode the best chain and the checkpoint never part, in any block
\* tree (AcceptBlock, CheckSync, ValidateSyncCheckpoint, WriteSyncCheckpoint).
THEOREM CheckpointIsKept == Spec => []CheckpointHolds
<1>1. IInv => CheckpointHolds
  BY DEF IInv
<1> QED BY <1>1, Invariance, PTL

\* Between two handlers the maps of orphan blocks agree, so ProcessBlock never
\* frees an orphan twice nor leaves a pointer to a freed one (vWorkQueue).
THEOREM OrphansAgree == Spec => []OrphanMapsAgree
<1>1. IInv => OrphanMapsAgree
  <2> SUFFICES ASSUME IInv, main = Idle
               PROVE  /\ mapOrphanBlocks = mapOrphanBlocksByPrev
                      /\ mapOrphanBlocks \cap mapBlockIndex = {}
                      /\ setStakeSeenOrphan \subseteq {Stake[b] : b \in mapOrphanBlocks}
    BY DEF OrphanMapsAgree
  <2>1. main.queue = << >>
    BY IdleFields
  <2> QED BY <2>1 DEF IInv, LoopOK, IndexOK, StakeOK
<1> QED BY <1>1, Invariance, PTL

\* What CheckpointIsFinal says of one step.
KeepsCheckpoint ==
    Strict /\ hashSyncCheckpoint \in Anc[tip] /\ restarts' = restarts =>
        hashSyncCheckpoint \in Anc[tip'] /\ hashSyncCheckpoint \in Anc[hashSyncCheckpoint']

\* A step that moves neither the tip nor the checkpoint keeps it.
LEMMA StillKeeps ==
  ASSUME IInv, UNCHANGED <<tip, hashSyncCheckpoint>>
  PROVE  KeepsCheckpoint
<1>1. hashSyncCheckpoint \in Anc[hashSyncCheckpoint]
  BY Tree DEF IInv, TypeOK
<1> QED BY <1>1 DEF KeepsCheckpoint

\* No heavier chain and no later checkpoint takes the node off a checkpoint
\* that its chain has reached; only a start may (SetBestChain, CheckSync).
THEOREM CheckpointsAreFinal == Spec => CheckpointIsFinal
<1>1. IInv /\ [Next]_vars => [KeepsCheckpoint]_vars
  <2> SUFFICES ASSUME IInv, Next PROVE KeepsCheckpoint
    OBVIOUS
  <2> USE DEF orphans, checkpoints, bounds
  <2>0. TypeOK /\ PhaseOK /\ TargetOK
    BY DEF IInv
  <2>1. CASE AcceptBlock
    <3>1. /\ main.block \in Block /\ AcceptChecks(main.block)
          /\ tip' \in {tip, main.block} /\ hashSyncCheckpoint' = hashSyncCheckpoint
      BY <2>0, <2>1 DEF AcceptBlock, MoveTip, MoveTipFails, PhaseOK
    <3>2. Strict => hashSyncCheckpoint \in Anc[main.block]
      BY <2>0, <3>1, AcceptedDescends
    <3>3. hashSyncCheckpoint \in Anc[hashSyncCheckpoint]
      BY <2>0, Tree DEF TypeOK
    <3> QED BY <3>1, <3>2, <3>3 DEF KeepsCheckpoint
  <2>2. CASE MoveToCheckpoint
    <3>1. /\ hashSyncCheckpoint \in Anc[main.target]
          /\ tip' \in {tip, main.target} /\ hashSyncCheckpoint' = hashSyncCheckpoint
      BY <2>0, <2>2 DEF MoveToCheckpoint, MoveTip, MoveTipFails, TargetOK
    <3>2. hashSyncCheckpoint \in Anc[hashSyncCheckpoint]
      BY <2>0, Tree DEF TypeOK
    <3> QED BY <3>1, <3>2 DEF KeepsCheckpoint
  <2>3. CASE WriteSyncCheckpoint
    <3>1. /\ hashSyncCheckpoint \in Anc[main.target]
          /\ tip' = tip /\ hashSyncCheckpoint' \in {hashSyncCheckpoint, main.target}
      BY <2>0, <2>3 DEF WriteSyncCheckpoint, TargetOK
    <3>2. hashSyncCheckpoint \in Anc[hashSyncCheckpoint]
      BY <2>0, Tree DEF TypeOK
    <3> QED BY <3>1, <3>2 DEF KeepsCheckpoint
  <2>4. CASE Restart \/ ResetSyncCheckpoint
    <3>1. restarts \in Nat /\ restarts' = restarts + 1
      BY <2>0, <2>4, BlockArrivalAssumption DEF Restart, ResetSyncCheckpoint, Restarted, TypeOK
    <3> QED BY <3>1 DEF KeepsCheckpoint
  <2>5. CASE UNCHANGED <<tip, hashSyncCheckpoint>>
    BY <2>5, StillKeeps
  <2>6. ASSUME NEW b \in Block, NEW rest, BlockMessage(b, rest)
        PROVE  UNCHANGED <<tip, hashSyncCheckpoint>>
    BY <2>6 DEF BlockMessage, ProcessBlock, HoldOrphan, DropBlock
  <2>7. ASSUME NEW b \in Block, BlockMessage(b, asked) \/ Answer(b)
        PROVE  UNCHANGED <<tip, hashSyncCheckpoint>>
    BY <2>6, <2>7 DEF Answer
  <2>8. ASSUME NEW c \in Signed, ProcessSyncCheckpoint(c)
        PROVE  UNCHANGED <<tip, hashSyncCheckpoint>>
    BY <2>8 DEF ProcessSyncCheckpoint
  <2>9. ASSUME MainStep
        PROVE  \/ AcceptBlock \/ MoveToCheckpoint \/ WriteSyncCheckpoint
               \/ UNCHANGED <<tip, hashSyncCheckpoint>>
    BY <2>9 DEF MainStep, RejectBlock, AcceptPendingSyncCheckpoint, AfterAcceptBlock,
                TryOrphan, AfterOrphan, NextInQueue
  <2> QED BY <2>1, <2>2, <2>3, <2>4, <2>5, <2>7, <2>8, <2>9 DEF Next
<1>2. Spec => [][KeepsCheckpoint]_vars
  BY <1>1, Invariance, PTL DEF Spec
<1> QED BY <1>2 DEF CheckpointIsFinal, KeepsCheckpoint

-----------------------------------------------------------------------------
(***************************************************************************)
(* What must not be left behind: orphans whose previous block is there,    *)
(* and a pending checkpoint whose block is there.                          *)
(***************************************************************************)
\* AcceptBlock is called for blocks that are not in the index.
FreshOK == main.phase = "accept" => main.block \notin mapBlockIndex

InQueue(b) == \E i \in 1 .. Len(main.queue) : main.queue[i] = b

\* A previous block that an orphan no longer needs to wait for is in AcceptBlock
\* or still in vWorkQueue.
WaitOK ==
    faults = 0 =>
        \A b \in mapOrphanBlocks :
            Prev[b] \in mapBlockIndex /\ Anc[Prev[b]] \subseteq Connects =>
                Prev[b] = main.block \/ InQueue(Prev[b])

\* AcceptBlock reports a failure only for a block that is not in the index, or
\* that does not connect.
ReportOK ==
    /\ faults = 0 /\ main.phase # "accept"
    /\ main.block \in mapBlockIndex /\ Anc[main.block] \subseteq Connects
    => main.ok

\* A pending checkpoint whose block is there is being taken.
SettleOK ==
    /\ faults = 0
    /\ hashPendingCheckpoint \in mapBlockIndex
    /\ Anc[hashPendingCheckpoint] \subseteq Connects
    => \/ main.phase = "pending"
       \/ main.phase \in {"move", "write"} /\ main.target = hashPendingCheckpoint

WInv == FreshOK /\ WaitOK /\ ReportOK /\ SettleOK

\* A branch that does not connect has a block that does not.
LEMMA BranchFails ==
  ASSUME NEW b \in Block, ~BranchConnects(b)
  PROVE  ~(Anc[b] \subseteq Connects)
  BY DEF BranchConnects

\* The first checkpoint to wait for is not the first block.
LEMMA LastHardened ==
  ASSUME Hardened # {Genesis}
  PROVE  Highest(Hardened) # Genesis
<1> SUFFICES ASSUME Highest(Hardened) = Genesis PROVE FALSE
  OBVIOUS
<1>1. PICK h \in Hardened : h # Genesis
  BY BlockArrivalAssumption
<1>2. \E x \in Hardened : \A g \in Hardened : Height[g] <= Height[x]
  BY BlockArrivalAssumption
<1>3. \A g \in Hardened : Height[g] <= Height[Highest(Hardened)]
  BY <1>2 DEF Highest
<1>4. h \in Block /\ Height[h] <= Height[Genesis]
  BY <1>1, <1>3, BlockArrivalAssumption
<1>5. h \in Anc[h] /\ Genesis \in Anc[h]
  BY <1>4, Tree
<1>6. Anc[Genesis] = {c \in Anc[h] : Height[c] <= Height[Genesis]}
  BY <1>4, <1>5, Tree
<1>7. h \in Anc[Genesis]
  BY <1>4, <1>5, <1>6
<1> QED BY <1>1, <1>7, Tree

\* Nothing waits at the first start.
LEMMA InitWInv == Init => WInv
<1> SUFFICES ASSUME Init PROVE WInv
  OBVIOUS
<1>1. hashPendingCheckpoint \notin mapBlockIndex
  BY LastHardened, BlockArrivalAssumption DEF Init
<1>2. main = Idle /\ mapOrphanBlocks = {} /\ mapBlockIndex = {Genesis}
  BY DEF Init
<1> QED BY <1>1, <1>2, IdleFields, BlockArrivalAssumption
        DEF WInv, FreshOK, WaitOK, ReportOK, SettleOK

\* The number of failures only grows.
LEMMA FaultsGrow ==
  ASSUME IInv, faults' = faults \/ Fault, faults' = 0
  PROVE  faults = 0 /\ ~Fault
  BY DEF IInv, TypeOK, Fault

\* A step that leaves index, orphans, checkpoints and handler alone.
LEMMA StillWaits ==
  ASSUME WInv, UNCHANGED <<mapBlockIndex, mapOrphanBlocks, hashPendingCheckpoint, main, faults>>
  PROVE  WInv'
  BY DEF WInv, FreshOK, WaitOK, InQueue, ReportOK, SettleOK

\* A block comes, is held, or dropped.
LEMMA MessageWaits ==
  ASSUME IInv, WInv, NEW b \in Block \ {Genesis}, NEW rest \in SUBSET Block, BlockMessage(b, rest)
  PROVE  WInv'
<1> USE DEF orphans, checkpoints, bounds
<1>0. FreshOK /\ WaitOK /\ ReportOK /\ SettleOK /\ Nil \notin mapBlockIndex
  BY BlockArrivalAssumption DEF WInv, IInv, TypeOK
<1>1. CASE ProcessBlock(b, rest)
  <2>1. /\ main = Idle /\ b \notin mapBlockIndex
        /\ main' = [Idle EXCEPT !.phase = "accept", !.block = b]
        /\ UNCHANGED <<mapBlockIndex, mapOrphanBlocks, hashPendingCheckpoint, faults>>
    BY <1>1 DEF ProcessBlock, NewBlock
  <2>2. main'.phase = "accept" /\ main'.block = b /\ main'.queue = << >>
    BY <2>1, IdleType, IdleFields DEF Main
  <2>3. FreshOK' /\ ReportOK'
    BY <2>1, <2>2 DEF FreshOK, ReportOK
  <2>4. WaitOK'
    BY <1>0, <2>1, <2>2, IdleFields DEF WaitOK, InQueue
  <2>5. SettleOK'
    BY <1>0, <2>1, <2>2, IdleFields DEF SettleOK
  <2> QED BY <2>3, <2>4, <2>5 DEF WInv
<1>2. CASE HoldOrphan(b, rest)
  <2>1. /\ main = Idle /\ Prev[b] \notin mapBlockIndex
        /\ mapOrphanBlocks' = mapOrphanBlocks \cup {b}
        /\ UNCHANGED <<mapBlockIndex, hashPendingCheckpoint, main, faults>>
    BY <1>2 DEF HoldOrphan
  <2> QED BY <1>0, <2>1 DEF WInv, FreshOK, WaitOK, InQueue, ReportOK, SettleOK
<1>3. CASE DropBlock(b, rest)
  BY <1>3, StillWaits DEF DropBlock
<1> QED BY <1>1, <1>2, <1>3 DEF BlockMessage

\* AcceptBlock refuses, because of a check or of a failing write.
LEMMA RejectWaits ==
  ASSUME IInv, WInv, RejectBlock
  PROVE  WInv'
<1> USE DEF orphans, checkpoints
<1>0. FreshOK /\ WaitOK /\ ReportOK /\ SettleOK /\ main \in Main
  BY DEF WInv, IInv, TypeOK
<1>1. /\ main.phase = "accept" /\ main.block \notin mapBlockIndex
      /\ main' = [main EXCEPT !.phase = "accepted", !.ok = FALSE]
      /\ UNCHANGED <<mapBlockIndex, mapOrphanBlocks, hashPendingCheckpoint>>
      /\ faults' = faults \/ Fault
  BY <1>0 DEF RejectBlock, FreshOK
<1>2. main'.phase = "accepted" /\ main'.block = main.block /\ main'.queue = main.queue
  BY <1>0, <1>1 DEF Main
<1>3. faults' = 0 => faults = 0
  BY <1>1, FaultsGrow
<1>4. FreshOK' /\ ReportOK'
  BY <1>1, <1>2 DEF FreshOK, ReportOK
<1>5. WaitOK'
  BY <1>0, <1>1, <1>2, <1>3 DEF WaitOK, InQueue
<1>6. SettleOK'
  BY <1>0, <1>1, <1>2, <1>3 DEF SettleOK
<1> QED BY <1>4, <1>5, <1>6 DEF WInv

\* AcceptBlock takes a block: it reports a failure only when the block's branch
\* does not connect.
LEMMA AcceptWaits ==
  ASSUME IInv, WInv, AcceptBlock
  PROVE  WInv'
<1> USE DEF orphans, checkpoints
<1>0. FreshOK /\ WaitOK /\ ReportOK /\ SettleOK /\ main \in Main
  BY DEF WInv, IInv, TypeOK
<1>1. /\ main.phase = "accept" /\ main.block \in Block
      /\ mapBlockIndex' = mapBlockIndex \cup {main.block}
      /\ UNCHANGED <<mapOrphanBlocks, hashPendingCheckpoint>>
      /\ faults' = faults \/ Fault
  BY DEF AcceptBlock, MoveTip, MoveTipFails, IInv, PhaseOK
<1>2. \/ main' = [main EXCEPT !.phase = "pending", !.ok = TRUE]
      \/ /\ main' = [main EXCEPT !.phase = "accepted", !.ok = FALSE]
         /\ Fault \/ ~BranchConnects(main.block)
  BY DEF AcceptBlock, MoveTipFails
<1>3. main'.block = main.block /\ main'.queue = main.queue
  BY <1>0, <1>2 DEF Main
<1>4. faults' = 0 => faults = 0 /\ ~Fault
  BY <1>1, FaultsGrow
<1>5. \/ main'.phase = "pending" /\ main'.ok
      \/ main'.phase = "accepted" /\ (faults' = 0 => ~(Anc[main.block] \subseteq Connects))
  BY <1>0, <1>1, <1>2, <1>4, BranchFails DEF Main
<1>6. FreshOK' /\ ReportOK'
  BY <1>3, <1>5 DEF FreshOK, ReportOK
<1>7. WaitOK'
  BY <1>0, <1>1, <1>3, <1>4 DEF WaitOK, InQueue
<1>8. SettleOK'
  BY <1>0, <1>1, <1>4, <1>5 DEF SettleOK
<1> QED BY <1>6, <1>7, <1>8 DEF WInv

\* A later step of the handler: it keeps its block, what it reports and its
\* place in the loop.
LEMMA LaterWaits ==
  ASSUME IInv, WInv, main.phase # "accept", main'.phase # "accept",
         main'.block = main.block, main'.queue = main.queue, main'.ok = main.ok,
         UNCHANGED <<mapBlockIndex, mapOrphanBlocks>>,
         faults' = 0 => faults = 0
  PROVE  FreshOK' /\ WaitOK' /\ ReportOK'
<1>0. WaitOK /\ ReportOK
  BY DEF WInv
<1>1. FreshOK' /\ ReportOK'
  BY <1>0 DEF FreshOK, ReportOK
<1>2. WaitOK'
  BY <1>0 DEF WaitOK, InQueue
<1> QED BY <1>1, <1>2

\* The pending checkpoint is refused, or taken up.
LEMMA PendingWaits ==
  ASSUME IInv, WInv, AcceptPendingSyncCheckpoint
  PROVE  WInv'
<1> USE DEF orphans, bounds
<1>0. SettleOK /\ main \in Main /\ Nil \notin mapBlockIndex
  BY BlockArrivalAssumption DEF WInv, IInv, TypeOK
<1>1. /\ main.phase = "pending"
      /\ UNCHANGED <<mapBlockIndex, mapOrphanBlocks, faults>>
  BY DEF AcceptPendingSyncCheckpoint
<1>2. \/ /\ main' = [main EXCEPT !.phase = "accepted"]
         /\ hashPendingCheckpoint' \notin mapBlockIndex
      \/ /\ main' = [main EXCEPT !.phase = "move", !.target = hashPendingCheckpoint]
         /\ hashPendingCheckpoint' = hashPendingCheckpoint
  BY <1>0 DEF AcceptPendingSyncCheckpoint
<1>3. /\ main'.block = main.block /\ main'.queue = main.queue /\ main'.ok = main.ok
      /\ main'.phase # "accept"
  BY <1>0, <1>2 DEF Main
<1>4. FreshOK' /\ WaitOK' /\ ReportOK'
  BY <1>1, <1>3, LaterWaits
<1>5. SettleOK'
  BY <1>0, <1>1, <1>2 DEF SettleOK, Main
<1> QED BY <1>4, <1>5 DEF WInv

\* A checkpoint message: either its block is missing, or the checkpoint that is
\* pending was not to be taken before.
LEMMA CheckpointMessageWaits ==
  ASSUME IInv, WInv, NEW c \in Block, ProcessSyncCheckpoint(c)
  PROVE  WInv'
<1> USE DEF orphans, bounds
<1>0. WInv /\ SettleOK
  BY DEF WInv
<1>1. main = Idle /\ UNCHANGED <<mapBlockIndex, mapOrphanBlocks, faults>>
  BY DEF ProcessSyncCheckpoint
<1>2. CASE c \notin mapBlockIndex /\ hashPendingCheckpoint' = c /\ UNCHANGED main
  BY <1>0, <1>1, <1>2 DEF WInv, FreshOK, WaitOK, InQueue, ReportOK, SettleOK
<1>3. CASE /\ main' = [Idle EXCEPT !.phase = "move", !.target = c]
           /\ UNCHANGED hashPendingCheckpoint
  <2>1. /\ main'.block = main.block /\ main'.queue = main.queue /\ main'.ok = main.ok
        /\ main'.phase = "move" /\ main.phase = "idle"
    BY <1>1, <1>3, IdleFields, IdleType DEF Main
  <2>2. FreshOK' /\ WaitOK' /\ ReportOK'
    BY <1>1, <2>1, LaterWaits
  <2>3. SettleOK'
    BY <1>0, <1>1, <1>3, <2>1 DEF SettleOK
  <2> QED BY <2>2, <2>3 DEF WInv
<1> QED BY <1>2, <1>3 DEF ProcessSyncCheckpoint

\* After a checkpoint the handler goes on with its block, if it has one.
LEMMA AfterCheckpointWaits ==
  ASSUME IInv, WInv, main.phase \in {"move", "write"}, main' = AfterCheckpoint,
         UNCHANGED <<mapBlockIndex, mapOrphanBlocks>>,
         faults' = 0 => faults = 0
  PROVE  FreshOK' /\ WaitOK' /\ ReportOK'
<1>0. main \in Main /\ PhaseOK /\ WaitOK /\ Nil \notin mapBlockIndex
  BY BlockArrivalAssumption DEF WInv, IInv, TypeOK
<1>1. CASE main.block = Nil
  <2>1. main' = Idle /\ main.queue = << >>
    BY <1>0, <1>1 DEF AfterCheckpoint, PhaseOK
  <2>2. FreshOK' /\ ReportOK'
    BY <1>0, <2>1, IdleFields DEF FreshOK, ReportOK
  <2>3. WaitOK'
    BY <1>0, <1>1, <2>1, IdleFields DEF WaitOK, InQueue
  <2> QED BY <2>2, <2>3
<1>2. CASE main.block # Nil
  <2>1. main' = [main EXCEPT !.phase = "accepted", !.target = Nil]
    BY <1>2 DEF AfterCheckpoint
  <2>2. /\ main'.block = main.block /\ main'.queue = main.queue /\ main'.ok = main.ok
        /\ main'.phase # "accept"
    BY <1>0, <2>1 DEF Main
  <2> QED BY <2>2, LaterWaits
<1> QED BY <1>1, <1>2

\* SetBestChain to a checkpoint fails only when its branch does not connect.
LEMMA MoveWaits ==
  ASSUME IInv, WInv, MoveToCheckpoint
  PROVE  WInv'
<1> USE DEF orphans, checkpoints
<1>0. SettleOK /\ main \in Main /\ TargetOK /\ mapBlockIndex \subseteq Block
  BY DEF WInv, IInv, TypeOK
<1>1. /\ main.phase = "move" /\ main.target \in Block
      /\ UNCHANGED <<mapBlockIndex, mapOrphanBlocks, hashPendingCheckpoint>>
      /\ faults' = faults \/ Fault
  BY <1>0 DEF MoveToCheckpoint, MoveTip, MoveTipFails, TargetOK
<1>2. faults' = 0 => faults = 0 /\ ~Fault
  BY <1>1, FaultsGrow
<1>3. CASE main' = [main EXCEPT !.phase = "write"]
  <2>1. /\ main'.block = main.block /\ main'.queue = main.queue /\ main'.ok = main.ok
        /\ main'.phase = "write" /\ main'.target = main.target
    BY <1>0, <1>3 DEF Main
  <2>2. FreshOK' /\ WaitOK' /\ ReportOK'
    BY <1>1, <1>2, <2>1, LaterWaits
  <2>3. SettleOK'
    BY <1>0, <1>1, <1>2, <2>1 DEF SettleOK
  <2> QED BY <2>2, <2>3 DEF WInv
<1>4. CASE main' = AfterCheckpoint /\ (Fault \/ ~BranchConnects(main.target))
  <2>1. FreshOK' /\ WaitOK' /\ ReportOK'
    BY <1>1, <1>2, <1>4, AfterCheckpointWaits
  <2>2. SettleOK'
    BY <1>0, <1>1, <1>2, <1>4, BranchFails DEF SettleOK
  <2> QED BY <2>1, <2>2 DEF WInv
<1> QED BY <1>3, <1>4 DEF MoveToCheckpoint, MoveTipFails

\* A checkpoint that is written is no longer pending.
LEMMA WriteWaits ==
  ASSUME IInv, WInv, WriteSyncCheckpoint
  PROVE  WInv'
<1> USE DEF orphans, checkpoints
<1>0. SettleOK /\ Nil \notin mapBlockIndex
  BY BlockArrivalAssumption DEF WInv, IInv, TypeOK
<1>1. /\ main.phase = "write" /\ main' = AfterCheckpoint
      /\ UNCHANGED <<mapBlockIndex, mapOrphanBlocks>>
      /\ \/ hashPendingCheckpoint' = Nil /\ faults' = faults
         \/ Fault
  BY DEF WriteSyncCheckpoint
<1>2. faults' = 0 => faults = 0 /\ ~Fault
  BY <1>1, FaultsGrow
<1>3. FreshOK' /\ WaitOK' /\ ReportOK'
  BY <1>1, <1>2, AfterCheckpointWaits
<1>4. SettleOK'
  BY <1>0, <1>1, <1>2 DEF SettleOK
<1> QED BY <1>3, <1>4 DEF WInv

\* The block that arrived becomes the first entry of vWorkQueue, unless nothing
\* has to wait for it.
LEMMA AfterAcceptWaits ==
  ASSUME IInv, WInv, AfterAcceptBlock
  PROVE  WInv'
<1> USE DEF orphans, checkpoints, bounds
<1>0. /\ FreshOK /\ WaitOK /\ ReportOK /\ SettleOK /\ Nil \notin mapBlockIndex
      /\ main \in Main
  BY BlockArrivalAssumption DEF WInv, IInv, TypeOK
<1>1. /\ main.phase = "accepted" /\ main.queue = << >> /\ main.block \in Block
      /\ UNCHANGED <<mapBlockIndex, mapOrphanBlocks, hashPendingCheckpoint, faults>>
  BY DEF AfterAcceptBlock, IInv, PhaseOK
<1>2. CASE main' = Idle /\ ~main.ok
  <2>1. FreshOK' /\ ReportOK' /\ SettleOK'
    BY <1>0, <1>1, <1>2, IdleFields DEF FreshOK, ReportOK, SettleOK
  <2>2. WaitOK'
    BY <1>0, <1>1, <1>2, IdleFields DEF WaitOK, ReportOK, InQueue
  <2> QED BY <2>1, <2>2 DEF WInv
<1>3. CASE main' = [Idle EXCEPT !.phase = "orphans", !.queue = <<main.block>>,
                                !.todo = ChildrenOf(main.block)]
  <2>1. main'.phase = "orphans" /\ main'.block = Nil /\ main'.queue = <<main.block>>
    BY <1>3, IdleFields, IdleType DEF Main
  <2>2. Len(<<main.block>>) = 1 /\ <<main.block>>[1] = main.block /\ 1 \in 1 .. 1
    OBVIOUS
  <2>3. FreshOK' /\ ReportOK' /\ SettleOK'
    BY <1>0, <1>1, <2>1 DEF FreshOK, ReportOK, SettleOK
  <2>5. WaitOK'
    <3> SUFFICES ASSUME faults' = 0, NEW b \in mapOrphanBlocks', Prev[b] \in mapBlockIndex',
                        Anc[Prev[b]] \subseteq Connects
                 PROVE  InQueue(Prev[b])'
      BY DEF WaitOK
    <3>1. Prev[b] = main.block
      BY <1>0, <1>1 DEF WaitOK, InQueue
    <3> QED BY <2>1, <2>2, <3>1 DEF InQueue
  <2> QED BY <2>3, <2>5 DEF WInv
<1> QED BY <1>2, <1>3 DEF AfterAcceptBlock

\* AcceptBlock is called for an orphan.
LEMMA TryWaits ==
  ASSUME IInv, WInv, NEW b \in Block, TryOrphan(b)
  PROVE  WInv'
<1> USE DEF orphans, checkpoints, bounds
<1>0. /\ FreshOK /\ WaitOK /\ ReportOK /\ SettleOK /\ Nil \notin mapBlockIndex
      /\ main \in Main /\ PhaseOK /\ LoopOK /\ IndexOK
  BY BlockArrivalAssumption DEF WInv, IInv, TypeOK
<1>1. /\ main.phase = "orphans" /\ main.block = Nil /\ b \in main.todo /\ main.queue # << >>
      /\ UNCHANGED <<mapBlockIndex, mapOrphanBlocks, hashPendingCheckpoint, faults>>
      /\ main' = [main EXCEPT !.phase = "accept", !.block = b, !.todo = main.todo \ {b}]
  BY <1>0 DEF TryOrphan, PhaseOK
<1>2. main'.phase = "accept" /\ main'.block = b /\ main'.queue = main.queue
  BY <1>0, <1>1 DEF Main
<1>3. b \notin mapBlockIndex
  BY <1>0, <1>1, BlockArrivalAssumption DEF LoopOK, Current, IndexOK
<1>4. FreshOK' /\ ReportOK' /\ SettleOK'
  BY <1>0, <1>1, <1>2, <1>3 DEF FreshOK, ReportOK, SettleOK
<1>5. WaitOK'
  BY <1>0, <1>1, <1>2 DEF WaitOK, InQueue
<1> QED BY <1>4, <1>5 DEF WInv

\* An orphan that was accepted joins vWorkQueue; nothing has to wait for one
\* that was refused.
LEMMA AfterOrphanWaits ==
  ASSUME IInv, WInv, AfterOrphan
  PROVE  WInv'
<1> USE DEF checkpoints, bounds
<1>0. /\ FreshOK /\ WaitOK /\ ReportOK /\ SettleOK /\ Nil \notin mapBlockIndex
      /\ main \in Main /\ main.queue \in Seq(Block)
  BY BlockArrivalAssumption DEF WInv, IInv, TypeOK, Main
<1> DEFINE q == IF main.ok THEN Append(main.queue, main.block) ELSE main.queue
<1>1. /\ main.phase = "accepted" /\ main.block \in Block
      /\ mapOrphanBlocks' \subseteq mapOrphanBlocks
      /\ UNCHANGED <<mapBlockIndex, hashPendingCheckpoint, faults>>
      /\ main' = [main EXCEPT !.phase = "orphans", !.block = Nil, !.queue = q]
  BY DEF AfterOrphan, IInv, PhaseOK
<1>2. /\ \A i \in 1 .. Len(main.queue) : i \in 1 .. Len(q) /\ q[i] = main.queue[i]
      /\ main.ok => Len(q) \in 1 .. Len(q) /\ q[Len(q)] = main.block
  BY <1>0, <1>1
<1> HIDE DEF q
<1>3. main'.phase = "orphans" /\ main'.block = Nil /\ main'.queue = q
  BY <1>0, <1>1 DEF Main
<1>4. FreshOK' /\ ReportOK' /\ SettleOK'
  BY <1>0, <1>1, <1>3 DEF FreshOK, ReportOK, SettleOK
<1>5. WaitOK'
  <2> SUFFICES ASSUME faults' = 0, NEW b \in mapOrphanBlocks', Prev[b] \in mapBlockIndex',
                      Anc[Prev[b]] \subseteq Connects
               PROVE  InQueue(Prev[b])'
    BY DEF WaitOK
  <2>1. Prev[b] = main.block \/ InQueue(Prev[b])
    BY <1>0, <1>1 DEF WaitOK
  <2>2. Prev[b] = main.block => main.ok
    BY <1>0, <1>1 DEF ReportOK
  <2>3. CASE Prev[b] = main.block
    BY <1>2, <1>3, <2>2, <2>3 DEF InQueue
  <2>4. CASE InQueue(Prev[b])
    <3>1. PICK i \in 1 .. Len(main.queue) : main.queue[i] = Prev[b]
      BY <2>4 DEF InQueue
    <3> QED BY <1>2, <1>3, <3>1 DEF InQueue
  <2> QED BY <2>1, <2>3, <2>4
<1> QED BY <1>4, <1>5 DEF WInv

\* No orphan waits for an entry that vWorkQueue leaves behind.
LEMMA NextInQueueWaits ==
  ASSUME IInv, WInv, NextInQueue
  PROVE  WInv'
<1> USE DEF checkpoints, bounds
<1>0. /\ FreshOK /\ WaitOK /\ ReportOK /\ SettleOK /\ Nil \notin mapBlockIndex
      /\ main \in Main /\ PhaseOK /\ LoopOK
  BY BlockArrivalAssumption DEF WInv, IInv, TypeOK
<1>1. /\ main.phase = "orphans" /\ main.block = Nil /\ main.queue # << >> /\ main.todo = {}
      /\ main.queue \in Seq(Block)
      /\ UNCHANGED <<mapBlockIndex, mapOrphanBlocks, hashPendingCheckpoint, faults>>
  BY <1>0 DEF NextInQueue, PhaseOK, Main
<1>2. \A c \in mapOrphanBlocks : Prev[c] # Head(main.queue)
  BY <1>0, <1>1 DEF LoopOK, Current
<1>3. Head(main.queue) = main.queue[1]
  BY <1>1
<1>4. ASSUME NEW b \in mapOrphanBlocks, faults = 0, Prev[b] \in mapBlockIndex,
             Anc[Prev[b]] \subseteq Connects
      PROVE  \E i \in 1 .. Len(main.queue) : i # 1 /\ main.queue[i] = Prev[b]
  BY <1>0, <1>1, <1>2, <1>3, <1>4 DEF WaitOK, InQueue
<1>5. CASE Len(main.queue) = 1 /\ main' = Idle
  <2>1. FreshOK' /\ ReportOK' /\ SettleOK'
    BY <1>0, <1>1, <1>5, IdleFields DEF FreshOK, ReportOK, SettleOK
  <2>2. \A i \in 1 .. Len(main.queue) : i = 1
    BY <1>5
  <2>3. WaitOK'
    BY <1>1, <1>4, <2>2 DEF WaitOK
  <2> QED BY <2>1, <2>3 DEF WInv
<1>6. CASE /\ Len(main.queue) # 1
           /\ main' = [main EXCEPT !.queue = Tail(main.queue),
                                   !.todo = ChildrenOf(main.queue[2])]
  <2>1. main'.phase = "orphans" /\ main'.block = Nil /\ main'.queue = Tail(main.queue)
    BY <1>0, <1>1, <1>6 DEF Main
  <2>2. /\ Len(Tail(main.queue)) = Len(main.queue) - 1 /\ Len(main.queue) \in Nat
        /\ \A i \in 1 .. Len(Tail(main.queue)) : Tail(main.queue)[i] = main.queue[i + 1]
    BY <1>1, <1>6, TailFacts
  <2>3. FreshOK' /\ ReportOK' /\ SettleOK'
    BY <1>0, <1>1, <2>1 DEF FreshOK, ReportOK, SettleOK
  <2>4. WaitOK'
    <3> SUFFICES ASSUME faults' = 0, NEW b \in mapOrphanBlocks', Prev[b] \in mapBlockIndex',
                        Anc[Prev[b]] \subseteq Connects
                 PROVE  InQueue(Prev[b])'
      BY DEF WaitOK
    <3>1. PICK i \in 1 .. Len(main.queue) : i # 1 /\ main.queue[i] = Prev[b]
      BY <1>1, <1>4
    <3>2. i - 1 \in 1 .. Len(Tail(main.queue)) /\ (i - 1) + 1 = i
      BY <2>2, <3>1
    <3>3. Tail(main.queue)[i - 1] = Prev[b]
      BY <2>2, <3>1, <3>2
    <3> QED BY <2>1, <3>2, <3>3 DEF InQueue
  <2> QED BY <2>3, <2>4 DEF WInv
<1> QED BY <1>5, <1>6 DEF NextInQueue

\* A start leaves no orphan and no checkpoint to be taken.
LEMMA StartWaits ==
  ASSUME IInv, Restart \/ ResetSyncCheckpoint
  PROVE  WInv'
<1>0. Nil \notin mapBlockIndex
  BY BlockArrivalAssumption DEF IInv, TypeOK
<1>1. main' = Idle /\ mapOrphanBlocks' = {} /\ mapBlockIndex' = mapBlockIndex
  BY DEF Restart, ResetSyncCheckpoint, Restarted
<1>2. hashPendingCheckpoint' \notin mapBlockIndex
  BY <1>0 DEF Restart, ResetSyncCheckpoint
<1> QED BY <1>0, <1>1, <1>2, IdleFields DEF WInv, FreshOK, WaitOK, ReportOK, SettleOK

\* Every step keeps both.
LEMMA NextWInv == IInv /\ WInv /\ [Next]_vars => WInv'
<1> SUFFICES ASSUME IInv, WInv, [Next]_vars PROVE WInv'
  OBVIOUS
<1>0. asked \subseteq Block
  BY DEF IInv, TypeOK
<1>1. ASSUME NEW b \in Block \ {Genesis}, BlockMessage(b, asked) \/ Answer(b)
      PROVE  WInv'
  BY <1>0, <1>1, MessageWaits DEF Answer
<1>2. ASSUME NEW c \in Signed, ProcessSyncCheckpoint(c)
      PROVE  WInv'
  BY <1>2, CheckpointMessageWaits, BlockArrivalAssumption
<1>3. CASE MainStep
  BY <1>3, RejectWaits, AcceptWaits, PendingWaits, MoveWaits, WriteWaits, AfterAcceptWaits,
     TryWaits, AfterOrphanWaits, NextInQueueWaits DEF MainStep
<1>4. CASE UNCHANGED vars
  BY <1>4, StillWaits DEF vars, orphans, checkpoints, bounds
<1> QED BY <1>1, <1>2, <1>3, <1>4, StartWaits DEF Next

\* Nothing is left behind in any state of the node.
LEMMA WaitInvariance == Spec => [](IInv /\ WInv)
<1>1. Init => IInv /\ WInv
  BY InitIInv, InitWInv
<1>2. (IInv /\ WInv) /\ [Next]_vars => (IInv /\ WInv)'
  BY NextIInv, NextWInv
<1> QED BY <1>1, <1>2, PTL DEF Spec

\* As long as no write fails, no orphan whose previous block is there on a chain
\* that connects is left when a handler ends: vWorkQueue reaches all of them
\* (ProcessBlock).
THEOREM OrphansOnlyWaitForBlocks == Spec => []OrphansWait
<1>1. IInv /\ WInv => OrphansWait
  <2> SUFFICES ASSUME IInv, WInv, main = Idle, faults = 0, NEW b \in mapOrphanBlocks,
                      Prev[b] \in mapBlockIndex, Anc[Prev[b]] \subseteq Connects
               PROVE  FALSE
    BY DEF OrphansWait
  <2>1. Nil \notin mapBlockIndex /\ main.block = Nil /\ main.queue = << >>
    BY IdleFields, BlockArrivalAssumption DEF IInv, TypeOK
  <2> QED BY <2>1 DEF WInv, WaitOK, InQueue
<1> QED BY <1>1, WaitInvariance, PTL

\* As long as no write fails, a checkpoint that had to wait is taken or refused
\* by the handler that brings its block, also when that is an orphan
\* (AcceptPendingSyncCheckpoint at the end of AcceptBlock).
THEOREM CheckpointsAreSettled == Spec => []PendingIsSettled
<1>1. IInv /\ WInv => PendingIsSettled
  BY IdleFields DEF WInv, SettleOK, PendingIsSettled
<1> QED BY <1>1, WaitInvariance, PTL
=============================================================================
