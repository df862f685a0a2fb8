--------------------------- MODULE MempoolProofs ---------------------------
(***************************************************************************)
(* What holds of the memory pool for every block tree, every set of        *)
(* transactions and every interleaving of the two threads.                 *)
(***************************************************************************)
EXTENDS Mempool, FiniteSetTheorems, TLAPS

(***************************************************************************)
(* The inductive invariant.  What a handler found when it checked a        *)
(* transaction still holds when it stores it, and what the handler of a    *)
(* block is about to remove covers the pool transactions now confirmed;    *)
(* before the commit its lists come from the two chains it goes between.   *)
(***************************************************************************)
StoreOK ==
    /\ main.phase = "store" =>
          /\ main.tx \in Tx \ Confirmed
          /\ restarts = 0 => Unclaimed(main.tx)
          /\ reorgs = 0 => InputsKnown(main.tx)
    /\ main.phase = "sync" => main.tx \in Tx

CommitOK ==
    main.phase = "commit" =>
        /\ main.block \in Block
        /\ \/ /\ Prev[main.block] = tip /\ main.vDelete = BlockTx[main.block]
              /\ main.vResurrect = {} /\ ~main.reorg
           \/ /\ reorgs # 0
              /\ main.vResurrect = TxsOf(Anc[tip] \ Anc[main.block]) \ Generated
              /\ main.vDelete = TxsOf(Anc[main.block] \ Anc[tip])

BlockOK ==
    main.phase = "block" =>
        /\ main.vDelete \subseteq Confirmed
        /\ (mapTx \cup main.vResurrect) \cap Confirmed \subseteq main.vDelete
        /\ \A t, u \in main.vResurrect : t # u => Vin[t] \cap Vin[u] = {}
        /\ reorgs = 0 => ~main.reorg /\ main.vResurrect = {}

ReacceptOK == restarts = 0 => reaccept = Done

IInv ==
    /\ TypeOK
    /\ StoreOK
    /\ CommitOK
    /\ BlockOK
    /\ ReacceptOK
    /\ PoolIndexed
    /\ PoolUnconfirmed
    /\ PoolConnects
    /\ OrphansIndexed
    /\ IsFiniteSet(mapOrphanTransactions)

\* The transactions of a block set are transactions.
LEMMA TxsOfType == \A B \in SUBSET Block : TxsOf(B) \subseteq Tx
  BY MempoolAssumption DEF TxsOf

\* The transactions of a chain are transactions.
LEMMA ConfirmedType == TypeOK => Confirmed \subseteq Tx
  BY MempoolAssumption, TxsOfType DEF Confirmed, TypeOK

\* Dependents contains what it starts from and is closed under Spenders.
LEMMA DependentsClosed ==
  ASSUME NEW S \in SUBSET Tx, NEW next \in [Out -> Tx \cup {Nil}]
  PROVE  /\ S \subseteq Dependents(S, next)
         /\ Dependents(S, next) \subseteq Tx
         /\ Spenders(Dependents(S, next), next) \subseteq Dependents(S, next)
<1>1. S \subseteq Dependents(S, next) /\ Dependents(S, next) \subseteq Tx
  BY DEF Dependents
<1>2. ASSUME NEW u \in Spenders(Dependents(S, next), next)
      PROVE  u \in Dependents(S, next)
  <2>1. PICK o \in Out : OutTx[o] \in Dependents(S, next) /\ u = next[o] /\ u # Nil
    BY <1>2 DEF Spenders
  <2>2. u \in Tx
    BY <2>1
  <2>3. ASSUME NEW D \in SUBSET Tx, S \subseteq D, Spenders(D, next) \subseteq D
        PROVE  u \in D
    <3>1. OutTx[o] \in D
      BY <2>1, <2>3 DEF Dependents
    <3>2. u \in Spenders(D, next)
      BY <2>1, <3>1 DEF Spenders
    <3> QED BY <3>2, <2>3
  <2> QED BY <2>2, <2>3 DEF Dependents
<1> QED BY <1>1, <1>2

\* Nothing depends on nothing.
LEMMA DependentsOfNone ==
  ASSUME NEW next \in [Out -> Tx \cup {Nil}]
  PROVE  Dependents({}, next) = {}
<1>1. Spenders({}, next) = {}
  BY DEF Spenders
<1>2. {} \in SUBSET Tx /\ {} \subseteq {} /\ Spenders({}, next) \subseteq {}
  BY <1>1
<1> QED BY <1>2 DEF Dependents

\* The initial state.
LEMMA InitIInv == Init => IInv
<1> SUFFICES ASSUME Init PROVE IInv
  OBVIOUS
<1>1. TypeOK
  BY MempoolAssumption DEF Init, TypeOK, Main, Reaccept, Idle, Done, Origins
<1>2. StoreOK /\ CommitOK /\ BlockOK /\ ReacceptOK
  BY DEF Init, StoreOK, CommitOK, BlockOK, ReacceptOK, Idle
<1>3. PoolIndexed
  BY MempoolAssumption DEF Init, PoolIndexed, Indexed, IsIndexOf
<1>4. PoolUnconfirmed /\ PoolConnects
  BY DEF Init, PoolUnconfirmed, PoolConnects, Connected
<1>5. IsFiniteSet(mapOrphanTransactions) /\ Cardinality(mapOrphanTransactions) = 0
  BY FS_EmptySet DEF Init
<1>6. OrphansIndexed
  BY <1>5, MempoolAssumption DEF Init, OrphansIndexed
<1> QED BY <1>1, <1>2, <1>3, <1>4, <1>5, <1>6 DEF IInv

-----------------------------------------------------------------------------
(***************************************************************************)
(* Types.                                                                  *)
(***************************************************************************)
\* The two rest states.
LEMMA RestTypes == Idle \in Main /\ Done \in Reaccept
  BY DEF Idle, Main, Origins, Done, Reaccept

\* An insertion keeps the types of the pool.
LEMMA AddedType ==
  ASSUME NEW S \in SUBSET Tx, NEW next \in [Out -> Tx \cup {Nil}]
  PROVE  Added(S, next) \in [Out -> Tx \cup {Nil}]
<1>1. \A o \in Out : (\E t \in S : o \in Vin[t]) => (CHOOSE t \in S : o \in Vin[t]) \in S
  OBVIOUS
<1> QED BY <1>1 DEF Added

\* The same, for the action.
LEMMA AddType ==
  ASSUME TypeOK, NEW t \in Tx, addUnchecked(t)
  PROVE  mapTx' \subseteq Tx /\ mapNextTx' \in [Out -> Tx \cup {Nil}]
  BY AddedType DEF addUnchecked, TypeOK

\* Every step keeps the types.
LEMMA TypeStep ==
  ASSUME IInv, [Next]_vars
  PROVE  TypeOK'
<1> USE MempoolAssumption
<1>0. TypeOK
  BY DEF IInv
<1>1. ASSUME NEW t \in Tx, ReceiveTx(t) PROVE TypeOK'
  <2>1. main' \in Main
    <3>1. CASE UNCHANGED main
      BY <1>0, <3>1 DEF TypeOK
    <3>2. CASE main' = [Idle EXCEPT !.phase = "store", !.tx = t, !.from = "peer"]
      BY <3>2, RestTypes DEF Main, Origins
    <3> QED BY <1>1, <3>1, <3>2 DEF ReceiveTx
  <2> QED BY <1>0, <1>1, <2>1 DEF ReceiveTx, TypeOK, pool, orphans, bounds
<1>2. ASSUME NEW t \in Tx, ReceiveOrphan(t) PROVE TypeOK'
  BY <1>0, <1>2 DEF ReceiveOrphan, TypeOK, Enter, EraseOrphanTx, pool, bounds
<1>3. ASSUME NEW t \in Tx, SendRawTransaction(t) PROVE TypeOK'
  <2>1. main' \in Main
    BY <1>0, <1>3, RestTypes DEF SendRawTransaction, TypeOK, Main, Origins
  <2> QED BY <1>0, <1>3, <2>1 DEF SendRawTransaction, TypeOK, pool, orphans, bounds
<1>4. ASSUME NEW t \in Tx, CommitTransaction(t) PROVE TypeOK'
  <2>1. main' \in Main
    <3>1. CASE main' = main
      BY <1>0, <3>1 DEF TypeOK
    <3>2. CASE main' = [Idle EXCEPT !.phase = "store", !.tx = t, !.from = "wallet"]
      BY <3>2, RestTypes DEF Main, Origins
    <3> QED BY <1>4, <3>1, <3>2 DEF CommitTransaction
  <2>2. mapWallet' \subseteq Tx
    BY <1>0, <1>4 DEF CommitTransaction, TypeOK
  <2> QED BY <1>0, <1>4, <2>1, <2>2 DEF CommitTransaction, TypeOK, pool, orphans, bounds
<1>5. ASSUME NEW b \in Block, SetBestChainInner(b) PROVE TypeOK'
  <2>1. main' \in Main
    <3>1. main' = [Idle EXCEPT !.phase = "commit", !.block = b, !.vDelete = BlockTx[b]]
      BY <1>5 DEF SetBestChainInner
    <3>2. BlockTx[b] \subseteq Tx
      OBVIOUS
    <3> QED BY <3>1, <3>2, RestTypes DEF Main
  <2>2. mapWallet' \subseteq Tx
    BY <1>0, <1>5 DEF SetBestChainInner, SyncWithWallets, TypeOK
  <2> QED BY <1>0, <1>5, <2>1, <2>2 DEF SetBestChainInner, TypeOK, pool, orphans, bounds
<1>6. ASSUME NEW b \in Block, Reorganize(b) PROVE TypeOK'
  <2>1. TxsOf(Anc[tip] \ Anc[b]) \subseteq Tx /\ TxsOf(Anc[b] \ Anc[tip]) \subseteq Tx
    BY <1>0, TxsOfType DEF TypeOK
  <2>2. main' \in Main
    <3>1. main' = [Idle EXCEPT !.phase = "commit", !.block = b, !.reorg = TRUE,
                               !.vResurrect = TxsOf(Anc[tip] \ Anc[b]) \ Generated,
                               !.vDelete = TxsOf(Anc[b] \ Anc[tip])]
      BY <1>6 DEF Reorganize
    <3> QED BY <3>1, <2>1, RestTypes DEF Main
  <2>4. mapWallet' \subseteq Tx
    BY <1>0, <1>6, <2>1 DEF Reorganize, SyncWithWallets, TypeOK
  <2>3. reorgs' \in 0 .. MaxReorgs
    BY <1>0, <1>6 DEF Reorganize, TypeOK
  <2> QED BY <1>0, <1>6, <2>2, <2>3, <2>4 DEF Reorganize, TypeOK, pool, orphans
<1>7. ASSUME NEW t \in Tx, TryOrphan(t) PROVE TypeOK'
  <2>1. main \in Main
    BY <1>0 DEF TypeOK
  <2>2. main' \in Main
    <3>1. CASE main' = [main EXCEPT !.phase = "store", !.tx = t, !.from = "orphan",
                                    !.todo = @ \ {t}]
      BY <2>1, <3>1 DEF Main, Origins
    <3>2. CASE main' = [main EXCEPT !.todo = @ \ {t}]
      BY <2>1, <3>2 DEF Main
    <3>3. CASE main' = [main EXCEPT !.todo = @ \ {t}, !.erase = @ \cup {t}]
      BY <2>1, <3>3 DEF Main
    <3> QED BY <1>7, <3>1, <3>2, <3>3 DEF TryOrphan
  <2> QED BY <1>0, <1>7, <2>2 DEF TryOrphan, TypeOK, pool, orphans, bounds
<1>8. CASE Store
  <2>1. main.tx \in Tx
    BY <1>8 DEF IInv, StoreOK, Store
  <2>2. mapTx' \subseteq Tx /\ mapNextTx' \in [Out -> Tx \cup {Nil}]
    BY <1>0, <1>8, <2>1, AddType DEF Store
  <2>3. main' \in Main
    BY <1>0, <1>8 DEF Store, TypeOK, Main
  <2> QED BY <1>0, <1>8, <2>2, <2>3 DEF Store, TypeOK, orphans, bounds
<1>8a. CASE AfterStore
  <2>1. main.tx \in Tx
    BY <1>8a DEF IInv, StoreOK, AfterStore
  <2>3. mapWallet' \subseteq Tx
    BY <1>0, <1>8a, <2>1 DEF AfterStore, SyncWithWallets, TypeOK
  <2>4. ASSUME main.from = "peer" PROVE main' \in Main
    <3>1. <<main.tx>> \in Seq(Tx) /\ mapOrphanTransactionsByPrev[main.tx] \subseteq Tx
      BY <1>0, <2>1 DEF TypeOK
    <3>2. main' = [Idle EXCEPT !.phase = "orphans", !.queue = <<main.tx>>,
                               !.todo = mapOrphanTransactionsByPrev[main.tx],
                               !.erase = {main.tx}]
      BY <1>8a, <2>4 DEF AfterStore
    <3> QED BY <3>1, <3>2, <2>1, RestTypes DEF Main
  <2>5. ASSUME main.from = "orphan" PROVE main' \in Main
    <3>1. main.queue \in Seq(Tx) /\ main \in Main
      BY <1>0 DEF TypeOK, Main
    <3>2. Append(main.queue, main.tx) \in Seq(Tx)
      BY <3>1, <2>1
    <3>3. main' = [main EXCEPT !.phase = "orphans", !.tx = Nil, !.from = "peer",
                               !.queue = Append(@, main.tx),
                               !.erase = @ \cup {main.tx}]
      BY <1>8a, <2>5 DEF AfterStore
    <3> QED BY <3>1, <3>2, <3>3, <2>1 DEF Main, Origins
  <2>6. ASSUME main.from \in {"rpc", "wallet"} PROVE main' \in Main
    BY <1>8a, <2>6, RestTypes DEF AfterStore
  <2>7. main' \in Main
    BY <1>8a, <2>4, <2>5, <2>6 DEF AfterStore
  <2> QED BY <1>0, <1>8a, <2>3, <2>7 DEF AfterStore, TypeOK, pool, orphans, bounds
<1>9. CASE NextInQueue
  <2>1. Tail(main.queue) \in Seq(Tx) /\ main.queue[2] \in Tx
    BY <1>0, <1>9 DEF NextInQueue, TypeOK, Main
  <2> QED BY <1>0, <1>9, <2>1 DEF NextInQueue, TypeOK, Main, pool, orphans, bounds
<1>10. CASE EraseOrphans
  BY <1>0, <1>10 DEF EraseOrphans, EraseOrphanTx, TypeOK, Idle, Main, Origins, pool, bounds
<1>10a. CASE TxnCommit
  <2>1. main \in Main /\ main.block \in Block
    BY <1>0, <1>10a DEF IInv, CommitOK, TxnCommit, TypeOK
  <2>2. main' \in Main
    <3>1. CASE main' = Idle
      BY <3>1, RestTypes
    <3>2. CASE main' = [main EXCEPT !.phase = "block", !.block = Nil]
      BY <2>1, <3>2 DEF Main
    <3> QED BY <1>10a, <3>1, <3>2 DEF TxnCommit
  <2>3. tip' \in Block
    BY <1>0, <1>10a, <2>1 DEF TxnCommit, TypeOK
  <2> QED BY <1>0, <1>10a, <2>2, <2>3 DEF TxnCommit, TypeOK, pool, orphans, bounds
<1>11. CASE UpdatePool
  <2> DEFINE back == {t \in main.vResurrect : PassesFirst(t, FALSE)}
  <2>1. back \subseteq Tx
    BY <1>0 DEF TypeOK, Main
  <2>3. Added(back, mapNextTx) \in [Out -> Tx \cup {Nil}]
    <3> HIDE DEF back
    <3> QED BY <1>0, <2>1, AddedType DEF TypeOK
  <2>4. mapTx' \subseteq Tx
    BY <1>0, <1>11, <2>1 DEF UpdatePool, TypeOK
  <2>5. \A S, n : n \in [Out -> Tx \cup {Nil}] => Without(S, n) \in [Out -> Tx \cup {Nil}]
    BY DEF Without
  <2>6. mapNextTx' \in [Out -> Tx \cup {Nil}]
    BY <1>11, <2>3, <2>5 DEF UpdatePool
  <2>7. main' \in Main /\ UNCHANGED <<tip, orphans, mapWallet, reaccept, bounds>>
    BY <1>11, RestTypes DEF UpdatePool
  <2> HIDE DEF back
  <2> QED BY <1>0, <2>4, <2>6, <2>7 DEF TypeOK, orphans, bounds
<1>12. CASE Restart
  <2>1. reaccept' \in Reaccept /\ main' \in Main
    BY <1>12, RestTypes DEF Restart, Reaccept
  <2>2. restarts' \in 0 .. MaxRestarts
    BY <1>0, <1>12 DEF Restart, TypeOK
  <2> QED BY <1>0, <1>12, <2>1, <2>2 DEF Restart, TypeOK
<1>13. CASE StartReaccept
  <2>1. reaccept' \in Reaccept
    BY <1>0, <1>13, RestTypes DEF StartReaccept, TypeOK, Reaccept
  <2> QED BY <1>0, <1>13, <2>1 DEF StartReaccept, TypeOK, pool, orphans, bounds
<1>14. ASSUME NEW t \in Tx, VisitWalletTx(t) PROVE TypeOK'
  <2>1. Append(Supporting[t], t) \in Seq(Tx) /\ << >> \in Seq(Tx)
    OBVIOUS
  <2> QED BY <1>0, <1>14, <2>1 DEF VisitWalletTx, TypeOK, Reaccept, pool, orphans, bounds
<1>15. CASE AcceptWalletTransaction
  <2>1. Head(reaccept.queue) \in Tx /\ Tail(reaccept.queue) \in Seq(Tx)
    BY <1>0, <1>15 DEF AcceptWalletTransaction, TypeOK, Reaccept
  <2>2. mapTx' \subseteq Tx /\ mapNextTx' \in [Out -> Tx \cup {Nil}]
    BY <1>0, <1>15, <2>1, AddType DEF AcceptWalletTransaction, TypeOK, pool
  <2> QED BY <1>0, <1>15, <2>1, <2>2 DEF AcceptWalletTransaction, TypeOK, Reaccept, orphans, bounds
<1>16. CASE ReacceptDone
  BY <1>0, <1>16 DEF ReacceptDone, TypeOK, Done, Reaccept, pool, orphans, bounds
<1>17. CASE UNCHANGED vars
  BY <1>0, <1>17 DEF vars, TypeOK, pool, orphans, bounds
<1> QED
  BY <1>1, <1>2, <1>3, <1>4, <1>5, <1>6, <1>7, <1>8, <1>8a, <1>9, <1>10, <1>10a, <1>11, <1>12,
     <1>13, <1>14, <1>15, <1>16, <1>17 DEF Next, MainStep, ReacceptStep

-----------------------------------------------------------------------------
(***************************************************************************)
(* The steps sorted by what they do to the chain and the pool.             *)
(***************************************************************************)
Quiet ==
    \/ \E t \in Tx : \/ ReceiveTx(t) \/ ReceiveOrphan(t) \/ SendRawTransaction(t)
                     \/ CommitTransaction(t) \/ TryOrphan(t) \/ VisitWalletTx(t)
    \/ AfterStore \/ NextInQueue \/ EraseOrphans \/ StartReaccept \/ ReacceptDone
    \/ UNCHANGED vars

\* Six kinds of steps touch the tip, the pool or the bounds; the rest is quiet.
LEMMA StepKinds ==
  ASSUME [Next]_vars
  PROVE  \/ Quiet
         \/ Store
         \/ AcceptWalletTransaction
         \/ \E b \in Block : SetBestChainInner(b) \/ Reorganize(b)
         \/ TxnCommit
         \/ UpdatePool
         \/ Restart
  BY DEF Quiet, Next, MainStep, ReacceptStep

\* A quiet step neither enters nor leaves the handler of a block, and a
\* transaction it selects for storing has just passed every check.
QuietMain ==
    \/ main' = main
    \/ main.phase # "block" /\ main'.phase \in {"idle", "orphans"}
    \/ /\ main.phase # "block" /\ main'.phase = "store"
       /\ main'.tx \in Tx /\ Acceptable(main'.tx)

\* After the insertion the handler goes on with the loop over the orphans or ends.
LEMMA AfterStoreLeaves ==
  ASSUME TypeOK, AfterStore
  PROVE  main'.phase \in {"orphans", "idle"}
<1>1. CASE main.from = "peer"
  <2>1. main' = [Idle EXCEPT !.phase = "orphans", !.queue = <<main.tx>>,
                             !.todo = mapOrphanTransactionsByPrev[main.tx],
                             !.erase = {main.tx}]
    BY <1>1 DEF AfterStore
  <2> QED BY <2>1 DEF Idle
<1>2. CASE main.from = "orphan"
  <2>1. main' = [main EXCEPT !.phase = "orphans", !.tx = Nil, !.from = "peer",
                             !.queue = Append(@, main.tx), !.erase = @ \cup {main.tx}]
    BY <1>2 DEF AfterStore
  <2>2. main \in Main
    BY DEF TypeOK
  <2> QED BY <2>1, <2>2 DEF Main
<1>3. CASE main.from \in {"rpc", "wallet"}
  <2>1. main' = Idle
    BY <1>3 DEF AfterStore
  <2> QED BY <2>1 DEF Idle
<1> QED BY <1>1, <1>2, <1>3 DEF AfterStore

\* After the commit the handler of a block updates the pool or, when it failed, ends.
LEMMA CommitLeaves ==
  ASSUME TypeOK, TxnCommit
  PROVE  main'.phase \in {"block", "idle"}
<1>1. CASE main' = Idle
  BY <1>1 DEF Idle
<1>2. CASE main' = [main EXCEPT !.phase = "block", !.block = Nil]
  <2>1. main \in Main
    BY DEF TypeOK
  <2> QED BY <1>2, <2>1 DEF Main
<1> QED BY <1>1, <1>2 DEF TxnCommit

\* What the quiet steps have in common.
LEMMA QuietFacts ==
  ASSUME TypeOK, Quiet
  PROVE  /\ UNCHANGED <<tip, mapTx, mapNextTx, reorgs, restarts>>
         /\ QuietMain
<1> DEFINE Goal == UNCHANGED <<tip, mapTx, mapNextTx, reorgs, restarts>> /\ QuietMain
<1> USE DEF QuietMain, pool, bounds
<1>0. main \in Main
  BY DEF TypeOK
<1>1. ASSUME NEW t \in Tx, ReceiveTx(t) PROVE Goal
  BY <1>1 DEF ReceiveTx, Idle
<1>2. ASSUME NEW t \in Tx, ReceiveOrphan(t) PROVE Goal
  BY <1>2 DEF ReceiveOrphan
<1>3. ASSUME NEW t \in Tx, SendRawTransaction(t) PROVE Goal
  BY <1>3 DEF SendRawTransaction, Idle
<1>4. ASSUME NEW t \in Tx, CommitTransaction(t) PROVE Goal
  BY <1>4 DEF CommitTransaction, Idle
<1>5. ASSUME NEW t \in Tx, TryOrphan(t) PROVE Goal
  BY <1>0, <1>5 DEF TryOrphan, Main
<1>6. ASSUME NEW t \in Tx, VisitWalletTx(t) PROVE Goal
  BY <1>6 DEF VisitWalletTx
<1>7. ASSUME NextInQueue PROVE Goal
  BY <1>0, <1>7 DEF NextInQueue, Main
<1>8. ASSUME EraseOrphans PROVE Goal
  BY <1>8 DEF EraseOrphans, Idle
<1>9. ASSUME StartReaccept PROVE Goal
  BY <1>9 DEF StartReaccept
<1>10. ASSUME ReacceptDone PROVE Goal
  BY <1>10 DEF ReacceptDone
<1>11. ASSUME UNCHANGED vars PROVE Goal
  BY <1>11 DEF vars
<1>13. ASSUME AfterStore PROVE Goal
  <2>1. UNCHANGED <<tip, pool, bounds>> /\ main.phase = "sync"
    BY <1>13 DEF AfterStore
  <2>2. main'.phase \in {"orphans", "idle"}
    BY <1>13, AfterStoreLeaves
  <2> QED BY <2>1, <2>2
<1> HIDE DEF Goal
<1>12. Goal
  BY <1>1, <1>2, <1>3, <1>4, <1>5, <1>6, <1>7, <1>8, <1>9, <1>10, <1>11, <1>13 DEF Quiet
<1> QED BY <1>12 DEF Goal

\* Until the first restart the second thread has nothing to do.
LEMMA ReacceptStepOK ==
  ASSUME IInv, [Next]_vars
  PROVE  ReacceptOK'
<1>0. TypeOK /\ ReacceptOK
  BY DEF IInv
<1>1. ASSUME restarts' = 0 PROVE reaccept' = Done
  <2>1. CASE UNCHANGED <<reaccept, restarts>>
    BY <1>0, <1>1, <2>1 DEF ReacceptOK
  <2>2. CASE Restart
    BY <1>0, <1>1, <2>2, MempoolAssumption DEF Restart, TypeOK
  <2>4. ASSUME restarts = restarts' /\ reaccept = Done PROVE ~ReacceptStep /\ ~StartReaccept
    BY <2>4 DEF ReacceptStep, StartReaccept, VisitWalletTx, AcceptWalletTransaction,
                ReacceptDone, Done
  <2>5. CASE ReacceptStep \/ StartReaccept
    <3>1. restarts = restarts'
      BY <2>5 DEF ReacceptStep, StartReaccept, VisitWalletTx, AcceptWalletTransaction,
                  ReacceptDone, bounds
    <3> QED BY <1>0, <1>1, <2>4, <2>5, <3>1 DEF ReacceptOK
  <2> QED
    BY <2>1, <2>2, <2>5
    DEF Next, MainStep, vars, bounds, ReceiveTx, ReceiveOrphan, SendRawTransaction,
        CommitTransaction, SetBestChainInner, Reorganize, TryOrphan, Store, AfterStore, NextInQueue,
        EraseOrphans, TxnCommit, UpdatePool
<1> QED BY <1>1 DEF ReacceptOK

\* The second thread works only after a restart.
LEMMA ReacceptLater ==
  ASSUME IInv, AcceptWalletTransaction
  PROVE  restarts # 0 /\ restarts' = restarts /\ reorgs' = reorgs
  BY DEF IInv, ReacceptOK, AcceptWalletTransaction, Done, bounds

-----------------------------------------------------------------------------
(***************************************************************************)
(* The index of spent outputs.                                             *)
(***************************************************************************)
Compatible(S, next) ==
    /\ \A t \in S : \A o \in Vin[t] : next[o] = Nil
    /\ \A t, u \in S : t # u => Vin[t] \cap Vin[u] = {}

\* Adding transactions that conflict neither with the pool nor with each other
\* keeps the index exact.
LEMMA AddIndexed ==
  ASSUME NEW P \in SUBSET Tx, NEW S \in SUBSET Tx,
         NEW next \in [Out -> Tx \cup {Nil}],
         IsIndexOf(next, P), Compatible(S, next)
  PROVE  IsIndexOf(Added(S, next), P \cup S)
<1>3. ASSUME NEW o \in Out, NEW t \in Tx
      PROVE  Added(S, next)[o] = t <=> t \in P \cup S /\ o \in Vin[t]
  <2>1. CASE \E u \in S : o \in Vin[u]
    <3>1. PICK u \in S : o \in Vin[u]
      BY <2>1
    <3>2. \A v \in S : o \in Vin[v] => v = u
      BY <3>1 DEF Compatible
    <3>3. Added(S, next)[o] = CHOOSE v \in S : o \in Vin[v]
      BY <2>1 DEF Added
    <3>4. Added(S, next)[o] = u
      BY <3>1, <3>2, <3>3
    <3>5. \A v \in P : o \notin Vin[v]
      BY <3>1, MempoolAssumption DEF Compatible, IsIndexOf
    <3> QED BY <3>1, <3>2, <3>4, <3>5
  <2>2. CASE ~\E u \in S : o \in Vin[u]
    BY <2>2 DEF Added, IsIndexOf
  <2> QED BY <2>1, <2>2
<1> QED BY <1>3 DEF IsIndexOf

\* Removing transactions of the pool keeps the index exact.
LEMMA RemoveIndexed ==
  ASSUME NEW P \in SUBSET Tx, NEW S \in SUBSET P,
         NEW next \in [Out -> Tx \cup {Nil}],
         IsIndexOf(next, P)
  PROVE  /\ Without(S, next) \in [Out -> Tx \cup {Nil}]
         /\ IsIndexOf(Without(S, next), P \ S)
<1>1. Without(S, next) \in [Out -> Tx \cup {Nil}]
  BY DEF Without
<1>2. ASSUME NEW o \in Out, NEW t \in Tx
      PROVE  Without(S, next)[o] = t <=> t \in P \ S /\ o \in Vin[t]
  <2>1. CASE o \in SpentBy(S)
    <3>1. PICK u \in S : o \in Vin[u]
      BY <2>1 DEF SpentBy
    <3>2. next[o] = u
      BY <3>1 DEF IsIndexOf
    <3>3. Without(S, next)[o] = Nil
      BY <2>1 DEF Without
    <3> QED BY <3>1, <3>2, <3>3, MempoolAssumption DEF IsIndexOf
  <2>2. CASE o \notin SpentBy(S)
    <3>1. Without(S, next)[o] = next[o] /\ \A u \in S : o \notin Vin[u]
      BY <2>2 DEF Without, SpentBy
    <3> QED BY <3>1 DEF IsIndexOf
  <2> QED BY <2>1, <2>2
<1> QED BY <1>1, <1>2 DEF IsIndexOf

\* What the end of the handler of a block does to the pool: back comes in, out
\* leaves, the index stays exact and the conflicts are gone.
LEMMA UpdateFacts ==
  ASSUME IInv, UpdatePool
  PROVE  \E back \in SUBSET main.vResurrect, out \in SUBSET Tx :
            /\ mapTx' = (mapTx \cup back) \ out
            /\ (mapTx \cup back) \cap main.vDelete \subseteq out
            /\ ~main.reorg => out = (mapTx \cup back) \cap main.vDelete
            /\ restarts = 0 => Indexed'
            /\ restarts = 0 /\ main.reorg =>
                  /\ SpentBy(mapTx') \cap SpentBy(main.vDelete) = {}
                  /\ \A t \in mapTx' : Parents(t) \cap (out \ main.vDelete) = {}
<1> DEFINE back == {t \in main.vResurrect : PassesFirst(t, FALSE)}
           all  == mapTx \cup back
           next == Added(back, mapNextTx)
           gone == all \cap main.vDelete
           left == Without(gone, next)
           conflicts == IF main.reorg
                        THEN {left[o] : o \in SpentBy(main.vDelete)} \ {Nil}
                        ELSE {}
           out  == Removed(left, gone, conflicts)
<1>0. TypeOK /\ BlockOK /\ PoolIndexed /\ main.phase = "block"
  BY DEF IInv, UpdatePool
<1>1. mapTx' = all \ out /\ mapNextTx' = Without(all \cap out, left)
  BY DEF UpdatePool
<1>2. back \subseteq Tx /\ all \subseteq Tx /\ gone \subseteq Tx /\ main.vDelete \subseteq Tx
  BY <1>0 DEF TypeOK, Main
<1>3. next \in [Out -> Tx \cup {Nil}]
  <2> HIDE DEF back
  <2> QED BY <1>0, <1>2, AddedType DEF TypeOK
<1> HIDE DEF next
<1>4. left \in [Out -> Tx \cup {Nil}]
  BY <1>3 DEF Without
<1> HIDE DEF left
<1>5. conflicts \subseteq Tx
  <2>1. SpentBy(main.vDelete) \subseteq Out
    BY <1>2, MempoolAssumption DEF SpentBy
  <2> QED BY <1>4, <2>1
<1> HIDE DEF conflicts
<1>6. /\ conflicts \subseteq Dependents(conflicts, left)
      /\ Dependents(conflicts, left) \subseteq Tx
      /\ Spenders(Dependents(conflicts, left), left) \subseteq Dependents(conflicts, left)
  BY <1>4, <1>5, DependentsClosed
<1>7. out = gone \cup Dependents(conflicts, left)
  BY DEF Removed
<1> HIDE DEF out
<1>8. out \in SUBSET Tx /\ all \cap main.vDelete \subseteq out
  BY <1>2, <1>6, <1>7
<1>9. ASSUME ~main.reorg PROVE out = all \cap main.vDelete
  <2>1. conflicts = {}
    BY <1>9 DEF conflicts
  <2> QED BY <2>1, <1>4, <1>7, DependentsOfNone
<1>10. ASSUME restarts = 0
       PROVE  Indexed' /\ IsIndexOf(left, all \ gone)
  <2>1. IsIndexOf(mapNextTx, mapTx)
    BY <1>0, <1>10 DEF PoolIndexed, Indexed
  <2>2. Compatible(back, mapNextTx)
    BY <1>0 DEF PassesFirst, Unclaimed, BlockOK, Compatible
  <2>3. mapTx \in SUBSET Tx /\ back \in SUBSET Tx /\ mapNextTx \in [Out -> Tx \cup {Nil}]
    BY <1>0, <1>2 DEF TypeOK
  <2>4. IsIndexOf(next, all)
    <3> HIDE DEF back
    <3> QED BY <2>1, <2>2, <2>3, AddIndexed DEF next
  <2>5. gone \in SUBSET all /\ all \in SUBSET Tx
    BY <1>2
  <2> HIDE DEF back, all, gone
  <2>6. IsIndexOf(left, all \ gone)
    BY <1>3, <2>4, <2>5, RemoveIndexed DEF left
  <2>7. IsIndexOf(Without((all \ gone) \cap out, left), (all \ gone) \ ((all \ gone) \cap out))
    BY <1>4, <2>5, <2>6, RemoveIndexed
  <2>8. gone \subseteq out
    BY <1>7
  <2>9. (all \ gone) \ ((all \ gone) \cap out) = all \ out
    BY <2>8
  <2>10. \A o \in Out : o \in SpentBy(gone) => left[o] = Nil
    BY DEF left, Without
  <2>11. Without(all \cap out, left) = Without((all \ gone) \cap out, left)
    <3>1. all \cap out = ((all \ gone) \cap out) \cup gone
      BY <2>5, <2>8
    <3>2. \A o \in Out : o \in SpentBy(all \cap out)
                            <=> o \in SpentBy((all \ gone) \cap out) \/ o \in SpentBy(gone)
      BY <3>1 DEF SpentBy
    <3> QED BY <2>10, <3>2 DEF Without
  <2>12. IsIndexOf(mapNextTx', mapTx')
    BY <1>1, <2>7, <2>9, <2>11
  <2> QED BY <2>6, <2>12 DEF Indexed, IsIndexOf
<1>11. ASSUME restarts = 0, main.reorg
       PROVE  /\ SpentBy(mapTx') \cap SpentBy(main.vDelete) = {}
              /\ \A t \in mapTx' : Parents(t) \cap (out \ main.vDelete) = {}
  <2>1. IsIndexOf(left, all \ gone)
    BY <1>10, <1>11
  <2>2. \A t \in mapTx' : t \in Tx /\ t \in all \ gone /\ t \notin Dependents(conflicts, left)
    BY <1>1, <1>2, <1>7
  <2>3. ASSUME NEW t \in mapTx', NEW o \in Vin[t] PROVE o \in Out /\ left[o] = t /\ t # Nil
    <3>1. t \in Tx /\ t \in all \ gone
      BY <2>2
    <3>2. o \in Out /\ t # Nil
      BY <3>1, MempoolAssumption
    <3> HIDE DEF all, gone
    <3> QED BY <2>1, <3>1, <3>2 DEF IsIndexOf
  <2>4. ASSUME NEW t \in mapTx', NEW o \in Vin[t], o \in SpentBy(main.vDelete) PROVE FALSE
    <3>1. t \in conflicts
      BY <1>11, <2>3, <2>4 DEF conflicts
    <3> QED BY <3>1, <1>6, <2>2
  <2>5. ASSUME NEW t \in mapTx', NEW p \in Parents(t), p \in out \ main.vDelete PROVE FALSE
    <3>1. PICK o \in Vin[t] : p = OutTx[o]
      BY DEF Parents
    <3>2. p \in Dependents(conflicts, left)
      BY <1>7, <2>5
    <3>3. t \in Spenders(Dependents(conflicts, left), left)
      BY <2>3, <3>1, <3>2 DEF Spenders
    <3> QED BY <3>3, <1>6, <2>2
  <2> QED BY <2>4, <2>5 DEF SpentBy
<1>12. back \in SUBSET main.vResurrect
  OBVIOUS
<1> HIDE DEF back
<1> QED
  BY <1>1, <1>8, <1>9, <1>10, <1>11, <1>12

\* A transaction that passed the checks under cs_main is stored over an index
\* that has not changed since, as long as there was no restart.
LEMMA IndexedStep ==
  ASSUME IInv, [Next]_vars
  PROVE  PoolIndexed'
<1>0. TypeOK /\ PoolIndexed
  BY DEF IInv
<1>1. CASE Quiet
  BY <1>0, <1>1, QuietFacts DEF PoolIndexed, Indexed
<1>2. CASE Store
  <2>1. main.tx \in Tx /\ (restarts = 0 => Unclaimed(main.tx)) /\ restarts' = restarts
    BY <1>2 DEF IInv, StoreOK, Store, bounds
  <2>2. mapTx' = mapTx \cup {main.tx} /\ mapNextTx' = Added({main.tx}, mapNextTx)
    BY <1>2 DEF Store, addUnchecked
  <2>3. ASSUME restarts = 0 PROVE IsIndexOf(mapNextTx', mapTx')
    <3>1. Compatible({main.tx}, mapNextTx)
      BY <2>1, <2>3 DEF Compatible, Unclaimed
    <3>2. mapTx \in SUBSET Tx /\ {main.tx} \in SUBSET Tx /\ mapNextTx \in [Out -> Tx \cup {Nil}]
      BY <1>0, <2>1 DEF TypeOK
    <3>3. IsIndexOf(mapNextTx, mapTx)
      BY <1>0, <2>3 DEF PoolIndexed, Indexed
    <3> QED BY <2>2, <3>1, <3>2, <3>3, AddIndexed
  <2> QED BY <2>1, <2>3 DEF PoolIndexed, Indexed, IsIndexOf
<1>3. CASE AcceptWalletTransaction
  BY <1>3, ReacceptLater DEF PoolIndexed
<1>4. ASSUME NEW b \in Block, SetBestChainInner(b) \/ Reorganize(b) PROVE PoolIndexed'
  BY <1>0, <1>4 DEF SetBestChainInner, Reorganize, pool, bounds, PoolIndexed, Indexed
<1>4a. CASE TxnCommit
  BY <1>0, <1>4a DEF TxnCommit, pool, bounds, PoolIndexed, Indexed
<1>5. CASE UpdatePool
  <2>1. restarts' = restarts
    BY <1>5 DEF UpdatePool, bounds
  <2> QED BY <1>5, <2>1, UpdateFacts DEF PoolIndexed
<1>6. CASE Restart
  BY <1>0, <1>6, MempoolAssumption DEF Restart, TypeOK, PoolIndexed
<1> QED BY <1>1, <1>2, <1>3, <1>4, <1>4a, <1>5, <1>6, StepKinds

-----------------------------------------------------------------------------
(***************************************************************************)
(* The pool and the chain.                                                 *)
(***************************************************************************)
\* The transactions of the chains before and after a move of the tip.
LEMMA MoveFacts ==
  ASSUME TypeOK, NEW b \in Block, tip' = b
  PROVE  /\ Confirmed' \subseteq Confirmed \cup TxsOf(Anc[b] \ Anc[tip])
         /\ TxsOf(Anc[b] \ Anc[tip]) \subseteq Confirmed'
         /\ TxsOf(Anc[tip] \ Anc[b]) \cap Confirmed' \subseteq TxsOf(Anc[b] \ Anc[tip])
         /\ TxsOf(Anc[tip] \ Anc[b]) \subseteq Confirmed
<1>1. Confirmed' = TxsOf(Anc[b]) /\ Confirmed = TxsOf(Anc[tip])
  BY DEF Confirmed
<1>2. ASSUME NEW t \in TxsOf(Anc[tip] \ Anc[b]), t \in Confirmed'
      PROVE  t \in TxsOf(Anc[b] \ Anc[tip])
  <2>1. PICK a \in Anc[tip] \ Anc[b] : t \in BlockTx[a]
    BY DEF TxsOf
  <2>2. PICK c \in Anc[b] : t \in BlockTx[c]
    BY <1>1, <1>2 DEF TxsOf
  <2>3. c \notin Anc[tip]
    BY <2>1, <2>2, ChainAssumption DEF TypeOK
  <2> QED BY <2>2, <2>3 DEF TxsOf
<1> QED BY <1>1, <1>2 DEF TxsOf

\* A block on top of the tip adds its own transactions only.
LEMMA ExtendFacts ==
  ASSUME TypeOK, NEW b \in Block, Prev[b] = tip, tip' = b
  PROVE  Confirmed' = Confirmed \cup BlockTx[b]
<1>1. b # Genesis
  BY MempoolAssumption DEF TypeOK
<1>2. Anc[b] = Anc[tip] \cup {b}
  BY <1>1, MempoolAssumption
<1> QED BY <1>2 DEF Confirmed, TxsOf

\* What was checked still holds when the transaction is stored.
LEMMA StoreStep ==
  ASSUME IInv, [Next]_vars
  PROVE  StoreOK'
<1>0. TypeOK /\ StoreOK
  BY DEF IInv
<1>1. CASE Quiet
  <2>1. UNCHANGED <<tip, mapTx, mapNextTx, reorgs, restarts>> /\ QuietMain
    BY <1>0, <1>1, QuietFacts
  <2>2. Confirmed' = Confirmed
    BY <2>1 DEF Confirmed
  <2>3. CASE main' = main
    BY <1>0, <2>1, <2>2, <2>3 DEF StoreOK, Unclaimed, InputsKnown
  <2>4. CASE main'.phase = "store" /\ main'.tx \in Tx /\ Acceptable(main'.tx)
    BY <2>1, <2>2, <2>4 DEF StoreOK, Acceptable, PassesFirst, Unclaimed, InputsKnown
  <2> QED BY <2>1, <2>3, <2>4 DEF QuietMain, StoreOK
<1>2. CASE Store
  <2>1. main' = [main EXCEPT !.phase = "sync"] /\ main \in Main /\ main.tx \in Tx
    BY <1>0, <1>2 DEF Store, TypeOK, StoreOK
  <2>2. main'.phase = "sync" /\ main'.tx = main.tx
    BY <2>1 DEF Main
  <2> QED BY <2>1, <2>2 DEF StoreOK
<1>3. CASE AcceptWalletTransaction
  <2>1. UNCHANGED <<tip, main>> /\ mapTx \subseteq mapTx'
    BY <1>3 DEF AcceptWalletTransaction, addUnchecked, pool
  <2>2. Confirmed' = Confirmed
    BY <2>1 DEF Confirmed
  <2> QED BY <1>0, <1>3, <2>1, <2>2, ReacceptLater DEF StoreOK, InputsKnown
<1>4. ASSUME NEW b \in Block, SetBestChainInner(b) \/ Reorganize(b) PROVE StoreOK'
  <2>1. main'.phase = "commit"
    BY <1>4 DEF SetBestChainInner, Reorganize, Idle
  <2> QED BY <2>1 DEF StoreOK
<1>4a. CASE TxnCommit
  <2>1. main'.phase \in {"block", "idle"}
    BY <1>0, <1>4a, CommitLeaves
  <2> QED BY <2>1 DEF StoreOK
<1>5. CASE UpdatePool \/ Restart
  <2>1. main' = Idle
    BY <1>5 DEF UpdatePool, Restart
  <2> QED BY <2>1 DEF StoreOK, Idle
<1> QED BY <1>1, <1>2, <1>3, <1>4, <1>4a, <1>5, StepKinds

\* The lists of the handler of a block are those of the block it commits.
LEMMA CommitStep ==
  ASSUME IInv, [Next]_vars
  PROVE  CommitOK'
<1>0. TypeOK /\ CommitOK
  BY DEF IInv
<1>1. CASE Quiet
  BY <1>0, <1>1, QuietFacts DEF CommitOK, QuietMain
<1>2. CASE Store
  <2>1. main' = [main EXCEPT !.phase = "sync"] /\ main \in Main
    BY <1>0, <1>2 DEF Store, TypeOK
  <2>2. main'.phase = "sync"
    BY <2>1 DEF Main
  <2> QED BY <2>2 DEF CommitOK
<1>3. CASE AcceptWalletTransaction
  BY <1>0, <1>3 DEF AcceptWalletTransaction, bounds, CommitOK
<1>4. ASSUME NEW b \in Block, SetBestChainInner(b) PROVE CommitOK'
  BY <1>4 DEF SetBestChainInner, CommitOK, Idle
<1>5. ASSUME NEW b \in Block, Reorganize(b) PROVE CommitOK'
  <2>1. tip' = tip /\ reorgs' # 0
    BY <1>0, <1>5 DEF Reorganize, TypeOK
  <2>2. /\ main'.block = b
        /\ main'.vResurrect = TxsOf(Anc[tip] \ Anc[b]) \ Generated
        /\ main'.vDelete = TxsOf(Anc[b] \ Anc[tip])
    BY <1>5 DEF Reorganize, Idle
  <2> QED BY <2>1, <2>2 DEF CommitOK
<1>6. CASE TxnCommit
  <2>1. main'.phase \in {"block", "idle"}
    BY <1>0, <1>6, CommitLeaves
  <2> QED BY <2>1 DEF CommitOK
<1>7. CASE UpdatePool \/ Restart
  <2>1. main' = Idle
    BY <1>7 DEF UpdatePool, Restart
  <2> QED BY <2>1 DEF CommitOK, Idle
<1> QED BY <1>1, <1>2, <1>3, <1>4, <1>5, <1>6, <1>7, StepKinds

\* The lists of the handler of a block fit the chain it has committed.
LEMMA BlockStep ==
  ASSUME IInv, [Next]_vars
  PROVE  BlockOK'
<1>0. TypeOK /\ CommitOK /\ BlockOK /\ PoolUnconfirmed
  BY DEF IInv
<1>1. CASE Quiet
  <2>1. UNCHANGED <<tip, mapTx, mapNextTx, reorgs, restarts>> /\ QuietMain
    BY <1>0, <1>1, QuietFacts
  <2>2. Confirmed' = Confirmed
    BY <2>1 DEF Confirmed
  <2> QED BY <1>0, <2>1, <2>2 DEF BlockOK, QuietMain
<1>2. CASE Store
  <2>1. main' = [main EXCEPT !.phase = "sync"] /\ main \in Main
    BY <1>0, <1>2 DEF Store, TypeOK
  <2>2. main'.phase = "sync"
    BY <2>1 DEF Main
  <2> QED BY <2>2 DEF BlockOK
<1>3. CASE AcceptWalletTransaction
  <2>1. UNCHANGED <<tip, main, reorgs>>
    BY <1>3 DEF AcceptWalletTransaction, bounds
  <2>2. Confirmed' = Confirmed
    BY <2>1 DEF Confirmed
  <2>3. \A t \in mapTx' : t \in mapTx \/ t \notin Confirmed
    BY <1>3 DEF AcceptWalletTransaction, addUnchecked, pool, Acceptable, PassesFirst
  <2> QED BY <1>0, <2>1, <2>2, <2>3 DEF BlockOK
<1>4. ASSUME NEW b \in Block, SetBestChainInner(b) \/ Reorganize(b) PROVE BlockOK'
  BY <1>4 DEF SetBestChainInner, Reorganize, BlockOK, Idle
<1>5. CASE TxnCommit
  <2>0. CASE main' = Idle
    BY <2>0 DEF BlockOK, Idle
  <2>1. CASE tip' = main.block /\ main' = [main EXCEPT !.phase = "block", !.block = Nil]
    <3> DEFINE b == main.block
    <3>1. /\ main.phase = "commit" /\ b \in Block /\ tip' = b
          /\ mapTx' = mapTx /\ reorgs' = reorgs
      BY <1>0, <1>5, <2>1 DEF TxnCommit, CommitOK, pool, bounds
    <3>2. /\ main'.vResurrect = main.vResurrect /\ main'.vDelete = main.vDelete
          /\ main'.reorg = main.reorg
      BY <1>0, <2>1 DEF TypeOK, Main
    <3>3. mapTx \cap Confirmed = {}
      BY <1>0, <3>1 DEF PoolUnconfirmed
    <3> HIDE DEF b
    <3>4. CASE /\ Prev[b] = tip /\ main.vDelete = BlockTx[b]
               /\ main.vResurrect = {} /\ ~main.reorg
      <4>1. Confirmed' = Confirmed \cup BlockTx[b]
        BY <1>0, <3>1, <3>4, ExtendFacts
      <4> QED BY <3>1, <3>2, <3>3, <3>4, <4>1 DEF BlockOK
    <3>5. CASE /\ reorgs # 0 /\ main.vResurrect = TxsOf(Anc[tip] \ Anc[b]) \ Generated
               /\ main.vDelete = TxsOf(Anc[b] \ Anc[tip])
      <4> DEFINE C == Confirmed'
                 R == main.vResurrect
                 D == main.vDelete
      <4>1. C \subseteq Confirmed \cup D /\ D \subseteq C /\ R \cap C \subseteq D
        BY <1>0, <3>1, <3>5, MoveFacts
      <4>2. \A t, u \in R : t # u => Vin[t] \cap Vin[u] = {}
        <5>1. R \subseteq TxsOf(Anc[tip])
          BY <3>5 DEF TxsOf
        <5> QED BY <1>0, <5>1, ChainAssumption DEF TypeOK
      <4> HIDE DEF C, R, D
      <4>3. (mapTx \cup R) \cap C \subseteq D
        BY <3>3, <4>1
      <4> QED BY <3>1, <3>2, <3>5, <4>1, <4>2, <4>3 DEF BlockOK, C, R, D
    <3> QED BY <1>0, <3>1, <3>4, <3>5 DEF CommitOK, b
  <2> QED BY <1>5, <2>0, <2>1 DEF TxnCommit
<1>6. CASE UpdatePool \/ Restart
  <2>1. main' = Idle
    BY <1>6 DEF UpdatePool, Restart
  <2> QED BY <2>1 DEF BlockOK, Idle
<1> QED BY <1>1, <1>2, <1>3, <1>4, <1>5, <1>6, StepKinds

\* No confirmed transaction enters the pool, and the handler of a block takes
\* out those its block confirms.
LEMMA UnconfirmedStep ==
  ASSUME IInv, [Next]_vars
  PROVE  PoolUnconfirmed'
<1>0. TypeOK /\ StoreOK /\ BlockOK /\ PoolUnconfirmed
  BY DEF IInv
<1>1. CASE Quiet
  BY <1>0, <1>1, QuietFacts DEF QuietMain, PoolUnconfirmed, Confirmed
<1>2. CASE Store
  <2>1. mapTx' = mapTx \cup {main.tx} /\ tip' = tip /\ main.phase = "store"
    BY <1>2 DEF Store, addUnchecked
  <2> QED BY <1>0, <2>1 DEF StoreOK, PoolUnconfirmed, Confirmed
<1>3. CASE AcceptWalletTransaction
  <2>1. UNCHANGED <<tip, main>>
    BY <1>3 DEF AcceptWalletTransaction
  <2>2. \A t \in mapTx' : t \in mapTx \/ t \notin Confirmed
    BY <1>3 DEF AcceptWalletTransaction, addUnchecked, pool, Acceptable, PassesFirst
  <2> QED BY <1>0, <2>1, <2>2 DEF PoolUnconfirmed, Confirmed
<1>4. ASSUME NEW b \in Block, SetBestChainInner(b) \/ Reorganize(b) PROVE PoolUnconfirmed'
  BY <1>0, <1>4 DEF SetBestChainInner, Reorganize, pool, PoolUnconfirmed, Confirmed, Idle
<1>4a. CASE TxnCommit
  <2>1. CASE main' = Idle /\ tip' = tip
    <3>1. mapTx' = mapTx /\ main.phase # "block"
      BY <1>4a DEF TxnCommit, pool
    <3> QED BY <1>0, <2>1, <3>1 DEF PoolUnconfirmed, Confirmed
  <2>2. CASE main' = [main EXCEPT !.phase = "block", !.block = Nil]
    <3>1. main'.phase = "block"
      BY <1>0, <2>2 DEF TypeOK, Main
    <3> QED BY <3>1 DEF PoolUnconfirmed
  <2> QED BY <1>4a, <2>1, <2>2 DEF TxnCommit
<1>5. CASE UpdatePool
  <2>1. tip' = tip /\ main.phase = "block"
    BY <1>5 DEF UpdatePool
  <2>2. PICK back \in SUBSET main.vResurrect, out \in SUBSET Tx :
           /\ mapTx' = (mapTx \cup back) \ out
           /\ (mapTx \cup back) \cap main.vDelete \subseteq out
    BY <1>5, UpdateFacts
  <2>3. (mapTx \cup main.vResurrect) \cap Confirmed \subseteq main.vDelete
    BY <1>0, <2>1 DEF BlockOK
  <2>4. mapTx' \cap Confirmed = {}
    BY <2>2, <2>3
  <2> QED BY <2>1, <2>4 DEF PoolUnconfirmed, Confirmed
<1>6. CASE Restart
  BY <1>6 DEF Restart, PoolUnconfirmed
<1> QED BY <1>1, <1>2, <1>3, <1>4, <1>4a, <1>5, <1>6, StepKinds

\* Until a reorganisation, no step takes the parent of a pool transaction out of
\* both the chain and the pool.
LEMMA ConnectsStep ==
  ASSUME IInv, [Next]_vars
  PROVE  PoolConnects'
<1>0. TypeOK /\ StoreOK /\ CommitOK /\ BlockOK /\ PoolConnects
  BY DEF IInv
<1>1. CASE Quiet
  BY <1>0, <1>1, QuietFacts DEF PoolConnects, Connected, Confirmed
<1>2. CASE Store
  <2>1. mapTx' = mapTx \cup {main.tx} /\ tip' = tip /\ main.phase = "store" /\ reorgs' = reorgs
    BY <1>2 DEF Store, addUnchecked, bounds
  <2> QED BY <1>0, <2>1 DEF StoreOK, PoolConnects, Connected, Confirmed, InputsKnown
<1>3. CASE AcceptWalletTransaction
  <2>1. UNCHANGED <<tip, reorgs>> /\ mapTx \subseteq mapTx'
    BY <1>3 DEF AcceptWalletTransaction, addUnchecked, pool, bounds
  <2>2. \A t \in mapTx' : t \in mapTx \/ InputsKnown(t)
    BY <1>3 DEF AcceptWalletTransaction, addUnchecked, pool, Acceptable
  <2> QED BY <1>0, <2>1, <2>2 DEF PoolConnects, Connected, Confirmed, InputsKnown
<1>4. ASSUME NEW b \in Block, SetBestChainInner(b) PROVE PoolConnects'
  BY <1>0, <1>4 DEF SetBestChainInner, pool, bounds, PoolConnects, Connected, Confirmed
<1>5. ASSUME NEW b \in Block, Reorganize(b) PROVE PoolConnects'
  BY <1>0, <1>5 DEF Reorganize, TypeOK, PoolConnects
<1>5a. CASE TxnCommit
  <2>1. main.phase = "commit" /\ mapTx' = mapTx /\ reorgs' = reorgs
    BY <1>5a DEF TxnCommit, pool, bounds
  <2>2. CASE tip' = tip
    BY <1>0, <2>1, <2>2 DEF PoolConnects, Connected, Confirmed
  <2>3. CASE tip' = main.block /\ reorgs = 0
    <3> DEFINE b == main.block
    <3>1. b \in Block /\ Prev[b] = tip /\ tip' = b
      BY <1>0, <2>1, <2>3 DEF CommitOK
    <3> HIDE DEF b
    <3>2. Confirmed \subseteq Confirmed'
      BY <1>0, <3>1, ExtendFacts
    <3> QED BY <1>0, <2>1, <3>2 DEF PoolConnects, Connected
  <2> QED BY <1>5a, <2>1, <2>2, <2>3 DEF TxnCommit, PoolConnects
<1>6. CASE UpdatePool
  <2>1. tip' = tip /\ main.phase = "block" /\ reorgs' = reorgs
    BY <1>6 DEF UpdatePool, bounds
  <2>2. ASSUME reorgs = 0 PROVE Connected'
    <3>1. ~main.reorg /\ main.vResurrect = {} /\ main.vDelete \subseteq Confirmed
      BY <1>0, <2>1, <2>2 DEF BlockOK
    <3>2. mapTx' = mapTx \ (mapTx \cap main.vDelete)
      BY <1>6, <3>1, UpdateFacts
    <3> QED BY <1>0, <2>1, <2>2, <3>1, <3>2 DEF PoolConnects, Connected, Confirmed
  <2> QED BY <2>1, <2>2 DEF PoolConnects
<1>7. CASE Restart
  BY <1>7 DEF Restart, PoolConnects, Connected
<1> QED BY <1>1, <1>2, <1>3, <1>4, <1>5, <1>5a, <1>6, <1>7, StepKinds

-----------------------------------------------------------------------------
(***************************************************************************)
(* The orphans.                                                            *)
(***************************************************************************)
ByPrevOK(held, byPrev) ==
    \A p, t \in Tx : t \in byPrev[p] <=> t \in held /\ p \in Parents(t)

\* AddOrphanTx enters the orphan under every parent.
LEMMA EnterOK ==
  ASSUME NEW held, NEW byPrev, NEW t \in Tx, ByPrevOK(held, byPrev)
  PROVE  ByPrevOK(held \cup {t}, Enter(t, byPrev))
  BY DEF ByPrevOK, Enter

\* EraseOrphanTx takes each orphan out from under every parent.
LEMMA EraseOK ==
  ASSUME NEW held, NEW byPrev, NEW S, ByPrevOK(held, byPrev)
  PROVE  ByPrevOK(held \ S, EraseOrphanTx(S, byPrev))
  BY DEF ByPrevOK, EraseOrphanTx

OrphansOK == OrphansIndexed /\ IsFiniteSet(mapOrphanTransactions)

\* Arrivals, evictions and the end of the loop keep orphans and index together.
LEMMA OrphansStep ==
  ASSUME IInv, [Next]_vars
  PROVE  OrphansOK'
<1>0. /\ TypeOK /\ ByPrevOK(mapOrphanTransactions, mapOrphanTransactionsByPrev)
      /\ Cardinality(mapOrphanTransactions) <= MAX_ORPHAN_TRANSACTIONS
      /\ IsFiniteSet(mapOrphanTransactions)
  BY DEF IInv, OrphansIndexed, ByPrevOK
<1>1. SUFFICES /\ ByPrevOK(mapOrphanTransactions', mapOrphanTransactionsByPrev')
               /\ Cardinality(mapOrphanTransactions') <= MAX_ORPHAN_TRANSACTIONS
               /\ IsFiniteSet(mapOrphanTransactions')
  BY DEF OrphansOK, OrphansIndexed, ByPrevOK
<1> DEFINE Goal == /\ ByPrevOK(mapOrphanTransactions', mapOrphanTransactionsByPrev')
                   /\ Cardinality(mapOrphanTransactions') <= MAX_ORPHAN_TRANSACTIONS
                   /\ IsFiniteSet(mapOrphanTransactions')
<1>2. CASE UNCHANGED orphans
  BY <1>0, <1>2 DEF orphans, ByPrevOK
<1>3. ASSUME NEW t \in Tx, ReceiveOrphan(t) PROVE Goal
  <2> DEFINE held == mapOrphanTransactions \cup {t}
             byPrev == Enter(t, mapOrphanTransactionsByPrev)
  <2>1. PICK evicted \in LimitOrphanTxSize(held) :
           /\ mapOrphanTransactions' = held \ evicted
           /\ mapOrphanTransactionsByPrev' = EraseOrphanTx(evicted, byPrev)
    BY <1>3 DEF ReceiveOrphan
  <2>2. ByPrevOK(held, byPrev)
    BY <1>0, EnterOK
  <2>0. MAX_ORPHAN_TRANSACTIONS \in Nat
    BY MempoolAssumption
  <2>3. IsFiniteSet(held) /\ Cardinality(held) \in Nat
    BY <1>0, FS_AddElement, FS_CardinalityType
  <2> HIDE DEF held, byPrev
  <2>4. ByPrevOK(held \ evicted, EraseOrphanTx(evicted, byPrev))
    BY <2>2, EraseOK
  <2>5. IsFiniteSet(held \ evicted)
    BY <2>3, FS_Difference
  <2>6. Cardinality(held \ evicted) <= MAX_ORPHAN_TRANSACTIONS
    <3>1. CASE Cardinality(held) > MAX_ORPHAN_TRANSACTIONS
      BY <2>1, <3>1, <2>0 DEF LimitOrphanTxSize
    <3>2. CASE ~(Cardinality(held) > MAX_ORPHAN_TRANSACTIONS)
      <4>1. held \ evicted = held
        BY <2>1, <3>2 DEF LimitOrphanTxSize
      <4> QED BY <2>0, <2>3, <3>2, <4>1
    <3> QED BY <3>1, <3>2
  <2> QED BY <2>1, <2>4, <2>5, <2>6
<1>4. CASE EraseOrphans
  <2> DEFINE S == main.erase \cap mapOrphanTransactions
  <2>1. /\ mapOrphanTransactions' = mapOrphanTransactions \ S
        /\ mapOrphanTransactionsByPrev' = EraseOrphanTx(S, mapOrphanTransactionsByPrev)
    BY <1>4 DEF EraseOrphans
  <2> HIDE DEF S
  <2>2. IsFiniteSet(mapOrphanTransactions')
    BY <1>0, <2>1, FS_Difference
  <2>3. Cardinality(mapOrphanTransactions') <= Cardinality(mapOrphanTransactions)
    BY <1>0, <2>1, FS_Subset
  <2>4. Cardinality(mapOrphanTransactions') \in Nat /\ Cardinality(mapOrphanTransactions) \in Nat
    BY <1>0, <2>2, FS_CardinalityType
  <2>5. ByPrevOK(mapOrphanTransactions', mapOrphanTransactionsByPrev')
    BY <1>0, <2>1, EraseOK
  <2> QED BY <1>0, <2>2, <2>3, <2>4, <2>5, MempoolAssumption
<1>5. CASE Restart
  <2>1. mapOrphanTransactions' = {} /\ mapOrphanTransactionsByPrev' = [p \in Tx |-> {}]
    BY <1>5 DEF Restart
  <2> QED BY <2>1, FS_EmptySet, MempoolAssumption DEF ByPrevOK
<1> QED
  BY <1>2, <1>3, <1>4, <1>5
  DEF Next, MainStep, ReacceptStep, vars, orphans, ReceiveTx, SendRawTransaction,
      CommitTransaction, SetBestChainInner, Reorganize, TryOrphan, Store, AfterStore, NextInQueue,
      TxnCommit, UpdatePool, StartReaccept, VisitWalletTx, AcceptWalletTransaction, ReacceptDone

-----------------------------------------------------------------------------
(***************************************************************************)
(* The theorems.                                                           *)
(***************************************************************************)
\* The inductive invariant holds in every state (CTxMemPool and the orphan maps
\* of main.cpp, whatever the handlers and the wallet's thread do).
THEOREM Invariance == Spec => []IInv
<1>1. IInv /\ [Next]_vars => IInv'
  <2> SUFFICES ASSUME IInv, [Next]_vars PROVE IInv'
    OBVIOUS
  <2>1. TypeOK'
    BY TypeStep
  <2>2. StoreOK' /\ CommitOK' /\ BlockOK' /\ ReacceptOK'
    BY StoreStep, CommitStep, BlockStep, ReacceptStepOK
  <2>3. PoolIndexed' /\ PoolUnconfirmed' /\ PoolConnects'
    BY IndexedStep, UnconfirmedStep, ConnectsStep
  <2>4. OrphansIndexed' /\ IsFiniteSet(mapOrphanTransactions)'
    BY OrphansStep DEF OrphansOK
  <2> QED BY <2>1, <2>2, <2>3, <2>4 DEF IInv
<1> QED BY InitIInv, <1>1, PTL DEF Spec

\* While only handlers under cs_main change the pool, mapNextTx names exactly
\* the spenders in mapTx, so no two pool transactions spend the same output.
THEOREM PoolIsIndexed == Spec => []PoolIndexed
<1>1. IInv => PoolIndexed
  BY DEF IInv
<1> QED BY Invariance, <1>1, PTL

\* No confirmed transaction stays in the pool after the handler of its block
\* (Reorganize, SetBestChainInner), also with the wallet's thread at work.
THEOREM PoolIsUnconfirmed == Spec => []PoolUnconfirmed
<1>1. IInv => PoolUnconfirmed
  BY DEF IInv
<1> QED BY Invariance, <1>1, PTL

\* Without reorganisations every pool transaction connects to the chain or to
\* the pool, which CreateNewBlock relies on; also after restarts.
THEOREM PoolIsConnected == Spec => []PoolConnects
<1>1. IInv => PoolConnects
  BY DEF IInv
<1> QED BY Invariance, <1>1, PTL

\* mapOrphanTransactions and mapOrphanTransactionsByPrev agree and are bounded
\* (AddOrphanTx, EraseOrphanTx, LimitOrphanTxSize).
THEOREM OrphansAreIndexed == Spec => []OrphansIndexed
<1>1. IInv => OrphansIndexed
  BY DEF IInv
<1> QED BY Invariance, <1>1, PTL

\* A reorganisation leaves nothing in the pool that conflicts with the blocks
\* it connected, nor anything that depends on what it dropped for that reason
\* (removeConflicts).
THEOREM ConflictsLeave == Spec => ReorgDropsConflicts
<1> DEFINE A == main.phase = "block" /\ main.reorg /\ main'.phase = "idle" /\ restarts' = 0 =>
                   /\ SpentBy(mapTx') \cap SpentBy(main.vDelete) = {}
                   /\ \A t \in mapTx' : Parents(t) \cap (mapTx \ (mapTx' \cup main.vDelete)) = {}
<1>1. IInv /\ [Next]_vars => [A]_vars
  <2> SUFFICES ASSUME IInv, [Next]_vars,
                      main.phase = "block", main.reorg, main'.phase = "idle", restarts' = 0
               PROVE  /\ SpentBy(mapTx') \cap SpentBy(main.vDelete) = {}
                      /\ \A t \in mapTx' : Parents(t) \cap (mapTx \ (mapTx' \cup main.vDelete)) = {}
    OBVIOUS
  <2>0. TypeOK
    BY DEF IInv
  <2>1. UpdatePool
    <3>1. ~Quiet
      BY <2>0, QuietFacts DEF QuietMain
    <3>2. ~Store
      BY DEF Store
    <3>3. ~AcceptWalletTransaction
      BY DEF AcceptWalletTransaction
    <3>4. ~\E b \in Block : SetBestChainInner(b) \/ Reorganize(b)
      <4>1. main # Idle
        BY DEF Idle
      <4> QED BY <4>1 DEF SetBestChainInner, Reorganize
    <3>5. ~Restart
      BY <2>0, MempoolAssumption DEF Restart, TypeOK
    <3>6. ~TxnCommit
      BY DEF TxnCommit
    <3> QED BY <3>1, <3>2, <3>3, <3>4, <3>5, <3>6, StepKinds
  <2>2. restarts = 0
    BY <2>1 DEF UpdatePool, bounds
  <2>3. PICK back \in SUBSET main.vResurrect, out \in SUBSET Tx :
           /\ mapTx' = (mapTx \cup back) \ out
           /\ SpentBy(mapTx') \cap SpentBy(main.vDelete) = {}
           /\ \A t \in mapTx' : Parents(t) \cap (out \ main.vDelete) = {}
    BY <2>1, <2>2, UpdateFacts
  <2> QED BY <2>3
<1> QED BY Invariance, <1>1, PTL DEF Spec, ReorgDropsConflicts
=============================================================================
