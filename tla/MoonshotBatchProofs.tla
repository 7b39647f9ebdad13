------------------------- MODULE MoonshotBatchProofs -------------------------
(***************************************************************************)
(* Theorems about MoonshotBatch, for every number of processes, drains and *)
(* items and every value of the limits.                                    *)
(***************************************************************************)
EXTENDS MoonshotBatch, TLAPS

USE TimeAssumption, NullAssumption

------------------------------------------------------------------------------
(* Type correctness.                                                        *)

\* What starting and ending a drain do to the drains' own state.
LEMMA StartDrainType ==
  ASSUME TypeOK, NEW p \in Procs, NEW d \in Drains, StartDrain(p, d)
  PROVE  /\ active' \in [Procs -> Drains \cup {NoDrain}]
         /\ pc' \in [Drains -> DrainPc]
         /\ owner' \in [Drains -> Procs \cup {NoProc}]
         /\ guardAge' \in [Drains -> 0 .. Lease + 1]
         /\ task' = task /\ heldAge' = heldAge
BY DEF TypeOK, StartDrain, DrainPc

LEMMA FinishDrainType ==
  ASSUME TypeOK, NEW d \in Drains, FinishDrain(d)
  PROVE  /\ active' \in [Procs -> Drains \cup {NoDrain}]
         /\ pc' \in [Drains -> DrainPc]
         /\ owner' \in [Drains -> Procs \cup {NoProc}]
         /\ guardAge' \in [Drains -> 0 .. Lease + 1]
         /\ task' \in [Drains -> [Items -> {"none", "queued", "claimed", "finished"}]]
         /\ heldAge' \in [Drains -> [Items -> 0 .. Lease + 1]]
<1> USE DEF TypeOK, FinishDrain, DrainPc
<1>1. 0 \in 0 .. Lease + 1
  OBVIOUS
<1>2. active' \in [Procs -> Drains \cup {NoDrain}]
  OBVIOUS
<1>3. pc' \in [Drains -> DrainPc] /\ owner' \in [Drains -> Procs \cup {NoProc}]
  OBVIOUS
<1>4. guardAge' \in [Drains -> 0 .. Lease + 1]
  BY <1>1
<1>5. task' \in [Drains -> [Items -> {"none", "queued", "claimed", "finished"}]]
  OBVIOUS
<1>6. heldAge' \in [Drains -> [Items -> 0 .. Lease + 1]]
  BY <1>1
<1> QED
  BY <1>2, <1>3, <1>4, <1>5, <1>6

LEMMA OlderBounded ==
  ASSUME NEW limit \in Nat, NEW age \in 0 .. limit + 1
  PROVE  Older(age, limit) \in 0 .. limit + 1
BY DEF Older

\* Every value the state takes has its type (the docs' status fields, the
\* drains' positions, ages that never pass their limits).
THEOREM TypeCorrect == Spec => []TypeOK
<1>1. Init => TypeOK
  BY DEF Init, TypeOK, NoDoc, Unfinished, TerminalItem, TerminalBatch, DrainPc
<1>2. TypeOK /\ [Next]_vars => TypeOK'
  <2> SUFFICES ASSUME TypeOK, [Next]_vars
               PROVE  TypeOK'
    OBVIOUS
  <2> USE DEF NoDoc, Unfinished, TerminalItem, TerminalBatch, storeVars, gcVars
  <2>1. ASSUME Tick PROVE TypeOK'
    <3>1. \A i \in Items : leaseAge'[i] \in 0 .. Lease + 1
      BY <2>1, OlderBounded DEF TypeOK, Tick
    <3>2. leaseAge' \in [Items -> 0 .. Lease + 1]
      BY <2>1, <3>1 DEF TypeOK, Tick
    <3>3. guardAge' \in [Drains -> 0 .. Lease + 1]
      <4>1. \A d \in Drains : guardAge'[d] \in 0 .. Lease + 1
        BY <2>1, OlderBounded DEF TypeOK, Tick
      <4> QED
        BY <2>1, <4>1 DEF TypeOK, Tick
    <3>4. heldAge' \in [Drains -> [Items -> 0 .. Lease + 1]]
      <4>1. \A d \in Drains, i \in Items :
              (IF task[d][i] = "claimed" THEN Older(heldAge[d][i], Lease)
               ELSE heldAge[d][i]) \in 0 .. Lease + 1
        <5> TAKE d \in Drains, i \in Items
        <5>1. heldAge[d][i] \in 0 .. Lease + 1
          BY DEF TypeOK
        <5> QED
          BY <5>1, OlderBounded
      <4> QED
        BY <2>1, <4>1 DEF Tick
    <3>5. batchAge' \in Nat /\ endedAge' \in Nat
      BY <2>1 DEF TypeOK, Tick, Older
    <3> QED
      BY <2>1, <3>2, <3>3, <3>4, <3>5 DEF TypeOK, Tick
  <2>2. ASSUME NEW p \in Procs, Submit(p) PROVE TypeOK'
    BY <2>2 DEF TypeOK, Submit, drainVars
  <2>3. ASSUME NEW p \in Procs, WriteItemThrows(p) PROVE TypeOK'
    BY <2>3 DEF TypeOK, WriteItemThrows, drainVars
  <2>4. ASSUME NEW p \in Procs, FinishSubmit(p) PROVE TypeOK'
    <3>1. CASE UNCHANGED drainVars
      BY <2>4, <3>1 DEF TypeOK, FinishSubmit, drainVars
    <3>2. CASE \E d \in Drains : StartDrain(p, d)
      BY <2>4, <3>2, StartDrainType DEF TypeOK, FinishSubmit
    <3> QED
      BY <2>4, <3>1, <3>2 DEF FinishSubmit
  <2>5. ASSUME NEW p \in Procs, Kick(p) PROVE TypeOK'
    BY <2>5, StartDrainType DEF TypeOK, Kick
  <2>6. ASSUME NEW p \in Procs, GcList(p) PROVE TypeOK'
    BY <2>6 DEF TypeOK, GcList, drainVars
  <2>7. ASSUME NEW p \in Procs, GcListItems(p) PROVE TypeOK'
    BY <2>7 DEF TypeOK, GcListItems, Docs, drainVars
  <2>8. ASSUME NEW p \in Procs, GcDeleteBatch(p) PROVE TypeOK'
    BY <2>8 DEF TypeOK, GcDeleteBatch, drainVars
  <2>9. ASSUME NEW p \in Procs, GcThrows(p) PROVE TypeOK'
    BY <2>9 DEF TypeOK, GcThrows, drainVars
  <2>10. ASSUME NEW p \in Procs, Crash(p) PROVE TypeOK'
    BY <2>10 DEF TypeOK, Crash, DrainPc
  <2>11. ASSUME NEW p \in Procs, NEW i \in Items, WriteItem(p, i) PROVE TypeOK'
    BY <2>11 DEF TypeOK, WriteItem, drainVars
  <2>12. ASSUME NEW p \in Procs, NEW i \in Items, GcDeleteItem(p, i) PROVE TypeOK'
    BY <2>12 DEF TypeOK, GcDeleteItem, drainVars
  <2>13. ASSUME NEW d \in Drains, GetBatch(d) PROVE TypeOK'
    <3>1. CASE batchStatus = "in_progress"
      BY <2>13, <3>1 DEF TypeOK, GetBatch, DrainPc
    <3>2. CASE batchStatus # "in_progress"
      BY <2>13, <3>2, FinishDrainType DEF TypeOK, GetBatch
    <3> QED
      BY <3>1, <3>2
  <2>14. ASSUME NEW d \in Drains, ListUnfinishedItems(d) PROVE TypeOK'
    <3>1. CASE UnfinishedNow # {} /\ Expired
      BY <2>14, <3>1 DEF TypeOK, ListUnfinishedItems, DrainPc
    <3>2. CASE ~(UnfinishedNow # {} /\ Expired)
      <4>0. /\ pc' = [pc EXCEPT ![d] = "pool"]
            /\ task' = [task EXCEPT ![d] = [i \in Items |->
                          IF i \in UnfinishedNow THEN "queued" ELSE "none"]]
        BY <2>14, <3>2, Zenon DEF ListUnfinishedItems
      <4>1. pc' \in [Drains -> DrainPc]
        BY <4>0 DEF TypeOK, DrainPc
      <4>2. task' \in [Drains -> [Items -> {"none", "queued", "claimed", "finished"}]]
        BY <4>0 DEF TypeOK
      <4> QED
        BY <2>14, <4>1, <4>2 DEF TypeOK, ListUnfinishedItems
    <3> QED
      BY <3>1, <3>2
  <2>15. ASSUME NEW d \in Drains, CheckCompletion(d) PROVE TypeOK'
    <3>1. CASE Verdict = "idle"
      BY <2>15, <3>1, FinishDrainType DEF TypeOK, CheckCompletion
    <3>2. CASE Verdict # "idle"
      BY <2>15, <3>2 DEF TypeOK, CheckCompletion, Verdict, DrainPc
    <3> QED
      BY <3>1, <3>2
  <2>16. ASSUME NEW d \in Drains, SetBatchStatus(d) PROVE TypeOK'
    BY <2>16, FinishDrainType DEF TypeOK, SetBatchStatus
  <2>17. ASSUME NEW d \in Drains, DrainThrows(d) PROVE TypeOK'
    BY <2>17, FinishDrainType DEF TypeOK, DrainThrows
  <2>18. ASSUME NEW d \in Drains, NEW i \in Items, ClaimItem(d, i) PROVE TypeOK'
    <3>0. /\ UNCHANGED <<batchStatus, batchAge, endedAge, creator, active, pc, owner,
                         guardAge, heldAge, gcPc, gcTodo, faults>>
      BY <2>18 DEF ClaimItem
    <3>1. CASE Claimable(i)
      <4>1. /\ itemStatus' = [itemStatus EXCEPT ![i] = "running"]
            /\ leaseAge' = [leaseAge EXCEPT ![i] = 0]
            /\ task' = [task EXCEPT ![d][i] = "claimed"]
        BY <2>18, <3>1, Zenon DEF ClaimItem
      <4> QED
        BY <3>0, <4>1 DEF TypeOK
    <3>2. CASE ~Claimable(i)
      <4>1. /\ itemStatus' = itemStatus /\ leaseAge' = leaseAge
            /\ task' = [task EXCEPT ![d][i] = "finished"]
        BY <2>18, <3>2, Zenon DEF ClaimItem
      <4> QED
        BY <3>0, <4>1 DEF TypeOK
    <3> QED
      BY <3>1, <3>2
  <2>19. ASSUME NEW d \in Drains, NEW i \in Items, ClaimThrows(d, i) PROVE TypeOK'
    BY <2>19 DEF TypeOK, ClaimThrows
  <2>20. ASSUME NEW d \in Drains, NEW i \in Items, PersistFails(d, i) PROVE TypeOK'
    BY <2>20 DEF TypeOK, PersistFails
  <2>21. ASSUME NEW d \in Drains, NEW i \in Items, NEW reply \in Replies,
                RunAndPersist(d, i, reply)
         PROVE  TypeOK'
    BY <2>21 DEF TypeOK, RunAndPersist, Patched, OutcomeOf
  <2>22. CASE UNCHANGED vars
    BY <2>22 DEF TypeOK, vars, drainVars
  <2> QED
    BY <2>1, <2>2, <2>3, <2>4, <2>5, <2>6, <2>7, <2>8, <2>9, <2>10, <2>11, <2>12, <2>13,
       <2>14, <2>15, <2>16, <2>17, <2>18, <2>19, <2>20, <2>21, <2>22 DEF Next, DrainStep
<1> QED
  BY <1>1, <1>2, PTL DEF Spec

------------------------------------------------------------------------------
(* 'ended' means complete.                                                  *)

\* The inductive invariant: a drain that has decided to write 'ended' made the
\* decision over a complete item set, and settled items stay settled until it
\* writes.
AllSettled == \A i \in Items : Settled(i)
EndedInv ==
  /\ batchStatus = "ended" => AllSettled
  /\ \A d \in Drains : pc[d] = "writeEnded" => AllSettled

\* No step takes a result away: claims touch unfinished items only, creation
\* writes missing ones only, and a late terminal write is still terminal.
LEMMA SettledStays ==
  ASSUME TypeOK, [Next]_vars, NEW k \in Items, Settled(k)
  PROVE  Settled(k)'
<1> USE DEF Settled, TerminalItem, Unfinished, NoDoc
<1>1. CASE UNCHANGED itemStatus
  BY <1>1
<1>2. ASSUME NEW p \in Procs, NEW i \in Items, WriteItem(p, i) PROVE Settled(k)'
  BY <1>2 DEF TypeOK, WriteItem
<1>3. ASSUME NEW p \in Procs, NEW i \in Items, GcDeleteItem(p, i) PROVE Settled(k)'
  BY <1>3 DEF TypeOK, GcDeleteItem
<1>4. ASSUME NEW d \in Drains, NEW i \in Items, ClaimItem(d, i) PROVE Settled(k)'
  <2>1. CASE Claimable(i)
    <3>1. itemStatus' = [itemStatus EXCEPT ![i] = "running"]
      BY <1>4, <2>1, Zenon DEF ClaimItem
    <3> QED
      BY <2>1, <3>1 DEF TypeOK, Claimable
  <2>2. CASE ~Claimable(i)
    <3>1. itemStatus' = itemStatus
      BY <1>4, <2>2, Zenon DEF ClaimItem
    <3> QED
      BY <3>1
  <2> QED
    BY <2>1, <2>2
<1>5. ASSUME NEW d \in Drains, NEW i \in Items, NEW reply \in Replies,
             RunAndPersist(d, i, reply)
      PROVE  Settled(k)'
  BY <1>5 DEF TypeOK, RunAndPersist, Patched, OutcomeOf
<1> QED
  <2>1. CASE Tick
    BY <2>1, <1>1 DEF Tick
  <2>2. CASE UNCHANGED vars
    BY <2>2, <1>1 DEF vars, storeVars
  <2>3. ASSUME NEW p \in Procs,
               \/ Submit(p) \/ WriteItemThrows(p) \/ FinishSubmit(p) \/ Kick(p)
               \/ GcList(p) \/ GcListItems(p) \/ GcDeleteBatch(p) \/ GcThrows(p)
               \/ Crash(p)
        PROVE  Settled(k)'
    <3>1. UNCHANGED itemStatus
      BY <2>3 DEF Submit, WriteItemThrows, FinishSubmit, Kick, GcList, GcListItems,
                  GcDeleteBatch, GcThrows, Crash, storeVars
    <3> QED
      BY <3>1, <1>1
  <2>4. ASSUME NEW d \in Drains,
               \/ GetBatch(d) \/ ListUnfinishedItems(d) \/ CheckCompletion(d)
               \/ SetBatchStatus(d) \/ DrainThrows(d)
               \/ \E i \in Items : ClaimThrows(d, i) \/ PersistFails(d, i)
        PROVE  Settled(k)'
    <3>1. UNCHANGED itemStatus
      BY <2>4 DEF GetBatch, ListUnfinishedItems, CheckCompletion, SetBatchStatus,
                  DrainThrows, ClaimThrows, PersistFails, storeVars
    <3> QED
      BY <3>1, <1>1
  <2> QED
    BY <1>2, <1>3, <1>4, <1>5, <2>1, <2>2, <2>3, <2>4 DEF Next, DrainStep

\* A drain comes to write 'ended' only by finding everything settled.
LEMMA DecisionStep ==
  ASSUME TypeOK, [Next]_vars, NEW d \in Drains, pc'[d] = "writeEnded"
  PROVE  pc[d] = "writeEnded" \/ AllSettled
<1>1. CASE UNCHANGED pc
  BY <1>1
<1>2. ASSUME NEW c \in Drains, FinishDrain(c) PROVE pc[d] = "writeEnded"
  BY <1>2 DEF TypeOK, FinishDrain
<1>3. ASSUME NEW p \in Procs, NEW c \in Drains, StartDrain(p, c) PROVE pc[d] = "writeEnded"
  BY <1>3 DEF TypeOK, StartDrain
<1>4. ASSUME NEW p \in Procs, FinishSubmit(p) PROVE pc[d] = "writeEnded"
  BY <1>3, <1>4 DEF FinishSubmit, drainVars
<1>5. ASSUME NEW p \in Procs, Kick(p) PROVE pc[d] = "writeEnded"
  BY <1>3, <1>5 DEF Kick
<1>6. ASSUME NEW c \in Drains, GetBatch(c) PROVE pc[d] = "writeEnded"
  <2>1. CASE batchStatus = "in_progress"
    BY <1>6, <2>1 DEF TypeOK, GetBatch
  <2>2. CASE batchStatus # "in_progress"
    BY <1>6, <2>2, <1>2 DEF GetBatch
  <2> QED
    BY <2>1, <2>2
<1>7. ASSUME NEW c \in Drains, ListUnfinishedItems(c) PROVE pc[d] = "writeEnded"
  <2>1. pc' = [pc EXCEPT ![c] = "writeErrored"] \/ pc' = [pc EXCEPT ![c] = "pool"]
    BY <1>7, Zenon DEF ListUnfinishedItems
  <2> QED
    BY <2>1 DEF TypeOK
<1>8. ASSUME NEW c \in Drains, CheckCompletion(c) PROVE pc[d] = "writeEnded" \/ AllSettled
  <2>1. CASE Verdict = "idle"
    BY <1>8, <2>1, <1>2 DEF CheckCompletion
  <2>2. CASE Verdict = "writeErrored"
    BY <1>8, <2>2 DEF TypeOK, CheckCompletion
  <2>3. CASE Verdict = "writeEnded"
    <3>1. UnfinishedNow = {} /\ Docs = Items
      BY <2>3 DEF Verdict
    <3>2. ASSUME NEW i \in Items PROVE Settled(i)
      <4>1. itemStatus[i] \notin Unfinished /\ itemStatus[i] \notin NoDoc
        BY <3>1 DEF UnfinishedNow, Docs
      <4> QED
        BY <4>1 DEF TypeOK, Settled, TerminalItem
    <3> QED
      BY <3>2 DEF AllSettled
  <2> QED
    BY <2>1, <2>2, <2>3 DEF Verdict
<1>9. ASSUME NEW c \in Drains, SetBatchStatus(c) \/ DrainThrows(c) PROVE pc[d] = "writeEnded"
  BY <1>9, <1>2 DEF SetBatchStatus, DrainThrows
<1>10. ASSUME NEW p \in Procs, Crash(p) PROVE pc[d] = "writeEnded"
  BY <1>10 DEF TypeOK, Crash
<1>11. ASSUME NEW p \in Procs,
              \/ Submit(p) \/ WriteItemThrows(p) \/ GcList(p) \/ GcListItems(p)
              \/ GcDeleteBatch(p) \/ GcThrows(p)
              \/ \E i \in Items : WriteItem(p, i) \/ GcDeleteItem(p, i)
       PROVE  pc[d] = "writeEnded"
  BY <1>11 DEF Submit, WriteItemThrows, GcList, GcListItems, GcDeleteBatch, GcThrows,
               WriteItem, GcDeleteItem, drainVars
<1>12. ASSUME NEW c \in Drains, NEW i \in Items,
              \/ ClaimItem(c, i) \/ ClaimThrows(c, i) \/ PersistFails(c, i)
              \/ \E reply \in Replies : RunAndPersist(c, i, reply)
       PROVE  pc[d] = "writeEnded"
  BY <1>12 DEF ClaimItem, ClaimThrows, PersistFails, RunAndPersist
<1>13. CASE Tick
  BY <1>13 DEF Tick
<1>14. CASE UNCHANGED vars
  BY <1>14 DEF vars, drainVars
<1> QED
  BY <1>4, <1>5, <1>6, <1>7, <1>8, <1>9, <1>10, <1>11, <1>12, <1>13, <1>14 DEF Next, DrainStep

\* The status becomes 'ended' only through a drain that decided so.
LEMMA EndedStep ==
  ASSUME TypeOK, [Next]_vars, batchStatus' = "ended"
  PROVE  batchStatus = "ended" \/ \E d \in Drains : pc[d] = "writeEnded"
<1>1. ASSUME NEW d \in Drains, SetBatchStatus(d)
      PROVE  batchStatus = "ended" \/ \E c \in Drains : pc[c] = "writeEnded"
  BY <1>1 DEF SetBatchStatus
<1>2. ASSUME NEW p \in Procs,
             \/ Submit(p) \/ WriteItemThrows(p) \/ FinishSubmit(p) \/ Kick(p)
             \/ GcList(p) \/ GcListItems(p) \/ GcDeleteBatch(p) \/ GcThrows(p) \/ Crash(p)
             \/ \E i \in Items : WriteItem(p, i) \/ GcDeleteItem(p, i)
      PROVE  batchStatus = "ended"
  BY <1>2 DEF Submit, WriteItemThrows, FinishSubmit, Kick, GcList, GcListItems,
              GcDeleteBatch, GcThrows, Crash, WriteItem, GcDeleteItem, storeVars
<1>3. ASSUME NEW d \in Drains,
             \/ GetBatch(d) \/ ListUnfinishedItems(d) \/ CheckCompletion(d) \/ DrainThrows(d)
             \/ \E i \in Items :
                  \/ ClaimItem(d, i) \/ ClaimThrows(d, i) \/ PersistFails(d, i)
                  \/ \E reply \in Replies : RunAndPersist(d, i, reply)
      PROVE  batchStatus = "ended"
  BY <1>3 DEF GetBatch, ListUnfinishedItems, CheckCompletion, DrainThrows, ClaimItem,
              ClaimThrows, PersistFails, RunAndPersist, storeVars
<1>4. CASE Tick
  BY <1>4 DEF Tick
<1>5. CASE UNCHANGED vars
  BY <1>5 DEF vars, storeVars
<1> QED
  BY <1>1, <1>2, <1>3, <1>4, <1>5 DEF Next, DrainStep

\* The inductive invariant is one.
LEMMA EndedInvariant == Spec => []EndedInv
<1>1. Init => EndedInv
  BY DEF Init, EndedInv
<1>2. TypeOK /\ EndedInv /\ [Next]_vars => EndedInv'
  <2> SUFFICES ASSUME TypeOK, EndedInv, [Next]_vars PROVE EndedInv'
    OBVIOUS
  <2>1. AllSettled => AllSettled'
    BY SettledStays DEF AllSettled
  <2>2. batchStatus' = "ended" => AllSettled'
    BY <2>1, EndedStep DEF EndedInv
  <2>3. ASSUME NEW d \in Drains, pc'[d] = "writeEnded" PROVE AllSettled'
    BY <2>1, <2>3, DecisionStep DEF EndedInv
  <2> QED
    BY <2>2, <2>3 DEF EndedInv
<1> QED
  BY <1>1, <1>2, TypeCorrect, PTL DEF Spec

\* A batch reported 'ended' has a terminal result for every item it was
\* submitted with (drainBatch's completion check).
THEOREM EndedComplete == Spec => []EndedIsComplete
<1>1. EndedInv => EndedIsComplete
  BY DEF EndedInv, EndedIsComplete, AllSettled
<1> QED
  BY <1>1, EndedInvariant, PTL

------------------------------------------------------------------------------
(* One live lease per item.                                                 *)

\* Claims are held only inside the pool phases.
PoolInv == \A d \in Drains, i \in Items : task[d][i] = "claimed" => pc[d] = "pool"

LEMMA ClaimsInPool == Spec => []PoolInv
<1>1. Init => PoolInv
  BY DEF Init, PoolInv
<1>2. TypeOK /\ PoolInv /\ [Next]_vars => PoolInv'
  <2> SUFFICES ASSUME TypeOK, PoolInv, [Next]_vars PROVE PoolInv'
    OBVIOUS
  <2>1. CASE UNCHANGED <<task, pc>>
    BY <2>1 DEF PoolInv
  <2>2. ASSUME NEW c \in Drains, FinishDrain(c) PROVE PoolInv'
    BY <2>2 DEF FinishDrain, PoolInv, TypeOK
  <2>3. ASSUME NEW p \in Procs, NEW c \in Drains, StartDrain(p, c) PROVE PoolInv'
    BY <2>3 DEF StartDrain, PoolInv, TypeOK
  <2>4. ASSUME NEW p \in Procs,
               \/ Submit(p) \/ WriteItemThrows(p) \/ GcList(p) \/ GcListItems(p)
               \/ GcDeleteBatch(p) \/ GcThrows(p) \/ FinishSubmit(p) \/ Kick(p)
               \/ \E i \in Items : WriteItem(p, i) \/ GcDeleteItem(p, i)
        PROVE  PoolInv'
    <3>1. UNCHANGED <<task, pc>> \/ \E c \in Drains : StartDrain(p, c)
      BY <2>4 DEF Submit, WriteItemThrows, GcList, GcListItems, GcDeleteBatch, GcThrows,
                  WriteItem, GcDeleteItem, FinishSubmit, Kick, drainVars
    <3> QED
      BY <3>1, <2>1, <2>3
  <2>5. ASSUME NEW p \in Procs, Crash(p) PROVE PoolInv'
    BY <2>5 DEF Crash, PoolInv, TypeOK
  <2>6. ASSUME NEW c \in Drains, GetBatch(c) PROVE PoolInv'
    <3>1. CASE batchStatus = "in_progress"
      BY <2>6, <3>1 DEF GetBatch, PoolInv, TypeOK
    <3>2. CASE batchStatus # "in_progress"
      BY <2>6, <3>2, <2>2 DEF GetBatch
    <3> QED
      BY <3>1, <3>2
  <2>7. ASSUME NEW c \in Drains, ListUnfinishedItems(c) PROVE PoolInv'
    <3>1. CASE UnfinishedNow # {} /\ Expired
      BY <2>7, <3>1 DEF ListUnfinishedItems, PoolInv, TypeOK
    <3>2. CASE ~(UnfinishedNow # {} /\ Expired)
      <4>1. /\ pc' = [pc EXCEPT ![c] = "pool"]
            /\ task' = [task EXCEPT ![c] = [i \in Items |->
                          IF i \in UnfinishedNow THEN "queued" ELSE "none"]]
        BY <2>7, <3>2, Zenon DEF ListUnfinishedItems
      <4> QED
        BY <4>1 DEF PoolInv, TypeOK
    <3> QED
      BY <3>1, <3>2
  <2>8. ASSUME NEW c \in Drains, CheckCompletion(c) PROVE PoolInv'
    <3>1. CASE Verdict = "idle"
      BY <2>8, <3>1, <2>2 DEF CheckCompletion
    <3>2. CASE Verdict # "idle"
      BY <2>8, <3>2 DEF CheckCompletion, PoolDone, PoolInv, TypeOK
    <3> QED
      BY <3>1, <3>2
  <2>9. ASSUME NEW c \in Drains, SetBatchStatus(c) \/ DrainThrows(c) PROVE PoolInv'
    BY <2>9, <2>2 DEF SetBatchStatus, DrainThrows
  <2>10. ASSUME NEW c \in Drains, NEW k \in Items, ClaimItem(c, k) PROVE PoolInv'
    <3>1. pc[c] = "pool" /\ UNCHANGED pc
      BY <2>10 DEF ClaimItem, Startable
    <3>2. \/ task' = [task EXCEPT ![c][k] = "claimed"]
          \/ task' = [task EXCEPT ![c][k] = "finished"]
      BY <2>10, Zenon DEF ClaimItem
    <3> QED
      BY <3>1, <3>2 DEF PoolInv, TypeOK
  <2>11. ASSUME NEW c \in Drains, NEW k \in Items,
                \/ ClaimThrows(c, k) \/ PersistFails(c, k)
                \/ \E reply \in Replies : RunAndPersist(c, k, reply)
         PROVE  PoolInv'
    <3>1. UNCHANGED pc /\ task' = [task EXCEPT ![c][k] = "finished"]
      BY <2>11 DEF ClaimThrows, PersistFails, RunAndPersist
    <3> QED
      BY <3>1 DEF PoolInv, TypeOK
  <2>12. CASE Tick \/ UNCHANGED vars
    BY <2>12, <2>1 DEF Tick, vars, drainVars
  <2> QED
    BY <2>4, <2>5, <2>6, <2>7, <2>8, <2>9, <2>10, <2>11, <2>12 DEF Next, DrainStep
<1> QED
  BY <1>1, <1>2, TypeCorrect, PTL DEF Spec

\* A drain is running an item under a lease it still holds.
Live(d, i) == task[d][i] = "claimed" /\ heldAge[d][i] <= Lease

\* The inductive invariant: while a claim's lease is live, the item doc either
\* carries that very lease or is settled (a drain that held an earlier lease
\* has written its outcome meanwhile), so nobody else can claim it.
LeaseInv ==
  /\ \A d \in Drains, i \in Items :
       task[d][i] # "claimed" => heldAge[d][i] = 0
  /\ \A d \in Drains, i \in Items :
       Live(d, i) => \/ Settled(i)
                     \/ itemStatus[i] = "running" /\ leaseAge[i] = heldAge[d][i]
  /\ LeaseIsExclusive

\* A step that leaves the item docs alone and at most ends claims.
LEMMA ClaimsOnlyEnd ==
  ASSUME TypeOK, LeaseInv, UNCHANGED <<itemStatus, leaseAge>>,
         \A d \in Drains, i \in Items :
           \/ task'[d][i] = task[d][i] /\ heldAge'[d][i] = heldAge[d][i]
           \/ task[d][i] # "claimed" /\ task'[d][i] # "claimed"
              /\ heldAge'[d][i] = heldAge[d][i]
           \/ task'[d][i] # "claimed" /\ heldAge'[d][i] = 0
  PROVE  LeaseInv'
<1>1. \A d \in Drains, i \in Items : Live(d, i)' => Live(d, i) /\ heldAge'[d][i] = heldAge[d][i]
  BY DEF Live
<1>2. \A i \in Items : Settled(i)' <=> Settled(i)
  BY DEF Settled
<1> QED
  BY <1>1, <1>2 DEF LeaseInv, LeaseIsExclusive, Live

LEMMA FinishDrainEndsClaims ==
  ASSUME TypeOK, LeaseInv, NEW c \in Drains, FinishDrain(c), UNCHANGED <<itemStatus, leaseAge>>
  PROVE  LeaseInv'
<1>1. \A d \in Drains, i \in Items :
        \/ task'[d][i] = task[d][i] /\ heldAge'[d][i] = heldAge[d][i]
        \/ task'[d][i] # "claimed" /\ heldAge'[d][i] = 0
  BY DEF FinishDrain, TypeOK
<1> QED
  BY <1>1, ClaimsOnlyEnd

\* No two drains run one item under live leases (claimItem's transaction).
THEOREM LeaseExclusive == Spec => []LeaseIsExclusive
<1>1. Init => LeaseInv
  BY DEF Init, LeaseInv, LeaseIsExclusive, Live
<1>2. TypeOK /\ PoolInv /\ LeaseInv /\ [Next]_vars => LeaseInv'
  <2> SUFFICES ASSUME TypeOK, PoolInv, LeaseInv, [Next]_vars PROVE LeaseInv'
    OBVIOUS
  <2>1. CASE UNCHANGED <<itemStatus, leaseAge, task, heldAge>>
    BY <2>1, ClaimsOnlyEnd
  <2>2. CASE Tick
    <3>1. \A d \in Drains, i \in Items :
            heldAge'[d][i] = IF task[d][i] = "claimed" THEN Older(heldAge[d][i], Lease)
                             ELSE heldAge[d][i]
      BY <2>2 DEF Tick
    <3>2. \A i \in Items :
            leaseAge'[i] = IF itemStatus[i] = "running" THEN Older(leaseAge[i], Lease)
                           ELSE leaseAge[i]
      BY <2>2 DEF Tick
    <3>3. UNCHANGED <<itemStatus, task>>
      BY <2>2 DEF Tick
    <3>4. \A d \in Drains, i \in Items : heldAge[d][i] \in 0 .. Lease + 1
      BY DEF TypeOK
    <3>5. \A d \in Drains, i \in Items : Live(d, i)' => Live(d, i)
      BY <3>1, <3>3, <3>4 DEF Live, Older
    <3>6. \A i \in Items : Settled(i)' <=> Settled(i)
      BY <3>3 DEF Settled
    <3>7. \A d \in Drains, i \in Items : Live(d, i)' =>
             Settled(i)' \/ (itemStatus'[i] = "running" /\ leaseAge'[i] = heldAge'[d][i])
      <4> TAKE d \in Drains, i \in Items
      <4> HAVE Live(d, i)'
      <4>1. CASE Settled(i)
        BY <4>1, <3>6
      <4>2. CASE itemStatus[i] = "running" /\ leaseAge[i] = heldAge[d][i]
        BY <4>2, <3>1, <3>2, <3>3, <3>5 DEF Live
      <4> QED
        BY <4>1, <4>2, <3>5 DEF LeaseInv
    <3> QED
      BY <3>1, <3>3, <3>5, <3>7 DEF LeaseInv, LeaseIsExclusive, Live
  <2>3. ASSUME NEW p \in Procs,
               Submit(p) \/ WriteItemThrows(p) \/ FinishSubmit(p) \/ Kick(p) \/ GcList(p)
               \/ GcListItems(p) \/ GcDeleteBatch(p) \/ GcThrows(p)
        PROVE  LeaseInv'
    <3>1. UNCHANGED <<itemStatus, leaseAge, task, heldAge>>
      BY <2>3 DEF Submit, WriteItemThrows, FinishSubmit, Kick, StartDrain, GcList,
                  GcListItems, GcDeleteBatch, GcThrows, storeVars, drainVars
    <3> QED
      BY <3>1, <2>1
  <2>4. ASSUME NEW p \in Procs, Crash(p) PROVE LeaseInv'
    <3>1. UNCHANGED <<itemStatus, leaseAge>>
      BY <2>4 DEF Crash, storeVars
    <3>2. \A d \in Drains, i \in Items :
            \/ task'[d][i] = task[d][i] /\ heldAge'[d][i] = heldAge[d][i]
            \/ task'[d][i] # "claimed" /\ heldAge'[d][i] = 0
      BY <2>4 DEF Crash, TypeOK
    <3> QED
      BY <3>1, <3>2, ClaimsOnlyEnd
  <2>5. ASSUME NEW p \in Procs, NEW k \in Items, WriteItem(p, k) PROVE LeaseInv'
    <3>1. itemStatus[k] = "missing" /\ itemStatus' = [itemStatus EXCEPT ![k] = "pending"]
          /\ UNCHANGED <<leaseAge, task, heldAge>>
      BY <2>5 DEF WriteItem, drainVars
    <3>2. \A i \in Items \ {k} : itemStatus'[i] = itemStatus[i] /\ (Settled(i)' <=> Settled(i))
      BY <3>1 DEF TypeOK, Settled
    <3>3. \A d \in Drains : ~Live(d, k)
      BY <3>1 DEF LeaseInv, Settled, TerminalItem
    <3>4. \A d \in Drains, i \in Items : Live(d, i)' <=> Live(d, i)
      BY <3>1 DEF Live
    <3> QED
      BY <3>1, <3>2, <3>3, <3>4 DEF LeaseInv, LeaseIsExclusive, Live
  <2>6. ASSUME NEW p \in Procs, NEW k \in Items, GcDeleteItem(p, k) PROVE LeaseInv'
    <3>1. itemStatus' = [itemStatus EXCEPT ![k] = "deleted"]
          /\ leaseAge' = [leaseAge EXCEPT ![k] = 0] /\ UNCHANGED <<task, heldAge>>
      BY <2>6 DEF GcDeleteItem, drainVars
    <3>2. Settled(k)'
      BY <3>1 DEF TypeOK, Settled
    <3>3. \A i \in Items \ {k} : itemStatus'[i] = itemStatus[i] /\ leaseAge'[i] = leaseAge[i]
                                 /\ (Settled(i)' <=> Settled(i))
      BY <3>1 DEF TypeOK, Settled
    <3>4. \A d \in Drains, i \in Items : Live(d, i)' <=> Live(d, i)
      BY <3>1 DEF Live
    <3> QED
      BY <3>1, <3>2, <3>3, <3>4 DEF LeaseInv, LeaseIsExclusive, Live
  <2>7. ASSUME NEW c \in Drains,
               GetBatch(c) \/ CheckCompletion(c) \/ SetBatchStatus(c) \/ DrainThrows(c)
        PROVE  LeaseInv'
    <3>1. UNCHANGED <<itemStatus, leaseAge>>
      BY <2>7 DEF GetBatch, CheckCompletion, SetBatchStatus, DrainThrows, storeVars
    <3>2. FinishDrain(c) \/ UNCHANGED <<task, heldAge>>
      BY <2>7 DEF GetBatch, CheckCompletion, SetBatchStatus, DrainThrows
    <3> QED
      BY <3>1, <3>2, <2>1, FinishDrainEndsClaims
  <2>8. ASSUME NEW c \in Drains, ListUnfinishedItems(c) PROVE LeaseInv'
    <3>1. UNCHANGED <<itemStatus, leaseAge, heldAge>>
      BY <2>8 DEF ListUnfinishedItems, storeVars
    <3>2. \A i \in Items : task[c][i] # "claimed"
      BY <2>8 DEF ListUnfinishedItems, PoolInv
    <3>3. CASE UnfinishedNow # {} /\ Expired
      BY <2>8, <3>1, <3>3, <2>1 DEF ListUnfinishedItems
    <3>4. CASE ~(UnfinishedNow # {} /\ Expired)
      <4>1. task' = [task EXCEPT ![c] = [i \in Items |->
                       IF i \in UnfinishedNow THEN "queued" ELSE "none"]]
        BY <2>8, <3>4, Zenon DEF ListUnfinishedItems
      <4>2. \A d \in Drains, i \in Items :
              \/ task'[d][i] = task[d][i]
              \/ task[d][i] # "claimed" /\ task'[d][i] # "claimed"
        BY <3>2, <4>1 DEF TypeOK
      <4> QED
        BY <3>1, <4>2, ClaimsOnlyEnd
    <3> QED
      BY <3>3, <3>4
  <2>9. ASSUME NEW c \in Drains, NEW k \in Items, ClaimItem(c, k) PROVE LeaseInv'
    <3>1. heldAge' = heldAge /\ task[c][k] = "queued"
      BY <2>9 DEF ClaimItem, Startable
    <3>2. CASE Claimable(k)
      <4>1. /\ itemStatus' = [itemStatus EXCEPT ![k] = "running"]
            /\ leaseAge' = [leaseAge EXCEPT ![k] = 0]
            /\ task' = [task EXCEPT ![c][k] = "claimed"]
        BY <2>9, <3>2, Zenon DEF ClaimItem
      <4>2. \A d \in Drains : ~Live(d, k)
        <5> SUFFICES ASSUME NEW d \in Drains, Live(d, k) PROVE FALSE
          OBVIOUS
        <5>1. itemStatus[k] \in Unfinished /\ ~Settled(k)
          BY <3>2 DEF Claimable, Unfinished, Settled, TerminalItem
        <5>2. itemStatus[k] = "running" /\ leaseAge[k] = heldAge[d][k]
          BY <5>1 DEF LeaseInv
        <5>3. leaseAge[k] > Lease
          BY <3>2, <5>2 DEF Claimable
        <5>4. heldAge[d][k] \in 0 .. Lease + 1
          BY DEF TypeOK
        <5> QED
          BY <5>2, <5>3, <5>4 DEF Live
      <4>3. heldAge[c][k] = 0
        BY <3>1 DEF LeaseInv
      <4>4. \A d \in Drains, i \in Items : Live(d, i)' => Live(d, i) \/ (d = c /\ i = k)
        BY <3>1, <4>1 DEF Live, TypeOK
      <4>5. \A i \in Items \ {k} : itemStatus'[i] = itemStatus[i] /\ leaseAge'[i] = leaseAge[i]
                                   /\ (Settled(i)' <=> Settled(i))
        BY <4>1 DEF TypeOK, Settled
      <4>6. itemStatus'[k] = "running" /\ leaseAge'[k] = 0
        BY <4>1 DEF TypeOK
      <4>7. \A d \in Drains, i \in Items : task'[d][i] # "claimed" => heldAge'[d][i] = 0
        BY <3>1, <4>1 DEF TypeOK, LeaseInv
      <4>8. \A d \in Drains, i \in Items : Live(d, i)' =>
              Settled(i)' \/ (itemStatus'[i] = "running" /\ leaseAge'[i] = heldAge'[d][i])
        BY <3>1, <4>2, <4>3, <4>4, <4>5, <4>6 DEF LeaseInv
      <4>9. LeaseIsExclusive'
        BY <4>2, <4>4 DEF LeaseInv, LeaseIsExclusive, Live
      <4> QED
        BY <4>7, <4>8, <4>9 DEF LeaseInv
    <3>3. CASE ~Claimable(k)
      <4>1. itemStatus' = itemStatus /\ leaseAge' = leaseAge
            /\ task' = [task EXCEPT ![c][k] = "finished"]
        BY <2>9, <3>3, Zenon DEF ClaimItem
      <4>2. \A d \in Drains, i \in Items :
              \/ task'[d][i] = task[d][i]
              \/ task[d][i] # "claimed" /\ task'[d][i] # "claimed"
        BY <3>1, <4>1 DEF TypeOK
      <4> QED
        BY <3>1, <4>1, <4>2, ClaimsOnlyEnd
    <3> QED
      BY <3>2, <3>3
  <2>10. ASSUME NEW c \in Drains, NEW k \in Items, ClaimThrows(c, k) \/ PersistFails(c, k)
         PROVE  LeaseInv'
    <3>1. UNCHANGED <<itemStatus, leaseAge>>
      BY <2>10 DEF ClaimThrows, PersistFails, storeVars
    <3>2. ClaimThrows(c, k) => task[c][k] # "claimed"
      BY DEF ClaimThrows, Startable
    <3>3. task' = [task EXCEPT ![c][k] = "finished"]
      BY <2>10 DEF ClaimThrows, PersistFails
    <3>4. (ClaimThrows(c, k) /\ heldAge' = heldAge) \/ heldAge' = [heldAge EXCEPT ![c][k] = 0]
      BY <2>10 DEF ClaimThrows, PersistFails
    <3>5. \A d \in Drains, i \in Items :
            \/ task'[d][i] = task[d][i] /\ heldAge'[d][i] = heldAge[d][i]
            \/ task[d][i] # "claimed" /\ task'[d][i] # "claimed"
               /\ heldAge'[d][i] = heldAge[d][i]
            \/ task'[d][i] # "claimed" /\ heldAge'[d][i] = 0
      BY <3>2, <3>3, <3>4 DEF TypeOK
    <3> QED
      BY <3>1, <3>5, ClaimsOnlyEnd
  <2>11. ASSUME NEW c \in Drains, NEW k \in Items, NEW reply \in Replies,
                RunAndPersist(c, k, reply)
         PROVE  LeaseInv'
    <3>1. /\ itemStatus' = [itemStatus EXCEPT ![k] = Patched(k, OutcomeOf(reply))]
          /\ leaseAge' = [leaseAge EXCEPT ![k] = 0]
          /\ task' = [task EXCEPT ![c][k] = "finished"]
          /\ heldAge' = [heldAge EXCEPT ![c][k] = 0]
      BY <2>11 DEF RunAndPersist
    <3>2. Patched(k, OutcomeOf(reply)) \in TerminalItem \cup NoDoc
      BY DEF Patched, OutcomeOf, TerminalItem
    <3>3. \A d \in Drains, i \in Items : Live(d, i)' => Live(d, i) /\ ~(d = c /\ i = k)
                                         /\ heldAge'[d][i] = heldAge[d][i]
      BY <3>1 DEF Live, TypeOK
    <3>4. \A i \in Items \ {k} : itemStatus'[i] = itemStatus[i] /\ leaseAge'[i] = leaseAge[i]
                                 /\ (Settled(i)' <=> Settled(i))
      BY <3>1 DEF TypeOK, Settled
    <3>5. \A d \in Drains : Live(d, k)' => Settled(k)'
      <4> SUFFICES ASSUME NEW d \in Drains, Live(d, k) PROVE Settled(k)'
        BY <3>3
      <4>1. itemStatus[k] # "missing"
        BY DEF LeaseInv, Settled, TerminalItem
      <4>2. Patched(k, OutcomeOf(reply)) \in TerminalItem \cup {"deleted"}
        BY <4>1, <3>2 DEF Patched, OutcomeOf, TerminalItem, NoDoc
      <4> QED
        BY <3>1, <4>2 DEF TypeOK, Settled
    <3>6. \A d \in Drains, i \in Items : task'[d][i] # "claimed" => heldAge'[d][i] = 0
      BY <3>1 DEF TypeOK, LeaseInv
    <3>7. \A d \in Drains, i \in Items : Live(d, i)' =>
            Settled(i)' \/ (itemStatus'[i] = "running" /\ leaseAge'[i] = heldAge'[d][i])
      BY <3>3, <3>4, <3>5 DEF LeaseInv
    <3>8. LeaseIsExclusive'
      BY <3>3 DEF LeaseInv, LeaseIsExclusive, Live
    <3> QED
      BY <3>6, <3>7, <3>8 DEF LeaseInv
  <2>12. CASE UNCHANGED vars
    BY <2>12, <2>1 DEF vars, storeVars, drainVars
  <2> QED
    BY <2>2, <2>3, <2>4, <2>5, <2>6, <2>7, <2>8, <2>9, <2>10, <2>11, <2>12 DEF Next, DrainStep
<1>3. LeaseInv => LeaseIsExclusive
  BY DEF LeaseInv
<1> QED
  BY <1>1, <1>2, <1>3, TypeCorrect, ClaimsInPool, PTL DEF Spec

------------------------------------------------------------------------------
(* The emulation implements the abstract batch service.                     *)

\* Where the doc must exist: under a drain past its first read, and under a
\* collection pass, which also needs the batch terminal.
DocInv ==
  /\ \A d \in Drains : pc[d] \notin {"idle", "getBatch"} => batchStatus # "absent"
  /\ \A p \in Procs : gcPc[p] # "idle" => batchStatus \in TerminalBatch \cup {"deleted"}

\* A step that writes no status and moves no drain or pass forward keeps it.
LEMMA DocInvKept ==
  ASSUME DocInv, UNCHANGED batchStatus,
         \A d \in Drains : pc'[d] \in {pc[d], "idle", "getBatch"}
                           \/ batchStatus # "absent",
         \A p \in Procs : gcPc'[p] \in {gcPc[p], "idle"}
                          \/ batchStatus \in TerminalBatch
  PROVE  DocInv'
BY DEF DocInv

LEMMA DocInvariant == Spec => []DocInv
<1>1. Init => DocInv
  BY DEF Init, DocInv
<1>2. TypeOK /\ PoolInv /\ DocInv /\ [Next]_vars => DocInv'
  <2> SUFFICES ASSUME TypeOK, PoolInv, DocInv, [Next]_vars PROVE DocInv'
    OBVIOUS
  <2>1. ASSUME NEW p \in Procs, Submit(p) PROVE DocInv'
    BY <2>1 DEF Submit, DocInv, drainVars, gcVars, TerminalBatch
  <2>2. ASSUME NEW p \in Procs, FinishSubmit(p) \/ Kick(p) PROVE DocInv'
    <3>1. UNCHANGED <<batchStatus, gcPc>>
      BY <2>2 DEF FinishSubmit, Kick, storeVars, gcVars
    <3>2. UNCHANGED pc \/ \E d \in Drains : pc' = [pc EXCEPT ![d] = "getBatch"]
      BY <2>2 DEF FinishSubmit, Kick, StartDrain, drainVars
    <3>3. \A d \in Drains : pc'[d] \in {pc[d], "getBatch"}
      BY <3>2 DEF TypeOK
    <3> QED
      BY <3>1, <3>3, DocInvKept
  <2>3. ASSUME NEW p \in Procs,
               \/ WriteItemThrows(p) \/ GcThrows(p) \/ GcList(p) \/ GcListItems(p)
               \/ \E i \in Items : WriteItem(p, i) \/ GcDeleteItem(p, i)
        PROVE  DocInv'
    <3>1. UNCHANGED <<batchStatus, pc>>
      BY <2>3 DEF WriteItemThrows, GcThrows, GcList, GcListItems, WriteItem, GcDeleteItem,
                  storeVars, drainVars
    <3>2. \A q \in Procs : gcPc'[q] \in {gcPc[q], "idle"}
                           \/ (q = p /\ GcList(p)) \/ (q = p /\ GcListItems(p))
      BY <2>3 DEF TypeOK, WriteItemThrows, GcThrows, GcList, GcListItems, WriteItem,
                  GcDeleteItem, gcVars
    <3>3. GcList(p) => batchStatus \in TerminalBatch
      BY DEF GcList
    <3>4. GcListItems(p) => gcPc[p] # "idle"
      BY DEF GcListItems
    <3> QED
      BY <3>1, <3>2, <3>3, <3>4 DEF DocInv
  <2>4. ASSUME NEW p \in Procs, GcDeleteBatch(p) PROVE DocInv'
    BY <2>4 DEF GcDeleteBatch, DocInv
  <2>5. ASSUME NEW p \in Procs, Crash(p) PROVE DocInv'
    <3>1. UNCHANGED batchStatus
      BY <2>5 DEF Crash, storeVars
    <3>2. \A d \in Drains : pc'[d] \in {pc[d], "idle"}
      BY <2>5 DEF Crash, TypeOK
    <3>3. \A q \in Procs : gcPc'[q] \in {gcPc[q], "idle"}
      BY <2>5 DEF Crash, TypeOK
    <3> QED
      BY <3>1, <3>2, <3>3, DocInvKept
  <2>6. ASSUME NEW c \in Drains, SetBatchStatus(c) PROVE DocInv'
    <3>1. batchStatus # "absent"
      BY <2>6 DEF SetBatchStatus, DocInv
    <3>2. batchStatus' \in TerminalBatch \cup {"deleted"} /\ UNCHANGED gcPc
      BY <2>6 DEF SetBatchStatus, TerminalBatch, gcVars
    <3> QED
      BY <3>1, <3>2 DEF DocInv, TerminalBatch
  <2>7. ASSUME NEW c \in Drains,
               GetBatch(c) \/ ListUnfinishedItems(c) \/ CheckCompletion(c) \/ DrainThrows(c)
        PROVE  DocInv'
    <3>1. UNCHANGED <<batchStatus, gcPc>>
      BY <2>7 DEF GetBatch, ListUnfinishedItems, CheckCompletion, DrainThrows, storeVars, gcVars
    <3>2. \E v \in DrainPc : pc' = [pc EXCEPT ![c] = v] /\ (v # "idle" => batchStatus # "absent")
      <4>1. CASE GetBatch(c)
        BY <4>1 DEF GetBatch, FinishDrain, DrainPc
      <4>2. CASE ListUnfinishedItems(c)
        <5>1. batchStatus # "absent"
          BY <4>2 DEF ListUnfinishedItems, DocInv
        <5>2. pc' = [pc EXCEPT ![c] = "writeErrored"] \/ pc' = [pc EXCEPT ![c] = "pool"]
          BY <4>2, Zenon DEF ListUnfinishedItems
        <5> QED
          BY <5>1, <5>2 DEF DrainPc
      <4>3. CASE CheckCompletion(c)
        <5>1. batchStatus # "absent"
          BY <4>3 DEF CheckCompletion, PoolDone, DocInv
        <5> QED
          BY <4>3, <5>1 DEF CheckCompletion, FinishDrain, Verdict, DrainPc
      <4>4. CASE DrainThrows(c)
        BY <4>4 DEF DrainThrows, FinishDrain, DrainPc
      <4> QED
        BY <2>7, <4>1, <4>2, <4>3, <4>4
    <3>3. \A d \in Drains : pc'[d] \in {pc[d], "idle"} \/ batchStatus # "absent"
      BY <3>2 DEF TypeOK
    <3> QED
      BY <3>1, <3>3, DocInvKept
  <2>8. ASSUME NEW c \in Drains, NEW k \in Items,
               \/ ClaimItem(c, k) \/ ClaimThrows(c, k) \/ PersistFails(c, k)
               \/ \E reply \in Replies : RunAndPersist(c, k, reply)
        PROVE  DocInv'
    <3>1. UNCHANGED <<batchStatus, gcPc, pc>>
      BY <2>8 DEF ClaimItem, ClaimThrows, PersistFails, RunAndPersist, storeVars, gcVars
    <3> QED
      BY <3>1, DocInvKept
  <2>9. CASE Tick \/ UNCHANGED vars
    <3>1. UNCHANGED <<batchStatus, gcPc, pc>>
      BY <2>9 DEF Tick, vars, storeVars, drainVars, gcVars
    <3> QED
      BY <3>1, DocInvKept
  <2> QED
    BY <2>1, <2>2, <2>3, <2>4, <2>5, <2>6, <2>7, <2>8, <2>9 DEF Next, DrainStep
<1> QED
  BY <1>1, <1>2, TypeCorrect, ClaimsInPool, PTL DEF Spec

\* What the refinement mapping makes of an item's status.
Recorded(s) == IF s = "deleted" THEN "forgotten"
               ELSE IF s \in TerminalItem THEN s ELSE "none"

LEMMA MappedStutter ==
  ASSUME TypeOK, UNCHANGED batchStatus,
         \A i \in Items : Recorded(itemStatus'[i]) = Recorded(itemStatus[i])
  PROVE  UNCHANGED Svc!svcVars
BY Zenon DEF Svc!svcVars, Recorded

\* One item's result is recorded, or forgotten, and nothing else changes.
LEMMA MappedRecord ==
  ASSUME TypeOK, NEW k \in Items, NEW r \in TerminalItem,
         batchStatus # "absent", UNCHANGED batchStatus,
         itemStatus[k] \notin NoDoc, itemStatus' = [itemStatus EXCEPT ![k] = r]
  PROVE  Svc!Record(k, r)
<1> DEFINE Res == [i \in Items |-> Recorded(itemStatus[i])]
<1>1. itemStatus'[k] = r /\ \A i \in Items \ {k} : itemStatus'[i] = itemStatus[i]
  BY DEF TypeOK
<1>2. Recorded(r) = r /\ r # "deleted"
  BY DEF Recorded, TerminalItem
<1>3. \A i \in Items : Res'[i] = IF i = k THEN r ELSE Res[i]
  BY <1>1, <1>2
<1>4. Res' = [Res EXCEPT ![k] = r]
  BY <1>3
<1>5. Res[k] # "forgotten"
  BY DEF TypeOK, Recorded, TerminalItem, NoDoc, Unfinished
<1>6. batchStatus # "none"
  BY DEF TypeOK, TerminalBatch
<1> QED
  BY <1>4, <1>5, <1>6, Zenon DEF Svc!Record, Recorded

LEMMA MappedForget ==
  ASSUME TypeOK, NEW k \in Items,
         batchStatus \in TerminalBatch \cup {"deleted"}, UNCHANGED batchStatus,
         itemStatus' = [itemStatus EXCEPT ![k] = "deleted"]
  PROVE  Svc!Forget(k)
BY DEF Svc!Forget, Svc!Terminal, TypeOK, TerminalItem, TerminalBatch

\* The status is written, by a drain or by the collector.
LEMMA MappedStatus ==
  ASSUME TypeOK, UNCHANGED itemStatus, batchStatus # "absent",
         \/ batchStatus' = batchStatus
         \/ batchStatus' = "ended" /\ batchStatus # "deleted" /\ AllSettled
         \/ batchStatus' = "errored" /\ batchStatus # "deleted"
         \/ batchStatus' = "deleted" /\ batchStatus \in TerminalBatch \cup {"deleted"}
  PROVE  [Svc!Next]_(Svc!svcVars)
<1>1. CASE batchStatus' = batchStatus
  BY <1>1, MappedStutter
<1>2. CASE batchStatus' = "ended" /\ batchStatus \in {"in_progress", "errored"} /\ AllSettled
  BY <1>2 DEF Svc!Next, Svc!End, AllSettled, Settled, TerminalItem
<1>3. CASE batchStatus' = "errored" /\ batchStatus \in {"in_progress", "ended"}
  BY <1>3 DEF Svc!Next, Svc!Fail
<1>4. CASE batchStatus' = "deleted" /\ batchStatus \in TerminalBatch \cup {"deleted"}
  BY <1>4 DEF Svc!Next, Svc!Drop, Svc!Terminal, TerminalBatch
<1> QED
  BY <1>1, <1>2, <1>3, <1>4 DEF TypeOK, TerminalBatch

LEMMA MappedStep ==
  ASSUME TypeOK, EndedInv, PoolInv, DocInv, [Next]_vars
  PROVE  [Svc!Next]_(Svc!svcVars)
<1>1. ASSUME NEW p \in Procs, Submit(p) PROVE Svc!Accept
  BY <1>1 DEF Submit, Svc!Accept
<1>2. ASSUME NEW p \in Procs, NEW k \in Items, WriteItem(p, k) PROVE UNCHANGED Svc!svcVars
  <2>1. UNCHANGED batchStatus /\ itemStatus[k] = "missing"
        /\ itemStatus' = [itemStatus EXCEPT ![k] = "pending"]
    BY <1>2 DEF WriteItem
  <2>2. \A i \in Items : Recorded(itemStatus'[i]) = Recorded(itemStatus[i])
    BY <2>1 DEF TypeOK, Recorded, TerminalItem
  <2> QED
    BY <2>1, <2>2, MappedStutter
<1>3. ASSUME NEW p \in Procs, NEW k \in Items, GcDeleteItem(p, k) PROVE Svc!Forget(k)
  BY <1>3, MappedForget DEF GcDeleteItem, DocInv
<1>4. ASSUME NEW p \in Procs, GcDeleteBatch(p) PROVE [Svc!Next]_(Svc!svcVars)
  BY <1>4, MappedStatus DEF GcDeleteBatch, DocInv, TerminalBatch
<1>5. ASSUME NEW d \in Drains, SetBatchStatus(d) PROVE [Svc!Next]_(Svc!svcVars)
  <2>1. batchStatus # "absent" /\ UNCHANGED itemStatus
    BY <1>5 DEF SetBatchStatus, DocInv
  <2>2. \/ batchStatus' = batchStatus
        \/ batchStatus' = "ended" /\ batchStatus # "deleted" /\ pc[d] = "writeEnded"
        \/ batchStatus' = "errored" /\ batchStatus # "deleted"
    BY <1>5 DEF SetBatchStatus
  <2>3. pc[d] = "writeEnded" => AllSettled
    BY DEF EndedInv
  <2> QED
    BY <2>1, <2>2, <2>3, MappedStatus
<1>6. ASSUME NEW d \in Drains, NEW k \in Items, ClaimItem(d, k) PROVE UNCHANGED Svc!svcVars
  <2>1. UNCHANGED batchStatus
    BY <1>6 DEF ClaimItem
  <2>2. \/ UNCHANGED itemStatus
        \/ itemStatus[k] \in Unfinished /\ itemStatus' = [itemStatus EXCEPT ![k] = "running"]
    BY <1>6 DEF ClaimItem, Claimable, Unfinished
  <2>3. \A i \in Items : Recorded(itemStatus'[i]) = Recorded(itemStatus[i])
    BY <2>2 DEF TypeOK, Recorded, TerminalItem, Unfinished
  <2> QED
    BY <2>1, <2>3, MappedStutter
<1>7. ASSUME NEW d \in Drains, NEW k \in Items, NEW reply \in Replies, RunAndPersist(d, k, reply)
      PROVE  [Svc!Next]_(Svc!svcVars)
  <2>1. UNCHANGED batchStatus /\ task[d][k] = "claimed"
        /\ itemStatus' = [itemStatus EXCEPT ![k] = Patched(k, OutcomeOf(reply))]
    BY <1>7 DEF RunAndPersist
  <2>2. batchStatus # "absent"
    BY <2>1 DEF PoolInv, DocInv
  <2>3. CASE itemStatus[k] \in NoDoc
    <3>1. \A i \in Items : itemStatus'[i] = itemStatus[i]
      BY <2>1, <2>3 DEF TypeOK, Patched
    <3> QED
      BY <2>1, <3>1, MappedStutter
  <2>4. CASE itemStatus[k] \notin NoDoc
    <3>1. OutcomeOf(reply) \in TerminalItem
      BY DEF OutcomeOf, TerminalItem
    <3>2. Svc!Record(k, OutcomeOf(reply))
      BY <2>1, <2>2, <2>4, <3>1, MappedRecord DEF Patched
    <3> QED
      BY <3>1, <3>2 DEF Svc!Next
  <2> QED
    BY <2>3, <2>4
<1>8. ASSUME \/ Tick \/ UNCHANGED vars
             \/ \E p \in Procs :
                  \/ WriteItemThrows(p) \/ FinishSubmit(p) \/ Kick(p) \/ GcList(p)
                  \/ GcListItems(p) \/ GcThrows(p) \/ Crash(p)
             \/ \E d \in Drains :
                  \/ GetBatch(d) \/ ListUnfinishedItems(d) \/ CheckCompletion(d)
                  \/ DrainThrows(d)
                  \/ \E i \in Items : ClaimThrows(d, i) \/ PersistFails(d, i)
      PROVE  UNCHANGED Svc!svcVars
  <2>1. UNCHANGED <<batchStatus, itemStatus>>
    BY <1>8 DEF Tick, vars, WriteItemThrows, FinishSubmit, Kick, GcList, GcListItems, GcThrows,
                Crash, GetBatch, ListUnfinishedItems, CheckCompletion, DrainThrows, ClaimThrows,
                PersistFails, storeVars
  <2> QED
    BY <2>1, MappedStutter
<1>9. (\E k \in Items : Svc!Forget(k)) \/ Svc!Accept => Svc!Next
  BY DEF Svc!Next
<1> QED
  BY <1>1, <1>2, <1>3, <1>4, <1>5, <1>6, <1>7, <1>8, <1>9 DEF Next, DrainStep

\* The emulated batch keeps the promises of a batch provider: every step of the
\* store, the workers and the collector maps to a step of BatchService or to none.
THEOREM Implementation == Spec => ImplementsBatchService
<1>1. Init => Svc!Init
  BY DEF Init, Svc!Init, TerminalItem
<1>2. TypeOK /\ EndedInv /\ PoolInv /\ DocInv /\ [Next]_vars => [Svc!Next]_(Svc!svcVars)
  BY MappedStep
<1> QED
  BY <1>1, <1>2, TypeCorrect, EndedInvariant, ClaimsInPool, DocInvariant, PTL
     DEF Spec, Svc!Spec, ImplementsBatchService
=============================================================================
