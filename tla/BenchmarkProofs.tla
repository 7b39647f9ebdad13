--------------------------- MODULE BenchmarkProofs ---------------------------
(***************************************************************************)
(* Theorems about BenchmarkPipeline and about ProviderBatches, which puts  *)
(* the providers under it, for every matrix of cells, number of runs,      *)
(* passes and workers, and number of faults.  Some hold while all passes   *)
(* live in one worker process.                                             *)
(***************************************************************************)
EXTENDS ProviderBatches, TLAPS

USE ShapeAssumption, BoundAssumption, NoneAssumption

------------------------------------------------------------------------------
(* Type correctness, in the parts the action groups leave alone.            *)

StoreType ==
  /\ cell \in [Cells -> {"none"} \cup Verdicts]
  /\ doc \in [Batches -> {"none", "reconciled"} \cup NonTerminal \cup Failed]
  /\ scoreboard \subseteq Cells

ProvType ==
  /\ batchCells \in [Batches -> SUBSET Cells]
  /\ provStatus \in [Batches -> {"none", "in_progress", "ended", "gone"} \cup Failed]
  /\ provResult \in [Batches -> [Cells -> {"none"} \cup ItemTypes]]
  /\ late \subseteq Batches \X Cells

RunType ==
  /\ holder \in Runs \cup {NoRun}
  /\ runPc \in [Runs -> RunPc]
  /\ runWanted \in [Runs -> SUBSET Cells]
  /\ runDay \in [Runs -> 1 .. LastDay]
  /\ runQueued \in [Runs -> SUBSET Cells]
  /\ runUnread \in [Runs -> SUBSET Series]
  /\ runMissing \in [Runs -> SUBSET Cells]
  /\ runBatch \in [Runs -> Batches \cup {NoBatch}]

RecType ==
  /\ recPc \in [Passes -> RecPc]
  /\ recTodo \in [Passes -> SUBSET Batches]
  /\ recBatch \in [Passes -> Batches \cup {NoBatch}]
  /\ recSeen \in [Passes -> {"none", "in_progress", "ended", "gone"} \cup Failed]
  /\ recItems \in [Passes -> [Cells -> {"none"} \cup ResultTypes]]
  /\ recDirty \in [Passes -> BOOLEAN]
  /\ recBoard \in [Passes -> SUBSET Cells]

FaultType == faults \in Nat /\ writeFaults \in Nat /\ faults + writeFaults <= MaxFaults

\* A pass that is about to write a status polled one that may be written.
SeenType == \A x \in Passes : recPc[x] = "mark" => recSeen[x] \in Failed \cup {"in_progress"}

Typed == StoreType /\ ProvType /\ RunType /\ RecType /\ FaultType /\ SeenType

LEMMA TypedIsTypeOK == Typed => TypeOK
BY DEF Typed, TypeOK, StoreType, ProvType, RunType, RecType, FaultType

LEMMA InitTyped == Init => Typed
BY DEF Init, Typed, StoreType, ProvType, RunType, RecType, FaultType, SeenType, RunPc, RecPc

LEMMA EndRunType ==
  ASSUME RunType, NEW r \in Runs, EndRun(r)
  PROVE  RunType'
BY DEF RunType, EndRun, Released, RunPc

LEMMA NextDayType ==
  ASSUME RunType, NEW r \in Runs, NextDay(r)
  PROVE  RunType'
<1>1. CASE runDay[r] = LastDay
  BY <1>1, EndRunType DEF NextDay
<1>2. CASE runDay[r] # LastDay
  <2>1. Asked(r, runDay[r] + 1) \subseteq Series
    BY DEF Asked
  <2>2. runDay[r] + 1 \in 1 .. LastDay
    BY <1>2 DEF RunType
  <2> QED
    BY <1>2, <2>1, <2>2 DEF NextDay, RunType, RunPc
<1> QED
  BY <1>1, <1>2

\* What the steps of a run change, each in its own group of variables.
LEMMA RunStepTyped ==
  ASSUME Typed, NEW r \in Runs,
         StartRun(r) \/ RunStep(r) \/ DropScorecard(r) \/ SaveThrows(r) \/ RunAborts(r)
  PROVE  Typed'
<1> USE DEF Typed
<1>1. CASE StartRun(r)
  <2>1. RunType'
    BY <1>1 DEF StartRun, RunType, RunPc
  <2> QED
    BY <1>1, <2>1 DEF StartRun, storeVars, provVars, recVars, faultVars,
                      StoreType, ProvType, RecType, FaultType, SeenType
<1>2. CASE ReadQueued(r)
  <2>1. InFlight \subseteq Cells /\ Asked(r, 1) \subseteq Series
    BY DEF InFlight, Asked, ProvType
  <2>2. RunType'
    BY <1>2, <2>1 DEF ReadQueued, RunType, RunPc
  <2> QED
    BY <1>2, <2>2 DEF ReadQueued, storeVars, provVars, recVars, faultVars,
                      StoreType, ProvType, RecType, FaultType, SeenType
<1>3. ASSUME NEW s \in Series, ReadExisting(r, s)
      PROVE  Typed'
  <2>1. MissingOf(r, s) \subseteq Cells
    BY DEF MissingOf, RunType
  <2>2. RunType'
    BY <1>3, <2>1 DEF ReadExisting, RunType
  <2> QED
    BY <1>3, <2>2 DEF ReadExisting, storeVars, provVars, recVars, faultVars,
                      StoreType, ProvType, RecType, FaultType, SeenType
<1>4. CASE DayRead(r) \/ SkipDay(r) \/ DropScorecard(r)
  <2>1. CASE NextDay(r)
    <3>1. RunType'
      BY <2>1, NextDayType
    <3> QED
      BY <1>4, <3>1 DEF DayRead, SkipDay, DropScorecard, storeVars, provVars, recVars, faultVars,
                        StoreType, ProvType, RecType, FaultType, SeenType
  <2>2. CASE ~NextDay(r)
    <3>1. RunType'
      BY <1>4, <2>2 DEF DayRead, SkipDay, DropScorecard, RunType, RunPc
    <3> QED
      BY <1>4, <3>1 DEF DayRead, SkipDay, DropScorecard, storeVars, provVars, recVars, faultVars,
                        StoreType, ProvType, RecType, FaultType, SeenType
  <2> QED
    BY <2>1, <2>2
<1>5. CASE SubmitBatch(r)
  <2>1. RunType'
    BY <1>5 DEF SubmitBatch, RunType, RunPc
  <2>2. ProvType'
    BY <1>5 DEF SubmitBatch, ProvType, RunType
  <2> QED
    BY <1>5, <2>1, <2>2 DEF SubmitBatch, storeVars, recVars, faultVars,
                            StoreType, RecType, FaultType, SeenType
<1>6. CASE SaveBatch(r)
  <2>1. RunType'
    BY <1>6, NextDayType DEF SaveBatch
  <2>2. StoreType'
    BY <1>6 DEF SaveBatch, StoreType, NonTerminal
  <2> QED
    BY <1>6, <2>1, <2>2 DEF SaveBatch, provVars, recVars, faultVars,
                            ProvType, RecType, FaultType, SeenType
<1>7. CASE SaveThrows(r)
  <2>1. RunType'
    BY <1>7, NextDayType DEF SaveThrows
  <2>2. FaultType'
    BY <1>7 DEF SaveThrows, Fault, FaultType
  <2> QED
    BY <1>7, <2>1, <2>2 DEF SaveThrows, storeVars, provVars, recVars,
                            StoreType, ProvType, RecType, SeenType
<1>8. CASE RunAborts(r)
  <2>1. RunType'
    BY <1>8, EndRunType DEF RunAborts
  <2> QED
    BY <1>8, <2>1 DEF RunAborts, storeVars, provVars, recVars, faultVars,
                      StoreType, ProvType, RecType, FaultType, SeenType
<1> QED
  BY <1>1, <1>2, <1>3, <1>4, <1>5, <1>6, <1>7, <1>8 DEF RunStep

\* The provider touches its own variables, and the faults.
LEMMA ProviderTyped ==
  ASSUME Typed, NEW b \in Batches,
         ProviderMoves(b)
  PROVE  Typed'
<1> USE DEF Typed
<1>1. CASE ProviderEnds(b)
  <2>1. ProvType'
    BY <1>1 DEF ProviderEnds, ProvType
  <2> QED
    BY <1>1, <2>1 DEF ProviderEnds, storeVars, runVars, recVars, faultVars,
                      StoreType, RunType, RecType, FaultType, SeenType
<1>2. CASE ProviderFails(b)
  <2>1. ProvType'
    BY <1>2 DEF ProviderFails, ProvType
  <2> QED
    BY <1>2, <2>1 DEF ProviderFails, storeVars, runVars, recVars, faultVars,
                      StoreType, RunType, RecType, FaultType, SeenType
<1>3. CASE ProviderReneges(b)
  <2>1. ProvType' /\ FaultType'
    BY <1>3 DEF ProviderReneges, ProvType, Failed, Fault, FaultType
  <2> QED
    BY <1>3, <2>1 DEF ProviderReneges, storeVars, runVars, recVars,
                      StoreType, RunType, RecType, SeenType
<1>4. CASE ProviderForgets(b)
  <2>1. ProvType'
    BY <1>4 DEF ProviderForgets, ProvType
  <2> QED
    BY <1>4, <2>1 DEF ProviderForgets, storeVars, runVars, recVars, faultVars,
                      StoreType, RunType, RecType, FaultType, SeenType
<1>5. CASE ProviderRecovers(b)
  <2>1. ProvType' /\ FaultType'
    BY <1>5 DEF ProviderRecovers, ProvType, Fault, FaultType
  <2> QED
    BY <1>5, <2>1 DEF ProviderRecovers, storeVars, runVars, recVars,
                      StoreType, RunType, RecType, SeenType
<1>6. ASSUME NEW c \in Cells, ProviderReplaces(b, c)
      PROVE  Typed'
  <2>1. ProvType' /\ FaultType'
    BY <1>6 DEF ProviderReplaces, ProvType, Fault, FaultType
  <2> QED
    BY <1>6, <2>1 DEF ProviderReplaces, storeVars, runVars, recVars,
                      StoreType, RunType, RecType, SeenType
<1> QED
  BY <1>1, <1>2, <1>3, <1>4, <1>5, <1>6 DEF ProviderMoves

\* Lists, polls, reads and resets only move the pass itself.
LEMMA PassMovesTyped ==
  ASSUME Typed, NEW x \in Passes,
         StartPass(x) \/ (\E b \in Batches : PollBatch(x, b)) \/ ReadResults(x)
         \/ EndLoop(x) \/ ReadCells(x)
  PROVE  Typed'
<1> USE DEF Typed
<1>1. RecType' /\ SeenType'
  <2>1. CASE StartPass(x)
    BY <2>1 DEF StartPass, RecType, SeenType, RecPc
  <2>2. ASSUME NEW b \in Batches, PollBatch(x, b)
        PROVE  RecType' /\ SeenType'
    BY <2>2 DEF PollBatch, NextStep, RecType, SeenType, RecPc, ProvType
  <2>3. CASE ReadResults(x)
    <3>1. \A c \in Cells : Kept(provResult[recBatch[x]][c]) \in {"none"} \cup ResultTypes
      BY DEF Kept
    <3>2. recItems' \in [Passes -> [Cells -> {"none"} \cup ResultTypes]]
      BY <2>3, <3>1 DEF ReadResults, RecType
    <3> QED
      BY <2>3, <3>2 DEF ReadResults, RecType, SeenType, RecPc
  <2>4. CASE EndLoop(x)
    <3>1. CASE BoardDue(x)
      BY <2>4, <3>1 DEF EndLoop, RecType, SeenType, RecPc
    <3>2. CASE ~BoardDue(x)
      BY <2>4, <3>2 DEF EndLoop, ResetPass, RecType, SeenType, RecPc
    <3> QED
      BY <3>1, <3>2
  <2>5. CASE ReadCells(x)
    BY <2>5 DEF ReadCells, Persisted, RecType, SeenType, RecPc
  <2> QED
    BY <2>1, <2>2, <2>3, <2>4, <2>5
<1>2. UNCHANGED <<storeVars, provVars, runVars, faultVars>>
  BY DEF StartPass, PollBatch, ReadResults, EndLoop, ReadCells
<1> QED
  BY <1>1, <1>2 DEF storeVars, provVars, runVars, faultVars,
                    StoreType, ProvType, RunType, FaultType

\* Writes change the store too, failures the faults.
LEMMA PassWritesTyped ==
  ASSUME Typed, NEW x \in Passes,
         MarkBatch(x) \/ FinishBatch(x) \/ SaveBoard(x)
         \/ (\E c \in Cells : WriteCell(x, c) \/ WriteCellThrows(x, c))
         \/ BatchThrows(x) \/ BoardThrows(x) \/ CrashWorker(x)
  PROVE  Typed'
<1> USE DEF Typed
<1>1. CASE MarkBatch(x) \/ FinishBatch(x)
  <2>1. StoreType'
    BY <1>1 DEF MarkBatch, FinishBatch, ItemsDone, StoreType, SeenType, NonTerminal
  <2>2. RecType' /\ SeenType'
    BY <1>1 DEF MarkBatch, FinishBatch, RecType, SeenType, RecPc
  <2> QED
    BY <1>1, <2>1, <2>2 DEF MarkBatch, FinishBatch, provVars, runVars, faultVars,
                            ProvType, RunType, FaultType
<1>2. CASE SaveBoard(x)
  <2>1. StoreType' /\ RecType' /\ SeenType'
    BY <1>2 DEF SaveBoard, ResetPass, StoreType, RecType, SeenType, RecPc
  <2> QED
    BY <1>2, <2>1 DEF SaveBoard, provVars, runVars, faultVars, ProvType, RunType, FaultType
<1>3. ASSUME NEW c \in Cells, WriteCell(x, c)
      PROVE  Typed'
  <2>1. Verdict(recItems[x][c]) \in Verdicts
    BY DEF Verdict, Verdicts
  <2>2. StoreType'
    BY <1>3, <2>1 DEF WriteCell, StoreType
  <2>3. RecType' /\ SeenType'
    BY <1>3 DEF WriteCell, RecType, SeenType
  <2> QED
    BY <1>3, <2>2, <2>3 DEF WriteCell, provVars, runVars, faultVars, ProvType, RunType, FaultType
<1>4. ASSUME NEW c \in Cells, WriteCellThrows(x, c)
      PROVE  Typed'
  <2>1. RecType' /\ SeenType' /\ FaultType'
    BY <1>4 DEF WriteCellThrows, RecType, SeenType, FaultType
  <2> QED
    BY <1>4, <2>1 DEF WriteCellThrows, storeVars, provVars, runVars, StoreType, ProvType, RunType
<1>5. CASE BatchThrows(x) \/ BoardThrows(x)
  <2>1. RecType' /\ SeenType'
    <3>1. CASE BatchThrows(x)
      BY <3>1 DEF BatchThrows, RecType, SeenType, RecPc
    <3>2. CASE BoardThrows(x)
      BY <3>2 DEF BoardThrows, ResetPass, RecType, SeenType, RecPc
    <3> QED
      BY <1>5, <3>1, <3>2
  <2>2. FaultType'
    BY <1>5 DEF BatchThrows, BoardThrows, Fault, FaultType
  <2> QED
    BY <1>5, <2>1, <2>2 DEF BatchThrows, BoardThrows, storeVars, provVars, runVars,
                            StoreType, ProvType, RunType
<1>6. CASE CrashWorker(x)
  <2>1. RecType' /\ SeenType'
    BY <1>6 DEF CrashWorker, RecType, SeenType, RecPc
  <2>2. FaultType'
    BY <1>6 DEF CrashWorker, Fault, FaultType
  <2> QED
    BY <1>6, <2>1, <2>2 DEF CrashWorker, storeVars, provVars, runVars,
                            StoreType, ProvType, RunType
<1> QED
  BY <1>1, <1>2, <1>3, <1>4, <1>5, <1>6

LEMMA CrashApiTyped ==
  ASSUME Typed, CrashApi
  PROVE  Typed'
<1>1. RunType' /\ FaultType'
  BY DEF Typed, CrashApi, RunType, RunPc, Fault, FaultType
<1> QED
  BY <1>1 DEF Typed, CrashApi, storeVars, provVars, recVars,
              StoreType, ProvType, RecType, SeenType

LEMMA NextTyped ==
  ASSUME Typed, [Next]_vars
  PROVE  Typed'
<1>1. CASE CrashApi
  BY <1>1, CrashApiTyped
<1>2. ASSUME NEW r \in Runs,
             StartRun(r) \/ RunStep(r) \/ DropScorecard(r) \/ SaveThrows(r) \/ RunAborts(r)
      PROVE  Typed'
  BY <1>2, RunStepTyped
<1>3. ASSUME NEW b \in Batches,
             ProviderMoves(b)
      PROVE  Typed'
  BY <1>3, ProviderTyped
<1>4. ASSUME NEW x \in Passes,
             \/ StartPass(x) \/ PassStep(x) \/ BatchThrows(x) \/ BoardThrows(x) \/ CrashWorker(x)
             \/ \E c \in Cells : WriteCellThrows(x, c)
      PROVE  Typed'
  BY <1>4, PassMovesTyped, PassWritesTyped DEF PassStep
<1>5. CASE UNCHANGED vars
  BY <1>5 DEF vars, storeVars, provVars, runVars, recVars, faultVars, Typed,
              StoreType, ProvType, RunType, RecType, FaultType, SeenType
<1> QED
  BY <1>1, <1>2, <1>3, <1>4, <1>5 DEF Next

\* No step of a run, a pass, the provider or a crash takes a variable out of its
\* type (benchmark.service.ts, batch-reconciler.ts).
THEOREM TypeCorrect == Spec => []TypeOK
<1>1. Spec => []Typed
  BY InitTyped, NextTyped, PTL DEF Spec
<1> QED
  BY <1>1, TypedIsTypeOK, PTL

------------------------------------------------------------------------------
(* A reconciled batch is complete.  What the pass that closes it wrote is the  *)
(* union of what every pass before it wrote and of the items it read itself,   *)
(* so the invariant follows the items of a batch from the poll on.             *)

Decided(b) == provStatus[b] \notin {"none", "in_progress"}
\* Each item of it has a result, unless they were all collected.
Reported(b) ==
  Decided(b) /\ (provStatus[b] = "gone" \/ \A c \in batchCells[b] : provResult[b][c] # "none")
\* Results that are not late ones.
Yields(b, c) == provResult[b][c] \in ResultTypes /\ <<b, c>> \notin late

\* A pass reads the results of a batch that has one for every item.
EndedIsReported == \A b \in Batches : provStatus[b] = "ended" => Reported(b)
HarvestIsReported ==
  \A x \in Passes : recPc[x] \in {"results", "cells"} =>
    recBatch[x] \in Batches /\ Reported(recBatch[x])
\* While it writes cells, each result has its cell or is still to be written.
HarvestIsWhole ==
  writeFaults = 0 => \A x \in Passes : recPc[x] = "cells" =>
    \A c \in Cells : Yields(recBatch[x], c) => cell[c] # "none" \/ recItems[x][c] # "none"
ReconciledIsReported == \A b \in Batches : doc[b] = "reconciled" => Reported(b)

Harvest ==
  /\ EndedIsReported /\ HarvestIsReported /\ HarvestIsWhole
  /\ ReconciledIsReported /\ ReconciledIsComplete
HInv == Typed /\ Harvest

LEMMA InitHarvest == Init => Harvest
BY DEF Init, Harvest, EndedIsReported, HarvestIsReported, HarvestIsWhole, ReconciledIsReported, ReconciledIsComplete

\* Only a pass and the provider disturb it: a run saves a batch as submitted.
LEMMA RunHarvest ==
  ASSUME HInv, NEW r \in Runs,
         StartRun(r) \/ RunStep(r) \/ DropScorecard(r) \/ SaveThrows(r) \/ RunAborts(r)
  PROVE  Harvest'
<1> USE DEF HInv, Harvest
<1>1. UNCHANGED <<cell, provResult, late, recPc, recBatch, recItems, writeFaults>>
  BY DEF StartRun, RunStep, ReadQueued, ReadExisting, DayRead, SkipDay, DropScorecard, SubmitBatch,
         SaveBatch, SaveThrows, RunAborts, Fault, storeVars, provVars, recVars, faultVars
<1>2. \A b \in Batches : /\ Reported(b) => Reported(b)'
                         /\ provStatus'[b] = "ended" => provStatus[b] = "ended"
  <2>1. CASE SubmitBatch(r)
    BY <2>1 DEF SubmitBatch, Reported, Decided, Typed, ProvType
  <2>2. CASE ~SubmitBatch(r)
    BY <2>2 DEF StartRun, RunStep, ReadQueued, ReadExisting, DayRead, SkipDay, DropScorecard,
                SaveBatch, SaveThrows, RunAborts, Reported, Decided, provVars
  <2> QED
    BY <2>1, <2>2
<1>3. \A b \in Batches : doc'[b] = "reconciled" => doc[b] = "reconciled"
  BY DEF StartRun, RunStep, ReadQueued, ReadExisting, DayRead, SkipDay, DropScorecard, SubmitBatch,
         SaveBatch, SaveThrows, RunAborts, storeVars, Typed, StoreType
<1> QED
  BY <1>1, <1>2, <1>3 DEF EndedIsReported, HarvestIsReported, HarvestIsWhole, ReconciledIsReported,
                          ReconciledIsComplete, Yields

\* A result that comes after the batch was read is a late one.
LEMMA ProviderHarvest ==
  ASSUME HInv, NEW b \in Batches, ProviderMoves(b)
  PROVE  Harvest'
<1> USE DEF HInv, Harvest
<1>1. UNCHANGED <<cell, doc, recPc, recBatch, recItems, writeFaults, batchCells>>
  BY DEF ProviderMoves, ProviderEnds, ProviderFails, ProviderReneges, ProviderRecovers,
         ProviderReplaces, ProviderForgets, Fault, storeVars, recVars, faultVars
<1>2. /\ \A a \in Batches : Reported(a) => Reported(a)'
      /\ EndedIsReported'
      /\ \A a \in Batches, c \in Cells :
           HasBeenRead(a) /\ Reported(a) /\ Yields(a, c)' => Yields(a, c)
  <2> USE <1>1 DEF EndedIsReported, Reported, Decided, Yields, Typed, ProvType
  <2>1. CASE ProviderEnds(b)
    <3>1. /\ provStatus[b] = "in_progress" /\ provStatus'[b] = "ended" /\ late' = late
          /\ \A c \in batchCells[b] : provResult'[b][c] \in ItemTypes
      BY <2>1 DEF ProviderEnds
    <3>2. \A a \in Batches \ {b} : provStatus'[a] = provStatus[a] /\ provResult'[a] = provResult[a]
      BY <2>1 DEF ProviderEnds
    <3>3. Reported(b)' /\ ~Reported(b)
      BY <3>1 DEF ItemTypes, ResultTypes
    <3>4. \A a \in Batches \ {b} : Reported(a)' = Reported(a)
      BY <3>2
    <3>5. \A a \in Batches \ {b}, c \in Cells : Yields(a, c)' => Yields(a, c)
      BY <3>1, <3>2
    <3> HIDE DEF Reported, Decided, Yields
    <3> QED
      BY <3>2, <3>3, <3>4, <3>5
  <2>2. CASE ProviderFails(b) \/ ProviderReneges(b)
    BY <2>2 DEF ProviderFails, ProviderReneges, Failed
  <2>3. CASE ProviderForgets(b)
    BY <2>3 DEF ProviderForgets, ResultTypes
  <2>4. CASE ProviderRecovers(b)
    BY <2>4 DEF ProviderRecovers, ItemTypes, ResultTypes
  <2>5. ASSUME NEW c \in Cells, ProviderReplaces(b, c)
        PROVE  /\ \A a \in Batches : Reported(a) => Reported(a)'
               /\ EndedIsReported'
               /\ \A a \in Batches, d \in Cells :
                    HasBeenRead(a) /\ Reported(a) /\ Yields(a, d)' => Yields(a, d)
    BY <2>5 DEF ProviderReplaces, ItemTypes, ResultTypes
  <2> QED
    BY <2>1, <2>2, <2>3, <2>4, <2>5 DEF ProviderMoves
<1> QED
  BY <1>1, <1>2 DEF HarvestIsReported, HarvestIsWhole, ReconciledIsReported,
                    ReconciledIsComplete, Yields, HasBeenRead, Typed, RecType

\* A pass that reads results takes every one of them over.
LEMMA PassMovesHarvest ==
  ASSUME HInv, NEW x \in Passes,
         StartPass(x) \/ (\E b \in Batches : PollBatch(x, b)) \/ ReadResults(x)
         \/ EndLoop(x) \/ ReadCells(x)
  PROVE  Harvest'
<1> USE DEF HInv, Harvest
<1>1. UNCHANGED <<cell, doc, batchCells, provStatus, provResult, late, writeFaults>>
  BY DEF StartPass, PollBatch, ReadResults, EndLoop, ReadCells, storeVars, provVars, faultVars
<1>2. EndedIsReported' /\ HarvestIsReported'
  <2>1. ASSUME NEW b \in Batches, PollBatch(x, b)
        PROVE  EndedIsReported' /\ HarvestIsReported'
    BY <2>1 DEF PollBatch, NextStep, Failed, EndedIsReported, HarvestIsReported, Reported, Decided, provVars, Typed, RecType
  <2> QED
    BY <1>1, <2>1 DEF StartPass, ReadResults, EndLoop, ResetPass, ReadCells,
                      EndedIsReported, HarvestIsReported, Reported, Decided, Typed, RecType
<1>3. HarvestIsWhole'
  <2>1. CASE ReadResults(x)
    BY <1>1, <2>1 DEF ReadResults, Kept, ResultTypes, HarvestIsWhole, Yields, Typed, RecType
  <2>2. CASE StartPass(x) \/ EndLoop(x) \/ ReadCells(x)
    BY <1>1, <2>2 DEF StartPass, EndLoop, ResetPass, ReadCells, HarvestIsWhole, Yields, Typed, RecType
  <2>3. ASSUME NEW b \in Batches, PollBatch(x, b)
        PROVE  HarvestIsWhole'
    BY <1>1, <2>3 DEF PollBatch, NextStep, HarvestIsWhole, Yields, Typed, RecType
  <2> QED
    BY <2>1, <2>2, <2>3
<1> QED
  BY <1>1, <1>2, <1>3 DEF ReconciledIsReported, ReconciledIsComplete, Reported, Decided

\* A pass closes a batch when it has no item of it left to write.
LEMMA PassWritesHarvest ==
  ASSUME HInv, NEW x \in Passes,
         MarkBatch(x) \/ FinishBatch(x) \/ SaveBoard(x)
         \/ (\E c \in Cells : WriteCell(x, c) \/ WriteCellThrows(x, c))
         \/ BatchThrows(x) \/ BoardThrows(x) \/ CrashWorker(x)
  PROVE  Harvest'
<1> USE DEF HInv, Harvest
<1>1. UNCHANGED <<batchCells, provStatus, provResult, late>>
  BY DEF MarkBatch, FinishBatch, SaveBoard, WriteCell, WriteCellThrows, BatchThrows, BoardThrows,
         CrashWorker, provVars
<1>2. CASE MarkBatch(x)
  BY <1>1, <1>2 DEF MarkBatch, faultVars, EndedIsReported, HarvestIsReported, HarvestIsWhole, ReconciledIsReported,
                    ReconciledIsComplete, Reported, Decided, Yields, Failed,
                    Typed, SeenType, StoreType, RecType
<1>3. CASE FinishBatch(x)
  BY <1>1, <1>3 DEF FinishBatch, ItemsDone, faultVars, EndedIsReported, HarvestIsReported, HarvestIsWhole,
                    ReconciledIsReported, ReconciledIsComplete, Reported, Decided, Yields,
                    Typed, StoreType, RecType
<1>4. ASSUME NEW c \in Cells, WriteCell(x, c)
      PROVE  Harvest'
  <2>1. \A d \in Cells : /\ cell[d] # "none" => cell'[d] # "none"
                         /\ recItems[x][d] # "none" =>
                              cell'[d] # "none" \/ recItems'[x][d] # "none"
    BY <1>4 DEF WriteCell, Verdict, Typed, StoreType, RecType
  <2>2. \A y \in Passes : y # x => recItems'[y] = recItems[y]
    BY <1>4 DEF WriteCell, Typed, RecType
  <2> QED
    BY <1>1, <1>4, <2>1, <2>2 DEF WriteCell, faultVars, EndedIsReported, HarvestIsReported, HarvestIsWhole,
              ReconciledIsReported, ReconciledIsComplete, Reported, Decided, Yields
<1>5. ASSUME NEW c \in Cells, WriteCellThrows(x, c)
      PROVE  Harvest'
  <2>1. writeFaults' # 0
    BY <1>5 DEF WriteCellThrows, Typed, FaultType
  <2> QED
    BY <1>1, <1>5, <2>1 DEF WriteCellThrows, storeVars, EndedIsReported, HarvestIsReported, HarvestIsWhole,
              ReconciledIsReported, ReconciledIsComplete, Reported, Decided
<1>6. CASE SaveBoard(x) \/ BatchThrows(x) \/ BoardThrows(x) \/ CrashWorker(x)
  <2>1. UNCHANGED <<cell, doc, writeFaults>>
    BY <1>6 DEF SaveBoard, BatchThrows, BoardThrows, CrashWorker, Fault, storeVars, faultVars
  <2>2. \A y \in Passes : recPc'[y] \in {"results", "cells"} =>
          recPc[y] = recPc'[y] /\ recBatch'[y] = recBatch[y] /\ recItems'[y] = recItems[y]
    <3>1. CASE BatchThrows(x)
      BY <3>1 DEF BatchThrows, Typed, RecType
    <3>2. CASE SaveBoard(x) \/ BoardThrows(x)
      BY <3>2 DEF SaveBoard, BoardThrows, ResetPass, Typed, RecType
    <3>3. CASE CrashWorker(x)
      BY <3>3 DEF CrashWorker, Typed, RecType
    <3> QED
      BY <1>6, <3>1, <3>2, <3>3
  <2> QED
    BY <1>1, <2>1, <2>2 DEF EndedIsReported, HarvestIsReported, HarvestIsWhole, ReconciledIsReported,
                            ReconciledIsComplete, Reported, Decided, Yields
<1> QED
  BY <1>2, <1>3, <1>4, <1>5, <1>6

LEMMA NextHarvest ==
  ASSUME HInv, [Next]_vars
  PROVE  HInv'
<1>1. Typed'
  BY NextTyped DEF HInv
<1>2. CASE CrashApi
  BY <1>1, <1>2 DEF CrashApi, Fault, storeVars, provVars, recVars, HInv, Harvest, EndedIsReported, HarvestIsReported,
              HarvestIsWhole, ReconciledIsReported, ReconciledIsComplete, Reported, Decided, Yields
<1>3. ASSUME NEW r \in Runs,
             StartRun(r) \/ RunStep(r) \/ DropScorecard(r) \/ SaveThrows(r) \/ RunAborts(r)
      PROVE  Harvest'
  BY <1>3, RunHarvest
<1>4. ASSUME NEW b \in Batches,
             ProviderMoves(b)
      PROVE  Harvest'
  BY <1>4, ProviderHarvest
<1>5. ASSUME NEW x \in Passes,
             \/ StartPass(x) \/ PassStep(x) \/ BatchThrows(x) \/ BoardThrows(x) \/ CrashWorker(x)
             \/ \E c \in Cells : WriteCellThrows(x, c)
      PROVE  Harvest'
  BY <1>5, PassMovesHarvest, PassWritesHarvest DEF PassStep
<1>6. CASE UNCHANGED vars
  BY <1>1, <1>6 DEF vars, storeVars, provVars, recVars, faultVars, HInv, Harvest, EndedIsReported, HarvestIsReported,
              HarvestIsWhole, ReconciledIsReported, ReconciledIsComplete, Reported, Decided, Yields
<1> QED
  BY <1>1, <1>2, <1>3, <1>4, <1>5, <1>6 DEF Next, HInv

\* Every item a reconciled batch was answered with has its cell, unless it was answered
\* only after a pass had read it as failed: for any number of passes in any number of
\* processes, crashes, rejected calls and results that are written over others, since
\* createCell comes before updateBatch and both may be repeated (reconcileBatch).
THEOREM ReconciledBatchIsComplete == Spec => []ReconciledIsComplete
<1>1. Init => HInv
  BY InitTyped, InitHarvest DEF HInv
<1>2. Spec => []HInv
  BY <1>1, NextHarvest, PTL DEF Spec
<1> QED
  BY <1>2, PTL DEF HInv, Harvest

------------------------------------------------------------------------------
(* One worker process.                                                      *)

OneWorker == \A x, y \in Passes : WorkerOf[x] = WorkerOf[y]

------------------------------------------------------------------------------
(* The passes.                                                              *)

\* One pass runs at a time, and a batch it has listed or polled stays open.
PassAlone == \A x, y \in Passes : recPc[x] # "idle" /\ recPc[y] # "idle" => x = y
TodoIsOpen == \A x \in Passes : recPc[x] # "idle" => \A b \in recTodo[x] : doc[b] \in NonTerminal
PolledIsOpen ==
  \A x \in Passes : recPc[x] \in {"mark", "results", "cells"} =>
    /\ recBatch[x] \in Batches /\ recBatch[x] \notin recTodo[x]
    /\ doc[recBatch[x]] \in NonTerminal
\* What it reads of a batch belongs to a cell of it.
ResultsOfBatch == \A b \in Batches, c \in Cells : provResult[b][c] # "none" => c \in batchCells[b]
ItemsOfBatch ==
  \A x \in Passes : recPc[x] = "cells" =>
    \A c \in Cells : recItems[x][c] # "none" => c \in batchCells[recBatch[x]]
PassInv == PassAlone /\ TodoIsOpen /\ PolledIsOpen /\ ResultsOfBatch /\ ItemsOfBatch

\* Nothing is known of a batch that is not submitted.
Unsubmitted == \A b \in Batches : provStatus[b] = "none" => doc[b] = "none" /\ batchCells[b] = {}

LEMMA RunKeepsPasses ==
  ASSUME Typed, PassInv, Unsubmitted, NEW r \in Runs,
         StartRun(r) \/ RunStep(r) \/ DropScorecard(r) \/ SaveThrows(r) \/ RunAborts(r)
  PROVE  PassInv'
<1>1. UNCHANGED <<provResult, recPc, recTodo, recBatch, recItems>>
  BY DEF StartRun, RunStep, ReadQueued, ReadExisting, DayRead, SkipDay, DropScorecard, SubmitBatch,
         SaveBatch, SaveThrows, RunAborts, storeVars, provVars, recVars
<1>2. \A b \in Batches : doc'[b] = doc[b] \/ doc'[b] = "submitted"
  BY DEF StartRun, RunStep, ReadQueued, ReadExisting, DayRead, SkipDay, DropScorecard, SubmitBatch,
         SaveBatch, SaveThrows, RunAborts, storeVars, Typed, StoreType
<1>3. \A b \in Batches : batchCells[b] \subseteq batchCells'[b]
  BY DEF StartRun, RunStep, ReadQueued, ReadExisting, DayRead, SkipDay, DropScorecard, SubmitBatch,
         SaveBatch, SaveThrows, RunAborts, provVars, Typed, ProvType, Unsubmitted
<1>4. \A x \in Passes : recTodo[x] \subseteq Batches
  BY DEF Typed, RecType
<1> QED
  BY <1>1, <1>2, <1>3, <1>4 DEF PassInv, PassAlone, TodoIsOpen, PolledIsOpen, ResultsOfBatch,
                                ItemsOfBatch, NonTerminal

LEMMA ProviderKeepsPasses ==
  ASSUME Typed, PassInv, NEW b \in Batches,
         ProviderMoves(b)
  PROVE  PassInv'
<1>1. UNCHANGED <<doc, batchCells, recPc, recTodo, recBatch, recItems>>
  BY DEF ProviderMoves, ProviderEnds, ProviderFails, ProviderReneges,
         ProviderRecovers, ProviderReplaces, ProviderForgets, storeVars, recVars
<1>2. ResultsOfBatch'
  BY <1>1 DEF ProviderMoves, ProviderEnds, ProviderFails, ProviderReneges,
         ProviderRecovers, ProviderReplaces, ProviderForgets, PassInv,
              ResultsOfBatch, Typed, ProvType
<1> QED
  BY <1>1, <1>2 DEF PassInv, PassAlone, TodoIsOpen, PolledIsOpen, ItemsOfBatch

LEMMA PassMovesKeepPasses ==
  ASSUME OneWorker, Typed, PassInv, NEW x \in Passes,
         StartPass(x) \/ (\E b \in Batches : PollBatch(x, b)) \/ ReadResults(x)
         \/ EndLoop(x) \/ ReadCells(x)
  PROVE  PassInv'
<1> USE DEF PassInv
<1>1. UNCHANGED <<doc, batchCells, provStatus, provResult>>
  BY DEF StartPass, PollBatch, ReadResults, EndLoop, ReadCells, storeVars, provVars
<1>2. ResultsOfBatch'
  BY <1>1 DEF ResultsOfBatch
<1>3. CASE StartPass(x)
  <2>1. \A y \in Passes : recPc[y] = "idle"
    BY <1>3 DEF StartPass, NotRunning, OneWorker
  <2> QED
    BY <1>1, <1>2, <1>3, <2>1 DEF StartPass, PassAlone, TodoIsOpen, PolledIsOpen, ItemsOfBatch,
                                  Typed, RecType
<1>4. ASSUME NEW b \in Batches, PollBatch(x, b)
      PROVE  PassInv'
  BY <1>1, <1>2, <1>4 DEF PollBatch, NextStep, PassAlone, TodoIsOpen, PolledIsOpen, ItemsOfBatch,
                          Typed, RecType
<1>5. CASE ReadResults(x)
  <2>1. \A c \in Cells : recItems'[x][c] # "none" => c \in batchCells[recBatch[x]]
    BY <1>5 DEF ReadResults, Kept, ResultTypes, ResultsOfBatch, PolledIsOpen, Typed, RecType
  <2>2. ItemsOfBatch'
    BY <1>1, <1>5, <2>1 DEF ReadResults, ItemsOfBatch, Typed, RecType
  <2> QED
    BY <1>1, <1>2, <1>5, <2>2 DEF ReadResults, PassAlone, TodoIsOpen, PolledIsOpen, Typed, RecType
<1>6. CASE EndLoop(x) \/ ReadCells(x)
  <2>1. UNCHANGED <<recTodo, recItems>> /\ recPc[x] \in {"loop", "board"}
    BY <1>6 DEF EndLoop, ResetPass, ReadCells
  <2>2. \A y \in Passes : y # x => recPc'[y] = recPc[y] /\ recBatch'[y] = recBatch[y]
    BY <1>6 DEF EndLoop, ResetPass, ReadCells, Typed, RecType
  <2>3. recPc'[x] \in {"idle", "board", "saveBoard"}
    BY <1>6 DEF EndLoop, ResetPass, ReadCells, Typed, RecType
  <2> QED
    BY <1>1, <1>2, <2>1, <2>2, <2>3 DEF PassAlone, TodoIsOpen, PolledIsOpen, ItemsOfBatch
<1> QED
  BY <1>3, <1>4, <1>5, <1>6

LEMMA PassWritesKeepPasses ==
  ASSUME Typed, PassInv, NEW x \in Passes,
         MarkBatch(x) \/ FinishBatch(x) \/ SaveBoard(x)
         \/ (\E c \in Cells : WriteCell(x, c) \/ WriteCellThrows(x, c))
         \/ BatchThrows(x) \/ BoardThrows(x) \/ CrashWorker(x)
  PROVE  PassInv'
<1> USE DEF PassInv
<1>1. UNCHANGED <<batchCells, provStatus, provResult>>
  BY DEF MarkBatch, FinishBatch, SaveBoard, WriteCell, WriteCellThrows, BatchThrows, BoardThrows,
         CrashWorker, provVars
<1>2. ResultsOfBatch'
  BY <1>1 DEF ResultsOfBatch
<1>3. CASE MarkBatch(x) \/ FinishBatch(x)
  <2>1. \A y \in Passes : recPc'[y] # "idle" => y = x
    BY <1>3 DEF MarkBatch, FinishBatch, ItemsDone, PassAlone, Typed, RecType
  <2>2. recPc'[x] = "loop" /\ recTodo' = recTodo
    BY <1>3 DEF MarkBatch, FinishBatch, Typed, RecType
  <2>3. \A b \in recTodo[x] : doc'[b] = doc[b]
    BY <1>3 DEF MarkBatch, FinishBatch, ItemsDone, PolledIsOpen, Typed, RecType, StoreType
  <2>4. recPc[x] # "idle"
    BY <1>3 DEF MarkBatch, FinishBatch, ItemsDone
  <2> QED
    BY <1>2, <2>1, <2>2, <2>3, <2>4 DEF PassAlone, TodoIsOpen, PolledIsOpen, ItemsOfBatch
<1>4. CASE \E c \in Cells : WriteCell(x, c) \/ WriteCellThrows(x, c)
  <2>1. UNCHANGED <<doc, recPc, recTodo, recBatch>>
    BY <1>4 DEF WriteCell, WriteCellThrows, storeVars
  <2>2. \A y \in Passes, c \in Cells : recItems'[y][c] # "none" => recItems[y][c] # "none"
    <3>1. PICK c \in Cells : recItems' = [recItems EXCEPT ![x][c] = "none"]
      BY <1>4 DEF WriteCell, WriteCellThrows
    <3> QED
      BY <3>1 DEF Typed, RecType
  <2> QED
    BY <1>1, <1>2, <2>1, <2>2 DEF PassAlone, TodoIsOpen, PolledIsOpen, ItemsOfBatch
<1>5. CASE SaveBoard(x) \/ BatchThrows(x) \/ BoardThrows(x) \/ CrashWorker(x)
  <2>1. UNCHANGED doc
    BY <1>5 DEF SaveBoard, BatchThrows, BoardThrows, CrashWorker, storeVars
  <2>2. \A y \in Passes : recPc'[y] # "idle" =>
          /\ recPc[y] # "idle" /\ recTodo'[y] \subseteq recTodo[y]
          /\ recPc'[y] \in {"mark", "results", "cells"} =>
               recPc'[y] = recPc[y] /\ recBatch'[y] = recBatch[y] /\ recItems'[y] = recItems[y]
    <3>1. CASE SaveBoard(x) \/ BoardThrows(x)
      BY <3>1 DEF SaveBoard, BoardThrows, ResetPass, Typed, RecType
    <3>2. CASE BatchThrows(x)
      BY <3>2 DEF BatchThrows, ItemsDone, Typed, RecType
    <3>3. CASE CrashWorker(x)
      BY <3>3 DEF CrashWorker, Typed, RecType
    <3> QED
      BY <1>5, <3>1, <3>2, <3>3
  <2> QED
    BY <1>1, <1>2, <2>1, <2>2 DEF PassAlone, TodoIsOpen, PolledIsOpen, ItemsOfBatch
<1> QED
  BY <1>3, <1>4, <1>5

------------------------------------------------------------------------------
(* The runs.                                                                *)

CellDay(c) == DayOf[SeriesOf[c]]

\* A batch that is to be saved has no document yet, and holds cells of its day.
SaveIsFirst ==
  \A r \in Runs : runPc[r] = "save" =>
    /\ runBatch[r] \in Batches /\ provStatus[runBatch[r]] # "none" /\ doc[runBatch[r]] = "none"
    /\ \A c \in batchCells[runBatch[r]] : CellDay(c) = runDay[r]
\* Whoever is past the start holds the lock.
LockInv == \A r \in Runs : runPc[r] # "idle" => holder = r
\* A run gathers cells of its day only.
DayInv ==
  \A r \in Runs :
    /\ runPc[r] \in {"idle", "queued"} => runDay[r] = 1 /\ runMissing[r] = {}
    /\ \A s \in runUnread[r] : DayOf[s] = runDay[r]
    /\ \A c \in runMissing[r] : CellDay(c) = runDay[r]
\* What is in flight was so when the run began, or the run submitted it for a day before.
QueuedInv ==
  \A r \in Runs : runPc[r] \in {"existing", "prepare", "save"} =>
    \A c \in InFlight : c \in runQueued[r] \/ CellDay(c) < runDay[r]
MissingInv ==
  \A r \in Runs : runPc[r] \in {"existing", "prepare"} =>
    \A c \in runMissing[r] : c \notin Persisted /\ c \notin InFlight
RunInv == Unsubmitted /\ SaveIsFirst /\ LockInv /\ DayInv /\ QueuedInv /\ MissingInv

\* A run at work is the only one.
LEMMA OthersIdle ==
  ASSUME LockInv, NEW r \in Runs, runPc[r] # "idle"
  PROVE  \A q \in Runs : q # r => runPc[q] = "idle"
BY DEF LockInv

\* A run that does not move leaves the other's invariants to depend on the store alone.
LEMMA NextDayEffect ==
  ASSUME Typed, NEW r \in Runs, NextDay(r)
  PROVE  /\ \A q \in Runs : q # r =>
              /\ runPc'[q] = runPc[q] /\ runDay'[q] = runDay[q] /\ runQueued'[q] = runQueued[q]
              /\ runUnread'[q] = runUnread[q] /\ runMissing'[q] = runMissing[q]
         /\ runMissing'[r] = {} /\ \A s \in runUnread'[r] : DayOf[s] = runDay'[r]
         /\ \/ runPc'[r] = "idle" /\ runDay'[r] = 1
            \/ /\ runPc'[r] = "existing" /\ runDay'[r] = runDay[r] + 1
               /\ holder' = holder /\ runQueued'[r] = runQueued[r]
<1>1. \A day : \A s \in Asked(r, day) : DayOf[s] = day
  BY DEF Asked
<1>2. CASE runDay[r] = LastDay
  BY <1>2 DEF NextDay, EndRun, Typed, RunType
<1>3. CASE runDay[r] # LastDay
  BY <1>1, <1>3 DEF NextDay, Typed, RunType
<1> QED
  BY <1>2, <1>3

\* On to the next day: what was in flight, with what the run has just saved for the
\* day behind it.
LEMMA NextDayKeeps ==
  ASSUME Typed, RunInv, NEW r \in Runs, runPc[r] \in {"existing", "prepare", "save"}, NextDay(r),
         UNCHANGED <<cell, batchCells, provStatus>>,
         \A b \in Batches : \/ doc'[b] = doc[b]
                            \/ runPc[r] = "save" /\ b = runBatch[r] /\ doc'[b] = "submitted"
  PROVE  RunInv'
<1> USE DEF RunInv
<1>1. \A q \in Runs : q # r => runPc[q] = "idle"
  BY OthersIdle
<1>2. \A q \in Runs : q # r => runPc'[q] = "idle"
  BY <1>1, NextDayEffect
<1>3. \A c \in InFlight' : c \in InFlight \/ CellDay(c) = runDay[r]
  BY DEF InFlight, SaveIsFirst
<1>4. runDay[r] \in Nat
  BY DEF Typed, RunType
<1>5. \A c \in Cells : CellDay(c) \in Nat
  BY DEF CellDay
<1>6. InFlight' \subseteq Cells
  BY DEF InFlight, Typed, ProvType
<1>7. Unsubmitted'
  BY DEF Unsubmitted, SaveIsFirst
<1>8. SaveIsFirst' /\ LockInv'
  BY <1>2, NextDayEffect DEF SaveIsFirst, LockInv
<1>9. DayInv'
  BY <1>1, <1>2, NextDayEffect DEF DayInv
<1>10. QueuedInv'
  BY <1>2, <1>3, <1>4, <1>5, <1>6, NextDayEffect DEF QueuedInv
<1>11. MissingInv'
  BY <1>2, NextDayEffect DEF MissingInv
<1> QED
  BY <1>7, <1>8, <1>9, <1>10, <1>11

LEMMA RunKeepsRuns ==
  ASSUME Typed, RunInv, NEW r \in Runs,
         StartRun(r) \/ RunStep(r) \/ DropScorecard(r) \/ SaveThrows(r) \/ RunAborts(r)
  PROVE  RunInv'
<1> USE DEF RunInv
<1>1. CASE StartRun(r)
  <2>1. UNCHANGED <<cell, doc, batchCells, provStatus, runDay, runQueued, runUnread, runMissing, runBatch>>
    BY <1>1 DEF StartRun, storeVars, provVars
  <2>2. \A q \in Runs : runPc[q] = "idle"
    BY <1>1 DEF StartRun, LockFree, LockInv
  <2>3. \A q \in Runs : runPc'[q] = IF q = r THEN "queued" ELSE "idle"
    BY <1>1, <2>2 DEF StartRun, Typed, RunType
  <2>4. holder' = r
    BY <1>1 DEF StartRun
  <2> QED
    BY <2>1, <2>2, <2>3, <2>4 DEF Unsubmitted, SaveIsFirst, LockInv, DayInv, QueuedInv, MissingInv
<1>2. CASE ReadQueued(r)
  <2>1. UNCHANGED <<cell, doc, batchCells, provStatus, holder, runDay, runMissing, runBatch>>
    BY <1>2 DEF ReadQueued, storeVars, provVars
  <2>2. \A q \in Runs : q # r => runPc[q] = "idle"
    BY <1>2, OthersIdle DEF ReadQueued
  <2>3. \A q \in Runs : runPc'[q] = IF q = r THEN "existing" ELSE "idle"
    BY <1>2, <2>2 DEF ReadQueued, Typed, RunType
  <2>4. runQueued'[r] = InFlight /\ runUnread'[r] = Asked(r, 1) /\ runPc[r] = "queued"
    BY <1>2 DEF ReadQueued, Typed, RunType
  <2>5. \A q \in Runs : q # r => runUnread'[q] = runUnread[q]
    BY <1>2 DEF ReadQueued, Typed, RunType
  <2>6. InFlight' = InFlight
    BY <2>1 DEF InFlight
  <2>7. DayInv'
    BY <2>1, <2>2, <2>3, <2>4, <2>5 DEF DayInv, Asked
  <2> QED
    BY <2>1, <2>2, <2>3, <2>4, <2>6, <2>7 DEF Unsubmitted, SaveIsFirst, LockInv, QueuedInv, MissingInv, DayInv
<1>3. ASSUME NEW s \in Series, ReadExisting(r, s)
      PROVE  RunInv'
  <2>1. UNCHANGED <<cell, doc, batchCells, provStatus, holder, runPc, runDay, runQueued, runBatch>>
    BY <1>3 DEF ReadExisting, storeVars, provVars
  <2>2. runPc[r] = "existing" /\ DayOf[s] = runDay[r]
    BY <1>3 DEF ReadExisting, DayInv
  <2>3. \A q \in Runs : runUnread'[q] \subseteq runUnread[q]
    BY <1>3 DEF ReadExisting, Typed, RunType
  <2>4. \A q \in Runs : q # r => runMissing'[q] = runMissing[q]
    BY <1>3 DEF ReadExisting, Typed, RunType
  <2>5. runMissing'[r] = runMissing[r] \cup MissingOf(r, s)
    BY <1>3 DEF ReadExisting, Typed, RunType
  <2>6. \A c \in MissingOf(r, s) : CellDay(c) = runDay[r] /\ c \notin Persisted /\ c \notin InFlight
    <3>1. runDay[r] \in Nat
      BY DEF Typed, RunType
    <3>2. \A c \in MissingOf(r, s) : CellDay(c) = runDay[r] /\ c \notin Persisted /\ c \notin runQueued[r]
      BY <2>2 DEF MissingOf, CellDay
    <3> QED
      BY <2>2, <3>1, <3>2 DEF QueuedInv
  <2>7. InFlight' = InFlight /\ Persisted' = Persisted
    BY <2>1 DEF InFlight, Persisted
  <2>8. DayInv' /\ MissingInv'
    BY <2>1, <2>2, <2>3, <2>4, <2>5, <2>6, <2>7 DEF DayInv, MissingInv
  <2> QED
    BY <2>1, <2>7, <2>8 DEF Unsubmitted, SaveIsFirst, LockInv, QueuedInv
<1>4. CASE DayRead(r) \/ SkipDay(r) \/ DropScorecard(r)
  <2>1. UNCHANGED <<cell, doc, batchCells, provStatus>> /\ runPc[r] \in {"existing", "prepare"}
    BY <1>4 DEF DayRead, SkipDay, DropScorecard, storeVars, provVars
  <2>2. CASE NextDay(r)
    BY <2>1, <2>2, NextDayKeeps
  <2>3. CASE ~NextDay(r)
    <3>1. UNCHANGED <<holder, runDay, runQueued, runUnread, runBatch>>
      BY <1>4, <2>3 DEF DayRead, SkipDay, DropScorecard
    <3>2. \A q \in Runs : /\ q # r => runPc'[q] = runPc[q]
                          /\ runMissing'[q] \subseteq runMissing[q]
      BY <1>4, <2>3 DEF DayRead, SkipDay, DropScorecard, Typed, RunType
    <3>3. runPc'[r] = "prepare"
      BY <1>4, <2>3 DEF DayRead, SkipDay, DropScorecard, Typed, RunType
    <3>4. InFlight' = InFlight /\ Persisted' = Persisted
      BY <2>1 DEF InFlight, Persisted
    <3> QED
      BY <2>1, <3>1, <3>2, <3>3, <3>4
        DEF Unsubmitted, SaveIsFirst, LockInv, DayInv, QueuedInv, MissingInv
  <2> QED
    BY <2>2, <2>3
<1>5. CASE SubmitBatch(r)
  <2>1. PICK b \in Batches : /\ provStatus[b] = "none"
                             /\ provStatus' = [provStatus EXCEPT ![b] = "in_progress"]
                             /\ batchCells' = [batchCells EXCEPT ![b] = runMissing[r]]
                             /\ runBatch' = [runBatch EXCEPT ![r] = b]
    BY <1>5 DEF SubmitBatch
  <2>2. UNCHANGED <<cell, doc, holder, runDay, runQueued, runUnread, runMissing>> /\ runPc[r] = "prepare"
    BY <1>5 DEF SubmitBatch, storeVars
  <2>3. \A q \in Runs : q # r => runPc[q] = "idle"
    BY <2>2, OthersIdle
  <2>4. \A q \in Runs : runPc'[q] = IF q = r THEN "save" ELSE "idle"
    BY <1>5, <2>3 DEF SubmitBatch, Typed, RunType
  <2>5. doc[b] = "none"
    BY <2>1 DEF Unsubmitted
  <2>6. \A a \in Batches : a # b => batchCells'[a] = batchCells[a] /\ provStatus'[a] = provStatus[a]
    BY <2>1 DEF Typed, ProvType
  <2>7. /\ batchCells'[b] = runMissing[r] /\ provStatus'[b] = "in_progress" /\ runBatch'[r] = b
    BY <2>1 DEF Typed, ProvType, RunType
  <2>8. InFlight' = InFlight
    <3>1. \A a \in Batches : doc[a] \in NonTerminal => a # b
      BY <2>5 DEF NonTerminal
    <3> QED
      BY <2>2, <2>6, <3>1 DEF InFlight
  <2>9. Unsubmitted'
    BY <2>2, <2>6, <2>7 DEF Unsubmitted
  <2>10. SaveIsFirst'
    BY <2>2, <2>4, <2>5, <2>7 DEF SaveIsFirst, DayInv, CellDay
  <2>11. LockInv' /\ DayInv' /\ QueuedInv' /\ MissingInv'
    BY <2>2, <2>3, <2>4, <2>8 DEF LockInv, DayInv, QueuedInv, MissingInv, CellDay
  <2> QED
    BY <2>9, <2>10, <2>11
<1>6. CASE SaveBatch(r)
  <2>1. UNCHANGED <<cell, batchCells, provStatus>> /\ runPc[r] = "save" /\ NextDay(r)
    BY <1>6 DEF SaveBatch, provVars
  <2>2. \A b \in Batches : doc'[b] = doc[b] \/ (b = runBatch[r] /\ doc'[b] = "submitted")
    BY <1>6 DEF SaveBatch, Typed, StoreType
  <2> QED
    BY <2>1, <2>2, NextDayKeeps
<1>7. CASE SaveThrows(r)
  <2>1. UNCHANGED <<cell, doc, batchCells, provStatus>> /\ runPc[r] = "save" /\ NextDay(r)
    BY <1>7 DEF SaveThrows, storeVars, provVars
  <2> QED
    BY <2>1, NextDayKeeps
<1>8. CASE RunAborts(r)
  <2>1. UNCHANGED <<cell, doc, batchCells, provStatus>> /\ EndRun(r) /\ runPc[r] # "idle"
    BY <1>8 DEF RunAborts, storeVars, provVars
  <2>2. \A q \in Runs : q # r => runPc[q] = "idle"
    BY <2>1, OthersIdle
  <2>3. \A q \in Runs : runPc'[q] = "idle"
    BY <2>1, <2>2 DEF EndRun, Typed, RunType
  <2>4. \A q \in Runs : q # r => /\ runDay'[q] = runDay[q] /\ runUnread'[q] = runUnread[q]
                                 /\ runMissing'[q] = runMissing[q]
    BY <2>1 DEF EndRun, Typed, RunType
  <2>5. runDay'[r] = 1 /\ runUnread'[r] = {} /\ runMissing'[r] = {}
    BY <2>1 DEF EndRun, Typed, RunType
  <2>6. DayInv'
    BY <2>2, <2>3, <2>4, <2>5 DEF DayInv
  <2> QED
    BY <2>1, <2>3, <2>6 DEF Unsubmitted, SaveIsFirst, LockInv, QueuedInv, MissingInv
<1> QED
  BY <1>1, <1>2, <1>3, <1>4, <1>5, <1>6, <1>7, <1>8 DEF RunStep

\* Everybody else closes documents that were open, and persists what was in flight.
LEMMA StoreKeepsRuns ==
  ASSUME RunInv,
         UNCHANGED <<batchCells, holder, runPc, runDay, runQueued, runUnread, runMissing, runBatch>>,
         \A b \in Batches : (provStatus'[b] = "none" <=> provStatus[b] = "none"),
         \A b \in Batches : doc'[b] = doc[b] \/ doc[b] \in NonTerminal,
         \A c \in Cells : cell'[c] = cell[c] \/ c \in InFlight
  PROVE  RunInv'
<1> USE DEF RunInv
<1>1. \A b \in Batches : doc[b] = "none" => doc'[b] = "none"
  BY DEF NonTerminal
<1>2. InFlight' \subseteq InFlight
  BY DEF InFlight
<1>3. Persisted' \subseteq Persisted \cup InFlight
  BY DEF Persisted
<1>4. Unsubmitted' /\ SaveIsFirst' /\ LockInv' /\ DayInv'
  BY <1>1 DEF Unsubmitted, SaveIsFirst, LockInv, DayInv
<1>5. QueuedInv' /\ MissingInv'
  BY <1>2, <1>3 DEF QueuedInv, MissingInv
<1> QED
  BY <1>4, <1>5

LEMMA ProviderKeepsRuns ==
  ASSUME Typed, RunInv, NEW b \in Batches,
         ProviderMoves(b)
  PROVE  RunInv'
<1>1. UNCHANGED <<cell, doc, batchCells, holder, runPc, runDay, runQueued, runUnread, runMissing, runBatch>>
  BY DEF ProviderMoves, ProviderEnds, ProviderFails, ProviderReneges,
         ProviderRecovers, ProviderReplaces, ProviderForgets, storeVars, runVars
<1>2. \A a \in Batches : (provStatus'[a] = "none" <=> provStatus[a] = "none")
  BY DEF ProviderMoves, ProviderEnds, ProviderFails, ProviderReneges,
         ProviderRecovers, ProviderReplaces, ProviderForgets, Failed, Typed, ProvType
<1> QED
  BY <1>1, <1>2, StoreKeepsRuns

LEMMA PassKeepsRuns ==
  ASSUME Typed, PassInv, RunInv, NEW x \in Passes,
         \/ StartPass(x) \/ PassStep(x) \/ BatchThrows(x) \/ BoardThrows(x) \/ CrashWorker(x)
         \/ \E c \in Cells : WriteCellThrows(x, c)
  PROVE  RunInv'
<1>1. UNCHANGED <<batchCells, provStatus, holder, runPc, runDay, runQueued, runUnread, runMissing, runBatch>>
  BY DEF StartPass, PassStep, PollBatch, MarkBatch, ReadResults, WriteCell, FinishBatch, EndLoop,
         ReadCells, SaveBoard, BatchThrows, BoardThrows, CrashWorker, WriteCellThrows, provVars, runVars
<1>2. \A b \in Batches : doc'[b] = doc[b] \/ doc[b] \in NonTerminal
  <2>1. CASE MarkBatch(x) \/ FinishBatch(x)
    BY <2>1 DEF MarkBatch, FinishBatch, ItemsDone, PassInv, PolledIsOpen, Typed, StoreType
  <2>2. CASE ~(MarkBatch(x) \/ FinishBatch(x))
    BY <2>2 DEF StartPass, PassStep, PollBatch, ReadResults, WriteCell, EndLoop, ReadCells, SaveBoard,
                BatchThrows, BoardThrows, CrashWorker, WriteCellThrows, storeVars
  <2> QED
    BY <2>1, <2>2
<1>3. \A c \in Cells : cell'[c] = cell[c] \/ c \in InFlight
  <2>1. ASSUME NEW c \in Cells, WriteCell(x, c)
        PROVE  \A d \in Cells : cell'[d] = cell[d] \/ d \in InFlight
    <3>1. c \in batchCells[recBatch[x]] /\ recBatch[x] \in Batches /\ doc[recBatch[x]] \in NonTerminal
      BY <2>1 DEF WriteCell, PassInv, ItemsOfBatch, PolledIsOpen
    <3>2. c \in InFlight
      BY <3>1 DEF InFlight
    <3> QED
      BY <2>1, <3>2 DEF WriteCell, Typed, StoreType
  <2>2. CASE ~\E c \in Cells : WriteCell(x, c)
    BY <2>2 DEF StartPass, PassStep, PollBatch, MarkBatch, ReadResults, FinishBatch, EndLoop, ReadCells,
                SaveBoard, BatchThrows, BoardThrows, CrashWorker, WriteCellThrows, storeVars
  <2> QED
    BY <2>1, <2>2
<1> QED
  BY <1>1, <1>2, <1>3, StoreKeepsRuns

LEMMA CrashKeepsRuns ==
  ASSUME Typed, RunInv, CrashApi
  PROVE  RunInv'
BY DEF CrashApi, storeVars, provVars, RunInv, Unsubmitted, SaveIsFirst, LockInv, DayInv, QueuedInv,
       MissingInv

------------------------------------------------------------------------------
(* The scoreboard.                                                          *)

\* A pass that has written no cell since it last had the scoreboard regenerated.
Quiet(x) == recPc[x] = "idle" \/ (recPc[x] \in {"loop", "mark", "results"} /\ ~recDirty[x])

\* While nothing was rejected, the scoreboard is current unless a pass has to do with
\* it, and so is the one that a pass is about to save.
BoardInv ==
  faults = 0 =>
    /\ (\A x \in Passes : Quiet(x)) => scoreboard = Persisted
    /\ \A x \in Passes : recPc[x] = "saveBoard" => recBoard[x] = Persisted

LEMMA BoardKept ==
  ASSUME BoardInv, UNCHANGED <<cell, scoreboard>>, faults' = 0 => faults = 0,
         \A x \in Passes : Quiet(x)' => Quiet(x),
         \A x \in Passes : recPc'[x] = "saveBoard" =>
           recBoard'[x] = Persisted \/ (recPc[x] = "saveBoard" /\ recBoard'[x] = recBoard[x])
  PROVE  BoardInv'
<1>1. Persisted' = Persisted
  BY DEF Persisted
<1> QED
  BY <1>1 DEF BoardInv

LEMMA RunsKeepBoard ==
  ASSUME Typed, BoardInv,
         \/ CrashApi
         \/ \E r \in Runs :
              StartRun(r) \/ RunStep(r) \/ DropScorecard(r) \/ SaveThrows(r) \/ RunAborts(r)
         \/ \E b \in Batches :
              ProviderMoves(b)
  PROVE  BoardInv'
<1>1. UNCHANGED <<cell, scoreboard, recPc, recDirty, recBoard>>
  BY DEF CrashApi, StartRun, RunStep, ReadQueued, ReadExisting, DayRead, SkipDay, DropScorecard,
         SubmitBatch, SaveBatch, SaveThrows, RunAborts, ProviderMoves, ProviderEnds, ProviderFails, ProviderReneges,
         ProviderRecovers, ProviderReplaces, ProviderForgets, storeVars, recVars
<1>2. faults' = faults \/ faults' = faults + 1
  BY DEF CrashApi, StartRun, RunStep, ReadQueued, ReadExisting, DayRead, SkipDay, DropScorecard,
         SubmitBatch, SaveBatch, SaveThrows, RunAborts, ProviderMoves, ProviderEnds, ProviderFails, ProviderReneges,
         ProviderRecovers, ProviderReplaces, ProviderForgets, Fault, faultVars
<1>3. faults' = 0 => faults = 0
  BY <1>2 DEF Typed, FaultType
<1> QED
  BY <1>1, <1>3, BoardKept DEF Quiet

LEMMA PassesKeepBoard ==
  ASSUME Typed, PassInv, BoardInv, NEW x \in Passes,
         \/ StartPass(x) \/ PassStep(x) \/ BatchThrows(x) \/ BoardThrows(x) \/ CrashWorker(x)
         \/ \E c \in Cells : WriteCellThrows(x, c)
  PROVE  BoardInv'
<1>1. CASE BatchThrows(x) \/ BoardThrows(x) \/ CrashWorker(x)
  <2>1. faults' # 0
    <3>1. faults' = faults + 1
      BY <1>1 DEF BatchThrows, BoardThrows, CrashWorker, Fault
    <3> QED
      BY <3>1 DEF Typed, FaultType
  <2> QED
    BY <2>1 DEF BoardInv
<1>2. CASE \/ StartPass(x) \/ MarkBatch(x) \/ ReadResults(x) \/ FinishBatch(x) \/ EndLoop(x) \/ ReadCells(x)
           \/ (\E b \in Batches : PollBatch(x, b)) \/ (\E c \in Cells : WriteCellThrows(x, c))
  <2>1. UNCHANGED <<cell, scoreboard, faults>>
    BY <1>2 DEF StartPass, MarkBatch, ReadResults, FinishBatch, EndLoop, ReadCells, PollBatch,
                WriteCellThrows, storeVars, faultVars
  <2>2. \A y \in Passes : y # x =>
          recPc'[y] = recPc[y] /\ recDirty'[y] = recDirty[y] /\ recBoard'[y] = recBoard[y]
    BY <1>2 DEF StartPass, MarkBatch, ReadResults, FinishBatch, EndLoop, ResetPass, ReadCells, PollBatch,
                WriteCellThrows, Typed, RecType
  <2>3. /\ Quiet(x)' => Quiet(x)
        /\ recPc'[x] = "saveBoard" => recBoard'[x] = Persisted
    <3>1. CASE StartPass(x) \/ MarkBatch(x) \/ ReadResults(x) \/ FinishBatch(x)
      BY <3>1 DEF StartPass, MarkBatch, ReadResults, FinishBatch, Quiet, Typed, RecType
    <3>2. CASE EndLoop(x) \/ ReadCells(x)
      BY <3>2 DEF EndLoop, BoardDue, ResetPass, ReadCells, Quiet, Typed, RecType
    <3>3. CASE \E b \in Batches : PollBatch(x, b)
      BY <3>3 DEF PollBatch, NextStep, Quiet, Typed, RecType
    <3>4. CASE \E c \in Cells : WriteCellThrows(x, c)
      BY <3>4 DEF WriteCellThrows, Quiet, Typed, RecType
    <3> QED
      BY <1>2, <3>1, <3>2, <3>3, <3>4
  <2> QED
    BY <2>1, <2>2, <2>3, BoardKept DEF Quiet
<1>3. ASSUME NEW c \in Cells, WriteCell(x, c)
      PROVE  BoardInv'
  <2>1. recPc[x] = "cells" /\ recPc' = recPc
    BY <1>3 DEF WriteCell
  <2>2. ~Quiet(x)' /\ \A y \in Passes : recPc'[y] # "saveBoard"
    BY <2>1 DEF Quiet, PassInv, PassAlone
  <2> QED
    BY <2>2 DEF BoardInv
<1>4. CASE SaveBoard(x)
  <2>1. recPc[x] = "saveBoard" /\ scoreboard' = recBoard[x] /\ UNCHANGED <<cell, faults>>
    BY <1>4 DEF SaveBoard, faultVars
  <2>2. \A y \in Passes : recPc'[y] # "saveBoard"
    BY <1>4, <2>1 DEF SaveBoard, ResetPass, PassInv, PassAlone, Typed, RecType
  <2>3. Persisted' = Persisted
    BY <2>1 DEF Persisted
  <2> QED
    BY <2>1, <2>2, <2>3 DEF BoardInv
<1> QED
  BY <1>1, <1>2, <1>3, <1>4 DEF PassStep

------------------------------------------------------------------------------
(* The theorems.                                                            *)

MissInv == Typed /\ PassInv /\ RunInv /\ BoardInv

LEMMA InitMissInv == Init => MissInv
<1> SUFFICES ASSUME Init PROVE PassInv /\ RunInv /\ BoardInv
  BY InitTyped DEF MissInv
<1>1. PassInv
  BY DEF Init, PassInv, PassAlone, TodoIsOpen, PolledIsOpen, ResultsOfBatch, ItemsOfBatch
<1>2. RunInv
  BY DEF Init, RunInv, Unsubmitted, SaveIsFirst, LockInv, DayInv, QueuedInv, MissingInv
<1>3. BoardInv
  BY DEF Init, BoardInv, Persisted
<1> QED
  BY <1>1, <1>2, <1>3

LEMMA NextMissInv ==
  ASSUME OneWorker, MissInv, [Next]_vars
  PROVE  MissInv'
<1> USE DEF MissInv
<1>1. Typed'
  BY NextTyped
<1>2. CASE CrashApi
  <2>1. PassInv'
    BY <1>2 DEF CrashApi, storeVars, provVars, recVars, PassInv, PassAlone, TodoIsOpen, PolledIsOpen,
                ResultsOfBatch, ItemsOfBatch
  <2> QED
    BY <1>1, <1>2, <2>1, CrashKeepsRuns, RunsKeepBoard
<1>3. ASSUME NEW r \in Runs,
             StartRun(r) \/ RunStep(r) \/ DropScorecard(r) \/ SaveThrows(r) \/ RunAborts(r)
      PROVE  MissInv'
  <2>1. PassInv' /\ RunInv'
    BY <1>3, RunKeepsPasses, RunKeepsRuns DEF RunInv
  <2> QED
    BY <1>1, <1>3, <2>1, RunsKeepBoard
<1>4. ASSUME NEW b \in Batches,
             ProviderMoves(b)
      PROVE  MissInv'
  <2>1. PassInv' /\ RunInv'
    BY <1>4, ProviderKeepsPasses, ProviderKeepsRuns
  <2> QED
    BY <1>1, <1>4, <2>1, RunsKeepBoard
<1>5. ASSUME NEW x \in Passes,
             \/ StartPass(x) \/ PassStep(x) \/ BatchThrows(x) \/ BoardThrows(x) \/ CrashWorker(x)
             \/ \E c \in Cells : WriteCellThrows(x, c)
      PROVE  MissInv'
  <2>1. PassInv'
    BY <1>5, PassMovesKeepPasses, PassWritesKeepPasses DEF PassStep
  <2> QED
    BY <1>1, <1>5, <2>1, PassKeepsRuns, PassesKeepBoard
<1>6. CASE UNCHANGED vars
  <2>1. UNCHANGED <<storeVars, provVars, runVars, recVars, faultVars>>
    BY <1>6 DEF vars
  <2>2. PassInv'
    BY <2>1 DEF storeVars, provVars, recVars, PassInv, PassAlone, TodoIsOpen, PolledIsOpen,
                ResultsOfBatch, ItemsOfBatch
  <2>3. RunInv'
    BY <2>1, StoreKeepsRuns DEF storeVars, provVars, runVars
  <2>4. BoardInv'
    BY <2>1 DEF storeVars, recVars, faultVars, BoardInv, Quiet, Persisted
  <2> QED
    BY <1>1, <2>2, <2>3, <2>4
<1> QED
  BY <1>2, <1>3, <1>4, <1>5, <1>6 DEF Next

\* A batch that is submitted now takes the cells of its run, which are missing.
LEMMA SubmittedIsMissing ==
  ASSUME MissInv, [Next]_vars, NEW b \in Batches, provStatus[b] = "none", provStatus'[b] # "none"
  PROVE  batchCells'[b] \cap (Persisted \cup InFlight) = {}
<1> USE DEF MissInv
<1>1. PICK r \in Runs : SubmitBatch(r)
  <2>1. \A a \in Batches :
          ProviderMoves(a)
          => provStatus'[b] = provStatus[b]
    BY DEF ProviderMoves, ProviderEnds, ProviderFails, ProviderReneges,
         ProviderRecovers, ProviderReplaces, ProviderForgets, Failed, Typed, ProvType
  <2>2. \A r \in Runs :
          StartRun(r) \/ RunStep(r) \/ DropScorecard(r) \/ SaveThrows(r) \/ RunAborts(r)
          => SubmitBatch(r) \/ provStatus' = provStatus
    BY DEF StartRun, RunStep, ReadQueued, ReadExisting, DayRead, SkipDay, DropScorecard,
           SaveBatch, SaveThrows, RunAborts, provVars
  <2>3. \A x \in Passes :
          \/ StartPass(x) \/ PassStep(x) \/ BatchThrows(x) \/ BoardThrows(x) \/ CrashWorker(x)
          \/ \E c \in Cells : WriteCellThrows(x, c)
          => provStatus' = provStatus
    BY DEF StartPass, PassStep, PollBatch, MarkBatch, ReadResults, WriteCell, FinishBatch, EndLoop,
           ReadCells, SaveBoard, BatchThrows, BoardThrows, CrashWorker, WriteCellThrows, provVars
  <2>4. CrashApi \/ UNCHANGED vars => provStatus' = provStatus
    BY DEF CrashApi, vars, provVars
  <2> QED
    BY <2>1, <2>2, <2>3, <2>4 DEF Next
<1>2. batchCells'[b] = runMissing[r] /\ runPc[r] = "prepare"
  BY <1>1 DEF SubmitBatch, Typed, ProvType
<1> QED
  BY <1>2 DEF RunInv, MissingInv

\* A document that changes was open, or there was none.
LEMMA ClosedStays ==
  ASSUME MissInv, [Next]_vars, NEW b \in Batches, doc[b] \in Failed \cup {"reconciled"}
  PROVE  doc'[b] = doc[b]
<1> USE DEF MissInv
<1>1. doc[b] \notin NonTerminal \cup {"none"}
  BY DEF NonTerminal, Failed
<1>2. ASSUME NEW r \in Runs, SaveBatch(r)
      PROVE  doc'[b] = doc[b]
  BY <1>1, <1>2 DEF SaveBatch, RunInv, SaveIsFirst, Typed, StoreType
<1>3. ASSUME NEW x \in Passes, MarkBatch(x) \/ FinishBatch(x)
      PROVE  doc'[b] = doc[b]
  BY <1>1, <1>3 DEF MarkBatch, FinishBatch, ItemsDone, PassInv, PolledIsOpen, Typed, StoreType
<1>4. CASE ~(\E r \in Runs : SaveBatch(r)) /\ ~(\E x \in Passes : MarkBatch(x) \/ FinishBatch(x))
  BY <1>4 DEF Next, CrashApi, StartRun, RunStep, ReadQueued, ReadExisting, DayRead, SkipDay,
              DropScorecard, SubmitBatch, SaveThrows, RunAborts, ProviderMoves, ProviderEnds, ProviderFails, ProviderReneges,
         ProviderRecovers, ProviderReplaces, ProviderForgets, StartPass, PassStep, PollBatch, ReadResults, WriteCell,
              EndLoop, ReadCells, SaveBoard, BatchThrows, BoardThrows, CrashWorker, WriteCellThrows,
              vars, storeVars
<1> QED
  BY <1>2, <1>3, <1>4

\* No cell is paid for twice, whatever the reconciler persists and closes between the
\* two lists a run reads and its submission, with any number of callers, crashes and
\* rejected calls (FIX 4 of runInner and the run lock).
THEOREM SubmissionsAreMissing ==
  ASSUME OneWorker
  PROVE  Spec => SubmitsOnlyMissing
<1>1. Spec => []MissInv
  BY InitMissInv, NextMissInv, PTL DEF Spec
<1>2. MissInv /\ [Next]_vars =>
        [\A b \in Batches : provStatus[b] = "none" /\ provStatus'[b] # "none"
            => batchCells'[b] \cap (Persisted \cup InFlight) = {}]_vars
  BY SubmittedIsMissing
<1> QED
  BY <1>1, <1>2, PTL DEF Spec, SubmitsOnlyMissing

\* A closed batch is never opened again or closed otherwise: the running flag of the
\* one worker keeps every other pass away from what a pass has listed.
THEOREM ClosedBatchesStay ==
  ASSUME OneWorker
  PROVE  Spec => ClosedStaysClosed
<1>1. Spec => []MissInv
  BY InitMissInv, NextMissInv, PTL DEF Spec
<1>2. MissInv /\ [Next]_vars =>
        [\A b \in Batches : doc[b] \in Failed \cup {"reconciled"} => doc'[b] = doc[b]]_vars
  BY ClosedStays
<1> QED
  BY <1>1, <1>2, PTL DEF Spec, ClosedStaysClosed

\* Until something is rejected or dies, the scoreboard shows every persisted cell
\* whenever no pass is at work (ScoreboardService.generate, BatchReconciler.reconcile).
THEOREM ScoreboardIsCurrent ==
  ASSUME OneWorker
  PROVE  Spec => []ScoreboardCurrent
<1>1. Spec => []MissInv
  BY InitMissInv, NextMissInv, PTL DEF Spec
<1>2. MissInv => ScoreboardCurrent
  BY DEF MissInv, BoardInv, Quiet, ScoreboardCurrent
<1> QED
  BY <1>1, <1>2, PTL

------------------------------------------------------------------------------
(* The providers under the pipeline.                                        *)

USE DialectAssumption

\* Everything a provider does to the pipeline is a step of it.
LEMMA ProviderStep ==
  ASSUME [PNext]_pvars
  PROVE  [Next]_vars
<1>1. CASE ApiCrashes
  BY <1>1 DEF ApiCrashes, Next
<1>2. ASSUME NEW r \in Runs, RunStarts(r) \/ ProviderRunStep(r) \/ RunFails(r)
      PROVE  [Next]_vars
  <2>1. \/ StartRun(r) \/ RunStep(r) \/ DropScorecard(r) \/ SaveThrows(r) \/ RunAborts(r)
        \/ UNCHANGED vars
    BY <1>2 DEF RunStarts, ProviderRunStep, OtherRunStep, UploadInput, CreateBatch, CreateThrows,
                RunFails, RunStep
  <2> QED
    BY <2>1 DEF Next
<1>3. ASSUME NEW b \in Batches, Completes(b) \/ Fails(b) \/ EmulatedMoves(b)
      PROVE  [Next]_vars
  BY <1>3 DEF Completes, Fails, EmulatedMoves, ProviderMoves, Next
<1>4. ASSUME NEW x \in Passes, PassStarts(x) \/ ProviderPassStep(x) \/ PassFails(x) \/ WorkerCrashes(x)
      PROVE  [Next]_vars
  <2>1. \/ StartPass(x) \/ PassStep(x) \/ BatchThrows(x) \/ BoardThrows(x) \/ CrashWorker(x)
        \/ \E c \in Cells : WriteCellThrows(x, c)
    BY <1>4 DEF PassStarts, ProviderPassStep, OtherPassStep, ReadItems, WriteItem, PassFails,
                WorkerCrashes, PassStep
  <2> QED
    BY <2>1 DEF Next
<1>5. ASSUME NEW e \in pending, SaveCost(e) \/ LoseCost(e)
      PROVE  [Next]_vars
  BY <1>5 DEF SaveCost, LoseCost
<1>6. CASE UNCHANGED pvars
  BY <1>6 DEF pvars
<1> QED
  BY <1>1, <1>2, <1>3, <1>4, <1>5, <1>6 DEF PNext

\* Whatever the provider, files and cost records included, the pipeline over it is the
\* pipeline, so that every theorem above holds of it too.
THEOREM ProvidersServe == PSpec => Spec
<1>1. PInit => Init
  BY DEF PInit
<1> QED
  BY <1>1, ProviderStep, PTL DEF PSpec, Spec

------------------------------------------------------------------------------
(* Rows.                                                                    *)

AllRows == EmulatedRows \cup MoonshotRows \cup AnthropicRows

FileType ==
  /\ dialect \in Dialects
  /\ inputOf \in [Batches -> {"none", "kept", "deleted"}]
  /\ rows \in [Batches -> [Cells -> SUBSET AllRows]]
  /\ recTokens \in [Passes -> [Cells -> {"none", "zeros", "reported"}]]
  /\ swallowed \in Nat

\* The item of a batch was made of a row that answered it, and so were what a pass
\* read of it and the cell that came of that.
MadeOf(b, c, item) == \E r \in rows[b][c] : Item(r) = item
RowIsAnswer == \A b \in Batches, c \in Cells : rows[b][c] # {} => Decided(b)
ResultIsMade ==
  \A b \in Batches, c \in Cells : provResult[b][c] # "none" => MadeOf(b, c, provResult[b][c])
ItemIsMade ==
  \A x \in Passes : recPc[x] = "cells" =>
    \A c \in Cells : recItems[x][c] # "none" => MadeOf(recBatch[x], c, recItems[x][c])
CellIsMade ==
  \A c \in Persisted : \E b \in Batches, item \in ResultTypes :
    MadeOf(b, c, item) /\ cell[c] = Verdict(item)

RowInv == RowIsAnswer /\ ResultIsMade /\ ItemIsMade /\ CellIsMade

\* Until drains come late, an item has one row, and what is billed for it is what that says.
RowIsOne == \A b \in Batches, c \in Cells : \A r, q \in rows[b][c] : r = q
ReadTokens ==
  \A x \in Passes : recPc[x] = "cells" =>
    \A c \in Cells : recItems[x][c] # "none" => recTokens[x][c] = Tokens(rows[recBatch[x]][c])
BilledTokens == \A k \in pending \cup costs : k.tokens = Tokens(rows[k.batch][k.cell])
TokenInv == faults = 0 => RowIsOne /\ ReadTokens /\ BilledTokens

\* Bills: of a decided batch, for an item that was a result.
BillOf(k) ==
  /\ k.batch \in Batches /\ k.cell \in Cells /\ k.id = CostId(k.batch, k.cell) /\ Decided(k.batch)
  /\ \E item \in ResultTypes : MadeOf(k.batch, k.cell, item)
AllBills == \A k \in pending \cup costs : BillOf(k)
OneBill == \A k, l \in costs : k.id = l.id => k = l
CellIsBilled ==
  faults = 0 /\ swallowed = 0 => \A c \in Persisted : \E k \in pending \cup costs : k.cell = c
BillInv == AllBills /\ OneBill /\ CellIsBilled

\* Input files.
ReadIsCollected == \A x \in Passes : recPc[x] = "cells" => inputOf[recBatch[x]] # "kept"
InputInv == swallowed = 0 => ReadIsCollected /\ InputsAreCollected

ProvInv == HInv /\ FileType /\ RowInv /\ TokenInv /\ BillInv /\ InputInv

LEMMA InitProvInv == PInit => ProvInv
<1> SUFFICES ASSUME PInit PROVE ProvInv
  OBVIOUS
<1>1. HInv
  BY InitTyped, InitHarvest DEF PInit, HInv
<1>2. FileType
  BY DEF PInit, FileType
<1>3. RowInv
  BY DEF PInit, Init, RowInv, RowIsAnswer, ResultIsMade, ItemIsMade, CellIsMade, Persisted
<1>6. TokenInv
  BY DEF PInit, Init, TokenInv, RowIsOne, ReadTokens, BilledTokens
<1>4. BillInv
  BY DEF PInit, Init, BillInv, AllBills, OneBill, CellIsBilled, Persisted
<1>5. InputInv
  BY DEF PInit, Init, InputInv, ReadIsCollected, InputsAreCollected
<1> QED
  BY <1>1, <1>2, <1>3, <1>4, <1>5, <1>6 DEF ProvInv

LEMMA DecidedStays ==
  ASSUME Typed, [Next]_vars, NEW b \in Batches, Decided(b)
  PROVE  Decided(b)'
<1>1. provStatus \in [Batches -> {"none", "in_progress", "ended", "gone"} \cup Failed]
  BY DEF Typed, ProvType
<1>2. ASSUME NEW r \in Runs, SubmitBatch(r)
      PROVE  Decided(b)'
  BY <1>1, <1>2 DEF SubmitBatch, Decided
<1>3. ASSUME NEW a \in Batches,
             ProviderMoves(a)
      PROVE  Decided(b)'
  BY <1>1, <1>3 DEF ProviderMoves, ProviderEnds, ProviderFails, ProviderReneges,
         ProviderRecovers, ProviderReplaces, ProviderForgets, Failed, Decided
<1>4. ASSUME NEW r \in Runs,
             StartRun(r) \/ RunStep(r) \/ DropScorecard(r) \/ SaveThrows(r) \/ RunAborts(r),
             ~SubmitBatch(r)
      PROVE  provStatus' = provStatus
  BY <1>4 DEF StartRun, RunStep, ReadQueued, ReadExisting, DayRead, SkipDay, DropScorecard, SaveBatch,
              SaveThrows, RunAborts, provVars
<1>5. ASSUME NEW x \in Passes,
             \/ StartPass(x) \/ PassStep(x) \/ BatchThrows(x) \/ BoardThrows(x) \/ CrashWorker(x)
             \/ \E c \in Cells : WriteCellThrows(x, c)
      PROVE  provStatus' = provStatus
  BY <1>5 DEF StartPass, PassStep, PollBatch, MarkBatch, ReadResults, WriteCell, FinishBatch, EndLoop,
              ReadCells, SaveBoard, BatchThrows, BoardThrows, CrashWorker, WriteCellThrows, provVars
<1>6. CrashApi \/ UNCHANGED vars => provStatus' = provStatus
  BY DEF CrashApi, vars, provVars
<1> QED
  BY <1>2, <1>3, <1>4, <1>5, <1>6 DEF Next, Decided

\* The rows that come for some items of a batch are what is reported of them.
LEMMA RowsCome ==
  ASSUME FileType, NEW b \in Batches, NEW items \in SUBSET Cells, RowsComeWith(b, items)
  PROVE  /\ rows' \in [Batches -> [Cells -> SUBSET AllRows]]
         /\ \A a \in Batches, c \in Cells : a # b \/ c \notin items => rows'[a][c] = rows[a][c]
         /\ \A c \in items : \E r \in AllRows :
              rows'[b][c] = rows[b][c] \cup {r} /\ Item(r) = provResult'[b][c]
<1>1. PICK row \in [items -> Rows] :
        /\ \A c \in items : Item(row[c]) = provResult'[b][c]
        /\ rows' = [rows EXCEPT ![b] = [c \in Cells |->
                      IF c \in items THEN rows[b][c] \cup {row[c]} ELSE rows[b][c]]]
  BY DEF RowsComeWith, FileType
<1>2. Rows \subseteq AllRows
  BY DEF Rows, AllRows, FileType
<1>3. \A c \in items : row[c] \in AllRows
  BY <1>1, <1>2
<1>4. \A a \in Batches, c \in Cells :
        rows'[a][c] = IF a = b /\ c \in items THEN rows[b][c] \cup {row[c]} ELSE rows[a][c]
  BY <1>1 DEF FileType
<1>5. rows' \in [Batches -> [Cells -> SUBSET AllRows]]
  <2>1. [c \in Cells |-> IF c \in items THEN rows[b][c] \cup {row[c]} ELSE rows[b][c]]
          \in [Cells -> SUBSET AllRows]
    BY <1>3 DEF FileType
  <2> QED
    BY <1>1, <2>1 DEF FileType
<1> QED
  BY <1>1, <1>3, <1>4, <1>5

\* A provider that changes its mind writes rows for what it changes.
LEMMA MovesBringRows ==
  ASSUME HInv, NEW b \in Batches, EmulatedMoves(b)
  PROVE  \/ UNCHANGED <<provResult, rows>>
         \/ ProviderForgets(b) /\ UNCHANGED rows
         \/ \E items \in SUBSET Cells :
              /\ Fault /\ Decided(b) /\ RowsComeWith(b, items)
              /\ \A a \in Batches, c \in Cells :
                   a # b \/ c \notin items => provResult'[a][c] = provResult[a][c]
<1>1. CASE ProviderReneges(b) /\ UNCHANGED rows
  BY <1>1 DEF ProviderReneges
<1>2. CASE ProviderRecovers(b) /\ RowsComeWith(b, {c \in batchCells[b] : provResult[b][c] = "none"})
  <2> DEFINE items == {c \in batchCells[b] : provResult[b][c] = "none"}
  <2>1. items \in SUBSET Cells
    BY DEF HInv, Typed, ProvType
  <2>2. \A a \in Batches, c \in Cells : a # b \/ c \notin items => provResult'[a][c] = provResult[a][c]
    BY <1>2 DEF ProviderRecovers, HInv, Typed, ProvType
  <2>3. Fault /\ Decided(b)
    BY <1>2 DEF ProviderRecovers, Decided
  <2> QED
    BY <1>2, <2>1, <2>2, <2>3
<1>3. ASSUME NEW c \in Cells, ProviderReplaces(b, c), RowsComeWith(b, {c})
      PROVE  \E items \in SUBSET Cells :
               /\ Fault /\ Decided(b) /\ RowsComeWith(b, items)
               /\ \A a \in Batches, d \in Cells :
                    a # b \/ d \notin items => provResult'[a][d] = provResult[a][d]
  <2>1. {c} \in SUBSET Cells
    OBVIOUS
  <2>2. \A a \in Batches, d \in Cells : a # b \/ d \notin {c} => provResult'[a][d] = provResult[a][d]
    BY <1>3 DEF ProviderReplaces, HInv, Typed, ProvType
  <2>3. Fault /\ Decided(b)
    BY <1>3 DEF ProviderReplaces, Decided
  <2> QED
    BY <1>3, <2>1, <2>2, <2>3
<1>4. CASE ProviderForgets(b) /\ UNCHANGED rows
  BY <1>4
<1> QED
  BY <1>1, <1>2, <1>3, <1>4 DEF EmulatedMoves

\* What a step does to what is reported and to the rows.
LEMMA RowsMove ==
  ASSUME HInv, [PNext]_pvars
  PROVE  \/ UNCHANGED <<provResult, rows>>
         \/ \E b \in Batches : Completes(b)
         \/ \E b \in Batches : ProviderForgets(b) /\ UNCHANGED rows
         \/ \E b \in Batches, items \in SUBSET Cells :
              /\ Fault /\ Decided(b) /\ RowsComeWith(b, items)
              /\ \A a \in Batches, c \in Cells :
                   a # b \/ c \notin items => provResult'[a][c] = provResult[a][c]
<1>1. ASSUME NEW r \in Runs, RunStarts(r) \/ ProviderRunStep(r) \/ RunFails(r)
      PROVE  UNCHANGED <<provResult, rows>>
  BY <1>1 DEF RunStarts, ProviderRunStep, OtherRunStep, UploadInput, CreateBatch, CreateThrows, RunFails,
         StartRun, ReadQueued, ReadExisting, DayRead, SkipDay, DropScorecard, SubmitBatch, SaveBatch,
         SaveThrows, RunAborts, vars, provVars
<1>2. ASSUME NEW x \in Passes,
             PassStarts(x) \/ ProviderPassStep(x) \/ PassFails(x) \/ WorkerCrashes(x)
      PROVE  UNCHANGED <<provResult, rows>>
  BY <1>2 DEF PassStarts, ProviderPassStep, OtherPassStep, ReadItems, WriteItem, PassFails, WorkerCrashes,
         StartPass, PollBatch, MarkBatch, ReadResults, WriteCell, WriteCellThrows, FinishBatch, EndLoop,
         ReadCells, SaveBoard, BatchThrows, BoardThrows, CrashWorker, storeVars, provVars
<1>3. ASSUME NEW b \in Batches, Fails(b)
      PROVE  UNCHANGED <<provResult, rows>>
  BY <1>3 DEF Fails, ProviderFails
<1>4. ASSUME \/ ApiCrashes \/ UNCHANGED pvars
             \/ \E e \in pending : SaveCost(e) \/ LoseCost(e)
      PROVE  UNCHANGED <<provResult, rows>>
  BY <1>4 DEF ApiCrashes, CrashApi, SaveCost, LoseCost, pvars, vars, provVars
<1> QED
  BY <1>1, <1>2, <1>3, <1>4, MovesBringRows DEF PNext

\* The rows of an item only grow, and until something comes late those of a batch that is
\* decided are what they are.
LEMMA RowsStay ==
  ASSUME HInv, FileType, RowIsAnswer, [PNext]_pvars
  PROVE  /\ dialect' = dialect /\ FileType' /\ RowIsAnswer'
         /\ \A b \in Batches : Decided(b) => Decided(b)'
         /\ \A b \in Batches, c \in Cells : rows[b][c] \subseteq rows'[b][c]
         /\ \A b \in Batches : Decided(b) /\ faults' = 0 => rows'[b] = rows[b]
<1>1. [Next]_vars
  BY ProviderStep
<1>2. dialect' = dialect
  BY DEF PNext, ApiCrashes, RunStarts, ProviderRunStep, OtherRunStep, UploadInput, CreateBatch,
         CreateThrows, RunFails, Completes, Fails, EmulatedMoves, PassStarts, ProviderPassStep,
         OtherPassStep, ReadItems, WriteItem, PassFails, WorkerCrashes, SaveCost, LoseCost, pvars
<1>3. \A b \in Batches : Decided(b) => Decided(b)'
  BY <1>1, DecidedStays DEF HInv
<1>4. swallowed' \in Nat
  <2>1. swallowed' = swallowed \/ swallowed' = swallowed + 1
    BY DEF PNext, ApiCrashes, RunStarts, ProviderRunStep, OtherRunStep, UploadInput, CreateBatch,
         CreateThrows, RunFails, Completes, Fails, EmulatedMoves, PassStarts, ProviderPassStep,
         OtherPassStep, ReadItems, WriteItem, PassFails, WorkerCrashes, SaveCost, LoseCost, pvars, Swallow
  <2> QED
    BY <2>1 DEF FileType
<1>5. inputOf' \in [Batches -> {"none", "kept", "deleted"}]
  <2>1. ASSUME NEW r \in Runs, CreateBatch(r)
        PROVE  inputOf' \in [Batches -> {"none", "kept", "deleted"}]
    BY <2>1 DEF CreateBatch, FileType
  <2>2. ASSUME NEW x \in Passes, ReadItems(x)
        PROVE  inputOf' \in [Batches -> {"none", "kept", "deleted"}]
    BY <2>2 DEF ReadItems, FileType
  <2>3. ASSUME ~\E r \in Runs : CreateBatch(r), ~\E x \in Passes : ReadItems(x)
        PROVE  inputOf' = inputOf
    BY <2>3 DEF PNext, ApiCrashes, RunStarts, ProviderRunStep, OtherRunStep, UploadInput,
         CreateThrows, RunFails, Completes, Fails, EmulatedMoves, PassStarts, ProviderPassStep,
         OtherPassStep, WriteItem, PassFails, WorkerCrashes, SaveCost, LoseCost, pvars, fileVars
  <2> QED
    BY <2>1, <2>2, <2>3 DEF FileType
<1>6. recTokens' \in [Passes -> [Cells -> {"none", "zeros", "reported"}]]
  <2>1. ASSUME NEW x \in Passes, ReadItems(x)
        PROVE  recTokens' \in [Passes -> [Cells -> {"none", "zeros", "reported"}]]
    <3>1. \A answers : Tokens(answers) \in {"none", "zeros", "reported"}
      BY DEF Tokens
    <3> DEFINE tokens == [c \in Cells |->
                 IF recItems'[x][c] = "none" THEN "none" ELSE Tokens(rows[recBatch[x]][c])]
    <3>2. tokens \in [Cells -> {"none", "zeros", "reported"}]
      BY <3>1
    <3>3. recTokens' = [recTokens EXCEPT ![x] = tokens]
      BY <2>1 DEF ReadItems
    <3> QED
      BY <3>2, <3>3 DEF FileType
  <2>2. ASSUME NEW x \in Passes, NEW c \in Cells, WriteItem(x, c)
        PROVE  recTokens' \in [Passes -> [Cells -> {"none", "zeros", "reported"}]]
    BY <2>2 DEF WriteItem, FileType
  <2>3. ASSUME NEW x \in Passes, WorkerCrashes(x)
        PROVE  recTokens' \in [Passes -> [Cells -> {"none", "zeros", "reported"}]]
    BY <2>3 DEF WorkerCrashes, FileType
  <2>4. ASSUME ~\E x \in Passes : ReadItems(x) \/ WorkerCrashes(x) \/ \E c \in Cells : WriteItem(x, c)
        PROVE  recTokens' = recTokens
    BY <2>4 DEF PNext, ApiCrashes, RunStarts, ProviderRunStep, OtherRunStep, UploadInput, CreateBatch,
         CreateThrows, RunFails, Completes, Fails, EmulatedMoves, PassStarts, ProviderPassStep,
         OtherPassStep, PassFails, SaveCost, LoseCost, pvars
  <2> QED
    BY <2>1, <2>2, <2>3, <2>4 DEF FileType
<1>7. ASSUME NEW b \in Batches, NEW items \in SUBSET Cells, RowsComeWith(b, items),
             Decided(b)', ~Decided(b) \/ faults' # 0
      PROVE  /\ rows' \in [Batches -> [Cells -> SUBSET AllRows]] /\ RowIsAnswer'
             /\ \A a \in Batches, c \in Cells : rows[a][c] \subseteq rows'[a][c]
             /\ \A a \in Batches : Decided(a) /\ faults' = 0 => rows'[a] = rows[a]
  <2>1. /\ rows' \in [Batches -> [Cells -> SUBSET AllRows]]
        /\ \A a \in Batches, c \in Cells : a # b \/ c \notin items => rows'[a][c] = rows[a][c]
        /\ \A c \in items : \E r \in AllRows : rows'[b][c] = rows[b][c] \cup {r}
    BY <1>7, RowsCome
  <2>2. \A a \in Batches, c \in Cells : rows[a][c] \subseteq rows'[a][c]
    BY <2>1
  <2>3. RowIsAnswer'
    BY <1>3, <1>7, <2>1 DEF RowIsAnswer
  <2>4. \A a \in Batches : Decided(a) /\ faults' = 0 => rows'[a] = rows[a]
    <3>1. ASSUME NEW a \in Batches, a # b
          PROVE  rows'[a] = rows[a]
      BY <2>1, <3>1 DEF FileType
    <3> QED
      BY <1>7, <3>1
  <2> QED
    BY <2>1, <2>2, <2>3, <2>4
<1>8. /\ rows' \in [Batches -> [Cells -> SUBSET AllRows]] /\ RowIsAnswer'
      /\ \A a \in Batches, c \in Cells : rows[a][c] \subseteq rows'[a][c]
      /\ \A a \in Batches : Decided(a) /\ faults' = 0 => rows'[a] = rows[a]
  <2>1. CASE rows' = rows
    BY <1>3, <2>1 DEF FileType, RowIsAnswer
  <2>2. ASSUME NEW b \in Batches, Completes(b)
        PROVE  RowsComeWith(b, batchCells[b]) /\ batchCells[b] \in SUBSET Cells /\ ~Decided(b) /\ Decided(b)'
    BY <2>2 DEF Completes, ProviderEnds, Decided, HInv, Typed, ProvType
  <2>3. Fault => faults' # 0
    BY DEF Fault, HInv, Typed, FaultType
  <2> QED
    BY <1>3, <1>7, <2>1, <2>2, <2>3, RowsMove
<1> QED
  BY <1>2, <1>3, <1>4, <1>5, <1>6, <1>8 DEF FileType

\* What was made of a row stays made of it.
LEMMA MadeStays ==
  ASSUME HInv, FileType, RowIsAnswer, [PNext]_pvars, NEW b \in Batches, NEW c \in Cells
  PROVE  \A item : MadeOf(b, c, item) => MadeOf(b, c, item)'
<1>1. dialect' = dialect /\ rows[b][c] \subseteq rows'[b][c]
  BY RowsStay
<1> QED
  BY <1>1 DEF MadeOf, Item

\* A result comes with its row.
LEMMA ResultsAreMade ==
  ASSUME HInv, FileType, RowIsAnswer, ResultIsMade, [PNext]_pvars
  PROVE  ResultIsMade'
<1>1. dialect' = dialect
  BY RowsStay
<1>2. ASSUME NEW b \in Batches, NEW c \in Cells, provResult'[b][c] = provResult[b][c],
             provResult'[b][c] # "none"
      PROVE  MadeOf(b, c, provResult[b][c])'
  <2>1. PICK r \in rows[b][c] : Item(r) = provResult[b][c]
    BY <1>2 DEF ResultIsMade, MadeOf
  <2>2. r \in rows'[b][c]
    BY RowsStay
  <2> QED
    BY <1>1, <1>2, <2>1, <2>2 DEF MadeOf, Item
<1>3. ASSUME NEW b \in Batches, NEW items \in SUBSET Cells, RowsComeWith(b, items),
             \A a \in Batches, c \in Cells :
               a # b \/ c \notin items => provResult'[a][c] \in {provResult[a][c], "none"}
      PROVE  ResultIsMade'
  <2>1. ASSUME NEW c \in items
        PROVE  MadeOf(b, c, provResult[b][c])'
    <3>1. PICK r \in rows'[b][c] : Item(r) = provResult'[b][c]
      BY <1>3, RowsCome
    <3> QED
      BY <1>1, <3>1 DEF MadeOf, Item
  <2> QED
    BY <1>2, <1>3, <2>1 DEF ResultIsMade
<1>4. ASSUME NEW b \in Batches, Completes(b)
      PROVE  ResultIsMade'
  <2>1. /\ RowsComeWith(b, batchCells[b]) /\ batchCells[b] \in SUBSET Cells
        /\ \A a \in Batches, c \in Cells :
             a # b \/ c \notin batchCells[b] => provResult'[a][c] \in {provResult[a][c], "none"}
    BY <1>4 DEF Completes, ProviderEnds, HInv, Typed, ProvType
  <2> QED
    BY <1>3, <2>1
<1>5. ASSUME NEW b \in Batches, ProviderForgets(b)
      PROVE  ResultIsMade'
  <2>1. \A a \in Batches, c \in Cells : provResult'[a][c] \in {provResult[a][c], "none"}
    BY <1>5 DEF ProviderForgets, HInv, Typed, ProvType
  <2> QED
    BY <1>2, <2>1 DEF ResultIsMade
<1>6. CASE provResult' = provResult
  BY <1>2, <1>6 DEF ResultIsMade
<1> QED
  BY <1>3, <1>4, <1>5, <1>6, RowsMove

\* Where a pass that writes cells comes from, and what it then has.
LEMMA PassAtCells ==
  ASSUME HInv, FileType, [PNext]_pvars, NEW x \in Passes, recPc'[x] = "cells"
  PROVE  \/ ReadItems(x)
         \/ /\ recPc[x] = "cells" /\ recBatch'[x] = recBatch[x]
            /\ \A c \in Cells : recItems'[x][c] # "none" =>
                 recItems'[x][c] = recItems[x][c] /\ recTokens'[x][c] = recTokens[x][c]
<1>1. /\ recPc \in [Passes -> RecPc] /\ recBatch \in [Passes -> Batches \cup {NoBatch}]
      /\ recItems \in [Passes -> [Cells -> {"none"} \cup ResultTypes]]
  BY DEF HInv, Typed, RecType
<1> USE DEF FileType
<1>2. ASSUME NEW y \in Passes \ {x}, ReadItems(y)
      PROVE  /\ recPc'[x] = recPc[x] /\ recBatch'[x] = recBatch[x] /\ recItems'[x] = recItems[x]
             /\ recTokens'[x] = recTokens[x]
  BY <1>1, <1>2 DEF ReadItems, ReadResults
<1>3. ASSUME NEW y \in Passes, NEW d \in Cells, WriteItem(y, d)
      PROVE  /\ recPc'[x] = recPc[x] /\ recBatch'[x] = recBatch[x]
             /\ \A c \in Cells : recItems'[x][c] # "none" =>
                  recItems'[x][c] = recItems[x][c] /\ recTokens'[x][c] = recTokens[x][c]
  <2>1. /\ UNCHANGED <<recPc, recBatch>>
        /\ recItems' = [recItems EXCEPT ![y][d] = "none"]
        /\ recTokens' = [recTokens EXCEPT ![y][d] = "none"]
    BY <1>3 DEF WriteItem, WriteCell, WriteCellThrows
  <2> QED
    BY <1>1, <2>1
<1>4. ASSUME NEW y \in Passes, PassStarts(y) \/ OtherPassStep(y)
      PROVE  /\ recPc[x] = "cells" /\ recBatch'[x] = recBatch[x] /\ recItems'[x] = recItems[x]
             /\ recTokens'[x] = recTokens[x]
  BY <1>1, <1>4 DEF PassStarts, OtherPassStep, StartPass, PollBatch, NextStep, MarkBatch, FinishBatch,
                    EndLoop, ResetPass, ReadCells, SaveBoard
<1>5. ASSUME NEW y \in Passes, PassFails(y)
      PROVE  /\ recPc[x] = "cells" /\ recBatch'[x] = recBatch[x] /\ recItems'[x] = recItems[x]
             /\ recTokens'[x] = recTokens[x]
  BY <1>1, <1>5 DEF PassFails, BatchThrows, BoardThrows, ResetPass
<1>6. ASSUME NEW y \in Passes, WorkerCrashes(y)
      PROVE  /\ recPc[x] = "cells" /\ recBatch'[x] = recBatch[x] /\ recItems'[x] = recItems[x]
             /\ recTokens'[x] = recTokens[x]
  BY <1>1, <1>6 DEF WorkerCrashes, CrashWorker
<1>7. ASSUME ~\E y \in Passes : PassStarts(y) \/ ProviderPassStep(y) \/ PassFails(y) \/ WorkerCrashes(y)
      PROVE  UNCHANGED <<recVars, recTokens>>
  <2>1. ASSUME NEW r \in Runs, RunStarts(r) \/ ProviderRunStep(r) \/ RunFails(r)
        PROVE  UNCHANGED <<recVars, recTokens>>
    BY <2>1 DEF RunStarts, ProviderRunStep, OtherRunStep, UploadInput, CreateBatch, CreateThrows, RunFails,
           StartRun, ReadQueued, ReadExisting, DayRead, SkipDay, DropScorecard, SubmitBatch, SaveBatch,
           SaveThrows, RunAborts, vars
  <2>2. ASSUME NEW b \in Batches, Completes(b) \/ Fails(b) \/ EmulatedMoves(b)
        PROVE  UNCHANGED <<recVars, recTokens>>
    BY <2>2 DEF Completes, Fails, EmulatedMoves, ProviderMoves, ProviderEnds, ProviderFails, ProviderReneges,
         ProviderRecovers, ProviderReplaces, ProviderForgets
  <2>3. ASSUME \/ ApiCrashes \/ UNCHANGED pvars
               \/ \E e \in pending : SaveCost(e) \/ LoseCost(e)
        PROVE  UNCHANGED <<recVars, recTokens>>
    BY <2>3 DEF ApiCrashes, CrashApi, SaveCost, LoseCost, pvars, vars
  <2> QED
    BY <1>7, <2>1, <2>2, <2>3 DEF PNext
<1>8. ASSUME UNCHANGED <<recVars, recTokens>>
      PROVE  /\ recPc[x] = "cells" /\ recBatch'[x] = recBatch[x] /\ recItems'[x] = recItems[x]
             /\ recTokens'[x] = recTokens[x]
  BY <1>8 DEF recVars
<1> QED
  BY <1>2, <1>3, <1>4, <1>5, <1>6, <1>7, <1>8 DEF ProviderPassStep

\* What a pass reads is what is reported of a batch that is decided.
LEMMA PassItems ==
  ASSUME HInv, FileType, [PNext]_pvars,
         NEW x \in Passes, recPc'[x] = "cells", NEW c \in Cells, recItems'[x][c] # "none"
  PROVE  /\ recPc[x] \in {"results", "cells"} /\ recBatch'[x] = recBatch[x]
         /\ recBatch[x] \in Batches /\ Decided(recBatch[x])
         /\ \/ /\ recItems'[x][c] = provResult[recBatch[x]][c]
               /\ recTokens'[x][c] = Tokens(rows[recBatch[x]][c])
            \/ /\ recPc[x] = "cells"
               /\ recItems'[x][c] = recItems[x][c] /\ recTokens'[x][c] = recTokens[x][c]
<1>1. recPc[x] \in {"results", "cells"}
  BY PassAtCells DEF ReadItems, ReadResults
<1>2. recBatch[x] \in Batches /\ Decided(recBatch[x])
  BY <1>1 DEF HInv, Harvest, HarvestIsReported, Reported
<1>3. CASE ReadItems(x)
  <2>1. recBatch'[x] = recBatch[x] /\ recItems'[x][c] = Kept(provResult[recBatch[x]][c])
    BY <1>3 DEF ReadItems, ReadResults, HInv, Typed, RecType
  <2>2. recItems'[x][c] = provResult[recBatch[x]][c]
    BY <2>1 DEF Kept
  <2>3. recTokens'[x][c] = Tokens(rows[recBatch[x]][c])
    BY <1>3 DEF ReadItems, FileType
  <2> QED
    BY <1>1, <1>2, <2>1, <2>2, <2>3
<1>4. CASE ~ReadItems(x)
  BY <1>1, <1>2, <1>4, PassAtCells
<1> QED
  BY <1>3, <1>4

LEMMA ItemsAreMade ==
  ASSUME HInv, FileType, RowIsAnswer, ResultIsMade, ItemIsMade, [PNext]_pvars
  PROVE  ItemIsMade'
<1> SUFFICES ASSUME NEW x \in Passes, recPc'[x] = "cells", NEW c \in Cells, recItems'[x][c] # "none"
             PROVE  MadeOf(recBatch[x], c, recItems[x][c])'
  BY DEF ItemIsMade
<1>1. dialect' = dialect
  BY RowsStay
<1>2. recBatch'[x] = recBatch[x] /\ recBatch[x] \in Batches
  BY PassItems
<1>3. MadeOf(recBatch[x], c, recItems'[x][c])
  BY <1>2, PassItems DEF ItemIsMade, ResultIsMade
<1>4. PICK r \in rows[recBatch[x]][c] : Item(r) = recItems'[x][c]
  BY <1>3 DEF MadeOf
<1>5. r \in rows'[recBatch'[x]][c]
  BY <1>2, RowsStay
<1> QED
  BY <1>1, <1>4, <1>5 DEF MadeOf, Item

\* A cell that was not there was written by a pass that bills it.
LEMMA CellsCome ==
  ASSUME HInv, [PNext]_pvars, NEW c \in Cells, cell'[c] # cell[c]
  PROVE  \E x \in Passes :
           /\ WriteItem(x, c) /\ WriteCell(x, c)
           /\ recPc[x] = "cells" /\ recItems[x][c] # "none" /\ cell'[c] = Verdict(recItems[x][c])
<1>1. ASSUME NEW x \in Passes, NEW d \in Cells, WriteItem(x, d)
      PROVE  /\ d = c /\ WriteCell(x, c) /\ recPc[x] = "cells" /\ recItems[x][c] # "none"
             /\ cell'[c] = Verdict(recItems[x][c])
  BY <1>1 DEF WriteItem, WriteCell, WriteCellThrows, storeVars, HInv, Typed, StoreType
<1>2. ASSUME ~\E x \in Passes, d \in Cells : WriteItem(x, d)
      PROVE  cell' = cell
  BY <1>2 DEF PNext, ApiCrashes, RunStarts, ProviderRunStep, OtherRunStep, UploadInput, CreateBatch,
         CreateThrows, RunFails, Completes, Fails, EmulatedMoves, PassStarts, ProviderPassStep,
         OtherPassStep, ReadItems, PassFails, WorkerCrashes, SaveCost, LoseCost, pvars, vars, storeVars,
         CrashApi, StartRun, ReadQueued, ReadExisting, DayRead, SkipDay, DropScorecard, SubmitBatch,
         SaveBatch, SaveThrows, RunAborts, ProviderMoves, ProviderEnds, ProviderFails, ProviderReneges,
         ProviderRecovers, ProviderReplaces, ProviderForgets,
         StartPass, PollBatch, MarkBatch, ReadResults, FinishBatch, EndLoop, ReadCells, SaveBoard,
         BatchThrows, BoardThrows, CrashWorker
<1> QED
  BY <1>1, <1>2

LEMMA CellsAreMade ==
  ASSUME HInv, FileType, RowIsAnswer, ItemIsMade, CellIsMade, [PNext]_pvars
  PROVE  CellIsMade'
<1> SUFFICES ASSUME NEW c \in Cells, cell'[c] # "none"
             PROVE  \E b \in Batches, item \in ResultTypes :
                      MadeOf(b, c, item)' /\ cell'[c] = Verdict(item)
  BY DEF CellIsMade, Persisted
<1>1. CASE cell'[c] = cell[c]
  <2>1. PICK b \in Batches, item \in ResultTypes : MadeOf(b, c, item) /\ cell[c] = Verdict(item)
    BY <1>1 DEF CellIsMade, Persisted
  <2> QED
    BY <1>1, <2>1, MadeStays
<1>2. CASE cell'[c] # cell[c]
  <2>1. PICK x \in Passes :
           /\ recPc[x] = "cells" /\ recItems[x][c] # "none" /\ cell'[c] = Verdict(recItems[x][c])
    BY <1>2, CellsCome
  <2>2. recItems[x][c] \in ResultTypes
    BY <2>1 DEF HInv, Typed, RecType
  <2>3. recBatch[x] \in Batches /\ MadeOf(recBatch[x], c, recItems[x][c])
    BY <2>1 DEF ItemIsMade, HInv, Harvest, HarvestIsReported
  <2>4. PICK b \in Batches, item \in ResultTypes :
           b = recBatch[x] /\ item = recItems[x][c] /\ MadeOf(b, c, item)
    BY <2>2, <2>3
  <2>5. MadeOf(b, c, item)'
    BY <2>4, MadeStays
  <2> QED
    BY <2>1, <2>4, <2>5
<1> QED
  BY <1>1, <1>2

------------------------------------------------------------------------------
(* Bills.                                                                   *)

\* Faults are counted for good.
LEMMA FaultsStay ==
  ASSUME HInv, FileType, RowIsAnswer, [PNext]_pvars
  PROVE  /\ faults > 0 => faults' > 0
         /\ swallowed > 0 => swallowed' > 0
         /\ faults' # 0 => faults' > 0
         /\ swallowed' # 0 => swallowed' > 0
<1>1. HInv' /\ FileType' /\ [Next]_vars
  BY ProviderStep, NextHarvest, RowsStay
<1>2. faults \in Nat /\ faults' \in Nat /\ swallowed \in Nat /\ swallowed' \in Nat
  BY <1>1 DEF HInv, Typed, FaultType, FileType
<1>3. faults' = faults \/ faults' = faults + 1
  BY <1>1 DEF Next, CrashApi, StartRun, RunStep, ReadQueued, ReadExisting, DayRead, SkipDay,
              DropScorecard, SubmitBatch, SaveBatch, SaveThrows, RunAborts, ProviderMoves, ProviderEnds, ProviderFails, ProviderReneges,
         ProviderRecovers, ProviderReplaces, ProviderForgets, StartPass, PassStep, PollBatch, MarkBatch, ReadResults,
              WriteCell, FinishBatch, EndLoop, ReadCells, SaveBoard, BatchThrows, BoardThrows,
              CrashWorker, WriteCellThrows, vars, faultVars, Fault
<1>4. swallowed' = swallowed \/ swallowed' = swallowed + 1
  BY DEF PNext, ApiCrashes, RunStarts, ProviderRunStep, OtherRunStep, UploadInput, CreateBatch,
         CreateThrows, RunFails, Completes, Fails, EmulatedMoves, PassStarts, ProviderPassStep,
         OtherPassStep, ReadItems, WriteItem, PassFails, WorkerCrashes, SaveCost, LoseCost, pvars, Swallow
<1> QED
  BY <1>2, <1>3, <1>4

\* The usage of an item, as it is emitted, and the record that is saved of it.
Emitted(x, c) ==
  LET b == recBatch[x] IN
  [at |-> WorkerOf[x], id |-> CostId(b, c), batch |-> b, cell |-> c, tokens |-> recTokens[x][c]]
Saved(e) == [id |-> e.id, batch |-> e.batch, cell |-> e.cell, tokens |-> e.tokens]

\* What a step does to events and records.
LEMMA BillsMove ==
  ASSUME [PNext]_pvars
  PROVE  \/ \E x \in Passes, c \in Cells :
              WriteItem(x, c) /\ pending' = pending \cup {Emitted(x, c)} /\ costs' = costs
         \/ \E e \in pending :
              /\ pending' = pending \ {e}
              /\ costs' = IF \E k \in costs : k.id = e.id THEN costs ELSE costs \cup {Saved(e)}
         \/ pending' \subseteq pending /\ costs' = costs
            /\ (pending' = pending \/ Swallow \/ Fault)
<1>1. ASSUME NEW x \in Passes, NEW c \in Cells, WriteItem(x, c)
      PROVE  pending' = pending \cup {Emitted(x, c)} /\ costs' = costs
  BY <1>1 DEF WriteItem, Emitted
<1>2. ASSUME NEW e \in pending, SaveCost(e)
      PROVE  /\ pending' = pending \ {e}
             /\ costs' = IF \E k \in costs : k.id = e.id THEN costs ELSE costs \cup {Saved(e)}
  BY <1>2 DEF SaveCost, Saved
<1>3. ASSUME NEW e \in pending, LoseCost(e)
      PROVE  pending' \subseteq pending /\ costs' = costs /\ Swallow
  BY <1>3 DEF LoseCost
<1>4. ASSUME NEW x \in Passes, WorkerCrashes(x)
      PROVE  pending' \subseteq pending /\ costs' = costs /\ Fault
  BY <1>4 DEF WorkerCrashes, CrashWorker
<1>5. ASSUME ~\E x \in Passes, c \in Cells : WriteItem(x, c),
             ~\E x \in Passes : WorkerCrashes(x),
             ~\E e \in pending : SaveCost(e) \/ LoseCost(e)
      PROVE  pending' = pending /\ costs' = costs
  BY <1>5 DEF PNext, ApiCrashes, RunStarts, ProviderRunStep, OtherRunStep, UploadInput, CreateBatch,
         CreateThrows, RunFails, Completes, Fails, EmulatedMoves, PassStarts, ProviderPassStep,
         OtherPassStep, ReadItems, PassFails, pvars, costVars
<1> QED
  BY <1>1, <1>2, <1>3, <1>4, <1>5

LEMMA BillsStay ==
  ASSUME HInv, FileType, RowIsAnswer, NEW k, BillOf(k), [PNext]_pvars
  PROVE  BillOf(k)'
<1>1. PICK item \in ResultTypes : MadeOf(k.batch, k.cell, item)
  BY DEF BillOf
<1>2. k.batch \in Batches /\ k.cell \in Cells /\ Decided(k.batch)
  BY DEF BillOf
<1>3. Decided(k.batch)' /\ MadeOf(k.batch, k.cell, item)'
  BY <1>1, <1>2, RowsStay, MadeStays
<1> QED
  BY <1>2, <1>3 DEF BillOf, CostId

\* What a pass emits, and what is saved of it, is the bill of an item.
LEMMA NewBills ==
  ASSUME HInv, ItemIsMade
  PROVE  /\ \A x \in Passes, c \in Cells :
              recPc[x] = "cells" /\ recItems[x][c] # "none" => BillOf(Emitted(x, c))
         /\ \A e \in pending : BillOf(e) => BillOf(Saved(e))
<1>1. ASSUME NEW x \in Passes, NEW c \in Cells, recPc[x] = "cells", recItems[x][c] # "none"
      PROVE  BillOf(Emitted(x, c))
  <2>1. recBatch[x] \in Batches /\ Decided(recBatch[x])
    BY <1>1 DEF HInv, Harvest, HarvestIsReported, Reported
  <2>2. recItems[x][c] \in ResultTypes /\ MadeOf(recBatch[x], c, recItems[x][c])
    BY <1>1 DEF HInv, Typed, RecType, ItemIsMade
  <2> QED
    BY <2>1, <2>2 DEF BillOf, Emitted
<1>2. ASSUME NEW e \in pending, BillOf(e)
      PROVE  BillOf(Saved(e))
  BY <1>2 DEF BillOf, Saved
<1> QED
  BY <1>1, <1>2

LEMMA BillsAreMade ==
  ASSUME HInv, FileType, RowIsAnswer, ItemIsMade, AllBills, [PNext]_pvars
  PROVE  AllBills'
<1> SUFFICES ASSUME NEW k \in pending' \cup costs'
             PROVE  BillOf(k)
  BY BillsStay DEF AllBills
<1>1. CASE k \in pending \cup costs
  BY <1>1 DEF AllBills
<1>2. ASSUME NEW x \in Passes, NEW c \in Cells, WriteItem(x, c), k = Emitted(x, c)
      PROVE  BillOf(k)
  BY <1>2, NewBills DEF WriteItem, WriteCell, WriteCellThrows
<1>3. ASSUME NEW e \in pending, k = Saved(e)
      PROVE  BillOf(k)
  BY <1>3, NewBills DEF AllBills
<1> QED
  BY <1>1, <1>2, <1>3, BillsMove

\* Without faults, the rows that an item is read and billed with are those it keeps.
LEMMA TokensStay ==
  ASSUME HInv, FileType, RowIsAnswer, ItemIsMade, AllBills, TokenInv, [PNext]_pvars
  PROVE  TokenInv'
<1> SUFFICES ASSUME faults' = 0
             PROVE  RowIsOne' /\ ReadTokens' /\ BilledTokens'
  BY DEF TokenInv
<1>1. RowIsOne /\ ReadTokens /\ BilledTokens
  BY FaultsStay DEF TokenInv, HInv, Typed, FaultType
<1>2. /\ dialect' = dialect
      /\ \A b \in Batches : Decided(b) => Decided(b)' /\ rows'[b] = rows[b]
  BY RowsStay
<1>3. \A answers : Tokens(answers)' = Tokens(answers)
  BY <1>2 DEF Tokens, Billable, Item
<1>4. RowIsOne'
  <2>1. CASE rows' = rows
    BY <1>1, <2>1 DEF RowIsOne
  <2>2. ASSUME NEW b \in Batches, Completes(b)
        PROVE  RowIsOne'
    <3>1. RowsComeWith(b, batchCells[b]) /\ batchCells[b] \in SUBSET Cells /\ ~Decided(b)
      BY <2>2 DEF Completes, ProviderEnds, Decided, HInv, Typed, ProvType
    <3>2. \A c \in Cells : rows[b][c] = {}
      BY <3>1 DEF RowIsAnswer
    <3>3. /\ \A a \in Batches, c \in Cells : a # b \/ c \notin batchCells[b] => rows'[a][c] = rows[a][c]
          /\ \A c \in batchCells[b] : \E r : rows'[b][c] = rows[b][c] \cup {r}
      BY <3>1, RowsCome
    <3> QED
      BY <1>1, <3>2, <3>3 DEF RowIsOne
  <2>3. ~Fault
    BY DEF Fault, HInv, Typed, FaultType
  <2> QED
    BY <2>1, <2>2, <2>3, RowsMove
<1>5. ReadTokens'
  <2> SUFFICES ASSUME NEW x \in Passes, recPc'[x] = "cells", NEW c \in Cells, recItems'[x][c] # "none"
               PROVE  recTokens'[x][c] = Tokens(rows[recBatch[x]][c])'
    BY DEF ReadTokens
  <2>1. /\ recBatch'[x] = recBatch[x] /\ rows'[recBatch[x]] = rows[recBatch[x]]
        /\ recTokens'[x][c] = Tokens(rows[recBatch[x]][c])
    BY <1>1, <1>2, PassItems DEF ReadTokens
  <2> QED
    BY <1>2, <2>1 DEF Tokens, Billable, Item
<1>6. BilledTokens'
  <2> SUFFICES ASSUME NEW k \in pending' \cup costs'
               PROVE  k.tokens = Tokens(rows[k.batch][k.cell])'
    BY DEF BilledTokens
  <2>1. BillOf(k) /\ k.tokens = Tokens(rows[k.batch][k.cell])
    <3>1. CASE k \in pending \cup costs
      BY <1>1, <3>1 DEF AllBills, BilledTokens
    <3>2. ASSUME NEW x \in Passes, NEW c \in Cells, WriteItem(x, c), k = Emitted(x, c)
          PROVE  BillOf(k) /\ k.tokens = Tokens(rows[k.batch][k.cell])
      <4>1. recPc[x] = "cells" /\ recItems[x][c] # "none"
        BY <3>2 DEF WriteItem, WriteCell, WriteCellThrows
      <4>2. k.tokens = recTokens[x][c] /\ k.batch = recBatch[x] /\ k.cell = c
        BY <3>2 DEF Emitted
      <4> QED
        BY <1>1, <3>2, <4>1, <4>2, NewBills DEF ReadTokens
    <3>3. ASSUME NEW e \in pending, k = Saved(e)
          PROVE  BillOf(k) /\ k.tokens = Tokens(rows[k.batch][k.cell])
      <4>1. k.tokens = e.tokens /\ k.batch = e.batch /\ k.cell = e.cell
        BY <3>3 DEF Saved
      <4> QED
        BY <1>1, <3>3, <4>1, NewBills DEF AllBills, BilledTokens
    <3> QED
      BY <3>1, <3>2, <3>3, BillsMove
  <2>2. rows'[k.batch] = rows[k.batch]
    BY <1>2, <2>1 DEF BillOf
  <2> QED
    BY <1>2, <2>1, <2>2 DEF Tokens, Billable, Item
<1> QED
  BY <1>4, <1>5, <1>6

LEMMA OneBillStays ==
  ASSUME OneBill, [PNext]_pvars
  PROVE  OneBill'
<1>1. ASSUME NEW e \in pending,
             costs' = IF \E k \in costs : k.id = e.id THEN costs ELSE costs \cup {Saved(e)}
      PROVE  OneBill'
  <2>1. Saved(e).id = e.id
    BY DEF Saved
  <2> QED
    BY <1>1, <2>1 DEF OneBill
<1> QED
  BY <1>1, BillsMove DEF OneBill

\* The event of a cell is emitted before the cell is written, and outlives the pass
\* unless its process dies.
LEMMA CellsStayBilled ==
  ASSUME HInv, FileType, RowIsAnswer, AllBills, CellIsBilled, [PNext]_pvars
  PROVE  CellIsBilled'
<1> SUFFICES ASSUME faults' = 0, swallowed' = 0, NEW c \in Cells, cell'[c] # "none"
             PROVE  \E k \in pending' \cup costs' : k.cell = c
  BY DEF CellIsBilled, Persisted
<1>1. faults = 0 /\ swallowed = 0 /\ ~Fault /\ ~Swallow
  <2>1. faults \in Nat /\ swallowed \in Nat
    BY DEF HInv, Typed, FaultType, FileType
  <2> QED
    BY <2>1, FaultsStay DEF Fault, Swallow
<1>2. CASE cell'[c] = cell[c]
  <2>1. PICK k \in pending \cup costs : k.cell = c
    BY <1>1, <1>2 DEF CellIsBilled, Persisted
  <2>2. ASSUME NEW e \in pending, pending' = pending \ {e},
               costs' = IF \E l \in costs : l.id = e.id THEN costs ELSE costs \cup {Saved(e)}
        PROVE  \E l \in pending' \cup costs' : l.cell = c
    <3>1. CASE k # e \/ k \in costs
      BY <2>1, <2>2, <3>1
    <3>2. CASE k = e /\ \E l \in costs : l.id = e.id
      <4>1. PICK l \in costs : l.id = e.id
        BY <3>2
      <4>2. l.cell = e.cell
        BY <4>1 DEF AllBills, BillOf, CostId
      <4> QED
        BY <2>1, <2>2, <3>2, <4>1, <4>2
    <3>3. CASE k = e /\ ~\E l \in costs : l.id = e.id
      <4>1. Saved(e).cell = c /\ Saved(e) \in costs'
        BY <2>1, <2>2, <3>3 DEF Saved
      <4> QED
        BY <4>1
    <3> QED
      BY <3>1, <3>2, <3>3
  <2>3. CASE pending \subseteq pending' /\ costs \subseteq costs'
    BY <2>1, <2>3
  <2> QED
    BY <1>1, <2>2, <2>3, BillsMove
<1>3. CASE cell'[c] # cell[c]
  <2>1. PICK x \in Passes : WriteItem(x, c)
    BY <1>3, CellsCome
  <2>2. Emitted(x, c) \in pending' /\ Emitted(x, c).cell = c
    BY <2>1 DEF WriteItem, Emitted
  <2> QED
    BY <2>2
<1> QED
  BY <1>2, <1>3

------------------------------------------------------------------------------
(* Input files.                                                             *)

\* A file is created with its batch: that of a decided one does not come back.
LEMMA InputsStay ==
  ASSUME HInv, FileType, [PNext]_pvars, NEW b \in Batches, Decided(b), inputOf[b] # "kept"
  PROVE  inputOf'[b] # "kept"
<1>1. ASSUME NEW r \in Runs, CreateBatch(r)
      PROVE  inputOf'[b] # "kept"
  BY <1>1 DEF CreateBatch, SubmitBatch, Decided, HInv, Typed, ProvType
<1>2. ASSUME NEW x \in Passes, ReadItems(x)
      PROVE  inputOf'[b] # "kept"
  BY <1>2 DEF ReadItems, FileType
<1>3. ASSUME ~\E r \in Runs : CreateBatch(r), ~\E x \in Passes : ReadItems(x)
      PROVE  inputOf' = inputOf
  BY <1>3 DEF PNext, ApiCrashes, RunStarts, ProviderRunStep, OtherRunStep, UploadInput,
         CreateThrows, RunFails, Completes, Fails, EmulatedMoves, PassStarts, ProviderPassStep,
         OtherPassStep, WriteItem, PassFails, WorkerCrashes, SaveCost, LoseCost, pvars, fileVars
<1> QED
  BY <1>1, <1>2, <1>3

\* Results are read of a terminal batch only, and its file is deleted then.
LEMMA ReadsAreCollected ==
  ASSUME HInv, FileType, swallowed' = 0, ReadIsCollected, [PNext]_pvars
  PROVE  ReadIsCollected'
<1> SUFFICES ASSUME NEW x \in Passes, recPc'[x] = "cells"
             PROVE  inputOf'[recBatch'[x]] # "kept"
  BY DEF ReadIsCollected
<1>1. recPc[x] \in {"results", "cells"}
  BY PassAtCells DEF ReadItems, ReadResults
<1>2. recBatch[x] \in Batches /\ Decided(recBatch[x])
  BY <1>1 DEF HInv, Harvest, HarvestIsReported, Reported
<1>3. CASE ReadItems(x)
  <2>1. recBatch'[x] = recBatch[x] /\ ~Swallow
    BY <1>3 DEF ReadItems, ReadResults, Swallow, FileType
  <2>2. Terminal(provStatus[recBatch[x]])
    BY <1>2 DEF Terminal, Decided, HInv, Typed, ProvType, Failed
  <2> QED
    BY <1>2, <1>3, <2>1, <2>2 DEF ReadItems, FileType
<1>4. CASE ~ReadItems(x)
  BY <1>2, <1>4, PassAtCells, InputsStay DEF ReadIsCollected
<1> QED
  BY <1>3, <1>4

LEMMA ReconciledWas ==
  ASSUME HInv, [Next]_vars, NEW b \in Batches, doc'[b] = "reconciled"
  PROVE  doc[b] = "reconciled" \/ \E x \in Passes : recPc[x] = "cells" /\ recBatch[x] = b
<1>1. ASSUME NEW x \in Passes, FinishBatch(x) \/ MarkBatch(x), doc[b] # "reconciled"
      PROVE  recPc[x] = "cells" /\ recBatch[x] = b
  BY <1>1 DEF FinishBatch, ItemsDone, MarkBatch, Failed, HInv, Typed, SeenType, StoreType
<1>2. ASSUME NEW r \in Runs, SaveBatch(r)
      PROVE  doc[b] = "reconciled"
  BY <1>2 DEF SaveBatch, HInv, Typed, StoreType
<1>3. ASSUME ~\E x \in Passes : FinishBatch(x) \/ MarkBatch(x), ~\E r \in Runs : SaveBatch(r)
      PROVE  doc' = doc
  BY <1>3 DEF Next, CrashApi, StartRun, RunStep, ReadQueued, ReadExisting, DayRead, SkipDay,
              DropScorecard, SubmitBatch, SaveThrows, RunAborts, ProviderMoves, ProviderEnds, ProviderFails, ProviderReneges,
         ProviderRecovers, ProviderReplaces, ProviderForgets, StartPass, PassStep, PollBatch, ReadResults,
              WriteCell, EndLoop, ReadCells, SaveBoard, BatchThrows, BoardThrows,
              CrashWorker, WriteCellThrows, vars, storeVars
<1> QED
  BY <1>1, <1>2, <1>3

LEMMA InputsAreKept ==
  ASSUME HInv, FileType, RowIsAnswer, InputInv, [PNext]_pvars
  PROVE  InputInv'
<1> SUFFICES ASSUME swallowed' = 0
             PROVE  ReadIsCollected' /\ InputsAreCollected'
  BY DEF InputInv
<1>1. swallowed = 0 /\ ~Swallow
  BY FaultsStay DEF FileType, Swallow
<1>2. ReadIsCollected'
  BY <1>1, ReadsAreCollected DEF InputInv
<1>3. ASSUME leaked'
      PROVE  faults' > 0
  <2>1. CASE ApiCrashes
    BY <2>1, FaultsStay DEF ApiCrashes, CrashApi, Fault, HInv, Typed, FaultType
  <2>2. CASE ~ApiCrashes
    <3>1. leaked' = leaked
      BY <1>1, <2>2 DEF PNext, RunStarts, ProviderRunStep, OtherRunStep, UploadInput, CreateBatch,
             CreateThrows, RunFails, Completes, Fails, EmulatedMoves, PassStarts, ProviderPassStep,
             OtherPassStep, ReadItems, WriteItem, PassFails, WorkerCrashes, SaveCost, LoseCost, pvars,
             fileVars
    <3> QED
      BY <1>1, <1>3, <3>1, FaultsStay DEF InputInv, InputsAreCollected
  <2> QED
    BY <2>1, <2>2
<1>4. ASSUME NEW b \in Batches, doc'[b] = "reconciled"
      PROVE  inputOf'[b] # "kept"
  <2>1. CASE doc[b] = "reconciled"
    BY <1>1, <2>1, InputsStay DEF InputInv, InputsAreCollected, HInv, Harvest, ReconciledIsReported, Reported
  <2>2. ASSUME NEW x \in Passes, recPc[x] = "cells", recBatch[x] = b
        PROVE  inputOf'[b] # "kept"
    BY <1>1, <2>2, InputsStay DEF InputInv, ReadIsCollected, HInv, Harvest, HarvestIsReported, Reported
  <2> QED
    BY <1>4, <2>1, <2>2, ReconciledWas, ProviderStep
<1> QED
  BY <1>2, <1>3, <1>4 DEF InputsAreCollected

------------------------------------------------------------------------------
(* The theorems about the providers.                                        *)

LEMMA ProvInvHolds == PSpec => []ProvInv
<1>1. ASSUME ProvInv, [PNext]_pvars
      PROVE  ProvInv'
  <2> USE DEF ProvInv
  <2>1. HInv' /\ FileType' /\ RowIsAnswer'
    BY <1>1, ProviderStep, NextHarvest, RowsStay DEF RowInv
  <2>2. RowInv'
    BY <1>1, <2>1, ResultsAreMade, ItemsAreMade, CellsAreMade DEF RowInv
  <2>3. BillInv'
    BY <1>1, BillsAreMade, OneBillStays, CellsStayBilled DEF BillInv, RowInv
  <2>4. InputInv'
    BY <1>1, InputsAreKept DEF RowInv
  <2>5. TokenInv'
    BY <1>1, TokensStay DEF RowInv, BillInv
  <2> QED
    BY <2>1, <2>2, <2>3, <2>4, <2>5
<1> QED
  BY <1>1, InitProvInv, PTL DEF PSpec

\* A cell, which is there for good, rests on a row that is no failure, whatever rows the
\* providers may answer with, and is a no-trade exactly if the model declined in it
\* (toItemResult, runOne, getBatchResults, buildCell).
THEOREM CellsRestOnAnswers == PSpec => []CellsAreAnswered
<1>1. ASSUME ProvInv
      PROVE  CellsAreAnswered
  <2> SUFFICES ASSUME NEW c \in Persisted
               PROVE  \E b \in Batches : \E r \in rows[b][c] :
                        ~Broken(r) /\ (cell[c] = "NO_SETUP" <=> Declined(r))
    BY DEF CellsAreAnswered
  <2>1. PICK b \in Batches, item \in ResultTypes : MadeOf(b, c, item) /\ cell[c] = Verdict(item)
    BY <1>1 DEF ProvInv, RowInv, CellIsMade
  <2>2. PICK r \in rows[b][c] : Item(r) = item
    BY <2>1 DEF MadeOf
  <2>3. dialect \in {"emulated", "moonshot", "anthropic"}
    BY <1>1 DEF ProvInv, FileType
  <2>4. item \in ResultTypes => ~Broken(r) /\ (item = "refusal" <=> Declined(r))
    <3>1. CASE dialect = "emulated"
      BY <2>2, <3>1 DEF Item, Calls!ItemResult, Calls!Refuses, Calls!IsError, Calls!Truncated,
                        ResultTypes, Broken, Declined
    <3>2. CASE dialect = "moonshot"
      BY <2>2, <3>2 DEF Item, MoonshotItem, Refused, Answered, Whole, ResultTypes, Broken, Declined
    <3>3. CASE dialect = "anthropic"
      BY <2>2, <3>3 DEF Item, AnthropicItem, ResultTypes, Broken, Declined
    <3> QED
      BY <2>3, <3>1, <3>2, <3>3
  <2> QED
    BY <2>1, <2>2, <2>4 DEF ResultTypes, Verdict
<1> QED
  BY <1>1, ProvInvHolds, PTL

\* An item is billed once however often it is reconciled, and unless something is lost
\* every cell is, with the usage that its row reported or with zeros if it did not report
\* any (CostService.onUsage, CostRepository.save, reconcileBatch, runOne).
THEOREM BilledOnce == PSpec => []CostedOnce
<1>1. ASSUME ProvInv
      PROVE  CostedOnce
  <2>1. ASSUME NEW k \in costs, NEW l \in costs, k.batch = l.batch, k.cell = l.cell
        PROVE  k = l
    BY <1>1, <2>1 DEF ProvInv, BillInv, AllBills, BillOf, OneBill
  <2>2. ASSUME faults = 0, swallowed = 0, pending = {}, NEW c \in Persisted
        PROVE  \E k \in costs :
                 k.cell = c /\ (k.tokens = "reported" <=> \E r \in rows[k.batch][c] : r.usage)
    <3>1. PICK k \in costs : k.cell = c
      BY <1>1, <2>2 DEF ProvInv, BillInv, CellIsBilled
    <3>2. /\ k.tokens = Tokens(rows[k.batch][c])
          /\ \E item \in ResultTypes : MadeOf(k.batch, c, item)
          /\ k.batch \in Batches
      BY <1>1, <2>2, <3>1 DEF ProvInv, TokenInv, BilledTokens, BillInv, AllBills, BillOf
    <3>3. \A r, q \in rows[k.batch][c] : r = q
      BY <1>1, <2>2, <3>2 DEF ProvInv, TokenInv, RowIsOne, Persisted
    <3>4. PICK r \in rows[k.batch][c] : Item(r) \in ResultTypes
      BY <3>2 DEF MadeOf
    <3>5. k.tokens = "reported" <=> r.usage
      BY <3>2, <3>3, <3>4 DEF Tokens, Billable
    <3> QED
      BY <3>1, <3>3, <3>4, <3>5
  <2> QED
    BY <2>1, <2>2 DEF CostedOnce
<1> QED
  BY <1>1, ProvInvHolds, PTL

\* The input file of a reconciled batch is gone, and one without a batch was left behind
\* by a crash, unless a deletion failed (submitNativeBatch, nativeResults).
THEOREM InputsStayCollected == PSpec => []InputsAreCollected
<1>1. ProvInv => InputsAreCollected
  BY DEF ProvInv, InputInv, InputsAreCollected
<1> QED
  BY <1>1, ProvInvHolds, PTL
==============================================================================
