-------------------------- MODULE BenchmarkPipeline --------------------------
(***************************************************************************)
(* From a benchmark request to persisted cells and the scoreboard:         *)
(* BenchmarkService.run (benchmark.service.ts, run-lock.ts), the Firestore *)
(* collections benchmarkRuns, benchmarkBatches and benchmarkScoreboard     *)
(* (benchmark.repository.ts), and BatchReconciler (batch-reconciler.ts).   *)
(*                                                                         *)
(* One model alias is modelled: cells, queries, batches and scoreboard are *)
(* all keyed by it.  A cell is one (trader, variant, day, runIndex) slot,  *)
(* a series the slots that differ only in runIndex.  Every awaited store   *)
(* or provider call is an action.  The LLM provider is the environment; it *)
(* moves as BatchService lets an implementation move, with the 'canceled'  *)
(* and 'expired' of a native batch API: an emulated batch may also have a  *)
(* result replaced after it ended, leave 'ended', and come back to it.     *)
(*                                                                         *)
(* The runs live in the API process (the lock is in its memory); the       *)
(* reconciler passes live in the workers WorkerOf says.  MaxFaults bounds  *)
(* crashes, rejected calls, swallowed cell writes and changes of mind of   *)
(* the provider.                                                           *)
(***************************************************************************)
EXTENDS Naturals

CONSTANTS
  Cells,          \* the cell keys of the matrix
  Series, SeriesOf, DayOf,   \* trader|variant|day of a cell, day of a series
  Scorecard,      \* the series of the scorecard variant, which need KEYS
  LastDay,        \* days are 1 .. LastDay, oldest first
  Requests,       \* the sets of cells a caller may ask for
  Runs,           \* slots for concurrent POST /benchmark/run calls
  Passes, WorkerOf,          \* slots for reconcile() calls, their process
  Batches,        \* batch ids the provider may hand out
  FailsWith,      \* the failures the provider has: an emulated one 'errored', a native one all
  GcWaits,        \* TRUE: results are kept until the batch is reconciled
  MaxFaults,
  NoRun, NoBatch

ASSUME ShapeAssumption ==
  /\ SeriesOf \in [Cells -> Series]
  /\ DayOf \in [Series -> 1 .. LastDay] /\ LastDay \in Nat \ {0}
  /\ Scorecard \subseteq Series /\ Requests \subseteq SUBSET Cells
ASSUME BoundAssumption ==
  MaxFaults \in Nat /\ GcWaits \in BOOLEAN
ASSUME NoneAssumption == NoRun \notin Runs /\ NoBatch \notin Batches

VARIABLES
  cell,         \* benchmarkRuns: the verdict persisted for each cell
  doc,          \* benchmarkBatches: status field, "none" when there is no doc
  scoreboard,   \* benchmarkScoreboard: the cells it was computed from
  batchCells,   \* the customIds a batch was submitted with (= customIdToCell)
  provStatus,   \* what the provider's getBatch reports
  provResult,   \* what its getBatchResults reports per customId
  late,         \* history: the items that became results after they had been read
  holder,       \* BenchmarkRunLock
  runPc, runWanted, runDay, runQueued, runUnread, runMissing, runBatch,
  recPc, recTodo, recBatch, recSeen, recItems, recDirty, recBoard,
  faults, writeFaults

storeVars == <<cell, doc, scoreboard>>
provVars  == <<batchCells, provStatus, provResult, late>>
runVars   == <<holder, runPc, runWanted, runDay, runQueued, runUnread, runMissing, runBatch>>
recVars   == <<recPc, recTodo, recBatch, recSeen, recItems, recDirty, recBoard>>
faultVars == <<faults, writeFaults>>
vars == <<storeVars, provVars, runVars, recVars, faultVars>>

NonTerminal == {"submitted", "in_progress", "ended"}
Failed      == {"errored", "canceled", "expired"}
ResultTypes == {"succeeded", "refusal"}       \* the items that become cells
ItemTypes   == ResultTypes \cup {"errored"}   \* "errored" is any other item, or a lost row
Verdicts    == {"NO_SETUP", "JUDGED"}         \* "JUDGED": graded, INVALID or CLI_ERROR

RunPc == {"idle", "queued", "existing", "prepare", "save"}
RecPc == {"idle", "loop", "mark", "results", "cells", "board", "saveBoard"}

TypeOK ==
  /\ cell \in [Cells -> {"none"} \cup Verdicts]
  /\ doc \in [Batches -> {"none", "reconciled"} \cup NonTerminal \cup Failed]
  /\ scoreboard \subseteq Cells
  /\ batchCells \in [Batches -> SUBSET Cells]
  /\ provStatus \in [Batches -> {"none", "in_progress", "ended", "gone"} \cup Failed]
  /\ provResult \in [Batches -> [Cells -> {"none"} \cup ItemTypes]]
  /\ late \subseteq Batches \X Cells
  /\ holder \in Runs \cup {NoRun}
  /\ runPc \in [Runs -> RunPc]
  /\ runWanted \in [Runs -> SUBSET Cells]
  /\ runDay \in [Runs -> 1 .. LastDay]
  /\ runQueued \in [Runs -> SUBSET Cells]
  /\ runUnread \in [Runs -> SUBSET Series]
  /\ runMissing \in [Runs -> SUBSET Cells]
  /\ runBatch \in [Runs -> Batches \cup {NoBatch}]
  /\ recPc \in [Passes -> RecPc]
  /\ recTodo \in [Passes -> SUBSET Batches]
  /\ recBatch \in [Passes -> Batches \cup {NoBatch}]
  /\ recSeen \in [Passes -> {"none", "in_progress", "ended", "gone"} \cup Failed]
  /\ recItems \in [Passes -> [Cells -> {"none"} \cup ResultTypes]]
  /\ recDirty \in [Passes -> BOOLEAN]
  /\ recBoard \in [Passes -> SUBSET Cells]
  /\ faults \in Nat /\ writeFaults \in Nat /\ faults + writeFaults <= MaxFaults

Init ==
  /\ cell = [c \in Cells |-> "none"]
  /\ doc = [b \in Batches |-> "none"]
  /\ scoreboard = {}
  /\ batchCells = [b \in Batches |-> {}]
  /\ provStatus = [b \in Batches |-> "none"]
  /\ provResult = [b \in Batches |-> [c \in Cells |-> "none"]]
  /\ late = {}
  /\ holder = NoRun
  /\ runPc = [r \in Runs |-> "idle"]
  /\ runWanted = [r \in Runs |-> {}]
  /\ runDay = [r \in Runs |-> 1]
  /\ runQueued = [r \in Runs |-> {}]
  /\ runUnread = [r \in Runs |-> {}]
  /\ runMissing = [r \in Runs |-> {}]
  /\ runBatch = [r \in Runs |-> NoBatch]
  /\ recPc = [x \in Passes |-> "idle"]
  /\ recTodo = [x \in Passes |-> {}]
  /\ recBatch = [x \in Passes |-> NoBatch]
  /\ recSeen = [x \in Passes |-> "none"]
  /\ recItems = [x \in Passes |-> [c \in Cells |-> "none"]]
  /\ recDirty = [x \in Passes |-> FALSE]
  /\ recBoard = [x \in Passes |-> {}]
  /\ faults = 0 /\ writeFaults = 0

Fault == faults + writeFaults < MaxFaults /\ faults' = faults + 1 /\ UNCHANGED writeFaults

------------------------------------------------------------------------------
(* BenchmarkService.run.                                                    *)

Persisted == {c \in Cells : cell[c] # "none"}
InFlight  == UNION {batchCells[b] : b \in {b \in Batches : doc[b] \in NonTerminal}}

\* Mutated: acquire() does not look at the holder.
LockFreeAlways == TRUE
\* acquire(): anybody's lock is a 409, which leaves everything as it was.
LockFree == holder = NoRun

StartRun(r) ==
  /\ runPc[r] = "idle" /\ LockFree
  /\ holder' = r
  /\ runPc' = [runPc EXCEPT ![r] = "queued"]
  /\ \E wanted \in Requests : runWanted' = [runWanted EXCEPT ![r] = wanted]
  /\ UNCHANGED <<runDay, runQueued, runUnread, runMissing, runBatch,
                 storeVars, provVars, recVars, faultVars>>

\* The finally of run() releases the lock wherever the run stopped.
Released(r) == IF holder = r THEN NoRun ELSE holder

EndRun(r) ==
  /\ holder' = Released(r)
  /\ runPc' = [runPc EXCEPT ![r] = "idle"]
  /\ runWanted' = [runWanted EXCEPT ![r] = {}]
  /\ runDay' = [runDay EXCEPT ![r] = 1]
  /\ runQueued' = [runQueued EXCEPT ![r] = {}]
  /\ runUnread' = [runUnread EXCEPT ![r] = {}]
  /\ runMissing' = [runMissing EXCEPT ![r] = {}]
  /\ runBatch' = [runBatch EXCEPT ![r] = NoBatch]

\* The series of a day the run asks for.
Asked(r, day) == {s \in Series : DayOf[s] = day /\ \E c \in runWanted[r] : SeriesOf[c] = s}

\* The snapshot and the drift check passed: the cells of the batches that still
\* need the reconciler are read once, before any day is looked at.
ReadQueued(r) ==
  /\ runPc[r] = "queued"
  /\ runPc' = [runPc EXCEPT ![r] = "existing"]
  /\ runQueued' = [runQueued EXCEPT ![r] = InFlight]
  /\ runUnread' = [runUnread EXCEPT ![r] = Asked(r, 1)]
  /\ UNCHANGED <<holder, runWanted, runDay, runMissing, runBatch,
                 storeVars, provVars, recVars, faultVars>>

\* Run indices neither persisted now nor queued when the run began.
MissingOf(r, s) ==
  {c \in runWanted[r] : SeriesOf[c] = s /\ c \notin Persisted /\ c \notin runQueued[r]}

ReadExisting(r, s) ==
  /\ runPc[r] = "existing" /\ s \in runUnread[r]
  /\ runUnread' = [runUnread EXCEPT ![r] = @ \ {s}]
  /\ runMissing' = [runMissing EXCEPT ![r] = @ \cup MissingOf(r, s)]
  /\ UNCHANGED <<holder, runPc, runWanted, runDay, runQueued, runBatch,
                 storeVars, provVars, recVars, faultVars>>

\* On to the next day, or out of the loop and of the lock.
NextDay(r) ==
  IF runDay[r] = LastDay THEN EndRun(r)
  ELSE /\ runPc' = [runPc EXCEPT ![r] = "existing"]
       /\ runDay' = [runDay EXCEPT ![r] = @ + 1]
       /\ runUnread' = [runUnread EXCEPT ![r] = Asked(r, runDay[r] + 1)]
       /\ runMissing' = [runMissing EXCEPT ![r] = {}]
       /\ runBatch' = [runBatch EXCEPT ![r] = NoBatch]
       /\ UNCHANGED <<holder, runWanted, runQueued>>

\* Every series of the day was read: nothing missing means no work for the day.
DayRead(r) ==
  /\ runPc[r] = "existing" /\ runUnread[r] = {}
  /\ IF runMissing[r] = {} THEN NextDay(r)
     ELSE /\ runPc' = [runPc EXCEPT ![r] = "prepare"]
          /\ UNCHANGED <<holder, runWanted, runDay, runQueued, runUnread, runMissing, runBatch>>
  /\ UNCHANGED <<storeVars, provVars, recVars, faultVars>>

\* No candles, an incomplete session, a failing load, upload or submission: the
\* day is reported in daysSkipped and the run goes on.
SkipDay(r) ==
  /\ runPc[r] = "prepare"
  /\ NextDay(r)
  /\ UNCHANGED <<storeVars, provVars, recVars, faultVars>>

\* KEYS could not be had: only the scorecard cells of the day are dropped.
DropScorecard(r) ==
  LET kept == {c \in runMissing[r] : SeriesOf[c] \notin Scorecard} IN
  /\ runPc[r] = "prepare" /\ kept # runMissing[r]
  /\ IF kept = {} THEN NextDay(r)
     ELSE /\ runMissing' = [runMissing EXCEPT ![r] = kept]
          /\ UNCHANGED <<holder, runPc, runWanted, runDay, runQueued, runUnread, runBatch>>
  /\ UNCHANGED <<storeVars, provVars, recVars, faultVars>>

\* The provider gives a batch an id of its own; no operator tells ids apart.
FreshId == CHOOSE b \in Batches : provStatus[b] = "none"

\* submitBatch: from here the provider bills the cells.
SubmitBatch(r) ==
  /\ runPc[r] = "prepare"
  /\ \E b \in Batches :
       /\ provStatus[b] = "none" /\ b = FreshId
       /\ provStatus' = [provStatus EXCEPT ![b] = "in_progress"]
       /\ batchCells' = [batchCells EXCEPT ![b] = runMissing[r]]
       /\ runBatch' = [runBatch EXCEPT ![r] = b]
  /\ runPc' = [runPc EXCEPT ![r] = "save"]
  /\ UNCHANGED <<provResult, late, holder, runWanted, runDay, runQueued, runUnread, runMissing,
                 storeVars, recVars, faultVars>>

\* saveBatch: from here the reconciler knows the batch.
SaveBatch(r) ==
  /\ runPc[r] = "save"
  /\ doc' = [doc EXCEPT ![runBatch[r]] = "submitted"]
  /\ NextDay(r)
  /\ UNCHANGED <<cell, scoreboard, provVars, recVars, faultVars>>

\* saveBatch rejects: the batch is orphaned at the provider, the day skipped.
SaveThrows(r) ==
  /\ runPc[r] = "save" /\ Fault
  /\ NextDay(r)
  /\ UNCHANGED <<storeVars, provVars, recVars>>

\* A rejection outside the per-day try, drift, an empty registry: the run ends.
RunAborts(r) ==
  /\ runPc[r] \in {"queued", "existing"}
  /\ EndRun(r)
  /\ UNCHANGED <<storeVars, provVars, recVars, faultVars>>

\* The API process restarts: its lock and its runs are gone.
CrashApi ==
  /\ Fault /\ holder # NoRun
  /\ holder' = NoRun
  /\ runPc' = [r \in Runs |-> "idle"]
  /\ runWanted' = [r \in Runs |-> {}]
  /\ runDay' = [r \in Runs |-> 1]
  /\ runQueued' = [r \in Runs |-> {}]
  /\ runUnread' = [r \in Runs |-> {}]
  /\ runMissing' = [r \in Runs |-> {}]
  /\ runBatch' = [r \in Runs |-> NoBatch]
  /\ UNCHANGED <<storeVars, provVars, recVars>>

------------------------------------------------------------------------------
(* The provider.                                                            *)

ProviderEnds(b) ==
  /\ provStatus[b] = "in_progress"
  /\ provStatus' = [provStatus EXCEPT ![b] = "ended"]
  /\ \E res \in [batchCells[b] -> ItemTypes] :
       provResult' = [provResult EXCEPT ![b] =
                        [c \in Cells |-> IF c \in batchCells[b] THEN res[c] ELSE "none"]]
  /\ UNCHANGED <<batchCells, late, storeVars, runVars, recVars, faultVars>>

ProviderFails(b) ==
  /\ provStatus[b] = "in_progress"
  /\ \E s \in Failed \cap FailsWith : provStatus' = [provStatus EXCEPT ![b] = s]
  /\ UNCHANGED <<batchCells, provResult, late, storeVars, runVars, recVars, faultVars>>

\* An emulated batch that two drainers disagree about (MoonshotBatch): its status
\* is taken back,
ProviderReneges(b) ==
  /\ provStatus[b] = "ended" /\ Fault
  /\ provStatus' = [provStatus EXCEPT ![b] = "errored"]
  /\ UNCHANGED <<batchCells, provResult, late, storeVars, runVars, recVars>>

\* or becomes 'ended' after all, once every item has some result.
ProviderRecovers(b) ==
  /\ provStatus[b] = "errored" /\ Fault
  /\ provStatus' = [provStatus EXCEPT ![b] = "ended"]
  /\ \E res \in [batchCells[b] -> ItemTypes] :
       provResult' = [provResult EXCEPT ![b] = [c \in Cells |->
         IF c \in batchCells[b] /\ provResult[b][c] = "none" THEN res[c] ELSE provResult[b][c]]]
  /\ UNCHANGED <<batchCells, late, storeVars, runVars, recVars>>

\* The reconciler has closed the batch, or is writing what it has read of it.
HasBeenRead(b) ==
  doc[b] = "reconciled" \/ \E x \in Passes : recPc[x] = "cells" /\ recBatch[x] = b

\* A drain that lost its lease writes the result of its own call over the one there
\* is, whatever became of the batch (persistOutcome: an update that compares nothing).
ProviderReplaces(b, c) ==
  /\ provStatus[b] \in {"ended", "errored"} /\ provResult[b][c] # "none" /\ Fault
  /\ \E type \in ItemTypes \ {provResult[b][c]} :
       /\ provResult' = [provResult EXCEPT ![b][c] = type]
       /\ late' = IF HasBeenRead(b) /\ provResult[b][c] = "errored" /\ type # "errored"
                  THEN late \cup {<<b, c>>} ELSE late
  /\ UNCHANGED <<batchCells, provStatus, storeVars, runVars, recVars>>

\* Retention: a terminal batch is collected, results and all.
ProviderForgets(b) ==
  /\ provStatus[b] \in Failed \cup {"ended"}
  /\ GcWaits => doc[b] \notin NonTerminal \cup {"none"}
  /\ provStatus' = [provStatus EXCEPT ![b] = "gone"]
  /\ provResult' = [provResult EXCEPT ![b] = [c \in Cells |-> "none"]]
  /\ UNCHANGED <<batchCells, late, storeVars, runVars, recVars, faultVars>>

------------------------------------------------------------------------------
(* BatchReconciler.reconcile.                                               *)

\* Mutated: the `running` flag is not looked at.
NotRunningIgnored(x) == TRUE
\* `running`: one pass at a time in a process.
NotRunning(x) == \A y \in Passes : WorkerOf[y] = WorkerOf[x] => recPc[y] = "idle"

\* The boot pass and the every-minute cron: list what needs attention.
StartPass(x) ==
  /\ recPc[x] = "idle" /\ NotRunning(x)
  /\ recTodo' = [recTodo EXCEPT ![x] = {b \in Batches : doc[b] \in NonTerminal}]
  /\ recPc' = [recPc EXCEPT ![x] = "loop"]
  /\ UNCHANGED <<recBatch, recSeen, recItems, recDirty, recBoard,
                 storeVars, provVars, runVars, faultVars>>

\* Mutated: an expired batch is waited for.
NextStepWaiting(status) ==
  IF status = "ended" THEN "results"
  ELSE IF status \in {"in_progress", "errored", "canceled"} THEN "mark" ELSE "loop"
\* What reconcileBatch does about a polled status; the getBatch of a collected
\* batch is a 404, logged.
NextStep(status) ==
  IF status = "ended" THEN "results"
  ELSE IF status \in Failed \cup {"in_progress"} THEN "mark" ELSE "loop"

PollBatch(x, b) ==
  /\ recPc[x] = "loop" /\ b \in recTodo[x]
  /\ recTodo' = [recTodo EXCEPT ![x] = @ \ {b}]
  /\ recBatch' = [recBatch EXCEPT ![x] = b]
  /\ recSeen' = [recSeen EXCEPT ![x] = provStatus[b]]
  /\ recPc' = [recPc EXCEPT ![x] = NextStep(provStatus[b])]
  /\ UNCHANGED <<recItems, recDirty, recBoard, storeVars, provVars, runVars, faultVars>>

\* updateBatch with the polled status: an update that compares nothing.
MarkBatch(x) ==
  /\ recPc[x] = "mark"
  /\ doc' = [doc EXCEPT ![recBatch[x]] = recSeen[x]]
  /\ recPc' = [recPc EXCEPT ![x] = "loop"]
  /\ UNCHANGED <<recTodo, recBatch, recSeen, recItems, recDirty, recBoard,
                 cell, scoreboard, provVars, runVars, faultVars>>

\* Mutated: a refusal is skipped like an infrastructure failure.
KeptOnlySucceeded(type) == IF type = "succeeded" THEN type ELSE "none"
\* Items that are no results are skipped, so their run index stays missing.
Kept(type) == IF type \in ResultTypes THEN type ELSE "none"

\* getBatchResults.  A batch collected since the poll has no items left, and the
\* pass goes on with what it got.
ReadResults(x) ==
  /\ recPc[x] = "results"
  /\ recItems' = [recItems EXCEPT ![x] = [c \in Cells |-> Kept(provResult[recBatch[x]][c])]]
  /\ recPc' = [recPc EXCEPT ![x] = "cells"]
  /\ UNCHANGED <<recTodo, recBatch, recSeen, recDirty, recBoard,
                 storeVars, provVars, runVars, faultVars>>

\* buildCell: a refusal is a no-trade; a setup is graded, found invalid, or could
\* not be graded, which no step of this module tells apart.
Verdict(type) == IF type = "refusal" THEN "NO_SETUP" ELSE "JUDGED"

\* createCell: write-once, a second write is swallowed.
WriteCell(x, c) ==
  /\ recPc[x] = "cells" /\ recItems[x][c] # "none"
  /\ cell' = [cell EXCEPT ![c] = IF @ = "none" THEN Verdict(recItems[x][c]) ELSE @]
  /\ recItems' = [recItems EXCEPT ![x][c] = "none"]
  /\ UNCHANGED <<recPc, recTodo, recBatch, recSeen, recDirty, recBoard,
                 doc, scoreboard, provVars, runVars, faultVars>>

\* Building or writing one cell throws: logged, the loop goes on.
WriteCellThrows(x, c) ==
  /\ recPc[x] = "cells" /\ recItems[x][c] # "none"
  /\ faults + writeFaults < MaxFaults /\ writeFaults' = writeFaults + 1
  /\ recItems' = [recItems EXCEPT ![x][c] = "none"]
  /\ UNCHANGED <<recPc, recTodo, recBatch, recSeen, recDirty, recBoard,
                 storeVars, provVars, runVars, faults>>

ItemsDone(x) == recPc[x] = "cells" /\ \A c \in Cells : recItems[x][c] = "none"

\* updateBatch reconciled; the alias is due for a scoreboard.
FinishBatch(x) ==
  /\ ItemsDone(x)
  /\ doc' = [doc EXCEPT ![recBatch[x]] = "reconciled"]
  /\ recDirty' = [recDirty EXCEPT ![x] = TRUE]
  /\ recPc' = [recPc EXCEPT ![x] = "loop"]
  /\ UNCHANGED <<recTodo, recBatch, recSeen, recItems, recBoard,
                 cell, scoreboard, provVars, runVars, faultVars>>

\* A poll, a results read or an update rejects: logged, the next batch's turn.
BatchThrows(x) ==
  /\ \/ recPc[x] \in {"mark", "results"} \/ ItemsDone(x)
     \/ recPc[x] = "loop" /\ recTodo[x] # {}
  /\ Fault
  /\ \E b \in recTodo[x] \cup {NoBatch} :
       /\ recPc[x] = "loop" <=> b # NoBatch
       /\ recTodo' = [recTodo EXCEPT ![x] = @ \ {b}]
  /\ recPc' = [recPc EXCEPT ![x] = "loop"]
  /\ UNCHANGED <<recBatch, recSeen, recItems, recDirty, recBoard, storeVars, provVars, runVars>>

ResetPass(x) ==
  /\ recBatch' = [recBatch EXCEPT ![x] = NoBatch]
  /\ recSeen' = [recSeen EXCEPT ![x] = "none"]
  /\ recDirty' = [recDirty EXCEPT ![x] = FALSE]
  /\ recBoard' = [recBoard EXCEPT ![x] = {}]
  /\ recPc' = [recPc EXCEPT ![x] = "idle"]
  /\ UNCHANGED <<recTodo, recItems>>

\* Mutated: the alias of the last batch of the loop is the one regenerated.
BoardDueLast(x) == recDirty[x] /\ recSeen[x] = "ended"
BoardDue(x) == recDirty[x]

EndLoop(x) ==
  /\ recPc[x] = "loop" /\ recTodo[x] = {}
  /\ IF BoardDue(x)
     THEN /\ recPc' = [recPc EXCEPT ![x] = "board"]
          /\ UNCHANGED <<recTodo, recBatch, recSeen, recItems, recDirty, recBoard>>
     ELSE ResetPass(x)
  /\ UNCHANGED <<storeVars, provVars, runVars, faultVars>>

\* ScoreboardService.generate: list the cells, then overwrite the document.
ReadCells(x) ==
  /\ recPc[x] = "board"
  /\ recBoard' = [recBoard EXCEPT ![x] = Persisted]
  /\ recPc' = [recPc EXCEPT ![x] = "saveBoard"]
  /\ UNCHANGED <<recTodo, recBatch, recSeen, recItems, recDirty,
                 storeVars, provVars, runVars, faultVars>>

SaveBoard(x) ==
  /\ recPc[x] = "saveBoard"
  /\ scoreboard' = recBoard[x]
  /\ ResetPass(x)
  /\ UNCHANGED <<cell, doc, provVars, runVars, faultVars>>

BoardThrows(x) ==
  /\ recPc[x] \in {"board", "saveBoard"} /\ Fault
  /\ ResetPass(x)
  /\ UNCHANGED <<storeVars, provVars, runVars>>

\* The process of a pass restarts.
CrashWorker(x) ==
  /\ recPc[x] # "idle" /\ Fault
  /\ LET dead == {y \in Passes : WorkerOf[y] = WorkerOf[x]} IN
     /\ recPc' = [y \in Passes |-> IF y \in dead THEN "idle" ELSE recPc[y]]
     /\ recTodo' = [y \in Passes |-> IF y \in dead THEN {} ELSE recTodo[y]]
     /\ recBatch' = [y \in Passes |-> IF y \in dead THEN NoBatch ELSE recBatch[y]]
     /\ recSeen' = [y \in Passes |-> IF y \in dead THEN "none" ELSE recSeen[y]]
     /\ recItems' = [y \in Passes |->
                       IF y \in dead THEN [c \in Cells |-> "none"] ELSE recItems[y]]
     /\ recDirty' = [y \in Passes |-> IF y \in dead THEN FALSE ELSE recDirty[y]]
     /\ recBoard' = [y \in Passes |-> IF y \in dead THEN {} ELSE recBoard[y]]
  /\ UNCHANGED <<storeVars, provVars, runVars>>

------------------------------------------------------------------------------

RunStep(r) ==
  \/ ReadQueued(r) \/ DayRead(r) \/ SkipDay(r) \/ SubmitBatch(r) \/ SaveBatch(r)
  \/ \E s \in Series : ReadExisting(r, s)

PassStep(x) ==
  \/ MarkBatch(x) \/ ReadResults(x) \/ FinishBatch(x) \/ EndLoop(x)
  \/ ReadCells(x) \/ SaveBoard(x)
  \/ \E b \in Batches : PollBatch(x, b)
  \/ \E c \in Cells : WriteCell(x, c)

ProviderMoves(b) ==
  \/ ProviderEnds(b) \/ ProviderFails(b) \/ ProviderReneges(b) \/ ProviderRecovers(b)
  \/ ProviderForgets(b) \/ \E c \in Cells : ProviderReplaces(b, c)

Next ==
  \/ CrashApi
  \/ \E r \in Runs :
       StartRun(r) \/ RunStep(r) \/ DropScorecard(r) \/ SaveThrows(r) \/ RunAborts(r)
  \/ \E b \in Batches : ProviderMoves(b)
  \/ \E x \in Passes :
       \/ StartPass(x) \/ PassStep(x) \/ BatchThrows(x) \/ BoardThrows(x) \/ CrashWorker(x)
       \/ \E c \in Cells : WriteCellThrows(x, c)

Spec == Init /\ [][Next]_vars

------------------------------------------------------------------------------
(* Properties.                                                              *)

\* A batch is only submitted for cells that are missing at that moment: none is
\* persisted, none is in a batch that still needs the reconciler.  The run read
\* both lists earlier and the reconciler worked on in between (FIX 4 of runInner:
\* queued cells are read before existing ones; reconcileBatch writes cells before
\* it closes the batch; the run lock).
SubmitsOnlyMissing ==
  [][ \A b \in Batches :
        provStatus[b] = "none" /\ provStatus'[b] # "none"
        => batchCells'[b] \cap (Persisted \cup InFlight) = {} ]_vars

\* A reconciled batch left nothing behind: every item the provider reports as a
\* result has its cell, whatever crash or rejected call interrupted earlier
\* passes over it (reconcileBatch; createCell and updateBatch are separate), unless
\* the write of a cell itself was swallowed.  A failed item that a drain without its
\* lease turns into a result after it was read is left behind, for nothing reads a
\* reconciled batch again; of the batch no other item is.
ReconciledIsComplete ==
  writeFaults = 0 => \A b \in Batches : doc[b] = "reconciled" =>
    \A c \in Cells : provResult[b][c] \in ResultTypes /\ <<b, c>> \notin late => cell[c] # "none"

\* A batch the reconciler has closed stays closed with the status it was closed
\* with: no slow pass writes an older poll over it (the `running` flag).
ClosedStaysClosed ==
  [][ \A b \in Batches : doc[b] \in Failed \cup {"reconciled"} => doc'[b] = doc[b] ]_vars

\* Between passes the scoreboard shows every persisted cell: what one pass wrote
\* before its regeneration, and no older snapshot saved over a newer one.  (A
\* regeneration that is rejected or cut short is not repeated until the next
\* cell.)
ScoreboardCurrent ==
  faults = 0 /\ (\A x \in Passes : recPc[x] = "idle") => scoreboard = Persisted

\* Every batch document is closed in the end, by results or by a failure.
BatchesClose ==
  \A b \in Batches : doc[b] \in NonTerminal ~> doc[b] \notin NonTerminal

\* What listTerminalBatchesOlderThan says of its cutoff: a lagging reconciler
\* never has results collected before it reads them.  What is collected of a batch
\* the reconciler knows has its cells.
EndedIsHarvested ==
  [][ \A b \in Batches : provStatus[b] = "ended" /\ provStatus'[b] = "gone" /\ doc[b] # "none" =>
        \A c \in Cells : provResult[b][c] \in ResultTypes /\ <<b, c>> \notin late => cell[c] # "none" ]_vars
=============================================================================
