--------------------------- MODULE ProviderBatches ---------------------------
(***************************************************************************)
(* BenchmarkPipeline over the providers that serve it: the emulated        *)
(* batches, Moonshot's native Batch API (moonshot.service.ts) and          *)
(* Anthropic's (anthropic.service.ts), with the usage every result is      *)
(* billed for (batch-reconciler.ts, cost.service.ts, cost.repository.ts).  *)
(*                                                                         *)
(* A provider answers a request with a row: the emulation with the reply   *)
(* to a chat call (MoonshotChat), Moonshot's Batch API with a line of an   *)
(* output or an error file, which may be garbled or missing, Anthropic     *)
(* with an entry of a stream.  What the adapters make of a row is the item *)
(* the reconciler sees.  A native Moonshot batch has an uploaded input     *)
(* file, one of an account's limited number.  Retention of native results  *)
(* is assumed to outlast the reconciler.  MaxSwallowed bounds the file     *)
(* deletions and cost captures that fail and are only logged.              *)
(***************************************************************************)
EXTENDS BenchmarkPipeline, FiniteSets

CONSTANTS
  Dialects,                       \* the providers a deployment may be configured with
  EmulatedRows, MoonshotRows, AnthropicRows,   \* the rows a request may get
  MaxSwallowed

ASSUME DialectAssumption ==
  /\ Dialects \subseteq {"emulated", "moonshot", "anthropic"}
  /\ MaxSwallowed \in Nat

VARIABLES
  dialect,      \* the configured provider
  uploaded,     \* runs whose input file is uploaded and in no batch yet
  inputOf,      \* the input file of a native Moonshot batch
  leaked,       \* an input file that no batch refers to was left behind
  rows,         \* the rows each request of a batch was answered with: one, and those
                \* of drains that came late to an emulated batch
  recTokens,    \* the usage that comes with each of a pass's recItems
  pending,      \* usage events being priced and saved, with their process
  costs,        \* the collection costRecords
  swallowed

fileVars == <<uploaded, inputOf, leaked>>
costVars == <<pending, costs>>
pvars == <<vars, dialect, fileVars, rows, recTokens, costVars, swallowed>>

PInit ==
  /\ Init
  /\ dialect \in Dialects
  /\ uploaded = {} /\ leaked = FALSE
  /\ inputOf = [b \in Batches |-> "none"]
  /\ rows = [b \in Batches |-> [c \in Cells |-> {}]]
  /\ recTokens = [x \in Passes |-> [c \in Cells |-> "none"]]
  /\ pending = {} /\ costs = {} /\ swallowed = 0

Swallow == swallowed < MaxSwallowed /\ swallowed' = swallowed + 1

------------------------------------------------------------------------------
(* Statuses and rows.                                                       *)

\* What the batch APIs call a batch that has left 'in_progress'.
RawStatuses ==
  CASE dialect = "emulated"  -> {"ended", "errored"}
    [] dialect = "moonshot"  -> {"completed", "failed", "expired", "cancelling", "cancelled"}
    [] dialect = "anthropic" -> {"ended", "canceled", "expired", "errored"}

\* Both toLifecycle: a batch being cancelled counts as cancelled at Moonshot.
Lifecycle(raw) ==
  CASE raw = "completed" -> "ended"
    [] raw = "failed" -> "errored"
    [] raw \in {"cancelling", "cancelled"} -> "canceled"
    [] raw \in {"validating", "finalizing"} -> "in_progress"
    [] raw \in Failed \cup {"ended", "in_progress"} -> raw
    [] OTHER -> "submitted"

Whole(r) == r.status = 200 /\ r.body

\* Mutated: a row's status is looked at before its in-band error.
AnsweredStatusFirst(r) == Whole(r) /\ r.finish \notin {"content_filter", "length"}

\* An in-band error is checked before the status; a refusal comes as either.
Refused(r)  ==
  r.error = "content_filter" \/ (r.error = "none" /\ Whole(r) /\ r.finish = "content_filter")
Answered(r) == r.error = "none" /\ Whole(r) /\ r.finish \notin {"content_filter", "length"}

\* A line of the output file goes through toItemResult; a line of the error file is
\* an error whatever it says; a line that does not parse is no item.
MoonshotItem(r) ==
  IF r.file = "output" /\ Refused(r) THEN "refusal"
  ELSE IF r.file = "output" /\ Answered(r) THEN "succeeded" ELSE "errored"

\* A message cut short is a success like any other.
AnthropicItem(r) ==
  IF r.type # "succeeded" THEN "errored" ELSE IF r.stop = "refusal" THEN "refusal" ELSE "succeeded"

\* What runOne makes of the last reply it got.
Calls == INSTANCE MoonshotChat

Rows ==
  CASE dialect = "emulated"  -> EmulatedRows
    [] dialect = "moonshot"  -> MoonshotRows
    [] dialect = "anthropic" -> AnthropicRows
Item(r) ==
  CASE dialect = "emulated"  -> Calls!ItemResult(r)
    [] dialect = "moonshot"  -> MoonshotItem(r)
    [] dialect = "anthropic" -> AnthropicItem(r)

\* Mutated: a refusal is returned without its usage.
BillableAnswers(r) == Item(r) = "succeeded" /\ r.usage
\* An item comes with the usage its row reported, a refusal with one too; an item
\* that is no result has none.
Billable(r) == Item(r) \in ResultTypes /\ r.usage
\* The tokens billed for an item, which are zeros without a usage.  The document of an
\* emulated item keeps the usage of an outcome that a later one without replaces.
Tokens(answers) == IF \E r \in answers : Billable(r) THEN "reported" ELSE "zeros"

------------------------------------------------------------------------------
(* Submission.                                                              *)

\* submitNativeBatch, first half: the requests become an uploaded file.
UploadInput(r) ==
  /\ runPc[r] = "prepare" /\ dialect = "moonshot" /\ r \notin uploaded
  /\ uploaded' = uploaded \cup {r}
  /\ UNCHANGED <<vars, dialect, inputOf, leaked, rows, recTokens, costVars, swallowed>>

\* The batch is created, for Moonshot over the uploaded file.
CreateBatch(r) ==
  /\ SubmitBatch(r)
  /\ dialect = "moonshot" => r \in uploaded
  /\ uploaded' = uploaded \ {r}
  /\ inputOf' = [b \in Batches |-> IF r \in uploaded /\ provStatus'[b] # provStatus[b]
                                   THEN "kept" ELSE inputOf[b]]
  /\ UNCHANGED <<dialect, leaked, rows, recTokens, costVars, swallowed>>

\* batches.create throws: the orphaned file is deleted, or that fails quietly.
CreateThrows(r) ==
  /\ r \in uploaded
  /\ SkipDay(r)
  /\ uploaded' = uploaded \ {r}
  /\ \/ UNCHANGED <<leaked, swallowed>>
     \/ Swallow /\ leaked' = TRUE
  /\ UNCHANGED <<dialect, inputOf, rows, recTokens, costVars>>

\* What else a run does happens before the upload or after the creation.
OtherRunStep(r) ==
  /\ r \notin uploaded
  /\ \/ ReadQueued(r) \/ DayRead(r) \/ SkipDay(r) \/ SaveBatch(r)
     \/ \E s \in Series : ReadExisting(r, s)
  /\ UNCHANGED <<dialect, fileVars, rows, recTokens, costVars, swallowed>>

RunFails(r) ==
  /\ r \notin uploaded
  /\ DropScorecard(r) \/ SaveThrows(r) \/ RunAborts(r)
  /\ UNCHANGED <<dialect, fileVars, rows, recTokens, costVars, swallowed>>

ApiCrashes ==
  /\ CrashApi
  /\ leaked' = (leaked \/ uploaded # {}) /\ uploaded' = {}
  /\ UNCHANGED <<dialect, inputOf, rows, recTokens, costVars, swallowed>>

------------------------------------------------------------------------------
(* The providers.                                                           *)

\* Some items of a batch have got a row each, to match what is reported of them.
RowsComeWith(b, items) ==
  \E row \in [items -> Rows] :
    /\ \A c \in items : Item(row[c]) = provResult'[b][c]
    /\ rows' = [rows EXCEPT ![b] = [c \in Cells |->
                  IF c \in items THEN @[c] \cup {row[c]} ELSE @[c]]]

\* The batch completes.
Completes(b) ==
  /\ ProviderEnds(b)
  /\ \E raw \in RawStatuses : provStatus'[b] = Lifecycle(raw)
  /\ RowsComeWith(b, batchCells[b])
  /\ UNCHANGED <<dialect, fileVars, recTokens, costVars, swallowed>>

Fails(b) ==
  /\ ProviderFails(b)
  /\ \E raw \in RawStatuses : provStatus'[b] = Lifecycle(raw)
  /\ UNCHANGED <<dialect, fileVars, rows, recTokens, costVars, swallowed>>

\* Only the emulated batches are collected by this program, or change their mind.
EmulatedMoves(b) ==
  /\ dialect = "emulated"
  /\ \/ (ProviderReneges(b) \/ ProviderForgets(b)) /\ UNCHANGED rows
     \/ ProviderRecovers(b) /\ RowsComeWith(b, {c \in batchCells[b] : provResult[b][c] = "none"})
     \/ \E c \in Cells : ProviderReplaces(b, c) /\ RowsComeWith(b, {c})
  /\ UNCHANGED <<dialect, fileVars, recTokens, costVars, swallowed>>

------------------------------------------------------------------------------
(* Results and their cost.                                                  *)

\* Mutated: completed batches are not among the terminal ones.
TerminalFailed(status) == status \in Failed
Terminal(status) == status \notin {"in_progress", "submitted"}

\* getBatchResults: both files are read, then a terminal batch's input is deleted.
ReadItems(x) ==
  /\ ReadResults(x)
  /\ LET b == recBatch[x] IN
     IF inputOf[b] = "kept" /\ Terminal(provStatus[b])
     THEN \/ inputOf' = [inputOf EXCEPT ![b] = "deleted"] /\ UNCHANGED swallowed
          \/ Swallow /\ UNCHANGED inputOf
     ELSE UNCHANGED <<inputOf, swallowed>>
  /\ recTokens' = [recTokens EXCEPT ![x] = [c \in Cells |->
       IF recItems'[x][c] = "none" THEN "none" ELSE Tokens(rows[recBatch[x]][c])]]
  /\ UNCHANGED <<dialect, uploaded, leaked, rows, costVars>>

\* Mutated: every capture gets an id of its own, as the synchronous calls do.
CostIdFresh(b, c) == <<b, c, Cardinality(costs)>>
\* `${batchId}:${customId}`.
CostId(b, c) == <<b, c>>

\* The usage of an item is emitted before its cell is built, which may throw; the
\* listener prices and saves it while the pass goes on.
WriteItem(x, c) ==
  /\ WriteCell(x, c) \/ WriteCellThrows(x, c)
  /\ LET b == recBatch[x] IN
     pending' = pending \cup
       {[at |-> WorkerOf[x], id |-> CostId(b, c), batch |-> b, cell |-> c, tokens |-> recTokens[x][c]]}
  /\ recTokens' = [recTokens EXCEPT ![x][c] = "none"]
  /\ UNCHANGED <<dialect, fileVars, rows, costs, swallowed>>

\* CostRepository.save is write-once by id.
SaveCost(e) ==
  /\ pending' = pending \ {e}
  /\ costs' = IF \E k \in costs : k.id = e.id THEN costs
              ELSE costs \cup {[id |-> e.id, batch |-> e.batch, cell |-> e.cell, tokens |-> e.tokens]}
  /\ UNCHANGED <<vars, dialect, fileVars, rows, recTokens, swallowed>>

\* Pricing or saving throws: logged.
LoseCost(e) ==
  /\ Swallow
  /\ pending' = pending \ {e}
  /\ UNCHANGED <<vars, dialect, fileVars, rows, recTokens, costs>>

OtherPassStep(x) ==
  /\ \/ MarkBatch(x) \/ FinishBatch(x) \/ EndLoop(x) \/ ReadCells(x) \/ SaveBoard(x)
     \/ \E b \in Batches : PollBatch(x, b)
  /\ UNCHANGED <<dialect, fileVars, rows, recTokens, costVars, swallowed>>

PassStarts(x) == StartPass(x) /\ UNCHANGED <<dialect, fileVars, rows, recTokens, costVars, swallowed>>

PassFails(x) ==
  /\ BatchThrows(x) \/ BoardThrows(x)
  /\ UNCHANGED <<dialect, fileVars, rows, recTokens, costVars, swallowed>>

WorkerCrashes(x) ==
  /\ CrashWorker(x)
  /\ pending' = {e \in pending : e.at # WorkerOf[x]}
  /\ recTokens' = [y \in Passes |->
       IF WorkerOf[y] = WorkerOf[x] THEN [c \in Cells |-> "none"] ELSE recTokens[y]]
  /\ UNCHANGED <<dialect, fileVars, rows, costs, swallowed>>

------------------------------------------------------------------------------

RunStarts(r) == StartRun(r) /\ UNCHANGED <<dialect, fileVars, rows, recTokens, costVars, swallowed>>

ProviderRunStep(r) == OtherRunStep(r) \/ UploadInput(r) \/ CreateBatch(r) \/ CreateThrows(r)
ProviderPassStep(x) == OtherPassStep(x) \/ ReadItems(x) \/ \E c \in Cells : WriteItem(x, c)

PNext ==
  \/ ApiCrashes
  \/ \E r \in Runs : RunStarts(r) \/ ProviderRunStep(r) \/ RunFails(r)
  \/ \E b \in Batches : Completes(b) \/ Fails(b) \/ EmulatedMoves(b)
  \/ \E x \in Passes : PassStarts(x) \/ ProviderPassStep(x) \/ PassFails(x) \/ WorkerCrashes(x)
  \/ \E e \in pending : SaveCost(e) \/ LoseCost(e)

\* A run and a pass take their next step, the cron keeps starting passes, and the
\* provider finishes what it accepted.  Nobody has to ask for a run.
PFairness ==
  /\ \A r \in Runs : WF_pvars(ProviderRunStep(r))
  /\ \A x \in Passes : WF_pvars(PassStarts(x)) /\ WF_pvars(ProviderPassStep(x))
  /\ \A b \in Batches : WF_pvars(Completes(b) \/ Fails(b))

PSpec == PInit /\ [][PNext]_pvars /\ PFairness

------------------------------------------------------------------------------
(* Properties.                                                              *)

\* Rows that are no answer, so that a later run has to ask again: a failure, and for
\* Moonshot a text cut short.
Broken(r) ==
  CASE dialect = "emulated"  -> IF r.status = 200 THEN r.finish = "length"
                                ELSE r.status # 400 \/ r.type # "content_filter"
    [] dialect = "moonshot"  -> \/ r.file # "output" \/ r.error \notin {"none", "content_filter"}
                                \/ r.error = "none" /\ (r.status # 200 \/ ~r.body \/ r.finish = "length")
    [] dialect = "anthropic" -> r.type # "succeeded"
\* Rows in which the model declined to answer.
Declined(r) ==
  CASE dialect = "emulated"  -> "content_filter" = (IF r.status = 200 THEN r.finish ELSE r.type)
    [] dialect = "moonshot"  -> "content_filter" = (IF r.error = "none" THEN r.finish ELSE r.error)
    [] dialect = "anthropic" -> r.stop = "refusal"

\* A cell, which is there for good, rests on a row that is no failure, and is a no-trade
\* exactly if the model declined in it: a row with an error in a 200, an error line, a
\* garbled or missing row or a truncated one (toItemResult, runOne) leaves the cell to
\* a later run.  Two kinds of rows are taken for answers although they hold none, and
\* fill their cell for good: Anthropic's message cut short by max_tokens, and
\* Moonshot's reply without a choice.
CellsAreAnswered ==
  \A c \in Persisted : \E b \in Batches : \E r \in rows[b][c] :
    ~Broken(r) /\ (cell[c] = "NO_SETUP" <=> Declined(r))

\* An item is billed once however often it is reconciled, and when every capture has
\* come through, each cell is billed what its row reported, or zeros if it did not
\* report anything (buildCell's caller emits before it builds; a refusal is billed).
CostedOnce ==
  /\ \A k, l \in costs : k.batch = l.batch /\ k.cell = l.cell => k = l
  /\ (faults = 0 /\ swallowed = 0 /\ pending = {}) =>
       \A c \in Persisted : \E k \in costs :
         k.cell = c /\ (k.tokens = "reported" <=> \E r \in rows[k.batch][c] : r.usage)

\* Input files are collected: that of a reconciled batch is gone, one without a batch
\* is left behind by a crash only ("every file this provider creates must be
\* collected"), unless a deletion failed.
InputsAreCollected ==
  swallowed = 0 =>
    /\ leaked => faults > 0
    /\ \A b \in Batches : doc[b] = "reconciled" => inputOf[b] # "kept"

\* The same for every batch whose document is closed, cancelled or failed ones too.
EveryInputIsCollected ==
  swallowed = 0 => \A b \in Batches : doc[b] \in Failed => inputOf[b] # "kept"
=============================================================================
