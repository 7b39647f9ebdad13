# TLA+ models of foster-bridge

foster-bridge is a NestJS backend (`src/backend/src`, about 12,000 lines of
TypeScript, its unit tests not counted) that benchmarks LLM "trader personas" against
historical futures sessions. It ingests daily trade-plan and recap videos from
EminiPlayer, generates a daily KEYS artifact, submits one LLM batch per day with
one item per (trader, variant, run index), grades the returned setups by a
deterministic backtest over one-minute candles, and keeps a scoreboard. All state
is in Firestore and a Cloud Storage bucket; a few guards are in process memory.

This directory holds TLA+ modules of the parts whose correctness depends on
ordering, interleaving, failure and retry, TLC configurations that check them on
small instances, and proofs checked by TLAPS. Paths below are relative to
`src/backend/src/`.

## Inventory

| Component | State it keeps | Operations | Talks to |
|---|---|---|---|
| Emulated batches: `moonshot/moonshot.batch-store.ts`, `moonshot.batch-worker.ts`, `moonshot.service.ts` | `moonshotBatches` documents and their `items` subcollection; per-process `active` guard map | submit, kick, drain (claim, run, persist, complete), expire, collect | chat API, reconciler (through the `LlmProvider` port) |
| Benchmark runs: `benchmark/benchmark.service.ts`, `run-lock.ts` | in-memory run lock; `benchmarkBatches` documents | `run`, `checkDrift` | cloud inputs, seven-keys, provider, repository |
| Batch reconciliation: `benchmark/batch-reconciler.ts` | in-memory `running` flag; `benchmarkRuns` cells (write-once), batch status | boot and every-minute pass | provider, backtest, scoreboard, cost events |
| KEYS artifacts: `benchmark/seven-keys/*`, `keys-backfill.service.ts`, `keys-era-reset.ts` | `dayArtifacts` keys documents per flagship lineage and a legacy one; backfill job in memory | `ensureKeys`, backfill start/cancel/status | provider, repository, run lock |
| Day artifacts and inputs: `day-artifacts.service.ts`, `cloud-inputs.service.ts`, `drift.ts`, `cache-warmer.ts`, `samples.service.ts` | `dayArtifacts`, `samples` | upload once per provider, snapshot, drift report, warm, sample | bucket, provider |
| Scoreboard: `scoreboard.service.ts`, `scoreboard/*` | `benchmarkScoreboard` document | `generate` (groups, totals, ranking, feature comparisons, lineage) | repository |
| EminiPlayer ingest: `eminiplayer/*` | bucket artifacts and manifests, Firestore `videoClaims`, in-memory in-flight map and backfill job | ingest (with force), backfill, prune, audit, verify | EminiPlayer site (Playwright), transcript service, bucket |
| Execution: `execution/engine.ts`, `orders.ts`, `backtest.service.ts` | none | order simulation, order normalisation | market data |
| Market data: `market-data/*`, `contracts/*` | candle documents per symbol, interval and day | upload, upsert, coverage, contract roll | Firestore |
| LLM plumbing: `moonshot/moonshot.chat.ts`, `extract-store.ts`, `envelope.ts`, `anthropic/*`, `llm/*` | file-extract documents (chunked), process-wide fallback latch, files at the vendor | structured chat, upload, native batches (submit, poll, read results) | vendors |
| Content and cost: `content/*`, `cost/*` | personas, features, general docs; usage records | CRUD, capture (an event per result), aggregation | Firestore |
| Infrastructure: `firebase/`, `config/`, `common/`, `health/`, `demo/`, `transcript/` | none of interest | | |

### Where it is hard

* **Concurrency without transactions.** Only the item claim and the video claim
  are Firestore transactions. Everything else reads, awaits, and writes blindly:
  batch status updates, terminal item writes, the submit-then-save of a batch, the
  scoreboard, the KEYS document, bucket artifacts and their manifest.
* **Several actors over the same documents.** API process, worker process, boot
  pass, every-minute and every-30-minute crons, fire-and-forget kicks, abandoned
  promises of timed-out jobs.
* **Paid calls.** A result that is lost, or a cell submitted twice, costs money; a
  cell that is written wrongly can never be rewritten.
* **Guards in memory.** The run lock, the `running` flag, the drain guard, the
  in-flight map and the backfill jobs vanish with the process and do not span
  processes.

### What makes each component correct

* *Emulated batch*: an ended batch is complete; an item is not run twice under live
  leases; no batch is stuck; it behaves like a native batch provider.
* *Run and reconciliation*: only missing cells are submitted; results of a
  reconciled batch are all persisted; no result is bought twice; closed documents
  stay closed; batches close and the lock is let go; the scoreboard is current.
* *KEYS*: the hash a submitted or persisted scorecard cell pins is the hash of a
  stored document; a benchmarked day's KEYS never change; one lineage never
  touches another.
* *Ingest*: a committed day (manifest present) has its artifacts; a video backs one
  day and slot; failures leave no artifacts or claims that block later work; a
  committed day is never pruned.
* *Execution*: an order's exits agree with the excursions recorded for it, nothing
  is credited before the fill, management only tightens a bracket, results are
  bounded by R.
* *Market data*: the stored coverage verdict is the current one; a day graded as
  complete is complete; merging never takes away what was there to grade.
* *EminiPlayer backfill*: one bad, slow or hung day never stops or wedges the job;
  posting the range again gets every day committed, from a listing of its day.
* *Day artifacts and inputs*: a request shows the provider one commit of the day,
  through a file that provider knows; one row is computed under one document.
* *Native batches and cost*: a cell, which is there for good, rests on an answer; every
  item is billed once; the files uploaded for a batch are collected.
* *Chat and extracts*: every answer is billed and mapped once, a rejected schema is not
  asked for again; a chunked text is read whole or not at all.
* *Archive and gates*: of a listing the day's own plan and the nearest recap before it are
  taken, and nothing passes a gate under the wrong date or slot.
* *Contracts*: a day is graded on the contract of the roll convention.

## Modules

| Module | Models | Run by |
|---|---|---|
| `BatchService` | what the batch methods of the `LlmProvider` port promise about one batch | abstract side of `moonshot_live` |
| `MoonshotBatch`, `MCMoonshotBatch` | the emulated batch: store, worker, submit path | `moonshot_safety`, `moonshot_live` |
| `MoonshotBatchProofs` | theorems about it | |
| `BenchmarkPipeline`, `MCBenchmarkPipeline` | run request, submission, reconciliation, scoreboard | `pipeline_safety` |
| `ProviderBatches`, `MCProviderBatches` | `BenchmarkPipeline` (which it extends) over each provider: rows, input files, cost records | `pipeline_live` |
| `BenchmarkProofs` | theorems about `BenchmarkPipeline`, some of them for one worker, and about `ProviderBatches` | |
| `Scoreboard`, `MCScoreboard` | what the scoreboard says of the cells it was made from | assumptions of both pipeline runs |
| `MoonshotChat`, `MoonshotExtracts`, `MCMoonshotCalls` | a structured call and an item's attempts; the chunked texts of files | assumptions of `pipeline_live` |
| `KeysLineage`, `MCKeysLineage` | `ensureKeys` and its two callers, document by document | `keys_safety` |
| `KeysLineageProofs` | theorems about it | |
| `KeysBackfill` | the KEYS backfill job over many days | `backfill_safety` |
| `KeysBackfillProofs` | theorems about it | |
| `Calendar` | dates and weekdays | used by the next two |
| `EminiplayerArchive` | what a listing, a page, a title, a transcript and a pdf decide | used by `EminiplayerIngest` |
| `EminiplayerIngest`, `MCEminiplayerIngest` | ingest, manifests, video claims, prune, audit | `ingest_safety` |
| `EminiplayerBackfill`, `MCEminiplayerBackfill` | the bulk backfill over `EminiplayerIngest` (which it extends) and the shared browser page | `backfill_live` |
| `EminiplayerProofs` | theorems about `EminiplayerIngest` and `EminiplayerBackfill` | |
| `SessionBacktest`, `MCSessionBacktest` | uploads, the contract ingest job, coverage, and the reads of a backtest and of grading | `session_safety` |
| `SessionBacktestProofs` | theorems about it | |
| `ContractRoll` | the contract a day is graded on | assumptions of `session_safety` |
| `DayInputs`, `MCDayInputs` | the inputs of a row: verified load, files at the provider, drift guard, warmer | `inputs_safety` |
| `DayInputsProofs` | theorems about it | |
| `OrderSimulation`, `MCOrderSimulation` | order normalisation and the replay engine | `order_safety`, `order_fill` |
| `OrderSimulationProofs` | theorems about it | |

`PROJECT.json` maps every definition to the lines it stands for. Names are the
source's wherever TLA+ allows it. A line comment "Mutated:" marks an operator that
changes the one after it the way a plausible bug would; nothing in the
specifications uses it, it is there to show that the property named with it in
`PROJECT.json` can fail.

The granularity is the same throughout: **one action per awaited store or API
call**, with what the code does between two awaits in the action of the first. A
value read by one action and used by a later one is a variable. A guard is the
code's condition or early return. A crash is an action that drops the memory of a
process and keeps the documents.

Code without state of its own is operators: `Calendar`, `ContractRoll`,
`EminiplayerArchive`, `Scoreboard`, `MoonshotChat`, `MoonshotExtracts`. What is said of
them is an `ASSUME` of an MC module, over every input of a bounded set, and TLC
evaluates it whenever a run of that module starts. An assumption compares the
translation with another definition of the same thing: the rule of a document, a
reading by text search, a fixed point, the mirror image of a row.

### How they compose

`MoonshotBatch` implements `BatchService` (a refinement mapping, checked and
proved), and `BenchmarkPipeline` takes its provider to move as `BatchService`
does, because the emulation really does all of it: a terminal status may be taken back
(`ProviderReneges`) and return (`ProviderRecovers`), and a drain that lost its lease may write
its result over another one (`ProviderReplaces`), also of a batch that has been reconciled. The
history variable `late` has the items that became results only after a pass had read them as
errors. `KeysBackfill` abstracts a generation to
decide, read, save; `KeysLineage` opens it up, and abstracts the job to one attempt.
`ProviderBatches` extends `BenchmarkPipeline`: each of its steps is one of a run, a pass or
a provider, with what it does to rows, files and cost records besides. `MoonshotChat`
gives the items that `MoonshotBatch` takes as a chat's outcome; `EmulationMirrorsNative`
compares them with the items `ProviderBatches` makes of the native rows.
`KeysLineage` reduces batches and cells to the hashes they pin; `BenchmarkPipeline`
opens those up and abstracts KEYS to "had or dropped" (`DropScorecard`).
`EminiplayerIngest` takes each of its decisions with `EminiplayerArchive`, over rows,
pages, titles and transcripts that are constants. `EminiplayerBackfill` extends
`EminiplayerIngest`: every step of an ingest is a step of it, and the job is told how the run it waits for has ended. `DayInputs` takes the
day's commits of `EminiplayerIngest` as a sequence of contents that are replaced file
by file. `SessionBacktest` has the candles that `OrderSimulation` replays, of the contract
that `ContractRoll` names. `Scoreboard` computes what `SaveBoard` of `BenchmarkPipeline` stores.

### MoonshotBatch

State: the batch document (`batchStatus`, ages), item documents (`itemStatus`,
`leaseAge`), the per-process `active` guard, and per drain its position, the
snapshot it read, and per item the claim it holds. `Submit`, `WriteItem`,
`FinishSubmit` are `submitEmulated`; `Kick` starts a drain when the guard is free or
stale; `GetBatch`, `ListUnfinishedItems`, `ClaimItem` (the one transaction),
`RunAndPersist`, `CheckCompletion`, `SetBatchStatus` are `drainBatch` in order;
`GcList` ... `GcDeleteBatch` are retention. The pool's phases (each prefix group's
head first, then the rest) are `Phase` and `Startable`. Time is kept as ages that
saturate one past the limit they are compared with (`Older`), so time is unbounded
and the model finite.

### BenchmarkPipeline

State: cells, batch documents, scoreboard; what each run has read (`runQueued`,
`runMissing`) and where it is; what each reconciler pass has polled; what the
provider holds. `StartRun` ... `SaveBatch` follow `runInner`, with the day loop
(`NextDay`); `StartPass` ... `SaveBoard` follow `reconcile` and `reconcileBatch`,
with the cells of a batch written one by one. `SkipDay`, `DropScorecard`,
`RunAborts` and `SaveThrows` are the code's four ways of not going on. Failed calls,
crashes, throws and changes of mind of the provider share one budget, `MaxFaults`.

### ProviderBatches

State: the configured `dialect`, for each request the row it was answered with, the input
file of a batch, the usage events that are being priced and the records saved.
`UploadInput`, `CreateBatch` and `CreateThrows` are `submitNativeBatch`; `Completes` and
`Fails` are the vendor with the adapters' two `toLifecycle`; `MoonshotItem` and
`AnthropicItem` are what `toItemResult` and its Anthropic counterpart make of a row;
`ReadItems` is `getBatchResults` with the deletion of the input file. `WriteItem` emits the
usage before the cell is built, as the code does, and `SaveCost` and `LoseCost` are the
listener, which runs beside the pass. A row says whether it carries usage; what carries none
is recorded with zeros, as a refusal by a 400 is (`batch-reconciler.ts:145`). `swallowed` counts what is only logged: a deletion or a
capture that fails.

### Scoreboard, MoonshotChat, MoonshotExtracts

`Scoreboard` works on sets of cells: `Summary` is a group with the totals of its runs,
`Ranking` the order of the table, `RowsOf` and `Impact` the comparison of variants over
shared days, `Roots`, `Orphans` and `Cycles` the lineage of the traders. Means are fractions,
so that nothing is rounded. `MoonshotChat` takes the replies of consecutive calls as a
sequence and says which calls are made, with which response format, what comes of them,
what is billed and whether the schema is latched off. `MoonshotExtracts` splits a text into chunks that cut
no surrogate pair, writes them one document at a time and reads what documents there are:
a crash is a prefix of the writes.

### KeysLineage and KeysBackfill

`KeysLineage` has one day. Each `ensureKeys` call reads the artifact, the pins and
the legacy document in separate steps (`ReadExisting`, `ReadPins`, `ReadLegacy`),
then reuses, refuses, fails or saves; runs hold the lock through `SubmitBatch`,
backfill attempts until they leave or are abandoned (`DayTimeout`, which sets the
history variable `abandoned`). The process restarts under another flagship
(`Restart`), the plan is re-ingested (`CorrectPlan`), the reconciler turns in-flight
pins into persisted ones. `KeysBackfill` has many days and the job: preflights,
lookback check, attempts with backoff, a day timeout that cannot cancel, a grace
period, cancel, shutdown, restart. A generation there reads its lookback in one
step; a re-ingest between two of those reads is not seen.

### Calendar, ContractRoll, EminiplayerArchive

A day is its number in the calendar, a date as printed a record of three numbers that need
not denote one. `ContractRoll` is `contracts-roll.ts` with the known symbols and the symbol a
backtest asks for. `EminiplayerArchive` keeps of a row, a title, a page, a transcript or a
file what a gate looks at: `SelectDayEntries` and `ListTradePlanDates` are the two
selections, `Shows` the search for a date in a title, and the gates are those of
`eminiplayer-validation.ts` and of the verify service.

### EminiplayerIngest

State: bucket files per day and slot, manifests, the claim per video, the run per
day with what it resolved, and the forced request that waits. The three
transcript productions are one step (they only read), the three deletions of a
discard one step that may miss any of them. A transcript's content is the video it
was made from, so a stale one is visible. `Site` is a sequence of versions of the archive
and its pages; a run resolves what its own version shows. `PruneList` and `PruneDelete` are
the sweep, `Anomalies` what an audit of a range reports.
`faults` counts the failed calls by kind, so that a property can say which kinds it
has to be spared (`Spared`). A failed call has no effect; `SaveUnsure` and `UncommitUnsure` are
the write and the deletion of a manifest that have theirs and are reported as failed
("ack"). A prune and the runs wait for each other (`Quiet`), as an operator who prunes an idle
system has it, unless a fault ("race") starts one beside them; nothing in the code prevents
that. `swept` has the days it then deletes from although a manifest or a run relies on what is
there (`Relied`), until a commit finds the folder whole again.

### EminiplayerBackfill

State: that of `EminiplayerIngest`, the job with the position of its loop, and the day
whose page callback has hung. `Start`, `Scrape`, `NextDay` and `JobEnds` are
`start` and `runLoop`; `IngestStep` is a step of an ingest and of `runDay` when it ends
the run that is waited for (`Settle`, `OutcomeOf`), whoever started that run.
`DayTimesOut` gives a day up at any moment; the run goes on. `PageFree` is the queue of
`PlaywrightService`: the listing of a frontier day, the two video pages and the pdf
need it. A stage failure and any other are told apart for the circuit breaker
(`MaxStageFailures` in a row) only. The navigations of the code have Playwright's own
30-second limits; `Hang` is a callback that none of them ends. A job that starts days hours
after its scrape re-lists the ones near today only (`Frontier`), which is why
`StartsFromCurrentListing` says something.

### SessionBacktest

State: the candles stored per day with their coverage verdict, the files on disk, an
upload and the ingest job, what a benchmark submitted and what became of it. A
transaction per day (`Upsert`) merges or replaces and judges anew; `NextFile` and
`JobDay` are the job over the files in the order `Before` says, with the files and days it
has left as sets and the next of them as their least; `Ask` is a backtest,
`Submit` and `Grade` the benchmark's check before it pays and the read when it grades;
`GradeUnread` is a read that fails, which costs the cell for good.

### DayInputs

State: the day folder and manifest while they are ingested again (`Uncommit`,
`Replace`, `Discard`, `Commit`), the copy the provider's file is made from and its
record, the document, the cells and batches with the document hash they carry, one run,
and the warmer's calls. `Snapshot`, `Guard`, `Missing`, `Download`, `Verify`,
`ReadRecord`, `SaveOrigin`, `PutRecord`, `Submit` follow `runInner`, `loadDay` and
`ensurePdf`. `Deploy` is a restart, perhaps under the other provider. `raced` is history.

### OrderSimulation

Prices become signed distances from the entry, so long and short are one case.
`Normalize` is the 400 or the normalised book; each `Feed` is one turn of the
candle loop for every order (`simulate` runs the orders one after another over the
same candles; they share nothing); `Finish` closes at the last close and sums up.
`fillLeg`, `firedLeg` and `exitLeg` are history: where on the candle's assumed path
an event lies.

## Runs

| Run | Instance | Shows |
|---|---|---|
| `moonshot_safety` | 2 processes, 2 drains, 3 items (two in one prefix group), 1 fault | `EndedIsComplete`, `LeaseIsExclusive` |
| `moonshot_live` | 1 process, 3 drain slots, 2 items, no fault | `BatchResolves`, `DrainedBatchEnds`, `ImplementsBatchService` |
| `pipeline_safety` | 3 cells in 3 series over 2 days, 2 runs, 2 passes of one worker, 2 batches that may fail by 'errored', 1 fault, replaced results included | `SubmitsOnlyMissing`, `ReconciledIsComplete`, `ClosedStaysClosed`, and until the fault `ScoreboardCurrent` |
| `pipeline_live` | each of 3 providers, 1 cell, 1 run, 1 pass, 2 batches with all three failures, 12 kinds of rows, 2 faults, 1 swallowed failure | `BatchesClose`, `CellsAreAnswered`, `CostedOnce`, `InputsAreCollected` |
| `keys_safety` | 2 flagships, 3 calls, 1 corrected plan, 1 restart | `PinsBacked`, `OwnKeysOnly`, `GradedFromCurrentKeys` |
| `backfill_safety` | 3 days, lookback 2, 2 attempts, 2 jobs, 1 move around them | `LookbackIsFull`, `DoneIsBuilt`, `AttemptsDoNotOverlap`, `JobReleasesLock` |
| `ingest_safety` | 2 neighbouring days, 3 versions of a listing with rows and videos that must not be taken, failures of every kind, misreported ones too, 2 of them or one prune beside the runs, 1 force | `CommittedIsComplete`, `CommittedIsRight`, `NoSharedVideo`, `SourcesMatch`, `AllOrNothing`, `AuditIsQuiet` |
| `backfill_live` | 2 days across a new year, the second within the lookback of today, 2 versions of the listing, ranges of both and of the second, 1 fault (a stage, a listing, a hung page or a crash), 2 stage failures in a row, any number of timeouts, cancellations and single requests | `StartsFromCurrentListing`, `ScrapedJobEnds`, `BackfillCommits`, `CountedIsCommitted`, `BackfillTypeOK` |
| `order_safety` | 8 books of a managed order and its unmanaged twin, 6 books to refuse, 8 prices, 5 candles | `ExcursionsExplain`, `ManagedIsTighter`, `ResultIsBounded` |
| `order_fill` | 3 candles | `NoRetroactiveExit` is **violated** |
| `session_safety` | uploads with merge and replace, the job over an archive and two updates, 1 failed transaction or read or crash | `VerdictIsCurrent`, `GradedIsWhole`, `SubmittedIsGraded`, `FreshWins` |
| `inputs_safety` | 3 commits, 2 documents, 2 cells, 2 providers, 2 deployments, 1 warmer | `SubmittedIsCommitted`, `RowIsUnmixed` |

`BackfillTypeOK` includes the type invariant of `EminiplayerIngest`; those of
the other modules with a safety run are proved.

The runs also evaluate the assumptions about operators:

| Assumption (MC module) | Over | Says |
|---|---|---|
| `RollFollowsTheRule`, `RollsForward`, `EvidenceHolds`, `OthersPassThrough` (`MCSessionBacktest`) | every day of four years; the evidence table | a day has the contract of `docs/es-contract-roll-convention.md`, and rolls once, forward, in each quarter month |
| `RecapIsNearest`, `DaysFollow`, `TodayIsTuesday`, `StampsAreRead`, `ShowsIsIncludes` (`MCEminiplayerIngest`) | listings of up to 3 rows, turns of months and centuries, 8,000 seconds, 72 dates against each other | the recap taken is the nearest before the day; days are numbered in order; a stamp is read back; a date is found in a title exactly when a text search finds it |
| `TheDays`, `TheRecaps`, `Today` (`MCEminiplayerBackfill`) | the numbers its cfg uses | they are the dates meant |
| `GroupsAddUp`, `RankingIsTotal`, `SharedDaysDecide`, `CombinationsMeetTheirParts`, `UnscoredDaysCount`, `TradersAreDrawnOnce` (`MCScoreboard`) | every board over up to 5 slots with 4 results, every origin of 4 traders | runs add up to their group, the ranking is a total order, a comparison depends on shared days only, and the lineage shows everyone once |
| `MessagesAreBilledAndMapped`, `RejectedSchemasAreLatched`, `ItemsArePaidOnce` (`MCMoonshotCalls`) | every 3 replies of 9 kinds, every 5 of 6 | what is asked again, what is billed, and which status or result comes of it |
| `ChunksJoin`, `TextsAreWholeOrAbsent`, `LeftoversAreRejected`, `ExtractionsMix` (`MCMoonshotCalls`) | every text of up to 6 units, chunk sizes 1 to 4, every point of a crash | a text is read whole or not at all, and where that ends |
| `ItemsAreRead`, `EmulationMirrorsNative` (`MCProviderBatches`) | rows the run leaves out, and answers of both paths | a garbled, bodyless or failed row is an error; the emulation and the native path agree on an answer |

Why the bounds suffice:

* Two drains or two passes are what a race needs; a third drain slot in
  `moonshot_live` lets a new drain start while two hang, which a batch needs to
  resolve although a chat call never returns. Ages of 0 and 1 make every
  order of "still fresh" and "lapsed" happen.
* Two runs, two passes and two batches interleave in every way the lock and the
  flag allow; two series on one day give a batch of two cells, the second day the
  day loop; with one fault every call can fail once at every point, or one result or status be
  taken back at every point. Callers ask for all cells: what is submitted is less anyway, as
  cells are persisted, queued or dropped. Batch ids are handed out in a fixed order (`FreshId`),
  on which nothing depends. That a batch fails by 'canceled' or 'expired' instead of 'errored'
  makes no difference to a run or a pass and is left to `pipeline_live` (`FailsWith`).
* In `pipeline_live` one cell meets the rows of two batches, so that a cell left open by a
  bad row is answered by a good one; with two faults a crash can follow a failed call. The
  rows of a provider are one for each way its adapter can decide, those it takes for answers
  by mistake included; more of a kind change nothing, as items are read one by one.
* Three calls are a run, a backfill and the one whose KEYS they meet; a third
  lineage or a second restart adds no new relation between document, pin and reader.
* Three days with a lookback of two give a day with a full, a partial and an empty
  lookback.
* Two neighbouring days are what a claim conflict needs: the later one's page embeds the
  earlier one's video under a right title, and until the recap between them is posted both
  take the same one. A second and a third version of the site make claims and transcripts
  stale twice, with a row of the wrong weekday in the first. Two failures are a cleanup that fails after the
  failure it cleans up; a prune beside the runs uses up the budget by itself (`Cost`), since what
  it does wrong needs no other failure.
* Of two days of a job one is near the end of the listing and one is not; an abandoned
  run of the first overlaps the second. With one fault a job meets each kind of
  failure at every point.
* Three commits change the pdf and then only a transcript; two deployments go to the
  other provider and back; two cells can disagree.
* Eight prices put a step between entry, moved stop, trigger and target and reach
  one step beyond stop and target, so that a position could close outside its
  bracket; five candles let an order wait, arm, fill, trigger and
  exit in different candles with the window's edges inside. Every candle of the
  ladder is tried, flat ones and those that span everything included.

Symmetry is used only in runs without liveness, over identities no operator tells
apart. Deadlock is not checked where the system may stop: after the last job, the
last call slot, the end of the session.

### Fairness, and what justifies it

* `MoonshotBatch`: weak fairness of time, of kicks (the cron, every half hour, and
  every poll of the reconciler kick) and of a drain's next store step (an awaited
  Firestore call settles). **None** of the chat call: it may hang forever.
* `ProviderBatches` (`PSpec`; `BenchmarkPipeline` itself has none): weak fairness of the next
  step of a run and of a pass, of starting a pass (every-minute cron) and of the provider
  ending or failing what it accepted (`BatchResolves` shows it of the emulation; of a native
  API it is an assumption, as it is that a vendor keeps results longer than the reconciler
  takes). Nobody is obliged to request a run, and nothing makes a capture of usage settle.
* `KeysBackfill`: weak fairness of the job's own steps, its timers among them;
  nothing makes a generation settle, which is why `JobReleasesLock` says something.
* `EminiplayerBackfill`: weak fairness of the loop, of the steps of the runs and of a
  sweep (awaited store calls settle) and of the day timer; strong fairness of posting
  the whole range again while a day is missing, which is the operator's part and not
  the code's. Nothing makes a hung callback settle. `BackfillCommits` asks for no hung
  page and an operator who stops cancelling.

## Proofs

All proofs are for every value of the constants that the named assumptions allow. The
assumptions say that null values are not members of the sets they extend, that limits,
days and versions are naturals, that there is at least one model, that a session opens and
closes on the grid of its bars, that a directory of exports has one file of a contract and
the files are finitely many, that the fields of a typed order are integers, and that what the site shows, what a day is committed with and
where a job may range is among what the constants name. Some
theorems have a hypothesis besides, stated with them and explained below: `OneWorker` (three of
`BenchmarkProofs`), one model alias (`PinsHold`), `PdfNeverReturns` (`SubmissionsAreCommits`) and
`PostedWithinLookback` (`RunsStartCurrent`).

**`MoonshotBatchProofs`.**
* `TypeCorrect`: `Spec => []TypeOK`.
* `EndedComplete`: `EndedIsComplete` is not inductive, because a drain decides in one
  step and writes in another. `EndedInv` adds that a drain about to write 'ended'
  has all items settled *now*; it is inductive because no step unsettles an item
  (`SettledStays`: claims touch unfinished items only, creation writes missing ones
  only, a late terminal write is still terminal).
* `LeaseExclusive`: `LeaseInv` adds that a live claim is backed by the item
  document's own lease, or the item is settled; `PoolInv` that claims exist only in
  the pool.
* `Implementation`: with `DocInv` (where the document must exist), every step maps
  to a step of `BatchService` or leaves its variables alone. A drain's writes map to
  `Record` and to the status actions, creation to `Accept`, retention to `Forget`,
  everything else stutters.

**`KeysLineageProofs`.**
* `KeysTypes`: `Spec => []TypeOK`, with `HasDoc` (a call that submits has a document)
  carried along.
* `OwnKeys`: `OwnInv` says of the stored documents and of what calls hold what
  `OwnKeysOnly` says of submissions.
* `CurrentKeys`: `Spec => GradedFromCurrentKeys`. Only a decision from the pins and a save lead to a
  submission (`DecisionIsCurrent`, `SavedIsCurrent`), and the inputs compared are those the call
  was started with; the property needs `TypeOK` and no lock.
* `PinsHold`: with one model alias, `Spec => []PinsBacked`. `PinsInv` says that until
  a generation is abandoned everyone past the start holds the lock (`LockInv`), a
  call that is not frozen has met no open batch (`QuietInv`), what it read of the
  artifact and the pins still holds (`ReadInv`, `FreeInv`), and what it is about to
  pin is stored (`SubmitInv`). The lock is what makes reads that are steps apart
  agree; the theorem shows exactly where that argument needs the generation to be
  waited for. The hypothesis of one model is necessary, see below.

**`BenchmarkProofs`**, for any number of workers.
* `TypeCorrect`: `Spec => []TypeOK`, by `Typed`, which splits `TypeOK` into one part per group
  of variables.
* `ReconciledBatchIsComplete`: `ReconciledIsComplete` says nothing of the pass that is about to
  close a batch, so it is not inductive. `Harvest` adds that a pass past the poll works on a batch
  that was 'ended' and has a result for each of its items or is collected, that while it writes
  each result has its cell, is still to be written or came `late`, and that a reconciled batch
  stays decided, though results go on being replaced. No lock is needed: cells are
  write-once, so passes of any number of workers may overlap.

**`BenchmarkProofs`**, under `OneWorker` (the passes live in one process).
* `SubmissionsAreMissing`, `ClosedBatchesStay`, `ScoreboardIsCurrent`, from `MissInv`: `Typed`;
  `PassInv` (the `running` flag makes a pass alone, and what it has listed or polled is open);
  `RunInv` (the lock makes a run alone, the batches it did not see queued are closed or its
  own, and a cell it holds missing is neither persisted nor queued, because the queued batches
  are read *before* the cells: a batch that closes in between has its cells by then);
  `BoardInv` (the board lacks only what a pass has written since it read the cells).
* `OneWorker` is necessary for the last two: with passes in two processes TLC finds a closed
  document reopened by the status of an older poll and a board saved from older cells.

**`BenchmarkProofs`**, over the providers, for any number of workers.
* `ProvidersServe`: `PSpec => Spec`. What a provider does to the pipeline is a step of it or none
  (`ProviderStep`), so all the theorems above hold over each of them.
* `CellsRestOnAnswers`, from `RowInv`: what the provider reports of an item, what a pass has read
  of it and the cell that came of that were each made of one of the rows that answered it (`MadeOf`). A row is never
  taken away (`RowsStay`): a drain that comes late adds one.
* `BilledOnce`, from `BillInv`: every event and every record is the bill of an item of a decided
  batch, one record has an id, and a cell's event is there from before the cell until its record
  is (`CellsStayBilled`): it outlives the pass, but not its process. `TokenInv` follows the usage
  from the row through what the pass has read to the record; it needs that nothing has come late,
  for then an item has one row (`RowIsOne`).
* `InputsStayCollected`, from `InputInv`: a pass that writes cells has read the results of a
  decided batch and so deleted its file or failed to (`ReadsAreCollected`), and a file never comes
  back to a decided batch (`InputsStay`).

**`KeysBackfillProofs`.**
* `TypeCorrect`: `Spec => []TypeOK`. `JobInv` adds what the shape of the loop implies: the job
  holds the lock from its start to its end, its day lies in its window, and a job that is done
  has passed the last day.
* `AttemptsApart`: `AttemptInv` adds to `AttemptsDoNotOverlap` where the generations are
  (`Placed`): one of this job is of a day the job has come to; of the day it is at only while it
  awaits an attempt or sits out the grace period, and while it awaits one, it is that one. The
  loop never backs off into another attempt after a timeout (`FailsEffect`), which is what
  keeps the abandoned generation apart from the next.
* `LookbackAlwaysFull`, `DoneAlwaysBuilt`: from `CorpusInv`. `WindowInv` says that a job past
  its preflight finds the days before its window full and has built those it has passed;
  `GenInv` that no generation, awaited or abandoned, lacks a day of its lookback; `ForceInv`
  that the awaited one was told to replace what is degraded. It takes the second and third,
  because an abandoned generation saves when the job is elsewhere: what it saves must not undo
  what was built (`KeysStay`), and what the job counts as built must be what the awaited one
  saved (`SaveFinalizes`).

**`EminiplayerProofs`**, about the ingest. `IInv` is `TypeOK` and
* `DayInv`: what a run holds at its place in the code has passed the gates it is past, and so
  has what a manifest records (`CommitsAreRight`; a committed day has only a run that has not
  begun to gather).
* `FilesInv`: a run past its removal of stale recaps has nothing in the folder beside what it
  reloaded or uploaded, unchanged (`CommitsStayComplete`), unless a sweep has deleted from it
  (`swept`, which a run resets when it looks what is there). The sweep itself is arbitrary: what
  it has listed may be of any day. A commit that is reported as failed puts a committed day's run
  into its cleanup (`ManifestOK`).
* `LeftInv`: what a run that reloads can meet in an uncommitted folder. As long as no discard
  fails and no process dies that is no recap before the first forced request, and no plan and no
  pdf, unless an uncommit was reported as failed and left them (`RunsAreAllOrNothing`,
  `SourcesStayMatched`).
* `ClaimInv`: a committed day and one about to be committed have their claims, so that two of
  them share no video (`VideosStayApart`). Nobody but the day's own forced run takes them away.
* `BackedInv`, as long as no manifest is unreadable, no save or uncommit fails or is misreported
  and no process dies: every claim is of a committed day or of a run about to commit, so that an
  audit finds none too many (`AuditsAreQuiet`, which needs `FilesInv` too).

The assumptions `SiteAssumption` and `StoredAssumption` say that the entries a listing
resolves to and the videos of its pages are among those the constants name, and that no
manifest and no claim are values of their own.

**`EminiplayerProofs`**, about the bulk backfill.
* `BackfillTypeCorrect`, `CountsAreCommitted`: `BInv` adds that nothing is forced (`Unforced`:
  the job's module has no forced requests, which is why a committed day stays committed), that
  the job waits for a day exactly where its loop does (`JobOK`), and that its scrape is of a
  version the archive has shown (`ScrapedOK`).
* `RunsStartCurrent`, under `PostedWithinLookback` (what the archive posts or changes after a
  scrape is of days within its lookback, the premise of the comment on `runDay`): a run that is
  prepared from an old scrape is of a day before the frontier, so that the current listing
  resolves it alike (`PreparedIsCurrent`). `MCEminiplayerBackfill` assumes it of its instance.

**`DayInputsProofs`.**
* `TypeCorrect`: `Spec => []TypeOK`, by `TypeInv`, which adds what a run and a call of the
  warmer hold at each place (`RunOK`, `StoredOK`): a record is backed by an origin, a file
  about to be put or submitted was minted by the provider that runs now.
* `SubmissionsAreCommits`, under `PdfNeverReturns` (a pdf that was replaced is not uploaded
  again in a later commit of the day). `LineInv` puts everything made of a pdf in the order of the
  commits: the hash of a record is no later than the content of its file, that no later than
  the origin, that no later than the listing of the run, and that no later than now. A run that
  takes a file because the record's hash is that of its listing then has the content too, as it
  is between the two. Without the hypothesis the order is not one: a call of the warmer can put
  an old hash beside a newer file (`RecordIsServed`, below), and a day that returned to the old
  pdf would be shown under the newer.
* `RowsAreUnmixed`: `RowInv` adds that a row, what is in flight for it and the run are under
  the document of now, as long as it has not been PUT over beneath them.

**`SessionBacktestProofs`.**
* `TypeCorrect`: `Spec => []TypeOK`, by `TypeInv`: `DocsOK` has the stored candles on the grid of
  the interval (`Kept`, which a merge or a replacement by aligned rows keeps, `MergedKept`), and
  `JobOK` the file the job is at readable and taken from the disk.
* `VerdictsAreCurrent`: a day is written with the verdict of what is written, and not written
  when nothing changes (`UpsertEffect`).
* `SubmissionsAreGraded`: `SubmittedIsGraded` says that no cell was refused, though its read may
  have failed; `WaitInv` adds that a
  day with a submitted cell is complete. A merge only adds minutes, and to a
  complete session it adds none in the window: between two bars a step apart there is no minute of the grid
  (`NoBarBetween`), so every one in the window is there already (`SessionStays`). That is what
  the rejection of rows off the grid is for.
* `GradesAreWhole`: the `i`-th of the minutes fed is the one with `i - 1` before it (`InOrder`).
  The bars of a complete session are minutes of the grid in the window, and as many as the grid
  has there, so they are all of them (`CompleteIsSession`), and before the `k`-th lie the `k`
  others (`SessionInOrder`). The proof needs only the count of `analyzeCoverage`: on the grid
  that `DocsOK` keeps the stored candles on, the two ends and the walk of the steps follow.
* `FreshestWins`: `OrderInv` says that files are taken in their order, whatever their number, and
  `FreshInv` that every minute that a file done with has (`Done`) is stored as the freshest of
  them says (`Served`). It says so day by day, because the file in hand is done with for some
  days only; a file later in the order outranks all of those before it (`BeforeIsFresher`), so a
  merge that lets the incoming row win keeps it (`ServedByMerge`). What was stored before the
  job does not enter, which is why a rerun ends right although it takes candles back on the way
  (`FreshStays`, below).

**`OrderSimulationProofs`.** All of it rests on what passes `normalizeOrders` (`ValidIsOK`): a
bracket with both distances positive, and at most one rule, whose trigger lies before the target
and whose moved stop before the trigger. The invariant, `SessionInv`, says of each order which of
three states it is in (`SimOK`): it waits and has no history; it is open and has seen neither leg;
or it is closed, and its excursions reach what closed it.
* `TypeCorrect`: `Spec => []TypeOK`.
* `ExcursionsAccount`: within a candle the excursions are ahead of the position, so the proof goes
  leg by leg (`Mid` says what holds between them, `StopLegEffect`, `TriggerEffect` and
  `ProfitLegEffect` what each does).
* `ResultsAreBounded`: both parts of a position close between the stop and the target as they
  were at inception, and the shares are a convex sum (`ResultInBracket`).
* `ManagedStaysTighter`: `TwinInv` compares an order with its unmanaged twin: armed and filled at
  the same minutes, and while the managed one is open the other is too (`Tighter`), because a
  moved stop lies inside the original one. What the managed order then loses is bounded by
  `ResultInBracket`.

Proved, then: the type invariant of every module with a safety run, and every safety property
that a passing run checks.

Left to TLC: all liveness (`BatchResolves`, `DrainedBatchEnds`, `BatchesClose`,
`JobReleasesLock`, `ScrapedJobEnds`, `BackfillCommits`), which is out of the provers' reach,
and the assumptions above, most of which rest on inductions over data.

## Where code and comments disagree

One is a run of this project.

* `order_fill`: on the fill candle the engine walks the whole path, including what
  precedes the fill. A long filled by a bearish candle that opened above its entry is
  credited with a target or a trigger at the high before it, mirrored for a short.
  `engine.ts:184-185` and `docs/order-contract-v2.md:160-161` rule out exactly that.

The others are stated as properties in the modules and can be reproduced by
checking the property on the instance given (everything else as in the component's
safety run).

| Property | Instance | The code | What it contradicts |
|---|---|---|---|
| `MoonshotBatch!DrainedIsNeverErrored` | 2 items, no fault | the forced termination writes 'errored' from an older item list; the last result may have landed since, or the batch may already be 'ended' | `moonshot.batch-worker.ts:167-169`: a drained expired batch "deserves 'ended', not 'errored'" |
| `MoonshotBatch!SuccessSurvives` | 2 items, no fault | a drain whose lease lapsed overwrites 'succeeded' by its own 'errored' | `moonshot.batch-worker.ts:15-16`: "both results are valid, so no corruption, just waste" |
| `BenchmarkPipeline!EndedIsHarvested` | `GcWaits = FALSE`, 1 batch | retention goes by `endedAt` alone and never asks whether the reconciler has read the batch | `moonshot.batch-store.ts:174-175`: "a lagging reconciler never has results GC'd before it reads them". The poll of a collected batch is a 404 for ever, so its document stays open too: `BatchesClose` is checked with `GcWaits = TRUE` and fails without |
| `BenchmarkPipeline!ReconciledIsComplete` with `late` items | 1 batch, 1 fault | a drain whose lease lapsed turns an item into a result after the reconciler has read it as an error; a reconciled batch is not read again | `moonshot.batch-worker.ts:15-16`, as above |
| `BenchmarkPipeline!ScoreboardCurrent` | `WorkerOf <- MCOwnWorker`, no fault | of two passes in two workers the one with the older cells may save the scoreboard last | `batch-reconciler.ts:61-62`: "duplicate passes are harmless" |
| `KeysLineage!PinsStayBacked` | 2 models, 2 calls, no timeout | in-flight cells are looked up for the run's own model, KEYS are shared by all models | `seven-keys.service.ts:205-209`: "a recorded `artifactSha256` never dangles" |
| `KeysLineage!PinsStayBacked` | 1 model, 2 calls | after the day timeout and the grace period (or a cancel that cuts it short) the backfill releases the lock while the generation it waited for still runs; a run can pin KEYS that the late save overwrites | `run-lock.ts:18-20`: "Single-flight across everything that calls SevenKeysService.ensureKeys" |
| `KeysLineage!RefusalIsOrphan` | 2 calls, 1 restart | pins of another lineage's scoped document count as orphans, and the day is refused | `seven-keys.service.ts:210-212`: "Another lineage's pins never freeze this one" |
| `KeysBackfill!NoAttemptAfterCancel` | 2 days, 1 job | the flag is read before the backoff sleep and not after it | `keys-backfill.service.ts:286-287`: "Cancellation is checked BETWEEN attempts" |
| `EminiplayerIngest!CommittedIsComplete` for days that were `swept` | faults `{"race"}`, no force | a sweep deletes what it listed before the day was committed | `eminiplayer-prune.service.ts:36-37`: "A committed day is never touched" |
| `EminiplayerIngest!CommittedIsComplete` without its premise `Spared` | faults `{"ack"}`, no force | a manifest that is written and reported as failed makes the cleanup delete the artifacts it names | `eminiplayer-ingest.service.ts:190-193`: "Past this point the day is known-uncommitted", and a committed day's files are "legitimately at rest" |
| `EminiplayerIngest!AllOrNothing` without its premise `forces = 0` | 1 force, faults `{"stage"}` | a forced run that resolves another recap date and fails before the stale recaps are removed leaves the old one | `eminiplayer-ingest.service.ts:190-191`: "any failure must leave it with no artifacts" |
| `EminiplayerIngest!ClaimsAreJustified` | 1 force, faults `{"read"}`, `MaxFaults = 1` | a manifest that cannot be read is deleted without releasing its claims | `eminiplayer-manifest.service.ts:75-77`: "can never leave stale claims 422-blocking a neighboring day" |
| `EminiplayerIngest!NoSharedVideo` without its premise `Spared` | 1 force, faults `{"uncommit"}` | claims are released before the manifest is deleted, and the deletion may fail | `eminiplayer-manifest.service.ts:73-75`: "the same YouTube video can never serve two day groups" |
| `EminiplayerBackfill!JobEndsOnceStarted` | as `backfill_live` | a page that hung under a single request or an earlier day holds the next job's scrape, which no timeout covers and no cancel interrupts | `eminiplayer-backfill.service.ts:69-70`: "every day races a timeout so a hung socket can't wedge the singleton" |
| `SessionBacktest!FreshStays` | as `session_safety` | a rerun of the job, or one after an upload of the update, puts the archive's candles back until it comes to the update's file | `contract-ingest.service.ts:11-13`: "safely re-runnable; upserts are idempotent" |
| `DayInputs!RowIsNeverMixed` | as `inputs_safety`, 1 warmer | the guard compares the snapshot's document with persisted cells only; cells of a batch in flight, or persisted after the check, carry another one | `drift.ts:10-13`: versions must not "average into one row under one name" unseen |
| `DayInputs!RecordIsServed` | as `inputs_safety` | the warmer puts the hash it has read beside a file made from the origin that a run has replaced since; the next run repairs it | `day-artifacts.service.ts:79-81`: re-uploads serve the content whose "stored content hash matches" |
| `EminiplayerIngest!UploadsRemain` | no force, faults `{"stage"}`, `MaxFaults = 1` | every failure past the guards discards the day's artifacts | `eminiplayer-ingest.errors.ts:7-8`: "Already-uploaded artifacts remain in the bucket" |

| `ProviderBatches!EveryInputIsCollected` | as `pipeline_live`, dialect `moonshot` | the input file is deleted when results are read, and those of a failed, cancelled or expired batch never are | `moonshot.service.ts:432-434`: "every file this provider creates must be collected" |

These are plain from an operator or an assumption, without a run:

| Where | The code | What it contradicts |
|---|---|---|
| `MoonshotChat!ItemResult`, `ProviderBatches!MoonshotItem` | a reply without a choice is an empty text that did not finish, taken for a success and graded INVALID for good | the same comment: what is no answer must stay unanswered to be asked again |
| `ProviderBatches!AnthropicItem` | a message cut short by `max_tokens` is a success, and its unreadable setup a permanent INVALID cell; Moonshot's adapter makes it an error that is submitted again | `moonshot.service.ts:415-427` says why a truncated item must not be 'succeeded' |
| `ProviderBatches!MoonshotItem` | a `content_filter` line of the error file is an error and bought again, the same line in the output file a refusal | the comment above `toItemResult`: a refusal is billed and is a real result |
| `MoonshotChat!IsSchemaRejection` | any 400 of type `invalid_request_error` that does not mention the context latches the schema off, whatever it was about | `moonshot.service.ts:103`: "A schema Moonshot permanently rejects" |
| `MoonshotChat!Chat` | the latch is set when the rejection comes back, so calls that are made meanwhile are rejected too | `moonshot.service.ts:103-104`: "costs ONE wasted 400 per process" |
| `MoonshotChat!RunOne` | an item's answer that is not JSON is 'succeeded' and never asked again; a structured message is retried once for it | `MessageStructured` beside it |
| `LeftoversAreRejected` | a text put again in fewer chunks stays unreadable, because `uploadFile` reads before it would put; a shorter extraction does it at the same chunk size | `moonshot.extract-store.ts:10-14` warns of a larger chunk size only |
| `ExtractionsMix` | two processes that extract the same bytes to different texts leave a mixture that is read as whole | `moonshot.extract-store.ts`: "The parent doc is the commit point" |
| `UnscoredDaysCount` | a cell that came to nothing makes its day shared and its run one of 0, so that a comparison can change sides | `scoreboard.ts:277`: "days covered by one side never bias Δ" |
| `EminiplayerArchive!Shows` | the bare form of a date in January or February is part of a date in November or December of the same day (1/5 in 11/5) | `eminiplayer-validation.ts:137`: the title "must carry the expected date" |
| `EminiplayerIngest!DamagedDays` | an audit looks at the artifacts a manifest records; a second recap in a committed day's folder is not reported, and consumers take the folder as it is | `CommittedIsComplete`, which asks for exactly those files |

Limits of what holds belong here too: `NoSharedVideo` excuses the moment in
which a forced run has released the claims and not yet deleted the manifest;
`SourcesMatch` fails after a crash or a lost deletion followed by a change in the
archive, and speaks of the recap only until a request is forced: a forced run that resolves
another recap date and fails leaves the old recap, which a later run of that date reloads
though the page may embed another video by then (a note in
`docs/superpowers/plans/2026-08-06-eminiplayer-ingest-pipeline-followups.md:66-68` leaves
the provenance of reloaded artifacts "unverified against the reloaded bytes");
`CellsAreAnswered` counts the two kinds of rows of the second table as answers;
`CostedOnce` says nothing of the usage once the provider has changed its mind, for a result
that replaces another may be billed with the usage of either;
`SubmittedIsGraded` speaks of refusals: a read that fails when a cell is graded is a CLI_ERROR
that no later run repeats (`batch-reconciler.ts:263-271`);
`AuditIsQuiet` looks at days no sweep has hit;
`SubmittedIsCommitted` assumes that a day's pdf never returns to an earlier
content (`PdfNeverReturns`); and in `OrderSimulation` a stop moved on the way up of a bullish candle is
not looked at on the way down to its close.

## Not modelled, and why

* Parsers of candle files and configuration, prompts, schemas, envelopes, HTTP mapping and
  reports: text in, text out, without ordering or failure. Of the scoreboard the deviations,
  extremes and entry spreads, and its wording.
* Login, selectors and the relaunch of a browser; the two storage drivers; the fake provider;
  samples, the KEYS era reset (an operator's script for an idle system) and report scripts.
* What an LLM answers: an arbitrary verdict. Whether a site or an API is up: a
  nondeterministic failure.
* Clock skew between processes: ages in `MoonshotBatch` are equal everywhere.
* Firestore is taken to be linearisable per document and its transactions atomic.
* Prices and cost summaries: constant multiples and sums of the records that `CostedOnce` is about.

## Plan

Done, in this order: `BatchService`, `MoonshotBatch` and its proofs;
`BenchmarkPipeline`; `KeysLineage` and its proofs; `KeysBackfill`;
`EminiplayerIngest`; `OrderSimulation`; `SessionBacktest`; `EminiplayerBackfill`;
`DayInputs`; `EminiplayerArchive` under the ingest; `ProviderBatches`; the proofs of
`BenchmarkPipeline`; `Calendar`, `ContractRoll`, `Scoreboard`, `MoonshotChat` and
`MoonshotExtracts`; the proofs of `KeysBackfill`, of the two Eminiplayer modules, of
`DayInputs`, of `SessionBacktest`, of `OrderSimulation` and of `ProviderBatches`.

To come:

1. The extracts and the schema latch with several processes at once.
2. The shutdown latch of the page queue in `EminiplayerBackfill`.
3. The KEYS era reset against the documents of `KeysLineage`.

### Hazards no property covers yet

`PROJECT.json` lists the weightiest hazards and the properties that cover them. These
are the others (paths under `src/backend/src/`):

| where | hazard | |
|---|---|---|
| `benchmark/benchmark.service.ts:324` | a batch the provider accepted and whose document is not saved is paid for and never read | inherent, says the comment |
| `moonshot/moonshot.batch-store.ts:176` | retention collects results the reconciler has not read | `EndedIsHarvested` above |
| `eminiplayer/eminiplayer-backfill.service.ts:181` | failures of another kind in between reset the count of stage failures in a row, so a broken site may never trip the breaker | in the model; nothing is promised beyond the count |
| `eminiplayer/playwright.service.ts:48` | shutdown closes the browser while the queue is launching it | plan, 2 |
| `contracts/contracts-roll.ts:34` | the switch Monday and the turn of the year | assumptions `RollFollowsTheRule`, `RollsForward` |
| `moonshot/moonshot.extract-store.ts:94` | a reader meets a text between the writes of its documents | assumptions `TextsAreWholeOrAbsent`, `LeftoversAreRejected`; two writers at once are plan, 1 |
| `moonshot/moonshot.chat.ts:220` | one rejected schema latches the degraded mode for the process | assumption `RejectedSchemasAreLatched` |
