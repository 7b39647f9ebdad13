------------------------- MODULE EminiplayerBackfill -------------------------
(***************************************************************************)
(* The bulk backfill over EminiplayerIngest: EminiplayerBackfillService    *)
(* walks the days of a range in order, each one an ingest of its own that  *)
(* races a timeout, with single requests, sweeps and the moving archive    *)
(* beside it, and one browser page for everybody (PlaywrightService).      *)
(*                                                                         *)
(* The listing is scraped once per job, for candidates and entries; the    *)
(* days near the moment of the scrape are resolved afresh.  hung is the    *)
(* day whose page callback never settles: nobody behind it gets the page.  *)
(* Faults are those of an ingest, "scrape" and "hang".  A delay between    *)
(* days is the time until the next step of the loop.                       *)
(***************************************************************************)
EXTENDS EminiplayerIngest

CONSTANTS
  Ranges,               \* the ranges <<from, to>> that are posted
  MaxStageFailures,     \* in a row, before the job gives up
  NoDay

ASSUME BackfillAssumption ==
  /\ Ranges \subseteq Nat \X Nat /\ NoDay \notin Days
  /\ MaxStageFailures \in Nat \ {0}

VARIABLES
  job,      \* the job and its loop
  hung

bvars == <<vars, job, hung>>

\* classify: a stage failure, or any other.
Kinds == {"stage", "validation"}
Outcomes == {"out", "todo", "uploaded", "skipped", "failed"}

NoJob == [state |-> "none", pc |-> "end", range |-> <<>>, scraped |-> 1,
          outcome |-> [d \in Days |-> "out"], current |-> NoDay, row |-> 0, cancel |-> FALSE]

BackfillTypeOK ==
  /\ TypeOK
  /\ job.state \in {"none", "running", "done", "cancelled", "failed"}
  /\ job.pc \in {"scrape", "loop", "wait", "end"} /\ (job.pc = "end" <=> job.state # "running")
  /\ job.range \in Ranges \cup {<<>>} /\ job.scraped \in Versions /\ job.outcome \in [Days -> Outcomes]
  /\ job.current \in Days \cup {NoDay} /\ (job.current # NoDay <=> job.pc = "wait")
  /\ job.row \in 0 .. MaxStageFailures /\ job.cancel \in BOOLEAN
  /\ hung \in Days \cup {NoDay}

BackfillInit == Init /\ job = NoJob /\ hung = NoDay

\* Mutated: the loop goes on after the job was given up.
EndedLooping(j, state) == [j EXCEPT !.state = state]
\* The counts remain; what the loop alone uses is forgotten.
Ended(j, state) == [NoJob EXCEPT !.state = state, !.outcome = j.outcome]

------------------------------------------------------------------------------
(* start, cancel and the listing.                                           *)

\* POST backfill over a range; a 409 while one runs.
Start ==
  /\ job.state # "running"
  /\ \E range \in Ranges : job' = [NoJob EXCEPT !.state = "running", !.pc = "scrape", !.range = range]
  /\ UNCHANGED <<vars, hung>>

\* DELETE backfill, or the shutdown of the process.
Cancel ==
  /\ job.state = "running" /\ ~job.cancel
  /\ job' = [job EXCEPT !.cancel = TRUE]
  /\ UNCHANGED <<vars, hung>>

PageFree == hung = NoDay

\* The candidates are the listed days of the range.
Scrape ==
  /\ job.pc = "scrape" /\ PageFree
  /\ LET listed == ListTradePlanDates(Site[version].rows, job.range[1], job.range[2]) IN
     job' = [job EXCEPT !.pc = "loop", !.scraped = version, !.range = <<>>,
                        !.outcome = [d \in Days |-> IF d \in listed THEN "todo" ELSE "out"]]
  /\ UNCHANGED <<vars, hung>>

\* Login, navigation, or a listing without a single trade plan.
ScrapeFails ==
  /\ job.pc = "scrape" /\ PageFree /\ Fault("scrape")
  /\ job' = Ended(job, "failed")
  /\ UNCHANGED <<version, storeVars, run, waiting, pruneTodo, swept, forces, hung>>

------------------------------------------------------------------------------
(* runLoop and runDay.                                                      *)

Todo == {d \in Days : job.outcome[d] = "todo"}

CancelSeen == job.cancel

\* Mutated: the lookback is forgotten.
FromToday(d) == d >= Site[job.scraped].today
\* Within the lookback of the moment of the scrape, which is past midnight.
Frontier(d) == d > Site[job.scraped].today - RecapLookback

\* One more day is settled; too many stage failures in a row end the job.
Settled(d, result) ==
  LET row == IF result = "stage" THEN job.row + 1 ELSE 0
      outcome == IF result \in Kinds THEN "failed" ELSE result
      j == [job EXCEPT !.outcome[d] = outcome, !.row = row, !.current = NoDay, !.pc = "loop"]
  IN  IF row >= MaxStageFailures THEN Ended(j, "failed") ELSE j

\* The next day shares the run in flight or starts one, unless the scrape has no entries for it.
NextDay ==
  /\ job.pc = "loop" /\ ~CancelSeen /\ Todo # {}
  /\ LET d == Min(Todo) IN
     IF ~Frontier(d) /\ Failed(Resolved[job.scraped][d])
       THEN job' = Settled(d, "validation") /\ UNCHANGED run
       ELSE /\ At(d, "idle") => ~waiting[d] /\ Quiet
            /\ job' = [job EXCEPT !.pc = "wait", !.current = d]
            /\ run' = IF ~At(d, "idle") THEN run
                      ELSE [run EXCEPT ![d] = IF Frontier(d) THEN Fresh(FALSE) ELSE Prepared(job.scraped, d)]
  /\ UNCHANGED <<version, storeVars, waiting, pruneTodo, swept, faults, forces, hung>>

JobEnds ==
  /\ job.pc = "loop" /\ (CancelSeen \/ Todo = {})
  /\ job' = Ended(job, IF Todo # {} THEN "cancelled" ELSE "done")
  /\ UNCHANGED <<vars, hung>>

\* Mutated: the race resolves when the run is rejected.
OutcomeOfAny(d) == IF At(d, "save") THEN {"uploaded"} ELSE {"skipped"}
\* What the caller of a run sees when it ends now.
OutcomeOf(d) ==
  IF At(d, "save") THEN {"uploaded"}
  ELSE IF At(d, "list") THEN {"validation"}
  ELSE IF At(d, "plan")
    THEN IF manifest[d].recapDate = run[d].entries.recapDate THEN {"skipped"} ELSE {"validation"}
  ELSE Kinds

\* A step of an ingest, and the loop that may be waiting for it.
Settle(d) ==
  IF job.current = d /\ run[d].pc # "idle" /\ run'[d].pc = "idle"
    THEN \E result \in OutcomeOf(d) : job' = Settled(d, result)
    ELSE UNCHANGED job

\* Fresh listings, the videos' pages and the pdf come through the one page.
NeedsPage(d) == run[d].pc \in {"list", "resolve", "produce"}

IngestStep(d) ==
  /\ NeedsPage(d) => PageFree
  /\ RunStep(d) /\ Settle(d)
  /\ UNCHANGED hung

IngestFails(d) ==
  /\ NeedsPage(d) => PageFree
  /\ StageFails(d)
  /\ UNCHANGED <<job, hung>>

\* A fresh listing that fails leaves a committed day alone: no cleanup is armed yet.
ListingFails(d) ==
  /\ At(d, "list") /\ PageFree /\ Fault("scrape") /\ Goto(d, "idle")
  /\ job' = IF job.current = d THEN Settled(d, "stage") ELSE job
  /\ UNCHANGED <<version, storeVars, waiting, pruneTodo, swept, forces, hung>>

\* Mutated: the day is awaited without a limit.
NeverTimesOut(d) == FALSE
TimesOut(d) == job.current = d

\* The loop goes on, and so does the abandoned run.
DayTimesOut(d) ==
  /\ TimesOut(d)
  /\ job' = Settled(d, "stage")
  /\ UNCHANGED <<vars, hung>>

Hang(d) ==
  /\ PageFree /\ NeedsPage(d) /\ Fault("hang")
  /\ hung' = d
  /\ UNCHANGED <<version, storeVars, run, waiting, pruneTodo, swept, forces, job>>

------------------------------------------------------------------------------
(* The rest of the process.                                                 *)

\* A single request.
Post(d) == Ingest(d) /\ UNCHANGED <<job, hung>>

\* An applied sweep is a 409 while a backfill runs.
Sweep ==
  /\ PruneList /\ pruneTodo' # {} /\ job.state # "running"
  /\ UNCHANGED <<job, hung>>

SweepDelete(o) == PruneDelete(o) /\ UNCHANGED <<job, hung>>

Moves == ArchiveMoves /\ UNCHANGED <<job, hung>>

\* The job lives in the process, and so does the page.
Restart == Crash /\ job' = NoJob /\ hung' = NoDay

BackfillNext ==
  \/ Start \/ Cancel \/ Scrape \/ ScrapeFails \/ NextDay \/ JobEnds
  \/ \E d \in Days : \/ IngestStep(d) \/ IngestFails(d) \/ ListingFails(d) \/ DayTimesOut(d)
                     \/ Hang(d) \/ Post(d)
  \/ Moves \/ Sweep \/ \E o \in pruneTodo : SweepDelete(o)
  \/ Restart

BackfillSpec == BackfillInit /\ [][BackfillNext]_bvars

StartAll == Start /\ job'.range = <<Min(Days), Max(Days)>>

\* The loop and the runs progress and the timer fires; the operator posts the range
\* again while a day is missing.  An operator does not cancel, nor a day time out, for ever.
BackfillFairSpec ==
  /\ BackfillSpec
  /\ WF_bvars(Scrape) /\ WF_bvars(NextDay) /\ WF_bvars(JobEnds)
  /\ \A d \in Days : WF_bvars(IngestStep(d)) /\ WF_bvars(DayTimesOut(d))
  /\ WF_bvars(\E o \in pruneTodo : SweepDelete(o))
  /\ SF_bvars(StartAll /\ \E d \in Days : manifest[d] = NoManifest)

------------------------------------------------------------------------------
(* Properties.                                                              *)

\* A day the job counts as uploaded or skipped is committed; one it gave up on may be
\* committed all the same, by the run it left behind (counts, withDayTimeout).
CountedIsCommitted ==
  \A d \in Days : job.outcome[d] \in {"uploaded", "skipped"} => manifest[d] # NoManifest

\* What the archive posts or changes after a scrape is of days within its lookback.
PostedWithinLookback ==
  \A v, w \in Versions : v <= w => \A d \in Days :
    ~(d > Site[v].today - RecapLookback) => Resolved[v][d] = Resolved[w][d]

\* A run starts from what the archive lists at that moment, also one whose entries come
\* from a scrape that is hours old: what is posted since, within the lookback of its
\* date, concerns the frontier only (runDay).
StartsFromCurrentListing ==
  [][\A d \in Days : run[d].pc # "plan" /\ run'[d].pc = "plan" =>
       run'[d].entries = Resolved[version][d]]_bvars

\* A job that has scraped its listing ends, though a page callback may hang for ever
\* ("every day races a timeout so a hung socket can't wedge the singleton").
ScrapedJobEnds == job.pc \in {"loop", "wait"} ~> job.state # "running"

\* The same for every job, from its start.
JobEndsOnceStarted == job.state = "running" ~> job.state # "running"

\* Days that are backfilled again and again are committed, unless a page hangs or the
\* operator keeps cancelling, whatever was crashed, timed out or left behind before.
BackfillCommits ==
  [](hung = NoDay) /\ <>[]~job.cancel => \A d \in Days : <>(manifest[d] # NoManifest)
==============================================================================
