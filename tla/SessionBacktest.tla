--------------------------- MODULE SessionBacktest ---------------------------
(***************************************************************************)
(* The candles a day is graded on: MarketDataService writes one document   *)
(* per trading day, ContractIngestService feeds it the export files on     *)
(* disk, analyzeCoverage judges a day, the benchmark submits only days it  *)
(* finds complete, and BacktestService, which reads the day again when its *)
(* cells are graded, refuses an incomplete session.                        *)
(*                                                                         *)
(* One contract and one interval; the documents of others are disjoint.    *)
(* Time runs in minutes of a day, a bar every Step, and the session is     *)
(* Open .. Close - 1.  A value stands for open, high, low, close and       *)
(* volume.  One process; a request's rows are parsed and sorted, a file's  *)
(* too.  MaxPosts and MaxFaults bound the uploads and the failures.        *)
(***************************************************************************)
EXTENDS Integers, Sequences, SequencesExt

CONSTANTS
  Dates, Times, Values,
  Step, Open, Close,
  Sheets,          \* the uploads: per date, the rows in the order of the text
  Disk,            \* the export files: [archive, dir, sheet]
  MaxPosts, MaxFaults,
  Malformed, NoDoc, NoFile, NoCell

Rows == Seq([t : Times, v : Values])

ASSUME GridAssumption ==
  /\ Dates \subseteq Nat /\ Times \subseteq Nat /\ Step \in Nat \ {0}
  /\ Open \in Nat /\ Close \in Nat /\ Open < Close /\ Open % Step = 0 /\ Close % Step = 0
ASSUME DiskAssumption ==
  /\ Sheets \subseteq [Dates -> Rows] \cup {Malformed}
  /\ Disk \subseteq [archive : BOOLEAN, dir : Nat, sheet : [Dates -> Rows] \cup {Malformed}]
  /\ IsFiniteSet(Disk) /\ Disk # {}
  /\ \A f, g \in Disk : f.archive = g.archive /\ f.dir = g.dir => f = g  \* a directory has one of a contract
ASSUME BoundAssumption == MaxPosts \in Nat /\ MaxFaults \in Nat

\* A cell whose setup is sound: both "refused", of a day without a whole session, and
\* "unread", of a read that failed, are a CLI_ERROR.
Marks == {"submitted", "graded", "refused", "unread"}

\* What is stored of a day.
Documents == [candles : UNION {[T -> Values] : T \in SUBSET Times}, complete : BOOLEAN]

ASSUME NoneAssumption ==
  /\ NoDoc \notin Documents /\ NoFile \notin Disk /\ NoCell \notin Marks
  /\ Malformed \notin [Dates -> Rows]

VARIABLES
  doc,          \* markets/{symbol}/{interval}/{date}
  post,         \* the upload in flight, with the days it has left to write
  job,          \* ContractIngestService.job, with the file it is at and the files and days it has left
  cell,         \* the benchmark's cell of a date: submitted, then graded
  answer,       \* the last backtest
  alone,        \* no upload has written since the job started
  replaced,     \* some upload has replaced a day
  posts, faults

vars == <<doc, post, job, cell, answer, alone, replaced, posts, faults>>

TypeOK ==
  /\ doc \in [Dates -> Documents \cup {NoDoc}]
  /\ \A d \in Dates : doc[d] # NoDoc => \A t \in DOMAIN doc[d].candles : t % Step = 0
  /\ post.active \in BOOLEAN /\ post.replace \in BOOLEAN
  /\ job.state \in {"none", "running", "done"}
  /\ job.failed <= job.processed /\ job.processed + Cardinality(job.files) <= Cardinality(Disk)
  /\ cell \in [Dates -> Marks \cup {NoCell}]
  /\ answer.status \in {"none", "ok", "404", "422"}
  /\ alone \in BOOLEAN /\ replaced \in BOOLEAN
  /\ posts \in 0 .. MaxPosts /\ faults \in 0 .. MaxFaults

------------------------------------------------------------------------------
(* analyzeCoverage and filterTimeWindow.                                    *)

InWindow(t) == Open <= t /\ t < Close

Bars(candles) == {t \in DOMAIN candles : InWindow(t)}

Contiguous(S) == \A t \in S \ {Min(S)} : Max({s \in S : s < t}) = t - Step

\* Mutated: a session is complete when its first and its last bar are there.
CompleteAtEnds(candles) ==
  LET S == Bars(candles) IN S # {} /\ Min(S) = Open /\ Max(S) = Close - Step
\* rthComplete; the gaps are only reported.
Complete(candles) ==
  LET S == Bars(candles) IN
  /\ S # {} /\ Min(S) = Open /\ Max(S) = Close - Step
  /\ Contiguous(S)
  /\ Cardinality(S) = (Close - Open) \div Step

------------------------------------------------------------------------------
(* MarketDataService.                                                       *)

Candles(d) == IF doc[d] = NoDoc THEN <<>> ELSE doc[d].candles

\* The last row of a minute wins, within an upload and over what is stored.
LastWins(rows) ==
  [t \in {rows[i].t : i \in DOMAIN rows} |-> rows[Max({i \in DOMAIN rows : rows[i].t = t})].v]

\* The candles of new, and those of old for the minutes it lacks.
Over(new, old) ==
  [t \in DOMAIN new \cup DOMAIN old |-> IF t \in DOMAIN new THEN new[t] ELSE old[t]]

\* Mutated: what is stored wins.
MergedKeeping(d, rows, replace) ==
  IF replace THEN LastWins(rows) ELSE Over(Candles(d), LastWins(rows))
Merged(d, rows, replace) ==
  IF replace THEN LastWins(rows) ELSE Over(LastWins(rows), Candles(d))

\* Mutated: the rows of the upload are judged, not the day.
JudgedIncoming(d, rows, replace) == Complete(LastWins(rows))
Judged(d, rows, replace) == Complete(Merged(d, rows, replace))

\* upsertDay: one transaction per day; a day that does not change is not written.
Upsert(d, rows, replace) ==
  doc' = IF Merged(d, rows, replace) = Candles(d) THEN doc
         ELSE [doc EXCEPT ![d] = [candles  |-> Merged(d, rows, replace),
                                  complete |-> Judged(d, rows, replace)]]

\* Mutated: the grid is not asked for.
AlignedAny(sheet) == TRUE
\* A row off the interval's grid rejects the whole upload.
Aligned(sheet) == \A d \in Dates : \A i \in DOMAIN sheet[d] : sheet[d][i].t % Step = 0

Readable(sheet) == sheet # Malformed /\ Aligned(sheet)

\* The days of an upload, which are written in the order of their dates.
DaysOf(sheet) == {d \in Dates : sheet[d] # <<>>}

NoPost == [active |-> FALSE, replace |-> FALSE, sheet |-> Malformed, days |-> {}]

\* POST candles; one that is not readable is a 400 and writes nothing.
Upload ==
  /\ ~post.active /\ posts < MaxPosts /\ posts' = posts + 1
  /\ \E sheet \in {s \in Sheets : Readable(s)}, replace \in BOOLEAN :
       post' = [active |-> TRUE, replace |-> replace, sheet |-> sheet, days |-> DaysOf(sheet)]
  /\ UNCHANGED <<doc, job, cell, answer, alone, replaced, faults>>

UploadDay ==
  /\ post.active /\ post.days # {}
  /\ LET d == Min(post.days) IN
     /\ Upsert(d, post.sheet[d], post.replace)
     /\ post' = [post EXCEPT !.days = @ \ {d}]
  /\ alone' = FALSE /\ replaced' = (replaced \/ post.replace)
  /\ UNCHANGED <<job, cell, answer, posts, faults>>

UploadEnds ==
  /\ post.active /\ post.days = {}
  /\ post' = NoPost
  /\ UNCHANGED <<doc, job, cell, answer, alone, replaced, posts, faults>>

\* A transaction that fails ends the upload; the days before it stay written.
UploadFails ==
  /\ post.active /\ post.days # {} /\ faults < MaxFaults
  /\ post' = NoPost /\ faults' = faults + 1
  /\ UNCHANGED <<doc, job, cell, answer, alone, replaced, posts>>

------------------------------------------------------------------------------
(* ContractIngestService.                                                   *)

NoJob == [state |-> "none", files |-> {}, file |-> NoFile, days |-> {}, processed |-> 0, failed |-> 0]

\* Mutated: the directories in the order of their names.
BeforeByName(f, g) == f.dir < g.dir
\* The archive first, so that an update has the last word.
Before(f, g) == IF f.archive = g.archive THEN f.dir < g.dir ELSE f.archive
First(files) == CHOOSE f \in files : \A g \in files : ~Before(g, f)

\* Refused while a job is running.
StartJob ==
  /\ job.state # "running"
  /\ job' = [NoJob EXCEPT !.state = "running", !.files = Disk]
  /\ alone' = ~post.active
  /\ UNCHANGED <<doc, post, cell, answer, replaced, posts, faults>>

\* A file that cannot be read is a failed result, and the job goes on.
NextFile ==
  /\ job.state = "running" /\ job.days = {} /\ job.files # {}
  /\ LET f == First(job.files)
         days == IF Readable(f.sheet) THEN DaysOf(f.sheet) ELSE {} IN
     job' = [job EXCEPT !.files = @ \ {f}, !.file = f, !.days = days,
               !.processed = IF days = {} THEN @ + 1 ELSE @,
               !.failed = IF Readable(f.sheet) THEN @ ELSE @ + 1]
  /\ UNCHANGED <<doc, post, cell, answer, alone, replaced, posts, faults>>

JobDay ==
  /\ job.state = "running" /\ job.days # {}
  /\ LET d == Min(job.days) IN
     /\ Upsert(d, job.file.sheet[d], FALSE)
     /\ job' = [job EXCEPT !.days = @ \ {d}, !.processed = IF job.days = {d} THEN @ + 1 ELSE @]
  /\ UNCHANGED <<post, cell, answer, alone, replaced, posts, faults>>

JobDayFails ==
  /\ job.state = "running" /\ job.days # {} /\ faults < MaxFaults
  /\ job' = [job EXCEPT !.days = {}, !.processed = @ + 1, !.failed = @ + 1]
  /\ faults' = faults + 1
  /\ UNCHANGED <<doc, post, cell, answer, alone, replaced, posts>>

JobEnds ==
  /\ job.state = "running" /\ job.days = {} /\ job.files = {}
  /\ job' = [job EXCEPT !.state = "done", !.file = NoFile]
  /\ UNCHANGED <<doc, post, cell, answer, alone, replaced, posts, faults>>

\* The upload and the job live in the process.
Crash ==
  /\ faults < MaxFaults /\ faults' = faults + 1
  /\ post' = NoPost /\ job' = NoJob
  /\ UNCHANGED <<doc, cell, answer, alone, replaced, posts>>

------------------------------------------------------------------------------
(* BacktestService.run and its callers.                                     *)

Accepts(d, session, allow) == session = "full" \/ allow \/ Complete(Candles(d))

\* A day's candles are kept in the order of their minutes: the i-th has i - 1 before it.
InOrder(S) == [i \in 1 .. Cardinality(S) |-> CHOOSE t \in S : Cardinality({u \in S : u < t}) = i - 1]

\* The day is read once; what it holds is judged and fed in one go.
Backtested(d, session, allow) ==
  LET times == DOMAIN Candles(d)
      status == IF times = {} THEN "404" ELSE IF Accepts(d, session, allow) THEN "ok" ELSE "422"
  IN  [session |-> session, allow |-> allow, status |-> status,
       fed |-> IF status # "ok" THEN <<>>
               ELSE InOrder({t \in times : session = "full" \/ InWindow(t)})]

\* POST backtest.
Ask ==
  /\ \E d \in Dates : \/ \E allow \in BOOLEAN : answer' = Backtested(d, "rth", allow)
                       \/ answer' = Backtested(d, "full", FALSE)
  /\ UNCHANGED <<doc, post, job, cell, alone, replaced, posts, faults>>

\* The day loop of the benchmark skips a day without candles or with a gap.
Submit(d) ==
  /\ cell[d] = NoCell /\ Complete(Candles(d))
  /\ cell' = [cell EXCEPT ![d] = "submitted"]
  /\ UNCHANGED <<doc, post, job, answer, alone, replaced, posts, faults>>

\* Grading, hours later; what is not the setup's fault is a CLI_ERROR, for good.
Grade(d) ==
  /\ cell[d] = "submitted"
  /\ answer' = Backtested(d, "rth", FALSE)
  /\ cell' = [cell EXCEPT ![d] = IF answer'.status = "ok" THEN "graded" ELSE "refused"]
  /\ UNCHANGED <<doc, post, job, alone, replaced, posts, faults>>

\* The day cannot be read, and is not asked for again.
GradeUnread(d) ==
  /\ cell[d] = "submitted" /\ faults < MaxFaults /\ faults' = faults + 1
  /\ cell' = [cell EXCEPT ![d] = "unread"]
  /\ UNCHANGED <<doc, post, job, answer, alone, replaced, posts>>

Init ==
  /\ doc = [d \in Dates |-> NoDoc]
  /\ post = NoPost /\ job = NoJob
  /\ cell = [d \in Dates |-> NoCell]
  /\ answer = [session |-> "rth", allow |-> FALSE, status |-> "none", fed |-> <<>>]
  /\ alone = FALSE /\ replaced = FALSE /\ posts = 0 /\ faults = 0

Next ==
  \/ Upload \/ UploadDay \/ UploadEnds \/ UploadFails
  \/ StartJob \/ NextFile \/ JobDay \/ JobDayFails \/ JobEnds \/ Crash
  \/ Ask \/ \E d \in Dates : Submit(d) \/ Grade(d) \/ GradeUnread(d)

Spec == Init /\ [][Next]_vars

------------------------------------------------------------------------------
(* Properties.                                                              *)

\* The verdict a day is listed with is that of the candles it holds now, whatever
\* merges, replacements and unwritten uploads came before (coverage.rthComplete).
VerdictIsCurrent == \A d \in Dates : doc[d] # NoDoc => doc[d].complete = Complete(doc[d].candles)

\* A session that is not explicitly allowed to be incomplete is graded on every
\* minute of the session, once, in order, and on nothing else.
GradedIsWhole ==
  answer.status = "ok" /\ answer.session = "rth" /\ ~answer.allow =>
    answer.fed = [i \in 1 .. (Close - Open) \div Step |-> Open + (i - 1) * Step]

\* A day that was complete when its cells were submitted still is when they are
\* graded, whatever is uploaded in between, unless an upload replaces days: merging
\* never takes a session apart.  The CLI_ERROR of a read that fails is another matter:
\* the code has no way to grade such a cell again.
SubmittedIsGraded == ~replaced => \A d \in Dates : cell[d] # "refused"

Says(f, d, t) == f.sheet # Malformed /\ Aligned(f.sheet) /\ \E i \in DOMAIN f.sheet[d] : f.sheet[d][i].t = t

\* An update is fresher than any archive, and of one kind the directory that sorts last.
Fresher(g, f) == (f.archive /\ ~g.archive) \/ (f.archive = g.archive /\ f.dir < g.dir)

\* "update (fresher) wins last-write in the per-candle merge" (discoverDataDirs): after
\* a job that failed at nothing and that no upload has written beside, every minute
\* has the candle of the freshest file there is one in.
FreshWins ==
  job.state = "done" /\ job.failed = 0 /\ alone =>
    \A d \in Dates, f \in Disk : \A t \in Times :
      /\ Says(f, d, t) => t \in DOMAIN Candles(d)
      /\ Says(f, d, t) /\ (\A g \in Disk : Fresher(g, f) => ~Says(g, d, t)) =>
           Candles(d)[t] = LastWins(f.sheet[d])[t]

\* "safely re-runnable; upserts are idempotent" (ContractIngestService): a minute that
\* has the freshest file's candle keeps it while only the job writes.
FreshStays ==
  [][\A d \in Dates, f \in Disk : \A t \in DOMAIN Candles(d) :
       /\ job.state = "running" /\ job'.state = "running" /\ post' = post
       /\ Says(f, d, t) /\ \A g \in Disk : Fresher(g, f) => ~Says(g, d, t)
       /\ Candles(d)[t] = LastWins(f.sheet[d])[t]
       => Candles(d)'[t] = Candles(d)[t]]_vars
==============================================================================
