-------------------------- MODULE EminiplayerProofs --------------------------
(***************************************************************************)
(* Theorems about EminiplayerIngest, for any days, videos and pages and    *)
(* any archive over them, whatever its versions, its transcripts and the   *)
(* verdicts: what a committed day holds, that videos are not shared, and   *)
(* that an audit finds nothing.  The last section is about the bulk        *)
(* backfill over it (EminiplayerBackfill): what its counts say.            *)
(***************************************************************************)
EXTENDS EminiplayerBackfill, FiniteSetTheorems, TLAPS

USE ShapeAssumption, NoneAssumption, StoredAssumption

\* Where a run has touched nothing yet, and where it has gathered what it uploads.
AtRest == {"idle", "list", "plan", "read", "release", "unlink"}
Gathering == {"resolve", "stale", "produce"}
Made == {"recap", "planMd", "pdf", "claim", "save"}

\* Every artifact is the right one of its day.
Fits(d, date, recap, plan, pdf) ==
  SpeaksOf(recap, date, "recap") /\ SpeaksOf(plan, d, "tradePlan") /\ PdfFits(Worksheet[pdf])

\* A run has gathered what its place in the code needs.
RunOK(d) ==
  /\ run[d].pc \notin {"idle", "list"} =>
       run[d].entries \in Entries /\ DayInvariants(d, run[d].entries.recapDate)
  /\ run[d].pc \in {"read", "release", "unlink"} => run[d].force
  /\ run[d].pc \in {"stale", "produce"} \cup Made => run[d].sources \in Sources
  /\ run[d].pc \in Made =>
       /\ run[d].recap \in Contents /\ run[d].plan \in Contents /\ run[d].pdf \in Contents
       /\ Fits(d, run[d].entries.recapDate, run[d].recap, run[d].plan, run[d].pdf)

\* A day is not worked on while it is committed, but to clean up after a commit that was
\* reported as failed, and what it committed fits it.
ManifestOK(d) ==
  manifest[d] # NoManifest =>
    /\ run[d].pc \in AtRest \/ (run[d].pc = "discard" /\ ~Spared({"ack"}))
    /\ DayInvariants(d, manifest[d].recapDate)
    /\ Fits(d, manifest[d].recapDate, manifest[d].recap, manifest[d].plan, manifest[d].pdf)

DayInv == \A d \in Days : RunOK(d) /\ ManifestOK(d)

------------------------------------------------------------------------------
(* The files.                                                               *)

\* What the run has reloaded or uploaded is at rest as it was made, beside nothing else,
\* unless a sweep has deleted some of it since.
FilesOK(d) ==
  /\ run[d].pc \in {"produce"} \cup Made => Present(d) \subseteq Discarded(d)
  /\ run[d].pc \in Made /\ d \notin swept =>
       /\ run[d].entries.recapDate \in run[d].reused \/ run[d].pc # "recap" =>
            files[d][run[d].entries.recapDate] = run[d].recap
       /\ PlanMd \in run[d].reused \/ run[d].pc \in {"pdf", "claim", "save"} => files[d][PlanMd] = run[d].plan
       /\ PlanPdf \in run[d].reused \/ run[d].pc \in {"claim", "save"} => files[d][PlanPdf] = run[d].pdf

FilesInv == (\A d \in Days : FilesOK(d)) /\ CommittedIsComplete

------------------------------------------------------------------------------
(* What is left behind.                                                     *)

\* Nobody has forced anything.
ForceInv == forces = 0 => \A d \in Days : ~run[d].force /\ ~waiting[d]

\* What an uncommitted day cannot hold before a run that reloads looks for it: a plan or
\* a pdf, if no uncommit was reported as failed; a recap of some date only after a forced run.
Gone(d, s) == (s \in {PlanMd, PlanPdf} /\ Spared({"ack"})) \/ forces = 0 => files[d][s] = NoFile
LeftOK(d) ==
  manifest[d] = NoManifest =>
    /\ run[d].pc \in AtRest \/ (run[d].pc \in Gathering /\ ~run[d].force) => \A s \in Slots : Gone(d, s)
    /\ forces = 0 /\ run[d].pc \in Made \cup {"discard"} => Present(d) \subseteq Discarded(d)
SourcesOK(d) ==
  run[d].pc \in Made =>
    /\ Spared({"ack"}) \/ forces = 0 => run[d].plan = run[d].sources.plan
    /\ forces = 0 => run[d].recap = run[d].sources.recap

LeftInv ==
  /\ ForceInv
  /\ Spared({"discard", "crash"}) => \A d \in Days : LeftOK(d) /\ SourcesOK(d)
  /\ SourcesMatch

------------------------------------------------------------------------------
(* The claims.                                                              *)

\* Both videos of the sources are claimed for the day, each for its slot.
Claimed(d, sources) ==
  /\ claim[sources.recap] = ClaimFor(d, "recap") /\ claim[sources.plan] = ClaimFor(d, "tradePlan")
  /\ sources.recap # sources.plan

\* A committed day and one that is about to be have their claims.
ClaimInv ==
  Spared({"uncommit", "crash"}) => \A d \in Days :
    /\ manifest[d] # NoManifest /\ ~At(d, "unlink") => Claimed(d, manifest[d].sources)
    /\ At(d, "save") => Claimed(d, run[d].sources)

\* No claim is of anything else; a run that will release a day's claims has them all.
BackedInv ==
  Spared({"save", "ack", "uncommit", "read", "crash"}) =>
    /\ \A v \in Videos : claim[v] # NoClaim => LET d == claim[v].day IN
         \/ manifest[d] # NoManifest /\ ~At(d, "unlink") /\ v \in Used(manifest[d].sources)
         \/ At(d, "save") /\ v \in Used(run[d].sources)
    /\ \A d \in Days : At(d, "release") /\ manifest[d] # NoManifest => run[d].old = Used(manifest[d].sources)

IInv == TypeOK /\ DayInv /\ FilesInv /\ LeftInv /\ ClaimInv /\ BackedInv

------------------------------------------------------------------------------
(* The types.                                                               *)

LEMMA NoRunTyped == NoRun \in Runs
BY DEF NoRun, Runs, Pcs

LEMMA GotoTyped ==
  ASSUME TypeOK, NEW d \in Days, NEW pc \in Pcs, Goto(d, pc)
  PROVE  run' \in [Days -> Runs]
<1>r. run[d] \in Runs
  BY Zenon DEF TypeOK
<1>1. [run[d] EXCEPT !.pc = pc] \in Runs
  BY <1>r DEF Runs
<1>2. (IF pc = "idle" THEN NoRun ELSE [run[d] EXCEPT !.pc = pc]) \in Runs
  BY <1>1, NoRunTyped
<1> QED
  BY <1>2 DEF Goto, TypeOK

LEMMA ResolvedTyped ==
  ASSUME NEW v \in Versions, NEW d \in Days
  PROVE  /\ Resolved[v][d] = Resolution(v, d)
         /\ ~Failed(Resolved[v][d]) =>
              Resolved[v][d] \in Entries /\ DayInvariants(d, Resolved[v][d].recapDate)
<1>1. Resolved[v][d] = Resolution(v, d)
  BY DEF Resolved
<1>2. ~Failed(Resolution(v, d)) => Resolution(v, d) \in Entries
  BY SiteAssumption
<1>3. ~Failed(Resolution(v, d)) => DayInvariants(d, Resolution(v, d).recapDate)
  <2>1. Failed([error |-> "validation"])
    BY DEF Failed
  <2>2. CASE ~Failed(SelectDayEntries(Site[v].rows, d)) /\ ~DayInvariants(d, SelectDayEntries(Site[v].rows, d).recapDate)
    BY <2>1, <2>2, Zenon DEF Resolution
  <2>3. CASE Failed(SelectDayEntries(Site[v].rows, d)) \/ DayInvariants(d, SelectDayEntries(Site[v].rows, d).recapDate)
    <3>1. Resolution(v, d) = SelectDayEntries(Site[v].rows, d)
      BY <2>3, Zenon DEF Resolution
    <3> QED
      BY <2>3, <3>1, Zenon
  <2> QED
    BY <2>2, <2>3
<1> QED
  BY <1>1, <1>2, <1>3

LEMMA WithoutEffect ==
  ASSUME TypeOK, NEW d \in Days, NEW S, files' = Without(d, S)
  PROVE  /\ files' \in [Days -> [Slots -> Contents \cup {NoFile}]]
         /\ files'[d] = [s \in Slots |-> IF s \in S THEN NoFile ELSE files[d][s]]
         /\ \A e \in Days \ {d} : files'[e] = files[e]
BY DEF Without, TypeOK

LEMMA FaultTyped ==
  ASSUME TypeOK, NEW kind, Fault(kind)
  PROVE  faults' \in [Faults -> Nat]
BY DEF Fault, TypeOK

\* The runs of the other days go on as they are.
LEMMA RunSet ==
  ASSUME TypeOK, NEW d \in Days, NEW r \in Runs, run' = [run EXCEPT ![d] = r]
  PROVE  run' \in [Days -> Runs] /\ run'[d] = r /\ \A e \in Days \ {d} : run'[e] = run[e]
BY DEF TypeOK

LEMMA GotoEffect ==
  ASSUME TypeOK, NEW d \in Days, NEW pc \in Pcs, Goto(d, pc)
  PROVE  /\ run' \in [Days -> Runs] /\ \A e \in Days \ {d} : run'[e] = run[e]
         /\ run'[d].pc = pc
         /\ pc = "idle" => run'[d] = NoRun
         /\ pc # "idle" => run'[d] = [run[d] EXCEPT !.pc = pc]
<1>1. run' \in [Days -> Runs] /\ \A e \in Days \ {d} : run'[e] = run[e]
  BY GotoTyped DEF Goto, TypeOK
<1>r. run[d] \in Runs
  BY Zenon DEF TypeOK
<1>2. run'[d] = IF pc = "idle" THEN NoRun ELSE [run[d] EXCEPT !.pc = pc]
  BY DEF Goto, TypeOK
<1> QED
  BY <1>r, <1>1, <1>2 DEF NoRun, Runs

LEMMA FreshEffect ==
  ASSUME TypeOK, NEW d \in Days, NEW force \in BOOLEAN, run' = [run EXCEPT ![d] = Fresh(force)]
  PROVE  /\ run' \in [Days -> Runs] /\ \A e \in Days \ {d} : run'[e] = run[e]
         /\ run'[d].pc = "list" /\ run'[d].force = force
<1>1. Fresh(force) \in Runs /\ Fresh(force).pc = "list" /\ Fresh(force).force = force
  BY NoRunTyped DEF Fresh, Runs, Pcs
<1> QED
  BY <1>1, RunSet

LEMMA PreparedEffect ==
  ASSUME TypeOK, NEW d \in Days, NEW v \in Versions, ~Failed(Resolved[v][d]), run' = [run EXCEPT ![d] = Prepared(v, d)]
  PROVE  /\ run' \in [Days -> Runs] /\ \A e \in Days \ {d} : run'[e] = run[e]
         /\ run'[d].pc = "plan" /\ ~run'[d].force /\ run'[d].entries = Resolved[v][d]
         /\ run'[d].entries \in Entries /\ DayInvariants(d, run'[d].entries.recapDate)
<1>1. Resolved[v][d] \in Entries /\ DayInvariants(d, Resolved[v][d].recapDate)
  BY ResolvedTyped
<1>2. /\ Prepared(v, d) \in Runs /\ Prepared(v, d).pc = "plan" /\ Prepared(v, d).force = FALSE
      /\ Prepared(v, d).entries = Resolved[v][d]
  BY <1>1, NoRunTyped DEF Prepared, NoRun, Runs, Pcs
<1> QED
  BY <1>1, <1>2, RunSet

\* How a run begins, and what the listing gives it.
LEMMA BeginEffect ==
  ASSUME TypeOK, NEW d \in Days, Ingest(d) \/ IngestPrepared(d) \/ BeginForced(d)
  PROVE  /\ run' \in [Days -> Runs] /\ \A e \in Days \ {d} : run'[e] = run[e]
         /\ run[d].pc = "idle"
         /\ \/ run'[d].pc = "list" /\ (run'[d].force => waiting[d])
            \/ /\ run'[d].pc = "plan" /\ ~run'[d].force
               /\ run'[d].entries \in Entries /\ DayInvariants(d, run'[d].entries.recapDate)
<1>1. CASE Ingest(d)
  BY <1>1, FreshEffect DEF Ingest, At
<1>2. CASE IngestPrepared(d)
  BY <1>2, PreparedEffect DEF IngestPrepared, At
<1>3. CASE BeginForced(d)
  BY <1>3, FreshEffect DEF BeginForced, At
<1> QED
  BY <1>1, <1>2, <1>3

LEMMA ListEffect ==
  ASSUME TypeOK, NEW d \in Days, List(d)
  PROVE  /\ run' \in [Days -> Runs] /\ \A e \in Days \ {d} : run'[e] = run[e]
         /\ run[d].pc = "list"
         /\ \/ run'[d] = NoRun
            \/ /\ run'[d].pc = (IF run[d].force THEN "read" ELSE "plan") /\ run'[d].force = run[d].force
               /\ run'[d].entries = Resolved[version][d]
               /\ run'[d].entries \in Entries /\ DayInvariants(d, run'[d].entries.recapDate)
<1>v. version \in Versions /\ run[d] \in Runs
  BY Zenon DEF TypeOK
<1>1. CASE Failed(Resolved[version][d])
  BY <1>1, GotoEffect DEF List, At, Pcs
<1>2. CASE ~Failed(Resolved[version][d])
  <2> DEFINE pc == IF run[d].force THEN "read" ELSE "plan"
             r == [run[d] EXCEPT !.pc = pc, !.entries = Resolved[version][d]]
  <2>1. Resolved[version][d] \in Entries /\ DayInvariants(d, Resolved[version][d].recapDate)
    BY <1>v, <1>2, ResolvedTyped
  <2>2. pc \in Pcs
    BY DEF Pcs
  <2>3. run' = [run EXCEPT ![d] = r]
    BY <1>2 DEF List, TypeOK
  <2> HIDE DEF pc
  <2>4. /\ r \in Runs /\ r.pc = pc /\ r.force = run[d].force
        /\ r.entries = Resolved[version][d]
    BY <1>v, <2>1, <2>2 DEF Runs
  <2> HIDE DEF r
  <2>5. run' \in [Days -> Runs] /\ run'[d] = r /\ \A e \in Days \ {d} : run'[e] = run[e]
    BY <2>3, <2>4, RunSet
  <2> QED
    BY <2>1, <2>4, <2>5 DEF pc, List, At
<1> QED
  BY <1>1, <1>2

\* The run of a day goes to another place and keeps what it has.
Goes(d, from, pc) == run[d].pc = from /\ run'[d] = [run[d] EXCEPT !.pc = pc]
RunsOn(d) == run' \in [Days -> Runs] /\ \A e \in Days \ {d} : run'[e] = run[e]

\* The steps before a run starts to work, and those that gather no more.
Rests(d) == Plan(d) \/ ReadManifest(d) \/ Release(d) \/ Unlink(d) \/ UncommitFails(d) \/ UncommitUnsure(d)
Works(d) ==
  \/ RemoveStaleRecaps(d) \/ Upload(d) \/ ClaimVideos(d) \/ SaveManifest(d) \/ SaveUnsure(d)
  \/ StageFails(d) \/ Discard(d)

\* A request that is forced, or a run before it starts to work: only the read gathers.
LEMMA RestEffect ==
  ASSUME TypeOK, NEW d \in Days, Rests(d)
  PROVE  /\ RunsOn(d)
         /\ \/ run[d].pc = "plan" /\ run'[d] = NoRun /\ manifest[d] # NoManifest
            \/ Goes(d, "plan", "resolve") /\ manifest[d] = NoManifest
            \/ /\ run[d].pc = "read" /\ run'[d].pc = "release" /\ run'[d].force = run[d].force
               /\ run'[d].entries = run[d].entries
               /\ (manifest[d] # NoManifest => run'[d].old = Used(manifest[d].sources)) \/ Fault("read")
            \/ Release(d) /\ Goes(d, "release", "unlink")
            \/ Unlink(d) /\ Goes(d, "unlink", "resolve")
            \/ run[d].pc \in {"release", "unlink"} /\ run'[d] = NoRun /\ Fault("uncommit")
            \/ UncommitUnsure(d) /\ run[d].pc = "unlink" /\ run'[d] = NoRun
<1>1. CASE Plan(d)
  <2>1. CASE manifest[d] = NoManifest
    <3>1. Goto(d, "resolve") /\ run[d].pc = "plan"
      BY <1>1, <2>1, Zenon DEF Plan, At
    <3>2. RunsOn(d) /\ Goes(d, "plan", "resolve")
      BY <3>1, GotoEffect DEF Pcs, Goes, RunsOn
    <3> QED
      BY <2>1, <3>2
  <2>2. CASE manifest[d] # NoManifest
    <3>1. Goto(d, "idle")
      BY <1>1, <2>2, Zenon DEF Plan, AfterRefusal
    <3> QED
      BY <1>1, <2>2, <3>1, GotoEffect DEF Plan, At, Pcs, RunsOn
  <2> QED
    BY <2>1, <2>2
<1>2. CASE ReadManifest(d)
  <2>1. CASE Fault("read") /\ Goto(d, "release")
    <3>1. run[d] \in Runs
      BY Zenon DEF TypeOK
    <3>2. RunsOn(d) /\ run'[d] = [run[d] EXCEPT !.pc = "release"]
      BY <2>1, GotoEffect DEF Pcs, RunsOn
    <3>3. run'[d].pc = "release" /\ run'[d].force = run[d].force /\ run'[d].entries = run[d].entries
      BY <3>1, <3>2 DEF Runs
    <3> QED
      BY <1>2, <2>1, <3>2, <3>3 DEF ReadManifest, At
  <2>2. ASSUME NEW old, old = IF manifest[d] = NoManifest THEN {} ELSE Used(manifest[d].sources),
               run' = [run EXCEPT ![d].pc = "release", ![d].old = old]
        PROVE  RunsOn(d) /\ run'[d].pc = "release" /\ run'[d].force = run[d].force
               /\ run'[d].entries = run[d].entries /\ run'[d].old = old
    <3> DEFINE r == [run[d] EXCEPT !.pc = "release", !.old = old]
    <3>1. old \subseteq Videos
      <4>1. manifest[d] \in Manifests \cup {NoManifest}
        BY Zenon DEF TypeOK
      <4> QED
        BY <2>2, <4>1 DEF Manifests, Sources, Used
    <3>2. run[d] \in Runs
      BY Zenon DEF TypeOK
    <3>3. r \in Runs /\ r.pc = "release" /\ r.force = run[d].force /\ r.entries = run[d].entries /\ r.old = old
      BY <3>1, <3>2 DEF Runs, Pcs
    <3>4. run' = [run EXCEPT ![d] = r]
      BY <2>2 DEF TypeOK
    <3> HIDE DEF r
    <3> QED
      BY <3>3, <3>4, RunSet DEF RunsOn
  <2> QED
    BY <1>2, <2>1, <2>2 DEF ReadManifest, At
<1>3. CASE Release(d) \/ Unlink(d) \/ UncommitFails(d) \/ UncommitUnsure(d)
  BY <1>3, GotoEffect DEF Release, Unlink, UncommitFails, UncommitUnsure, At, Pcs, Goes, RunsOn
<1> QED
  BY <1>1, <1>2, <1>3 DEF Rests

\* The videos of the day are found, are not another's, and are kept; or the run gives up.
LEMMA ResolveEffect ==
  ASSUME TypeOK, NEW d \in Days, RunOK(d), Resolve(d)
  PROVE  /\ RunsOn(d)
         /\ \/ Goes(d, "resolve", "discard")
            \/ /\ run[d].pc = "resolve" /\ run'[d].pc = "stale" /\ run'[d].sources \in Sources
               /\ run'[d].force = run[d].force /\ run'[d].entries = run[d].entries
<1>1. CASE Goto(d, "discard")
  BY <1>1, GotoEffect DEF Resolve, At, Pcs, Goes, RunsOn
<1>2. CASE ~Goto(d, "discard")
  <2> DEFINE recaps == Embedded(Site[version].embeds[run[d].entries.recap])
             plans == Embedded(Site[version].embeds[run[d].entries.plan])
             sources == [recap |-> recaps[1].video, plan |-> plans[1].video]
             r == [run[d] EXCEPT !.pc = "stale", !.sources = sources]
  <2>1. run[d] \in Runs /\ version \in Versions
    BY Zenon DEF TypeOK
  <2>2. run[d].entries.recap \in Pages /\ run[d].entries.plan \in Pages
    BY <2>1 DEF Resolve, At, RunOK, Entries
  <2>3. recaps # <<>> /\ plans # <<>> /\ run' = [run EXCEPT ![d].pc = "stale", ![d].sources = sources]
    BY <1>2, Zenon DEF Resolve
  <2>4. sources \in Sources
    BY <2>1, <2>2, <2>3, SiteAssumption DEF Sources
  <2> HIDE DEF sources
  <2>5. r \in Runs /\ r.pc = "stale" /\ r.sources = sources /\ r.force = run[d].force /\ r.entries = run[d].entries
    BY <2>1, <2>4 DEF Runs, Pcs
  <2>6. run' = [run EXCEPT ![d] = r]
    BY <2>3 DEF TypeOK
  <2> HIDE DEF r
  <2> QED
    BY <2>4, <2>5, <2>6, RunSet DEF RunsOn, Resolve, At
<1> QED
  BY <1>1, <1>2

\* Every artifact is reloaded or made, fits, and is kept; or the run gives up.
LEMMA ProduceEffect ==
  ASSUME TypeOK, NEW d \in Days, RunOK(d), Produce(d)
  PROVE  /\ RunsOn(d)
         /\ \/ Goes(d, "produce", "discard")
            \/ LET date == run[d].entries.recapDate IN
               /\ run[d].pc = "produce" /\ run'[d].pc = "recap"
               /\ run'[d].force = run[d].force /\ run'[d].entries = run[d].entries
               /\ run'[d].sources = run[d].sources
               /\ run'[d].reused = (IF run[d].force THEN {} ELSE Present(d))
               /\ run'[d].recap = (IF date \in run'[d].reused THEN files[d][date] ELSE run[d].sources.recap)
               /\ run'[d].plan = (IF PlanMd \in run'[d].reused THEN files[d][PlanMd] ELSE run[d].sources.plan)
               /\ run'[d].pdf = (IF PlanPdf \in run'[d].reused THEN files[d][PlanPdf] ELSE run[d].entries.plan)
               /\ run'[d].recap \in Contents /\ run'[d].plan \in Contents /\ run'[d].pdf \in Contents
               /\ Fits(d, date, run'[d].recap, run'[d].plan, run'[d].pdf)
<1>1. CASE Goto(d, "discard")
  BY <1>1, GotoEffect DEF Produce, At, Pcs, Goes, RunsOn
<1>2. CASE ~Goto(d, "discard")
  <2> DEFINE reused == IF run[d].force THEN {} ELSE Present(d)
             date == run[d].entries.recapDate
             recap == IF date \in reused THEN files[d][date] ELSE run[d].sources.recap
             plan == IF PlanMd \in reused THEN files[d][PlanMd] ELSE run[d].sources.plan
             pdf == IF PlanPdf \in reused THEN files[d][PlanPdf] ELSE run[d].entries.plan
             r == [run[d] EXCEPT !.pc = "recap", !.reused = reused, !.recap = recap, !.plan = plan, !.pdf = pdf]
  <2>1. run[d] \in Runs /\ files[d] \in [Slots -> Contents \cup {NoFile}]
    BY Zenon DEF TypeOK
  <2>2. run[d].entries \in Entries /\ run[d].sources \in Sources /\ run[d].pc = "produce"
    BY DEF Produce, At, RunOK
  <2>3. reused \subseteq Slots /\ \A s \in reused : files[d][s] \in Contents
    BY <2>1 DEF Present
  <2>4. /\ SpeaksOf(recap, date, "recap") /\ SpeaksOf(plan, d, "tradePlan") /\ PdfFits(Worksheet[pdf])
        /\ run' = [run EXCEPT ![d].pc = "recap", ![d].reused = reused,
                      ![d].recap = recap, ![d].plan = plan, ![d].pdf = pdf]
    BY <1>2, Zenon DEF Produce
  <2> HIDE DEF reused
  <2>5. recap \in Contents /\ plan \in Contents /\ pdf \in Contents
    BY <2>2, <2>3 DEF Sources, Entries, Contents
  <2> HIDE DEF recap, plan, pdf
  <2>6. /\ r \in Runs /\ r.pc = "recap" /\ r.force = run[d].force /\ r.entries = run[d].entries
        /\ r.sources = run[d].sources /\ r.reused = reused /\ r.recap = recap /\ r.plan = plan /\ r.pdf = pdf
    BY <2>1, <2>3, <2>5 DEF Runs, Pcs
  <2>7. run' = [run EXCEPT ![d] = r]
    BY <2>4 DEF TypeOK
  <2> HIDE DEF r
  <2>8. RunsOn(d) /\ run'[d] = r
    BY <2>6, <2>7, RunSet DEF RunsOn
  <2>9. Fits(d, date, recap, plan, pdf)
    BY <2>4 DEF Fits
  <2> QED
    BY <2>2, <2>5, <2>6, <2>8, <2>9 DEF reused, recap, plan, pdf
<1> QED
  BY <1>1, <1>2

\* From the removal of stale recaps to the end: no more is gathered.
LEMMA WorkEffect ==
  ASSUME TypeOK, NEW d \in Days, Works(d)
  PROVE  /\ RunsOn(d)
         /\ \/ RemoveStaleRecaps(d) /\ Goes(d, "stale", "produce")
            \/ Upload(d) /\ Goes(d, "recap", "planMd") /\ Put(d, run[d].entries.recapDate, run[d].recap)
            \/ Upload(d) /\ Goes(d, "planMd", "pdf") /\ Put(d, PlanMd, run[d].plan)
            \/ Upload(d) /\ Goes(d, "pdf", "claim") /\ Put(d, PlanPdf, run[d].pdf)
            \/ ClaimVideos(d) /\ Goes(d, "claim", "discard") /\ claim' = claim
            \/ /\ ClaimVideos(d) /\ Goes(d, "claim", "save") /\ ~Conflicts(d, run[d].sources)
               /\ claim' = [claim EXCEPT ![run[d].sources.recap] = ClaimFor(d, "recap"),
                                         ![run[d].sources.plan] = ClaimFor(d, "tradePlan")]
            \/ SaveManifest(d) /\ run[d].pc = "save" /\ run'[d] = NoRun
            \/ SaveUnsure(d) /\ Goes(d, "save", "discard")
            \/ /\ StageFails(d) /\ run[d].pc \in Gathering \cup Made
               /\ Goes(d, run[d].pc, "discard") /\ (run[d].pc = "save" => Fault("save"))
            \/ Discard(d) /\ run[d].pc = "discard" /\ run'[d] = NoRun
<1>1. CASE RemoveStaleRecaps(d)
  BY <1>1, GotoEffect DEF RemoveStaleRecaps, At, Pcs, Goes, RunsOn
<1>2. CASE Upload(d)
  BY <1>2, GotoEffect DEF Upload, At, Pcs, Goes, RunsOn
<1>3. CASE ClaimVideos(d)
  <2>1. CASE Conflicts(d, run[d].sources)
    <3>1. Goto(d, "discard") /\ claim' = claim /\ run[d].pc = "claim"
      BY <1>3, <2>1, Zenon DEF ClaimVideos, Refused, At
    <3> QED
      BY <1>3, <3>1, GotoEffect DEF Pcs, Goes, RunsOn
  <2>2. CASE ~Conflicts(d, run[d].sources)
    <3>1. /\ Goto(d, "save") /\ run[d].pc = "claim"
          /\ claim' = [claim EXCEPT ![run[d].sources.recap] = ClaimFor(d, "recap"),
                                    ![run[d].sources.plan] = ClaimFor(d, "tradePlan")]
      BY <1>3, <2>2, Zenon DEF ClaimVideos, Refused, At
    <3> QED
      BY <1>3, <2>2, <3>1, GotoEffect DEF Pcs, Goes, RunsOn
  <2> QED
    BY <2>1, <2>2
<1>4. CASE SaveManifest(d)
  BY <1>4, GotoEffect DEF SaveManifest, At, Pcs, RunsOn
<1>5. CASE StageFails(d)
  BY <1>5, GotoEffect DEF StageFails, At, Pcs, Goes, RunsOn, Gathering, Made
<1>6. CASE Discard(d)
  BY <1>6, GotoEffect DEF Discard, At, Pcs, RunsOn
<1>7. CASE SaveUnsure(d)
  BY <1>7, GotoEffect DEF SaveUnsure, At, Pcs, Goes, RunsOn
<1> QED
  BY <1>1, <1>2, <1>3, <1>4, <1>5, <1>6, <1>7 DEF Works

------------------------------------------------------------------------------
(* Every day has its own run: a step belongs to one day, or to none.        *)

Begins(d) == Ingest(d) \/ IngestPrepared(d) \/ BeginForced(d)
DayStep(d) == Begins(d) \/ List(d) \/ Rests(d) \/ Resolve(d) \/ Produce(d) \/ Works(d)

LEMMA Steps ==
  ASSUME [Next]_vars
  PROVE  \/ \E d \in Days : DayStep(d) \/ IngestForced(d)
         \/ PruneList \/ (\E o \in pruneTodo : PruneDelete(o)) \/ ArchiveMoves \/ Crash \/ UNCHANGED vars
BY DEF Next, RunStep, DayStep, Begins, Rests, Works

\* What a step of a day leaves alone of the days, and of everything else.
LEMMA StepOfDay ==
  ASSUME TypeOK, NEW d \in Days, RunOK(d), DayStep(d)
  PROVE  /\ RunsOn(d)
         /\ \A e \in Days \ {d} : files'[e] = files[e] /\ manifest'[e] = manifest[e]
         /\ UNCHANGED <<version, pruneTodo, forces>>
         /\ swept' = swept \/ (Produce(d) /\ swept' = swept \ {d})
         /\ waiting' \in [Days -> BOOLEAN] /\ \A e \in Days : ~waiting[e] => ~waiting'[e]
         /\ faults' \in [Faults -> Nat]
         /\ \A kind \in Faults : faults'[kind] = 0 => faults[kind] = 0
<1>1. RunsOn(d)
  BY BeginEffect, ListEffect, RestEffect, ResolveEffect, ProduceEffect, WorkEffect
  DEF DayStep, Begins, Rests, Works, RunsOn
<1>2. \A e \in Days \ {d} : files'[e] = files[e]
  <2>1. CASE files' = files
    BY <2>1
  <2>2. CASE \E S : files' = Without(d, S)
    BY <2>2, WithoutEffect
  <2>3. CASE \E s, content : Put(d, s, content)
    BY <2>3 DEF Put, With, TypeOK
  <2> QED
    BY <2>1, <2>2, <2>3 DEF DayStep, Begins, List, Rests, Works, Ingest, IngestPrepared, BeginForced, Plan, ReadManifest,
       Release, Unlink, UncommitFails, UncommitUnsure, Resolve, Produce, RemoveStaleRecaps, Upload, ClaimVideos, SaveManifest, SaveUnsure,
       StageFails, Discard, storeVars
<1>3. \A e \in Days \ {d} : manifest'[e] = manifest[e]
  BY DEF TypeOK, DayStep, Begins, List, Rests, Works, Ingest, IngestPrepared, BeginForced, Plan, ReadManifest,
     Release, Unlink, UncommitFails, UncommitUnsure, Resolve, Produce, RemoveStaleRecaps, Upload, ClaimVideos, SaveManifest, SaveUnsure,
     StageFails, Discard, storeVars
<1>4. UNCHANGED <<version, pruneTodo, forces>>
  BY DEF DayStep, Begins, List, Rests, Works, Ingest, IngestPrepared, BeginForced, Plan, ReadManifest,
     Release, Unlink, UncommitFails, UncommitUnsure, Resolve, Produce, RemoveStaleRecaps, Upload, ClaimVideos, SaveManifest, SaveUnsure,
     StageFails, Discard
<1>5. UNCHANGED waiting \/ waiting' = [waiting EXCEPT ![d] = FALSE]
  BY DEF DayStep, Begins, List, Rests, Works, Ingest, IngestPrepared, BeginForced, Plan, ReadManifest,
     Release, Unlink, UncommitFails, UncommitUnsure, Resolve, Produce, RemoveStaleRecaps, Upload, ClaimVideos, SaveManifest, SaveUnsure,
     StageFails, Discard
<1>6. waiting' \in [Days -> BOOLEAN] /\ \A e \in Days : ~waiting[e] => ~waiting'[e]
  BY <1>5 DEF TypeOK
<1>7. UNCHANGED faults \/ \E kind : Fault(kind)
  BY DEF DayStep, Begins, List, Rests, Works, Ingest, IngestPrepared, BeginForced, Plan, ReadManifest,
     Release, Unlink, UncommitFails, UncommitUnsure, Resolve, Produce, RemoveStaleRecaps, Upload, ClaimVideos, SaveManifest, SaveUnsure,
     StageFails, Discard
<1>8. faults' \in [Faults -> Nat] /\ \A kind \in Faults : faults'[kind] = 0 => faults[kind] = 0
  BY <1>7 DEF Fault, TypeOK
<1>9. swept' = swept \/ (Produce(d) /\ swept' = swept \ {d})
  BY DEF DayStep, Begins, List, Rests, Works, Ingest, IngestPrepared, BeginForced, Plan, ReadManifest,
     Release, Unlink, UncommitFails, UncommitUnsure, Resolve, Produce, RemoveStaleRecaps, Upload, ClaimVideos,
     SaveManifest, SaveUnsure, StageFails, Discard
<1> QED
  BY <1>1, <1>2, <1>3, <1>4, <1>6, <1>8, <1>9

LEMMA GoesKeeps ==
  ASSUME TypeOK, NEW d \in Days, NEW from, NEW pc, Goes(d, from, pc)
  PROVE  /\ run[d].pc = from /\ run'[d].pc = pc /\ run'[d].force = run[d].force
         /\ run'[d].entries = run[d].entries /\ run'[d].sources = run[d].sources
         /\ run'[d].old = run[d].old /\ run'[d].reused = run[d].reused
         /\ run'[d].recap = run[d].recap /\ run'[d].plan = run[d].plan /\ run'[d].pdf = run[d].pdf
<1>1. run[d] \in Runs
  BY Zenon DEF TypeOK
<1> QED
  BY <1>1 DEF Goes, Runs

\* Where a step of a resting run may lead: only the release comes to the unlinking, and only the
\* unlinking, or a day without a manifest, to the gathering.
LEMMA RestPlaces ==
  ASSUME TypeOK, NEW d \in Days, Rests(d)
  PROVE  /\ run[d].pc \in {"plan", "read", "release", "unlink"}
         /\ run'[d].pc \in {"idle", "resolve", "release", "unlink"}
         /\ run'[d].pc # "unlink" \/ Release(d)
         /\ run'[d].pc # "resolve" \/ Unlink(d) \/ manifest[d] = NoManifest
<1>1. Goes(d, "plan", "resolve") => run'[d].pc = "resolve" /\ run[d].pc = "plan"
  BY GoesKeeps
<1>2. Goes(d, "release", "unlink") => run'[d].pc = "unlink" /\ run[d].pc = "release"
  BY GoesKeeps
<1>3. Goes(d, "unlink", "resolve") => run'[d].pc = "resolve" /\ run[d].pc = "unlink"
  BY GoesKeeps
<1>4. run'[d] = NoRun => run'[d].pc = "idle"
  BY DEF NoRun
<1> QED
  BY <1>1, <1>2, <1>3, <1>4, RestEffect DEF Rests

\* Where each step starts, and where it leads.
LEMMA Places ==
  ASSUME TypeOK, NEW d \in Days, RunOK(d)
  PROVE  /\ Begins(d) => run[d].pc = "idle" /\ run'[d].pc \in {"list", "plan"}
         /\ List(d) => run[d].pc = "list" /\ run'[d].pc \in {"idle", "read", "plan"}
         /\ Rests(d) => /\ run[d].pc \in {"plan", "read", "release", "unlink"}
                        /\ run'[d].pc \in {"idle", "resolve", "release", "unlink"}
         /\ Resolve(d) => run[d].pc = "resolve" /\ run'[d].pc \in {"stale", "discard"}
         /\ RemoveStaleRecaps(d) => run[d].pc = "stale" /\ run'[d].pc = "produce"
         /\ Produce(d) => run[d].pc = "produce" /\ run'[d].pc \in {"recap", "discard"}
         /\ Upload(d) => <<run[d].pc, run'[d].pc>> \in {<<"recap", "planMd">>, <<"planMd", "pdf">>, <<"pdf", "claim">>}
         /\ ClaimVideos(d) => run[d].pc = "claim" /\ run'[d].pc \in {"save", "discard"}
         /\ SaveManifest(d) => run[d].pc = "save" /\ run'[d].pc = "idle"
         /\ SaveUnsure(d) => run[d].pc = "save" /\ run'[d].pc = "discard"
         /\ StageFails(d) => run[d].pc \in Gathering \cup Made /\ run'[d].pc = "discard"
         /\ Discard(d) => run[d].pc = "discard" /\ run'[d].pc = "idle"
<1> USE DEF Gathering, Made
<1>g. ASSUME NEW pc \in Pcs, Goto(d, pc)
      PROVE  run'[d].pc = pc
  BY <1>g, GotoEffect
<1>p. {"idle", "unlink", "resolve", "produce", "planMd", "pdf", "claim", "discard"} \subseteq Pcs
  BY DEF Pcs
<1>1. Begins(d) => run[d].pc = "idle" /\ run'[d].pc \in {"list", "plan"}
  BY BeginEffect DEF Begins
<1>2. List(d) => run[d].pc = "list" /\ run'[d].pc \in {"idle", "read", "plan"}
  BY ListEffect DEF NoRun
<1>3. Rests(d) => /\ run[d].pc \in {"plan", "read", "release", "unlink"}
                  /\ run'[d].pc \in {"idle", "resolve", "release", "unlink"}
  BY RestPlaces
<1>4. Resolve(d) => run[d].pc = "resolve" /\ run'[d].pc \in {"stale", "discard"}
  BY ResolveEffect, GoesKeeps
<1>5. RemoveStaleRecaps(d) => run[d].pc = "stale" /\ run'[d].pc = "produce"
  BY <1>g, <1>p DEF RemoveStaleRecaps, At
<1>6. Produce(d) => run[d].pc = "produce" /\ run'[d].pc \in {"recap", "discard"}
  <2> SUFFICES ASSUME Produce(d) PROVE run[d].pc = "produce" /\ run'[d].pc \in {"recap", "discard"}
    OBVIOUS
  <2>1. run[d].pc = "produce"
    BY DEF Produce, At
  <2>2. CASE Goes(d, "produce", "discard")
    BY <2>1, <2>2, GoesKeeps
  <2> QED
    BY <2>1, <2>2, ProduceEffect
<1>7. Upload(d) => <<run[d].pc, run'[d].pc>> \in {<<"recap", "planMd">>, <<"planMd", "pdf">>, <<"pdf", "claim">>}
  BY <1>g, <1>p DEF Upload, At
<1>8. ClaimVideos(d) => run[d].pc = "claim" /\ run'[d].pc \in {"save", "discard"}
  <2> SUFFICES ASSUME ClaimVideos(d) PROVE run[d].pc = "claim" /\ run'[d].pc \in {"save", "discard"}
    OBVIOUS
  <2>1. run[d].pc = "claim" /\ (Goto(d, "discard") \/ Goto(d, "save"))
    BY Zenon DEF ClaimVideos, At
  <2> QED
    BY <2>1, GotoEffect DEF Pcs
<1>9. SaveManifest(d) => run[d].pc = "save" /\ run'[d].pc = "idle"
  BY <1>g, <1>p DEF SaveManifest, At
<1>10. StageFails(d) => run[d].pc \in Gathering \cup Made /\ run'[d].pc = "discard"
  BY <1>g, <1>p DEF StageFails, At
<1>11. Discard(d) => run[d].pc = "discard" /\ run'[d].pc = "idle"
  BY <1>g, <1>p DEF Discard, At
<1>12. SaveUnsure(d) => run[d].pc = "save" /\ run'[d].pc = "discard"
  BY <1>g, <1>p DEF SaveUnsure, At
<1> QED
  BY <1>1, <1>2, <1>3, <1>4, <1>5, <1>6, <1>7, <1>8, <1>9, <1>10, <1>11, <1>12

\* A day is uncommitted and committed at one place each, whatever the caller is told.
LEMMA ManifestEffect ==
  ASSUME TypeOK, NEW d \in Days, RunOK(d), DayStep(d)
  PROVE  \/ /\ manifest'[d] = manifest[d]
            /\ ~(run[d].pc = "unlink" /\ run'[d].pc = "resolve")
         \/ Goes(d, "unlink", "resolve") /\ manifest'[d] = NoManifest
         \/ run[d].pc = "unlink" /\ run'[d] = NoRun /\ manifest'[d] = NoManifest /\ Fault("ack")
         \/ /\ SaveManifest(d) /\ run[d].pc = "save" /\ run'[d] = NoRun
            /\ manifest'[d] = Recorded(d)
         \/ /\ SaveUnsure(d) /\ run[d].pc = "save" /\ run'[d].pc = "discard" /\ Fault("ack")
            /\ manifest'[d] = Recorded(d)
<1>1. CASE Unlink(d)
  BY <1>1, GotoEffect DEF Unlink, At, Pcs, Goes, TypeOK
<1>u. CASE UncommitUnsure(d)
  BY <1>u, GotoEffect DEF UncommitUnsure, At, Pcs, TypeOK
<1>2. ASSUME manifest' = [manifest EXCEPT ![d] = Recorded(d)]
      PROVE  manifest'[d] = Recorded(d)
  BY <1>2 DEF TypeOK
<1>3. CASE SaveManifest(d)
  <2>1. run[d].pc = "save" /\ Goto(d, "idle") /\ manifest'[d] = Recorded(d)
    BY <1>2, <1>3 DEF SaveManifest, At
  <2> QED
    BY <1>3, <2>1, GotoEffect DEF Pcs
<1>4. CASE SaveUnsure(d)
  <2>1. run[d].pc = "save" /\ run'[d].pc = "discard"
    BY <1>4, Places
  <2>2. Fault("ack") /\ manifest'[d] = Recorded(d)
    BY <1>2, <1>4 DEF SaveUnsure
  <2> QED
    BY <1>4, <2>1, <2>2
<1>5. CASE ~Unlink(d) /\ ~UncommitUnsure(d) /\ ~SaveManifest(d) /\ ~SaveUnsure(d)
  <2>1. manifest' = manifest
    BY <1>5 DEF DayStep, Begins, List, Rests, Works, Ingest, IngestPrepared, BeginForced, Plan, ReadManifest,
       Release, UncommitFails, Resolve, Produce, RemoveStaleRecaps, Upload, ClaimVideos, StageFails, Discard, storeVars
  <2>2. ASSUME run[d].pc = "unlink" PROVE run'[d].pc = "idle"
    <3>1. UncommitFails(d)
      BY <1>5, <2>2 DEF DayStep, Begins, List, Rests, Works, Ingest, IngestPrepared, BeginForced, Plan, ReadManifest,
         Release, UncommitFails, Resolve, Produce, RemoveStaleRecaps, Upload, ClaimVideos, StageFails, Discard, At
    <3> QED
      BY <3>1, GotoEffect DEF UncommitFails, Pcs
  <2> QED
    BY <2>1, <2>2
<1> QED
  BY <1>1, <1>u, <1>3, <1>4, <1>5

LEMMA RecordedTyped ==
  ASSUME TypeOK, NEW d \in Days, RunOK(d), run[d].pc = "save"
  PROVE  Recorded(d) \in Manifests /\ Recorded(d) # NoManifest
<1>1. run[d].entries \in Entries /\ run[d].sources \in Sources
      /\ run[d].recap \in Contents /\ run[d].plan \in Contents /\ run[d].pdf \in Contents
  BY DEF RunOK, Made
<1> QED
  BY <1>1 DEF Recorded, Manifests, Entries

\* The folder of the day changes at three places.
LEMMA FilesEffect ==
  ASSUME TypeOK, NEW d \in Days, RunOK(d), DayStep(d)
  PROVE  \/ files'[d] = files[d]
         \/ /\ Goes(d, "stale", "produce")
            /\ files'[d] = [s \in Slots |-> IF s \in RecapDates \ {run[d].entries.recapDate} THEN NoFile ELSE files[d][s]]
         \/ Upload(d)
         \/ /\ run[d].pc = "discard" /\ run'[d] = NoRun
            /\ \E S \in SUBSET Discarded(d) :
                 /\ files'[d] = [s \in Slots |-> IF s \in S THEN NoFile ELSE files[d][s]]
                 /\ S = Discarded(d) \/ Fault("discard")
<1>1. ASSUME NEW S, files' = Without(d, S)
      PROVE  files'[d] = [s \in Slots |-> IF s \in S THEN NoFile ELSE files[d][s]]
  BY <1>1, WithoutEffect
<1>2. CASE RemoveStaleRecaps(d)
  BY <1>1, <1>2, GotoEffect DEF RemoveStaleRecaps, At, Pcs, Goes
<1>3. CASE Discard(d)
  <2>1. run[d].pc = "discard" /\ run'[d] = NoRun
    BY <1>3, GotoEffect DEF Discard, At, Pcs
  <2>2. \E S \in SUBSET Discarded(d) : files' = Without(d, S) /\ (S = Discarded(d) \/ Fault("discard"))
    BY <1>3 DEF Discard
  <2> QED
    BY <1>1, <2>1, <2>2
<1>4. CASE ~RemoveStaleRecaps(d) /\ ~Discard(d) /\ ~Upload(d)
  BY <1>4 DEF DayStep, Begins, List, Rests, Works, Ingest, IngestPrepared, BeginForced, Plan, ReadManifest,
       Release, Unlink, UncommitFails, UncommitUnsure, Resolve, Produce, ClaimVideos, SaveManifest, SaveUnsure,
       StageFails, storeVars
<1> QED
  BY <1>2, <1>3, <1>4

LEMMA StoresTyped ==
  ASSUME TypeOK, NEW d \in Days, RunOK(d), DayStep(d)
  PROVE  /\ files' \in [Days -> [Slots -> Contents \cup {NoFile}]]
         /\ manifest' \in [Days -> Manifests \cup {NoManifest}]
         /\ claim' \in [Videos -> Claims \cup {NoClaim}]
<1>1. files' \in [Days -> [Slots -> Contents \cup {NoFile}]]
  <2>1. ASSUME NEW S, files' = Without(d, S)
        PROVE  files' \in [Days -> [Slots -> Contents \cup {NoFile}]]
    BY <2>1, WithoutEffect
  <2>2. ASSUME NEW s \in Slots, NEW content \in Contents, Put(d, s, content)
        PROVE  files' \in [Days -> [Slots -> Contents \cup {NoFile}]]
    BY <2>2 DEF Put, With, TypeOK
  <2>3. CASE Upload(d)
    <3>1. run[d].entries \in Entries /\ run[d].recap \in Contents /\ run[d].plan \in Contents /\ run[d].pdf \in Contents
      BY <2>3 DEF Upload, At, RunOK, Made
    <3>2. run[d].entries.recapDate \in Slots /\ PlanMd \in Slots /\ PlanPdf \in Slots
      BY <3>1 DEF Entries, Slots
    <3> QED
      BY <2>2, <2>3, <3>1, <3>2 DEF Upload
  <2>4. CASE files' = files
    BY <2>4 DEF TypeOK
  <2> QED
    BY <2>1, <2>3, <2>4 DEF DayStep, Begins, List, Rests, Works, Ingest, IngestPrepared, BeginForced, Plan,
       ReadManifest, Release, Unlink, UncommitFails, UncommitUnsure, Resolve, Produce, RemoveStaleRecaps, ClaimVideos,
       SaveManifest, SaveUnsure, StageFails, Discard, storeVars
<1>2. manifest' \in [Days -> Manifests \cup {NoManifest}]
  <2>1. CASE SaveManifest(d) \/ SaveUnsure(d)
    <3>1. manifest' = [manifest EXCEPT ![d] = Recorded(d)] /\ run[d].pc = "save"
      BY <2>1 DEF SaveManifest, SaveUnsure, At
    <3> QED
      BY <3>1, RecordedTyped DEF TypeOK
  <2>2. CASE ~SaveManifest(d) /\ ~SaveUnsure(d)
    BY <2>2 DEF TypeOK, DayStep, Begins, List, Rests, Works, Ingest, IngestPrepared, BeginForced, Plan, ReadManifest,
       Release, Unlink, UncommitFails, UncommitUnsure, Resolve, Produce, RemoveStaleRecaps, Upload, ClaimVideos, StageFails, Discard, storeVars
  <2> QED
    BY <2>1, <2>2
<1>3. claim' \in [Videos -> Claims \cup {NoClaim}]
  <2>1. CASE Release(d)
    BY <2>1 DEF Release, TypeOK
  <2>2. CASE ClaimVideos(d)
    <3>1. ClaimFor(d, "recap") \in Claims /\ ClaimFor(d, "tradePlan") \in Claims
      BY DEF ClaimFor, Claims, Flavors
    <3>2. claim' = claim \/ claim' = [claim EXCEPT ![run[d].sources.recap] = ClaimFor(d, "recap"),
                                                  ![run[d].sources.plan] = ClaimFor(d, "tradePlan")]
      BY <2>2, Zenon DEF ClaimVideos
    <3> DEFINE one == [claim EXCEPT ![run[d].sources.recap] = ClaimFor(d, "recap")]
    <3>3. one \in [Videos -> Claims \cup {NoClaim}]
      BY <3>1 DEF TypeOK
    <3>4. claim' = claim \/ claim' = [one EXCEPT ![run[d].sources.plan] = ClaimFor(d, "tradePlan")]
      BY <3>2
    <3> HIDE DEF one
    <3> QED
      BY <3>1, <3>3, <3>4 DEF TypeOK
  <2>3. CASE ~Release(d) /\ ~ClaimVideos(d)
    BY <2>3 DEF TypeOK, DayStep, Begins, List, Rests, Works, Ingest, IngestPrepared, BeginForced, Plan, ReadManifest,
       Unlink, UncommitFails, UncommitUnsure, Resolve, Produce, RemoveStaleRecaps, Upload, SaveManifest, SaveUnsure,
       StageFails, Discard, storeVars
  <2> QED
    BY <2>1, <2>2, <2>3
<1> QED
  BY <1>1, <1>2, <1>3

\* The other steps leave the commits and, but for a crash, the runs.
LEMMA OtherSteps ==
  ASSUME TypeOK, [Next]_vars, \A d \in Days : ~DayStep(d)
  PROVE  /\ TypeOK' /\ UNCHANGED <<manifest, claim>>
         /\ \/ \E o \in pruneTodo : PruneDelete(o)
            \/ /\ UNCHANGED <<files, swept>>
               /\ \/ Crash
                  \/ PruneList
                  \/ UNCHANGED pruneTodo /\ UNCHANGED run /\ (UNCHANGED <<waiting, forces>> \/ \E d \in Days : IngestForced(d))
         /\ Crash \/ UNCHANGED run
         /\ \A kind \in Faults : faults'[kind] = 0 => faults[kind] = 0
<1>f. ASSUME NEW kind, Fault(kind)
      PROVE  faults' \in [Faults -> Nat] /\ \A k \in Faults : faults'[k] = 0 => faults[k] = 0
  BY <1>f DEF Fault, TypeOK
<1>1. CASE \E d \in Days : IngestForced(d)
  <2> PICK d \in Days : IngestForced(d)
    BY <1>1
  <2>1. waiting' \in [Days -> BOOLEAN]
    BY Zenon DEF IngestForced, TypeOK
  <2>2. forces' \in 0 .. MaxForces
    BY DEF IngestForced, TypeOK
  <2>3. TypeOK'
    BY <2>1, <2>2 DEF IngestForced, storeVars, TypeOK
  <2> QED
    BY <2>3 DEF IngestForced, storeVars
<1>2. CASE PruneList
  <2>1. pruneTodo' \subseteq Days \X Slots
    BY <1>2 DEF PruneList
  <2>2. faults' \in [Faults -> Nat] /\ \A kind \in Faults : faults'[kind] = 0 => faults[kind] = 0
    BY <1>f, <1>2 DEF PruneList, TypeOK
  <2>3. TypeOK'
    BY <1>2, <2>1, <2>2 DEF PruneList, storeVars, TypeOK
  <2> QED
    BY <1>2, <2>2, <2>3 DEF PruneList, storeVars
<1>3. CASE \E o \in pruneTodo : PruneDelete(o)
  <2> PICK o \in pruneTodo : PruneDelete(o)
    BY <1>3
  <2>1. o[1] \in Days /\ pruneTodo' \subseteq Days \X Slots
    BY DEF PruneDelete, TypeOK
  <2>2. files' \in [Days -> [Slots -> Contents \cup {NoFile}]]
    BY <2>1, WithoutEffect DEF PruneDelete
  <2>s. swept' \subseteq Days
    BY <2>1 DEF PruneDelete, TypeOK
  <2>3. TypeOK'
    BY <2>1, <2>2, <2>s DEF PruneDelete, storeVars, TypeOK
  <2> QED
    BY <2>3 DEF PruneDelete, storeVars
<1>4. CASE ArchiveMoves
  BY <1>4 DEF ArchiveMoves, storeVars, TypeOK
<1>5. CASE Crash
  <2>1. run' \in [Days -> Runs] /\ waiting' \in [Days -> BOOLEAN]
    BY <1>5, NoRunTyped, Zenon DEF Crash
  <2>2. faults' \in [Faults -> Nat] /\ \A kind \in Faults : faults'[kind] = 0 => faults[kind] = 0
    BY <1>f, <1>5 DEF Crash
  <2>3. TypeOK'
    BY <1>5, <2>1, <2>2 DEF Crash, storeVars, TypeOK
  <2> QED
    BY <1>5, <2>2, <2>3 DEF Crash, storeVars
<1>6. CASE UNCHANGED vars
  BY <1>6 DEF vars, storeVars, TypeOK
<1> QED
  BY <1>1, <1>2, <1>3, <1>4, <1>5, <1>6, Steps

LEMMA InitTyped == Init => TypeOK
<1> SUFFICES ASSUME Init PROVE TypeOK
  OBVIOUS
<1>1. run \in [Days -> Runs] /\ waiting \in [Days -> BOOLEAN]
  BY NoRunTyped, Zenon DEF Init
<1>2. files \in [Days -> [Slots -> Contents \cup {NoFile}]] /\ faults \in [Faults -> Nat] /\ version \in Versions
  BY DEF Init
<1>3. /\ manifest \in [Days -> Manifests \cup {NoManifest}]
      /\ claim \in [Videos -> Claims \cup {NoClaim}]
  BY Zenon DEF Init
<1> QED
  BY <1>1, <1>2, <1>3 DEF Init, TypeOK

LEMMA NextTyped ==
  ASSUME TypeOK, DayInv, [Next]_vars
  PROVE  TypeOK'
<1>1. CASE \E d \in Days : DayStep(d)
  <2> PICK d \in Days : DayStep(d)
    BY <1>1
  <2>1. RunOK(d)
    BY DEF DayInv
  <2>2. run' \in [Days -> Runs]
    BY <2>1, StepOfDay DEF RunsOn
  <2>3. waiting' \in [Days -> BOOLEAN] /\ faults' \in [Faults -> Nat]
    BY <2>1, StepOfDay
  <2>4. UNCHANGED <<version, pruneTodo, forces>> /\ swept' \subseteq swept
    BY <2>1, StepOfDay
  <2> QED
    BY <2>1, <2>2, <2>3, <2>4, StoresTyped DEF TypeOK
<1>2. CASE ~ \E d \in Days : DayStep(d)
  BY <1>2, OtherSteps
<1> QED
  BY <1>1, <1>2

\* Calls that have not failed yet had not before.
LEMMA SparedBefore ==
  ASSUME TypeOK, DayInv, [Next]_vars, NEW kinds, Spared(kinds)'
  PROVE  Spared(kinds)
<1>1. CASE \E d \in Days : DayStep(d)
  BY <1>1, StepOfDay DEF DayInv, Spared
<1>2. CASE ~ \E d \in Days : DayStep(d)
  BY <1>2, OtherSteps DEF Spared
<1> QED
  BY <1>1, <1>2

LEMMA FaultSeen ==
  ASSUME TypeOK, NEW kinds, NEW kind \in kinds, Fault(kind)
  PROVE  ~Spared(kinds)'
BY DEF Fault, Spared, TypeOK

------------------------------------------------------------------------------
(* What a committed day holds is right.                                     *)

LEMMA DayInit == Init => DayInv
BY DEF Init, DayInv, RunOK, ManifestOK, NoRun, Made

LEMMA RunStays ==
  ASSUME TypeOK, NEW d \in Days, RunOK(d), DayStep(d)
  PROVE  RunOK(d)'
<1> USE DEF AtRest, Gathering, Made
<1>1. CASE Begins(d)
  BY <1>1, BeginEffect DEF Begins, RunOK
<1>2. CASE List(d)
  <2>1. CASE run'[d] = NoRun
    BY <2>1 DEF RunOK, NoRun
  <2>2. CASE run'[d] # NoRun
    BY <1>2, <2>2, ListEffect DEF RunOK
  <2> QED
    BY <2>1, <2>2
<1>3. CASE Rests(d)
  <2>1. CASE run'[d] = NoRun
    BY <2>1 DEF RunOK, NoRun
  <2>2. CASE \E from \in {"plan", "release", "unlink"}, pc \in {"resolve", "unlink"} :
                Goes(d, from, pc) /\ (pc = "unlink" => from = "release")
    <3>1. PICK from \in {"plan", "release", "unlink"}, pc \in {"resolve", "unlink"} :
                 Goes(d, from, pc) /\ (pc = "unlink" => from = "release")
      BY <2>2
    <3>2. /\ run[d].pc = from /\ run'[d].pc = pc /\ run'[d].force = run[d].force
          /\ run'[d].entries = run[d].entries
      BY <3>1, GoesKeeps
    <3> QED
      BY <3>1, <3>2 DEF RunOK
  <2>3. CASE /\ run[d].pc = "read" /\ run'[d].pc = "release" /\ run'[d].force = run[d].force
             /\ run'[d].entries = run[d].entries
    BY <2>3 DEF RunOK
  <2> QED
    BY <1>3, <2>1, <2>2, <2>3, RestEffect DEF Rests
<1>4. CASE Resolve(d)
  <2>1. CASE Goes(d, "resolve", "discard")
    BY <2>1, GoesKeeps DEF RunOK
  <2>2. CASE ~Goes(d, "resolve", "discard")
    BY <1>4, <2>2, ResolveEffect DEF RunOK
  <2> QED
    BY <2>1, <2>2
<1>5. CASE Produce(d)
  <2>1. CASE Goes(d, "produce", "discard")
    <3>1. run[d].pc = "produce" /\ run'[d].pc = "discard" /\ run'[d].entries = run[d].entries
      BY <2>1, GoesKeeps
    <3> QED
      BY <3>1 DEF RunOK
  <2>2. CASE ~Goes(d, "produce", "discard")
    BY <1>5, <2>2, ProduceEffect DEF RunOK
  <2> QED
    BY <2>1, <2>2
<1>6. CASE Works(d)
  <2>1. CASE run'[d] = NoRun
    BY <2>1 DEF RunOK, NoRun
  <2>2. CASE \E from, pc : Goes(d, from, pc) /\ <<from, pc>> \in {<<"stale", "produce">>,
                <<"recap", "planMd">>, <<"planMd", "pdf">>, <<"pdf", "claim">>, <<"claim", "save">>}
    BY <2>2, GoesKeeps DEF RunOK
  <2>3. CASE \E from \in Gathering \cup Made : Goes(d, from, "discard")
    BY <2>3, GoesKeeps DEF RunOK
  <2> QED
    BY <1>6, <2>1, <2>2, <2>3, WorkEffect DEF Works
<1> QED
  BY <1>1, <1>2, <1>3, <1>4, <1>5, <1>6 DEF DayStep

\* A committed day is at rest until it is uncommitted, but for the cleanup after a commit
\* that was reported as failed.
LEMMA CommittedRests ==
  ASSUME TypeOK, NEW d \in Days, RunOK(d), ManifestOK(d), manifest[d] # NoManifest, DayStep(d)
  PROVE  \/ manifest'[d] = NoManifest
         \/ /\ manifest'[d] = manifest[d] /\ run'[d].pc \in AtRest
            /\ UNCHANGED files \/ ~Spared({"ack"})
            /\ UNCHANGED swept
<1> USE DEF AtRest, Gathering, Made
<1>1. run[d].pc \in AtRest \/ (run[d].pc = "discard" /\ ~Spared({"ack"}))
  BY DEF ManifestOK
<1>s. ~Produce(d)
  BY <1>1 DEF Produce, At
<1>t. UNCHANGED swept
  BY <1>s, StepOfDay
<1>2. CASE Begins(d)
  BY <1>2, <1>t, BeginEffect DEF Begins, Ingest, IngestPrepared, BeginForced, storeVars
<1>3. CASE List(d)
  BY <1>3, <1>t, ListEffect DEF List, storeVars, NoRun
<1>4. CASE Rests(d)
  <2>1. UNCHANGED files
    BY <1>4 DEF Rests, Plan, ReadManifest, Release, Unlink, UncommitFails, UncommitUnsure, storeVars
  <2>2. CASE Unlink(d) \/ UncommitUnsure(d)
    BY <2>2 DEF Unlink, UncommitUnsure, TypeOK
  <2>3. CASE ~Unlink(d) /\ ~UncommitUnsure(d)
    <3>1. manifest' = manifest
      BY <1>4, <2>3 DEF Rests, Plan, ReadManifest, Release, UncommitFails, storeVars
    <3>2. run'[d].pc \in {"idle", "release", "unlink"}
      BY <1>4, <2>3, RestPlaces
    <3> QED
      BY <1>t, <2>1, <3>1, <3>2
  <2> QED
    BY <2>2, <2>3
<1>5. CASE Discard(d)
  <2>1. run[d].pc = "discard" /\ run'[d].pc = "idle"
    BY <1>5, Places
  <2>2. manifest' = manifest
    BY <1>5 DEF Discard
  <2> QED
    BY <1>1, <1>t, <2>1, <2>2
<1>6. CASE Resolve(d) \/ Produce(d) \/ (Works(d) /\ ~Discard(d))
  BY <1>1, <1>6 DEF Resolve, Produce, Works, RemoveStaleRecaps, Upload, ClaimVideos, SaveManifest, SaveUnsure,
     StageFails, At
<1> QED
  BY <1>2, <1>3, <1>4, <1>5, <1>6 DEF DayStep

LEMMA DayNext ==
  ASSUME TypeOK, DayInv, [Next]_vars
  PROVE  DayInv'
<1>0. Spared({"ack"})' => Spared({"ack"})
  BY SparedBefore
<1>1. ASSUME NEW d \in Days, DayStep(d)
      PROVE  DayInv'
  <2>1. RunOK(d)
    BY DEF DayInv
  <2>2. ASSUME NEW e \in Days, e # d
        PROVE  RunOK(e)' /\ ManifestOK(e)'
    <3>1. run'[e] = run[e] /\ manifest'[e] = manifest[e]
      BY <1>1, <2>1, <2>2, StepOfDay DEF RunsOn
    <3> QED
      BY <1>0, <3>1 DEF DayInv, RunOK, ManifestOK, Fits, SpeaksOf
  <2>3. RunOK(d)'
    BY <1>1, <2>1, RunStays
  <2>4. ManifestOK(d)'
    <3>1. CASE manifest[d] # NoManifest
      <4>1. \/ manifest'[d] = NoManifest
            \/ manifest'[d] = manifest[d] /\ run'[d].pc \in AtRest
        BY <1>1, <2>1, <3>1, CommittedRests DEF DayInv
      <4> QED
        BY <3>1, <4>1 DEF DayInv, ManifestOK, Fits, SpeaksOf
    <3>2. CASE manifest[d] = NoManifest /\ manifest'[d] # NoManifest
      <4>1. /\ run[d].pc = "save" /\ manifest'[d] = Recorded(d)
            /\ run'[d] = NoRun \/ (run'[d].pc = "discard" /\ Fault("ack"))
        BY <1>1, <2>1, <3>2, ManifestEffect
      <4>2. run'[d].pc = "idle" \/ (run'[d].pc = "discard" /\ ~Spared({"ack"})')
        BY <4>1, FaultSeen DEF NoRun
      <4>3. /\ DayInvariants(d, manifest'[d].recapDate)
            /\ Fits(d, manifest'[d].recapDate, manifest'[d].recap, manifest'[d].plan, manifest'[d].pdf)
        BY <2>1, <4>1 DEF RunOK, Made, Recorded
      <4> QED
        BY <4>2, <4>3 DEF ManifestOK, AtRest, Fits, SpeaksOf
    <3> QED
      BY <3>1, <3>2 DEF ManifestOK
  <2> QED
    BY <2>2, <2>3, <2>4 DEF DayInv
<1>2. CASE \A d \in Days : ~DayStep(d)
  <2>1. UNCHANGED manifest /\ (Crash \/ UNCHANGED run)
    BY <1>2, OtherSteps
  <2>2. CASE UNCHANGED run
    BY <1>0, <2>1, <2>2 DEF DayInv, RunOK, ManifestOK, Fits, SpeaksOf
  <2>3. CASE run' = [d \in Days |-> NoRun]
    BY <2>1, <2>3 DEF DayInv, RunOK, ManifestOK, Fits, SpeaksOf, NoRun, Made, AtRest
  <2> QED
    BY <2>1, <2>2, <2>3 DEF Crash
<1> QED
  BY <1>1, <1>2

------------------------------------------------------------------------------
(* A committed day holds its files and no others.                           *)

LEMMA PutEffect ==
  ASSUME TypeOK, NEW d \in Days, NEW s \in Slots, NEW content, Put(d, s, content)
  PROVE  /\ files'[d][s] = IF s \in run[d].reused THEN files[d][s] ELSE content
         /\ \A t \in Slots \ {s} : files'[d][t] = files[d][t]
BY DEF Put, With, TypeOK

\* The three slots of a run.
LEMMA SlotsOf ==
  ASSUME NEW d \in Days, run[d].entries \in Entries
  PROVE  /\ run[d].entries.recapDate \in RecapDates
         /\ Discarded(d) \subseteq Slots /\ Slots = RecapDates \cup {PlanMd, PlanPdf}
         /\ run[d].entries.recapDate # PlanMd /\ run[d].entries.recapDate # PlanPdf /\ PlanMd # PlanPdf
BY DEF Entries, Slots, Discarded

LEMMA FilesInit == Init => FilesInv
BY DEF Init, FilesInv, FilesOK, CommittedIsComplete, CommittedOf, Made, NoRun

\* The folder of a run grows into the three artifacts.
LEMMA FilesStay ==
  ASSUME TypeOK, NEW d \in Days, RunOK(d), FilesOK(d), DayStep(d)
  PROVE  FilesOK(d)'
<1> USE DEF Gathering, Made
<1>s. ~Produce(d) => UNCHANGED swept
  BY StepOfDay
<1>k. ASSUME NEW from, NEW pc, Goes(d, from, pc), from \notin {"idle", "list"}
      PROVE  /\ run[d].entries \in Entries /\ Discarded(d)' = Discarded(d)
             /\ run'[d].entries = run[d].entries /\ run'[d].reused = run[d].reused
             /\ run'[d].recap = run[d].recap /\ run'[d].plan = run[d].plan /\ run'[d].pdf = run[d].pdf
             /\ run[d].pc = from /\ run'[d].pc = pc
  BY <1>k, GoesKeeps DEF RunOK, Discarded
<1>1. CASE run'[d].pc \notin {"produce"} \cup Made
  BY <1>1 DEF FilesOK
<1>2. CASE RemoveStaleRecaps(d) /\ Goes(d, "stale", "produce")
  <2>1. files'[d] = [s \in Slots |-> IF s \in RecapDates \ {run[d].entries.recapDate} THEN NoFile ELSE files[d][s]]
    BY <1>2, WithoutEffect DEF RemoveStaleRecaps
  <2>2. Present(d)' \subseteq Discarded(d)
    BY <1>2, <1>k, <2>1, SlotsOf DEF Present, Discarded
  <2> QED
    BY <1>2, <1>k, <2>2 DEF FilesOK
<1>3. CASE Produce(d) /\ run'[d].pc = "recap"
  <2> DEFINE date == run[d].entries.recapDate
  <2>1. /\ run[d].pc = "produce" /\ run'[d].entries = run[d].entries
        /\ run'[d].recap = (IF date \in run'[d].reused THEN files[d][date] ELSE run[d].sources.recap)
        /\ run'[d].plan = (IF PlanMd \in run'[d].reused THEN files[d][PlanMd] ELSE run[d].sources.plan)
        /\ run'[d].pdf = (IF PlanPdf \in run'[d].reused THEN files[d][PlanPdf] ELSE run[d].entries.plan)
    <3>1. Goes(d, "produce", "discard") => run'[d].pc = "discard"
      BY GoesKeeps
    <3> QED
      BY <1>3, <3>1, ProduceEffect
  <2>2. files' = files
    BY <1>3 DEF Produce, storeVars
  <2> QED
    BY <1>3, <2>1, <2>2 DEF FilesOK, Present, Discarded
<1>4. ASSUME NEW s, NEW content, NEW from, NEW pc, Put(d, s, content), Goes(d, from, pc),
             content \in Contents, <<from, s, content, pc>> \in
               {<<"recap", run[d].entries.recapDate, run[d].recap, "planMd">>,
                <<"planMd", PlanMd, run[d].plan, "pdf">>, <<"pdf", PlanPdf, run[d].pdf, "claim">>},
             ~Produce(d)
      PROVE  FilesOK(d)'
  <2>1. from \notin {"idle", "list"} /\ s \in Discarded(d) /\ from \in Made /\ pc \in Made
    BY <1>4 DEF Discarded
  <2>2. s \in Slots
    BY <1>4, <1>k, <2>1, SlotsOf
  <2>3. /\ files'[d][s] = IF s \in run[d].reused THEN files[d][s] ELSE content
        /\ \A t \in Slots \ {s} : files'[d][t] = files[d][t]
    BY <1>4, <2>2, PutEffect
  <2>4. Present(d) \subseteq Discarded(d)
    BY <1>4, <1>k, <2>1 DEF FilesOK
  <2>5. Present(d)' \subseteq Discarded(d)'
    BY <1>4, <1>k, <2>1, <2>3, <2>4 DEF Present
  <2>s. CASE d \in swept
    BY <1>s, <1>4, <2>5, <2>s DEF FilesOK
  <2>6. CASE from = "recap" /\ d \notin swept
    <3>1. s = run[d].entries.recapDate /\ content = run[d].recap /\ pc = "planMd"
      BY <1>4, <2>6
    <3>2. /\ run[d].entries.recapDate \in run[d].reused => files[d][run[d].entries.recapDate] = run[d].recap
          /\ PlanMd \in run[d].reused => files[d][PlanMd] = run[d].plan
          /\ PlanPdf \in run[d].reused => files[d][PlanPdf] = run[d].pdf
      BY <1>4, <1>k, <2>1, <2>6 DEF FilesOK
    <3>3. /\ files'[d][run[d].entries.recapDate] = run[d].recap
          /\ files'[d][PlanMd] = files[d][PlanMd] /\ files'[d][PlanPdf] = files[d][PlanPdf]
      BY <1>4, <1>k, <2>1, <2>3, <3>1, <3>2, SlotsOf
    <3> QED
      BY <1>4, <1>k, <2>1, <2>5, <3>1, <3>2, <3>3 DEF FilesOK
  <2>7. CASE from = "planMd" /\ d \notin swept
    <3>1. s = PlanMd /\ content = run[d].plan /\ pc = "pdf"
      BY <1>4, <2>7
    <3>2. /\ files[d][run[d].entries.recapDate] = run[d].recap
          /\ PlanMd \in run[d].reused => files[d][PlanMd] = run[d].plan
          /\ PlanPdf \in run[d].reused => files[d][PlanPdf] = run[d].pdf
      BY <1>4, <1>k, <2>1, <2>7 DEF FilesOK
    <3>3. /\ files'[d][PlanMd] = run[d].plan /\ files'[d][PlanPdf] = files[d][PlanPdf]
          /\ files'[d][run[d].entries.recapDate] = files[d][run[d].entries.recapDate]
      BY <1>4, <1>k, <2>1, <2>3, <3>1, <3>2, SlotsOf
    <3> QED
      BY <1>4, <1>k, <2>1, <2>5, <3>1, <3>2, <3>3 DEF FilesOK
  <2>8. CASE from = "pdf" /\ d \notin swept
    <3>1. s = PlanPdf /\ content = run[d].pdf /\ pc = "claim"
      BY <1>4, <2>8
    <3>2. /\ files[d][run[d].entries.recapDate] = run[d].recap
          /\ files[d][PlanMd] = run[d].plan
          /\ PlanPdf \in run[d].reused => files[d][PlanPdf] = run[d].pdf
      BY <1>4, <1>k, <2>1, <2>8 DEF FilesOK
    <3>3. /\ files'[d][PlanPdf] = run[d].pdf /\ files'[d][PlanMd] = files[d][PlanMd]
          /\ files'[d][run[d].entries.recapDate] = files[d][run[d].entries.recapDate]
      BY <1>4, <1>k, <2>1, <2>3, <3>1, <3>2, SlotsOf
    <3> QED
      BY <1>4, <1>k, <2>1, <2>5, <3>1, <3>2, <3>3 DEF FilesOK
  <2> QED
    BY <1>4, <2>s, <2>6, <2>7, <2>8
<1>5. CASE Upload(d)
  <2>1. run[d].recap \in Contents /\ run[d].plan \in Contents /\ run[d].pdf \in Contents
    BY <1>5 DEF Upload, At, RunOK
  <2>p. ~Produce(d)
    BY <1>5, Places
  <2>2. CASE At(d, "recap") /\ Put(d, run[d].entries.recapDate, run[d].recap) /\ Goto(d, "planMd")
    <3>1. Goes(d, "recap", "planMd")
      BY <2>2, GotoEffect DEF At, Goes, Pcs
    <3> QED
      BY <1>4, <2>1, <2>p, <2>2, <3>1
  <2>3. CASE At(d, "planMd") /\ Put(d, PlanMd, run[d].plan) /\ Goto(d, "pdf")
    <3>1. Goes(d, "planMd", "pdf")
      BY <2>3, GotoEffect DEF At, Goes, Pcs
    <3> QED
      BY <1>4, <2>1, <2>p, <2>3, <3>1
  <2>4. CASE At(d, "pdf") /\ Put(d, PlanPdf, run[d].pdf) /\ Goto(d, "claim")
    <3>1. Goes(d, "pdf", "claim")
      BY <2>4, GotoEffect DEF At, Goes, Pcs
    <3> QED
      BY <1>4, <2>1, <2>p, <2>4, <3>1
  <2> QED
    BY <1>5, <2>2, <2>3, <2>4 DEF Upload
<1>6. CASE ClaimVideos(d) /\ Goes(d, "claim", "save")
  <2>1. files' = files /\ swept' = swept
    BY <1>6 DEF ClaimVideos
  <2> QED
    BY <1>6, <1>k, <2>1 DEF FilesOK, Present
<1>7. CASE \/ Begins(d) \/ List(d) \/ Rests(d) \/ Resolve(d) \/ SaveManifest(d) \/ SaveUnsure(d)
           \/ StageFails(d) \/ Discard(d)
  BY <1>1, <1>7, Places
<1>8. CASE Produce(d)
  BY <1>1, <1>3, <1>8, Places
<1>9. CASE RemoveStaleRecaps(d)
  <2>1. Goes(d, "stale", "produce")
    BY <1>9, GotoEffect DEF RemoveStaleRecaps, At, Goes, Pcs
  <2> QED
    BY <1>2, <1>9, <2>1
<1>10. CASE ClaimVideos(d)
  <2>1. CASE run'[d].pc = "save"
    <3>1. At(d, "claim") /\ (Goto(d, "discard") \/ Goto(d, "save"))
      BY <1>10, Zenon DEF ClaimVideos
    <3>2. Goes(d, "claim", "save")
      BY <2>1, <3>1, GotoEffect DEF At, Goes, Pcs
    <3> QED
      BY <1>6, <1>10, <3>2
  <2> QED
    BY <1>1, <1>10, <2>1, Places
<1> QED
  BY <1>5, <1>7, <1>8, <1>9, <1>10 DEF DayStep, Works

\* A commit records what is at rest.
LEMMA CommitIsComplete ==
  ASSUME TypeOK, NEW d \in Days, RunOK(d), FilesOK(d), SaveManifest(d), d \notin swept
  PROVE  /\ manifest'[d] = Recorded(d)
         /\ Present(d)' = {r[1] : r \in Records(Recorded(d))}
         /\ \A r \in Records(Recorded(d)) : files'[d][r[1]] = r[2]
<1>1. manifest'[d] = Recorded(d) /\ files' = files /\ run[d].pc = "save"
  BY DEF SaveManifest, At, TypeOK
<1>2. /\ run[d].entries \in Entries
      /\ run[d].recap \in Contents /\ run[d].plan \in Contents /\ run[d].pdf \in Contents
  BY <1>1 DEF RunOK, Made
<1>3. /\ Present(d) \subseteq Discarded(d)
      /\ files[d][run[d].entries.recapDate] = run[d].recap
      /\ files[d][PlanMd] = run[d].plan /\ files[d][PlanPdf] = run[d].pdf
  BY <1>1 DEF FilesOK, Made
<1>4. NoFile \notin Contents
  BY DEF Contents
<1>5. Discarded(d) \subseteq Present(d)
  BY <1>2, <1>3, <1>4, SlotsOf DEF Present, Discarded
<1>6. {r[1] : r \in Records(Recorded(d))} = Discarded(d)
  BY DEF Records, Recorded, Discarded
<1>7. \A r \in Records(Recorded(d)) : files[d][r[1]] = r[2]
  BY <1>3 DEF Records, Recorded
<1> QED
  BY <1>1, <1>3, <1>5, <1>6, <1>7 DEF Present

LEMMA FilesNext ==
  ASSUME TypeOK, DayInv, FilesInv, [Next]_vars
  PROVE  FilesInv'
<1>0. Spared({"ack"})' => Spared({"ack"})
  BY SparedBefore
<1>1. ASSUME NEW d \in Days, DayStep(d)
      PROVE  FilesInv'
  <2>1. RunOK(d) /\ ManifestOK(d) /\ FilesOK(d)
    BY DEF DayInv, FilesInv
  <2>2. swept' = swept \/ (Produce(d) /\ swept' = swept \ {d})
    BY <1>1, <2>1, StepOfDay
  <2>3. ASSUME NEW e \in Days, e # d
        PROVE  FilesOK(e)' /\ run'[e] = run[e] /\ files'[e] = files[e] /\ manifest'[e] = manifest[e]
    <3>1. run'[e] = run[e] /\ files'[e] = files[e] /\ manifest'[e] = manifest[e]
      BY <1>1, <2>1, <2>3, StepOfDay DEF RunsOn
    <3>2. e \notin swept' => e \notin swept
      BY <2>2, <2>3
    <3> QED
      BY <3>1, <3>2 DEF FilesInv, FilesOK, Present, Discarded
  <2>4. FilesOK(d)'
    BY <1>1, <2>1, FilesStay
  <2>5. ASSUME NEW e \in Days, manifest'[e] # NoManifest, e \notin swept', Spared({"ack"})'
        PROVE  /\ Present(e)' = {r[1] : r \in Records(manifest'[e])}
               /\ \A r \in Records(manifest'[e]) : files'[e][r[1]] = r[2]
    <3>1. CASE manifest[e] # NoManifest
      <4>1. manifest'[e] = manifest[e] /\ files'[e] = files[e] /\ e \notin swept
        <5>1. CASE e = d
          BY <1>0, <1>1, <2>1, <2>5, <3>1, <5>1, CommittedRests
        <5>2. CASE e # d
          BY <2>2, <2>3, <2>5, <5>2
        <5> QED
          BY <5>1, <5>2
      <4>2. /\ Present(e) = {r[1] : r \in Records(manifest[e])}
            /\ \A r \in Records(manifest[e]) : files[e][r[1]] = r[2]
        BY <1>0, <2>5, <3>1, <4>1 DEF FilesInv, CommittedIsComplete, CommittedOf
      <4> QED
        BY <4>1, <4>2 DEF Present
    <3>2. CASE manifest[e] = NoManifest
      <4>1. e = d
        BY <2>3, <2>5, <3>2
      <4>2. ~Fault("ack")
        BY <2>5, FaultSeen
      <4>3. SaveManifest(d)
        BY <1>1, <2>1, <2>5, <3>2, <4>1, <4>2, ManifestEffect
      <4>4. d \notin swept
        BY <2>1, <2>2, <2>5, <4>1, <4>3, Places
      <4> QED
        BY <2>1, <4>1, <4>3, <4>4, CommitIsComplete
    <3> QED
      BY <3>1, <3>2
  <2>6. CommittedIsComplete'
    BY <2>5 DEF CommittedIsComplete, CommittedOf
  <2> QED
    BY <2>3, <2>4, <2>6 DEF FilesInv
<1>2. CASE \A d \in Days : ~DayStep(d)
  <2>1. UNCHANGED manifest
    BY <1>2, OtherSteps
  <2>2. CASE \E o \in pruneTodo : PruneDelete(o)
    <3> PICK o \in pruneTodo : PruneDelete(o)
      BY <2>2
    <3> PICK d \in Days : d = o[1]
      BY DEF TypeOK
    <3>1. /\ run' = run /\ faults' = faults /\ files' = Without(d, {o[2]})
          /\ swept' = IF Relied(d) THEN swept \cup {d} ELSE swept
      BY DEF PruneDelete
    <3>2. /\ \A e \in Days \ {d} : files'[e] = files[e]
          /\ \A s \in Slots : files'[d][s] = files[d][s] \/ files'[d][s] = NoFile
      <4>1. files'[d] = [s \in Slots |-> IF s \in {o[2]} THEN NoFile ELSE files[d][s]]
        BY <3>1, WithoutEffect
      <4>2. \A s \in Slots : files'[d][s] = files[d][s] \/ files'[d][s] = NoFile
        BY <4>1
      <4> QED
        BY <3>1, <4>2, WithoutEffect
    <3>3. d \in swept' \/ (manifest[d] = NoManifest /\ run[d].pc \notin Made)
      BY <3>1 DEF Relied, Made
    <3>4. FilesOK(d)'
      BY <3>1, <3>2, <3>3 DEF FilesInv, FilesOK, Present, Discarded
    <3>5. ASSUME NEW e \in Days \ {d} PROVE FilesOK(e)'
      <4>1. files'[e] = files[e] /\ (e \notin swept' => e \notin swept)
        BY <3>1, <3>2
      <4> QED
        BY <3>1, <4>1 DEF FilesInv, FilesOK, Present, Discarded
    <3>6. CommittedIsComplete'
      <4>1. ASSUME NEW e \in Days, e \notin swept', manifest[e] # NoManifest
            PROVE  files'[e] = files[e] /\ e \notin swept
        BY <3>1, <3>2, <3>3, <4>1
      <4>2. ASSUME NEW e \in Days, e \notin swept', manifest'[e] # NoManifest, Spared({"ack"})'
            PROVE  /\ Present(e)' = {r[1] : r \in Records(manifest'[e])}
                   /\ \A r \in Records(manifest'[e]) : files'[e][r[1]] = r[2]
        <5>1. files'[e] = files[e] /\ manifest'[e] = manifest[e] /\ e \in CommittedOf(Days) \ swept
          BY <2>1, <4>1, <4>2 DEF CommittedOf
        <5>2. /\ Present(e) = {r[1] : r \in Records(manifest[e])}
              /\ \A r \in Records(manifest[e]) : files[e][r[1]] = r[2]
          BY <1>0, <4>2, <5>1 DEF FilesInv, CommittedIsComplete
        <5> QED
          BY <5>1, <5>2 DEF Present
      <4> QED
        BY <4>2 DEF CommittedIsComplete, CommittedOf
    <3> QED
      BY <3>4, <3>5, <3>6 DEF FilesInv
  <2>3. CASE UNCHANGED <<files, swept>>
    <3>1. CommittedIsComplete'
      BY <1>0, <2>1, <2>3 DEF FilesInv, CommittedIsComplete, CommittedOf, Present
    <3>2. \A e \in Days : FilesOK(e)'
      <4>1. CASE UNCHANGED run
        BY <2>3, <4>1 DEF FilesInv, FilesOK, Present, Discarded
      <4>2. CASE run' = [d \in Days |-> NoRun]
        BY <4>2 DEF FilesOK, NoRun, Made
      <4> QED
        BY <1>2, <4>1, <4>2, OtherSteps DEF Crash
    <3> QED
      BY <3>1, <3>2 DEF FilesInv
  <2> QED
    BY <1>2, <2>2, <2>3, OtherSteps
<1> QED
  BY <1>1, <1>2

------------------------------------------------------------------------------
(* What is left behind.                                                     *)

\* Only a forced request that waits begins a forced run.
LEMMA ForceKept ==
  ASSUME TypeOK, NEW d \in Days, RunOK(d), DayStep(d)
  PROVE  run'[d].force => run[d].force \/ waiting[d]
<1>1. CASE run'[d] = NoRun
  BY <1>1 DEF NoRun
<1>2. CASE \E from, pc : Goes(d, from, pc)
  BY <1>2, GoesKeeps
<1>3. CASE Begins(d)
  BY <1>3, BeginEffect DEF Begins
<1>4. CASE List(d)
  BY <1>1, <1>4, ListEffect
<1>5. CASE Rests(d)
  BY <1>1, <1>2, <1>5, RestEffect DEF Rests
<1>6. CASE Resolve(d)
  BY <1>2, <1>6, ResolveEffect
<1>7. CASE Produce(d)
  BY <1>2, <1>7, ProduceEffect
<1>8. CASE Works(d)
  BY <1>1, <1>2, <1>8, WorkEffect DEF Works
<1> QED
  BY <1>3, <1>4, <1>5, <1>6, <1>7, <1>8 DEF DayStep

\* A run at work keeps what it has gathered.
LEMMA WorkKeeps ==
  ASSUME TypeOK, NEW d \in Days, RunOK(d), DayStep(d),
         run[d].pc \in Gathering \cup Made, run'[d].pc # "idle"
  PROVE  /\ run'[d].entries = run[d].entries /\ run'[d].force = run[d].force
         /\ run[d].pc # "resolve" => run'[d].sources = run[d].sources
         /\ run[d].pc \in Made =>
              run'[d].recap = run[d].recap /\ run'[d].plan = run[d].plan /\ run'[d].pdf = run[d].pdf
<1> USE DEF Gathering, Made
<1>1. CASE \E from, pc : Goes(d, from, pc)
  BY <1>1, GoesKeeps
<1>2. CASE Resolve(d)
  BY <1>1, <1>2, ResolveEffect
<1>3. CASE Produce(d)
  BY <1>1, <1>3, ProduceEffect
<1>4. CASE Works(d)
  <2>1. run'[d] # NoRun
    BY DEF NoRun
  <2> QED
    BY <1>1, <1>4, <2>1, WorkEffect DEF Works
<1> QED
  BY <1>2, <1>3, <1>4, Places DEF DayStep

LEMMA FilesRest ==
  ASSUME TypeOK, NEW d \in Days, RunOK(d), DayStep(d),
         run[d].pc \notin {"stale", "recap", "planMd", "pdf", "discard"} \/ run'[d].pc = "discard"
  PROVE  files' = files
<1>1. ~RemoveStaleRecaps(d) /\ ~Upload(d) /\ ~Discard(d)
  BY Places
<1> QED
  BY <1>1 DEF DayStep, Begins, List, Rests, Works, Ingest, IngestPrepared, BeginForced, Plan, ReadManifest,
     Release, Unlink, UncommitFails, UncommitUnsure, Resolve, Produce, ClaimVideos, SaveManifest, SaveUnsure,
     StageFails, storeVars

LEMMA FilesGrow ==
  ASSUME TypeOK, NEW d \in Days, RunOK(d), Upload(d)
  PROVE  \A t \in Slots \ Discarded(d) : files'[d][t] = files[d][t]
<1>1. run[d].entries \in Entries
  BY DEF Upload, At, RunOK
<1>2. ASSUME NEW s \in Discarded(d), NEW content, Put(d, s, content)
      PROVE  \A t \in Slots \ Discarded(d) : files'[d][t] = files[d][t]
  <2>1. s \in Slots /\ \A t \in Slots \ Discarded(d) : t \in Slots \ {s}
    BY <1>1, SlotsOf
  <2>2. \A t \in Slots \ {s} : files'[d][t] = files[d][t]
    BY <1>2, <2>1, PutEffect
  <2> QED
    BY <2>1, <2>2
<1> QED
  BY <1>2 DEF Upload, Discarded

LEMMA LeftStays ==
  ASSUME TypeOK, NEW d \in Days, RunOK(d), ManifestOK(d), ForceInv, LeftOK(d), DayStep(d),
         Spared({"discard", "crash"})', Spared({"ack"})' => Spared({"ack"})
  PROVE  LeftOK(d)'
<1> USE DEF AtRest, Gathering, Made
<1> SUFFICES ASSUME manifest'[d] = NoManifest PROVE LeftOK(d)'
  BY DEF LeftOK
<1>f. (forces = 0 => ~run[d].force) /\ forces' = forces
  BY StepOfDay DEF ForceInv
<1>1. CASE manifest[d] # NoManifest
  <2>1. CASE Goes(d, "unlink", "resolve")
    <3>1. run'[d].pc = "resolve" /\ run'[d].force
      BY <2>1, GoesKeeps DEF RunOK
    <3> QED
      BY <3>1 DEF LeftOK
  <2>2. CASE run[d].pc = "unlink" /\ run'[d] = NoRun /\ Fault("ack")
    <3>1. forces # 0 /\ run'[d].pc = "idle" /\ ~Spared({"ack"})'
      BY <1>f, <2>2, FaultSeen DEF RunOK, NoRun
    <3> QED
      BY <1>f, <3>1 DEF LeftOK, Gone
  <2> QED
    BY <1>1, <2>1, <2>2, RecordedTyped, ManifestEffect
<1>2. CASE manifest[d] = NoManifest /\ run[d].pc \in AtRest
  <2>1. files' = files /\ run'[d].pc \in AtRest \cup {"resolve"}
    BY <1>2, FilesRest, Places DEF DayStep, Works
  <2> QED
    BY <1>f, <1>2, <2>1 DEF LeftOK, Gone
<1>3. CASE manifest[d] = NoManifest /\ run[d].pc \in Gathering
  <2>1. run'[d].pc \in Gathering \cup {"recap", "discard"}
    BY <1>3, Places DEF DayStep, Works
  <2>2. run'[d].force = run[d].force
    BY <1>3, <2>1, WorkKeeps
  <2>3. CASE run[d].force
    BY <1>f, <2>1, <2>2, <2>3 DEF LeftOK
  <2>4. CASE ~run[d].force
    <3>1. \A s \in Slots : Gone(d, s)
      BY <1>3, <2>4 DEF LeftOK
    <3>2. \A s \in Slots : files'[d][s] = files[d][s] \/ files'[d][s] = NoFile
      <4>1. ~Upload(d) /\ run[d].pc # "discard"
        BY <1>3, Places
      <4> QED
        BY <4>1, FilesEffect
    <3>3. \A s \in Slots : Gone(d, s)'
      BY <1>f, <3>1, <3>2 DEF Gone
    <3>4. forces = 0 => Present(d)' = {}
      BY <1>f, <3>3 DEF Gone, Present
    <3> QED
      BY <1>f, <3>3, <3>4 DEF LeftOK
  <2> QED
    BY <2>3, <2>4
<1>4. CASE manifest[d] = NoManifest /\ run[d].pc \in Made
  <2>1. run'[d].pc \in Made \cup {"discard"}
    <3>1. ~SaveManifest(d)
      <4>1. SaveManifest(d) => manifest'[d] = Recorded(d)
        BY DEF SaveManifest, TypeOK
      <4> QED
        BY <4>1, RecordedTyped, Places
    <3> QED
      BY <1>4, <3>1, Places DEF DayStep, Works
  <2>2. run'[d].entries = run[d].entries
    BY <1>4, <2>1, WorkKeeps
  <2>3. ASSUME forces = 0 PROVE Present(d)' \subseteq Discarded(d)'
    <3>1. Present(d) \subseteq Discarded(d)
      BY <1>4, <2>3 DEF LeftOK
    <3>2. CASE Upload(d)
      BY <2>2, <3>1, <3>2, FilesGrow DEF Present, Discarded
    <3>3. CASE ~Upload(d)
      <4>1. files'[d] = files[d]
        BY <1>4, <3>3, FilesEffect DEF Goes
      <4> QED
        BY <2>2, <3>1, <4>1 DEF Present, Discarded
    <3> QED
      BY <3>2, <3>3
  <2> QED
    BY <1>f, <2>1, <2>3 DEF LeftOK
<1>5. CASE manifest[d] = NoManifest /\ run[d].pc = "discard"
  <2>1. Discard(d)
    BY <1>5, Places DEF DayStep, Works
  <2>2. run'[d].pc = "idle"
    BY <2>1, Places
  <2>3. ~Fault("discard")
    BY FaultSeen
  <2>4. files'[d] = [s \in Slots |-> IF s \in Discarded(d) THEN NoFile ELSE files[d][s]]
    BY <2>1, <2>3, WithoutEffect DEF Discard
  <2>5. forces = 0 => Present(d) \subseteq Discarded(d)
    BY <1>5 DEF LeftOK
  <2>6. \A s \in Slots : Gone(d, s)'
    BY <1>f, <2>4, <2>5 DEF Gone, Present, Discarded
  <2> QED
    BY <2>2, <2>6 DEF LeftOK
<1>6. run[d].pc \in AtRest \cup Gathering \cup Made \cup {"discard"}
  BY Places DEF DayStep, Works
<1> QED
  BY <1>1, <1>2, <1>3, <1>4, <1>5, <1>6

\* What a run that reloads finds is what it would have made.
LEMMA SourcesStay ==
  ASSUME TypeOK, NEW d \in Days, RunOK(d), ManifestOK(d), ForceInv, LeftOK(d), SourcesOK(d), DayStep(d),
         Spared({"ack"})' => Spared({"ack"})
  PROVE  SourcesOK(d)'
<1> USE DEF AtRest, Gathering, Made
<1> SUFFICES ASSUME run'[d].pc \in Made PROVE SourcesOK(d)'
  BY DEF SourcesOK
<1>f. (forces = 0 => ~run[d].force) /\ forces' = forces
  BY StepOfDay DEF ForceInv
<1>1. CASE run[d].pc \in Made
  BY <1>1, <1>f, WorkKeeps DEF SourcesOK
<1>2. CASE run[d].pc \notin Made
  <2>1. Produce(d)
    BY <1>2, Places DEF DayStep, Works
  <2> DEFINE date == run[d].entries.recapDate
  <2>2. /\ run[d].pc = "produce"
        /\ run'[d].entries = run[d].entries /\ run'[d].sources = run[d].sources
        /\ run'[d].reused = (IF run[d].force THEN {} ELSE Present(d))
        /\ run'[d].recap = (IF date \in run'[d].reused THEN files[d][date] ELSE run[d].sources.recap)
        /\ run'[d].plan = (IF PlanMd \in run'[d].reused THEN files[d][PlanMd] ELSE run[d].sources.plan)
    <3>1. ~Goes(d, "produce", "discard")
      BY GoesKeeps
    <3> QED
      BY <2>1, <3>1, ProduceEffect
  <2>3. manifest[d] = NoManifest
    BY <2>2 DEF ManifestOK
  <2>4. ~run[d].force => \A s \in Slots : Gone(d, s)
    BY <2>2, <2>3 DEF LeftOK
  <2>5. /\ Spared({"ack"}) \/ forces = 0 => PlanMd \notin run'[d].reused
        /\ forces = 0 => run'[d].reused = {}
    BY <1>f, <2>2, <2>4 DEF Gone, Present, Slots
  <2> QED
    BY <1>f, <2>2, <2>5 DEF SourcesOK
<1> QED
  BY <1>1, <1>2

LEMMA LeftInit == Init => LeftInv
BY DEF Init, LeftInv, ForceInv, LeftOK, SourcesOK, SourcesMatch, CommittedOf, Gone, Present, Made, NoRun

LEMMA ForceNext ==
  ASSUME TypeOK, DayInv, ForceInv, [Next]_vars
  PROVE  ForceInv'
<1>1. ASSUME NEW d \in Days, DayStep(d)
      PROVE  ForceInv'
  <2>1. RunOK(d)
    BY DEF DayInv
  <2>2. forces' = forces /\ (\A e \in Days \ {d} : run'[e] = run[e]) /\ \A e \in Days : ~waiting[e] => ~waiting'[e]
    BY <1>1, <2>1, StepOfDay DEF RunsOn
  <2>3. run'[d].force => run[d].force \/ waiting[d]
    BY <1>1, <2>1, ForceKept
  <2> QED
    BY <2>2, <2>3 DEF ForceInv
<1>2. CASE \A d \in Days : ~DayStep(d)
  <2>1. CASE Crash
    BY <2>1 DEF Crash, ForceInv, NoRun
  <2>2. CASE \E d \in Days : IngestForced(d)
    BY <2>2 DEF IngestForced, ForceInv, TypeOK
  <2>3. CASE UNCHANGED <<run, waiting, forces>>
    BY <2>3 DEF ForceInv
  <2> QED
    BY <1>2, <2>1, <2>2, <2>3, OtherSteps DEF PruneDelete, PruneList
<1> QED
  BY <1>1, <1>2

LEMMA LeftNext ==
  ASSUME TypeOK, DayInv, LeftInv, [Next]_vars
  PROVE  LeftInv'
<1>0. \A kinds \in {{"ack"}, {"discard", "crash"}, {"ack", "discard", "crash"}} : Spared(kinds)' => Spared(kinds)
  BY SparedBefore
<1>k. Spared({"ack", "discard", "crash"}) <=> Spared({"ack"}) /\ Spared({"discard", "crash"})
  BY DEF Spared
<1>l. Spared({"ack", "discard", "crash"})' <=> Spared({"ack"})' /\ Spared({"discard", "crash"})'
  BY DEF Spared
<1>1. ForceInv'
  BY ForceNext DEF LeftInv
<1>2. ASSUME NEW d \in Days, DayStep(d), Spared({"discard", "crash"})'
      PROVE  (\A e \in Days : LeftOK(e)' /\ SourcesOK(e)') /\ SourcesMatch'
  <2>1. RunOK(d) /\ ManifestOK(d)
    BY DEF DayInv
  <2>2. /\ \A e \in Days : LeftOK(e) /\ SourcesOK(e)
        /\ Spared({"ack"}) => \A e \in CommittedOf(Days) :
             /\ manifest[e].plan = manifest[e].sources.plan
             /\ forces = 0 => manifest[e].recap = manifest[e].sources.recap
    BY <1>0, <1>k, <1>2 DEF LeftInv, SourcesMatch
  <2>3. forces' = forces
    BY <1>2, <2>1, StepOfDay
  <2>a. Spared({"ack"})' => Spared({"ack"})
    BY <1>0
  <2>4. ASSUME NEW e \in Days, e # d
        PROVE  LeftOK(e)' /\ SourcesOK(e)' /\ manifest'[e] = manifest[e]
    <3>1. run'[e] = run[e] /\ files'[e] = files[e] /\ manifest'[e] = manifest[e]
      BY <1>2, <2>1, <2>4, StepOfDay DEF RunsOn
    <3> QED
      BY <2>2, <2>3, <2>a, <3>1 DEF LeftOK, SourcesOK, Gone, Present, Discarded
  <2>5. LeftOK(d)' /\ SourcesOK(d)'
    BY <1>2, <2>1, <2>2, <2>a, LeftStays, SourcesStay DEF LeftInv
  <2>6. ASSUME NEW e \in Days, manifest'[e] # NoManifest, Spared({"ack"})'
        PROVE  /\ manifest'[e].plan = manifest'[e].sources.plan
               /\ forces' = 0 => manifest'[e].recap = manifest'[e].sources.recap
    <3>1. CASE manifest'[e] = manifest[e]
      BY <2>2, <2>3, <2>a, <2>6, <3>1 DEF CommittedOf
    <3>2. CASE manifest'[e] # manifest[e]
      <4>1. e = d /\ run[d].pc = "save" /\ manifest'[d] = Recorded(d)
        BY <1>2, <2>1, <2>4, <2>6, <3>2, ManifestEffect
      <4> QED
        BY <2>2, <2>3, <2>a, <2>6, <4>1 DEF SourcesOK, Made, Recorded
    <3> QED
      BY <3>1, <3>2
  <2> QED
    BY <1>l, <2>4, <2>5, <2>6 DEF SourcesMatch, CommittedOf
<1>3. ASSUME \A d \in Days : ~DayStep(d), Spared({"discard", "crash"})'
      PROVE  (\A e \in Days : LeftOK(e)' /\ SourcesOK(e)') /\ SourcesMatch'
  <2>1. ~Crash
    BY <1>3, FaultSeen DEF Crash
  <2>2. UNCHANGED <<manifest, run>>
    BY <1>3, <2>1, OtherSteps
  <2>a. Spared({"ack"})' => Spared({"ack"})
    BY <1>0
  <2>3. /\ \A e \in Days : LeftOK(e) /\ SourcesOK(e)
        /\ Spared({"ack"}) => \A e \in CommittedOf(Days) :
             /\ manifest[e].plan = manifest[e].sources.plan
             /\ forces = 0 => manifest[e].recap = manifest[e].sources.recap
    BY <1>0, <1>k, <1>3 DEF LeftInv, SourcesMatch
  <2>4. forces' = 0 => forces = 0
    <3>1. forces' = forces \/ forces' = forces + 1
      BY <1>3, <2>1, OtherSteps DEF IngestForced, PruneDelete, PruneList
    <3> QED
      BY <3>1 DEF TypeOK
  <2>5. \A e \in Days, s \in Slots : files'[e][s] = files[e][s] \/ files'[e][s] = NoFile
    <3>1. ASSUME NEW o \in pruneTodo, PruneDelete(o)
          PROVE  \A e \in Days, s \in Slots : files'[e][s] = files[e][s] \/ files'[e][s] = NoFile
      <4>1. o[1] \in Days /\ files' = Without(o[1], {o[2]})
        BY <3>1 DEF PruneDelete, TypeOK
      <4>2. \A s \in Slots : files'[o[1]][s] = files[o[1]][s] \/ files'[o[1]][s] = NoFile
        <5>1. files'[o[1]] = [s \in Slots |-> IF s \in {o[2]} THEN NoFile ELSE files[o[1]][s]]
          BY <4>1, WithoutEffect
        <5> QED
          BY <5>1
      <4>3. \A e \in Days \ {o[1]} : files'[e] = files[e]
        BY <4>1, WithoutEffect
      <4> QED
        BY <4>2, <4>3
    <3> QED
      BY <1>3, <3>1, OtherSteps
  <2>6. \A e \in Days : LeftOK(e)' /\ SourcesOK(e)'
    BY <2>2, <2>3, <2>4, <2>5, <2>a DEF LeftOK, SourcesOK, Gone, Present, Discarded
  <2>7. SourcesMatch'
    BY <1>l, <2>2, <2>3, <2>4, <2>a DEF SourcesMatch, CommittedOf
  <2> QED
    BY <2>6, <2>7
<1> QED
  BY <1>l, <1>1, <1>2, <1>3 DEF LeftInv, SourcesMatch

------------------------------------------------------------------------------
(* The claims.                                                              *)

LEMMA ClaimInit == Init => ClaimInv /\ BackedInv
BY DEF Init, ClaimInv, BackedInv, At, NoRun

LEMMA ClaimRests ==
  ASSUME TypeOK, NEW d \in Days, RunOK(d), DayStep(d), ~Release(d), run'[d].pc # "save"
  PROVE  claim' = claim
<1>1. CASE ClaimVideos(d)
  <2>1. Goto(d, "save") => run'[d].pc = "save"
    BY GotoEffect DEF Pcs
  <2> QED
    BY <1>1, <2>1, Zenon DEF ClaimVideos
<1>2. CASE ~ClaimVideos(d)
  BY <1>2 DEF DayStep, Begins, List, Rests, Works, Ingest, IngestPrepared, BeginForced, Plan, ReadManifest,
     Unlink, UncommitFails, UncommitUnsure, Resolve, Produce, RemoveStaleRecaps, Upload, SaveManifest, SaveUnsure,
     StageFails, Discard, storeVars
<1> QED
  BY <1>1, <1>2

\* A transaction takes two free videos, or its own, and no others.
LEMMA ClaimEffect ==
  ASSUME TypeOK, NEW d \in Days, RunOK(d), DayStep(d), run'[d].pc = "save"
  PROVE  /\ Goes(d, "claim", "save") /\ ~Conflicts(d, run[d].sources)
         /\ claim'[run[d].sources.recap] = ClaimFor(d, "recap")
         /\ claim'[run[d].sources.plan] = ClaimFor(d, "tradePlan")
         /\ \A v \in Videos \ Used(run[d].sources) : claim'[v] = claim[v]
<1>1. ClaimVideos(d)
  BY Places DEF DayStep, Works
<1>2. ~Goto(d, "discard")
  BY GotoEffect DEF Pcs
<1>3. /\ At(d, "claim") /\ Goto(d, "save") /\ ~Conflicts(d, run[d].sources)
      /\ claim' = [claim EXCEPT ![run[d].sources.recap] = ClaimFor(d, "recap"),
                                ![run[d].sources.plan] = ClaimFor(d, "tradePlan")]
  BY <1>1, <1>2, Zenon DEF ClaimVideos, Refused
<1>4. Goes(d, "claim", "save")
  BY <1>3, GotoEffect DEF At, Goes, Pcs
<1>5. run[d].sources \in Sources /\ run[d].sources.recap # run[d].sources.plan
  BY <1>3 DEF RunOK, Made, At, Conflicts
<1>6. run[d].sources.recap \in Videos /\ run[d].sources.plan \in Videos
  BY <1>5 DEF Sources
<1>7. claim \in [Videos -> Claims \cup {NoClaim}]
  BY Zenon DEF TypeOK
<1> QED
  BY <1>3, <1>4, <1>5, <1>6, <1>7 DEF Used

\* The claims of other days are left alone.
LEMMA ClaimsApart ==
  ASSUME TypeOK, NEW d \in Days, RunOK(d), DayStep(d), NEW e \in Days \ {d}, NEW v \in Videos,
         claim[v] # NoClaim, claim[v].day = e
  PROVE  claim'[v] = claim[v]
<1>1. CASE Release(d)
  BY <1>1 DEF Release, Releasable
<1>2. CASE run'[d].pc = "save"
  <2>1. v \notin Used(run[d].sources)
    <3>1. ~Conflicts(d, run[d].sources)
      BY <1>2, ClaimEffect
    <3> QED
      BY <3>1 DEF Conflicts, Conflict, Used, ClaimFor
  <2> QED
    BY <1>2, <2>1, ClaimEffect
<1> QED
  BY <1>1, <1>2, ClaimRests

LEMMA ClaimNext ==
  ASSUME TypeOK, DayInv, ClaimInv, [Next]_vars
  PROVE  ClaimInv'
<1> SUFFICES ASSUME Spared({"uncommit", "crash"})', NEW e \in Days
             PROVE  /\ manifest'[e] # NoManifest /\ run'[e].pc # "unlink" => Claimed(e, manifest[e].sources)'
                    /\ run'[e].pc = "save" => Claimed(e, run[e].sources)'
  BY DEF ClaimInv, At, Claimed
<1>1. ASSUME NEW d \in Days, DayStep(d)
      PROVE  /\ manifest'[e] # NoManifest /\ run'[e].pc # "unlink" => Claimed(e, manifest[e].sources)'
             /\ run'[e].pc = "save" => Claimed(e, run[e].sources)'
  <2>1. \A x \in Days : RunOK(x) /\ ManifestOK(x)
    BY DEF DayInv
  <2>2. \A x \in Days :
          /\ manifest[x] # NoManifest /\ run[x].pc # "unlink" => Claimed(x, manifest[x].sources)
          /\ run[x].pc = "save" => Claimed(x, run[x].sources)
    BY SparedBefore DEF ClaimInv, At
  <2>3. CASE e # d
    <3>1. run'[e] = run[e] /\ manifest'[e] = manifest[e]
      BY <1>1, <2>1, <2>3, StepOfDay DEF RunsOn
    <3>2. ASSUME NEW v \in Videos, NEW slot \in Flavors, claim[v] = ClaimFor(e, slot)
          PROVE  claim'[v] = claim[v]
      <4>1. claim[v] # NoClaim /\ claim[v].day = e
        BY <3>2 DEF ClaimFor, Claims
      <4> QED
        BY <1>1, <2>1, <2>3, <4>1, ClaimsApart
    <3>3. /\ manifest[e] # NoManifest => manifest[e].sources \in Sources
          /\ run[e].pc = "save" => run[e].sources \in Sources
      <4>1. manifest[e] \in Manifests \cup {NoManifest}
        BY Zenon DEF TypeOK
      <4> QED
        BY <2>1, <4>1 DEF Manifests, RunOK, Made
    <3> QED
      BY <2>2, <3>1, <3>2, <3>3 DEF Claimed, Sources, Flavors
  <2>4. CASE e = d
    <3>1. run'[d].pc = "save" => Claimed(d, run[d].sources)'
      <4>1. ASSUME run'[d].pc = "save"
            PROVE  Claimed(d, run[d].sources)'
        <5>1. /\ Goes(d, "claim", "save") /\ ~Conflicts(d, run[d].sources)
              /\ claim'[run[d].sources.recap] = ClaimFor(d, "recap")
              /\ claim'[run[d].sources.plan] = ClaimFor(d, "tradePlan")
          BY <1>1, <2>1, <4>1, ClaimEffect
        <5>2. run'[d].sources = run[d].sources
          BY <5>1, GoesKeeps
        <5> QED
          BY <5>1, <5>2 DEF Claimed, Conflicts
      <4> QED
        BY <4>1
    <3>2. ASSUME manifest'[d] # NoManifest, run'[d].pc # "unlink"
          PROVE  Claimed(d, manifest[d].sources)'
      <4>1. ~Release(d)
        <5>1. Release(d) => run'[d].pc = "unlink"
          BY GotoEffect DEF Release, Pcs
        <5> QED
          BY <3>2, <5>1
      <4>2. CASE manifest[d] # NoManifest
        <5>1. run[d].pc # "unlink"
          <6>1. ASSUME Rests(d), run[d].pc = "unlink" PROVE FALSE
            <7>1. ~Unlink(d) /\ ~UncommitUnsure(d)
              BY <3>2 DEF Unlink, UncommitUnsure, TypeOK
            <7>2. Fault("uncommit")
              BY <6>1, <7>1 DEF Rests, Plan, ReadManifest, Release, UncommitFails, At
            <7> QED
              BY <7>2, FaultSeen
          <6> QED
            BY <1>1, <2>1, <6>1, Places DEF DayStep, Works, Gathering, Made
        <5>2. manifest'[d] = manifest[d]
          BY <1>1, <2>1, <3>2, <4>2, CommittedRests
        <5>3. claim' = claim
          <6>1. run[d].pc # "claim"
            BY <2>1, <4>2 DEF ManifestOK, AtRest
          <6>2. run'[d].pc # "save"
            BY <1>1, <2>1, <6>1, ClaimEffect DEF Goes
          <6> QED
            BY <1>1, <2>1, <4>1, <6>2, ClaimRests
        <5> QED
          BY <2>2, <4>2, <5>1, <5>2, <5>3 DEF Claimed
      <4>3. CASE manifest[d] = NoManifest
        <5>1. SaveManifest(d) \/ SaveUnsure(d)
          BY <1>1, <2>1, <3>2, <4>3, ManifestEffect
        <5>2. claim' = claim /\ run[d].pc = "save" /\ manifest'[d] = Recorded(d)
          BY <5>1 DEF SaveManifest, SaveUnsure, At, TypeOK
        <5> QED
          BY <2>2, <5>1, <5>2 DEF Claimed, Recorded
      <4> QED
        BY <4>2, <4>3
    <3> QED
      BY <2>4, <3>1, <3>2
  <2> QED
    BY <2>3, <2>4
<1>2. CASE \A d \in Days : ~DayStep(d)
  <2>1. ~Crash
    BY FaultSeen DEF Crash
  <2>2. UNCHANGED <<manifest, claim, run>>
    BY <1>2, <2>1, OtherSteps
  <2>3. Spared({"uncommit", "crash"})
    BY SparedBefore
  <2> QED
    BY <2>2, <2>3 DEF ClaimInv, At, Claimed
<1> QED
  BY <1>1, <1>2

\* A forced run gives back all that its day holds.
LEMMA ReadEffect ==
  ASSUME TypeOK, NEW d \in Days, RunOK(d), DayStep(d), run'[d].pc = "release"
  PROVE  /\ manifest' = manifest
         /\ (manifest[d] # NoManifest => run'[d].old = Used(manifest[d].sources)) \/ Fault("read")
<1>1. Rests(d)
  BY Places DEF DayStep, Works, Gathering, Made
<1>2. /\ run[d].pc = "read"
      /\ (manifest[d] # NoManifest => run'[d].old = Used(manifest[d].sources)) \/ Fault("read")
  <2>1. Goes(d, "plan", "resolve") => run'[d].pc = "resolve"
    BY GoesKeeps
  <2>2. Goes(d, "release", "unlink") => run'[d].pc = "unlink"
    BY GoesKeeps
  <2>3. Goes(d, "unlink", "resolve") => run'[d].pc = "resolve"
    BY GoesKeeps
  <2> QED
    BY <1>1, <2>1, <2>2, <2>3, RestEffect DEF Rests, NoRun
<1> QED
  BY <1>1, <1>2 DEF Rests, Plan, ReadManifest, Release, Unlink, UncommitFails, UncommitUnsure, At, storeVars

LEMMA BackedNext ==
  ASSUME TypeOK, DayInv, BackedInv, [Next]_vars
  PROVE  BackedInv'
<1> DEFINE Backed(v) == LET x == claim[v].day IN
             \/ manifest[x] # NoManifest /\ run[x].pc # "unlink" /\ v \in Used(manifest[x].sources)
             \/ run[x].pc = "save" /\ v \in Used(run[x].sources)
           Whole(x) == run[x].pc = "release" /\ manifest[x] # NoManifest => run[x].old = Used(manifest[x].sources)
<1> SUFFICES ASSUME Spared({"save", "ack", "uncommit", "read", "crash"})'
             PROVE  /\ \A v \in Videos : claim'[v] # NoClaim => Backed(v)'
                    /\ \A x \in Days : Whole(x)'
  BY DEF BackedInv, At
<1>1. ASSUME NEW d \in Days, DayStep(d)
      PROVE  /\ \A v \in Videos : claim'[v] # NoClaim => Backed(v)'
             /\ \A x \in Days : Whole(x)'
  <2>1. \A x \in Days : RunOK(x) /\ ManifestOK(x)
    BY DEF DayInv
  <2>2. /\ \A v \in Videos : claim[v] # NoClaim => Backed(v)
        /\ \A x \in Days : Whole(x)
    BY SparedBefore DEF BackedInv, At
  <2>3. ~Fault("save") /\ ~Fault("ack") /\ ~Fault("uncommit") /\ ~Fault("read")
    BY FaultSeen
  <2>4. \A x \in Days \ {d} : run'[x] = run[x] /\ manifest'[x] = manifest[x]
    BY <1>1, <2>1, StepOfDay DEF RunsOn
  <2>5. \A x \in Days : Whole(x)'
    <3>1. Whole(d)'
      BY <1>1, <2>1, <2>3, ReadEffect
    <3> QED
      BY <2>2, <2>4, <3>1
  <2>6. ASSUME NEW v \in Videos, claim'[v] # NoClaim, claim'[v] = claim[v], claim[v].day = d, ~Release(d)
        PROVE  Backed(v)'
    <3>1. CASE manifest[d] # NoManifest /\ run[d].pc # "unlink" /\ v \in Used(manifest[d].sources)
      <4>1. run[d].pc \in AtRest \cup {"discard"}
        BY <2>1, <3>1 DEF ManifestOK
      <4>2. manifest'[d] = manifest[d]
        BY <1>1, <2>1, <3>1, <4>1, ManifestEffect DEF Goes, AtRest
      <4>3. run'[d].pc # "unlink"
        <5>1. ASSUME Rests(d) PROVE run'[d].pc # "unlink"
          BY <2>1, <2>6, <5>1, RestPlaces
        <5> QED
          BY <1>1, <2>1, <5>1, Places DEF DayStep, Works
      <4> QED
        BY <2>6, <3>1, <4>2, <4>3
    <3>2. CASE run[d].pc = "save" /\ v \in Used(run[d].sources)
      <4>1. SaveManifest(d)
        BY <1>1, <2>1, <2>3, <3>2, Places DEF DayStep, Works, StageFails, SaveUnsure, At
      <4>2. manifest'[d] = Recorded(d) /\ run'[d].pc = "idle"
        BY <2>1, <4>1, Places DEF SaveManifest, TypeOK
      <4>3. manifest'[d] # NoManifest
        BY <2>1, <3>2, <4>2, RecordedTyped
      <4> QED
        BY <2>6, <3>2, <4>2, <4>3 DEF Recorded
    <3> QED
      BY <2>2, <2>6, <3>1, <3>2
  <2>7. ASSUME NEW v \in Videos, claim'[v] # NoClaim
        PROVE  Backed(v)'
    <3>1. CASE Release(d)
      <4>1. claim'[v] = claim[v] /\ ~Releasable(d, v) /\ run[d].pc = "release" /\ manifest' = manifest
        BY <2>7, <3>1 DEF Release, At
      <4>2. claim[v].day # d
        BY <2>2, <2>7, <4>1 DEF Releasable
      <4>3. claim[v].day \in Days
        <5>1. claim[v] \in Claims \cup {NoClaim}
          BY Zenon DEF TypeOK
        <5> QED
          BY <2>7, <4>1, <5>1 DEF Claims
      <4>4. run'[claim[v].day] = run[claim[v].day] /\ manifest'[claim[v].day] = manifest[claim[v].day]
        BY <2>4, <4>2, <4>3
      <4>5. Backed(v)
        BY <2>2, <2>7, <4>1
      <4> QED
        BY <4>1, <4>4, <4>5
    <3>2. CASE run'[d].pc = "save" /\ v \in Used(run[d].sources)
      <4>1. /\ Goes(d, "claim", "save")
            /\ claim'[run[d].sources.recap] = ClaimFor(d, "recap")
            /\ claim'[run[d].sources.plan] = ClaimFor(d, "tradePlan")
        BY <1>1, <2>1, <3>2, ClaimEffect
      <4>2. claim'[v].day = d
        BY <3>2, <4>1 DEF Used, ClaimFor
      <4>3. run'[d].sources = run[d].sources
        BY <4>1, GoesKeeps
      <4> QED
        BY <3>2, <4>2, <4>3
    <3>3. CASE ~Release(d) /\ ~(run'[d].pc = "save" /\ v \in Used(run[d].sources))
      <4>1. claim'[v] = claim[v]
        BY <1>1, <2>1, <3>3, ClaimRests, ClaimEffect
      <4>2. CASE claim[v].day = d
        BY <2>6, <2>7, <3>3, <4>1, <4>2
      <4>3. CASE claim[v].day # d
        <5>1. claim[v] \in Claims \cup {NoClaim}
          BY Zenon DEF TypeOK
        <5>2. claim[v].day \in Days
          BY <2>7, <4>1, <5>1 DEF Claims
        <5> QED
          BY <2>2, <2>4, <2>7, <4>1, <4>3, <5>2
      <4> QED
        BY <4>2, <4>3
    <3> QED
      BY <3>1, <3>2, <3>3
  <2> QED
    BY <2>5, <2>7
<1>2. CASE \A d \in Days : ~DayStep(d)
  <2>1. ~Crash
    BY FaultSeen DEF Crash
  <2>2. UNCHANGED <<manifest, claim, run>>
    BY <1>2, <2>1, OtherSteps
  <2>3. Spared({"save", "ack", "uncommit", "read", "crash"})
    BY SparedBefore
  <2> QED
    BY <2>2, <2>3 DEF BackedInv, At
<1> QED
  BY <1>1, <1>2

------------------------------------------------------------------------------
(* The theorems.                                                            *)

LEMMA InvInit == Init => IInv
BY InitTyped, DayInit, FilesInit, LeftInit, ClaimInit DEF IInv

LEMMA InvNext == IInv /\ [Next]_vars => IInv'
<1> SUFFICES ASSUME IInv, [Next]_vars PROVE IInv'
  OBVIOUS
<1>1. TypeOK /\ DayInv /\ FilesInv /\ LeftInv /\ ClaimInv /\ BackedInv
  BY DEF IInv
<1> QED
  BY <1>1, NextTyped, DayNext, FilesNext, LeftNext, ClaimNext, BackedNext DEF IInv

LEMMA Invariance == Spec => []IInv
BY InvInit, InvNext, PTL DEF Spec

\* The stores, the runs and the sweep hold what the code puts there.
THEOREM TypeCorrect == Spec => []TypeOK
<1>1. IInv => TypeOK
  BY DEF IInv
<1> QED
  BY <1>1, Invariance, PTL

\* Whatever the sequence of requests, forced or not, of failures that have no effect,
\* refusals, discards, sweeps and crashes, a committed day holds the three files its
\* manifest records and no others, but for a day that a sweep deleted from after its
\* manifest was written or while its run relied on what is deleted; and as long as no
\* write of a manifest lands and is reported as failed.
THEOREM CommitsStayComplete == Spec => []CommittedIsComplete
<1>1. IInv => CommittedIsComplete
  BY DEF IInv, FilesInv
<1> QED
  BY <1>1, Invariance, PTL

\* What a committed day serves is a recap and a trade plan, and of no other weekday: the
\* verdict is taken again of what is reloaded, and nothing is gathered after it.
THEOREM CommitsAreRight == Spec => []CommittedIsRight
<1>1. IInv => CommittedIsRight
  <2> SUFFICES ASSUME IInv, NEW d \in CommittedOf(Days)
               PROVE  /\ Verdict[manifest[d].recap].docType = "recap"
                      /\ Verdict[manifest[d].plan].docType = "tradePlan"
                      /\ Verdict[manifest[d].recap].weekdays \subseteq {Weekday(manifest[d].recapDate)}
                      /\ Verdict[manifest[d].plan].weekdays \subseteq {Weekday(d)}
    BY DEF CommittedIsRight
  <2>1. Fits(d, manifest[d].recapDate, manifest[d].recap, manifest[d].plan, manifest[d].pdf)
    BY DEF IInv, DayInv, ManifestOK, CommittedOf
  <2> QED
    BY <2>1 DEF Fits, SpeaksOf, VerdictFits
<1> QED
  BY <1>1, Invariance, PTL

\* The claims keep the videos of two committed days apart, and the two of a day, while
\* no uncommit fails half way and no process dies.
THEOREM VideosStayApart == Spec => []NoSharedVideo
<1>1. IInv => NoSharedVideo
  <2> SUFFICES ASSUME IInv, Spared({"uncommit", "crash"}),
                      NEW d \in {x \in CommittedOf(Days) : ~At(x, "unlink")},
                      NEW e \in {x \in CommittedOf(Days) : ~At(x, "unlink")}
               PROVE  /\ d # e => Used(manifest[d].sources) \cap Used(manifest[e].sources) = {}
                      /\ manifest[d].sources.recap # manifest[d].sources.plan
    BY DEF NoSharedVideo
  <2>1. Claimed(d, manifest[d].sources) /\ Claimed(e, manifest[e].sources)
    BY DEF IInv, ClaimInv, CommittedOf
  <2>2. \A v \in Used(manifest[d].sources) : claim[v].day = d
    BY <2>1 DEF Claimed, Used, ClaimFor
  <2>3. \A v \in Used(manifest[e].sources) : claim[v].day = e
    BY <2>1 DEF Claimed, Used, ClaimFor
  <2> QED
    BY <2>1, <2>2, <2>3 DEF Claimed
<1> QED
  BY <1>1, Invariance, PTL

\* The sources a manifest names are the videos its artifacts were made from: of the trade
\* plan also after forced requests, of the recap as long as none was; unless a discard
\* missed a file, a process died or a manifest's write or deletion was misreported.
THEOREM SourcesStayMatched == Spec => []SourcesMatch
<1>1. IInv => SourcesMatch
  BY DEF IInv, LeftInv
<1> QED
  BY <1>1, Invariance, PTL

\* A run that ends without a commit leaves none of its files behind.
THEOREM RunsAreAllOrNothing == Spec => []AllOrNothing
<1>1. IInv => AllOrNothing
  <2> SUFFICES ASSUME IInv, forces = 0, Spared({"discard", "crash"}),
                      NEW d \in Days, At(d, "idle"), manifest[d] = NoManifest
               PROVE  Present(d) = {}
    BY DEF AllOrNothing
  <2>1. \A s \in Slots : Gone(d, s)
    BY DEF IInv, LeftInv, LeftOK, At, AtRest
  <2> QED
    BY <2>1 DEF Gone, Present
<1> QED
  BY <1>1, Invariance, PTL

\* Between runs the files, the manifests and the claims of any set of days agree.
LEMMA QuietAudit ==
  ASSUME IInv, Idle, Spared({"save", "ack", "uncommit", "read", "crash"}), NEW D \in SUBSET (Days \ swept)
  PROVE  Anomalies(D) = {}
<1>1. DamagedDays(D) = {}
  <2> SUFFICES ASSUME NEW d \in CommittedOf(D) PROVE d \notin DamagedDays(D)
    BY DEF DamagedDays
  <2>1. d \in CommittedOf(Days) \ swept /\ Spared({"ack"})
    BY DEF CommittedOf, Spared
  <2>2. \A r \in Records(manifest[d]) : files[d][r[1]] = r[2]
    BY <2>1 DEF IInv, FilesInv, CommittedIsComplete
  <2>3. /\ DayInvariants(d, manifest[d].recapDate)
        /\ Fits(d, manifest[d].recapDate, manifest[d].recap, manifest[d].plan, manifest[d].pdf)
    BY <2>1 DEF IInv, DayInv, ManifestOK, CommittedOf
  <2>4. /\ TranscriptFits(Transcript[manifest[d].recap]) /\ TranscriptFits(Transcript[manifest[d].plan])
        /\ PdfFits(Worksheet[manifest[d].pdf])
    BY <2>3 DEF Fits, SpeaksOf
  <2> QED
    BY <2>2, <2>3, <2>4 DEF DamagedDays
<1>2. \A d \in CommittedOf(D) : Claimed(d, manifest[d].sources)
  <2>1. Spared({"uncommit", "crash"})
    BY DEF Spared
  <2> QED
    BY <2>1 DEF IInv, ClaimInv, CommittedOf, Idle, At
<1>3. ASSUME NEW v \in Videos, NEW d \in OwnersOf(v, D)
      PROVE  OwnersOf(v, D) = {d} /\ claim[v] = Wanted(v, D)
  <2>1. \A e \in OwnersOf(v, D) : claim[v].day = e
    <3> SUFFICES ASSUME NEW e \in OwnersOf(v, D) PROVE claim[v].day = e
      OBVIOUS
    <3>1. Claimed(e, manifest[e].sources) /\ v \in Used(manifest[e].sources)
      BY <1>2 DEF OwnersOf
    <3> QED
      BY <3>1 DEF Claimed, Used, ClaimFor
  <2>2. OwnersOf(v, D) = {d}
    BY <2>1
  <2>3. Max({d}) = d
    <3>1. d \in Nat
      BY DEF OwnersOf, CommittedOf
    <3> QED
      BY <3>1 DEF Max
  <2>4. claim[v] = ClaimFor(d, IF v = manifest[d].sources.plan THEN "tradePlan" ELSE "recap")
    BY <1>2 DEF OwnersOf, Claimed, Used
  <2> QED
    BY <2>2, <2>3, <2>4 DEF Wanted
<1>4. SharedVideos(D) = {}
  <2> SUFFICES ASSUME NEW v \in Videos PROVE ~(Cardinality(OwnersOf(v, D)) > 1)
    BY DEF SharedVideos
  <2>1. CASE OwnersOf(v, D) = {}
    BY <2>1, FS_EmptySet
  <2>2. CASE \E d : d \in OwnersOf(v, D)
    <3> PICK d \in OwnersOf(v, D) : TRUE
      BY <2>2
    <3>1. Cardinality({d}) = 1
      BY FS_Singleton
    <3> QED
      BY <1>3, <3>1
  <2> QED
    BY <2>1, <2>2
<1>5. OrphanedClaims(D) = {}
  <2> SUFFICES ASSUME NEW v \in Videos, claim[v] # NoClaim, claim[v].day \in D PROVE OwnersOf(v, D) # {}
    BY DEF OrphanedClaims
  <2>1. manifest[claim[v].day] # NoManifest /\ v \in Used(manifest[claim[v].day].sources)
    BY DEF IInv, BackedInv, Idle, At
  <2> QED
    BY <2>1 DEF OwnersOf, CommittedOf
<1>6. UnclaimedVideos(D) = {}
  BY <1>3 DEF UnclaimedVideos
<1> QED
  BY <1>1, <1>4, <1>5, <1>6 DEF Anomalies

\* Between runs an audit of any range finds nothing, whatever was forced, refused,
\* discarded and swept before, unless a process died, a commit or an uncommit was cut
\* short or misreported, a manifest could not be read or a sweep deleted from a day of
\* the range that was relied on.
THEOREM AuditsAreQuiet == Spec => []AuditIsQuiet
<1>1. IInv => AuditIsQuiet
  BY QuietAudit DEF AuditIsQuiet
<1> QED
  BY <1>1, Invariance, PTL

------------------------------------------------------------------------------
(* The bulk backfill.                                                       *)

USE BackfillAssumption

\* A backfill forces nothing, so a run of it never uncommits its day.
Unforced == \A d \in Days : RunOK(d) /\ ~run[d].force /\ ~waiting[d]

Jobs == [state : {"none", "running", "done", "cancelled", "failed"}, pc : {"scrape", "loop", "wait", "end"},
         range : Ranges \cup {<<>>}, scraped : Versions, outcome : [Days -> Outcomes],
         current : Days \cup {NoDay}, row : 0 .. MaxStageFailures, cancel : BOOLEAN]
JobOK(j) ==
  j \in Jobs /\ (j.pc = "end" <=> j.state # "running") /\ (j.current # NoDay <=> j.pc = "wait")

\* The listing of a job is one the archive has shown.
ScrapedOK == job.pc \in {"loop", "wait"} => job.scraped <= version

BInv == TypeOK /\ Unforced /\ JobOK(job) /\ hung \in Days \cup {NoDay} /\ ScrapedOK /\ CountedIsCommitted

LEMMA LeastDay ==
  ASSUME NEW S \in SUBSET Nat, S # {}
  PROVE  Min(S) \in S
<1>a. \A a, b \in Nat : ~(b < a) => a =< b
  OBVIOUS
<1>1. \E x \in S : \A y \in S : ~(<<y, x>> \in OpToRel(<, Nat))
  BY NatLessThanWellFounded, WFMin
<1>2. \A x, y \in Nat : <<y, x>> \in OpToRel(<, Nat) <=> y < x
  BY DEF OpToRel
<1>3. \E x \in S : \A y \in S : x =< y
  <2> PICK x \in S : \A y \in S : ~(<<y, x>> \in OpToRel(<, Nat))
    BY <1>1
  <2>1. \A y \in S : ~(y < x)
    BY <1>2
  <2>2. \A y \in S : y \in Nat /\ x \in Nat
    OBVIOUS
  <2> QED
    BY <1>a, <2>1, <2>2, Zenon
<1> QED
  BY <1>3 DEF Min

\* A step of the ingest that forces nothing takes no commit back.
LEMMA IngestGoesOn ==
  ASSUME TypeOK, Unforced, [Next]_vars, forces' = forces
  PROVE  /\ TypeOK' /\ Unforced' /\ version <= version'
         /\ \A d \in Days : manifest[d] # NoManifest => manifest'[d] # NoManifest
<1>v. version' = version \/ ArchiveMoves
  <2>1. ASSUME NEW d \in Days, DayStep(d) PROVE version' = version
    BY <2>1, StepOfDay DEF Unforced
  <2>2. ASSUME NEW d \in Days, IngestForced(d) PROVE version' = version
    BY <2>2 DEF IngestForced
  <2> QED
    BY <2>1, <2>2, Steps DEF PruneList, PruneDelete, Crash, vars
<1>w. version <= version'
  BY <1>v DEF ArchiveMoves, TypeOK
<1>1. ASSUME NEW d \in Days, DayStep(d)
      PROVE  /\ TypeOK' /\ Unforced'
             /\ \A e \in Days : manifest[e] # NoManifest => manifest'[e] # NoManifest
  <2>1. RunOK(d) /\ ~run[d].force /\ ~waiting[d]
    BY DEF Unforced
  <2>2. RunsOn(d) /\ \A e \in Days \ {d} : manifest'[e] = manifest[e]
    BY <1>1, <2>1, StepOfDay
  <2>3. TypeOK'
    <3>1. waiting' \in [Days -> BOOLEAN] /\ faults' \in [Faults -> Nat]
      BY <1>1, <2>1, StepOfDay
    <3>2. UNCHANGED <<version, pruneTodo, forces>> /\ swept' \subseteq swept
      BY <1>1, <2>1, StepOfDay
    <3> QED
      BY <1>1, <2>1, <2>2, <3>1, <3>2, StoresTyped DEF TypeOK, RunsOn
  <2>4. RunOK(d)' /\ ~run'[d].force
    BY <1>1, <2>1, RunStays, ForceKept
  <2>5. \A e \in Days : ~waiting'[e]
    BY <1>1, <2>1, StepOfDay DEF Unforced
  <2>6. Unforced'
    BY <2>2, <2>4, <2>5 DEF Unforced, RunsOn, RunOK, Fits, SpeaksOf
  <2>7. manifest'[d] = manifest[d] \/ manifest'[d] # NoManifest
    <3>1. run[d].pc # "unlink"
      BY <2>1 DEF RunOK
    <3> QED
      BY <1>1, <2>1, <3>1, ManifestEffect, RecordedTyped DEF Goes
  <2> QED
    BY <2>2, <2>3, <2>6, <2>7
<1>2. CASE \A d \in Days : ~DayStep(d)
  <2>1. TypeOK' /\ manifest' = manifest
    BY <1>2, OtherSteps
  <2>2. ASSUME Crash PROVE Unforced'
    <3>1. \A d \in Days : run'[d] = NoRun /\ waiting'[d] = FALSE
      BY <2>2 DEF Crash
    <3>2. \A d \in Days : RunOK(d)' /\ ~run'[d].force
      BY <3>1 DEF RunOK, NoRun, Made
    <3> QED
      BY <3>1, <3>2, Zenon DEF Unforced
  <2>3. ASSUME UNCHANGED <<run, waiting>> PROVE Unforced'
    <3>1. \A d \in Days : RunOK(d)'
      BY <2>3 DEF Unforced, RunOK, Fits, SpeaksOf
    <3> QED
      BY <2>3, <3>1, Zenon DEF Unforced
  <2>4. \A d \in Days : ~IngestForced(d)
    <3>1. \A d \in Days : IngestForced(d) => forces' = forces + 1
      BY Zenon DEF IngestForced
    <3>2. forces \in 0 .. MaxForces
      BY DEF TypeOK
    <3> QED
      BY <3>1, <3>2
  <2> QED
    BY <1>2, <1>w, <2>1, <2>2, <2>3, <2>4, OtherSteps DEF PruneList, PruneDelete
<1> QED
  BY <1>1, <1>2, <1>w

\* The same of the steps the backfill has of its own.
LEMMA BackfillGoesOn ==
  ASSUME BInv, [BackfillNext]_bvars
  PROVE  /\ TypeOK' /\ Unforced' /\ version <= version'
         /\ \A d \in Days : manifest[d] # NoManifest => manifest'[d] # NoManifest
<1> USE DEF BInv
<1>1. ASSUME NEW d \in Days, IngestStep(d) \/ IngestFails(d) \/ Post(d)
      PROVE  [Next]_vars /\ forces' = forces
  BY <1>1 DEF IngestStep, IngestFails, Post, Next, RunStep, Ingest, List, Plan, ReadManifest, Release, Unlink,
     Resolve, RemoveStaleRecaps, Produce, Upload, ClaimVideos, SaveManifest, Discard, StageFails
<1>2. CASE Moves \/ Sweep \/ (\E o \in pruneTodo : SweepDelete(o)) \/ Restart
  <2>1. [Next]_vars /\ forces' = forces
    BY <1>2 DEF Moves, Sweep, SweepDelete, Restart, Next, ArchiveMoves, PruneList, PruneDelete, Crash
  <2> QED
    BY <2>1, IngestGoesOn
<1>3. CASE UNCHANGED vars
  BY <1>3, IngestGoesOn DEF vars
<1>4. CASE UNCHANGED <<version, storeVars, run, waiting, pruneTodo, swept, forces>> /\ \E kind : Fault(kind)
  <2>1. TypeOK'
    BY <1>4, FaultTyped DEF TypeOK, storeVars
  <2>2. Unforced'
    BY <1>4 DEF Unforced, RunOK, Fits, SpeaksOf
  <2> QED
    BY <1>4, <2>1, <2>2 DEF TypeOK, storeVars
<1>5. ASSUME NEW d \in Days, RunsOn(d), RunOK(d)', ~run'[d].force, faults' \in [Faults -> Nat],
             UNCHANGED <<version, storeVars, waiting, pruneTodo, swept, forces>>
      PROVE  TypeOK' /\ Unforced' /\ version <= version' /\ manifest' = manifest
  <2>1. TypeOK'
    BY <1>5 DEF TypeOK, storeVars, RunsOn
  <2>2. Unforced'
    BY <1>5 DEF Unforced, RunOK, Fits, SpeaksOf, RunsOn
  <2> QED
    BY <1>5, <2>1, <2>2 DEF TypeOK, storeVars
<1>6. ASSUME NEW d \in Days, ListingFails(d)
      PROVE  TypeOK' /\ Unforced' /\ version <= version' /\ manifest' = manifest
  <2>1. RunsOn(d) /\ run'[d] = NoRun
    BY <1>6, GotoEffect DEF ListingFails, RunsOn, Pcs
  <2>2. RunOK(d)' /\ ~run'[d].force
    BY <2>1 DEF RunOK, NoRun, Made
  <2>3. faults' \in [Faults -> Nat]
    BY <1>6, FaultTyped DEF ListingFails
  <2> QED
    BY <1>5, <1>6, <2>1, <2>2, <2>3 DEF ListingFails
<1>7. CASE NextDay
  <2>1. Min(Todo) \in Days
    BY <1>7, LeastDay DEF NextDay, Todo
  <2> PICK d \in Days : d = Min(Todo)
    BY <2>1
  <2>2. CASE UNCHANGED run
    BY <1>7, <2>2, IngestGoesOn DEF NextDay, vars, storeVars
  <2>3. ASSUME At(d, "idle"), run' = [run EXCEPT ![d] = Fresh(FALSE)]
        PROVE  RunsOn(d) /\ RunOK(d)' /\ ~run'[d].force
    <3>1. RunsOn(d) /\ run'[d].pc = "list" /\ run'[d].force = FALSE
      BY <2>3, FreshEffect DEF RunsOn
    <3>2. RunOK(d)'
      BY <3>1 DEF RunOK, Made
    <3> QED
      BY <3>1, <3>2, Zenon
  <2>4. ASSUME ~Failed(Resolved[job.scraped][d]), run' = [run EXCEPT ![d] = Prepared(job.scraped, d)]
        PROVE  RunsOn(d) /\ RunOK(d)' /\ ~run'[d].force
    <3>1. job.scraped \in Versions
      BY DEF JobOK, Jobs
    <3>2. /\ RunsOn(d) /\ run'[d].pc = "plan" /\ ~run'[d].force
          /\ run'[d].entries \in Entries /\ DayInvariants(d, run'[d].entries.recapDate)
      BY <2>4, <3>1, PreparedEffect DEF RunsOn
    <3>3. RunOK(d)'
      BY <3>2 DEF RunOK, Made
    <3> QED
      BY <3>2, <3>3, Zenon
  <2>5. UNCHANGED run \/ (RunsOn(d) /\ RunOK(d)' /\ ~run'[d].force)
    BY <1>7, <2>3, <2>4, Zenon DEF NextDay
  <2>6. UNCHANGED <<version, storeVars, waiting, pruneTodo, swept, forces>> /\ faults' \in [Faults -> Nat]
    BY <1>7 DEF NextDay, TypeOK
  <2>7. CASE RunsOn(d) /\ RunOK(d)' /\ ~run'[d].force
    BY <1>5, <2>6, <2>7
  <2> QED
    BY <2>2, <2>5, <2>7
<1>8. CASE ScrapeFails \/ \E d \in Days : Hang(d)
  BY <1>4, <1>8 DEF ScrapeFails, Hang
<1>9. CASE Start \/ Cancel \/ Scrape \/ JobEnds \/ (\E d \in Days : DayTimesOut(d)) \/ UNCHANGED bvars
  BY <1>3, <1>9 DEF Start, Cancel, Scrape, JobEnds, DayTimesOut, bvars
<1> QED
  BY <1>1, <1>2, <1>6, <1>7, <1>8, <1>9, IngestGoesOn DEF BackfillNext

LEMMA NoJobOK == JobOK(NoJob)
BY DEF JobOK, NoJob, Jobs, Outcomes

\* What the loop writes into its job.
LEMMA EndedOK ==
  ASSUME NEW j, j.outcome \in [Days -> Outcomes], NEW state \in {"done", "cancelled", "failed"}
  PROVE  JobOK(Ended(j, state)) /\ Ended(j, state).outcome = j.outcome /\ Ended(j, state).pc = "end"
BY NoJobOK DEF Ended, NoJob, JobOK, Jobs

LEMMA SettledOK ==
  ASSUME JobOK(job), job.pc \in {"loop", "wait"}, NEW d, NEW result \in Kinds \cup {"uploaded", "skipped"}
  PROVE  /\ JobOK(Settled(d, result))
         /\ \A e \in Days : Settled(d, result).outcome[e] \in {"uploaded", "skipped"} =>
              job.outcome[e] = Settled(d, result).outcome[e] \/ (e = d /\ result \in {"uploaded", "skipped"})
         /\ Settled(d, result).pc \in {"loop", "wait"} => Settled(d, result).scraped = job.scraped
<1> DEFINE row == IF result = "stage" THEN job.row + 1 ELSE 0
           outcome == IF result \in Kinds THEN "failed" ELSE result
           j == [job EXCEPT !.outcome[d] = outcome, !.row = row, !.current = NoDay, !.pc = "loop"]
<1>1. job \in Jobs /\ job.state = "running"
  BY DEF JobOK
<1>2. outcome \in Outcomes /\ (outcome \in {"uploaded", "skipped"} => result = outcome)
  BY DEF Outcomes, Kinds
<1> HIDE DEF outcome
<1>3. row \in Nat
  BY <1>1 DEF Jobs
<1> HIDE DEF row
<1>4. /\ j.outcome = [job.outcome EXCEPT ![d] = outcome] /\ j.pc = "loop"
      /\ j.state = "running" /\ j.scraped = job.scraped
      /\ row < MaxStageFailures => j \in Jobs /\ j.current = NoDay
  <2> DEFINE o == [job.outcome EXCEPT ![d] = outcome]
  <2>1. o \in [Days -> Outcomes]
    BY <1>1, <1>2 DEF Jobs
  <2>2. j = [job EXCEPT !.outcome = o, !.row = row, !.current = NoDay, !.pc = "loop"]
    BY <1>1 DEF Jobs
  <2> HIDE DEF o, j
  <2>3. j.outcome = o /\ j.pc = "loop" /\ j.state = "running" /\ j.scraped = job.scraped /\ j.current = NoDay
    BY <1>1, <2>2 DEF Jobs
  <2>4. row < MaxStageFailures => j \in Jobs
    <3>1. row < MaxStageFailures => row \in 0 .. MaxStageFailures
      BY <1>3
    <3>2. row \in 0 .. MaxStageFailures => j \in Jobs
      BY <1>1, <2>1, <2>2 DEF Jobs
    <3> QED
      BY <3>1, <3>2
  <2> QED
    BY <2>3, <2>4 DEF o
<1>5. j.outcome \in [Days -> Outcomes]
  BY <1>1, <1>2, <1>4 DEF Jobs
<1>6. \A e \in Days : j.outcome[e] \in {"uploaded", "skipped"} =>
        job.outcome[e] = j.outcome[e] \/ (e = d /\ result \in {"uploaded", "skipped"})
  BY <1>1, <1>2, <1>4 DEF Jobs
<1>7. Settled(d, result) = IF row >= MaxStageFailures THEN Ended(j, "failed") ELSE j
  BY DEF Settled, row, outcome
<1> HIDE DEF j
<1>8. CASE row >= MaxStageFailures
  BY <1>5, <1>6, <1>7, <1>8, EndedOK
<1>9. CASE row < MaxStageFailures
  <2>1. Settled(d, result) = j
    BY <1>3, <1>7, <1>9
  <2> QED
    BY <1>4, <1>6, <1>9, <2>1 DEF JobOK
<1> QED
  BY <1>3, <1>8, <1>9

\* The caller of a run sees how it ended.
LEMMA OutcomeIsTrue ==
  ASSUME TypeOK, NEW d \in Days, RunOK(d), RunStep(d), run'[d].pc = "idle", NEW result \in OutcomeOf(d)
  PROVE  /\ result \in Kinds \cup {"uploaded", "skipped"}
         /\ result \in {"uploaded", "skipped"} => manifest'[d] # NoManifest
<1>1. DayStep(d)
  BY DEF RunStep, DayStep, Rests, Works
<1>2. CASE At(d, "save")
  <2>1. SaveManifest(d)
    BY <1>1, <1>2, Places DEF RunStep, At, Rests, Works
  <2>2. manifest'[d] = Recorded(d)
    BY <2>1 DEF SaveManifest, Recorded, TypeOK
  <2> QED
    BY <1>2, <2>2, RecordedTyped DEF OutcomeOf, At
<1>3. CASE At(d, "plan")
  <2>1. Plan(d)
    BY <1>1, <1>3, Places DEF RunStep, At, Rests, Works, List, ReadManifest, Release, Unlink, UncommitFails
  <2>2. manifest[d] # NoManifest /\ manifest' = manifest
    <3>1. Goto(d, "resolve") => run'[d].pc = "resolve"
      BY GotoEffect DEF Pcs
    <3> QED
      BY <2>1, <3>1 DEF Plan, storeVars
  <2> QED
    BY <1>3, <2>2 DEF OutcomeOf, At, Kinds
<1>4. CASE ~At(d, "save") /\ ~At(d, "plan")
  BY <1>4 DEF OutcomeOf, Kinds
<1> QED
  BY <1>2, <1>3, <1>4

LEMMA BackfillInitOK == BackfillInit => BInv
<1> SUFFICES ASSUME BackfillInit PROVE BInv
  OBVIOUS
<1>1. TypeOK /\ JobOK(job) /\ hung \in Days \cup {NoDay}
  BY InitTyped, NoJobOK DEF BackfillInit
<1>2. \A d \in Days : RunOK(d) /\ run[d] = NoRun /\ waiting[d] = FALSE
  BY DayInit DEF BackfillInit, Init, DayInv
<1>3. Unforced
  BY <1>2 DEF Unforced, NoRun
<1>4. CountedIsCommitted /\ ScrapedOK
  BY DEF BackfillInit, NoJob, CountedIsCommitted, ScrapedOK
<1> QED
  BY <1>1, <1>3, <1>4 DEF BInv

\* What becomes of the job is sound if what it counts is committed.
LEMMA JobGoesOn ==
  ASSUME BInv, [BackfillNext]_bvars
  PROVE  /\ JobOK(job)' /\ hung' \in Days \cup {NoDay}
         /\ job'.pc \in {"loop", "wait"} => (job'.scraped = job.scraped /\ job.pc \in {"loop", "wait"}) \/ Scrape
         /\ \A d \in Days : job'.outcome[d] \in {"uploaded", "skipped"} =>
              job.outcome[d] = job'.outcome[d] \/ manifest'[d] # NoManifest
<1> DEFINE Goal == /\ JobOK(job)' /\ hung' \in Days \cup {NoDay}
                   /\ job'.pc \in {"loop", "wait"} => (job'.scraped = job.scraped /\ job.pc \in {"loop", "wait"}) \/ Scrape
                   /\ \A d \in Days : job'.outcome[d] \in {"uploaded", "skipped"} =>
                        job.outcome[d] = job'.outcome[d] \/ manifest'[d] # NoManifest
<1>0. JobOK(job) /\ job \in Jobs /\ hung \in Days \cup {NoDay} /\ TypeOK /\ \A d \in Days : RunOK(d)
  BY DEF BInv, JobOK, Unforced
<1>1. ASSUME UNCHANGED job, hung' \in Days \cup {NoDay} PROVE Goal
  BY <1>0, <1>1 DEF JobOK
<1>2. ASSUME UNCHANGED hung, job.pc \in {"loop", "wait"}, NEW d,
             NEW result \in Kinds \cup {"uploaded", "skipped"}, job' = Settled(d, result),
             d \in Days /\ result \in {"uploaded", "skipped"} => manifest'[d] # NoManifest
      PROVE  Goal
  <2>1. JobOK(job)'
    BY <1>0, <1>2, SettledOK DEF JobOK
  <2>2. \A e \in Days : job'.outcome[e] \in {"uploaded", "skipped"} =>
          job.outcome[e] = job'.outcome[e] \/ (e = d /\ result \in {"uploaded", "skipped"})
    BY <1>0, <1>2, SettledOK
  <2>3. job'.pc \in {"loop", "wait"} => job'.scraped = job.scraped
    BY <1>0, <1>2, SettledOK
  <2> QED
    BY <1>0, <1>2, <2>1, <2>2, <2>3
<1>3. ASSUME UNCHANGED hung, NEW state \in {"done", "cancelled", "failed"}, job' = Ended(job, state)
      PROVE  Goal
  <2>1. JobOK(job') /\ job'.outcome = job.outcome /\ job'.pc = "end"
    BY <1>0, <1>3, EndedOK DEF Jobs
  <2> QED
    BY <1>0, <1>3, <2>1 DEF JobOK
<1>4. CASE Start
  <2> PICK range \in Ranges : job' = [NoJob EXCEPT !.state = "running", !.pc = "scrape", !.range = range]
    BY <1>4 DEF Start
  <2>1. JobOK(job') /\ job'.pc = "scrape" /\ job'.outcome = [d \in Days |-> "out"]
    BY NoJobOK DEF NoJob, JobOK, Jobs
  <2> QED
    BY <1>0, <1>4, <2>1 DEF Start, JobOK
<1>5. CASE Cancel
  <2>1. /\ JobOK(job') /\ job'.pc = job.pc /\ job'.outcome = job.outcome /\ job'.scraped = job.scraped
    BY <1>0, <1>5 DEF Cancel, JobOK, Jobs
  <2> QED
    BY <1>0, <1>5, <2>1 DEF Cancel, JobOK
<1>6. CASE Scrape
  <2> DEFINE outcome == [d \in Days |-> IF d \in ListTradePlanDates(Site[version].rows, job.range[1], job.range[2])
                                        THEN "todo" ELSE "out"]
  <2>1. job' = [job EXCEPT !.pc = "loop", !.scraped = version, !.range = <<>>, !.outcome = outcome]
    BY <1>6, Zenon DEF Scrape
  <2>2. outcome \in [Days -> Outcomes] /\ \A d \in Days : outcome[d] \notin {"uploaded", "skipped"}
    BY DEF Outcomes
  <2> HIDE DEF outcome
  <2>3. version \in Versions /\ job.pc = "scrape"
    BY <1>0, <1>6 DEF Scrape, TypeOK
  <2>4. JobOK(job') /\ job'.outcome = outcome
    BY <1>0, <2>1, <2>2, <2>3 DEF JobOK, Jobs
  <2> QED
    BY <1>0, <1>6, <2>2, <2>4 DEF Scrape, JobOK
<1>7. CASE ScrapeFails
  BY <1>3, <1>7 DEF ScrapeFails
<1>8. CASE NextDay
  <2>1. CASE job' = Settled(Min(Todo), "validation")
    <3>1. Min(Todo) \in Days
      BY <1>8, LeastDay DEF NextDay, Todo
    <3> PICK d \in Days : d = Min(Todo)
      BY <3>1
    <3> QED
      BY <1>2, <1>8, <2>1 DEF NextDay, Kinds
  <2>2. CASE job' = [job EXCEPT !.pc = "wait", !.current = Min(Todo)]
    <3>1. Min(Todo) \in Days /\ job.pc = "loop"
      BY <1>8, LeastDay DEF NextDay, Todo
    <3>2. JobOK(job') /\ job'.outcome = job.outcome /\ job'.scraped = job.scraped
      BY <1>0, <2>2, <3>1 DEF JobOK, Jobs
    <3> QED
      BY <1>0, <1>8, <3>1, <3>2 DEF NextDay, JobOK
  <2> QED
    BY <1>8, <2>1, <2>2, Zenon DEF NextDay
<1>9. CASE JobEnds
  <2>1. UNCHANGED hung /\ \E state \in {"done", "cancelled", "failed"} : job' = Ended(job, state)
    BY <1>9 DEF JobEnds
  <2> QED
    BY <1>3, <2>1
<1>10. ASSUME NEW d \in Days, IngestStep(d) PROVE Goal
  <2>1. CASE UNCHANGED job
    BY <1>0, <1>1, <1>10, <2>1 DEF IngestStep
  <2>2. CASE ~UNCHANGED job
    <3>1. /\ job.current = d /\ run'[d].pc = "idle" /\ RunStep(d) /\ UNCHANGED hung
          /\ \E result \in OutcomeOf(d) : job' = Settled(d, result)
      BY <1>10, <2>2, Zenon DEF IngestStep, Settle
    <3> PICK result \in OutcomeOf(d) : job' = Settled(d, result)
      BY <3>1
    <3>2. /\ result \in Kinds \cup {"uploaded", "skipped"}
          /\ result \in {"uploaded", "skipped"} => manifest'[d] # NoManifest
      BY <1>0, <3>1, OutcomeIsTrue
    <3>3. job.pc = "wait"
      BY <1>0, <3>1 DEF JobOK
    <3> QED
      BY <1>2, <3>1, <3>2, <3>3
  <2> QED
    BY <2>1, <2>2
<1>11. ASSUME NEW d \in Days, IngestFails(d) \/ Hang(d) \/ Post(d) PROVE Goal
  BY <1>0, <1>1, <1>11 DEF IngestFails, Hang, Post
<1>12. ASSUME NEW d \in Days, ListingFails(d) \/ DayTimesOut(d) PROVE Goal
  <2>1. CASE UNCHANGED job
    BY <1>0, <1>1, <1>12, <2>1 DEF ListingFails, DayTimesOut
  <2>2. CASE ~UNCHANGED job
    <3>1. job.current = d /\ job' = Settled(d, "stage") /\ UNCHANGED hung
      BY <1>12, <2>2 DEF ListingFails, DayTimesOut, TimesOut
    <3>2. job.pc = "wait"
      BY <1>0, <3>1 DEF JobOK
    <3> QED
      BY <1>2, <3>1, <3>2 DEF Kinds
  <2> QED
    BY <2>1, <2>2
<1>13. CASE Moves \/ Sweep \/ (\E o \in pruneTodo : SweepDelete(o)) \/ UNCHANGED bvars
  BY <1>0, <1>1, <1>13 DEF Moves, Sweep, SweepDelete, bvars
<1>14. CASE Restart
  <2>1. JobOK(job') /\ job'.pc = "end" /\ job'.outcome = [d \in Days |-> "out"]
    BY <1>14, NoJobOK DEF Restart, NoJob
  <2> QED
    BY <1>14, <2>1 DEF Restart, JobOK
<1> QED
  BY <1>4, <1>5, <1>6, <1>7, <1>8, <1>9, <1>10, <1>11, <1>12, <1>13, <1>14 DEF BackfillNext

LEMMA BackfillNextOK == BInv /\ [BackfillNext]_bvars => BInv'
<1> SUFFICES ASSUME BInv, [BackfillNext]_bvars PROVE BInv'
  OBVIOUS
<1>1. /\ TypeOK' /\ Unforced' /\ version <= version'
      /\ \A d \in Days : manifest[d] # NoManifest => manifest'[d] # NoManifest
  BY BackfillGoesOn
<1>2. /\ JobOK(job)' /\ hung' \in Days \cup {NoDay}
      /\ \A d \in Days : job'.outcome[d] \in {"uploaded", "skipped"} =>
           job.outcome[d] = job'.outcome[d] \/ manifest'[d] # NoManifest
  BY JobGoesOn
<1>3. CountedIsCommitted'
  BY <1>1, <1>2 DEF BInv, CountedIsCommitted
<1>4. ScrapedOK'
  <2>1. version \in Nat /\ version' \in Nat /\ job.scraped \in Nat /\ job \in Jobs
    BY <1>1 DEF BInv, TypeOK, JobOK, Jobs
  <2>2. CASE Scrape
    <3>1. job'.scraped = version
      BY <2>1, <2>2 DEF Scrape, Jobs
    <3> QED
      BY <1>1, <3>1 DEF ScrapedOK
  <2>3. CASE ~Scrape
    BY <1>1, <2>1, <2>3, JobGoesOn DEF BInv, ScrapedOK
  <2> QED
    BY <2>2, <2>3
<1> QED
  BY <1>1, <1>2, <1>3, <1>4 DEF BInv

LEMMA BackfillInvariance == BackfillSpec => []BInv
BY BackfillInitOK, BackfillNextOK, PTL DEF BackfillSpec

\* A job has exactly the shapes the loop gives it: it waits for a day or for none, and it
\* runs until it ends.
THEOREM BackfillTypeCorrect == BackfillSpec => []BackfillTypeOK
<1>1. BInv => BackfillTypeOK
  BY DEF BInv, BackfillTypeOK, JobOK, Jobs
<1> QED
  BY <1>1, BackfillInvariance, PTL

\* A day the bulk backfill counts as uploaded or skipped is committed and stays so, with
\* single requests, timeouts, sweeps and restarts in between.
THEOREM CountsAreCommitted == BackfillSpec => []CountedIsCommitted
<1>1. BInv => CountedIsCommitted
  BY DEF BInv
<1> QED
  BY <1>1, BackfillInvariance, PTL

PreparesOld(e, v) ==
  /\ ~(e > Site[v].today - RecapLookback) /\ ~Failed(Resolved[v][e])
  /\ run' = [run EXCEPT ![e] = Prepared(v, e)]

\* What is posted within the lookback changes nothing of a day before it, so that entries
\* prepared from an older scrape are the ones the archive still lists.
LEMMA PreparedIsCurrent ==
  ASSUME PostedWithinLookback, TypeOK, NEW v \in Versions, NEW w \in Versions, v <= w,
         NEW e \in Days, PreparesOld(e, v)
  PROVE  (\A x \in Days \ {e} : run'[x] = run[x]) /\ run'[e].entries = Resolved[w][e]
<1> USE DEF PreparesOld
<1>1. /\ \A x \in Days \ {e} : run'[x] = run[x]
      /\ run'[e].entries = Resolved[v][e]
  BY PreparedEffect
<1>2. Resolved[v][e] = Resolved[w][e]
  BY DEF PostedWithinLookback
<1> QED
  BY <1>1, <1>2

\* A run of the backfill starts from what the archive lists at that moment, also one whose
\* entries come from an old scrape, if what the archive posts late is within the lookback.
THEOREM RunsStartCurrent ==
  ASSUME PostedWithinLookback
  PROVE  BackfillSpec => StartsFromCurrentListing
<1> DEFINE Current == \A d \in Days : run[d].pc # "plan" /\ run'[d].pc = "plan" => run'[d].entries = Resolved[version][d]
<1>1. BInv /\ [BackfillNext]_bvars => Current
  <2> SUFFICES ASSUME BInv, [BackfillNext]_bvars, NEW d \in Days, run[d].pc # "plan", run'[d].pc = "plan"
               PROVE  run'[d].entries = Resolved[version][d]
    OBVIOUS
  <2>0. TypeOK /\ \A e \in Days : RunOK(e)
    BY DEF BInv, Unforced
  <2>1. ASSUME NEW e \in Days, IngestStep(e) \/ IngestFails(e) \/ Post(e)
        PROVE  run'[d].entries = Resolved[version][d]
    <3>1. ~Post(e)
      BY <2>0, FreshEffect DEF Post, Ingest
    <3>2. List(e) \/ Rests(e) \/ Resolve(e) \/ Produce(e) \/ Works(e)
      BY <2>1, <3>1 DEF IngestStep, IngestFails, RunStep, Rests, Works
    <3>3. e = d
      BY <2>0, <3>2, StepOfDay DEF DayStep, RunsOn
    <3>4. List(d)
      BY <2>0, <3>2, <3>3, Places DEF Works
    <3>5. run'[d] = NoRun => run'[d].pc = "idle"
      BY DEF NoRun
    <3> QED
      BY <2>0, <3>4, <3>5, ListEffect
  <2>2. ASSUME NEW e \in Days, ListingFails(e)
        PROVE  FALSE
    BY <2>0, <2>2, GotoEffect DEF ListingFails, NoRun, Pcs
  <2>3. CASE NextDay
    <3>1. Min(Todo) \in Days
      BY <2>3, LeastDay DEF NextDay, Todo
    <3>e. PICK e \in Days : e = Min(Todo)
      BY <3>1
    <3>2. ASSUME run' = [run EXCEPT ![e] = Fresh(FALSE)] PROVE FALSE
      BY <2>0, <3>2, FreshEffect
    <3>3. ASSUME ~Frontier(e), ~Failed(Resolved[job.scraped][e]), run' = [run EXCEPT ![e] = Prepared(job.scraped, e)]
          PROVE  run'[d].entries = Resolved[version][d]
      <4>1. PICK v \in Versions, w \in Versions : v = job.scraped /\ w = version /\ v <= w
        BY <2>3 DEF BInv, TypeOK, JobOK, Jobs, ScrapedOK, NextDay
      <4>2. PreparesOld(e, v)
        BY <3>3, <4>1 DEF Frontier, PreparesOld
      <4>3. v <= w
        BY <4>1
      <4>4. (\A x \in Days \ {e} : run'[x] = run[x]) /\ run'[e].entries = Resolved[w][e]
        BY <2>0, <4>2, <4>3, PreparedIsCurrent
      <4>5. e = d
        BY <4>4
      <4> QED
        BY <4>1, <4>4, <4>5
    <3>4. ~UNCHANGED run
      OBVIOUS
    <3> QED
      BY <2>3, <3>e, <3>2, <3>3, <3>4, Zenon DEF NextDay
  <2>4. CASE Restart
    BY <2>4 DEF Restart, Crash, NoRun
  <2>5. CASE UNCHANGED run
    BY <2>5
  <2> QED
    BY <2>1, <2>2, <2>3, <2>4, <2>5 DEF BackfillNext, bvars, vars, Start, Cancel, Scrape, ScrapeFails, JobEnds,
       DayTimesOut, Hang, Moves, ArchiveMoves, Sweep, PruneList, SweepDelete, PruneDelete
<1> QED
  BY <1>1, BackfillInvariance, PTL DEF BackfillSpec, StartsFromCurrentListing

==============================================================================
