-------------------------- MODULE EminiplayerIngest --------------------------
(***************************************************************************)
(* One trading day at a time from the archive to a committed group of      *)
(* artifacts: EminiplayerIngestService (eminiplayer-ingest.service.ts),    *)
(* the manifests and video claims of EminiplayerManifestService, and the   *)
(* sweep of EminiplayerPruneService, over one bucket and one Firestore     *)
(* collection.  Runs for different days interleave; requests for one day   *)
(* share the run in flight.                                                *)
(*                                                                         *)
(* Site is what the archive lists and what its pages embed, in successive  *)
(* versions; EminiplayerArchive decides what a day takes from it.  The     *)
(* content of a transcript is the video it was made from, that of a pdf    *)
(* the page it was linked from.  Every awaited store call is a step,       *)
(* except that the two page loads of a resolution are one, that the three  *)
(* productions, which only read, are one, and that the three deletions of  *)
(* a discard are one that may miss any of them.                            *)
(*                                                                         *)
(* Faults says which calls may fail, Cost and MaxFaults how often.  A call *)
(* that fails has no effect; "ack" is the write or the deletion of a       *)
(* manifest that has its effect and is reported as failed all the same (of *)
(* a claim, an upload or a release that is the next call failing).  "race" *)
(* is a prune that does not wait for the runs to end, nor they for it.     *)
(* MaxForces bounds the forced requests.                                   *)
(***************************************************************************)
EXTENDS EminiplayerArchive, FiniteSetsExt

CONSTANTS
  Days, Videos, Pages, RecapDates,
  Site,           \* per version [rows, embeds, links, today]: the listing, the frames and links of its pages
  Versions,       \* 1 .. the number of versions
  Title,          \* of a video, as YouTube gives it; NoTitle when it is gone
  Transcript,     \* of a video, as it is formatted
  Verdict,        \* of the model, on a video's transcript
  Worksheet,      \* the pdf a page links to
  ForceFlags,     \* the values of the force flag in use
  Faults,         \* "stage", "save", "ack", "uncommit", "read", "discard", "crash", "race"
  Cost, MaxFaults,    \* what a fault of each kind takes of what there may be
  MaxForces,
  NoFile, NoManifest, NoClaim, NoTitle, Nothing, PlanMd, PlanPdf

ASSUME ShapeAssumption ==
  /\ Versions \subseteq Nat /\ 1 \in Versions /\ DOMAIN Site = Versions
  /\ Days \subseteq Nat /\ RecapDates \subseteq Nat
  /\ ForceFlags \subseteq BOOLEAN
  /\ MaxFaults \in Nat /\ MaxForces \in Nat
ASSUME NoneAssumption ==
  /\ NoFile \notin Videos \cup Pages
  /\ {PlanMd, PlanPdf} \cap RecapDates = {} /\ PlanMd # PlanPdf

VARIABLES
  version,      \* what the site shows now
  files,        \* the day folders: *_ES_RECAP.md by date, the plan, the pdf
  manifest,     \* manifest.json of each day
  claim,        \* eminiplayer-video-ids
  run,          \* the in-flight run of each day, with what it has gathered
  waiting,      \* a forced request waits for the run in flight
  pruneTodo,    \* the objects prune() listed and has not deleted yet
  swept,        \* the days prune() deleted from after a run had looked what is there
  faults,       \* how often each kind of call has failed
  forces

storeVars == <<files, manifest, claim>>
vars == <<version, storeVars, run, waiting, pruneTodo, swept, faults, forces>>

Flavors == {"recap", "tradePlan"}
Slots == RecapDates \cup {PlanMd, PlanPdf}
Contents == Videos \cup Pages
Entries == [recapDate : RecapDates, recap : Pages, plan : Pages]
Sources == [recap : Videos, plan : Videos]
Manifests == [recapDate : RecapDates, sources : Sources, recap : Contents, plan : Contents, pdf : Contents]
Claims == [day : Days, slot : Flavors]
Pcs == {"idle", "list", "plan", "read", "release", "unlink", "resolve", "stale",
        "produce", "recap", "planMd", "pdf", "claim", "save", "discard"}
Runs == [pc : Pcs, force : BOOLEAN, entries : Entries \cup {Nothing}, sources : Sources \cup {Nothing},
         old : SUBSET Videos, reused : SUBSET Slots,
         recap : Contents \cup {NoFile}, plan : Contents \cup {NoFile}, pdf : Contents \cup {NoFile}]

TypeOK ==
  /\ version \in Versions
  /\ files \in [Days -> [Slots -> Contents \cup {NoFile}]]
  /\ manifest \in [Days -> Manifests \cup {NoManifest}]
  /\ claim \in [Videos -> Claims \cup {NoClaim}]
  /\ run \in [Days -> Runs]
  /\ waiting \in [Days -> BOOLEAN]
  /\ pruneTodo \subseteq Days \X Slots /\ swept \subseteq Days
  /\ faults \in [Faults -> Nat] /\ forces \in 0 .. MaxForces

ASSUME StoredAssumption == NoManifest \notin Manifests /\ NoClaim \notin Claims

\* No run of the day: the fields hold nothing.
NoRun == [pc |-> "idle", force |-> FALSE, entries |-> Nothing, sources |-> Nothing, old |-> {},
          reused |-> {}, recap |-> NoFile, plan |-> NoFile, pdf |-> NoFile]

Init ==
  /\ version = 1
  /\ files = [d \in Days |-> [s \in Slots |-> NoFile]]
  /\ manifest = [d \in Days |-> NoManifest]
  /\ claim = [v \in Videos |-> NoClaim]
  /\ run = [d \in Days |-> NoRun]
  /\ waiting = [d \in Days |-> FALSE]
  /\ pruneTodo = {} /\ swept = {}
  /\ faults = [kind \in Faults |-> 0] /\ forces = 0

At(d, pc) == run[d].pc = pc
Goto(d, pc) == run' = [run EXCEPT ![d] = IF pc = "idle" THEN NoRun ELSE [@ EXCEPT !.pc = pc]]
Spent == MapThenSumSet(LAMBDA kind : Cost[kind] * faults[kind], Faults)
Fault(kind) == kind \in Faults /\ Spent + Cost[kind] <= MaxFaults /\ faults' = [faults EXCEPT ![kind] = @ + 1]
Spared(kinds) == \A kind \in kinds \cap Faults : faults[kind] = 0
Present(d) == {s \in Slots : files[d][s] # NoFile}
With(d, s, content) == [files EXCEPT ![d][s] = content]
Without(d, S) == [files EXCEPT ![d] = [s \in Slots |-> IF s \in S THEN NoFile ELSE files[d][s]]]

------------------------------------------------------------------------------
(* ingest and run, up to the day being known to be uncommitted.             *)

\* findDayEntries, and run's own checks of what it returns.
Resolution(v, d) ==
  LET entries == SelectDayEntries(Site[v].rows, d)
  IN  IF ~Failed(entries) /\ ~DayInvariants(d, entries.recapDate) THEN [error |-> "validation"] ELSE entries

Resolved == [v \in Versions |-> [d \in Days |-> Resolution(v, d)]]

\* The pages, dates and videos of the site are those the constants name.
ASSUME SiteAssumption == \A v \in Versions :
  /\ \A d \in Days : ~Failed(Resolution(v, d)) => Resolution(v, d) \in Entries
  /\ \A p \in Pages : LET players == Embedded(Site[v].embeds[p]) IN
       players # <<>> => players[1].video \in Videos

\* A run that resolves its entries itself, or brings those of an older scrape.
Fresh(force) == [NoRun EXCEPT !.pc = "list", !.force = force]
Prepared(v, d) == [NoRun EXCEPT !.pc = "plan", !.entries = Resolved[v][d]]

\* No sweep is on, or one that no run waits for.
Quiet == pruneTodo = {} \/ ~Spared({"race"})

\* A request finds no run of the day, or shares the one in flight (a stutter).
Ingest(d) ==
  /\ FALSE \in ForceFlags /\ At(d, "idle") /\ ~waiting[d] /\ Quiet
  /\ run' = [run EXCEPT ![d] = Fresh(FALSE)]
  /\ UNCHANGED <<version, storeVars, waiting, pruneTodo, swept, faults, forces>>

\* The backfill's, with the entries of its one scrape of the listing.
IngestPrepared(d) ==
  /\ FALSE \in ForceFlags /\ At(d, "idle") /\ ~waiting[d] /\ Quiet
  /\ \E v \in Versions : v < version /\ ~Failed(Resolved[v][d]) /\ run' = [run EXCEPT ![d] = Prepared(v, d)]
  /\ UNCHANGED <<version, storeVars, waiting, pruneTodo, swept, faults, forces>>

\* A forced request waits out a run that is not forced.
IngestForced(d) ==
  /\ TRUE \in ForceFlags /\ forces < MaxForces /\ forces' = forces + 1
  /\ ~waiting[d] /\ (At(d, "idle") \/ ~run[d].force)
  /\ waiting' = [waiting EXCEPT ![d] = TRUE]
  /\ UNCHANGED <<version, storeVars, run, pruneTodo, swept, faults>>

BeginForced(d) ==
  /\ waiting[d] /\ At(d, "idle") /\ Quiet
  /\ run' = [run EXCEPT ![d] = Fresh(TRUE)]
  /\ waiting' = [waiting EXCEPT ![d] = FALSE]
  /\ UNCHANGED <<version, storeVars, pruneTodo, swept, faults, forces>>

\* The listing as it is now; a day it does not have, or a row that is in
\* disagreement with itself, ends the run before anything is touched.
List(d) ==
  /\ At(d, "list")
  /\ IF Failed(Resolved[version][d]) THEN Goto(d, "idle")
     ELSE run' = [run EXCEPT ![d].pc = IF run[d].force THEN "read" ELSE "plan", ![d].entries = Resolved[version][d]]
  /\ UNCHANGED <<version, storeVars, waiting, pruneTodo, swept, faults, forces>>

\* Mutated: the guards of a committed day are inside the cleanup.
RefusalDiscards == "discard"
\* A refusal of a committed day describes files that are legitimately at rest.
AfterRefusal == "idle"

\* A committed day answers from its manifest, or is refused as stale.
Plan(d) ==
  /\ At(d, "plan")
  /\ IF manifest[d] = NoManifest THEN Goto(d, "resolve")
     ELSE IF manifest[d].recapDate = run[d].entries.recapDate THEN Goto(d, "idle")
     ELSE Goto(d, AfterRefusal)
  /\ UNCHANGED <<version, storeVars, waiting, pruneTodo, swept, faults, forces>>

Used(sources) == {sources.recap, sources.plan}

\* manifest.delete: the ids to release come from the manifest, if it is readable.
ReadManifest(d) ==
  /\ At(d, "read")
  /\ \/ /\ run' = [run EXCEPT ![d].pc = "release", ![d].old =
                     IF manifest[d] = NoManifest THEN {}
                     ELSE Used(manifest[d].sources)]
        /\ UNCHANGED faults
     \/ Fault("read") /\ Goto(d, "release")
  /\ UNCHANGED <<version, storeVars, waiting, pruneTodo, swept, forces>>

\* Mutated: whoever owns it.
ReleasableAny(d, v) == v \in run[d].old
\* Mutated: the recap's claim alone is given back.
ReleasableRecap(d, v) == v \in run[d].old /\ claim[v] # NoClaim /\ claim[v] = [day |-> d, slot |-> "recap"]
\* Only a claim this day owns is released.
Releasable(d, v) == v \in run[d].old /\ claim[v] # NoClaim /\ claim[v].day = d

Release(d) ==
  /\ At(d, "release")
  /\ claim' = [v \in Videos |-> IF Releasable(d, v) THEN NoClaim ELSE claim[v]]
  /\ Goto(d, "unlink")
  /\ UNCHANGED <<version, files, manifest, waiting, pruneTodo, swept, faults, forces>>

Unlink(d) ==
  /\ At(d, "unlink")
  /\ manifest' = [manifest EXCEPT ![d] = NoManifest]
  /\ Goto(d, "resolve")
  /\ UNCHANGED <<version, files, claim, waiting, pruneTodo, swept, faults, forces>>

\* Revoking trust fails before the cleanup is armed.
UncommitFails(d) ==
  /\ run[d].pc \in {"release", "unlink"} /\ Fault("uncommit") /\ Goto(d, "idle")
  /\ UNCHANGED <<version, storeVars, waiting, pruneTodo, swept, forces>>

\* The manifest is deleted and the caller told that it is not.
UncommitUnsure(d) ==
  /\ At(d, "unlink") /\ Fault("ack") /\ Goto(d, "idle")
  /\ manifest' = [manifest EXCEPT ![d] = NoManifest]
  /\ UNCHANGED <<version, files, claim, waiting, pruneTodo, swept, forces>>

------------------------------------------------------------------------------
(* produceUploadCommit.                                                     *)

\* Mutated: a claim this very day holds is in the way too.
ConflictAny(d, v, slot) == claim[v] # NoClaim
\* claimConflict: somebody else's claim, or this day's for the other slot.
Conflict(d, v, slot) == claim[v] # NoClaim /\ claim[v] # [day |-> d, slot |-> slot]

Conflicts(d, sources) ==
  \/ sources.recap = sources.plan
  \/ Conflict(d, sources.recap, "recap") \/ Conflict(d, sources.plan, "tradePlan")

\* resolveVideo: the video is there, and its title is of the flavor and the date.
Names(v, day, flavor) == Title[v] # NoTitle /\ TitleFits(Title[v], day, flavor)

\* The first player of each page as it is now, gated, and the claims probed.
Resolve(d) ==
  LET recaps == Embedded(Site[version].embeds[run[d].entries.recap])
      plans == Embedded(Site[version].embeds[run[d].entries.plan])
  IN
  /\ At(d, "resolve")
  /\ IF recaps = <<>> \/ plans = <<>> THEN Goto(d, "discard")
     ELSE LET sources == [recap |-> recaps[1].video, plan |-> plans[1].video] IN
          IF /\ Names(sources.recap, run[d].entries.recapDate, "recap")
             /\ Names(sources.plan, d, "tradePlan")
             /\ ~Conflicts(d, sources)
            THEN run' = [run EXCEPT ![d].pc = "stale", ![d].sources = sources]
            ELSE Goto(d, "discard")
  /\ UNCHANGED <<version, storeVars, waiting, pruneTodo, swept, faults, forces>>

RemoveStaleRecaps(d) ==
  /\ At(d, "stale")
  /\ files' = Without(d, RecapDates \ {run[d].entries.recapDate})
  /\ Goto(d, "produce")
  /\ UNCHANGED <<version, manifest, claim, waiting, pruneTodo, swept, faults, forces>>

\* Mutated: a transcript that can be parsed is taken to be the right one.
SpeaksOfAny(video, day, flavor) == TranscriptFits(Transcript[video])
\* The gate over the markdown, and the model's verdict on it.
SpeaksOf(video, day, flavor) ==
  TranscriptFits(Transcript[video]) /\ VerdictFits(Verdict[video], day, flavor)

\* Existing artifacts are reloaded unless forced; everything is verified.
Produce(d) ==
  LET reused == IF run[d].force THEN {} ELSE Present(d)
      Content(s, made) == IF s \in reused THEN files[d][s] ELSE made
      date == run[d].entries.recapDate
      recap == Content(date, run[d].sources.recap)
      plan == Content(PlanMd, run[d].sources.plan)
      pdf == Content(PlanPdf, run[d].entries.plan)
      isLinked == PlanPdf \in reused \/ PdfLink(Site[version].links[run[d].entries.plan]) = "found"
  IN
  /\ At(d, "produce")
  /\ IF /\ SpeaksOf(recap, date, "recap") /\ SpeaksOf(plan, d, "tradePlan")
        /\ isLinked /\ PdfFits(Worksheet[pdf])
       THEN run' = [run EXCEPT ![d].pc = "recap", ![d].reused = reused,
                      ![d].recap = recap, ![d].plan = plan, ![d].pdf = pdf]
       ELSE Goto(d, "discard")
  /\ swept' = swept \ {d}
  /\ UNCHANGED <<version, storeVars, waiting, pruneTodo, faults, forces>>

\* Reloaded artifacts are at rest and not uploaded.
Put(d, s, content) ==
  files' = IF s \in run[d].reused THEN files ELSE With(d, s, content)

Upload(d) ==
  /\ \/ At(d, "recap") /\ Put(d, run[d].entries.recapDate, run[d].recap) /\ Goto(d, "planMd")
     \/ At(d, "planMd") /\ Put(d, PlanMd, run[d].plan) /\ Goto(d, "pdf")
     \/ At(d, "pdf") /\ Put(d, PlanPdf, run[d].pdf) /\ Goto(d, "claim")
  /\ UNCHANGED <<version, manifest, claim, waiting, pruneTodo, swept, faults, forces>>

\* Mutated: the probe before the production is taken as good enough.
RefusedNever(d) == FALSE
Refused(d) == Conflicts(d, run[d].sources)

ClaimFor(d, slot) == [day |-> d, slot |-> slot]

\* One transaction: both conflict checks, then both claims.
ClaimVideos(d) ==
  LET l == run[d].sources IN
  /\ At(d, "claim")
  /\ IF Refused(d) THEN Goto(d, "discard") /\ UNCHANGED claim
     ELSE /\ claim' = [claim EXCEPT ![l.recap] = ClaimFor(d, "recap"), ![l.plan] = ClaimFor(d, "tradePlan")]
          /\ Goto(d, "save")
  /\ UNCHANGED <<version, files, manifest, waiting, pruneTodo, swept, faults, forces>>

\* The manifest of what the run has gathered.
Recorded(d) ==
  [recapDate |-> run[d].entries.recapDate, sources |-> run[d].sources,
   recap |-> run[d].recap, plan |-> run[d].plan, pdf |-> run[d].pdf]

SaveManifest(d) ==
  /\ At(d, "save")
  /\ manifest' = [manifest EXCEPT ![d] = Recorded(d)]
  /\ Goto(d, "idle")
  /\ UNCHANGED <<version, files, claim, waiting, pruneTodo, swept, faults, forces>>

\* A load, gate, transcript, verdict, upload or claim that fails, or the save.
StageFails(d) ==
  /\ \/ run[d].pc \in {"resolve", "stale", "produce", "recap", "planMd", "pdf", "claim"} /\ Fault("stage")
     \/ At(d, "save") /\ Fault("save")
  /\ Goto(d, "discard")
  /\ UNCHANGED <<version, storeVars, waiting, pruneTodo, swept, forces>>

\* The manifest is written and the caller told that it is not: the cleanup is armed.
SaveUnsure(d) ==
  /\ At(d, "save") /\ Fault("ack") /\ Goto(d, "discard")
  /\ manifest' = [manifest EXCEPT ![d] = Recorded(d)]
  /\ UNCHANGED <<version, files, claim, waiting, pruneTodo, swept, forces>>

\* Mutated: the trade plan is left behind.
DiscardedButPlan(d) == {run[d].entries.recapDate, PlanPdf}
\* discardArtifacts: the three paths of this run.
Discarded(d) == {run[d].entries.recapDate, PlanMd, PlanPdf}

\* Best effort: each deletion may fail and is only logged.
Discard(d) ==
  /\ At(d, "discard")
  /\ \/ files' = Without(d, Discarded(d)) /\ UNCHANGED faults
     \/ Fault("discard") /\ \E S \in SUBSET Discarded(d) : files' = Without(d, S)
  /\ Goto(d, "idle")
  /\ UNCHANGED <<version, manifest, claim, waiting, pruneTodo, swept, forces>>

------------------------------------------------------------------------------
(* prune, the archive and the process.                                      *)

\* The listing: every object of the day folders that hold no manifest.
PruneList ==
  /\ pruneTodo = {}
  /\ pruneTodo' = {o \in Days \X Slots : manifest[o[1]] = NoManifest /\ o[2] \in Present(o[1])}
  /\ \/ (\A d \in Days : At(d, "idle") /\ ~waiting[d]) /\ UNCHANGED faults
     \/ Fault("race")
  /\ UNCHANGED <<version, storeVars, run, waiting, swept, forces>>

\* The day has a manifest, or will have one of what its run has seen and uploaded.
Relied(d) == manifest[d] # NoManifest \/ run[d].pc \in {"recap", "planMd", "pdf", "claim", "save"}

\* Day by day; nothing is looked at again before an object of the listing is deleted.
PruneDelete(o) ==
  /\ \A p \in pruneTodo : o[1] <= p[1]
  /\ files' = Without(o[1], {o[2]})
  /\ pruneTodo' = pruneTodo \ {o}
  /\ swept' = IF Relied(o[1]) THEN swept \cup {o[1]} ELSE swept
  /\ UNCHANGED <<version, manifest, claim, run, waiting, faults, forces>>

ArchiveMoves ==
  /\ version + 1 \in Versions
  /\ version' = version + 1
  /\ UNCHANGED <<storeVars, run, waiting, pruneTodo, swept, faults, forces>>

Crash ==
  /\ Fault("crash")
  /\ run' = [d \in Days |-> NoRun]
  /\ waiting' = [d \in Days |-> FALSE] /\ pruneTodo' = {}
  /\ UNCHANGED <<version, storeVars, swept, forces>>

RunStep(d) ==
  \/ List(d) \/ Plan(d) \/ ReadManifest(d) \/ Release(d) \/ Unlink(d)
  \/ Resolve(d) \/ RemoveStaleRecaps(d) \/ Produce(d) \/ Upload(d)
  \/ ClaimVideos(d) \/ SaveManifest(d) \/ Discard(d)

Next ==
  \/ \E d \in Days :
       \/ Ingest(d) \/ IngestPrepared(d) \/ IngestForced(d) \/ BeginForced(d)
       \/ RunStep(d) \/ StageFails(d) \/ SaveUnsure(d) \/ UncommitFails(d) \/ UncommitUnsure(d)
  \/ PruneList \/ \E o \in pruneTodo : PruneDelete(o)
  \/ ArchiveMoves \/ Crash

Spec == Init /\ [][Next]_vars

------------------------------------------------------------------------------
(* What EminiplayerAuditService.audit reports of the days D of a range.     *)

CommittedOf(D) == {d \in D : manifest[d] # NoManifest}

\* The artifacts a manifest records, each with the content its hashes stand for.
Records(m) == {<<m.recapDate, m.recap>>, <<PlanMd, m.plan>>, <<PlanPdf, m.pdf>>}

\* An artifact is missing, differs from its record, or fails its gate, or the dates do.
DamagedDays(D) == {d \in CommittedOf(D) : LET m == manifest[d] IN
  \/ \E r \in Records(m) : files[d][r[1]] # r[2]
  \/ ~TranscriptFits(Transcript[m.recap]) \/ ~TranscriptFits(Transcript[m.plan]) \/ ~PdfFits(Worksheet[m.pdf])
  \/ ~DayInvariants(d, m.recapDate)}

OwnersOf(v, D) == {d \in CommittedOf(D) : v \in Used(manifest[d].sources)}

\* A later day and slot replaces an earlier one in the table of what is manifested.
Wanted(v, D) == LET d == Max(OwnersOf(v, D)) IN
  ClaimFor(d, IF v = manifest[d].sources.plan THEN "tradePlan" ELSE "recap")

\* A video in two days, a claim in the range without a manifest that names it, a manifest without its claim.
SharedVideos(D) == {v \in Videos : Cardinality(OwnersOf(v, D)) > 1}
OrphanedClaims(D) == {v \in Videos : claim[v] # NoClaim /\ claim[v].day \in D /\ OwnersOf(v, D) = {}}
UnclaimedVideos(D) == {v \in Videos : OwnersOf(v, D) # {} /\ claim[v] # Wanted(v, D)}

Anomalies(D) == DamagedDays(D) \cup SharedVideos(D) \cup OrphanedClaims(D) \cup UnclaimedVideos(D)

------------------------------------------------------------------------------
(* Properties.                                                              *)

Idle == \A d \in Days : At(d, "idle")

\* A committed day holds exactly the files its manifest records: one recap, of the
\* manifest's date and content, its trade plan and a pdf (the consumers' trust gate).
\* The code takes files from it in two ways, which are the exceptions: the cleanup after
\* a commit that landed and was reported as failed, and a prune that acts on a listing
\* from before the commit, against its own "a committed day is never touched".
CommittedIsComplete ==
  Spared({"ack"}) => \A d \in CommittedOf(Days) \ swept :
    /\ Present(d) = {r[1] : r \in Records(manifest[d])}
    /\ \A r \in Records(manifest[d]) : files[d][r[1]] = r[2]

\* What a committed day serves as its recap and its trade plan is one, and of no other
\* weekday, wherever it was reloaded from and whatever the pages embedded meanwhile
\* ("right slot, wrong content").
CommittedIsRight ==
  \A d \in CommittedOf(Days) : LET m == manifest[d] IN
    /\ Verdict[m.recap].docType = "recap" /\ Verdict[m.plan].docType = "tradePlan"
    /\ Verdict[m.recap].weekdays \subseteq {Weekday(m.recapDate)} /\ Verdict[m.plan].weekdays \subseteq {Weekday(d)}

\* The same video never serves two day groups, nor two slots (the claims), save for
\* the moment a forced run has released a day's claims and not yet its manifest.
NoSharedVideo ==
  Spared({"uncommit", "crash"}) => \A d, e \in {x \in CommittedOf(Days) : ~At(x, "unlink")} :
    /\ d # e => Used(manifest[d].sources) \cap Used(manifest[e].sources) = {}
    /\ manifest[d].sources.recap # manifest[d].sources.plan

\* Artifacts exist only on a committed day or while a run of the day is in flight:
\* any failure leaves an uncommitted day with no artifacts (discardArtifacts).
AllOrNothing ==
  forces = 0 /\ Spared({"discard", "crash"}) =>
    \A d \in Days : At(d, "idle") /\ manifest[d] = NoManifest => Present(d) = {}

\* The artifacts a manifest records are made from the videos it names as sources; the
\* recap only until a request is forced, which leaves a recap of another date behind
\* when it fails, for a later run of that date to reload.  A discard that misses, a crash
\* and an uncommit reported as failed leave more behind.
SourcesMatch ==
  Spared({"ack", "discard", "crash"}) => \A d \in CommittedOf(Days) :
    /\ manifest[d].plan = manifest[d].sources.plan
    /\ forces = 0 => manifest[d].recap = manifest[d].sources.recap

\* An audit of any range between runs finds nothing, unless a process died, a commit or
\* an uncommit was cut short, a manifest could not be read or a prune hit a day that was
\* relied on, however the days were forced, refused, discarded and swept before.
AuditIsQuiet ==
  Idle /\ Spared({"save", "ack", "uncommit", "read", "crash"}) =>
    \A D \in SUBSET (Days \ swept) : Anomalies(D) = {}

\* Every claim is justified by a committed day or by a run that is on its way: no
\* stale claim blocks a neighbouring day (the symmetric uncommit).
ClaimsAreJustified ==
  \A v \in Videos : claim[v] # NoClaim =>
    ~At(claim[v].day, "idle") \/ claim[v].day \in OwnersOf(v, Days)

\* What a failed run has uploaded stays in the bucket, for a retry or a diagnosis.
UploadsRemain ==
  [][\A d \in Days : run[d].pc = "discard" /\ run'[d].pc = "idle" =>
       \A s \in Slots : files[d][s] # NoFile => files'[d][s] # NoFile]_vars

==============================================================================
