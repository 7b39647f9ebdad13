------------------------------ MODULE DayInputs ------------------------------
(***************************************************************************)
(* What one row of benchmark cells is computed from: the day's committed   *)
(* artifacts (CloudInputsService), their copies at the LLM provider        *)
(* (DayArtifactsService), and the knowledge-base documents, whose hashes   *)
(* the drift guard compares with those on the cells (drift.ts).            *)
(*                                                                         *)
(* One day, and one document that is PUT over (the general docs; the       *)
(* methods doc is guarded the same way, personas and features are written  *)
(* once).  Meanwhile the day is ingested again, the reconciler persists    *)
(* cells, the cache warmer asks for file ids, and the processes are        *)
(* deployed again, perhaps for the other provider.  A hash is the content  *)
(* it is taken of, a file id what it serves and who minted it.             *)
(***************************************************************************)
EXTENDS Naturals

CONSTANTS
  Cells,            \* the runIndex slots of the row
  Docs,             \* contents of the document
  Contents,         \* contents of a file
  Commits,          \* the day as it is committed, 1, 2, ...
  Warmers,          \* slots for warm() calls
  Providers, Legacy,  \* Legacy minted the ids that carry no provider
  NoWarming,        \* the providers the warmer has nothing to do for
  MaxDeploys,
  NoDoc, NoFile, NoManifest, NoRecord, Untagged

Kinds == {"recap", "plan", "pdf"}
Days == [Kinds -> Contents]

ASSUME ShapeAssumption ==
  /\ Commits \in [DOMAIN Commits -> Days] /\ 1 \in DOMAIN Commits /\ DOMAIN Commits \subseteq Nat
  /\ Legacy \in Providers /\ NoWarming \subseteq Providers /\ MaxDeploys \in Nat
ASSUME NoneAssumption ==
  /\ NoDoc \notin Docs /\ NoFile \notin Contents /\ NoManifest \notin Days /\ Untagged \notin Providers

VARIABLES
  doc,          \* the document in the bucket
  version,      \* the commit the day is at, or on its way to
  folder,       \* the files of the day folder
  manifest,     \* manifest.json: what they hash to
  origin,       \* benchmark/es/<day>: the copy the provider's file is made from
  record,       \* dayArtifacts/<day>__pdfFile
  provider,     \* llm.provider of the processes that run now
  cell,         \* benchmarkRuns: the document hash of each cell
  flight,       \* the document hash in the cell's in-flight batch
  sent,         \* what the last request for the cell was made of
  run,          \* the benchmark run that holds the lock
  warm,         \* warm() calls
  deploys,
  raced         \* the document was PUT while a run or a batch was under way

dayVars == <<version, folder, manifest>>
artifactVars == <<origin, record>>
cellVars == <<cell, flight, sent>>
vars == <<doc, dayVars, artifactVars, provider, cellVars, run, warm, deploys, raced>>

Files == [content : Contents, by : Providers]
\* No file id stands for none.
ASSUME FileAssumption == NoFile \notin Files
Records == [hash : Contents, file : Files, fileProvider : Providers \cup {Untagged}]
NotSent == [recap |-> NoFile, plan |-> NoFile, file |-> NoFile, for |-> NoFile]
NoRun == [pc |-> "idle", doc |-> NoDoc, listing |-> NoManifest, missing |-> {},
          got |-> [k \in Kinds |-> NoFile], file |-> NoFile]
NoWarm == [pc |-> "idle", old |-> NoRecord, file |-> NoFile]

TypeOK ==
  /\ doc \in Docs /\ version \in DOMAIN Commits
  /\ folder \in [Kinds -> Contents \cup {NoFile}] /\ manifest \in Days \cup {NoManifest}
  /\ origin \in Contents \cup {NoFile} /\ record \in Records \cup {NoRecord}
  /\ record # NoRecord => origin # NoFile
  /\ provider \in Providers
  /\ cell \in [Cells -> Docs \cup {NoDoc}] /\ flight \in [Cells -> Docs \cup {NoDoc}]
  /\ \A c \in Cells : flight[c] # NoDoc => cell[c] = NoDoc /\ sent[c] # NotSent
  /\ run.pc \in {"idle", "drift", "missing", "load", "record", "save", "put", "submit"}
  /\ run.doc \in Docs \cup {NoDoc} /\ run.listing \in Days \cup {NoManifest}
  /\ run.missing \subseteq Cells /\ run.got \in [Kinds -> Contents \cup {NoFile}]
  /\ run.file \in Files \cup {NoFile} /\ (run.pc = "submit" => run.file # NoFile)
  /\ \A w \in Warmers : warm[w].pc \in {"idle", "put"} /\ warm[w].file \in Files \cup {NoFile}
  /\ deploys \in 0 .. MaxDeploys /\ raced \in BOOLEAN

Tagged(content, p) == [content |-> content, by |-> p]

\* A fresh day, or one recorded before ids carried their provider.
Init ==
  /\ doc \in Docs /\ version = 1
  /\ folder = Commits[1] /\ manifest = Commits[1]
  /\ \/ origin = NoFile /\ record = NoRecord
     \/ /\ origin = Commits[1]["pdf"]
        /\ record = [hash |-> origin, file |-> Tagged(origin, Legacy), fileProvider |-> Untagged]
  /\ provider \in Providers
  /\ cell = [c \in Cells |-> NoDoc] /\ flight = [c \in Cells |-> NoDoc]
  /\ sent = [c \in Cells |-> NotSent]
  /\ run = NoRun /\ warm = [w \in Warmers |-> NoWarm]
  /\ deploys = 0 /\ raced = FALSE

RunAt(pc) == run.pc = pc
Goto(pc) == run' = [run EXCEPT !.pc = pc]

------------------------------------------------------------------------------
(* The inputs move: PUT /knowledge, a forced ingest, a deployment.          *)

InFlight == {c \in Cells : flight[c] # NoDoc}
Persisted == {c \in Cells : cell[c] # NoDoc}

PutDoc ==
  /\ \E d \in Docs \ {doc} : doc' = d
  /\ raced' = (raced \/ InFlight # {} \/ ~RunAt("idle"))
  /\ UNCHANGED <<dayVars, artifactVars, provider, cellVars, run, warm, deploys>>

\* Trust is revoked first ...
Uncommit ==
  /\ manifest # NoManifest /\ version + 1 \in DOMAIN Commits
  /\ version' = version + 1 /\ manifest' = NoManifest
  /\ UNCHANGED <<doc, folder, artifactVars, provider, cellVars, run, warm, deploys, raced>>

\* ... then the files are replaced, recap, plan and pdf in this order ...
Replace(k) ==
  LET old == {j \in Kinds : folder[j] # Commits[version][j]} IN
  /\ manifest = NoManifest /\ k \in old
  /\ k = "plan" => "recap" \notin old
  /\ k = "pdf" => old = {"pdf"}
  /\ folder' = [folder EXCEPT ![k] = Commits[version][k]]
  /\ UNCHANGED <<doc, version, manifest, artifactVars, provider, cellVars, run, warm, deploys, raced>>

\* ... or all of them are discarded, when it fails ...
Discard ==
  /\ manifest = NoManifest
  /\ folder' = [k \in Kinds |-> NoFile]
  /\ UNCHANGED <<doc, version, manifest, artifactVars, provider, cellVars, run, warm, deploys, raced>>

\* ... and the manifest comes last.
Commit ==
  /\ manifest = NoManifest /\ folder = Commits[version]
  /\ manifest' = Commits[version]
  /\ UNCHANGED <<doc, version, folder, artifactVars, provider, cellVars, run, warm, deploys, raced>>

\* Every call in flight dies; LLM_PROVIDER may name the other provider from now on.
Deploy ==
  /\ deploys < MaxDeploys /\ deploys' = deploys + 1
  /\ \E p \in Providers : provider' = p
  /\ run' = NoRun /\ warm' = [w \in Warmers |-> NoWarm]
  /\ UNCHANGED <<doc, dayVars, artifactVars, cellVars, raced>>

------------------------------------------------------------------------------
(* BenchmarkService.run: snapshot, drift guard, missing cells.              *)

\* A day without a manifest is not listed.
Snapshot ==
  /\ RunAt("idle") /\ manifest # NoManifest
  /\ run' = [NoRun EXCEPT !.pc = "drift", !.doc = doc, !.listing = manifest]
  /\ UNCHANGED <<doc, dayVars, artifactVars, provider, cellVars, warm, deploys, raced>>

\* Mutated: only what the cells disagree about among themselves.
DriftsInternally(current) == \E c, e \in Persisted : cell[c] # cell[e]
\* detectDrift: file drift, and internal drift, which implies it for some cell.
Drifts(current) == \E c \in Persisted : cell[c] # current

Guard ==
  /\ RunAt("drift")
  /\ IF Drifts(run.doc) THEN run' = NoRun ELSE Goto("missing")
  /\ UNCHANGED <<doc, dayVars, artifactVars, provider, cellVars, warm, deploys, raced>>

\* The slots that are persisted, or queued in a batch under way.
Taken == InFlight \cup Persisted

Missing ==
  /\ RunAt("missing")
  /\ \E wanted \in SUBSET Cells :
       LET missing == wanted \ Taken IN
       run' = IF missing = {} THEN NoRun ELSE [run EXCEPT !.pc = "load", !.missing = missing]
  /\ UNCHANGED <<doc, dayVars, artifactVars, provider, cellVars, warm, deploys, raced>>

------------------------------------------------------------------------------
(* loadDay and ensurePdf.                                                   *)

\* The three downloads run in parallel; a missing file is an error.
Download(k) ==
  /\ RunAt("load") /\ run.got[k] = NoFile /\ folder[k] # NoFile
  /\ run' = [run EXCEPT !.got[k] = folder[k]]
  /\ UNCHANGED <<doc, dayVars, artifactVars, provider, cellVars, warm, deploys, raced>>

\* Mutated: the transcripts are trusted.
VerifiedPdf == run.got["pdf"] = run.listing["pdf"]
\* Every download hashes to what the listing's manifest recorded.
Verified == run.got = run.listing

Verify ==
  /\ RunAt("load") /\ \A k \in Kinds : run.got[k] # NoFile
  /\ IF Verified THEN Goto("record") ELSE run' = NoRun
  /\ UNCHANGED <<doc, dayVars, artifactVars, provider, cellVars, warm, deploys, raced>>

\* Mutated: an id that carries no provider is everybody's.
UsableUntagged(r) == r.fileProvider \in {provider, Untagged}
\* usableFileId: minted by the active provider.
Usable(r) == (IF r.fileProvider = Untagged THEN Legacy ELSE r.fileProvider) = provider

\* Same content: the stored id, or a new one made from the origin.
ReadRecord ==
  /\ RunAt("record")
  /\ run' = IF record = NoRecord \/ record.hash # run.got["pdf"] THEN [run EXCEPT !.pc = "save"]
            ELSE IF Usable(record) THEN [run EXCEPT !.pc = "submit", !.file = record.file]
            ELSE [run EXCEPT !.pc = "put", !.file = Tagged(origin, provider)]
  /\ UNCHANGED <<doc, dayVars, artifactVars, provider, cellVars, warm, deploys, raced>>

\* New content: the origin first, then the provider, then the record.
SaveOrigin ==
  /\ RunAt("save")
  /\ origin' = run.got["pdf"]
  /\ run' = [run EXCEPT !.pc = "put", !.file = Tagged(run.got["pdf"], provider)]
  /\ UNCHANGED <<doc, dayVars, record, provider, cellVars, warm, deploys, raced>>

\* The id and its provider are one write; a re-upload keeps the hash it has read.
Recorded(hash, file) == [hash |-> hash, file |-> file, fileProvider |-> file.by]

PutRecord ==
  /\ RunAt("put")
  /\ record' = Recorded(run.got["pdf"], run.file)
  /\ Goto("submit")
  /\ UNCHANGED <<doc, dayVars, origin, provider, cellVars, warm, deploys, raced>>

Submit ==
  /\ RunAt("submit")
  /\ flight' = [c \in Cells |-> IF c \in run.missing THEN run.doc ELSE flight[c]]
  /\ sent' = [c \in Cells |-> IF c \notin run.missing THEN sent[c]
                ELSE [recap |-> run.got["recap"], plan |-> run.got["plan"],
                      file |-> run.file, for |-> provider]]
  /\ run' = NoRun
  /\ UNCHANGED <<doc, dayVars, artifactVars, provider, cell, warm, deploys, raced>>

\* A download, upload or write that throws skips the day; so does a caller that only
\* records it (the KEYS backfill, under the same lock).
DaySkipped ==
  /\ run.pc \in {"load", "record", "save", "put", "submit"}
  /\ run' = NoRun
  /\ UNCHANGED <<doc, dayVars, artifactVars, provider, cellVars, warm, deploys, raced>>

------------------------------------------------------------------------------
(* The worker: reconciler and cache warmer.                                 *)

Reconcile(c) ==
  /\ flight[c] # NoDoc
  /\ \/ cell' = [cell EXCEPT ![c] = flight[c]]
     \/ UNCHANGED cell      \* the item failed: the slot is missing again
  /\ flight' = [flight EXCEPT ![c] = NoDoc]
  /\ UNCHANGED <<doc, dayVars, artifactVars, provider, sent, run, warm, deploys, raced>>

\* ensureFileId for a day with a batch in flight; a usable id is only read.
Warm(w) ==
  /\ warm[w].pc = "idle" /\ InFlight # {} /\ provider \notin NoWarming
  /\ record # NoRecord /\ ~Usable(record)
  /\ warm' = [warm EXCEPT ![w] = [pc |-> "put", old |-> record, file |-> Tagged(origin, provider)]]
  /\ UNCHANGED <<doc, dayVars, artifactVars, provider, cellVars, run, deploys, raced>>

WarmPuts(w) ==
  /\ warm[w].pc = "put"
  /\ record' = Recorded(warm[w].old.hash, warm[w].file)
  /\ warm' = [warm EXCEPT ![w] = NoWarm]
  /\ UNCHANGED <<doc, dayVars, origin, provider, cellVars, run, deploys, raced>>

Next ==
  \/ PutDoc \/ Uncommit \/ Discard \/ Commit \/ Deploy
  \/ Snapshot \/ Guard \/ Missing \/ Verify \/ ReadRecord \/ SaveOrigin \/ PutRecord \/ Submit
  \/ DaySkipped
  \/ \E k \in Kinds : Replace(k) \/ Download(k)
  \/ \E c \in Cells : Reconcile(c)
  \/ \E w \in Warmers : Warm(w) \/ WarmPuts(w)

Spec == Init /\ [][Next]_vars

------------------------------------------------------------------------------
(* Properties.                                                              *)

\* A pdf that was replaced is not uploaded again in a later commit of the day.
PdfNeverReturns ==
  \A i, j, k \in DOMAIN Commits :
    i <= j /\ j <= k /\ Commits[i]["pdf"] = Commits[k]["pdf"] => Commits[j]["pdf"] = Commits[i]["pdf"]

Requested == {c \in Cells : sent[c] # NotSent}

\* What the provider is shown of the day, the bytes behind the file id included, is one
\* commit of it, and the file id is its own: no torn inputs are frozen into a cell,
\* whatever was ingested again, recorded earlier, warmed or deployed in between
\* (loadDay, ensurePdf, usableFileId).
SubmittedIsCommitted ==
  \A c \in Requested : \E n \in DOMAIN Commits :
    /\ sent[c].file.by = sent[c].for
    /\ sent[c].file.content = Commits[n]["pdf"]
    /\ sent[c].plan = Commits[n]["plan"] /\ sent[c].recap = Commits[n]["recap"]

\* The cells of a row were computed under one document, unless it was PUT while a run
\* or a batch was under way (drift.ts: versions "average into one row under one name").
RowIsUnmixed ==
  raced \/ \A c, e \in Cells : cell[c] = NoDoc \/ cell[e] = NoDoc \/ cell[c] = cell[e]

\* The same whenever the document is PUT.
RowIsNeverMixed == \A c, e \in Cells : cell[c] = NoDoc \/ cell[e] = NoDoc \/ cell[c] = cell[e]

\* The recorded id serves the content the record's hash says.
RecordIsServed == record # NoRecord => record.file.content = record.hash
==============================================================================
