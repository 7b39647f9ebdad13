-------------------------- MODULE DayInputsProofs --------------------------
(***************************************************************************)
(* Theorems about DayInputs, for any number of slots, commits, documents,  *)
(* warm() calls, providers and deployments: what the provider is shown of  *)
(* a day is one commit of it, and the row is computed under one document.  *)
(***************************************************************************)
EXTENDS DayInputs, TLAPS

USE ShapeAssumption, NoneAssumption, FileAssumption

Pcs == {"idle", "drift", "missing", "load", "record", "save", "put", "submit"}
Runs == [pc : Pcs, doc : Docs \cup {NoDoc}, listing : Days \cup {NoManifest}, missing : SUBSET Cells,
         got : [Kinds -> Contents \cup {NoFile}], file : Files \cup {NoFile}]
Warms == [pc : {"idle", "put"}, old : Records \cup {NoRecord}, file : Files \cup {NoFile}]
Sents == [recap : Contents \cup {NoFile}, plan : Contents \cup {NoFile}, file : Files \cup {NoFile},
          for : Providers \cup {NoFile}]

DocsTyped ==
  /\ doc \in Docs /\ cell \in [Cells -> Docs \cup {NoDoc}] /\ flight \in [Cells -> Docs \cup {NoDoc}]
  /\ sent \in [Cells -> Sents]
DayTyped ==
  /\ version \in DOMAIN Commits
  /\ folder \in [Kinds -> Contents \cup {NoFile}] /\ manifest \in Days \cup {NoManifest}
  /\ origin \in Contents \cup {NoFile} /\ record \in Records \cup {NoRecord}
CallsTyped ==
  /\ provider \in Providers /\ run \in Runs /\ warm \in [Warmers -> Warms]
  /\ deploys \in 0 .. MaxDeploys /\ raced \in BOOLEAN

\* What a run holds at its place in the code; what it found missing is still free.
RunOK ==
  /\ run.pc # "idle" => run.doc \in Docs /\ run.listing \in Days
  /\ run.missing \cap Taken = {}
  /\ run.pc \in {"record", "save", "put", "submit"} => run.got = run.listing
  /\ run.pc \in {"put", "submit"} => run.file \in Files /\ run.file.by = provider
  /\ run.pc = "put" => origin # NoFile
\* Who minted the file of a record.
Owner(r) == IF r.fileProvider = Untagged THEN Legacy ELSE r.fileProvider
\* A record is made of an origin, and a call of the warmer of a record.
StoredOK ==
  /\ record # NoRecord => origin # NoFile /\ record.file.by = Owner(record)
  /\ \A w \in Warmers : warm[w].pc = "put" => warm[w].old \in Records /\ warm[w].file \in Files /\ origin # NoFile
  /\ \A c \in Cells : flight[c] # NoDoc => cell[c] = NoDoc /\ sent[c] # NotSent

TypeInv == DocsTyped /\ DayTyped /\ CallsTyped /\ RunOK /\ StoredOK

\* x was the day's pdf no later than y.
NoLater(x, y) ==
  \E i, j \in DOMAIN Commits : i <= j /\ Commits[i]["pdf"] = x /\ Commits[j]["pdf"] = y
Now == Commits[version]["pdf"]

\* The hash, the file and the origin are of commits in this order, and the run's day is no older.
LineInv ==
  /\ manifest # NoManifest => manifest = Commits[version]
  /\ origin # NoFile => NoLater(origin, Now)
  /\ run.pc # "idle" => /\ \E n \in DOMAIN Commits : run.listing = Commits[n]
                        /\ NoLater(run.listing["pdf"], Now)
                        /\ origin # NoFile => NoLater(origin, run.listing["pdf"])
  /\ record # NoRecord =>
       NoLater(record.hash, record.file.content) /\ NoLater(record.file.content, origin)
  /\ \A w \in Warmers : warm[w].pc = "put" =>
       NoLater(warm[w].old.hash, warm[w].file.content) /\ NoLater(warm[w].file.content, origin)
  /\ run.pc \in {"put", "submit"} => run.file.content = run.got["pdf"]
  /\ run.pc = "put" => origin = run.got["pdf"]

\* Until it is raced, the row is under the document of now while anything is under way.
RowInv ==
  /\ RowIsUnmixed
  /\ ~raced =>
       /\ \A c \in InFlight : flight[c] = doc
       /\ run.pc # "idle" => run.doc = doc
       /\ InFlight # {} \/ run.pc \notin {"idle", "drift"} => \A c \in Persisted : cell[c] = doc


------------------------------------------------------------------------------
(* What the steps do.                                                       *)

LEMMA Nothing ==
  /\ NoRun \in Runs /\ NoRun.pc = "idle" /\ NoRun.missing = {}
  /\ NoWarm \in Warms /\ NoWarm.pc = "idle" /\ NotSent \in Sents
BY DEF NoRun, Runs, Pcs, NoWarm, Warms, NotSent, Sents

\* The steps that move the run and nothing else.
RunMoves ==
  Snapshot \/ Guard \/ Missing \/ Verify \/ ReadRecord \/ DaySkipped \/ \E k \in Kinds : Download(k)

RunEffect ==
  \/ run' = NoRun
  \/ /\ run.pc = "idle" /\ run'.pc = "drift" /\ run'.missing = {}
     /\ run'.doc = doc /\ run'.listing = manifest /\ manifest # NoManifest
  \/ /\ run'.doc = run.doc /\ run'.listing = run.listing
     /\ \/ /\ run.pc = "drift" /\ run'.pc = "missing" /\ run'.missing = run.missing
           /\ ~Drifts(run.doc)
        \/ run.pc = "missing" /\ run'.pc = "load" /\ run'.missing \cap Taken = {}
        \/ run.pc = "load" /\ run'.pc = "load" /\ run'.missing = run.missing
        \/ /\ run'.missing = run.missing /\ run'.got = run.got
           /\ \/ run.pc = "load" /\ run'.pc = "record" /\ Verified
              \/ run.pc = "record" /\ run'.pc = "save"
              \/ /\ run.pc = "record" /\ record # NoRecord /\ record.hash = run.got["pdf"]
                 /\ \/ run'.pc = "submit" /\ run'.file = record.file /\ Usable(record)
                    \/ run'.pc = "put" /\ run'.file = Tagged(origin, provider)

LEMMA RunMovesEffect ==
  ASSUME TypeInv, RunMoves
  PROVE  /\ UNCHANGED <<doc, version, folder, manifest, origin, record, provider, cell, flight, sent, warm, deploys, raced>>
         /\ run' \in Runs /\ RunEffect
<1>1. run \in Runs /\ record \in Records \cup {NoRecord} /\ StoredOK
  BY Zenon DEF TypeInv, CallsTyped, DayTyped
<1>2. UNCHANGED <<doc, version, folder, manifest, origin, record, provider, cell, flight, sent, warm, deploys, raced>>
  BY Zenon DEF RunMoves, Snapshot, Guard, Missing, Verify, ReadRecord, DaySkipped, Download, dayVars, artifactVars, cellVars
<1>3. CASE run' = NoRun
  BY <1>2, <1>3, Nothing DEF RunEffect
<1>4. CASE Snapshot
  <2>1. doc \in Docs /\ manifest \in Days
    BY <1>4 DEF TypeInv, DocsTyped, DayTyped, Snapshot
  <2> QED
    BY <1>2, <1>4, <2>1, Nothing DEF Snapshot, RunEffect, RunAt, NoRun, Runs, Pcs
<1>5. CASE Guard /\ run' # NoRun
  BY <1>1, <1>2, <1>5 DEF Guard, Goto, RunEffect, RunAt, Runs, Pcs
<1>6. CASE Missing /\ run' # NoRun
  <2>1. PICK wanted \in SUBSET Cells : run' = [run EXCEPT !.pc = "load", !.missing = wanted \ Taken]
    BY <1>6 DEF Missing
  <2> QED
    BY <1>1, <1>2, <1>6, <2>1 DEF Missing, RunEffect, RunAt, Runs, Pcs
<1>7. CASE Verify /\ run' # NoRun
  BY <1>1, <1>2, <1>7 DEF Verify, Goto, RunEffect, RunAt, Runs, Pcs
<1>8. CASE ReadRecord
  <2>1. run.pc = "record"
    BY <1>8 DEF ReadRecord, RunAt
  <2>2. CASE record = NoRecord \/ record.hash # run.got["pdf"]
    <3>1. run' = [run EXCEPT !.pc = "save"]
      BY <1>8, <2>2 DEF ReadRecord
    <3> QED
      BY <1>1, <1>2, <2>1, <3>1 DEF RunEffect, Runs, Pcs
  <2>3. CASE ~(record = NoRecord \/ record.hash # run.got["pdf"]) /\ Usable(record)
    <3>1. run' = [run EXCEPT !.pc = "submit", !.file = record.file]
      BY <1>8, <2>3 DEF ReadRecord
    <3>2. record.file \in Files
      BY <1>1, <2>3 DEF Records
    <3> QED
      BY <1>1, <1>2, <2>1, <2>3, <3>1, <3>2 DEF RunEffect, Runs, Pcs
  <2>4. CASE ~(record = NoRecord \/ record.hash # run.got["pdf"]) /\ ~Usable(record)
    <3>1. run' = [run EXCEPT !.pc = "put", !.file = Tagged(origin, provider)]
      BY <1>8, <2>4 DEF ReadRecord
    <3>2. Tagged(origin, provider) \in Files
      BY <1>1, <2>4 DEF Tagged, Files, TypeInv, StoredOK, DayTyped, CallsTyped
    <3> QED
      BY <1>1, <1>2, <2>1, <2>4, <3>1, <3>2 DEF RunEffect, Runs, Pcs
  <2> QED
    BY <2>2, <2>3, <2>4
<1>9. CASE \E k \in Kinds : Download(k)
  <2>1. PICK k \in Kinds : Download(k)
    BY <1>9
  <2>2. folder[k] \in Contents
    BY <2>1 DEF Download, TypeInv, DayTyped
  <2>3. [run.got EXCEPT ![k] = folder[k]] \in [Kinds -> Contents \cup {NoFile}]
    BY <1>1, <2>2 DEF Runs
  <2>4. run' = [run EXCEPT !.got = [run.got EXCEPT ![k] = folder[k]]] /\ run.pc = "load"
    BY <2>1 DEF Download, RunAt
  <2> QED
    BY <1>1, <1>2, <2>3, <2>4 DEF RunEffect, Runs, Pcs
<1> QED
  BY <1>3, <1>4, <1>5, <1>6, <1>7, <1>8, <1>9 DEF RunMoves, DaySkipped

LEMMA RunOKKept ==
  ASSUME TypeInv, RunEffect, run' \in Runs,
         UNCHANGED <<doc, version, folder, manifest, origin, record, provider, cell, flight, sent, warm, deploys, raced>>
  PROVE  RunOK'
<1> run \in Runs /\ provider \in Providers
  BY Zenon DEF TypeInv, CallsTyped
<1>1. Taken' = Taken
  BY DEF Taken, InFlight, Persisted
<1>2. CASE run' = NoRun
  BY <1>2, Nothing DEF RunOK
<1>3. CASE run.pc = "idle" /\ run'.pc = "drift" /\ run'.missing = {}
           /\ run'.doc = doc /\ run'.listing = manifest /\ manifest # NoManifest
  BY <1>3 DEF RunOK, TypeInv, DocsTyped, DayTyped
<1>4. CASE /\ run'.doc = run.doc /\ run'.listing = run.listing /\ run.pc # "idle"
           /\ run'.missing \cap Taken = {} /\ run'.pc \in {"missing", "load"}
  BY <1>1, <1>4 DEF RunOK, TypeInv
<1>5. CASE /\ run'.doc = run.doc /\ run'.listing = run.listing /\ run'.missing = run.missing /\ run'.got = run.got
           /\ \/ run.pc = "load" /\ run'.pc = "record" /\ Verified
              \/ run.pc = "record" /\ run'.pc = "save"
  BY <1>1, <1>5 DEF RunOK, TypeInv, Verified
<1>6. CASE /\ run'.doc = run.doc /\ run'.listing = run.listing /\ run'.missing = run.missing /\ run'.got = run.got
           /\ run.pc = "record" /\ run'.pc = "submit" /\ run'.file = record.file /\ Usable(record) /\ record # NoRecord
  BY <1>1, <1>6 DEF RunOK, TypeInv, StoredOK, DayTyped, Records, Usable, Owner
<1>7. CASE /\ run'.doc = run.doc /\ run'.listing = run.listing /\ run'.missing = run.missing /\ run'.got = run.got
           /\ run.pc = "record" /\ run'.pc = "put" /\ run'.file = Tagged(origin, provider) /\ record # NoRecord
  BY <1>1, <1>7 DEF RunOK, TypeInv, StoredOK, DayTyped, Tagged, Files
<1> QED
  BY <1>1, <1>2, <1>3, <1>4, <1>5, <1>6, <1>7 DEF RunEffect, RunOK, TypeInv

LEMMA TypeInit == Init => TypeInv
<1> SUFFICES ASSUME Init PROVE TypeInv
  OBVIOUS
<1>1. Commits[1] \in Days
  BY DEF Days
<1>c. CallsTyped
  <2>1. 0 \in 0 .. MaxDeploys
    OBVIOUS
  <2>2. warm \in [Warmers -> Warms]
    BY Nothing DEF Init
  <2> QED
    BY <2>1, <2>2, Nothing, Zenon DEF Init, CallsTyped
<1>2. CASE origin = NoFile /\ record = NoRecord
  <2>1. DocsTyped /\ DayTyped
    BY <1>1, <1>2, Nothing DEF Init, DocsTyped, DayTyped, Days
  <2>3. RunOK /\ StoredOK
    BY <1>2, Nothing DEF Init, RunOK, StoredOK
  <2> QED
    BY <1>c, <2>1, <2>3 DEF TypeInv
<1>3. CASE /\ origin = Commits[1]["pdf"]
           /\ record = [hash |-> origin, file |-> Tagged(origin, Legacy), fileProvider |-> Untagged]
  <2>1. origin \in Contents
    BY <1>1, <1>3 DEF Days, Kinds
  <2>2. record \in Records
    BY <1>3, <2>1 DEF Records, Files, Tagged
  <2>3. DocsTyped /\ DayTyped
    BY <1>1, <2>1, <2>2, Nothing DEF Init, DocsTyped, DayTyped, Days
  <2>5. record.file.by = Owner(record)
    BY <1>3 DEF Tagged, Owner
  <2>6. RunOK /\ StoredOK
    BY <2>1, <2>5, Nothing DEF Init, RunOK, StoredOK, Taken, InFlight, Persisted
  <2> QED
    BY <1>c, <2>3, <2>6 DEF TypeInv
<1> QED
  BY <1>2, <1>3 DEF Init

LEMMA TypeNext == TypeInv /\ [Next]_vars => TypeInv'
<1> SUFFICES ASSUME TypeInv, [Next]_vars PROVE TypeInv'
  OBVIOUS
<1> USE DEF TypeInv
<1>1. CASE RunMoves
  <2>1. UNCHANGED <<doc, version, folder, manifest, origin, record, provider, cell, flight, sent, warm, deploys, raced>>
    BY <1>1, RunMovesEffect
  <2>2. run' \in Runs /\ RunEffect
    BY <1>1, RunMovesEffect
  <2>3. RunOK'
    BY <2>1, <2>2, RunOKKept
  <2>4. DocsTyped' /\ DayTyped' /\ StoredOK'
    BY <2>1 DEF DocsTyped, DayTyped, StoredOK
  <2>5. CallsTyped'
    BY <2>1, <2>2, Zenon DEF CallsTyped
  <2> QED
    BY <2>3, <2>4, <2>5
<1>2. CASE PutDoc
  <2>1. DocsTyped' /\ DayTyped' /\ StoredOK'
    BY <1>2 DEF PutDoc, dayVars, artifactVars, cellVars, DocsTyped, DayTyped, StoredOK
  <2>2. raced' \in BOOLEAN
    BY <1>2, Zenon DEF PutDoc, CallsTyped
  <2>3. CallsTyped' /\ RunOK'
    BY <1>2, <2>2 DEF PutDoc, artifactVars, cellVars, CallsTyped, RunOK, Taken, InFlight, Persisted
  <2> QED
    BY <2>1, <2>3
<1>3. CASE Uncommit \/ Discard \/ Commit \/ \E k \in Kinds : Replace(k)
  <2>1. UNCHANGED <<doc, origin, record, provider, cell, flight, sent, run, warm, deploys, raced>>
    BY <1>3, Zenon DEF Uncommit, Discard, Commit, Replace, artifactVars, cellVars
  <2>2. version' \in DOMAIN Commits /\ manifest' \in Days \cup {NoManifest}
    <3>1. Commits[version] \in Days
      BY DEF DayTyped
    <3> QED
      BY <1>3, <3>1 DEF DayTyped, Uncommit, Discard, Commit, Replace
  <2>3. folder' \in [Kinds -> Contents \cup {NoFile}]
    <3>1. \A k \in Kinds : Commits[version][k] \in Contents
      BY DEF DayTyped, Days
    <3>2. CASE Discard
      BY <3>2 DEF Discard
    <3>3. CASE \E k \in Kinds : Replace(k)
      BY <3>1, <3>3 DEF Replace, DayTyped
    <3> QED
      BY <1>3, <3>2, <3>3 DEF Uncommit, Commit, DayTyped
  <2>4. DocsTyped' /\ DayTyped' /\ StoredOK'
    BY <2>1, <2>2, <2>3 DEF DocsTyped, DayTyped, StoredOK
  <2>5. CallsTyped'
    BY <2>1, Zenon DEF CallsTyped
  <2>6. RunOK'
    BY <2>1 DEF RunOK, Taken, InFlight, Persisted
  <2> QED
    BY <2>4, <2>5, <2>6
<1>4. CASE Deploy
  <2>1. DocsTyped' /\ DayTyped'
    BY <1>4 DEF Deploy, dayVars, artifactVars, cellVars, DocsTyped, DayTyped
  <2>2. raced' \in BOOLEAN
    BY <1>4, Zenon DEF Deploy, CallsTyped
  <2>3. CallsTyped'
    BY <1>4, <2>2, Nothing DEF Deploy, CallsTyped
  <2>4. RunOK' /\ StoredOK'
    BY <1>4, Nothing DEF Deploy, artifactVars, cellVars, RunOK, StoredOK
  <2> QED
    BY <2>1, <2>3, <2>4
<1>5. CASE SaveOrigin
  <2>1. run \in Runs /\ provider \in Providers
    BY Zenon DEF CallsTyped
  <2>2. /\ run.pc = "save" /\ run.got \in Days /\ run.got = run.listing /\ run.got["pdf"] \in Contents
        /\ run.doc \in Docs
    BY <1>5 DEF SaveOrigin, RunAt, RunOK, Days, Kinds
  <2>3. Tagged(run.got["pdf"], provider) \in Files /\ Tagged(run.got["pdf"], provider).by = provider
    BY <2>1, <2>2 DEF Tagged, Files
  <2>4. /\ run' \in Runs /\ run'.pc = "put" /\ run'.got = run.got /\ run'.listing = run.listing
        /\ run'.doc = run.doc /\ run'.missing = run.missing /\ run'.file = Tagged(run.got["pdf"], provider)
    BY <1>5, <2>1, <2>3 DEF SaveOrigin, Runs, Pcs
  <2>5. UNCHANGED <<doc, version, folder, manifest, record, provider, cell, flight, sent, warm, deploys, raced>>
    BY <1>5 DEF SaveOrigin, dayVars, cellVars
  <2>6. origin' = run.got["pdf"]
    BY <1>5 DEF SaveOrigin
  <2>7. DocsTyped' /\ DayTyped' /\ StoredOK'
    BY <2>2, <2>5, <2>6 DEF DocsTyped, DayTyped, StoredOK
  <2>8. CallsTyped'
    BY <2>4, <2>5, Zenon DEF CallsTyped
  <2>9. RunOK'
    BY <2>2, <2>3, <2>4, <2>5, <2>6 DEF RunOK, Taken, InFlight, Persisted
  <2> QED
    BY <2>7, <2>8, <2>9
<1>6. CASE PutRecord
  <2>1. run \in Runs /\ provider \in Providers
    BY Zenon DEF CallsTyped
  <2>2. /\ run.pc = "put" /\ run.got["pdf"] \in Contents /\ run.file \in Files /\ run.file.by \in Providers
        /\ origin # NoFile
    BY <1>6, <2>1 DEF PutRecord, RunAt, RunOK, Days, Kinds
  <2>3. /\ run' \in Runs /\ run'.pc = "submit" /\ run'.got = run.got /\ run'.listing = run.listing
        /\ run'.doc = run.doc /\ run'.missing = run.missing /\ run'.file = run.file
    BY <1>6, <2>1 DEF PutRecord, Goto, Runs, Pcs
  <2>4. UNCHANGED <<doc, version, folder, manifest, origin, provider, cell, flight, sent, warm, deploys, raced>>
    BY <1>6 DEF PutRecord, dayVars, cellVars
  <2>5. record' \in Records /\ record'.file.by = Owner(record)'
    BY <1>6, <2>2 DEF PutRecord, Recorded, Records, Owner
  <2>6. DocsTyped' /\ DayTyped' /\ StoredOK'
    BY <2>2, <2>4, <2>5 DEF DocsTyped, DayTyped, StoredOK
  <2>7. CallsTyped'
    BY <2>3, <2>4, Zenon DEF CallsTyped
  <2>8. RunOK'
    BY <2>2, <2>3, <2>4 DEF RunOK, Taken, InFlight, Persisted
  <2> QED
    BY <2>6, <2>7, <2>8
<1>7. CASE Submit
  <2>1. run \in Runs /\ provider \in Providers
    BY Zenon DEF CallsTyped
  <2>2. /\ run.pc = "submit" /\ run.doc \in Docs /\ run.file \in Files /\ run.missing \cap Taken = {}
        /\ run.got["recap"] \in Contents /\ run.got["plan"] \in Contents
    BY <1>7, <2>1 DEF Submit, RunAt, RunOK, Days, Kinds
  <2> DEFINE new == [recap |-> run.got["recap"], plan |-> run.got["plan"], file |-> run.file, for |-> provider]
  <2>3. new \in Sents /\ new # NotSent
    BY <2>1, <2>2 DEF Sents, NotSent
  <2>4. /\ flight' = [c \in Cells |-> IF c \in run.missing THEN run.doc ELSE flight[c]]
        /\ sent' = [c \in Cells |-> IF c \in run.missing THEN new ELSE sent[c]]
    BY <1>7 DEF Submit
  <2> HIDE DEF new
  <2>5. DocsTyped'
    BY <1>7, <2>2, <2>3, <2>4 DEF Submit, DocsTyped
  <2>6. DayTyped'
    BY <1>7 DEF Submit, dayVars, artifactVars, DayTyped
  <2>7. raced' \in BOOLEAN
    BY <1>7, Zenon DEF Submit, CallsTyped
  <2>8. CallsTyped' /\ RunOK'
    BY <1>7, <2>7, Nothing DEF Submit, CallsTyped, RunOK
  <2>9. StoredOK'
    BY <1>7, <2>2, <2>3, <2>4 DEF Submit, artifactVars, StoredOK, DocsTyped, Taken, InFlight, Persisted
  <2> QED
    BY <2>5, <2>6, <2>8, <2>9
<1>8. CASE \E c \in Cells : Reconcile(c)
  <2>1. PICK c \in Cells : Reconcile(c)
    BY <1>8
  <2>2. UNCHANGED <<doc, version, folder, manifest, origin, record, provider, sent, run, warm, deploys, raced>>
    BY <2>1 DEF Reconcile, dayVars, artifactVars
  <2>3. DocsTyped' /\ DayTyped'
    BY <2>1, <2>2 DEF Reconcile, DocsTyped, DayTyped
  <2>4. CallsTyped'
    BY <2>2, Zenon DEF CallsTyped
  <2>5. StoredOK'
    BY <2>1, <2>2 DEF Reconcile, StoredOK, DocsTyped
  <2>6. RunOK'
    BY <2>1, <2>2 DEF Reconcile, RunOK, DocsTyped, Taken, InFlight, Persisted
  <2> QED
    BY <2>3, <2>4, <2>5, <2>6
<1>9. CASE \E w \in Warmers : Warm(w)
  <2>1. PICK w \in Warmers : Warm(w)
    BY <1>9
  <2> DEFINE call == [pc |-> "put", old |-> record, file |-> Tagged(origin, provider)]
  <2>2. warm' = [warm EXCEPT ![w] = call]
    BY <2>1 DEF Warm
  <2>3. record \in Records /\ record # NoRecord /\ origin # NoFile /\ origin \in Contents /\ provider \in Providers
    BY <2>1 DEF Warm, DayTyped, CallsTyped, StoredOK
  <2>4. call \in Warms /\ call.old \in Records /\ call.file \in Files
    BY <2>3 DEF Warms, Tagged, Files
  <2> HIDE DEF call
  <2>5. UNCHANGED <<doc, version, folder, manifest, origin, record, provider, cell, flight, sent, run, deploys, raced>>
    BY <2>1 DEF Warm, dayVars, artifactVars, cellVars
  <2>6. DocsTyped' /\ DayTyped' /\ RunOK'
    BY <2>5 DEF DocsTyped, DayTyped, RunOK, Taken, InFlight, Persisted
  <2>7. warm' \in [Warmers -> Warms]
    BY <2>2, <2>4 DEF CallsTyped
  <2>8. CallsTyped'
    BY <2>5, <2>7, Zenon DEF CallsTyped
  <2>9. StoredOK'
    BY <2>2, <2>3, <2>4, <2>5 DEF StoredOK, CallsTyped
  <2> QED
    BY <2>6, <2>8, <2>9
<1>10. CASE \E w \in Warmers : WarmPuts(w)
  <2>1. PICK w \in Warmers : WarmPuts(w)
    BY <1>10
  <2>2. warm' = [warm EXCEPT ![w] = NoWarm] /\ warm[w].pc = "put"
    BY <2>1 DEF WarmPuts
  <2>3. warm[w].old \in Records /\ warm[w].file \in Files /\ origin # NoFile
    BY <2>2 DEF StoredOK
  <2>4. record' \in Records /\ record'.file.by = Owner(record)'
    BY <2>1, <2>3 DEF WarmPuts, Recorded, Records, Files, Owner
  <2>5. UNCHANGED <<doc, version, folder, manifest, origin, provider, cell, flight, sent, run, deploys, raced>>
    BY <2>1 DEF WarmPuts, dayVars, cellVars
  <2>6. DocsTyped' /\ DayTyped' /\ RunOK'
    BY <2>4, <2>5 DEF DocsTyped, DayTyped, RunOK, Taken, InFlight, Persisted
  <2>7. warm' \in [Warmers -> Warms]
    BY <2>2, Nothing DEF CallsTyped
  <2>8. CallsTyped'
    BY <2>5, <2>7, Zenon DEF CallsTyped
  <2>9. StoredOK'
    BY <2>2, <2>3, <2>4, <2>5, Nothing DEF StoredOK, CallsTyped
  <2> QED
    BY <2>6, <2>8, <2>9
<1>11. CASE UNCHANGED vars
  <2>1. UNCHANGED <<doc, version, folder, manifest, origin, record, provider, cell, flight, sent, run, warm, deploys, raced>>
    BY <1>11 DEF vars, dayVars, artifactVars, cellVars
  <2>2. DocsTyped' /\ DayTyped' /\ RunOK' /\ StoredOK'
    BY <2>1 DEF DocsTyped, DayTyped, RunOK, StoredOK, Taken, InFlight, Persisted
  <2>3. CallsTyped'
    BY <2>1, Zenon DEF CallsTyped
  <2> QED
    BY <2>2, <2>3
<1> QED
  BY <1>1, <1>2, <1>3, <1>4, <1>5, <1>6, <1>7, <1>8, <1>9, <1>10, <1>11 DEF Next, RunMoves

LEMMA TypeInvariance == Spec => []TypeInv
BY TypeInit, TypeNext, PTL DEF Spec

\* The inputs, their copies, the cells and the calls keep their types, and what is in
\* flight has been sent and is not persisted.
THEOREM TypeCorrect == Spec => []TypeOK
<1>1. TypeInv => TypeOK
  <2> SUFFICES ASSUME TypeInv PROVE TypeOK
    OBVIOUS
  <2>1. run \in Runs /\ warm \in [Warmers -> Warms] /\ raced \in BOOLEAN /\ deploys \in 0 .. MaxDeploys /\ provider \in Providers
    BY Zenon DEF TypeInv, CallsTyped
  <2>2. /\ run.pc \in Pcs /\ run.doc \in Docs \cup {NoDoc} /\ run.listing \in Days \cup {NoManifest}
        /\ run.missing \subseteq Cells /\ run.got \in [Kinds -> Contents \cup {NoFile}]
        /\ run.file \in Files \cup {NoFile} /\ (run.pc = "submit" => run.file # NoFile)
    BY <2>1 DEF Runs, TypeInv, RunOK
  <2>3. \A w \in Warmers : warm[w].pc \in {"idle", "put"} /\ warm[w].file \in Files \cup {NoFile}
    BY <2>1 DEF Warms
  <2> QED
    BY <2>1, <2>2, <2>3, Zenon DEF TypeOK, TypeInv, DocsTyped, DayTyped, StoredOK, Pcs
<1> QED
  BY <1>1, TypeInvariance, PTL

------------------------------------------------------------------------------
(* The order of the contents of a pdf that never returns.                   *)

LEMMA NoLaterRefl ==
  ASSUME NEW n \in DOMAIN Commits
  PROVE  NoLater(Commits[n]["pdf"], Commits[n]["pdf"])
BY DEF NoLater

LEMMA NoLaterOf ==
  ASSUME NEW i \in DOMAIN Commits, NEW j \in DOMAIN Commits, i <= j
  PROVE  NoLater(Commits[i]["pdf"], Commits[j]["pdf"])
BY DEF NoLater

LEMMA NoLaterTrans ==
  ASSUME PdfNeverReturns, NEW x, NEW y, NEW z, NoLater(x, y), NoLater(y, z)
  PROVE  NoLater(x, z)
<1> DEFINE Pdf(n) == Commits[n]["pdf"]
<1>1. PICK i, j \in DOMAIN Commits : i <= j /\ Pdf(i) = x /\ Pdf(j) = y
  BY DEF NoLater
<1>2. PICK k, l \in DOMAIN Commits : k <= l /\ Pdf(k) = y /\ Pdf(l) = z
  BY DEF NoLater
<1>0. i \in Nat /\ j \in Nat /\ k \in Nat /\ l \in Nat
  OBVIOUS
<1>3. \A a, b, c \in DOMAIN Commits : a <= b /\ b <= c /\ Pdf(a) = Pdf(c) => Pdf(b) = Pdf(a)
  BY DEF PdfNeverReturns
<1>4. NoLater(x, z) <=> \E a, b \in DOMAIN Commits : a <= b /\ Pdf(a) = x /\ Pdf(b) = z
  BY DEF NoLater
<1> HIDE DEF Pdf
<1>5. CASE i <= l
  BY <1>1, <1>2, <1>4, <1>5
<1>6. CASE l < i
  <2>1. k <= i /\ i <= j
    BY <1>0, <1>1, <1>2, <1>6
  <2>2. Pdf(i) = y
    BY <1>1, <1>2, <1>3, <2>1
  <2> QED
    BY <1>1, <1>2, <1>4, <2>2
<1> QED
  BY <1>0, <1>5, <1>6

LEMMA NoLaterBoth ==
  ASSUME PdfNeverReturns, NEW x, NEW y, NoLater(x, y), NoLater(y, x)
  PROVE  x = y
<1> DEFINE Pdf(n) == Commits[n]["pdf"]
<1>1. PICK i, j \in DOMAIN Commits : i <= j /\ Pdf(i) = x /\ Pdf(j) = y
  BY DEF NoLater
<1>2. PICK k, l \in DOMAIN Commits : k <= l /\ Pdf(k) = y /\ Pdf(l) = x
  BY DEF NoLater
<1>0. i \in Nat /\ j \in Nat /\ k \in Nat /\ l \in Nat
  OBVIOUS
<1>3. \A a, b, c \in DOMAIN Commits : a <= b /\ b <= c /\ Pdf(a) = Pdf(c) => Pdf(b) = Pdf(a)
  BY DEF PdfNeverReturns
<1> HIDE DEF Pdf
<1>5. CASE j <= l
  BY <1>1, <1>2, <1>3, <1>5
<1>6. CASE l < j
  BY <1>0, <1>1, <1>2, <1>3, <1>6
<1> QED
  BY <1>0, <1>5, <1>6

LEMMA NoLaterSelf ==
  ASSUME NEW x, NEW y, NoLater(x, y)
  PROVE  NoLater(x, x)
BY DEF NoLater

------------------------------------------------------------------------------
(* What is submitted is one commit.                                         *)

\* The variables LineInv is about.
lineVars == <<version, manifest, origin, record, run, warm>>

LEMMA LineInit == Init => LineInv
<1> SUFFICES ASSUME Init PROVE LineInv
  OBVIOUS
<1>1. NoLater(Commits[1]["pdf"], Commits[1]["pdf"])
  BY NoLaterRefl
<1>2. record # NoRecord => record.hash = origin /\ record.file.content = origin /\ origin = Commits[1]["pdf"]
  BY DEF Init, Tagged
<1>3. origin \in {NoFile, Commits[1]["pdf"]} /\ version = 1 /\ manifest = Commits[version]
  BY DEF Init
<1>4. run.pc = "idle" /\ \A w \in Warmers : warm[w].pc = "idle"
  BY Nothing DEF Init
<1> QED
  BY <1>1, <1>2, <1>3, <1>4 DEF LineInv, Now

\* A run's file serves what it has verified.
LEMMA LineOfRun ==
  ASSUME PdfNeverReturns, TypeInv, LineInv, RunEffect,
         UNCHANGED <<version, manifest, origin, record, warm>>
  PROVE  LineInv'
<1>1. manifest' = NoManifest \/ manifest' = Commits[version']
  BY DEF LineInv
<1>2. origin' # NoFile => NoLater(origin', Now')
  BY DEF LineInv, Now
<1>3. record' # NoRecord => NoLater(record'.hash, record'.file.content) /\ NoLater(record'.file.content, origin')
  BY DEF LineInv
<1>4. \A w \in Warmers : warm'[w].pc = "put" =>
        NoLater(warm'[w].old.hash, warm'[w].file.content) /\ NoLater(warm'[w].file.content, origin')
  BY DEF LineInv
<1>5. run'.pc # "idle" => /\ \E n \in DOMAIN Commits : run'.listing = Commits[n]
                          /\ NoLater(run'.listing["pdf"], Now')
                          /\ origin' # NoFile => NoLater(origin', run'.listing["pdf"])
  <2>1. CASE run'.listing = run.listing /\ run.pc # "idle"
    BY <2>1 DEF LineInv, Now
  <2>2. CASE run'.listing = manifest /\ manifest # NoManifest
    <3>1. run'.listing = Commits[version] /\ version \in DOMAIN Commits
      BY <2>2 DEF LineInv, TypeInv, DayTyped
    <3>2. NoLater(Commits[version]["pdf"], Commits[version]["pdf"])
      BY <3>1, NoLaterRefl
    <3> QED
      BY <1>2, <3>1, <3>2 DEF Now
  <2>3. CASE run' = NoRun
    BY <2>3, Nothing
  <2> QED
    BY <2>1, <2>2, <2>3 DEF RunEffect
<1>6. (run'.pc \in {"put", "submit"} => run'.file.content = run'.got["pdf"]) /\ (run'.pc = "put" => origin' = run'.got["pdf"])
  <2>1. CASE run' = NoRun \/ run'.pc \notin {"put", "submit"}
    BY <2>1, Nothing
  <2>2. CASE /\ run.pc = "record" /\ run'.got = run.got /\ record # NoRecord /\ record.hash = run.got["pdf"]
             /\ \/ run'.pc = "submit" /\ run'.file = record.file
                \/ run'.pc = "put" /\ run'.file = Tagged(origin, provider)
    <3> DEFINE h == record.hash
               c == record.file.content
    <3>1. origin # NoFile /\ run.got["pdf"] = run.listing["pdf"]
      BY <2>2 DEF TypeInv, StoredOK, RunOK
    <3>2. NoLater(h, c) /\ NoLater(c, origin) /\ NoLater(origin, h)
      BY <2>2, <3>1 DEF LineInv
    <3> HIDE DEF h, c
    <3>3. NoLater(h, origin) /\ NoLater(c, h)
      BY <3>2, NoLaterTrans
    <3>4. origin = h /\ c = h
      BY <3>2, <3>3, NoLaterBoth
    <3> QED
      BY <2>2, <3>4 DEF h, c, Tagged
  <2> QED
    BY <2>1, <2>2 DEF RunEffect
<1> QED
  BY <1>1, <1>2, <1>3, <1>4, <1>5, <1>6 DEF LineInv, Now

LEMMA LineNext ==
  ASSUME PdfNeverReturns, TypeInv, LineInv, [Next]_vars
  PROVE  LineInv'
<1> USE DEF LineInv
<1>0. /\ version \in DOMAIN Commits /\ run \in Runs /\ warm \in [Warmers -> Warms]
      /\ record # NoRecord => origin # NoFile
  BY Zenon DEF TypeInv, DayTyped, CallsTyped, StoredOK
<1>1. CASE RunMoves
  BY <1>1, RunMovesEffect, LineOfRun
<1>2. CASE UNCHANGED lineVars
  BY <1>2 DEF lineVars, Now
<1>3. CASE Uncommit
  <2>1. UNCHANGED <<origin, record, run, warm>> /\ version' = version + 1 /\ manifest' = NoManifest /\ version' \in DOMAIN Commits
    BY <1>3 DEF Uncommit, artifactVars
  <2>2. NoLater(Now, Now')
    BY <1>0, <2>1, NoLaterOf DEF Now
  <2>3. \A x : NoLater(x, Now) => NoLater(x, Now')
    BY <2>2, NoLaterTrans
  <2> QED
    BY <2>1, <2>3
<1>4. CASE Commit
  <2>1. UNCHANGED <<version, origin, record, run, warm>> /\ manifest' = Commits[version]
    BY <1>4 DEF Commit, artifactVars
  <2> QED
    BY <2>1 DEF Now
<1>5. CASE Deploy
  <2>1. UNCHANGED <<version, manifest, origin, record>> /\ run'.pc = "idle" /\ \A w \in Warmers : warm'[w].pc = "idle"
    BY <1>5, Nothing DEF Deploy, dayVars, artifactVars
  <2> QED
    BY <2>1 DEF Now
<1>6. CASE SaveOrigin
  <2>1. /\ UNCHANGED <<version, manifest, record, warm>> /\ origin' = run.got["pdf"]
        /\ run.pc = "save" /\ run.got = run.listing
    BY <1>6 DEF SaveOrigin, RunAt, dayVars, TypeInv, RunOK
  <2>2. /\ run'.pc = "put" /\ run'.listing = run.listing /\ run'.got = run.got
        /\ run'.file.content = run.got["pdf"]
    BY <1>0, <1>6 DEF SaveOrigin, Runs, Tagged
  <2>3. /\ NoLater(origin', Now') /\ NoLater(origin', run'.listing["pdf"])
        /\ \E n \in DOMAIN Commits : run'.listing = Commits[n]
    BY <2>1, <2>2, NoLaterSelf DEF Now
  <2>4. \A x : origin # NoFile /\ NoLater(x, origin) => NoLater(x, origin')
    <3>1. origin # NoFile => NoLater(origin, origin')
      BY <2>1
    <3> QED
      BY <3>1, NoLaterTrans
  <2>5. \A w \in Warmers : warm[w].pc = "put" => origin # NoFile
    BY DEF TypeInv, StoredOK
  <2> QED
    BY <1>0, <2>1, <2>2, <2>3, <2>4, <2>5 DEF Now
<1>7. CASE PutRecord
  <2>1. /\ UNCHANGED <<version, manifest, origin, warm>> /\ run.pc = "put"
        /\ record' = Recorded(run.got["pdf"], run.file)
    BY <1>7 DEF PutRecord, RunAt, dayVars
  <2>2. run'.pc = "submit" /\ run'.listing = run.listing /\ run'.got = run.got /\ run'.file = run.file
    BY <1>0, <1>7 DEF PutRecord, Goto, Runs
  <2>3. record'.hash = run.got["pdf"] /\ record'.file.content = run.got["pdf"] /\ origin = run.got["pdf"]
    BY <2>1 DEF Recorded
  <2>4. NoLater(origin, origin)
    <3>1. origin # NoFile
      BY <2>1 DEF TypeInv, RunOK
    <3> QED
      BY <3>1, NoLaterSelf
  <2> QED
    BY <2>1, <2>2, <2>3, <2>4 DEF Now
<1>8. CASE Submit
  <2>1. UNCHANGED <<version, manifest, origin, record, warm>> /\ run'.pc = "idle"
    BY <1>8, Nothing DEF Submit, dayVars, artifactVars
  <2> QED
    BY <2>1 DEF Now
<1>9. CASE \E w \in Warmers : Warm(w)
  <2>1. PICK w \in Warmers : Warm(w)
    BY <1>9
  <2>2. UNCHANGED <<version, manifest, origin, record, run>> /\ record # NoRecord
    BY <2>1 DEF Warm, dayVars, artifactVars
  <2>3. /\ warm'[w].old.hash = record.hash /\ warm'[w].file.content = origin
        /\ \A x \in Warmers \ {w} : warm'[x] = warm[x]
    BY <1>0, <2>1 DEF Warm, Tagged
  <2>4. NoLater(record.hash, origin) /\ NoLater(origin, origin)
    BY <1>0, <2>2, NoLaterSelf, NoLaterTrans
  <2> QED
    BY <2>2, <2>3, <2>4 DEF Now
<1>10. CASE \E w \in Warmers : WarmPuts(w)
  <2>1. PICK w \in Warmers : WarmPuts(w)
    BY <1>10
  <2>2. UNCHANGED <<version, manifest, origin, run>> /\ warm[w].pc = "put"
    BY <2>1 DEF WarmPuts, dayVars
  <2>3. record'.hash = warm[w].old.hash /\ record'.file.content = warm[w].file.content
    BY <2>1 DEF WarmPuts, Recorded
  <2>4. warm'[w].pc = "idle" /\ \A x \in Warmers \ {w} : warm'[x] = warm[x]
    BY <1>0, <2>1, Nothing DEF WarmPuts
  <2> QED
    BY <2>2, <2>3, <2>4 DEF Now
<1>11. PutDoc \/ Discard \/ (\E k \in Kinds : Replace(k)) \/ (\E c \in Cells : Reconcile(c)) \/ UNCHANGED vars => UNCHANGED lineVars
  BY DEF PutDoc, Discard, Replace, Reconcile, vars, dayVars, artifactVars, lineVars
<1> QED
  BY <1>1, <1>2, <1>3, <1>4, <1>5, <1>6, <1>7, <1>8, <1>9, <1>10, <1>11 DEF Next, RunMoves

LEMMA SubmittedNext ==
  ASSUME TypeInv, LineInv, SubmittedIsCommitted, [Next]_vars
  PROVE  SubmittedIsCommitted'
<1>1. CASE Submit
  <2> SUFFICES ASSUME NEW c \in Cells, sent'[c] # NotSent
               PROVE  \E n \in DOMAIN Commits :
                        /\ sent'[c].file.by = sent'[c].for
                        /\ sent'[c].file.content = Commits[n]["pdf"]
                        /\ sent'[c].plan = Commits[n]["plan"] /\ sent'[c].recap = Commits[n]["recap"]
    BY DEF SubmittedIsCommitted, Requested
  <2>1. CASE c \notin run.missing
    BY <1>1, <2>1 DEF Submit, SubmittedIsCommitted, Requested
  <2>2. CASE c \in run.missing
    <3>1. /\ run.pc = "submit" /\ run.got = run.listing /\ run.file.by = provider
          /\ run.file.content = run.got["pdf"]
      BY <1>1 DEF Submit, RunAt, TypeInv, RunOK, LineInv
    <3>2. PICK n \in DOMAIN Commits : run.listing = Commits[n]
      BY <3>1 DEF LineInv
    <3>3. /\ sent'[c].recap = run.got["recap"] /\ sent'[c].plan = run.got["plan"]
          /\ sent'[c].file = run.file /\ sent'[c].for = provider
      BY <1>1, <2>2 DEF Submit
    <3> QED
      BY <3>1, <3>2, <3>3
  <2> QED
    BY <2>1, <2>2
<1>2. CASE sent' = sent
  BY <1>2 DEF SubmittedIsCommitted, Requested
<1> QED
  BY <1>1, <1>2 DEF Next, vars, cellVars, PutDoc, Uncommit, Discard, Commit, Deploy, Snapshot, Guard, Missing, Verify,
     ReadRecord, SaveOrigin, PutRecord, DaySkipped, Replace, Download, Reconcile, Warm, WarmPuts

\* What the provider is shown of the day is one commit of it, and the file id is its own,
\* whatever is ingested again, recorded before, warmed or deployed in between, as long as
\* a pdf that was replaced does not come back.
THEOREM SubmissionsAreCommits ==
  ASSUME PdfNeverReturns
  PROVE  Spec => []SubmittedIsCommitted
<1>1. Init => SubmittedIsCommitted
  BY DEF Init, SubmittedIsCommitted, Requested
<1>2. TypeInv /\ LineInv /\ SubmittedIsCommitted /\ [Next]_vars => (TypeInv /\ LineInv /\ SubmittedIsCommitted)'
  BY TypeNext, LineNext, SubmittedNext
<1> QED
  BY <1>1, <1>2, TypeInit, LineInit, PTL DEF Spec

------------------------------------------------------------------------------
(* The row is computed under one document.                                  *)

LEMMA RowInit == Init => RowInv
BY Nothing DEF Init, RowInv, RowIsUnmixed, InFlight, Persisted

LEMMA RowNext ==
  ASSUME TypeInv, RowInv, [Next]_vars
  PROVE  RowInv'
<1>0. run \in Runs /\ cell \in [Cells -> Docs \cup {NoDoc}] /\ flight \in [Cells -> Docs \cup {NoDoc}] /\ doc \in Docs
  BY Zenon DEF TypeInv, DocsTyped, CallsTyped
<1>1. CASE RunMoves
  <2>1. UNCHANGED <<doc, cell, flight, raced>> /\ RunEffect
    BY <1>1, RunMovesEffect
  <2>2. run'.pc # "idle" => run'.doc = doc \/ (run'.doc = run.doc /\ run.pc # "idle")
    BY <2>1, Nothing DEF RunEffect
  <2>3. run'.pc \notin {"idle", "drift"} =>
          run.pc # "idle" /\ (run.pc # "drift" \/ ~Drifts(run.doc))
    BY <2>1, Nothing DEF RunEffect
  <2> QED
    BY <2>1, <2>2, <2>3 DEF RowInv, RowIsUnmixed, InFlight, Persisted, Drifts
<1>2. CASE PutDoc
  <2>1. UNCHANGED <<cell, flight, run>>
    BY <1>2 DEF PutDoc, cellVars
  <2>2. ~raced' => ~raced /\ InFlight = {} /\ run.pc = "idle"
    BY <1>2, Zenon DEF PutDoc, RunAt
  <2> QED
    BY <2>1, <2>2 DEF RowInv, RowIsUnmixed, InFlight, Persisted
<1>3. CASE Deploy
  <2>1. UNCHANGED <<doc, cell, flight, raced>> /\ run'.pc = "idle"
    BY <1>3, Nothing DEF Deploy, cellVars
  <2> QED
    BY <2>1 DEF RowInv, RowIsUnmixed, InFlight, Persisted
<1>4. CASE SaveOrigin \/ PutRecord
  <2>1. UNCHANGED <<doc, cell, flight, raced>> /\ run'.doc = run.doc /\ run.pc \in {"save", "put"}
    BY <1>0, <1>4 DEF SaveOrigin, PutRecord, Goto, RunAt, cellVars, Runs
  <2> QED
    BY <2>1 DEF RowInv, RowIsUnmixed, InFlight, Persisted
<1>5. CASE Submit
  <2>1. /\ UNCHANGED <<doc, cell, raced>> /\ run'.pc = "idle" /\ run.pc = "submit"
        /\ flight' = [c \in Cells |-> IF c \in run.missing THEN run.doc ELSE flight[c]]
    BY <1>5, Nothing DEF Submit, RunAt
  <2> QED
    BY <1>0, <2>1 DEF RowInv, RowIsUnmixed, InFlight, Persisted
<1>6. CASE \E c \in Cells : Reconcile(c)
  <2>1. PICK c \in Cells : Reconcile(c)
    BY <1>6
  <2>2. /\ UNCHANGED <<doc, raced, run>> /\ flight[c] # NoDoc /\ flight' = [flight EXCEPT ![c] = NoDoc]
        /\ cell' = [cell EXCEPT ![c] = flight[c]] \/ cell' = cell
    BY <2>1 DEF Reconcile
  <2>3. CASE raced
    <3>1. raced'
      BY <2>1, <2>3 DEF Reconcile
    <3> QED
      BY <3>1 DEF RowInv, RowIsUnmixed
  <2>4. CASE ~raced
    <3>1. /\ flight[c] = doc /\ \A e \in Cells : cell[e] # NoDoc => cell[e] = doc
          /\ \A e \in Cells : flight[e] # NoDoc => flight[e] = doc
          /\ run.pc # "idle" => run.doc = doc
      BY <2>2, <2>4 DEF RowInv, InFlight, Persisted
    <3>2. \A e \in Cells : cell'[e] # NoDoc => cell'[e] = doc
      BY <1>0, <2>2, <3>1
    <3>3. \A e \in Cells : flight'[e] # NoDoc => flight'[e] = doc
      BY <1>0, <2>2, <3>1
    <3> QED
      BY <2>2, <3>1, <3>2, <3>3 DEF RowInv, RowIsUnmixed, InFlight, Persisted
  <2> QED
    BY <2>3, <2>4
<1>7. CASE UNCHANGED <<doc, raced, run, cell, flight>>
  BY <1>7 DEF RowInv, RowIsUnmixed, InFlight, Persisted
<1>8. \/ Uncommit \/ Discard \/ Commit \/ (\E k \in Kinds : Replace(k)) \/ (\E w \in Warmers : Warm(w) \/ WarmPuts(w))
      \/ UNCHANGED vars
      => UNCHANGED <<doc, raced, run, cell, flight>>
  BY DEF Uncommit, Discard, Commit, Replace, Warm, WarmPuts, vars, cellVars
<1> QED
  BY <1>1, <1>2, <1>3, <1>4, <1>5, <1>6, <1>7, <1>8 DEF Next, RunMoves

\* The cells of a row are computed under one document, unless it is PUT while a run or
\* a batch is under way, for any number of runs, slots, documents and deployments.
THEOREM RowsAreUnmixed == Spec => []RowIsUnmixed
<1>1. TypeInv /\ RowInv /\ [Next]_vars => (TypeInv /\ RowInv)'
  BY TypeNext, RowNext
<1>2. RowInv => RowIsUnmixed
  BY DEF RowInv
<1> QED
  BY <1>1, <1>2, TypeInit, RowInit, PTL DEF Spec

=============================================================================
