----------------------------- MODULE KeysLineage -----------------------------
(***************************************************************************)
(* The KEYS artifact of one trading day: SevenKeysService.ensureKeys       *)
(* (seven-keys.service.ts) and the two callers that share the run lock,    *)
(* the benchmark run (benchmark.service.ts) and one attempt of the KEYS    *)
(* backfill (keys-backfill.service.ts), against the documents and the      *)
(* scorecard cells of benchmark.repository.ts.                             *)
(*                                                                         *)
(* A scorecard cell records the content hash of the KEYS it was graded     *)
(* from.  The hash is new for every save (the content carries its          *)
(* generation time), so the call that saved it stands for it.  Batches,    *)
(* their cells and the reconciler are reduced to the hash they pin:        *)
(* inflight while the batch document is open, pinned once a cell is        *)
(* written.  MaxRestarts bounds restarts, MaxInputs corrected trade plans, *)
(* each call slot is used once.                                            *)
(***************************************************************************)
EXTENDS Naturals

CONSTANTS
  Lineages,       \* flagship aliases KEYS are keyed by
  Models,         \* model aliases a run may ask for
  Calls,          \* slots for ensureKeys calls, and the hashes they save
  LegacyHash,     \* the content hash of the legacy document
  MaxInputs, MaxRestarts,
  NoDoc, NoCall

ASSUME ShapeAssumption == LegacyHash \notin Calls /\ Models # {}
ASSUME BoundAssumption == MaxInputs \in Nat \ {0} /\ MaxRestarts \in Nat

VARIABLES
  flagship,     \* benchmark.model of the running process, as a lineage
  inputs,       \* version of the day's trade plan, recap and methods doc
  legacy,       \* dayArtifacts/<day>__keys, read only
  scoped,       \* dayArtifacts/<day>__keys__<lineage>
  pinned,       \* artifactSha256 of the day's persisted scorecard cells
  inflight,     \* the open batches with scorecard cells of the day
  holder,       \* BenchmarkRunLock
  call,         \* the ensureKeys calls, with what each has read
  abandoned,    \* a backfill has given up on a generation that still ran
  restarts

docVars == <<legacy, scoped>>
pinVars == <<pinned, inflight>>
vars == <<flagship, inputs, docVars, pinVars, holder, call, abandoned, restarts>>

Hashes == Calls \cup {LegacyHash}
\* contentHash, generatedBy (as a lineage), inputsHash, verified, lookbackMissing.
Docs == [hash : Hashes, by : Lineages, inputs : 1 .. MaxInputs, verified : BOOLEAN,
         degraded : BOOLEAN]
ASSUME NoneAssumption == NoCall \notin Calls /\ NoDoc \notin Docs

Pcs == {"idle", "classify", "load", "read", "pins", "legacy", "generate", "submit", "done"}
\* kind and model say who calls, inputs is the snapshot of the corpus it took,
\* frozen and force are opts.pinned and opts.force, doc the artifact and seen the
\* persisted pins it read last.
CallStates == [pc : Pcs, kind : {"run", "backfill"}, model : Models, inputs : 1 .. MaxInputs,
               frozen : BOOLEAN, force : BOOLEAN, doc : Docs \cup {NoDoc},
               seen : SUBSET Hashes]

TypeOK ==
  /\ flagship \in Lineages /\ inputs \in 1 .. MaxInputs
  /\ legacy \in Docs \cup {NoDoc}
  /\ scoped \in [Lineages -> Docs \cup {NoDoc}]
  /\ pinned \subseteq Hashes
  /\ inflight \subseteq [by : Calls, model : Models, hash : Hashes]
  /\ holder \in Calls \cup {NoCall}
  /\ call \in [Calls -> CallStates]
  /\ abandoned \in BOOLEAN /\ restarts \in 0 .. MaxRestarts

LegacyDocs == {d \in Docs : d.hash = LegacyHash /\ d.inputs = 1 /\ ~d.degraded}

Init ==
  /\ flagship \in Lineages /\ inputs = 1
  /\ legacy \in LegacyDocs \cup {NoDoc}
  /\ scoped = [l \in Lineages |-> NoDoc]
  /\ pinned \in IF legacy = NoDoc THEN {{}} ELSE {{}, {LegacyHash}}
  /\ inflight = {}
  /\ holder = NoCall
  /\ call = [c \in Calls |->
       [pc |-> "idle", kind |-> "run", model |-> CHOOSE m \in Models : TRUE, inputs |-> 1,
        frozen |-> FALSE, force |-> FALSE, doc |-> NoDoc, seen |-> {}]]
  /\ abandoned = FALSE /\ restarts = 0

------------------------------------------------------------------------------
(* The documents, as the repository answers for them.                       *)

\* Mutated: every lineage falls back to the legacy document.
ArtifactOrLegacy(l) == IF scoped[l] # NoDoc THEN scoped[l] ELSE legacy
\* getKeysArtifact: the lineage's own document, else a legacy one it generated.
KeysArtifact(l) ==
  IF scoped[l] # NoDoc \/ legacy = NoDoc THEN scoped[l] ELSE IF legacy.by = l THEN legacy ELSE NoDoc

Stored == {d \in {scoped[l] : l \in Lineages} \cup {legacy} : d # NoDoc}
Pins == pinned \cup {p.hash : p \in inflight}

Step(c, pc) == call' = [call EXCEPT ![c].pc = pc]
Released(c) == IF holder = c THEN NoCall ELSE holder

\* The caller is done with the day: the lock goes, if it still is the caller's.
Leave(c) == Step(c, "done") /\ holder' = Released(c)

------------------------------------------------------------------------------
(* The two callers, up to ensureKeys.                                       *)

\* Mutated: the run does not look at the batches that are still open.
NothingInFlight(m) == FALSE
\* scorecardInFlight: cells of this day and this model that are not yet persisted.
ScorecardInFlight(m) == \E p \in inflight : p.model = m

\* A run takes the lock and its snapshot, then reads the open batches once.
StartRun(c) ==
  /\ call[c].pc = "idle" /\ holder = NoCall
  /\ holder' = c
  /\ \E m \in Models, force \in BOOLEAN :
       call' = [call EXCEPT ![c] = [@ EXCEPT !.pc = "load", !.kind = "run", !.model = m,
                  !.inputs = inputs, !.force = force, !.frozen = ScorecardInFlight(m)]]
  /\ UNCHANGED <<flagship, inputs, docVars, pinVars, abandoned, restarts>>

\* A backfill refuses to start while a batch is open.
StartBackfill(c) ==
  /\ call[c].pc = "idle" /\ holder = NoCall /\ inflight = {}
  /\ holder' = c
  /\ call' = [call EXCEPT ![c] =
                [@ EXCEPT !.pc = "classify", !.kind = "backfill", !.inputs = inputs]]
  /\ UNCHANGED <<flagship, inputs, docVars, pinVars, abandoned, restarts>>

\* runDay: a verified artifact with a full lookback is kept as it is, a verified
\* degraded one is forced.
Classify(c) ==
  LET d == KeysArtifact(flagship) IN
  /\ call[c].pc = "classify"
  /\ IF d # NoDoc /\ d.verified /\ ~d.degraded
       THEN Leave(c)
       ELSE /\ call' = [call EXCEPT ![c] = [@ EXCEPT !.pc = "load", !.force = (d # NoDoc /\ d.verified)]]
            /\ UNCHANGED holder
  /\ UNCHANGED <<flagship, inputs, docVars, pinVars, abandoned, restarts>>

\* loadDay: bytes that are no longer the snapshot's fail the day.
LoadDay(c) ==
  /\ call[c].pc = "load"
  /\ IF call[c].inputs = inputs THEN Step(c, "read") /\ UNCHANGED holder ELSE Leave(c)
  /\ UNCHANGED <<flagship, inputs, docVars, pinVars, abandoned, restarts>>

------------------------------------------------------------------------------
(* ensureKeys.                                                              *)

\* What the caller does with an answer: a run submits scorecard cells graded
\* from it (none without KEYS), a backfill is done with the day.
Answer(c, d) ==
  IF call[c].kind = "run" /\ d # NoDoc
    THEN call' = [call EXCEPT ![c] = [@ EXCEPT !.pc = "submit", !.doc = d]] /\ UNCHANGED holder
    ELSE Leave(c)

ReadExisting(c) ==
  /\ call[c].pc = "read"
  /\ call' = [call EXCEPT ![c] = [@ EXCEPT !.pc = "pins", !.doc = KeysArtifact(flagship)]]
  /\ UNCHANGED <<flagship, inputs, docVars, pinVars, holder, abandoned, restarts>>

Benchmarked(c) == call[c].doc # NoDoc /\ call[c].doc.hash \in pinned

\* Mutated: the generation inputs are not compared.
ReusableWhileVerified(c) == ~call[c].force /\ call[c].doc # NoDoc /\ call[c].doc.verified
\* Reuse needs a verified artifact of unchanged inputs, and no force.
Reusable(c) ==
  ~call[c].force /\ call[c].doc # NoDoc /\ call[c].doc.verified /\ call[c].doc.inputs = call[c].inputs

ReadPins(c) ==
  /\ call[c].pc = "pins"
  /\ \/ /\ Benchmarked(c) \/ call[c].frozen      \* immutable: the artifact or a refusal
        /\ Answer(c, call[c].doc)
     \/ /\ ~Benchmarked(c) /\ ~call[c].frozen
        /\ IF call[c].doc = NoDoc /\ pinned # {}
             THEN /\ call' = [call EXCEPT ![c] = [@ EXCEPT !.pc = "legacy", !.seen = pinned]]
                  /\ UNCHANGED holder
             ELSE IF Reusable(c) THEN Answer(c, call[c].doc)
                                 ELSE Step(c, "generate") /\ UNCHANGED holder
  /\ UNCHANGED <<flagship, inputs, docVars, pinVars, abandoned, restarts>>

Orphaned(c) == {h \in call[c].seen : legacy = NoDoc \/ h # legacy.hash}

\* No artifact of its own, but pins: they must all be the legacy document's.
ReadLegacy(c) ==
  /\ call[c].pc = "legacy"
  /\ IF Orphaned(c) # {} THEN Leave(c) ELSE Step(c, "generate") /\ UNCHANGED holder
  /\ UNCHANGED <<flagship, inputs, docVars, pinVars, abandoned, restarts>>

\* A failed call, a verifier that says no, a save that throws.
GenerateFails(c) ==
  /\ call[c].pc = "generate"
  /\ Leave(c)
  /\ UNCHANGED <<flagship, inputs, docVars, pinVars, abandoned, restarts>>

Generated(c, degraded) ==
  [hash |-> c, by |-> flagship, inputs |-> call[c].inputs, verified |-> TRUE, degraded |-> degraded]

\* saveKeysArtifact: whatever is in the lineage's document is overwritten.
SaveKeys(c) ==
  /\ call[c].pc = "generate"
  /\ \E degraded \in BOOLEAN :
       LET d == Generated(c, degraded) IN
       /\ scoped' = [scoped EXCEPT ![flagship] = d]
       /\ Answer(c, d)
  /\ UNCHANGED <<flagship, inputs, legacy, pinVars, abandoned, restarts>>

\* The day timeout and its grace period are over: the backfill fails and lets
\* go of the lock, but nothing stops the generation it was waiting for.
DayTimeout(c) ==
  /\ call[c].kind = "backfill" /\ holder = c
  /\ call[c].pc \in {"load", "read", "pins", "legacy", "generate"}
  /\ holder' = NoCall /\ abandoned' = TRUE
  /\ UNCHANGED <<flagship, inputs, docVars, pinVars, call, restarts>>

\* The run submits its scorecard cells and saves the batch document.
SubmitBatch(c) ==
  /\ call[c].pc = "submit"
  /\ inflight' = inflight \cup {[by |-> c, model |-> call[c].model, hash |-> call[c].doc.hash]}
  /\ Leave(c)
  /\ UNCHANGED <<flagship, inputs, docVars, pinned, abandoned, restarts>>

------------------------------------------------------------------------------
(* The reconciler, the corpus and the process.                              *)

WriteCells(p) ==
  /\ pinned' = pinned \cup {p.hash}
  /\ UNCHANGED <<flagship, inputs, docVars, inflight, holder, call, abandoned, restarts>>

\* Also without a cell, when the batch or all its items failed.
CloseBatch(p) ==
  /\ inflight' = inflight \ {p}
  /\ UNCHANGED <<flagship, inputs, docVars, pinned, holder, call, abandoned, restarts>>

CorrectPlan ==
  /\ inputs < MaxInputs /\ inputs' = inputs + 1
  /\ UNCHANGED <<flagship, docVars, pinVars, holder, call, abandoned, restarts>>

\* The process goes down with its calls and its lock and comes back with the
\* provider, hence the flagship, its configuration then names.
Restart(l) ==
  /\ restarts < MaxRestarts /\ restarts' = restarts + 1
  /\ flagship' = l
  /\ holder' = NoCall
  /\ call' = [c \in Calls |-> IF call[c].pc = "idle" THEN call[c]
                              ELSE [call[c] EXCEPT !.pc = "done"]]
  /\ UNCHANGED <<inputs, docVars, pinVars, abandoned>>

Caller(c) ==
  \/ StartRun(c) \/ StartBackfill(c) \/ Classify(c) \/ LoadDay(c)
  \/ ReadExisting(c) \/ ReadPins(c) \/ ReadLegacy(c)
  \/ GenerateFails(c) \/ SaveKeys(c) \/ DayTimeout(c) \/ SubmitBatch(c)

Next ==
  \/ \E c \in Calls : Caller(c)
  \/ \E p \in inflight : WriteCells(p) \/ CloseBatch(p)
  \/ CorrectPlan
  \/ \E l \in Lineages : Restart(l)

Spec == Init /\ [][Next]_vars

------------------------------------------------------------------------------
(* Properties.                                                              *)

\* A recorded artifactSha256 never dangles: every KEYS hash pinned by a scorecard
\* cell, persisted or still in flight, is the hash of a stored document
\* (seven-keys.service.ts, the two-level freeze of ensureKeys).
PinsStayBacked == \A h \in Pins : \E d \in Stored : d.hash = h

\* The same as long as the backfill has waited for all it started (run-lock.ts).
PinsBacked == abandoned \/ PinsStayBacked

\* The KEYS a run grades from were verified and generated from the plan it read,
\* unless cells are pinned to them, or were when the run looked for open batches
\* (reuse by inputsHash, the freeze).
GradedFromCurrentKeys ==
  [][\A c \in Calls :
       (call[c].pc # "submit" /\ call'[c].pc = "submit") =>
         LET d == call'[c].doc IN
         \/ d.hash \in Pins \/ call[c].frozen
         \/ d.verified /\ d.inputs = call[c].inputs]_vars

\* A bench never consumes another flagship's KEYS, whatever the order of restarts
\* with another provider, backfills and runs (getKeysArtifact).
OwnKeysOnly == \A c \in Calls : call[c].pc = "submit" => call[c].doc.by = flagship

\* The refusal of an orphaned pin concerns pins no document accounts for: another
\* lineage's pins never freeze this one.
RefusalIsOrphan ==
  [][\A c \in Calls :
       (call[c].pc = "legacy" /\ call'[c].pc = "done" /\ restarts' = restarts) =>
         \E h \in pinned : \A d \in Stored : d.hash # h]_vars

==============================================================================
