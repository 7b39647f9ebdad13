-------------------------- MODULE KeysLineageProofs --------------------------
(***************************************************************************)
(* Theorems about KeysLineage, for every number of calls, lineages,        *)
(* restarts and corrected plans.                                           *)
(***************************************************************************)
EXTENDS KeysLineage, TLAPS

USE ShapeAssumption, BoundAssumption, NoneAssumption

------------------------------------------------------------------------------
(* Type correctness.                                                        *)

LEMMA KeysArtifactType ==
  ASSUME TypeOK, NEW l \in Lineages
  PROVE  KeysArtifact(l) \in Docs \cup {NoDoc}
BY DEF TypeOK, KeysArtifact

LEMMA GeneratedType ==
  ASSUME TypeOK, NEW c \in Calls, NEW degraded \in BOOLEAN
  PROVE  Generated(c, degraded) \in Docs
<1>1. call[c].inputs \in 1 .. MaxInputs /\ flagship \in Lineages
  BY DEF TypeOK, CallStates
<1> QED
  BY <1>1 DEF Generated, Docs, Hashes

LEMMA StepType ==
  ASSUME TypeOK, NEW c \in Calls, NEW pc \in Pcs, Step(c, pc)
  PROVE  call' \in [Calls -> CallStates]
<1>1. [call[c] EXCEPT !.pc = pc] \in CallStates
  BY DEF TypeOK, CallStates
<1> QED
  BY <1>1 DEF TypeOK, Step

LEMMA LeaveType ==
  ASSUME TypeOK, NEW c \in Calls, Leave(c)
  PROVE  call' \in [Calls -> CallStates] /\ holder' \in Calls \cup {NoCall}
BY StepType DEF Leave, Released, Pcs, TypeOK

LEMMA AnswerType ==
  ASSUME TypeOK, NEW c \in Calls, NEW d \in Docs \cup {NoDoc}, Answer(c, d)
  PROVE  call' \in [Calls -> CallStates] /\ holder' \in Calls \cup {NoCall}
<1>1. CASE call[c].kind = "run" /\ d # NoDoc
  <2>1. [call[c] EXCEPT !.pc = "submit", !.doc = d] \in CallStates
    BY DEF TypeOK, CallStates, Pcs
  <2> QED
    BY <1>1, <2>1 DEF Answer, TypeOK
<1>2. CASE ~(call[c].kind = "run" /\ d # NoDoc)
  BY <1>2, LeaveType DEF Answer
<1> QED
  BY <1>1, <1>2

\* A run that is about to submit holds a document.
HasDoc == \A c \in Calls : call[c].pc = "submit" => call[c].doc # NoDoc

\* What an action of one call leaves to the others.
LEMMA OthersKept ==
  ASSUME TypeOK, NEW c \in Calls, Caller(c), NEW e \in Calls, e # c
  PROVE  call'[e] = call[e]
<1> USE DEF TypeOK
<1>1. CASE StartRun(c) \/ StartBackfill(c)
  BY <1>1 DEF StartRun, StartBackfill
<1>2. CASE Classify(c) \/ LoadDay(c) \/ ReadExisting(c)
  BY <1>2 DEF Classify, LoadDay, ReadExisting, Leave, Step
<1>3. CASE ReadPins(c)
  BY <1>3 DEF ReadPins, Answer, Leave, Step
<1>4. CASE ReadLegacy(c) \/ GenerateFails(c) \/ DayTimeout(c) \/ SubmitBatch(c)
  BY <1>4 DEF ReadLegacy, GenerateFails, DayTimeout, SubmitBatch, Leave, Step
<1>5. CASE SaveKeys(c)
  BY <1>5 DEF SaveKeys, Answer, Leave, Step
<1> QED
  BY <1>1, <1>2, <1>3, <1>4, <1>5 DEF Caller

LEMMA StepCall ==
  ASSUME TypeOK, NEW c \in Calls, NEW pc \in Pcs, Step(c, pc)
  PROVE  call'[c] = [call[c] EXCEPT !.pc = pc] /\ call'[c].pc = pc
BY DEF TypeOK, CallStates, Step

LEMMA LeaveStep ==
  ASSUME TypeOK, NEW c \in Calls, Leave(c)
  PROVE  call'[c].pc = "done" /\ holder' = Released(c)
BY StepCall DEF Leave, Pcs

\* What an answer makes of the call.
LEMMA Answered ==
  ASSUME TypeOK, NEW c \in Calls, NEW d, Answer(c, d)
  PROVE  \/ call'[c].pc = "done" /\ holder' = Released(c)
         \/ call'[c].pc = "submit" /\ call'[c].doc = d /\ d # NoDoc /\ holder' = holder
<1>0. call \in [Calls -> CallStates] /\ call[c] \in CallStates
  BY DEF TypeOK
<1>1. CASE call[c].kind = "run" /\ d # NoDoc
  <2>1. call'[c] = [call[c] EXCEPT !.pc = "submit", !.doc = d] /\ holder' = holder
    BY <1>0, <1>1 DEF Answer
  <2> QED
    BY <1>0, <1>1, <2>1 DEF CallStates
<1>2. CASE ~(call[c].kind = "run" /\ d # NoDoc)
  BY <1>2, LeaveStep DEF Answer
<1> QED
  BY <1>1, <1>2

LEMMA PinsRead ==
  ASSUME TypeOK, NEW c \in Calls, ReadPins(c)
  PROVE  \/ call'[c].pc = "done" /\ holder' = Released(c)
         \/ /\ call'[c].pc = "submit" /\ call'[c].doc = call[c].doc /\ call[c].doc # NoDoc
            /\ holder' = holder
         \/ /\ call'[c].pc \in {"legacy", "generate"} /\ call'[c].doc = call[c].doc
            /\ call'[c].frozen = call[c].frozen /\ ~call[c].frozen /\ ~Benchmarked(c)
            /\ holder' = holder
<1>0. call \in [Calls -> CallStates] /\ call[c] \in CallStates
  BY DEF TypeOK
<1>1. \/ Answer(c, call[c].doc)
      \/ /\ ~Benchmarked(c) /\ ~call[c].frozen /\ holder' = holder
         /\ \/ call' = [call EXCEPT ![c] = [@ EXCEPT !.pc = "legacy", !.seen = pinned]]
            \/ Step(c, "generate")
  BY Zenon DEF ReadPins
<1>2. CASE Answer(c, call[c].doc)
  BY <1>2, Answered
<1>3. CASE /\ ~Benchmarked(c) /\ ~call[c].frozen /\ holder' = holder
           /\ call' = [call EXCEPT ![c] = [@ EXCEPT !.pc = "legacy", !.seen = pinned]]
  <2>1. call'[c] = [call[c] EXCEPT !.pc = "legacy", !.seen = pinned]
    BY <1>0, <1>3
  <2>2. call'[c].pc = "legacy" /\ call'[c].doc = call[c].doc /\ call'[c].frozen = call[c].frozen
    BY <1>0, <2>1 DEF CallStates
  <2> QED
    BY <1>3, <2>2
<1>4. CASE ~Benchmarked(c) /\ ~call[c].frozen /\ holder' = holder /\ Step(c, "generate")
  <2>1. call'[c] = [call[c] EXCEPT !.pc = "generate"]
    BY <1>4, StepCall DEF Pcs
  <2>2. /\ call'[c].pc = "generate" /\ call'[c].doc = call[c].doc
        /\ call'[c].frozen = call[c].frozen
    BY <1>0, <2>1 DEF CallStates
  <2> QED
    BY <1>4, <2>2
<1> QED
  BY <1>1, <1>2, <1>3, <1>4

\* The other actions of a call, with the position each leaves it in.
LEMMA PositionAfter ==
  ASSUME TypeOK, NEW c \in Calls
  PROVE  /\ StartRun(c) \/ StartBackfill(c) => call'[c].pc \in {"load", "classify"}
         /\ Classify(c) => \/ call'[c].pc = "done" /\ holder' = Released(c)
                           \/ /\ call'[c].pc = "load" /\ call'[c].frozen = call[c].frozen
                              /\ holder' = holder
         /\ LoadDay(c) => \/ call'[c].pc = "done" /\ holder' = Released(c)
                          \/ /\ call'[c].pc = "read" /\ call'[c].frozen = call[c].frozen
                             /\ holder' = holder
         /\ ReadExisting(c) => /\ call'[c].pc = "pins" /\ call'[c].doc = KeysArtifact(flagship)
                               /\ call'[c].frozen = call[c].frozen
         /\ ReadLegacy(c) => \/ call'[c].pc = "done" /\ holder' = Released(c)
                             \/ /\ call'[c].pc = "generate" /\ call'[c].doc = call[c].doc
                                /\ call'[c].frozen = call[c].frozen /\ holder' = holder
         /\ GenerateFails(c) \/ SubmitBatch(c) => call'[c].pc = "done" /\ holder' = Released(c)
<1>0. call \in [Calls -> CallStates] /\ call[c] \in CallStates
  BY DEF TypeOK
<1>1. ASSUME StartRun(c) \/ StartBackfill(c) PROVE call'[c].pc \in {"load", "classify"}
  <2>1. CASE StartBackfill(c)
    <3>1. call'[c] = [call[c] EXCEPT !.pc = "classify", !.kind = "backfill", !.inputs = inputs]
      BY <1>0, <2>1 DEF StartBackfill
    <3> QED
      BY <1>0, <3>1 DEF CallStates
  <2>2. CASE StartRun(c)
    <3>1. PICK m \in Models, force \in BOOLEAN :
            call' = [call EXCEPT ![c] = [@ EXCEPT !.pc = "load", !.kind = "run", !.model = m,
                       !.inputs = inputs, !.force = force, !.frozen = ScorecardInFlight(m)]]
      BY <2>2 DEF StartRun
    <3>2. call'[c] = [call[c] EXCEPT !.pc = "load", !.kind = "run", !.model = m,
                       !.inputs = inputs, !.force = force, !.frozen = ScorecardInFlight(m)]
      BY <1>0, <3>1
    <3> QED
      BY <1>0, <3>2 DEF CallStates
  <2> QED
    BY <1>1, <2>1, <2>2
<1>2. ASSUME Classify(c)
      PROVE  \/ call'[c].pc = "done" /\ holder' = Released(c)
             \/ call'[c].pc = "load" /\ call'[c].frozen = call[c].frozen /\ holder' = holder
  <2> DEFINE d == KeysArtifact(flagship)
             forced == d # NoDoc /\ d.verified
  <2>1. CASE Leave(c)
    BY <2>1, LeaveStep
  <2>2. CASE ~Leave(c)
    <3>1. call' = [call EXCEPT ![c] = [@ EXCEPT !.pc = "load", !.force = forced]] /\ UNCHANGED holder
      BY <1>2, <2>2, Zenon DEF Classify
    <3> HIDE DEF forced
    <3>2. call'[c] = [call[c] EXCEPT !.pc = "load", !.force = forced]
      BY <1>0, <3>1
    <3> QED
      BY <1>0, <3>1, <3>2 DEF CallStates
  <2> QED
    BY <2>1, <2>2
<1>3. ASSUME LoadDay(c)
      PROVE  \/ call'[c].pc = "done" /\ holder' = Released(c)
             \/ call'[c].pc = "read" /\ call'[c].frozen = call[c].frozen /\ holder' = holder
  <2>1. (Step(c, "read") /\ UNCHANGED holder) \/ Leave(c)
    BY <1>3 DEF LoadDay
  <2> QED
    BY <1>0, <2>1, StepCall, LeaveStep DEF CallStates, Pcs
<1>4. ASSUME ReadExisting(c)
      PROVE  /\ call'[c].pc = "pins" /\ call'[c].doc = KeysArtifact(flagship)
             /\ call'[c].frozen = call[c].frozen
  <2> DEFINE d == KeysArtifact(flagship)
  <2>1. call' = [call EXCEPT ![c] = [@ EXCEPT !.pc = "pins", !.doc = d]]
    BY <1>4 DEF ReadExisting
  <2> HIDE DEF d
  <2>2. call'[c] = [call[c] EXCEPT !.pc = "pins", !.doc = d]
    BY <1>0, <2>1
  <2>3. call'[c].pc = "pins" /\ call'[c].doc = d /\ call'[c].frozen = call[c].frozen
    BY <1>0, <2>2 DEF CallStates
  <2> QED
    BY <2>3 DEF d
<1>5. ASSUME ReadLegacy(c)
      PROVE  \/ call'[c].pc = "done" /\ holder' = Released(c)
             \/ /\ call'[c].pc = "generate" /\ call'[c].doc = call[c].doc
                /\ call'[c].frozen = call[c].frozen /\ holder' = holder
  <2>1. (Step(c, "generate") /\ UNCHANGED holder) \/ Leave(c)
    BY <1>5 DEF ReadLegacy
  <2> QED
    BY <1>0, <2>1, StepCall, LeaveStep DEF CallStates, Pcs
<1>6. GenerateFails(c) \/ SubmitBatch(c) => call'[c].pc = "done" /\ holder' = Released(c)
  BY LeaveStep DEF GenerateFails, SubmitBatch
<1> QED
  BY <1>1, <1>2, <1>3, <1>4, <1>5, <1>6

LEMMA HasDocKept ==
  ASSUME TypeOK, HasDoc, NEW c \in Calls, Caller(c), NEW e \in Calls, call'[e].pc = "submit"
  PROVE  call'[e].doc # NoDoc
<1>1. CASE e # c
  BY <1>1, OthersKept DEF HasDoc
<1>2. CASE e = c
  <2>1. CASE StartRun(c) \/ StartBackfill(c) \/ Classify(c) \/ LoadDay(c) \/ ReadExisting(c)
             \/ ReadLegacy(c) \/ GenerateFails(c) \/ SubmitBatch(c)
    BY <1>2, <2>1, PositionAfter
  <2>2. CASE ReadPins(c)
    BY <1>2, <2>2, PinsRead
  <2>3. CASE DayTimeout(c)
    BY <2>3 DEF DayTimeout, HasDoc
  <2>4. CASE SaveKeys(c)
    BY <1>2, <2>4, Answered DEF SaveKeys
  <2> QED
    BY <2>1, <2>2, <2>3, <2>4 DEF Caller
<1> QED
  BY <1>1, <1>2

LEMMA TypesKept == Spec => [](TypeOK /\ HasDoc)
<1>1. Init => TypeOK /\ HasDoc
  <2> SUFFICES ASSUME Init PROVE TypeOK /\ HasDoc
    OBVIOUS
  <2>1. (CHOOSE m \in Models : TRUE) \in Models
    OBVIOUS
  <2>2. call \in [Calls -> CallStates]
    BY <2>1, BoundAssumption DEF Init, CallStates, Pcs
  <2>3. legacy \in Docs \cup {NoDoc} /\ pinned \subseteq Hashes
    BY DEF Init, LegacyDocs, Hashes
  <2>4. scoped \in [Lineages -> Docs \cup {NoDoc}] /\ inflight = {} /\ abandoned \in BOOLEAN
    BY DEF Init
  <2>5. flagship \in Lineages /\ inputs \in 1 .. MaxInputs /\ restarts \in 0 .. MaxRestarts
    BY BoundAssumption DEF Init
  <2>6. holder = NoCall /\ HasDoc
    BY DEF Init, HasDoc
  <2> QED
    BY <2>2, <2>3, <2>4, <2>5, <2>6 DEF TypeOK
<1>2. TypeOK /\ HasDoc /\ [Next]_vars => TypeOK'
  <2> SUFFICES ASSUME TypeOK, HasDoc, [Next]_vars PROVE TypeOK'
    OBVIOUS
  <2> USE DEF docVars, pinVars
  <2>1. ASSUME NEW c \in Calls, StartRun(c) PROVE TypeOK'
    <3>1. PICK m \in Models, force \in BOOLEAN :
            call' = [call EXCEPT ![c] = [@ EXCEPT !.pc = "load", !.kind = "run", !.model = m,
                       !.inputs = inputs, !.force = force, !.frozen = ScorecardInFlight(m)]]
      BY <2>1 DEF StartRun
    <3>2. ScorecardInFlight(m) \in BOOLEAN
      BY DEF ScorecardInFlight
    <3>3. [call[c] EXCEPT !.pc = "load", !.kind = "run", !.model = m, !.inputs = inputs,
             !.force = force, !.frozen = ScorecardInFlight(m)] \in CallStates
      BY <3>2 DEF TypeOK, CallStates, Pcs
    <3>4. call' \in [Calls -> CallStates]
      BY <3>1, <3>3 DEF TypeOK
    <3> QED
      BY <2>1, <3>4 DEF StartRun, TypeOK
  <2>2. ASSUME NEW c \in Calls, StartBackfill(c) PROVE TypeOK'
    <3>1. [call[c] EXCEPT !.pc = "classify", !.kind = "backfill", !.inputs = inputs] \in CallStates
      BY DEF TypeOK, CallStates, Pcs
    <3>2. call' \in [Calls -> CallStates]
      BY <2>2, <3>1 DEF StartBackfill, TypeOK
    <3> QED
      BY <2>2, <3>2 DEF StartBackfill, TypeOK
  <2>3. ASSUME NEW c \in Calls, Classify(c) PROVE TypeOK'
    <3>1. CASE Leave(c)
      BY <2>3, <3>1, LeaveType DEF Classify, TypeOK
    <3>2. CASE ~Leave(c)
      <4> DEFINE d == KeysArtifact(flagship)
                 forced == d # NoDoc /\ d.verified
      <4>1. call' = [call EXCEPT ![c] = [@ EXCEPT !.pc = "load", !.force = forced]] /\ UNCHANGED holder
        BY <2>3, <3>2, Zenon DEF Classify
      <4>2. forced \in BOOLEAN
        BY KeysArtifactType DEF TypeOK, Docs
      <4>3. call' \in [Calls -> CallStates]
        <5> HIDE DEF forced
        <5>1. [call[c] EXCEPT !.pc = "load", !.force = forced] \in CallStates
          BY <4>2 DEF TypeOK, CallStates, Pcs
        <5> QED
          BY <4>1, <5>1 DEF TypeOK
      <4> QED
        BY <2>3, <4>1, <4>3 DEF Classify, TypeOK
    <3> QED
      BY <3>1, <3>2
  <2>4. ASSUME NEW c \in Calls, LoadDay(c) PROVE TypeOK'
    <3>1. (Step(c, "read") /\ UNCHANGED holder) \/ Leave(c)
      BY <2>4 DEF LoadDay
    <3> QED
      BY <2>4, <3>1, StepType, LeaveType DEF LoadDay, TypeOK, Pcs
  <2>5. ASSUME NEW c \in Calls, ReadExisting(c) PROVE TypeOK'
    <3>1. KeysArtifact(flagship) \in Docs \cup {NoDoc}
      BY KeysArtifactType DEF TypeOK
    <3>2. [call[c] EXCEPT !.pc = "pins", !.doc = KeysArtifact(flagship)] \in CallStates
      BY <3>1 DEF TypeOK, CallStates, Pcs
    <3>3. call' \in [Calls -> CallStates]
      BY <2>5, <3>2 DEF ReadExisting, TypeOK
    <3> QED
      BY <2>5, <3>3 DEF ReadExisting, TypeOK
  <2>6. ASSUME NEW c \in Calls, ReadPins(c) PROVE TypeOK'
    <3>1. call[c].doc \in Docs \cup {NoDoc}
      BY DEF TypeOK, CallStates
    <3>2. \/ Answer(c, call[c].doc)
          \/ call' = [call EXCEPT ![c] = [@ EXCEPT !.pc = "legacy", !.seen = pinned]] /\ UNCHANGED holder
          \/ Step(c, "generate") /\ UNCHANGED holder
      BY <2>6, Zenon DEF ReadPins
    <3>3. call' \in [Calls -> CallStates] /\ holder' \in Calls \cup {NoCall}
      <4>1. CASE Answer(c, call[c].doc)
        BY <3>1, <4>1, AnswerType
      <4>2. CASE call' = [call EXCEPT ![c] = [@ EXCEPT !.pc = "legacy", !.seen = pinned]] /\ UNCHANGED holder
        <5>1. [call[c] EXCEPT !.pc = "legacy", !.seen = pinned] \in CallStates
          BY DEF TypeOK, CallStates, Pcs
        <5> QED
          BY <4>2, <5>1 DEF TypeOK
      <4>3. CASE Step(c, "generate") /\ UNCHANGED holder
        BY <4>3, StepType DEF TypeOK, Pcs
      <4> QED
        BY <3>2, <4>1, <4>2, <4>3
    <3> QED
      BY <2>6, <3>3 DEF ReadPins, TypeOK
  <2>7. ASSUME NEW c \in Calls, ReadLegacy(c) PROVE TypeOK'
    <3>1. (Step(c, "generate") /\ UNCHANGED holder) \/ Leave(c)
      BY <2>7 DEF ReadLegacy
    <3> QED
      BY <2>7, <3>1, StepType, LeaveType DEF ReadLegacy, TypeOK, Pcs
  <2>8. ASSUME NEW c \in Calls, GenerateFails(c) PROVE TypeOK'
    BY <2>8, LeaveType DEF GenerateFails, TypeOK
  <2>9. ASSUME NEW c \in Calls, SaveKeys(c) PROVE TypeOK'
    <3>1. PICK degraded \in BOOLEAN :
            /\ scoped' = [scoped EXCEPT ![flagship] = Generated(c, degraded)]
            /\ Answer(c, Generated(c, degraded))
      BY <2>9 DEF SaveKeys
    <3>2. Generated(c, degraded) \in Docs
      BY GeneratedType
    <3> QED
      BY <2>9, <3>1, <3>2, AnswerType DEF SaveKeys, TypeOK
  <2>10. ASSUME NEW c \in Calls, DayTimeout(c) PROVE TypeOK'
    BY <2>10 DEF DayTimeout, TypeOK
  <2>11. ASSUME NEW c \in Calls, SubmitBatch(c) PROVE TypeOK'
    <3>1. call[c].model \in Models /\ call[c].doc \in Docs
      BY <2>11 DEF SubmitBatch, HasDoc, TypeOK, CallStates
    <3>2. call[c].doc.hash \in Hashes
      BY <3>1 DEF Docs
    <3> QED
      BY <2>11, <3>1, <3>2, LeaveType DEF SubmitBatch, TypeOK
  <2>12. ASSUME NEW p \in inflight, WriteCells(p) \/ CloseBatch(p) PROVE TypeOK'
    BY <2>12 DEF WriteCells, CloseBatch, TypeOK
  <2>13. CASE CorrectPlan
    BY <2>13 DEF CorrectPlan, TypeOK
  <2>14. ASSUME NEW l \in Lineages, Restart(l) PROVE TypeOK'
    <3>1. \A c \in Calls : call'[c] \in CallStates
      BY <2>14 DEF Restart, TypeOK, CallStates, Pcs
    <3> QED
      BY <2>14, <3>1 DEF Restart, TypeOK
  <2>15. CASE UNCHANGED vars
    BY <2>15 DEF vars, TypeOK
  <2> QED
    BY <2>1, <2>2, <2>3, <2>4, <2>5, <2>6, <2>7, <2>8, <2>9, <2>10, <2>11, <2>12, <2>13,
       <2>14, <2>15 DEF Next, Caller
<1>3. TypeOK /\ HasDoc /\ [Next]_vars => HasDoc'
  <2> SUFFICES ASSUME TypeOK, HasDoc, [Next]_vars, NEW e \in Calls, call'[e].pc = "submit"
               PROVE  call'[e].doc # NoDoc
    BY DEF HasDoc
  <2>1. CASE \E c \in Calls : Caller(c)
    BY <2>1, HasDocKept
  <2>2. CASE UNCHANGED call
    BY <2>2 DEF HasDoc
  <2>3. ASSUME NEW l \in Lineages, Restart(l) PROVE FALSE
    BY <2>3 DEF Restart, TypeOK, CallStates
  <2> QED
    BY <2>1, <2>2, <2>3 DEF Next, WriteCells, CloseBatch, CorrectPlan, vars
<1> QED
  BY <1>1, <1>2, <1>3, PTL DEF Spec

\* Every value the state takes has its type: the documents' fields, the lock, and
\* what each ensureKeys call has read.
THEOREM KeysTypes == Spec => []TypeOK
BY TypesKept, PTL

------------------------------------------------------------------------------
(* Whose KEYS a run grades from.                                            *)

\* A lineage's document was generated by the lineage, and so was what a call has
\* read; the flagship does not change while a call lives.
OwnInv ==
  /\ \A l \in Lineages : scoped[l] # NoDoc => scoped[l].by = l
  /\ \A c \in Calls :
       /\ call[c].pc \in {"pins", "legacy", "generate", "submit"}
       /\ call[c].doc # NoDoc
       => call[c].doc.by = flagship

LEMMA OwnArtifact ==
  ASSUME TypeOK, OwnInv, NEW l \in Lineages, KeysArtifact(l) # NoDoc
  PROVE  KeysArtifact(l).by = l
BY DEF TypeOK, OwnInv, KeysArtifact

\* No run grades from another flagship's KEYS, however restarts under another
\* provider, abandoned generations, backfills and runs interleave.
THEOREM OwnKeys == Spec => []OwnKeysOnly
<1>1. Init => OwnInv
  BY DEF Init, OwnInv
<1>2. TypeOK /\ HasDoc /\ OwnInv /\ [Next]_vars => OwnInv'
  <2> SUFFICES ASSUME TypeOK, HasDoc, OwnInv, [Next]_vars PROVE OwnInv'
    OBVIOUS
  <2> USE DEF docVars, pinVars
  <2>1. ASSUME NEW c \in Calls, Caller(c), ~SaveKeys(c) PROVE OwnInv'
    <3>1. UNCHANGED <<flagship, scoped>>
      BY <2>1 DEF Caller, StartRun, StartBackfill, Classify, LoadDay, ReadExisting, ReadPins,
                  ReadLegacy, GenerateFails, DayTimeout, SubmitBatch
    <3>2. ASSUME NEW e \in Calls, call'[e].pc \in {"pins", "legacy", "generate", "submit"},
                 call'[e].doc # NoDoc
          PROVE  call'[e].doc.by = flagship
      <4>1. CASE e # c
        BY <2>1, <3>2, <4>1, OthersKept DEF OwnInv
      <4>2. CASE e = c
        <5>1. CASE ReadExisting(c)
          BY <3>2, <4>2, <5>1, PositionAfter, OwnArtifact DEF TypeOK
        <5>2. CASE ReadPins(c)
          <6>1. call[c].pc = "pins" /\ call'[c].doc = call[c].doc
            BY <3>2, <4>2, <5>2, PinsRead DEF ReadPins
          <6> QED
            BY <3>2, <4>2, <6>1 DEF OwnInv
        <5>3. CASE ReadLegacy(c)
          <6>1. call[c].pc = "legacy" /\ call'[c].doc = call[c].doc
            BY <3>2, <4>2, <5>3, PositionAfter DEF ReadLegacy
          <6> QED
            BY <3>2, <4>2, <6>1 DEF OwnInv
        <5>4. CASE DayTimeout(c)
          BY <3>2, <5>4 DEF DayTimeout, OwnInv
        <5>5. CASE \/ StartRun(c) \/ StartBackfill(c) \/ Classify(c) \/ LoadDay(c)
                   \/ GenerateFails(c) \/ SubmitBatch(c)
          BY <3>2, <4>2, <5>5, PositionAfter
        <5> QED
          BY <2>1, <5>1, <5>2, <5>3, <5>4, <5>5 DEF Caller
      <4> QED
        BY <4>1, <4>2
    <3> QED
      BY <3>1, <3>2 DEF OwnInv
  <2>2. ASSUME NEW c \in Calls, SaveKeys(c) PROVE OwnInv'
    <3>1. PICK degraded \in BOOLEAN :
            /\ scoped' = [scoped EXCEPT ![flagship] = Generated(c, degraded)]
            /\ Answer(c, Generated(c, degraded))
      BY <2>2 DEF SaveKeys
    <3>2. Generated(c, degraded).by = flagship
      BY DEF Generated
    <3>3. \A l \in Lineages : scoped'[l] # NoDoc => scoped'[l].by = l
      BY <3>1, <3>2 DEF TypeOK, OwnInv
    <3>4. UNCHANGED flagship /\ Caller(c)
      BY <2>2 DEF SaveKeys, Caller
    <3>5. ASSUME NEW e \in Calls, call'[e].pc \in {"pins", "legacy", "generate", "submit"},
                 call'[e].doc # NoDoc
          PROVE  call'[e].doc.by = flagship
      <4>1. CASE e # c
        BY <3>4, <3>5, <4>1, OthersKept DEF OwnInv
      <4>2. CASE e = c
        BY <3>1, <3>2, <3>5, <4>2, Answered
      <4> QED
        BY <4>1, <4>2
    <3> QED
      BY <3>3, <3>4, <3>5 DEF OwnInv
  <2>3. CASE UNCHANGED <<flagship, scoped, call>>
    BY <2>3 DEF OwnInv
  <2>4. ASSUME NEW l \in Lineages, Restart(l) PROVE OwnInv'
    <3>1. \A c \in Calls : call'[c].pc \in {"idle", "done"}
      BY <2>4 DEF Restart, TypeOK, CallStates
    <3> QED
      BY <2>4, <3>1 DEF Restart, OwnInv
  <2> QED
    BY <2>1, <2>2, <2>3, <2>4 DEF Next, WriteCells, CloseBatch, CorrectPlan, vars
<1>3. OwnInv /\ HasDoc => OwnKeysOnly
  BY DEF OwnInv, HasDoc, OwnKeysOnly
<1> QED
  BY <1>1, <1>2, <1>3, TypesKept, PTL DEF Spec

------------------------------------------------------------------------------
(* From which inputs.                                                       *)

\* What a run may grade from: what cells are pinned to, or verified KEYS of its plan.
Current(c, d) ==
  d.hash \in Pins \/ call[c].frozen \/ (d.verified /\ d.inputs = call[c].inputs)

\* A decision from the pins answers only with the artifact it has read, and for a reason.
LEMMA DecisionIsCurrent ==
  ASSUME TypeOK, NEW c \in Calls, ReadPins(c), call'[c].pc = "submit"
  PROVE  Current(c, call[c].doc)
<1>1. CASE Benchmarked(c) \/ call[c].frozen
  BY <1>1 DEF Benchmarked, Pins, Current
<1>2. CASE Reusable(c)
  BY <1>2 DEF Reusable, Current
<1>3. CASE ~Benchmarked(c) /\ ~call[c].frozen /\ ~Reusable(c)
  <2>1. \/ call' = [call EXCEPT ![c] = [@ EXCEPT !.pc = "legacy", !.seen = pinned]]
        \/ Step(c, "generate")
    BY <1>3, Zenon DEF ReadPins
  <2>2. CASE Step(c, "generate")
    BY <2>2, StepCall DEF Pcs
  <2>3. CASE call' = [call EXCEPT ![c] = [@ EXCEPT !.pc = "legacy", !.seen = pinned]]
    <3>1. call'[c] = [call[c] EXCEPT !.pc = "legacy", !.seen = pinned]
      BY <2>3 DEF TypeOK
    <3>2. call'[c].pc = "legacy"
      BY <3>1 DEF TypeOK, CallStates
    <3> QED
      BY <3>2
  <2> QED
    BY <2>1, <2>2, <2>3
<1> QED
  BY <1>1, <1>2, <1>3

LEMMA SavedIsCurrent ==
  ASSUME TypeOK, NEW c \in Calls, SaveKeys(c), call'[c].pc = "submit"
  PROVE  Current(c, call'[c].doc)
<1>1. PICK degraded \in BOOLEAN : Answer(c, Generated(c, degraded))
  BY DEF SaveKeys
<1>2. call'[c].doc = Generated(c, degraded)
  BY <1>1, Answered
<1>3. Generated(c, degraded).verified /\ Generated(c, degraded).inputs = call[c].inputs
  BY DEF Generated
<1> QED
  BY <1>2, <1>3 DEF Current

\* No run submits from KEYS that were generated from another plan or never verified,
\* unless the freeze holds it to them, whatever restarts, abandoned generations and
\* corrected plans come between its reads.
THEOREM CurrentKeys == Spec => GradedFromCurrentKeys
<1>1. ASSUME TypeOK, [Next]_vars, NEW c \in Calls, call[c].pc # "submit", call'[c].pc = "submit"
      PROVE  Current(c, call'[c].doc)
  <2>1. ASSUME NEW e \in Calls, Caller(e) PROVE Current(c, call'[c].doc)
    <3>1. e = c
      BY <1>1, <2>1, OthersKept
    <3>2. CASE ReadPins(c)
      BY <1>1, <3>2, PinsRead, DecisionIsCurrent
    <3>3. CASE SaveKeys(c)
      BY <1>1, <3>3, SavedIsCurrent
    <3>4. CASE DayTimeout(c)
      BY <1>1, <3>4 DEF DayTimeout
    <3>5. CASE ~ReadPins(c) /\ ~SaveKeys(c) /\ ~DayTimeout(c)
      <4>1. call'[c].pc \in {"load", "classify", "done", "read", "pins", "generate"}
        BY <1>1, <2>1, <3>1, <3>5, PositionAfter DEF Caller
      <4> QED
        BY <1>1, <4>1
    <3> QED
      BY <3>2, <3>3, <3>4, <3>5
  <2>2. CASE UNCHANGED call
    BY <1>1, <2>2
  <2>3. ASSUME NEW l \in Lineages, Restart(l) PROVE FALSE
    BY <1>1, <2>3 DEF Restart, TypeOK, CallStates
  <2> QED
    BY <1>1, <2>1, <2>2, <2>3 DEF Next, WriteCells, CloseBatch, CorrectPlan, vars
<1>2. TypeOK /\ [Next]_vars =>
        \A c \in Calls : call[c].pc # "submit" /\ call'[c].pc = "submit" =>
          LET d == call'[c].doc IN
          \/ d.hash \in Pins \/ call[c].frozen
          \/ d.verified /\ d.inputs = call[c].inputs
  BY <1>1, Zenon DEF Current
<1> QED
  BY <1>2, KeysTypes, PTL DEF Spec, GradedFromCurrentKeys

------------------------------------------------------------------------------
(* No pin dangles.                                                          *)

Deciding == {"classify", "load", "read", "pins", "legacy", "generate"}

\* Nobody works outside the lock.
LockInv == \A c \in Calls : call[c].pc \in Deciding \cup {"submit"} => holder = c
\* A call that is not frozen found no open batch, and none was opened since.
QuietInv == \A c \in Calls : call[c].pc \in Deciding /\ ~call[c].frozen => inflight = {}
\* What it has read of the documents and the pins still holds.
ReadInv ==
  \A c \in Calls : call[c].pc \in {"pins", "legacy", "generate"} =>
    call[c].doc = KeysArtifact(flagship)
FreeInv ==
  \A c \in Calls : call[c].pc \in {"legacy", "generate"} => ~call[c].frozen /\ ~Benchmarked(c)
\* What it is about to pin is stored.
SubmitInv == \A c \in Calls : call[c].pc = "submit" => call[c].doc \in Stored

LockedInv == LockInv /\ QuietInv /\ ReadInv /\ FreeInv /\ SubmitInv /\ PinsStayBacked
\* All of it is void once a generation has been abandoned.
PinsInv == abandoned \/ LockedInv

\* Under the lock, whoever acts is the only one that is past its start.
LEMMA Alone ==
  ASSUME TypeOK, LockInv, NEW c \in Calls, Caller(c), holder = c \/ holder = NoCall,
         NEW e \in Calls, e # c
  PROVE  call'[e].pc \notin Deciding \cup {"submit"}
BY OthersKept DEF LockInv

\* An action of c needs to establish the invariant for c alone.
LEMMA AloneSuffices ==
  ASSUME TypeOK, LockInv, NEW c \in Calls, Caller(c), holder = c \/ holder = NoCall,
         call'[c].pc \in Deciding \cup {"submit"} => holder' = c,
         call'[c].pc \in Deciding /\ ~call'[c].frozen => inflight' = {},
         call'[c].pc \in {"pins", "legacy", "generate"} => call'[c].doc = KeysArtifact(flagship)',
         call'[c].pc \in {"legacy", "generate"} => ~call'[c].frozen /\ ~Benchmarked(c)',
         call'[c].pc = "submit" => call'[c].doc \in Stored',
         PinsStayBacked'
  PROVE  LockedInv'
<1>1. \A e \in Calls : e # c => call'[e].pc \notin Deciding \cup {"submit"}
  BY Alone
<1>2. LockInv' /\ QuietInv'
  BY <1>1 DEF LockInv, QuietInv
<1>3. ReadInv'
  BY <1>1 DEF ReadInv, Deciding
<1>4. FreeInv' /\ SubmitInv'
  BY <1>1 DEF FreeInv, SubmitInv, Deciding
<1> QED
  BY <1>2, <1>3, <1>4 DEF LockedInv

\* The lineage's artifact is one of the stored documents.
LEMMA ArtifactStored ==
  ASSUME TypeOK, NEW l \in Lineages, KeysArtifact(l) # NoDoc
  PROVE  KeysArtifact(l) \in Stored
BY DEF TypeOK, KeysArtifact, Stored

LEMMA BackedKept ==
  ASSUME PinsStayBacked, UNCHANGED <<scoped, legacy>>, Pins' \subseteq Pins
  PROVE  PinsStayBacked' /\ Stored' = Stored
<1>1. Stored' = Stored
  BY DEF Stored
<1> QED
  BY <1>1 DEF PinsStayBacked

\* Overwriting a document no cell is pinned to leaves every pin backed.
LEMMA SaveKeepsBacked ==
  ASSUME TypeOK, PinsStayBacked, NEW d \in Docs, inflight = {}, UNCHANGED <<legacy, pinVars>>,
         scoped' = [scoped EXCEPT ![flagship] = d],
         scoped[flagship] # NoDoc => scoped[flagship].hash \notin pinned
  PROVE  PinsStayBacked' /\ d \in Stored'
<1>1. Pins = pinned /\ Pins' = pinned
  BY DEF Pins, pinVars
<1>2. flagship \in Lineages /\ scoped'[flagship] = d /\ d # NoDoc
  BY NoneAssumption DEF TypeOK
<1>3. d \in Stored'
  BY <1>2 DEF Stored
<1>4. ASSUME NEW h \in pinned PROVE \E e \in Stored' : e.hash = h
  <2>1. PICK e \in Stored : e.hash = h
    BY <1>1, <1>4 DEF PinsStayBacked
  <2>2. e # NoDoc /\ (e = legacy \/ \E l \in Lineages : e = scoped[l])
    BY <2>1 DEF Stored
  <2>3. e = legacy \/ \E l \in Lineages : e = scoped'[l]
    BY <1>4, <2>1, <2>2 DEF TypeOK
  <2>4. e \in Stored'
    BY <2>2, <2>3 DEF Stored
  <2> QED
    BY <2>1, <2>4
<1> QED
  BY <1>1, <1>3, <1>4 DEF PinsStayBacked

\* A run that finds no open batch of its model finds none at all: there is one model.
LEMMA StartKept ==
  ASSUME TypeOK, LockedInv, \A m, n \in Models : m = n,
         NEW c \in Calls, StartRun(c) \/ StartBackfill(c)
  PROVE  LockedInv'
<1> USE DEF docVars, pinVars
<1>1. Caller(c) /\ holder = NoCall /\ holder' = c /\ UNCHANGED <<scoped, legacy, pinned, inflight>>
  BY DEF StartRun, StartBackfill, Caller
<1>2. call'[c].pc \in {"load", "classify"}
  BY PositionAfter
<1>3. ASSUME ~call'[c].frozen PROVE inflight = {}
  <2>1. CASE StartBackfill(c)
    BY <2>1 DEF StartBackfill
  <2>2. CASE StartRun(c)
    <3>1. PICK m \in Models, force \in BOOLEAN :
            call' = [call EXCEPT ![c] = [@ EXCEPT !.pc = "load", !.kind = "run", !.model = m,
                       !.inputs = inputs, !.force = force, !.frozen = ScorecardInFlight(m)]]
      BY <2>2 DEF StartRun
    <3> DEFINE open == ScorecardInFlight(m)
    <3>2. call'[c].frozen = open
      <4> HIDE DEF open
      <4>1. call'[c] = [call[c] EXCEPT !.pc = "load", !.kind = "run", !.model = m,
                        !.inputs = inputs, !.force = force, !.frozen = open]
        BY <3>1 DEF TypeOK, open
      <4> QED
        BY <4>1 DEF TypeOK, CallStates
    <3>3. ~ScorecardInFlight(m)
      BY <1>3, <3>2
    <3>4. \A p \in inflight : p.model = m
      BY DEF TypeOK
    <3> QED
      BY <3>3, <3>4 DEF ScorecardInFlight
  <2> QED
    BY <2>1, <2>2
<1>4. PinsStayBacked'
  BY <1>1, BackedKept DEF LockedInv, Pins
<1> QED
  BY <1>1, <1>2, <1>3, <1>4, AloneSuffices DEF LockedInv, Deciding

\* Reading and deciding change no document and no pin.
LEMMA DecisionKept ==
  ASSUME TypeOK, LockedInv, NEW c \in Calls,
         \/ Classify(c) \/ LoadDay(c) \/ ReadExisting(c) \/ ReadPins(c) \/ ReadLegacy(c)
         \/ GenerateFails(c)
  PROVE  LockedInv'
<1> USE DEF docVars, pinVars
<1>1. Caller(c) /\ UNCHANGED <<flagship, scoped, legacy, pinned, inflight>>
  BY DEF Classify, LoadDay, ReadExisting, ReadPins, ReadLegacy, GenerateFails, Caller
<1>2. call[c].pc \in Deciding
  BY DEF Classify, LoadDay, ReadExisting, ReadPins, ReadLegacy, GenerateFails, Deciding
<1>3. holder = c
  BY <1>2 DEF LockedInv, LockInv
<1>4. PinsStayBacked' /\ Stored' = Stored /\ KeysArtifact(flagship)' = KeysArtifact(flagship)
  BY <1>1, BackedKept DEF LockedInv, Pins, KeysArtifact
<1>5. flagship \in Lineages
  BY DEF TypeOK
<1>6. ~call[c].frozen => inflight' = {}
  BY <1>1, <1>2 DEF LockedInv, QuietInv
<1>7. CASE GenerateFails(c)
  BY <1>1, <1>3, <1>4, <1>7, PositionAfter, AloneSuffices DEF LockedInv, Deciding
<1>8. CASE Classify(c) \/ LoadDay(c)
  BY <1>1, <1>3, <1>4, <1>6, <1>8, PositionAfter, AloneSuffices DEF LockedInv, Deciding
<1>9. CASE ReadExisting(c)
  <2>1. holder' = c
    BY <1>3, <1>9 DEF ReadExisting
  <2> QED
    BY <1>1, <1>3, <1>4, <1>6, <1>9, <2>1, PositionAfter, AloneSuffices DEF LockedInv, Deciding
<1>10. CASE ReadPins(c)
  <2>1. call[c].doc = KeysArtifact(flagship)
    BY <1>10 DEF ReadPins, LockedInv, ReadInv
  <2>2. CASE call'[c].pc = "done"
    BY <1>1, <1>3, <1>4, <2>2, AloneSuffices DEF LockedInv, Deciding
  <2>3. CASE call'[c].pc = "submit" /\ call'[c].doc = call[c].doc /\ call[c].doc # NoDoc /\ holder' = holder
    <3>1. call'[c].doc \in Stored'
      BY <1>4, <1>5, <2>1, <2>3, ArtifactStored
    <3> QED
      BY <1>1, <1>3, <1>4, <2>3, <3>1, AloneSuffices DEF LockedInv, Deciding
  <2>4. CASE /\ call'[c].pc \in {"legacy", "generate"} /\ call'[c].doc = call[c].doc
             /\ call'[c].frozen = call[c].frozen /\ ~call[c].frozen /\ ~Benchmarked(c)
             /\ holder' = holder
    <3>1. ~Benchmarked(c)'
      BY <1>1, <2>4 DEF Benchmarked
    <3> QED
      BY <1>1, <1>3, <1>4, <1>6, <2>1, <2>4, <3>1, AloneSuffices DEF LockedInv, Deciding
  <2> QED
    BY <1>10, <2>2, <2>3, <2>4, PinsRead
<1>11. CASE ReadLegacy(c)
  <2>1. call[c].doc = KeysArtifact(flagship) /\ ~call[c].frozen /\ ~Benchmarked(c)
    BY <1>11 DEF ReadLegacy, LockedInv, ReadInv, FreeInv
  <2>2. CASE call'[c].pc = "done"
    BY <1>1, <1>3, <1>4, <2>2, AloneSuffices DEF LockedInv, Deciding
  <2>3. CASE /\ call'[c].pc = "generate" /\ call'[c].doc = call[c].doc
             /\ call'[c].frozen = call[c].frozen /\ holder' = holder
    <3>1. ~Benchmarked(c)'
      BY <1>1, <2>1, <2>3 DEF Benchmarked
    <3> QED
      BY <1>1, <1>3, <1>4, <1>6, <2>1, <2>3, <3>1, AloneSuffices DEF LockedInv, Deciding
  <2> QED
    BY <1>11, <2>2, <2>3, PositionAfter
<1> QED
  BY <1>7, <1>8, <1>9, <1>10, <1>11

\* The document a save overwrites is the one the call has read, and no cell is
\* pinned to it.
LEMMA SaveKept ==
  ASSUME TypeOK, LockedInv, NEW c \in Calls, SaveKeys(c)
  PROVE  LockedInv'
<1> USE DEF docVars, pinVars
<1>1. /\ Caller(c) /\ call[c].pc = "generate"
      /\ UNCHANGED <<flagship, legacy, pinned, inflight>>
  BY DEF SaveKeys, Caller
<1>2. PICK degraded \in BOOLEAN :
        /\ scoped' = [scoped EXCEPT ![flagship] = Generated(c, degraded)]
        /\ Answer(c, Generated(c, degraded))
  BY DEF SaveKeys
<1>3. Generated(c, degraded) \in Docs
  BY GeneratedType
<1>4. /\ holder = c /\ call[c].doc = KeysArtifact(flagship)
      /\ ~call[c].frozen /\ ~Benchmarked(c)
  BY <1>1 DEF LockedInv, LockInv, ReadInv, FreeInv, Deciding
<1>5. inflight = {}
  BY <1>1, <1>4 DEF LockedInv, QuietInv, Deciding
<1>6. scoped[flagship] # NoDoc => scoped[flagship].hash \notin pinned
  BY <1>4 DEF Benchmarked, KeysArtifact
<1>7. PinsStayBacked' /\ Generated(c, degraded) \in Stored'
  BY <1>1, <1>2, <1>3, <1>5, <1>6, SaveKeepsBacked DEF LockedInv
<1>8. \/ call'[c].pc = "done"
      \/ call'[c].pc = "submit" /\ call'[c].doc = Generated(c, degraded) /\ holder' = holder
  BY <1>2, <1>3, Answered
<1>9. CASE call'[c].pc = "done"
  BY <1>1, <1>4, <1>7, <1>9, AloneSuffices DEF LockedInv, Deciding
<1>10. CASE call'[c].pc = "submit" /\ call'[c].doc = Generated(c, degraded) /\ holder' = holder
  BY <1>1, <1>4, <1>7, <1>10, AloneSuffices DEF LockedInv, Deciding
<1> QED
  BY <1>8, <1>9, <1>10

LEMMA SubmitKept ==
  ASSUME TypeOK, LockedInv, NEW c \in Calls, SubmitBatch(c)
  PROVE  LockedInv'
<1> USE DEF docVars
<1>1. /\ Caller(c) /\ call[c].pc = "submit" /\ UNCHANGED <<scoped, legacy, pinned>>
      /\ inflight' = inflight \cup {[by |-> c, model |-> call[c].model, hash |-> call[c].doc.hash]}
  BY DEF SubmitBatch, Caller
<1>2. holder = c /\ call[c].doc \in Stored
  BY <1>1 DEF LockedInv, LockInv, SubmitInv
<1>3. Pins' \subseteq Pins \cup {call[c].doc.hash} /\ Stored' = Stored
  BY <1>1 DEF Pins, Stored
<1>4. PinsStayBacked'
  BY <1>2, <1>3 DEF LockedInv, PinsStayBacked
<1>5. call'[c].pc = "done"
  BY PositionAfter
<1> QED
  BY <1>1, <1>2, <1>4, <1>5, AloneSuffices DEF LockedInv, Deciding

LEMMA ReconcilerKept ==
  ASSUME TypeOK, LockedInv, NEW p \in inflight, WriteCells(p) \/ CloseBatch(p)
  PROVE  LockedInv'
<1> USE DEF docVars
<1>1. /\ UNCHANGED <<flagship, scoped, legacy, holder, call>> /\ inflight' \subseteq inflight
      /\ Pins' \subseteq Pins
  BY DEF WriteCells, CloseBatch, Pins
<1>2. PinsStayBacked' /\ Stored' = Stored /\ KeysArtifact(flagship)' = KeysArtifact(flagship)
  BY <1>1, BackedKept DEF LockedInv, KeysArtifact
<1>3. LockInv' /\ QuietInv' /\ SubmitInv'
  BY <1>1, <1>2 DEF LockedInv, LockInv, QuietInv, SubmitInv
<1>4. ReadInv'
  BY <1>1, <1>2 DEF LockedInv, ReadInv
<1>5. FreeInv'
  <2> SUFFICES ASSUME NEW c \in Calls, call[c].pc \in {"legacy", "generate"}
               PROVE  FALSE
    BY <1>1 DEF FreeInv
  <2>1. ~call[c].frozen
    BY DEF LockedInv, FreeInv
  <2> QED
    BY <2>1 DEF LockedInv, QuietInv, Deciding
<1> QED
  BY <1>2, <1>3, <1>4, <1>5 DEF LockedInv

\* While the backfill has waited for every generation it started, and with one model
\* alias (README: without either it fails), no KEYS hash a scorecard cell pins ever
\* dangles: the lock keeps what a call has read true until it saves, and what it
\* overwrites is unpinned.
THEOREM PinsHold ==
  ASSUME \A m, n \in Models : m = n
  PROVE  Spec => []PinsBacked
<1>1. Init => PinsInv
  <2> SUFFICES ASSUME Init PROVE LockedInv
    BY DEF PinsInv
  <2>1. LockInv /\ QuietInv /\ ReadInv /\ FreeInv /\ SubmitInv
    BY DEF Init, LockInv, QuietInv, ReadInv, FreeInv, SubmitInv, Deciding
  <2>2. PinsStayBacked
    <3>1. Pins = pinned
      BY DEF Init, Pins
    <3>2. ASSUME NEW h \in pinned PROVE \E d \in Stored : d.hash = h
      <4>1. legacy # NoDoc /\ legacy.hash = h
        BY <3>2 DEF Init, LegacyDocs
      <4>2. legacy \in Stored
        BY <4>1 DEF Stored
      <4> QED
        BY <4>1, <4>2
    <3> QED
      BY <3>1, <3>2 DEF PinsStayBacked
  <2> QED
    BY <2>1, <2>2 DEF LockedInv
<1>2. TypeOK /\ PinsInv /\ [Next]_vars => PinsInv'
  <2> SUFFICES ASSUME TypeOK, PinsInv, [Next]_vars, ~abandoned' PROVE LockedInv'
    BY DEF PinsInv
  <2>1. ASSUME NEW c \in Calls, DayTimeout(c) PROVE FALSE
    BY <2>1 DEF DayTimeout
  <2>2. UNCHANGED abandoned
    BY <2>1 DEF Next, Caller, StartRun, StartBackfill, Classify, LoadDay, ReadExisting, ReadPins,
                ReadLegacy, GenerateFails, SaveKeys, SubmitBatch, WriteCells, CloseBatch,
                CorrectPlan, Restart, vars
  <2>3. LockedInv
    BY <2>2 DEF PinsInv
  <2>4. ASSUME NEW c \in Calls, Caller(c) PROVE LockedInv'
    BY <2>1, <2>3, <2>4, StartKept, DecisionKept, SaveKept, SubmitKept DEF Caller
  <2>5. ASSUME NEW p \in inflight, WriteCells(p) \/ CloseBatch(p) PROVE LockedInv'
    BY <2>3, <2>5, ReconcilerKept
  <2>6. CASE UNCHANGED <<flagship, docVars, pinVars, holder, call>>
    <3>1. PinsStayBacked' /\ Stored' = Stored /\ KeysArtifact(flagship)' = KeysArtifact(flagship)
      BY <2>3, <2>6, BackedKept DEF LockedInv, Pins, KeysArtifact, docVars, pinVars
    <3> QED
      BY <2>3, <2>6, <3>1 DEF LockedInv, LockInv, QuietInv, ReadInv, FreeInv, SubmitInv, Benchmarked,
                              docVars, pinVars
  <2>7. ASSUME NEW l \in Lineages, Restart(l) PROVE LockedInv'
    <3>1. \A c \in Calls : call'[c].pc \in {"idle", "done"}
      BY <2>7 DEF Restart, TypeOK, CallStates
    <3>2. PinsStayBacked'
      BY <2>3, <2>7, BackedKept DEF Restart, LockedInv, Pins, docVars, pinVars
    <3> QED
      BY <3>1, <3>2 DEF LockedInv, LockInv, QuietInv, ReadInv, FreeInv, SubmitInv, Deciding
  <2> QED
    BY <2>4, <2>5, <2>6, <2>7 DEF Next, CorrectPlan, vars
<1>3. PinsInv => PinsBacked
  BY DEF PinsInv, LockedInv, PinsBacked
<1> QED
  BY <1>1, <1>2, <1>3, KeysTypes, PTL DEF Spec

==============================================================================
