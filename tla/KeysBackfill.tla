---------------------------- MODULE KeysBackfill ----------------------------
(***************************************************************************)
(* The corpus-wide KEYS job: KeysBackfillService (keys-backfill.service.ts)*)
(* over the days of one flagship's lineage, strictly oldest first, with    *)
(* retries, a day timeout that cannot cancel what it waits for, a grace    *)
(* period, cancellation and restarts.  ensureKeys is a generation in       *)
(* flight that decides, reads its lookback and saves; KeysLineage models   *)
(* it document by document.                                                *)
(*                                                                         *)
(* Days are 1 .. LastDay; the snapshot's candidates are the window the     *)
(* caller asked for.  A day's KEYS are none, unverified, degraded (its     *)
(* lookback lacked a recent day) or full.  MaxJobs bounds POSTs, MaxMoves  *)
(* what runs, re-ingests and restarts do around them.                      *)
(***************************************************************************)
EXTENDS Naturals

CONSTANTS LastDay, Lookback, MaxAttempts, MaxJobs, MaxMoves

ASSUME ShapeAssumption ==
  /\ LastDay \in Nat \ {0} /\ Lookback \in Nat \ {0} /\ MaxAttempts \in Nat \ {0}
ASSUME BoundAssumption == MaxJobs \in Nat /\ MaxMoves \in Nat

Days == 1 .. LastDay

VARIABLES
  keys,         \* the KEYS of each day, for this lineage
  pinned,       \* days whose stored KEYS cells are pinned to (orphaned without any)
  moved,        \* days re-ingested since the job took its snapshot
  lock,         \* BenchmarkRunLock: held by the backfill or free
  state, job,   \* job.state, and how many jobs have been started
  pc, from, to, day, attempt, cancelRequested,
  gens,         \* generateDay calls in flight, awaited or abandoned
  moves

corpusVars == <<keys, pinned, moved>>
loopVars   == <<lock, state, pc, from, to, day, attempt>>
vars == <<corpusVars, loopVars, job, cancelRequested, gens, moves>>

Verified(k) == k \in {"degraded", "full"}
Gens == [job : 1 .. MaxJobs, day : Days, attempt : 1 .. MaxAttempts, force : BOOLEAN,
         phase : {"load", "generate"}, degraded : BOOLEAN]

TypeOK ==
  /\ keys \in [Days -> {"none", "unverified", "degraded", "full"}]
  /\ pinned \subseteq Days /\ moved \subseteq Days
  /\ lock \in {"free", "backfill"}
  /\ state \in {"none", "running", "done", "cancelled", "failed"} /\ job \in 0 .. MaxJobs
  /\ pc \in {"idle", "preflight", "ready", "loop", "sleep", "classify", "attempt", "grace"}
  /\ from \in Days /\ to \in Days /\ day \in 1 .. LastDay + 1 /\ attempt \in 1 .. MaxAttempts
  /\ cancelRequested \in BOOLEAN
  /\ gens \subseteq Gens
  /\ moves \in 0 .. MaxMoves

\* A corpus that earlier runs built in any order, pins of a deleted document included.
Init ==
  /\ keys \in [Days -> {"none", "unverified", "degraded", "full"}]
  /\ pinned \in {P \in SUBSET Days : \A d \in P : keys[d] # "unverified"}
  /\ moved = {}
  /\ lock = "free" /\ state = "none" /\ job = 0
  /\ pc = "idle" /\ from = 1 /\ to = 1 /\ day = 1 /\ attempt = 1 /\ cancelRequested = FALSE
  /\ gens = {} /\ moves = 0

------------------------------------------------------------------------------
(* The job up to its first day.                                             *)

Finish(s) ==
  /\ state' = s /\ pc' = "idle" /\ lock' = "free"
  /\ UNCHANGED <<from, to, day, attempt>>

Start ==
  /\ lock = "free" /\ job < MaxJobs
  /\ lock' = "backfill" /\ state' = "running" /\ pc' = "preflight" /\ job' = job + 1
  /\ \E f, t \in Days : f <= t /\ from' = f /\ day' = f /\ to' = t
  /\ cancelRequested' = FALSE /\ attempt' = 1 /\ moved' = {}
  /\ UNCHANGED <<keys, pinned, gens, moves>>

\* A snapshot that fails or times out, no methods document, a batch still open.
Preflight ==
  /\ pc = "preflight"
  /\ \/ pc' = "ready" /\ UNCHANGED <<lock, state, from, to, day, attempt>>
     \/ Finish("failed")
  /\ UNCHANGED <<corpusVars, job, cancelRequested, gens, moves>>

Priors(d) == {p \in Days : p < d /\ p + Lookback >= d}

\* Mutated: the window may start anywhere.
ReadyAnywhere(d) == TRUE
\* assertLookbackReady: the recent days before the window have finalized KEYS.
LookbackReady(d) == \A p \in Priors(d) : keys[p] = "full"

CheckLookback ==
  /\ pc = "ready"
  /\ IF LookbackReady(day)
       THEN pc' = "loop" /\ UNCHANGED <<lock, state, from, to, day, attempt>>
       ELSE Finish("failed")
  /\ UNCHANGED <<corpusVars, job, cancelRequested, gens, moves>>

------------------------------------------------------------------------------
(* The loop over the days.                                                  *)

NextDay ==
  /\ pc = "loop"
  /\ IF cancelRequested THEN Finish("cancelled")
     ELSE IF day > to THEN Finish("done")
     ELSE pc' = "classify" /\ attempt' = 1 /\ UNCHANGED <<lock, state, from, to, day>>
  /\ UNCHANGED <<corpusVars, job, cancelRequested, gens, moves>>

DayDone == pc' = "loop" /\ day' = day + 1 /\ UNCHANGED <<lock, state, from, to, attempt>>

\* Mutated: a timeout is retried like any other failure.
FinalUnlessTimeout(kind) == kind \in {"refused", "moved"}
\* The failures that no retry can mend, or must not race with.
Final(kind) == kind \in {"refused", "moved", "timeout"}

\* One attempt failed: stop, or look at the cancellation and back off.
AttemptFails(kind) ==
  IF Final(kind) \/ attempt = MaxAttempts THEN Finish("failed")
  ELSE IF cancelRequested THEN Finish("cancelled")
  ELSE pc' = "sleep" /\ attempt' = attempt + 1 /\ UNCHANGED <<lock, state, from, to, day>>

SleepEnds ==
  /\ pc = "sleep" /\ pc' = "classify"
  /\ UNCHANGED <<corpusVars, lock, state, from, to, day, attempt, job, cancelRequested, gens, moves>>

\* Mutated: a degraded artifact is generated without force, and so reused.
NeverForced(k) == FALSE
\* regenerateDegraded: the verified artifacts that are not good enough.
Forced(k) == Verified(k)

\* The classification read: full KEYS are reused, anything else is generated.
Classify ==
  /\ pc = "classify"
  /\ IF keys[day] = "full" THEN DayDone /\ UNCHANGED gens
     ELSE /\ pc' = "attempt"
          /\ gens' = gens \cup {[job |-> job, day |-> day, attempt |-> attempt,
                                 force |-> Forced(keys[day]), phase |-> "load", degraded |-> FALSE]}
          /\ UNCHANGED <<lock, state, from, to, day, attempt>>
  /\ UNCHANGED <<corpusVars, job, cancelRequested, moves>>

ClassifyFails ==
  /\ pc = "classify" /\ AttemptFails("error")
  /\ UNCHANGED <<corpusVars, job, cancelRequested, gens, moves>>

\* Mutated: nothing bounds the day.
NoTimer == FALSE
\* withDayTimeout gives up, the generation it raced against does not.
DayTimer == pc = "attempt"

DayTimeout ==
  /\ DayTimer /\ pc' = "grace"
  /\ UNCHANGED <<corpusVars, lock, state, from, to, day, attempt, job, cancelRequested, gens, moves>>

\* awaitGraceLanding: a poll finds full KEYS ...
GraceLands ==
  /\ pc = "grace" /\ keys[day] = "full" /\ DayDone
  /\ UNCHANGED <<corpusVars, job, cancelRequested, gens, moves>>

\* ... or the deadline or a cancellation comes first.
GraceEnds ==
  /\ pc = "grace"
  /\ IF cancelRequested THEN Finish("cancelled") ELSE AttemptFails("timeout")
  /\ UNCHANGED <<corpusVars, job, cancelRequested, gens, moves>>

Cancel ==
  /\ state = "running" /\ ~cancelRequested /\ cancelRequested' = TRUE
  /\ UNCHANGED <<corpusVars, loopVars, job, gens, moves>>

------------------------------------------------------------------------------
(* generateDay and ensureKeys.                                              *)

Awaited(g) == pc = "attempt" /\ g.job = job /\ g.day = day /\ g.attempt = attempt

\* The call settles: the loop goes on if it is still waiting for this one.
Settle(g, outcome) ==
  /\ gens' = gens \ {g}
  /\ IF ~Awaited(g) THEN UNCHANGED loopVars
     ELSE IF outcome = "keys" THEN DayDone
     ELSE AttemptFails(outcome)

\* loadDay against the snapshot, then what is stored, pins before force.
Decide(g) ==
  LET k == keys[g.day] IN
  /\ g.phase = "load"
  /\ \/ g.day \in moved /\ g.job = job /\ Settle(g, "moved")
     \/ /\ g.day \notin moved \/ g.job # job
        /\ \/ g.day \in pinned /\ k # "none" /\ Settle(g, "keys")
           \/ g.day \in pinned /\ k = "none" /\ Settle(g, "refused")
           \/ g.day \notin pinned /\ ~g.force /\ Verified(k) /\ Settle(g, "keys")
           \/ /\ g.day \notin pinned        \* also without force, when the inputs changed
              /\ gens' = (gens \ {g}) \cup
                   {[g EXCEPT !.phase = "generate",
                              !.degraded = \E p \in Priors(g.day) : keys[p] = "none"]}
              /\ UNCHANGED loopVars
  /\ UNCHANGED <<corpusVars, job, cancelRequested, moves>>

\* The artifact is saved; cells pinned to the one it replaces are pinned no more.
Save(g) ==
  /\ g.phase = "generate"
  /\ keys' = [keys EXCEPT ![g.day] = IF g.degraded THEN "degraded" ELSE "full"]
  /\ pinned' = pinned \ {g.day}
  /\ Settle(g, "keys")
  /\ UNCHANGED <<moved, job, cancelRequested, moves>>

\* A load, a call, a verdict or a save that fails.
GenerationFails(g) ==
  /\ Settle(g, "error")
  /\ UNCHANGED <<corpusVars, job, cancelRequested, moves>>

------------------------------------------------------------------------------
(* What happens around the job.                                             *)

Move == moves < MaxMoves /\ moves' = moves + 1

\* A benchmark run generates KEYS for a day of its choice and pins them.
RunGenerates(d) ==
  /\ Move /\ lock = "free" /\ d \notin pinned
  /\ keys' = [keys EXCEPT ![d] =
                IF \E p \in Priors(d) : keys[p] = "none" THEN "degraded" ELSE "full"]
  /\ \E pins \in BOOLEAN : pinned' = IF pins THEN pinned \cup {d} ELSE pinned
  /\ UNCHANGED <<moved, loopVars, job, cancelRequested, gens>>

Reingest(d) ==
  /\ Move /\ state = "running" /\ moved' = moved \cup {d}
  /\ UNCHANGED <<keys, pinned, loopVars, job, cancelRequested, gens>>

Restart ==
  /\ Move /\ state' = "none" /\ pc' = "idle" /\ lock' = "free" /\ gens' = {}
  /\ cancelRequested' = FALSE
  /\ UNCHANGED <<corpusVars, from, to, day, attempt, job>>

JobStep ==
  \/ Preflight \/ CheckLookback \/ NextDay \/ SleepEnds \/ Classify \/ ClassifyFails
  \/ DayTimeout \/ GraceLands \/ GraceEnds

Next ==
  \/ Start \/ JobStep \/ Cancel
  \/ \E g \in gens : Decide(g) \/ Save(g) \/ GenerationFails(g)
  \/ \E d \in Days : RunGenerates(d) \/ Reingest(d)
  \/ Restart

Spec == Init /\ [][Next]_vars

\* The loop's own steps and its timers; nothing makes a generation settle.
FairSpec == Spec /\ WF_vars(JobStep)

------------------------------------------------------------------------------
(* Properties.                                                              *)

\* No generation of a job ever works with a reduced lookback, wherever its window
\* starts: the reuse rule would freeze what it saves (assertLookbackReady).
LookbackIsFull == \A g \in gens : ~g.degraded

\* A job that ends as done has left every day of its window with full KEYS, or with
\* KEYS that cells are pinned to: degraded leftovers are replaced.
DoneIsBuilt ==
  state = "done" => \A d \in from .. to : keys[d] = "full" \/ d \in pinned

\* Attempts at one day never overlap within a job: the abandoned one would race
\* the next one to saveKeysArtifact (why a timeout is final).
AttemptsDoNotOverlap == \A g, h \in gens : g.job = h.job /\ g.day = h.day => g = h

\* The job always lets go of the lock, whatever hangs (the read and day timeouts).
JobReleasesLock == lock = "backfill" ~> lock = "free"

\* Cancellation is checked between attempts: none starts after it was requested.
NoAttemptAfterCancel == [][pc = "sleep" /\ pc' = "classify" => ~cancelRequested]_vars

==============================================================================
