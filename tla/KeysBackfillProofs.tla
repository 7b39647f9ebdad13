-------------------------- MODULE KeysBackfillProofs --------------------------
(***************************************************************************)
(* Theorems about KeysBackfill, for any number of days, attempts, jobs and *)
(* moves around them and any lookback: its types, that no generation works *)
(* with a reduced lookback, that a finished job has built its window, and  *)
(* that attempts at a day do not overlap.                                  *)
(***************************************************************************)
EXTENDS KeysBackfill, TLAPS

USE ShapeAssumption, BoundAssumption

------------------------------------------------------------------------------
(* The types, and where the job is.                                         *)

Kinds == {"none", "unverified", "degraded", "full"}
OnDay == {"classify", "sleep", "attempt", "grace"}
InLoop == OnDay \cup {"loop"}

\* The job holds the lock from its start to its end, and its day is one of its window.
JobInv ==
  /\ pc = "idle" <=> lock = "free"
  /\ pc = "idle" <=> state # "running"
  /\ pc # "idle" => job \in 1 .. MaxJobs
  /\ from <= to /\ from <= day /\ day <= to + 1
  /\ pc \in OnDay => day <= to
  /\ pc \in {"preflight", "ready"} => day = from
  /\ state = "done" => day = to + 1

Typed == TypeOK /\ JobInv

LEMMA InitTyped == Init => Typed
<1> SUFFICES ASSUME Init PROVE Typed
  OBVIOUS
<1>1. cancelRequested \in BOOLEAN
  BY Zenon DEF Init
<1>2. gens \subseteq Gens
  BY DEF Init
<1>3. JobInv
  BY DEF Init, JobInv, OnDay
<1> QED
  BY <1>1, <1>2, <1>3 DEF Init, Typed, TypeOK, Days

LEMMA ForcedBoolean == \A k : Forced(k) \in BOOLEAN
BY DEF Forced, Verified

LEMMA NextDayCases ==
  NextDay => \/ Finish("cancelled")
             \/ day > to /\ Finish("done")
             \/ ~(day > to) /\ pc' = "classify" /\ attempt' = 1 /\ UNCHANGED <<lock, state, from, to, day>>
BY DEF NextDay

\* A generation that starts, and one that has decided to generate.
LEMMA GenStartsTyped ==
  ASSUME Typed, pc = "classify", NEW f \in BOOLEAN
  PROVE  [job |-> job, day |-> day, attempt |-> attempt,
          force |-> f, phase |-> "load", degraded |-> FALSE] \in Gens
<1>1. job \in 1 .. MaxJobs /\ day \in Days /\ attempt \in 1 .. MaxAttempts
  BY DEF Typed, TypeOK, JobInv, OnDay, Days
<1>2. FALSE \in BOOLEAN
  OBVIOUS
<1> QED
  BY <1>1, <1>2 DEF Gens

LEMMA GenDecidesTyped ==
  ASSUME Typed, NEW g \in gens, NEW degr \in BOOLEAN
  PROVE  [g EXCEPT !.phase = "generate", !.degraded = degr] \in Gens
BY DEF Typed, TypeOK, Gens

\* Ending the job, or a day of it.
LEMMA FinishTyped ==
  ASSUME Typed, NEW s \in {"done", "cancelled", "failed"}, Finish(s),
         s = "done" => day = to + 1, job' = job
  PROVE  JobInv'
BY DEF Finish, Typed, TypeOK, JobInv, OnDay

LEMMA DayDoneTyped ==
  ASSUME Typed, pc \in OnDay, DayDone, job' = job
  PROVE  JobInv' /\ day' \in 1 .. LastDay + 1
BY DEF DayDone, Typed, TypeOK, JobInv, OnDay, Days

LEMMA AttemptFailsTyped ==
  ASSUME Typed, pc \in OnDay, NEW kind, AttemptFails(kind), job' = job
  PROVE  /\ JobInv' /\ UNCHANGED <<from, to, day>> /\ attempt' \in 1 .. MaxAttempts
         /\ state' \in {"none", "running", "done", "cancelled", "failed"}
         /\ lock' \in {"free", "backfill"}
         /\ pc' \in {"idle", "sleep"}
<1>1. CASE Finish("failed")
  BY <1>1, FinishTyped DEF Finish, Typed, TypeOK
<1>2. CASE Finish("cancelled")
  BY <1>2, FinishTyped DEF Finish, Typed, TypeOK
<1>3. CASE attempt # MaxAttempts /\ pc' = "sleep" /\ attempt' = attempt + 1 /\ UNCHANGED <<lock, state, from, to, day>>
  BY <1>3 DEF Typed, TypeOK, JobInv, OnDay
<1> QED
  BY <1>1, <1>2, <1>3 DEF AttemptFails

\* The control of a job is all that settling a call changes of it.
ControlOK ==
  /\ lock \in {"free", "backfill"}
  /\ state \in {"none", "running", "done", "cancelled", "failed"}
  /\ pc \in {"idle", "preflight", "ready", "loop", "sleep", "classify", "attempt", "grace"}
  /\ from \in Days /\ to \in Days /\ day \in 1 .. LastDay + 1 /\ attempt \in 1 .. MaxAttempts
  /\ JobInv

LEMMA LoopTyped ==
  ASSUME Typed, job' = job,
         \/ pc \in OnDay /\ (DayDone \/ \E kind \in {"error", "moved", "refused", "timeout"} : AttemptFails(kind))
         \/ UNCHANGED loopVars
  PROVE  ControlOK'
<1>1. CASE pc \in OnDay /\ DayDone
  BY <1>1, DayDoneTyped DEF DayDone, ControlOK, Typed, TypeOK
<1>2. ASSUME pc \in OnDay, NEW kind \in {"error", "moved", "refused", "timeout"}, AttemptFails(kind)
      PROVE  ControlOK'
  BY <1>2, AttemptFailsTyped DEF ControlOK, Typed, TypeOK
<1>3. CASE UNCHANGED loopVars
  BY <1>3 DEF loopVars, ControlOK, Typed, TypeOK, JobInv
<1> QED
  BY <1>1, <1>2, <1>3

LEMMA SettleTyped ==
  ASSUME Typed, NEW g \in gens, NEW outcome \in {"keys", "moved", "refused", "error"},
         Settle(g, outcome), job' = job
  PROVE  ControlOK' /\ gens' \subseteq Gens
BY LoopTyped DEF Settle, Awaited, OnDay, Typed, TypeOK

LEMMA NextTyped == Typed /\ [Next]_vars => Typed'
<1> SUFFICES ASSUME Typed, [Next]_vars PROVE Typed'
  OBVIOUS
<1>1. CASE Start
  <2>1. cancelRequested' \in BOOLEAN
    BY <1>1, Zenon DEF Start
  <2>2. JobInv'
    BY <1>1 DEF Start, Typed, TypeOK, JobInv, Days, OnDay
  <2> QED
    BY <1>1, <2>1, <2>2 DEF Start, Typed, TypeOK, Days
<1>2. CASE Preflight \/ CheckLookback \/ NextDay
  <2>1. UNCHANGED <<corpusVars, job, cancelRequested, gens, moves>>
    BY <1>2 DEF Preflight, CheckLookback, NextDay
  <2>2. ControlOK'
    <3>1. ASSUME NEW s \in {"done", "cancelled", "failed"}, Finish(s), s = "done" => day = to + 1
          PROVE  ControlOK'
      BY <2>1, <3>1, FinishTyped DEF Finish, ControlOK, Typed, TypeOK
    <3>2. CASE Preflight /\ ~Finish("failed")
      BY <2>1, <3>2 DEF Preflight, ControlOK, Typed, TypeOK, JobInv, OnDay
    <3>3. CASE CheckLookback /\ ~Finish("failed")
      BY <2>1, <3>3 DEF CheckLookback, ControlOK, Typed, TypeOK, JobInv, OnDay
    <3>4. CASE NextDay
      <4>1. CASE Finish("cancelled") \/ (day > to /\ Finish("done"))
        <5>1. day > to => day = to + 1
          BY DEF Typed, TypeOK, JobInv, Days
        <5> QED
          BY <3>1, <4>1, <5>1
      <4>2. CASE /\ day <= to /\ pc' = "classify" /\ attempt' = 1
                 /\ UNCHANGED <<lock, state, from, to, day>>
        BY <2>1, <3>4, <4>2 DEF NextDay, ControlOK, Typed, TypeOK, JobInv, OnDay
      <4>3. ~(day > to) => day <= to
        BY DEF Typed, TypeOK, Days
      <4> QED
        <5>1. CASE Finish("cancelled") \/ (day > to /\ Finish("done"))
          BY <4>1, <5>1, Zenon
        <5>2. CASE /\ ~(day > to) /\ pc' = "classify" /\ attempt' = 1
                   /\ UNCHANGED <<lock, state, from, to, day>>
          BY <4>2, <4>3, <5>2
        <5> QED
          BY <3>4, <5>1, <5>2, NextDayCases
    <3> QED
      BY <1>2, <3>1, <3>2, <3>3, <3>4
  <2> QED
    BY <2>1, <2>2 DEF corpusVars, ControlOK, Typed, TypeOK
<1>3. CASE SleepEnds \/ DayTimeout \/ Cancel
  BY <1>3 DEF SleepEnds, DayTimeout, DayTimer, Cancel, corpusVars, loopVars, Typed, TypeOK, JobInv, OnDay
<1>4. CASE Classify
  <2>1. gens' \subseteq Gens
    <3>1. Forced(keys[day]) \in BOOLEAN
      BY ForcedBoolean, Zenon
    <3>2. CASE gens' = gens \cup {[job |-> job, day |-> day, attempt |-> attempt,
                 force |-> Forced(keys[day]), phase |-> "load", degraded |-> FALSE]}
      <4>1. [job |-> job, day |-> day, attempt |-> attempt,
             force |-> Forced(keys[day]), phase |-> "load", degraded |-> FALSE] \in Gens
        BY <1>4, <3>1, GenStartsTyped DEF Classify
      <4> QED
        <5>1. gens \subseteq Gens
          BY DEF Typed, TypeOK
        <5> QED
          BY <3>2, <4>1, <5>1, Zenon
    <3> QED
      <4>1. CASE gens' = gens
        BY <4>1 DEF Typed, TypeOK
      <4> QED
        BY <1>4, <3>2, <4>1, Zenon DEF Classify
  <2>2. ControlOK'
    BY <1>4, DayDoneTyped DEF Classify, DayDone, ControlOK, Typed, TypeOK, JobInv, OnDay
  <2> QED
    BY <1>4, <2>1, <2>2 DEF Classify, corpusVars, ControlOK, Typed, TypeOK
<1>5. CASE ClassifyFails \/ GraceLands \/ GraceEnds
  <2>1. UNCHANGED <<corpusVars, job, cancelRequested, gens, moves>> /\ pc \in OnDay
    BY <1>5 DEF ClassifyFails, GraceLands, GraceEnds, OnDay
  <2>2. Finish("cancelled") => ControlOK'
    <3>1. Finish("cancelled") => JobInv'
      BY <2>1, FinishTyped
    <3> QED
      BY <2>1, <3>1 DEF Finish, ControlOK, Typed, TypeOK
  <2>3. ControlOK'
    <3>1. \/ Finish("cancelled") \/ DayDone
          \/ \E kind \in {"error", "moved", "refused", "timeout"} : AttemptFails(kind)
      BY <1>5, Zenon DEF ClassifyFails, GraceLands, GraceEnds
    <3> QED
      BY <2>1, <2>2, <3>1, LoopTyped
  <2> QED
    BY <2>1, <2>3 DEF corpusVars, ControlOK, Typed, TypeOK
<1>6. ASSUME NEW g \in gens, Decide(g) \/ Save(g) \/ GenerationFails(g)
      PROVE  Typed'
  <2>1. UNCHANGED <<moved, job, cancelRequested, moves>>
    BY <1>6 DEF Decide, Save, GenerationFails, corpusVars
  <2>2. keys' \in [Days -> Kinds] /\ pinned' \subseteq Days
    BY <1>6 DEF Decide, Save, GenerationFails, corpusVars, Typed, TypeOK, Kinds
  <2>3. ControlOK' /\ gens' \subseteq Gens
    <3>1. CASE \E outcome \in {"keys", "moved", "refused", "error"} : Settle(g, outcome)
      BY <2>1, <3>1, SettleTyped
    <3>2. CASE /\ UNCHANGED loopVars
               /\ gens' = (gens \ {g}) \cup {[g EXCEPT !.phase = "generate",
                             !.degraded = \E p \in Priors(g.day) : keys[p] = "none"]}
      <4> DEFINE degr == \E p \in Priors(g.day) : keys[p] = "none"
      <4>1. degr \in BOOLEAN
        BY Zenon
      <4> HIDE DEF degr
      <4>2. [g EXCEPT !.phase = "generate", !.degraded = degr] \in Gens
        BY <4>1, GenDecidesTyped
      <4>3. gens' = (gens \ {g}) \cup {[g EXCEPT !.phase = "generate", !.degraded = degr]}
        BY <3>2, Zenon DEF degr
      <4>4. gens' \subseteq Gens
        BY <4>2, <4>3, Zenon DEF Typed, TypeOK
      <4> QED
        BY <2>1, <3>2, <4>4, LoopTyped
    <3> QED
      BY <1>6, <3>1, <3>2 DEF Decide, Save, GenerationFails
  <2> QED
    BY <2>1, <2>2, <2>3 DEF ControlOK, Typed, TypeOK, Kinds
<1>7. ASSUME NEW d \in Days, RunGenerates(d) \/ Reingest(d)
      PROVE  Typed'
  <2>1. UNCHANGED <<loopVars, job, cancelRequested, gens>> /\ moves' \in 0 .. MaxMoves
    BY <1>7 DEF RunGenerates, Reingest, Move, Typed, TypeOK
  <2>2. keys' \in [Days -> Kinds] /\ pinned' \subseteq Days /\ moved' \subseteq Days
    BY <1>7 DEF RunGenerates, Reingest, Typed, TypeOK, Kinds
  <2> QED
    BY <2>1, <2>2, LoopTyped DEF ControlOK, Typed, TypeOK, Kinds
<1>8. CASE Restart
  <2>1. cancelRequested' \in BOOLEAN
    BY <1>8, Zenon DEF Restart
  <2>2. JobInv'
    BY <1>8 DEF Restart, Typed, TypeOK, JobInv, OnDay
  <2> QED
    BY <1>8, <2>1, <2>2 DEF Restart, Move, corpusVars, Typed, TypeOK
<1>9. CASE UNCHANGED vars
  BY <1>9 DEF vars, corpusVars, loopVars, Typed, TypeOK, JobInv
<1> QED
  BY <1>1, <1>2, <1>3, <1>4, <1>5, <1>6, <1>7, <1>8, <1>9 DEF Next, JobStep

\* Every variable stays within its type, and the job's day within its window.
THEOREM TypeCorrect == Spec => []TypeOK
<1>1. Spec => []Typed
  BY InitTyped, NextTyped, PTL DEF Spec
<1> QED
  BY <1>1, PTL DEF Typed

------------------------------------------------------------------------------
(* What a step does to the job's control, to its generations and the corpus.*)

\* The call goes on as h, which is degraded only if its lookback has a gap.
Continues(g, h) ==
  /\ gens' = (gens \ {g}) \cup {h}
  /\ h.job = g.job /\ h.day = g.day /\ h.attempt = g.attempt /\ h.force = g.force
  /\ (\A p \in Priors(g.day) : keys[p] # "none") => ~h.degraded

\* The loop ends or backs off; it never does so after a timeout.
LEMMA FailsEffect ==
  ASSUME Typed, pc \in OnDay, NEW kind, AttemptFails(kind)
  PROVE  /\ UNCHANGED <<from, to, day>>
         /\ \/ pc' = "idle" /\ state' \in {"failed", "cancelled"}
            \/ pc' = "sleep" /\ state' = state /\ kind # "timeout"
BY DEF AttemptFails, Finish, Final

\* Up to its first day, and between two days.
LEMMA AheadEffect ==
  ASSUME Typed, Preflight \/ CheckLookback \/ NextDay
  PROVE  /\ UNCHANGED <<from, to, day>>
         /\ \/ pc' = "idle" /\ state' \in {"failed", "cancelled"}
            \/ pc' = "idle" /\ state' = "done" /\ pc = "loop"
            \/ pc = "preflight" /\ pc' = "ready" /\ state' = state
            \/ pc = "ready" /\ pc' = "loop" /\ state' = state /\ LookbackReady(day)
            \/ pc = "loop" /\ pc' = "classify" /\ state' = state
<1>1. CASE Preflight
  BY <1>1 DEF Preflight, Finish
<1>2. CASE CheckLookback
  BY <1>2 DEF CheckLookback, Finish
<1>3. CASE NextDay
  BY <1>3, NextDayCases DEF NextDay, Finish
<1> QED
  BY <1>1, <1>2, <1>3

\* What ends a day that no call settles.
LEMMA BehindEffect ==
  ASSUME Typed, ClassifyFails \/ GraceLands \/ GraceEnds
  PROVE  /\ UNCHANGED <<from, to>> /\ pc \in {"classify", "grace"}
         /\ \/ pc' = "idle" /\ state' \in {"failed", "cancelled"} /\ day' = day
            \/ pc = "classify" /\ pc' = "sleep" /\ state' = state /\ day' = day
            \/ pc = "grace" /\ pc' = "loop" /\ state' = state /\ day' = day + 1 /\ keys[day] = "full"
<1>1. CASE ClassifyFails
  BY <1>1, FailsEffect DEF ClassifyFails, OnDay
<1>2. CASE GraceLands
  BY <1>2 DEF GraceLands, DayDone
<1>3. CASE GraceEnds
  BY <1>3, FailsEffect DEF GraceEnds, Finish, OnDay
<1> QED
  BY <1>1, <1>2, <1>3

\* A call settles, or goes on to generate; with its whole lookback, never degraded.
LEMMA CallEffect ==
  ASSUME Typed, NEW g \in gens, Decide(g) \/ Save(g) \/ GenerationFails(g)
  PROVE  \/ \E outcome \in {"keys", "moved", "refused", "error"} : Settle(g, outcome)
         \/ /\ UNCHANGED loopVars
            /\ \E h \in Gens : Continues(g, h)
<1>1. CASE \E outcome \in {"keys", "moved", "refused", "error"} : Settle(g, outcome)
  BY <1>1
<1>2. CASE /\ UNCHANGED loopVars
           /\ gens' = (gens \ {g}) \cup {[g EXCEPT !.phase = "generate",
                         !.degraded = \E p \in Priors(g.day) : keys[p] = "none"]}
  <2> DEFINE degr == \E p \in Priors(g.day) : keys[p] = "none"
             h == [g EXCEPT !.phase = "generate", !.degraded = degr]
  <2>1. degr \in BOOLEAN /\ (~degr <=> \A p \in Priors(g.day) : keys[p] # "none")
    BY Zenon
  <2>2. gens' = (gens \ {g}) \cup {h}
    BY <1>2, Zenon
  <2> HIDE DEF degr
  <2>3. /\ h \in Gens /\ h.degraded = degr
        /\ h.job = g.job /\ h.day = g.day /\ h.attempt = g.attempt /\ h.force = g.force
    BY <2>1, GenDecidesTyped DEF Typed, TypeOK, Gens
  <2> HIDE DEF h
  <2>4. (\A p \in Priors(g.day) : keys[p] # "none") => ~h.degraded
    BY <2>1, <2>3, Zenon
  <2>5. Continues(g, h)
    BY <2>2, <2>3, <2>4, Zenon DEF Continues
  <2> QED
    BY <1>2, <2>3, <2>5, Zenon
<1> QED
  BY <1>1, <1>2 DEF Decide, Save, GenerationFails

\* A call that settles leaves its job where it is, or takes it off the day.
LEMMA SettleEffect ==
  ASSUME Typed, NEW g \in gens, NEW outcome \in {"keys", "moved", "refused", "error"},
         Settle(g, outcome)
  PROVE  /\ gens' = gens \ {g} /\ UNCHANGED <<from, to>>
         /\ \/ UNCHANGED <<pc, state, day, attempt>> /\ ~Awaited(g)
            \/ Awaited(g) /\ pc' = "idle" /\ state' \in {"failed", "cancelled"} /\ day' = day
            \/ Awaited(g) /\ pc' = "sleep" /\ state' = state /\ day' = day
            \/ Awaited(g) /\ pc' = "loop" /\ state' = state /\ day' = day + 1 /\ outcome = "keys"
<1>1. CASE ~Awaited(g)
  BY <1>1 DEF Settle, loopVars
<1>2. CASE Awaited(g) /\ outcome = "keys"
  BY <1>2 DEF Settle, DayDone
<1>3. CASE Awaited(g) /\ outcome # "keys"
  BY <1>3, FailsEffect DEF Settle, Awaited, OnDay
<1> QED
  BY <1>1, <1>2, <1>3

------------------------------------------------------------------------------
(* The attempts.                                                            *)

\* A generation is of this job or an earlier one; of this job's, at most the one that is
\* awaited or was given up last is of the day the job is at.
Placed(g) ==
  /\ g.job <= job
  /\ pc \in {"preflight", "ready"} => g.job < job
  /\ g.job = job /\ pc \in InLoop => g.day <= day
  /\ g.job = job /\ pc \in {"loop", "sleep", "classify"} => g.day < day
  /\ g.job = job /\ g.day = day /\ pc = "attempt" => g.attempt = attempt

AttemptInv == AttemptsDoNotOverlap /\ \A g \in gens : Placed(g)

LEMMA InitAttempts == Init => AttemptInv
BY DEF Init, AttemptInv, AttemptsDoNotOverlap

LEMMA NextAttempts == Typed /\ AttemptInv /\ [Next]_vars => AttemptInv'
<1> SUFFICES ASSUME Typed, AttemptInv, [Next]_vars PROVE AttemptInv'
  OBVIOUS
<1>t. /\ job \in Nat /\ day \in Nat
      /\ \A g \in gens : g.job \in Nat /\ g.day \in Nat /\ g.attempt \in Nat
  BY DEF Typed, TypeOK, JobInv, Gens, Days
<1>1. CASE Start
  <2>1. gens' = gens /\ job' = job + 1 /\ pc' = "preflight"
    BY <1>1 DEF Start
  <2> QED
    BY <1>t, <2>1 DEF AttemptInv, AttemptsDoNotOverlap, Placed, InLoop, OnDay
<1>2. CASE Preflight \/ CheckLookback \/ NextDay
  <2>1. gens' = gens /\ job' = job
    BY <1>2 DEF Preflight, CheckLookback, NextDay
  <2> QED
    BY <1>t, <1>2, <2>1, AheadEffect DEF AttemptInv, AttemptsDoNotOverlap, Placed, InLoop, OnDay
<1>3. CASE SleepEnds \/ DayTimeout \/ Cancel
  <2>1. UNCHANGED <<gens, job, day, attempt>>
    BY <1>3 DEF SleepEnds, DayTimeout, Cancel, loopVars
  <2>2. \/ pc = "sleep" /\ pc' = "classify"
        \/ pc = "attempt" /\ pc' = "grace"
        \/ pc' = pc
    BY <1>3 DEF SleepEnds, DayTimeout, DayTimer, Cancel, loopVars
  <2> QED
    BY <1>t, <2>1, <2>2 DEF AttemptInv, AttemptsDoNotOverlap, Placed, InLoop, OnDay
<1>4. CASE Classify
  <2>1. CASE gens' = gens /\ DayDone
    BY <1>t, <1>4, <2>1 DEF Classify, DayDone, AttemptInv, AttemptsDoNotOverlap, Placed, InLoop, OnDay
  <2>2. ASSUME NEW h, h.job = job, h.day = day, h.attempt = attempt,
               gens' = gens \cup {h}, pc' = "attempt", UNCHANGED <<day, attempt>>
        PROVE  AttemptInv'
    BY <1>t, <1>4, <2>2 DEF Classify, AttemptInv, AttemptsDoNotOverlap, Placed, InLoop, OnDay
  <2>3. CASE /\ gens' = gens \cup {[job |-> job, day |-> day, attempt |-> attempt,
                     force |-> Forced(keys[day]), phase |-> "load", degraded |-> FALSE]}
             /\ pc' = "attempt" /\ UNCHANGED <<day, attempt>>
    BY <2>2, <2>3
  <2> QED
    BY <1>4, <2>1, <2>3 DEF Classify
<1>5. CASE ClassifyFails \/ GraceLands \/ GraceEnds
  <2>1. gens' = gens /\ job' = job
    BY <1>5 DEF ClassifyFails, GraceLands, GraceEnds
  <2> QED
    BY <1>t, <1>5, <2>1, BehindEffect DEF AttemptInv, AttemptsDoNotOverlap, Placed, InLoop, OnDay
<1>6. ASSUME NEW g \in gens, Decide(g) \/ Save(g) \/ GenerationFails(g)
      PROVE  AttemptInv'
  <2>1. job' = job
    BY <1>6 DEF Decide, Save, GenerationFails
  <2>2. ASSUME NEW outcome \in {"keys", "moved", "refused", "error"}, Settle(g, outcome)
        PROVE  AttemptInv'
    <3>1. CASE UNCHANGED <<pc, day, attempt>> /\ gens' = gens \ {g}
      BY <1>t, <2>1, <3>1 DEF AttemptInv, AttemptsDoNotOverlap, Placed, InLoop, OnDay
    <3>2. CASE /\ Awaited(g) /\ gens' = gens \ {g}
               /\ \/ pc' = "idle" /\ day' = day
                  \/ pc' = "sleep" /\ day' = day
                  \/ pc' = "loop" /\ day' = day + 1
      BY <1>t, <2>1, <3>2 DEF Awaited, AttemptInv, AttemptsDoNotOverlap, Placed, InLoop, OnDay
    <3> QED
      BY <2>2, <3>1, <3>2, SettleEffect
  <2>3. ASSUME NEW h \in Gens, Continues(g, h), UNCHANGED loopVars
        PROVE  AttemptInv'
    BY <1>t, <2>1, <2>3 DEF loopVars, Continues, AttemptInv, AttemptsDoNotOverlap, Placed, InLoop, OnDay
  <2> QED
    <3>1. CASE \E outcome \in {"keys", "moved", "refused", "error"} : Settle(g, outcome)
      BY <2>2, <3>1, Zenon
    <3>2. CASE /\ UNCHANGED loopVars
               /\ \E h \in Gens : Continues(g, h)
      BY <2>3, <3>2, Zenon
    <3> QED
      BY <1>6, <3>1, <3>2, CallEffect, Zenon
<1>7. CASE \E d \in Days : RunGenerates(d) \/ Reingest(d)
  BY <1>7 DEF RunGenerates, Reingest, loopVars, AttemptInv, AttemptsDoNotOverlap, Placed
<1>8. CASE Restart
  BY <1>8 DEF Restart, AttemptInv, AttemptsDoNotOverlap
<1>9. CASE UNCHANGED vars
  BY <1>9 DEF vars, loopVars, AttemptInv, AttemptsDoNotOverlap, Placed
<1> QED
  BY <1>1, <1>2, <1>3, <1>4, <1>5, <1>6, <1>7, <1>8, <1>9 DEF Next, JobStep

------------------------------------------------------------------------------
(* The corpus.                                                              *)

Full(P) == \A p \in P : keys[p] # "none"
\* What a finished day of the window is.
Built(d) == keys[d] # "none" /\ (keys[d] = "full" \/ d \in pinned)

\* Once the job is in its loop, the days before its window have KEYS, and the days of
\* the window it has left behind are built; it stays so when the job is done.
WindowInv ==
  pc \in InLoop \/ state = "done" =>
    /\ Full(Priors(from))
    /\ \A d \in from .. day - 1 : Built(d)

\* A generation, awaited or abandoned, has its whole lookback.
GenInv == \A g \in gens : ~g.degraded /\ Full(Priors(g.day))

\* The one that is awaited was told to replace what is degraded.
ForceInv == \A g \in gens : Awaited(g) /\ ~g.force => keys[g.day] # "degraded"

CorpusInv == WindowInv /\ GenInv /\ ForceInv

IInv == Typed /\ AttemptInv /\ CorpusInv

LEMMA InitCorpus == Init => CorpusInv
BY DEF Init, CorpusInv, WindowInv, GenInv, ForceInv, InLoop, OnDay

\* The lookback of the day the job is at lies in the lookback of its window and the
\* days of the window before it.
LEMMA LookbackOfWindow ==
  ASSUME Typed, WindowInv, pc \in InLoop \/ state = "done", NEW d \in from .. day, d \in Days
  PROVE  Full(Priors(d))
BY DEF Typed, TypeOK, Days, WindowInv, Full, Built, Priors

\* A day that has KEYS keeps some: nothing deletes them.
LEMMA KeysStay ==
  ASSUME Typed, [Next]_vars
  PROVE  \A d \in Days : keys[d] # "none" => keys'[d] # "none"
<1>1. ASSUME NEW d \in Days, NEW k \in {"degraded", "full"}, keys' = [keys EXCEPT ![d] = k]
      PROVE  \A e \in Days : keys[e] # "none" => keys'[e] # "none"
  BY <1>1 DEF Typed, TypeOK
<1>2. ASSUME NEW g \in gens, Save(g)
      PROVE  \A e \in Days : keys[e] # "none" => keys'[e] # "none"
  <2>1. g.day \in Days
    BY DEF Typed, TypeOK, Gens
  <2> QED
    BY <1>1, <1>2, <2>1 DEF Save
<1>3. ASSUME NEW d \in Days, RunGenerates(d)
      PROVE  \A e \in Days : keys[e] # "none" => keys'[e] # "none"
  BY <1>1, <1>3 DEF RunGenerates
<1>4. CASE keys' = keys
  BY <1>4
<1>5. ASSUME NEW g \in gens, Decide(g) \/ GenerationFails(g)
      PROVE  keys' = keys
  BY <1>5 DEF Decide, GenerationFails, corpusVars
<1>6. ASSUME NEW d \in Days, Reingest(d)
      PROVE  keys' = keys
  BY <1>6 DEF Reingest
<1>7. CASE Start \/ JobStep \/ Cancel \/ Restart \/ UNCHANGED vars
  BY <1>7 DEF Start, JobStep, Preflight, CheckLookback, NextDay, SleepEnds, Classify, ClassifyFails,
              DayTimeout, GraceLands, GraceEnds, Cancel, Restart, corpusVars, vars
<1> QED
  BY <1>2, <1>3, <1>4, <1>5, <1>6, <1>7 DEF Next

\* The window keeps what it has when its days stay built and the new one, if any, is.
LEMMA WindowStep ==
  ASSUME Typed, WindowInv, [Next]_vars, pc \in InLoop \/ state = "done", from' = from,
         day' \in {day, day + 1}, \A d \in from .. day' - 1 : Built(d)'
  PROVE  WindowInv'
<1>1. Full(Priors(from))'
  BY KeysStay DEF WindowInv, Full, Priors
<1> QED
  BY <1>1 DEF WindowInv

\* The same when the corpus does not change.
LEMMA WindowMoves ==
  ASSUME Typed, WindowInv, [Next]_vars, pc \in InLoop \/ state = "done", from' = from,
         UNCHANGED <<keys, pinned>>,
         day' = day \/ (day' = day + 1 /\ Built(day))
  PROVE  WindowInv'
<1>1. ASSUME NEW d \in from .. day' - 1 PROVE Built(d)'
  <2>1. d \in from .. day - 1 \/ (d = day /\ Built(day))
    BY DEF Typed, TypeOK, Days
  <2>2. Built(d)
    BY <2>1 DEF WindowInv
  <2> QED
    BY <2>2 DEF Built
<1> QED
  BY <1>1, WindowStep

\* What a call that settles as "keys" without saving any found.
LEMMA KeysFound ==
  ASSUME Typed, CorpusInv, NEW g \in gens, Decide(g), Awaited(g), pc' = "loop"
  PROVE  Built(day)
<1>1. g.day = day /\ ~(pc' = pc)
  BY DEF Awaited
<1>2. ~UNCHANGED loopVars
  BY <1>1 DEF loopVars
<1>3. ASSUME NEW o \in {"moved", "refused"}, Settle(g, o) PROVE FALSE
  BY <1>3, SettleEffect
<1>4. \/ g.day \in pinned /\ keys[g.day] # "none"
      \/ ~g.force /\ Verified(keys[g.day])
  BY <1>2, <1>3 DEF Decide
<1>5. CASE g.day \in pinned /\ keys[g.day] # "none"
  BY <1>1, <1>5 DEF Built
<1>6. CASE ~g.force /\ Verified(keys[g.day])
  <2>1. keys[g.day] # "degraded"
    BY <1>6, Zenon DEF CorpusInv, ForceInv
  <2> QED
    BY <1>1, <1>6, <2>1 DEF Verified, Built
<1> QED
  BY <1>4, <1>5, <1>6

\* Saving finalizes the day, which has its whole lookback.
LEMMA SaveFinalizes ==
  ASSUME Typed, CorpusInv, NEW g \in gens, Save(g)
  PROVE  /\ keys' = [keys EXCEPT ![g.day] = "full"] /\ pinned' = pinned \ {g.day}
         /\ g.day \in Days
         /\ \A d \in Days : Built(d) \/ d = g.day => Built(d)'
<1>1. ~g.degraded
  BY Zenon DEF CorpusInv, GenInv
<1>2. keys' = [keys EXCEPT ![g.day] = "full"] /\ pinned' = pinned \ {g.day}
  BY <1>1 DEF Save
<1>3. g.day \in Days
  BY DEF Typed, TypeOK, Gens
<1> QED
  BY <1>2, <1>3 DEF Typed, TypeOK, Built

LEMMA NextWindow ==
  ASSUME Typed, AttemptInv, CorpusInv, [Next]_vars
  PROVE  WindowInv'
<1>w. WindowInv
  BY DEF CorpusInv
<1>r. pc # "idle" => state # "done"
  BY DEF Typed, JobInv
<1>1. CASE Start
  BY <1>1 DEF Start, WindowInv, InLoop, OnDay
<1>2. CASE Preflight \/ CheckLookback \/ NextDay
  <2>1. UNCHANGED <<keys, pinned>>
    BY <1>2 DEF Preflight, CheckLookback, NextDay, corpusVars
  <2>2. CASE pc \in InLoop
    BY <1>2, <1>w, <2>1, <2>2, AheadEffect, WindowMoves
  <2>3. CASE pc' \notin InLoop /\ state' # "done"
    BY <2>3 DEF WindowInv
  <2>4. CASE pc = "ready" /\ UNCHANGED <<from, day>> /\ LookbackReady(day)
    <3>1. from = day /\ day \in Nat
      BY <2>4 DEF Typed, TypeOK, JobInv, Days
    <3> QED
      BY <2>1, <2>4, <3>1 DEF LookbackReady, WindowInv, Full
  <2> QED
    BY <1>2, <1>r, <2>2, <2>3, <2>4, AheadEffect DEF InLoop, OnDay
<1>3. CASE SleepEnds \/ DayTimeout \/ Cancel
  <2>1. UNCHANGED <<keys, pinned, from, day, state>>
    BY <1>3 DEF SleepEnds, DayTimeout, Cancel, corpusVars, loopVars
  <2>2. pc \in InLoop \/ (pc' \notin InLoop /\ state' # "done")
    BY <1>3 DEF SleepEnds, DayTimeout, DayTimer, Cancel, loopVars, InLoop, OnDay
  <2> QED
    BY <1>w, <2>1, <2>2, WindowMoves DEF WindowInv
<1>4. CASE Classify
  <2>1. UNCHANGED <<keys, pinned, from>> /\ pc \in InLoop
    BY <1>4 DEF Classify, DayDone, corpusVars, InLoop, OnDay
  <2>2. day' = day \/ (day' = day + 1 /\ Built(day))
    BY <1>4 DEF Classify, DayDone, Built
  <2> QED
    BY <1>w, <2>1, <2>2, WindowMoves
<1>5. CASE ClassifyFails \/ GraceLands \/ GraceEnds
  <2>1. UNCHANGED <<keys, pinned>>
    BY <1>5 DEF ClassifyFails, GraceLands, GraceEnds, corpusVars
  <2>2. /\ pc \in InLoop /\ from' = from
        /\ day' = day \/ (day' = day + 1 /\ Built(day))
    BY <1>5, BehindEffect DEF InLoop, OnDay, Built
  <2> QED
    BY <1>w, <2>1, <2>2, WindowMoves
<1>6. ASSUME NEW g \in gens, Decide(g) \/ GenerationFails(g)
      PROVE  WindowInv'
  <2>1. UNCHANGED <<keys, pinned>>
    BY <1>6 DEF Decide, GenerationFails, corpusVars
  <2>2. CASE pc' = pc /\ UNCHANGED <<from, day, state>>
    BY <1>w, <2>1, <2>2, WindowMoves DEF WindowInv
  <2>3. CASE pc' # pc \/ ~UNCHANGED <<from, day, state>>
    <3>1. ~UNCHANGED loopVars
      BY <2>3 DEF loopVars
    <3>2. PICK outcome \in {"keys", "moved", "refused", "error"} : Settle(g, outcome)
      BY <1>6, <3>1, CallEffect, Zenon
    <3>3. /\ from' = from /\ Awaited(g)
          /\ day' = day \/ (day' = day + 1 /\ pc' = "loop" /\ outcome = "keys")
      BY <2>3, <3>2, SettleEffect
    <3>4. day' = day \/ (day' = day + 1 /\ Built(day))
      <4>1. CASE Decide(g)
        BY <3>3, <4>1, KeysFound
      <4>2. CASE GenerationFails(g)
        <5>1. day' = day
          BY <4>2, SettleEffect, <2>3 DEF GenerationFails
        <5> QED
          BY <5>1
      <4> QED
        BY <1>6, <4>1, <4>2
    <3> QED
      BY <1>w, <2>1, <3>3, <3>4, WindowMoves DEF Awaited, InLoop, OnDay
  <2> QED
    BY <2>2, <2>3
<1>7. ASSUME NEW g \in gens, Save(g)
      PROVE  WindowInv'
  <2>1. /\ from' = from
        /\ \/ UNCHANGED <<pc, state, day>>
           \/ Awaited(g) /\ pc' = "loop" /\ day' = day + 1
    BY <1>7, SettleEffect DEF Save, Settle, DayDone
  <2>2. CASE pc \in InLoop \/ state = "done"
    <3>1. ASSUME NEW d \in from .. day' - 1 PROVE Built(d)'
      <4>1. d \in from .. day - 1 \/ d = g.day
        BY <2>1 DEF Awaited, Typed, TypeOK, Days
      <4>2. d \in Days
        BY <2>1, SaveFinalizes, <1>7 DEF Awaited, Typed, TypeOK, JobInv, InLoop, OnDay, Days
      <4> QED
        BY <1>w, <1>7, <2>2, <4>1, <4>2, SaveFinalizes DEF WindowInv
    <3> QED
      BY <1>w, <2>1, <2>2, <3>1, WindowStep
  <2>3. CASE pc \notin InLoop /\ state # "done"
    BY <2>1, <2>3 DEF WindowInv, Awaited, InLoop, OnDay
  <2> QED
    BY <2>2, <2>3
<1>8. ASSUME NEW d \in Days, RunGenerates(d)
      PROVE  WindowInv'
  <2>1. UNCHANGED <<pc, state, from, day>> /\ pc = "idle"
    BY <1>8 DEF RunGenerates, loopVars, Typed, JobInv
  <2>2. CASE state = "done"
    <3>1. ASSUME NEW e \in from .. day - 1 PROVE Built(e)'
      <4>1. e \in Days /\ Built(e) /\ Full(Priors(e))
        BY <1>w, <2>2, LookbackOfWindow DEF WindowInv, Typed, TypeOK, JobInv, Days
      <4>2. CASE e = d
        <5>1. keys' = [keys EXCEPT ![d] = "full"]
          BY <1>8, <4>1, <4>2 DEF RunGenerates, Full
        <5> QED
          BY <4>1, <4>2, <5>1 DEF Typed, TypeOK, Built
      <4>3. CASE e # d
        <5>1. keys'[e] = keys[e] /\ (e \in pinned => e \in pinned')
          BY <1>8, <4>1, <4>3 DEF RunGenerates, Typed, TypeOK
        <5> QED
          BY <4>1, <5>1 DEF Built
      <4> QED
        BY <4>2, <4>3
    <3> QED
      BY <1>w, <2>1, <2>2, <3>1, WindowStep
  <2>3. CASE state # "done"
    BY <2>1, <2>3 DEF WindowInv, InLoop, OnDay
  <2> QED
    BY <2>2, <2>3
<1>9. ASSUME UNCHANGED <<keys, pinned, from, day, state, pc>>
      PROVE  WindowInv'
  BY <1>w, <1>9, WindowMoves DEF WindowInv
<1>10. CASE \E d \in Days : Reingest(d)
  BY <1>9, <1>10 DEF Reingest, loopVars
<1>11. CASE Restart
  BY <1>11 DEF Restart, WindowInv, InLoop, OnDay
<1>12. CASE UNCHANGED vars
  BY <1>9, <1>12 DEF vars, corpusVars, loopVars
<1> QED
  BY <1>1, <1>2, <1>3, <1>4, <1>5, <1>6, <1>7, <1>8, <1>10, <1>11, <1>12 DEF Next, JobStep

LEMMA NextGens ==
  ASSUME Typed, AttemptInv, CorpusInv, [Next]_vars
  PROVE  GenInv'
<1>f. \A d \in Days : Full(Priors(d)) => Full(Priors(d))'
  BY KeysStay DEF Full, Priors
<1>g. \A g \in gens : g.day \in Days /\ ~g.degraded /\ Full(Priors(g.day))
  <2>1. \A g \in gens : g.day \in Days
    BY DEF Typed, TypeOK, Gens
  <2> QED
    BY <2>1, Zenon DEF CorpusInv, GenInv
<1>1. ASSUME gens' \subseteq gens PROVE GenInv'
  BY <1>1, <1>f, <1>g, Zenon DEF GenInv
<1>2. CASE Classify
  <2> DEFINE h == [job |-> job, day |-> day, attempt |-> attempt,
                   force |-> Forced(keys[day]), phase |-> "load", degraded |-> FALSE]
  <2>1. day \in Days /\ Full(Priors(day)) /\ h.day = day /\ ~h.degraded
    BY <1>2, LookbackOfWindow DEF Classify, CorpusInv, Typed, TypeOK, JobInv, Days, InLoop, OnDay
  <2>2. gens' = gens \/ gens' = gens \cup {h}
    BY <1>2 DEF Classify
  <2> HIDE DEF h
  <2> QED
    BY <1>f, <1>g, <2>1, <2>2, Zenon DEF GenInv
<1>3. ASSUME NEW g \in gens, Decide(g) \/ Save(g) \/ GenerationFails(g)
      PROVE  GenInv'
  <2>1. CASE \E outcome \in {"keys", "moved", "refused", "error"} : Settle(g, outcome)
    BY <1>1, <2>1 DEF Settle
  <2>2. ASSUME NEW h \in Gens, Continues(g, h)
        PROVE  GenInv'
    <3>1. h.day = g.day /\ ~h.degraded /\ gens' = (gens \ {g}) \cup {h}
      BY <1>g, <2>2, Zenon DEF Continues, Full
    <3> QED
      BY <1>f, <1>g, <3>1, Zenon DEF GenInv
  <2> QED
    BY <1>3, <2>1, <2>2, CallEffect, Zenon
<1>4. CASE gens' \subseteq gens
  BY <1>1, <1>4
<1>5. CASE JobStep /\ ~Classify
  BY <1>1, <1>5 DEF JobStep, Preflight, CheckLookback, NextDay, SleepEnds, ClassifyFails,
                    DayTimeout, GraceLands, GraceEnds
<1>6. CASE Start \/ Cancel \/ Restart \/ UNCHANGED vars
  BY <1>1, <1>6 DEF Start, Cancel, Restart, vars
<1>7. CASE \E d \in Days : RunGenerates(d) \/ Reingest(d)
  BY <1>1, <1>7 DEF RunGenerates, Reingest
<1> QED
  BY <1>2, <1>3, <1>5, <1>6, <1>7 DEF Next

LEMMA NextForce ==
  ASSUME Typed, AttemptInv, CorpusInv, [Next]_vars
  PROVE  ForceInv'
<1>g. /\ \A g \in gens : g.day \in Days /\ Placed(g)
      /\ \A g \in gens : Awaited(g) => g.force \/ keys[g.day] # "degraded"
  <2>1. \A g \in gens : g.day \in Days /\ Placed(g)
    BY DEF Typed, TypeOK, Gens, AttemptInv
  <2> QED
    BY <2>1, Zenon DEF CorpusInv, ForceInv
\* No call begins to be awaited, and none that is awaited loses its full KEYS.
<1>1. ASSUME gens' \subseteq gens, UNCHANGED keys, \A g \in gens' : Awaited(g)' => Awaited(g)
      PROVE  ForceInv'
  BY <1>1, <1>g, Zenon DEF ForceInv
<1>2. ASSUME pc' # "attempt" PROVE ForceInv'
  BY <1>2 DEF ForceInv, Awaited
<1>3. ASSUME UNCHANGED <<pc, job, day, attempt>>
      PROVE  \A g : Awaited(g)' => Awaited(g)
  BY <1>3 DEF Awaited
<1>4. CASE Classify
  <2>1. CASE pc' = "loop"
    BY <1>2, <2>1
  <2>2. ASSUME NEW f, f = Forced(keys[day]),
               gens' = gens \cup {[job |-> job, day |-> day, attempt |-> attempt,
                            force |-> f, phase |-> "load", degraded |-> FALSE]},
               UNCHANGED <<keys, job, day, attempt>>
        PROVE  ForceInv'
    <3>1. ASSUME NEW g \in gens PROVE ~Awaited(g)'
      <4>1. g.job = job => g.day < day
        BY <1>4, <1>g DEF Classify, Placed
      <4> QED
        BY <2>2, <4>1 DEF Awaited, Typed, TypeOK, Days
    <3>2. f \/ keys[day] # "degraded"
      BY <2>2 DEF Forced, Verified
    <3> QED
      BY <2>2, <3>1, <3>2 DEF ForceInv
  <2> QED
    BY <1>4, <2>1, <2>2 DEF Classify, DayDone, corpusVars
<1>5. ASSUME NEW g \in gens, Decide(g) \/ GenerationFails(g)
      PROVE  ForceInv'
  <2>1. UNCHANGED <<keys, job>>
    BY <1>5 DEF Decide, GenerationFails, corpusVars
  <2>2. ASSUME NEW outcome \in {"keys", "moved", "refused", "error"}, Settle(g, outcome)
        PROVE  ForceInv'
    <3>1. gens' \subseteq gens /\ (pc' # "attempt" \/ UNCHANGED <<pc, day, attempt>>)
      BY <2>2, SettleEffect
    <3> QED
      BY <1>1, <1>2, <1>3, <2>1, <3>1
  <2>3. ASSUME NEW h \in Gens, Continues(g, h), UNCHANGED loopVars
        PROVE  ForceInv'
    <3>1. \A k : Awaited(k)' <=> Awaited(k)
      BY <2>1, <2>3 DEF Awaited, loopVars
    <3>2. Awaited(h) => Awaited(g) /\ h.force = g.force /\ h.day = g.day
      BY <2>3 DEF Awaited, Continues
    <3>3. gens' = (gens \ {g}) \cup {h} /\ keys' = keys /\ h.force = g.force /\ h.day = g.day
      BY <2>1, <2>3 DEF Continues
    <3> QED
      BY <1>g, <3>1, <3>2, <3>3, Zenon DEF ForceInv
  <2> QED
    BY <1>5, <2>2, <2>3, CallEffect, Zenon
<1>6. ASSUME NEW g \in gens, Save(g)
      PROVE  ForceInv'
  <2>1. /\ gens' \subseteq gens /\ job' = job
        /\ pc' # "attempt" \/ UNCHANGED <<pc, day, attempt>>
    BY <1>6, SettleEffect DEF Save
  <2>2. \A d \in Days : keys[d] # "degraded" => keys'[d] # "degraded"
    BY <1>6, SaveFinalizes DEF Typed, TypeOK
  <2> QED
    BY <1>g, <1>2, <1>3, <2>1, <2>2, Zenon DEF ForceInv
<1>7. CASE Start
  BY <1>2, <1>7 DEF Start
<1>8. CASE Preflight \/ CheckLookback \/ NextDay
  BY <1>2, <1>8, AheadEffect
<1>9. CASE SleepEnds \/ DayTimeout \/ Restart
  BY <1>2, <1>9 DEF SleepEnds, DayTimeout, Restart
<1>10. CASE ClassifyFails \/ GraceLands \/ GraceEnds
  BY <1>2, <1>10, BehindEffect
<1>11. ASSUME NEW d \in Days, RunGenerates(d)
       PROVE  ForceInv'
  BY <1>2, <1>11 DEF RunGenerates, loopVars, Typed, JobInv
<1>12. CASE Cancel \/ (\E d \in Days : Reingest(d)) \/ UNCHANGED vars
  <2>1. UNCHANGED <<keys, gens, pc, job, day, attempt>>
    BY <1>12 DEF Cancel, Reingest, vars, corpusVars, loopVars
  <2> QED
    BY <1>1, <1>3, <2>1
<1> QED
  BY <1>4, <1>5, <1>6, <1>7, <1>8, <1>9, <1>10, <1>11, <1>12 DEF Next, JobStep

------------------------------------------------------------------------------
(* What the runs check, for every value of the constants.                   *)

LEMMA Invariant == Spec => []IInv
<1>1. Init => IInv
  BY InitTyped, InitAttempts, InitCorpus DEF IInv
<1>2. IInv /\ [Next]_vars => IInv'
  BY NextTyped, NextAttempts, NextWindow, NextGens, NextForce DEF IInv, CorpusInv
<1> QED
  BY <1>1, <1>2, PTL DEF Spec

\* No generation, awaited or abandoned, ever works with a reduced lookback.
THEOREM LookbackAlwaysFull == Spec => []LookbackIsFull
<1>1. IInv => LookbackIsFull
  BY Zenon DEF IInv, CorpusInv, GenInv, LookbackIsFull
<1> QED
  BY Invariant, <1>1, PTL

\* A job that ends as done has built every day of its window.
THEOREM DoneAlwaysBuilt == Spec => []DoneIsBuilt
<1>1. IInv => DoneIsBuilt
  BY DEF IInv, Typed, TypeOK, JobInv, Days, CorpusInv, WindowInv, Built, DoneIsBuilt
<1> QED
  BY Invariant, <1>1, PTL

\* Attempts at one day never overlap within a job.
THEOREM AttemptsApart == Spec => []AttemptsDoNotOverlap
<1>1. IInv => AttemptsDoNotOverlap
  BY DEF IInv, AttemptInv
<1> QED
  BY Invariant, <1>1, PTL

==============================================================================
