------------------------- MODULE MCBenchmarkPipeline -------------------------
(***************************************************************************)
(* Instances of BenchmarkPipeline for TLC.  The series "base" and          *)
(* "scorecard" are of the first day, "later" is of the second.             *)
(***************************************************************************)
EXTENDS BenchmarkPipeline, MCScoreboard, TLC

CONSTANTS c1, c2, c3

MCSeriesOf == [c \in Cells |-> IF c = c1 THEN "base" ELSE IF c = c2 THEN "scorecard" ELSE "later"]
MCDayOf == [s \in Series |-> IF s = "later" THEN 2 ELSE 1]

MCScorecard == Series \cap {"scorecard"}

\* Callers ask for everything: what a run submits is less, for it skips days, drops the
\* scorecard cells and finds others persisted or queued.
MCRequests == {Cells}

\* Every pass in one worker, or each in its own.
MCOneWorker == [x \in Passes |-> "worker"]
MCOwnWorker == [x \in Passes |-> x]

\* Sound for the safety run: no operator tells runs or passes apart.
Symmetry == Permutations(Runs) \cup Permutations(Passes)
=============================================================================
