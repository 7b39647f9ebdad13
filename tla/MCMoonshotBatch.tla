--------------------------- MODULE MCMoonshotBatch ---------------------------
(***************************************************************************)
(* Instances of MoonshotBatch for TLC.  The first two items share a prefix *)
(* group, so every phase of the pool is reached.                           *)
(***************************************************************************)
EXTENDS MoonshotBatch, TLC

MCGroupOf == [i \in Items |-> IF i <= 2 THEN "g1" ELSE "g2"]

\* Sound for the safety runs: no operator tells processes or drain slots apart.
Symmetry == Permutations(Procs) \cup Permutations(Drains)
=============================================================================
