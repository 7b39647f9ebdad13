---------------------------- MODULE MCKeysLineage ----------------------------
(* KeysLineage with interchangeable call slots.                             *)
EXTENDS KeysLineage, TLC

CONSTANTS c1, c2, c3

CallSymmetry == Permutations(Calls)

==============================================================================
