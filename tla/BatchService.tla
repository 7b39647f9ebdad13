---------------------------- MODULE BatchService ----------------------------
(***************************************************************************)
(* What an LlmProvider's batch methods promise their caller about ONE      *)
(* batch: submitBatch accepts it, results are recorded per item, the batch *)
(* is reported 'ended' only once every item has a result, and what has     *)
(* been forgotten never comes back.                                        *)
(*                                                                         *)
(* Two things the service does NOT promise are visible in the actions: a   *)
(* recorded result may still be replaced by another one, and a terminal    *)
(* status may still flip between 'ended' and 'errored'.                    *)
(***************************************************************************)
CONSTANTS
  Items,      \* the customIds of the batch
  Results     \* what an item can end as

VARIABLES
  status,     \* what getBatch reports, "none" before the batch is accepted
  result      \* the result recorded for each item, "none" before there is one

svcVars == <<status, result>>

Terminal == {"ended", "errored"}

Init ==
  /\ status = "none"
  /\ result = [i \in Items |-> "none"]

Accept ==
  /\ status = "none"
  /\ status' = "in_progress"
  /\ UNCHANGED result

\* An item's result is recorded, or replaced by the one of a second run.
Record(i, r) ==
  /\ status # "none"
  /\ result[i] # "forgotten"
  /\ result' = [result EXCEPT ![i] = r]
  /\ UNCHANGED status

\* 'ended' promises a complete result set.
End ==
  /\ status \in {"in_progress", "errored"}
  /\ \A i \in Items : result[i] # "none"
  /\ status' = "ended"
  /\ UNCHANGED result

Fail ==
  /\ status \in {"in_progress", "ended"}
  /\ status' = "errored"
  /\ UNCHANGED result

\* Retention: results go one by one, and only once the batch is terminal.  (Two
\* passes may overlap: one may still be deleting when the other has finished.)
Forget(i) ==
  /\ status \in Terminal \cup {"gone"}
  /\ result' = [result EXCEPT ![i] = "forgotten"]
  /\ UNCHANGED status

Drop ==
  /\ status \in Terminal \cup {"gone"}
  /\ status' = "gone"
  /\ UNCHANGED result

Next ==
  \/ Accept
  \/ End
  \/ Fail
  \/ Drop
  \/ \E i \in Items : Forget(i)
  \/ \E i \in Items, r \in Results : Record(i, r)

Spec == Init /\ [][Next]_svcVars
=============================================================================
