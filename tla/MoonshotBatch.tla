---------------------------- MODULE MoonshotBatch ----------------------------
(***************************************************************************)
(* Client-side emulated batches for a model with no batch API (kimi-k3):   *)
(* the Firestore store (moonshot.batch-store.ts), the worker that drains   *)
(* it (moonshot.batch-worker.ts), and the submit path of the provider      *)
(* (moonshot.service.ts).                                                  *)
(*                                                                         *)
(* ONE batch is modelled: documents, guard entries and item claims are all *)
(* keyed by batchId, so two batches never touch the same state.  Several   *)
(* backend processes drain it, each drain is a sequence of awaited store   *)
(* and API calls (one action per await), and processes crash.              *)
(*                                                                         *)
(* Time is kept as ages instead of timestamps: how long ago the lease was  *)
(* granted, the guard taken, the batch created, the status written.  Each  *)
(* age stops counting one past the limit it is compared with, so the model *)
(* is finite without bounding time.  Clocks of the processes are equal.    *)
(*                                                                         *)
(* MaxFaults bounds how many crashes and store errors a behaviour has; the *)
(* number of drain slots bounds how many drains are alive at once.         *)
(***************************************************************************)
EXTENDS Naturals, FiniteSets

CONSTANTS
  Procs,        \* backend processes
  Drains,       \* slots for concurrent drainBatch invocations
  Items,        \* item documents, numbered in listing order
  GroupOf,      \* the prefix group (envelope hash) of each item
  Concurrency,  \* moonshot.batchConcurrency
  Lease,        \* LEASE_MS = ACTIVE_STALE_MS
  MaxAge,       \* moonshot.batchMaxAgeMs: expiresAt - createdAt
  Grace,        \* TOTAL_MISMATCH_GRACE_MS
  GcTtl,        \* moonshot.batchGcTtlMs
  MaxFaults,    \* bound: crashes and store errors in a behaviour
  NoProc, NoDrain

ASSUME ItemsAssumption == Items \subseteq Nat /\ IsFiniteSet(Items)
ASSUME TimeAssumption ==
  /\ Lease \in Nat /\ MaxAge \in Nat /\ Grace \in Nat /\ GcTtl \in Nat
  /\ MaxFaults \in Nat
ASSUME NullAssumption == NoProc \notin Procs /\ NoDrain \notin Drains

VARIABLES
  batchStatus,  \* status field of the batch doc; "absent" / "deleted": no doc
  batchAge,     \* time since createdAt
  endedAge,     \* time since endedAt
  itemStatus,   \* status field of each item doc; "missing" / "deleted": no doc
  leaseAge,     \* time since the lease of a running item was granted
  creator,      \* the process inside createBatch
  active,       \* per process, the drain its guard map holds for the batch
  pc,           \* where each drain stands
  owner,        \* the process a drain runs in
  guardAge,     \* time since the drain took the guard
  task,         \* per drain, what it has done with each item of its snapshot
  heldAge,      \* time since the drain claimed an item it is running
  gcPc, gcTodo, \* per process, the garbage collection pass and what is left
  faults

storeVars == <<batchStatus, batchAge, endedAge, itemStatus, leaseAge>>
drainVars == <<active, pc, owner, guardAge, task, heldAge>>
gcVars    == <<gcPc, gcTodo>>
vars == <<storeVars, creator, drainVars, gcVars, faults>>

TerminalItem  == {"succeeded", "refusal", "errored"}
TerminalBatch == {"ended", "errored"}
Unfinished    == {"pending", "running"}
NoDoc         == {"missing", "deleted"}
DrainPc       == {"idle", "getBatch", "listItems", "pool", "writeErrored", "writeEnded"}

TypeOK ==
  /\ batchStatus \in {"absent", "in_progress", "deleted"} \cup TerminalBatch
  /\ batchAge \in Nat /\ endedAge \in Nat
  /\ itemStatus \in [Items -> NoDoc \cup Unfinished \cup TerminalItem]
  /\ leaseAge \in [Items -> 0 .. Lease + 1]
  /\ creator \in Procs \cup {NoProc}
  /\ active \in [Procs -> Drains \cup {NoDrain}]
  /\ pc \in [Drains -> DrainPc]
  /\ owner \in [Drains -> Procs \cup {NoProc}]
  /\ guardAge \in [Drains -> 0 .. Lease + 1]
  /\ task \in [Drains -> [Items -> {"none", "queued", "claimed", "finished"}]]
  /\ heldAge \in [Drains -> [Items -> 0 .. Lease + 1]]
  /\ gcPc \in [Procs -> {"idle", "listed", "deleting"}]
  /\ gcTodo \in [Procs -> SUBSET Items]
  /\ faults \in 0 .. MaxFaults

Init ==
  /\ batchStatus = "absent" /\ batchAge = 0 /\ endedAge = 0
  /\ itemStatus = [i \in Items |-> "missing"]
  /\ leaseAge = [i \in Items |-> 0]
  /\ creator = NoProc
  /\ active = [p \in Procs |-> NoDrain]
  /\ pc = [d \in Drains |-> "idle"]
  /\ owner = [d \in Drains |-> NoProc]
  /\ guardAge = [d \in Drains |-> 0]
  /\ task = [d \in Drains |-> [i \in Items |-> "none"]]
  /\ heldAge = [d \in Drains |-> [i \in Items |-> 0]]
  /\ gcPc = [p \in Procs |-> "idle"]
  /\ gcTodo = [p \in Procs |-> {}]
  /\ faults = 0

------------------------------------------------------------------------------
(* Submission: submitEmulatedBatch and createBatch.                         *)

\* The batch doc lands first, alone.
Submit(p) ==
  /\ batchStatus = "absent"
  /\ batchStatus' = "in_progress"
  /\ creator' = p
  /\ UNCHANGED <<batchAge, endedAge, itemStatus, leaseAge, drainVars, gcVars, faults>>

\* Then each item doc, in order, one write at a time.
WriteItem(p, i) ==
  /\ creator = p
  /\ itemStatus[i] = "missing"
  /\ \A j \in Items : j < i => itemStatus[j] # "missing"
  /\ itemStatus' = [itemStatus EXCEPT ![i] = "pending"]
  /\ UNCHANGED <<batchStatus, batchAge, endedAge, leaseAge, creator, drainVars, gcVars, faults>>

\* An item write throws: createBatch rejects and the batch stays torn.
WriteItemThrows(p) ==
  /\ creator = p
  /\ \E i \in Items : itemStatus[i] = "missing"
  /\ faults < MaxFaults /\ faults' = faults + 1
  /\ creator' = NoProc
  /\ UNCHANGED <<storeVars, drainVars, gcVars>>

------------------------------------------------------------------------------
(* The in-process drain guard.                                              *)

\* Mutated: a guard entry never goes stale.
GuardHoldsForever(p) == active[p] # NoDrain

\* A guard entry younger than ACTIVE_STALE_MS makes a kick a no-op; an older
\* one is presumed hung.
GuardHolds(p) == active[p] # NoDrain /\ guardAge[active[p]] <= Lease

\* The synchronous part of drainBatch: take the guard, start a drain.
StartDrain(p, d) ==
  /\ ~GuardHolds(p)
  /\ pc[d] = "idle"
  /\ active' = [active EXCEPT ![p] = d]
  /\ pc' = [pc EXCEPT ![d] = "getBatch"]
  /\ owner' = [owner EXCEPT ![d] = p]
  /\ guardAge' = [guardAge EXCEPT ![d] = 0]
  /\ UNCHANGED <<task, heldAge>>

\* The drain returns or throws; finally, only the owner clears its entry.
FinishDrain(d) ==
  /\ active' = [p \in Procs |-> IF active[p] = d THEN NoDrain ELSE active[p]]
  /\ pc' = [pc EXCEPT ![d] = "idle"]
  /\ owner' = [owner EXCEPT ![d] = NoProc]
  /\ guardAge' = [guardAge EXCEPT ![d] = 0]
  /\ task' = [task EXCEPT ![d] = [i \in Items |-> "none"]]
  /\ heldAge' = [heldAge EXCEPT ![d] = [i \in Items |-> 0]]

\* createBatch returns and the submitter kicks its own worker.
FinishSubmit(p) ==
  /\ creator = p
  /\ \A i \in Items : itemStatus[i] # "missing"
  /\ creator' = NoProc
  /\ \/ GuardHolds(p) /\ UNCHANGED drainVars
     \/ \E d \in Drains : StartDrain(p, d)
  /\ UNCHANGED <<storeVars, gcVars, faults>>

\* resumeAll (boot and the 30-minute cron) and the reconciler's getBatch poll
\* kick a batch they find in_progress.
Kick(p) ==
  /\ batchStatus = "in_progress"
  /\ \E d \in Drains : StartDrain(p, d)
  /\ UNCHANGED <<storeVars, creator, gcVars, faults>>

------------------------------------------------------------------------------
(* drainBatch, one action per await.                                        *)

Expired   == batchAge > MaxAge
PastGrace == batchAge > Grace
Docs          == {i \in Items : itemStatus[i] \notin NoDoc}
UnfinishedNow == {i \in Items : itemStatus[i] \in Unfinished}

GetBatch(d) ==
  /\ pc[d] = "getBatch"
  /\ IF batchStatus = "in_progress"
     THEN /\ pc' = [pc EXCEPT ![d] = "listItems"]
          /\ UNCHANGED <<active, owner, guardAge, task, heldAge>>
     ELSE FinishDrain(d)
  /\ UNCHANGED <<storeVars, creator, gcVars, faults>>

\* D6: past the deadline with work left, decide to force-terminate; otherwise
\* queue the unfinished items.  An expired batch with nothing left falls
\* through to the completion check.
ListUnfinishedItems(d) ==
  /\ pc[d] = "listItems"
  /\ IF UnfinishedNow # {} /\ Expired
     THEN /\ pc' = [pc EXCEPT ![d] = "writeErrored"]
          /\ UNCHANGED task
     ELSE /\ pc' = [pc EXCEPT ![d] = "pool"]
          /\ task' = [task EXCEPT ![d] =
                        [i \in Items |-> IF i \in UnfinishedNow THEN "queued" ELSE "none"]]
  /\ UNCHANGED <<active, owner, guardAge, heldAge, storeVars, creator, gcVars, faults>>

\* D7: the first item alone, then the other group heads, then the siblings.
Snapshot(d) == {i \in Items : task[d][i] # "none"}
IsHead(d, i) == \A j \in Snapshot(d) : GroupOf[j] = GroupOf[i] => i <= j
Phase(d, i) ==
  IF \A j \in Snapshot(d) : i <= j THEN 0
  ELSE IF IsHead(d, i) THEN 1 ELSE 2

\* runPool: at most Concurrency items at once, and a phase starts when the
\* phases before it are done.  (Within a phase the code takes items in list
\* order; the model lets it take any.)
Startable(d, i) ==
  /\ pc[d] = "pool"
  /\ task[d][i] = "queued"
  /\ \A j \in Snapshot(d) : Phase(d, j) < Phase(d, i) => task[d][j] = "finished"
  /\ Cardinality({j \in Items : task[d][j] = "claimed"}) < Concurrency

\* Mutated: a running item is claimable whatever its lease.
ClaimableUnleased(i) == itemStatus[i] \in Unfinished

\* claimItem's transaction: pending, or running on a lapsed lease.
Claimable(i) ==
  \/ itemStatus[i] = "pending"
  \/ itemStatus[i] = "running" /\ leaseAge[i] > Lease

ClaimItem(d, i) ==
  /\ Startable(d, i)
  /\ IF Claimable(i)
     THEN /\ itemStatus' = [itemStatus EXCEPT ![i] = "running"]
          /\ leaseAge' = [leaseAge EXCEPT ![i] = 0]
          /\ task' = [task EXCEPT ![d][i] = "claimed"]
     ELSE /\ task' = [task EXCEPT ![d][i] = "finished"]
          /\ UNCHANGED <<itemStatus, leaseAge>>
  /\ UNCHANGED <<batchStatus, batchAge, endedAge, creator, active, pc, owner, guardAge,
                 heldAge, gcVars, faults>>

\* The claim throws: the item is left for a later drain.
ClaimThrows(d, i) ==
  /\ Startable(d, i)
  /\ faults < MaxFaults /\ faults' = faults + 1
  /\ task' = [task EXCEPT ![d][i] = "finished"]
  /\ UNCHANGED <<storeVars, creator, active, pc, owner, guardAge, heldAge, gcVars>>

\* How the chat call of runOne can end, and the item outcome it becomes.
\* "exhausted": MAX_ATTEMPTS transient errors; "rejected": an error that is not
\* transient; "unbuildable": the request could not be rendered.  A body without a choice
\* is a "stop" with an empty text: toItemResult asks only how an answer was cut short.
Replies == {"stop", "content_filter", "thrown_filter", "length", "exhausted",
            "rejected", "unbuildable"}
OutcomeOf(reply) ==
  IF reply = "stop" THEN "succeeded"
  ELSE IF reply \in {"content_filter", "thrown_filter"} THEN "refusal"
  ELSE "errored"

\* Mutated: a set instead of an update, which brings a deleted doc back.
PatchedByUpsert(i, outcome) == outcome

\* What updateItem leaves in the item doc: a patch of a doc that exists.
Patched(i, outcome) == IF itemStatus[i] \in NoDoc THEN itemStatus[i] ELSE outcome

\* runOne returns and persistOutcome writes, whoever holds the lease by now;
\* the update of a deleted doc fails three times and is given up.
RunAndPersist(d, i, reply) ==
  /\ task[d][i] = "claimed"
  /\ itemStatus' = [itemStatus EXCEPT ![i] = Patched(i, OutcomeOf(reply))]
  /\ leaseAge' = [leaseAge EXCEPT ![i] = 0]
  /\ task' = [task EXCEPT ![d][i] = "finished"]
  /\ heldAge' = [heldAge EXCEPT ![d][i] = 0]
  /\ UNCHANGED <<batchStatus, batchAge, endedAge, creator, active, pc, owner, guardAge,
                 gcVars, faults>>

\* All PERSIST_ATTEMPTS writes fail: the item stays running until its lease lapses.
PersistFails(d, i) ==
  /\ task[d][i] = "claimed"
  /\ faults < MaxFaults /\ faults' = faults + 1
  /\ task' = [task EXCEPT ![d][i] = "finished"]
  /\ heldAge' = [heldAge EXCEPT ![d][i] = 0]
  /\ UNCHANGED <<storeVars, creator, active, pc, owner, guardAge, gcVars>>

\* The three phases are over: list the items again and decide.
PoolDone(d) == pc[d] = "pool" /\ \A i \in Items : task[d][i] \in {"none", "finished"}
\* Mutated: the number of item docs is not compared with `total`.
VerdictWithoutTotal ==
  IF UnfinishedNow # {} THEN (IF Expired THEN "writeErrored" ELSE "idle")
  ELSE "writeEnded"
\* Mutated: the deadline is checked before completeness.
VerdictExpiryFirst ==
  IF Expired THEN "writeErrored"
  ELSE IF UnfinishedNow # {} \/ Docs # Items THEN "idle"
  ELSE "writeEnded"
Verdict ==
  IF UnfinishedNow # {} THEN (IF Expired THEN "writeErrored" ELSE "idle")
  ELSE IF Docs # Items THEN (IF PastGrace THEN "writeErrored" ELSE "idle")
  ELSE "writeEnded"

CheckCompletion(d) ==
  /\ PoolDone(d)
  /\ IF Verdict = "idle" THEN FinishDrain(d)
     ELSE /\ pc' = [pc EXCEPT ![d] = Verdict]
          /\ UNCHANGED <<active, owner, guardAge, task, heldAge>>
  /\ UNCHANGED <<storeVars, creator, gcVars, faults>>

\* setBatchStatus: an update that compares nothing; it throws if the doc is gone.
SetBatchStatus(d) ==
  /\ pc[d] \in {"writeErrored", "writeEnded"}
  /\ IF batchStatus = "deleted" THEN UNCHANGED <<batchStatus, endedAge>>
     ELSE /\ batchStatus' = IF pc[d] = "writeEnded" THEN "ended" ELSE "errored"
          /\ endedAge' = 0
  /\ FinishDrain(d)
  /\ UNCHANGED <<batchAge, itemStatus, leaseAge, creator, gcVars, faults>>

\* A store read or the status write throws: the drain rejects, kick logs it.
DrainThrows(d) ==
  /\ \/ pc[d] \in {"getBatch", "listItems", "writeErrored", "writeEnded"}
     \/ PoolDone(d)
  /\ faults < MaxFaults /\ faults' = faults + 1
  /\ FinishDrain(d)
  /\ UNCHANGED <<storeVars, creator, gcVars>>

------------------------------------------------------------------------------
(* gc() of the maintenance cron, and deleteBatch.                           *)

GcList(p) ==
  /\ gcPc[p] = "idle"
  /\ batchStatus \in TerminalBatch
  /\ endedAge > GcTtl
  /\ gcPc' = [gcPc EXCEPT ![p] = "listed"]
  /\ UNCHANGED <<storeVars, creator, drainVars, gcTodo, faults>>

GcListItems(p) ==
  /\ gcPc[p] = "listed"
  /\ gcPc' = [gcPc EXCEPT ![p] = "deleting"]
  /\ gcTodo' = [gcTodo EXCEPT ![p] = Docs]
  /\ UNCHANGED <<storeVars, creator, drainVars, faults>>

GcDeleteItem(p, i) ==
  /\ gcPc[p] = "deleting" /\ i \in gcTodo[p]
  /\ gcTodo' = [gcTodo EXCEPT ![p] = @ \ {i}]
  /\ itemStatus' = [itemStatus EXCEPT ![i] = "deleted"]
  /\ leaseAge' = [leaseAge EXCEPT ![i] = 0]
  /\ UNCHANGED <<batchStatus, batchAge, endedAge, creator, drainVars, gcPc, faults>>

GcDeleteBatch(p) ==
  /\ gcPc[p] = "deleting" /\ gcTodo[p] = {}
  /\ gcPc' = [gcPc EXCEPT ![p] = "idle"]
  /\ batchStatus' = "deleted"
  /\ UNCHANGED <<batchAge, endedAge, itemStatus, leaseAge, creator, drainVars, gcTodo, faults>>

\* A delete throws: this batch is left for the next pass.
GcThrows(p) ==
  /\ gcPc[p] # "idle"
  /\ faults < MaxFaults /\ faults' = faults + 1
  /\ gcPc' = [gcPc EXCEPT ![p] = "idle"]
  /\ gcTodo' = [gcTodo EXCEPT ![p] = {}]
  /\ UNCHANGED <<storeVars, creator, drainVars>>

------------------------------------------------------------------------------
(* Processes and time.                                                      *)

\* A process dies and is replaced: everything it kept in memory is lost.
Crash(p) ==
  LET mine == {d \in Drains : owner[d] = p} IN
  /\ faults < MaxFaults /\ faults' = faults + 1
  /\ creator' = IF creator = p THEN NoProc ELSE creator
  /\ active' = [active EXCEPT ![p] = NoDrain]
  /\ pc' = [d \in Drains |-> IF d \in mine THEN "idle" ELSE pc[d]]
  /\ owner' = [d \in Drains |-> IF d \in mine THEN NoProc ELSE owner[d]]
  /\ guardAge' = [d \in Drains |-> IF d \in mine THEN 0 ELSE guardAge[d]]
  /\ task' = [d \in Drains |-> IF d \in mine THEN [i \in Items |-> "none"] ELSE task[d]]
  /\ heldAge' = [d \in Drains |-> IF d \in mine THEN [i \in Items |-> 0] ELSE heldAge[d]]
  /\ gcPc' = [gcPc EXCEPT ![p] = "idle"]
  /\ gcTodo' = [gcTodo EXCEPT ![p] = {}]
  /\ UNCHANGED storeVars

Older(age, limit) == IF age > limit THEN age ELSE age + 1

Tick ==
  /\ batchAge' = IF batchStatus = "absent" THEN 0
                 ELSE Older(batchAge, IF MaxAge > Grace THEN MaxAge ELSE Grace)
  /\ endedAge' = IF batchStatus \in TerminalBatch THEN Older(endedAge, GcTtl) ELSE 0
  /\ leaseAge' = [i \in Items |->
       IF itemStatus[i] = "running" THEN Older(leaseAge[i], Lease) ELSE leaseAge[i]]
  /\ guardAge' = [d \in Drains |->
       IF pc[d] # "idle" THEN Older(guardAge[d], Lease) ELSE guardAge[d]]
  /\ heldAge' = [d \in Drains |-> [i \in Items |->
       IF task[d][i] = "claimed" THEN Older(heldAge[d][i], Lease) ELSE heldAge[d][i]]]
  /\ UNCHANGED <<batchStatus, itemStatus, creator, active, pc, owner, task, gcVars, faults>>

------------------------------------------------------------------------------

DrainStep(d) ==
  \/ GetBatch(d)
  \/ ListUnfinishedItems(d)
  \/ CheckCompletion(d)
  \/ SetBatchStatus(d)
  \/ \E i \in Items : ClaimItem(d, i)

Next ==
  \/ Tick
  \/ \E p \in Procs :
       \/ Submit(p)
       \/ WriteItemThrows(p)
       \/ FinishSubmit(p)
       \/ Kick(p)
       \/ GcList(p)
       \/ GcListItems(p)
       \/ GcDeleteBatch(p)
       \/ GcThrows(p)
       \/ Crash(p)
       \/ \E i \in Items : WriteItem(p, i) \/ GcDeleteItem(p, i)
  \/ \E d \in Drains :
       \/ DrainStep(d)
       \/ DrainThrows(d)
       \/ \E i \in Items :
            \/ ClaimThrows(d, i)
            \/ PersistFails(d, i)
            \/ \E reply \in Replies : RunAndPersist(d, i, reply)

Spec == Init /\ [][Next]_vars

\* Time passes, the cron and the reconciler's poll keep kicking, and a drain
\* takes its next store step.  Nothing is assumed of the chat API: a call may
\* never return.
Fairness ==
  /\ WF_vars(Tick)
  /\ \A p \in Procs : WF_vars(Kick(p))
  /\ \A d \in Drains : WF_vars(DrainStep(d))

FairSpec == Spec /\ Fairness

------------------------------------------------------------------------------
(* What the worker's caller relies on.                                      *)

\* A batch reported 'ended' hands the reconciler a complete result set: every
\* item it was submitted with has a terminal result, whatever torn creation,
\* lost claim, crash or second drainer came before (drainBatch's completion
\* check); only garbage collection takes results away.
Settled(i) == itemStatus[i] \in TerminalItem \cup {"deleted"}
EndedIsComplete == batchStatus = "ended" => \A i \in Items : Settled(i)

\* No two drains run the same item under leases that have not lapsed, in any
\* mix of kicks, crashes and takeovers (D5): a second chat call is paid for only
\* after the first claim has outlived LEASE_MS.
LeaseIsExclusive ==
  \A d1, d2 \in Drains, i \in Items :
    /\ task[d1][i] = "claimed" /\ heldAge[d1][i] <= Lease
    /\ task[d2][i] = "claimed" /\ heldAge[d2][i] <= Lease
    => d1 = d2

\* The emulation keeps the promises of a batch provider: what the reconciler
\* sees through getBatch and getBatchResults.
Svc == INSTANCE BatchService WITH
  Results <- TerminalItem,
  status <- IF batchStatus = "absent" THEN "none"
            ELSE IF batchStatus = "deleted" THEN "gone" ELSE batchStatus,
  result <- [i \in Items |->
               IF itemStatus[i] = "deleted" THEN "forgotten"
               ELSE IF itemStatus[i] \in TerminalItem THEN itemStatus[i] ELSE "none"]
ImplementsBatchService == Svc!Spec

\* No batch stays in_progress forever, though a chat call may never return and
\* a drain may hang in it: the guard goes stale, leases lapse, the deadline
\* passes, and some kick finds it (D5, D6, ACTIVE_STALE_MS).
BatchResolves == batchStatus = "in_progress" ~> batchStatus # "in_progress"

\* A batch whose items are all terminal, and that no drain has already decided
\* to fail, is reported 'ended': the two drainers that each saw the other's last
\* item running do not strand it, and an expired batch that is complete does
\* not lose its paid-for results.
DrainedBatchEnds ==
  /\ batchStatus = "in_progress"
  /\ \A i \in Items : itemStatus[i] \in TerminalItem
  /\ \A d \in Drains : pc[d] # "writeErrored"
  ~> batchStatus = "ended"

\* What drainBatch's comment says of an expired batch: drained, it deserves
\* 'ended', not 'errored'.
DrainedIsNeverErrored ==
  [][ batchStatus' = "errored" /\ batchStatus # "errored"
      => \E i \in Items : itemStatus[i] \notin TerminalItem ]_vars

\* What the lease comment says of the racing terminal writes of one item: both
\* results are valid, so no corruption - a paid-for success is not turned into
\* a failure.
SuccessSurvives ==
  [][ \A i \in Items : itemStatus[i] = "succeeded" => itemStatus'[i] # "errored" ]_vars
=============================================================================
