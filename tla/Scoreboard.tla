------------------------------ MODULE Scoreboard ------------------------------
(***************************************************************************)
(* What ScoreboardService computes from the cells it has read: the groups, *)
(* their totals and ranking, the feature comparisons (scoreboard.ts), and  *)
(* the lineage of the traders (lineage.ts).                                *)
(*                                                                         *)
(* A cell is [trader, model, variant, day, run, status, points, dollars].  *)
(* Names are numbers in alphabetical order, days in calendar order; a      *)
(* missing amount is 0, as the code reads it.  A mean is a fraction        *)
(* <<sum, count>>.  Deviations, extremes and the setups' spread are left   *)
(* out.                                                                    *)
(***************************************************************************)
EXTENDS Integers, Sequences, FiniteSets

LOCAL INSTANCE FiniteSetsExt
LOCAL INSTANCE SequencesExt

CONSTANT Base          \* the variant without a feature

Filled(cells) == {c \in cells : c.status \in {"TP", "SL", "EOD", "BE"}}
Scored(cells) == Filled(cells) \cup {c \in cells : c.status = "NOT_FILLED"}
Wins(cells) == {c \in Filled(cells) : c.points > 0}
Losses(cells) == {c \in Filled(cells) : c.points < 0}
Dollars(cells) == MapThenSumSet(LAMBDA c : c.dollars, Filled(cells))
Points(cells) == MapThenSumSet(LAMBDA c : c.points, Filled(cells))

DaysOf(cells) == {c.day : c \in cells}
RunsOf(cells) == {c.run : c \in cells}
RunCells(cells, run) == {c \in cells : c.run = run}
OnDays(cells, days) == {c \in cells : c.day \in days}

Less(q, r) == q[1] * r[2] < r[1] * q[2]
Minus(q, r) == <<q[1] * r[2] - r[1] * q[2], q[2] * r[2]>>
Plus(q, r) == <<q[1] * r[2] + r[1] * q[2], q[2] * r[2]>>
Same(q, r) == q[1] * r[2] = r[1] * q[2]

\* The mean over the runs there are: a run without fills counts, with 0.
MeanDollars(cells) == <<MapThenSumSet(LAMBDA run : Dollars(RunCells(cells, run)), RunsOf(cells)), Cardinality(RunsOf(cells))>>

------------------------------------------------------------------------------
(* computeScoreboard: a group per trader, model and variant, scored alone.   *)

Key(c) == [trader |-> c.trader, model |-> c.model, variant |-> c.variant]
Keys(cells) == {Key(c) : c \in cells}
GroupOf(cells, key) == {c \in cells : Key(c) = key}

RunTotal(group, run) ==
  LET own == RunCells(group, run) IN
  [days |-> Cardinality(own), points |-> Points(own), dollars |-> Dollars(own),
   filled |-> Cardinality(Filled(own)), wins |-> Cardinality(Wins(own)), losses |-> Cardinality(Losses(own))]

Summary(group) ==
  [cells |-> Cardinality(group), days |-> DaysOf(group), runs |-> RunsOf(group),
   totals |-> [run \in RunsOf(group) |-> RunTotal(group, run)],
   mean |-> MeanDollars(group),
   scored |-> Cardinality(Scored(group)), filled |-> Cardinality(Filled(group)),
   wins |-> Cardinality(Wins(group)), losses |-> Cardinality(Losses(group)),
   errors |-> group \ Scored(group)]

ByName(k, l) ==
  \/ k.trader < l.trader
  \/ k.trader = l.trader /\ k.model < l.model
  \/ k.trader = l.trader /\ k.model = l.model /\ k.variant < l.variant

\* The richest first, then by name.
RanksBefore(cells, k, l) ==
  LET mk == MeanDollars(GroupOf(cells, k))
      ml == MeanDollars(GroupOf(cells, l))
  IN  Less(ml, mk) \/ (Same(mk, ml) /\ ByName(k, l))

Ranking(cells) == SetToSortSeq(Keys(cells), LAMBDA k, l : RanksBefore(cells, k, l))

MaxCells(cells) == LET sizes == {Cardinality(GroupOf(cells, k)) : k \in Keys(cells)} IN
                   IF sizes = {} THEN 0 ELSE Max(sizes)
UnderTested(cells) == {k \in Keys(cells) : Cardinality(GroupOf(cells, k)) < MaxCells(cells)}

------------------------------------------------------------------------------
(* computeFeatureImpact: a variant against another over the days both have.  *)

SharedDays(group, other) == DaysOf(group) \cap DaysOf(other)

\* No row without shared days, or without a fill on them on either side.
Comparable(group, other) ==
  LET shared == SharedDays(group, other) IN
  Filled(OnDays(group, shared)) # {} /\ Filled(OnDays(other, shared)) # {}

Row(group, other) ==
  LET shared == SharedDays(group, other) IN
  [days |-> Cardinality(shared), runs |-> Cardinality(RunsOf(OnDays(group, shared))),
   otherRuns |-> Cardinality(RunsOf(OnDays(other, shared))),
   delta |-> Minus(MeanDollars(OnDays(group, shared)), MeanDollars(OnDays(other, shared)))]

\* The groups of the variant that have an opponent to be compared with, by name.
Compared(cells, variant, opponent) ==
  SetToSortSeq({k \in Keys(cells) : k.variant = variant
                  /\ Comparable(GroupOf(cells, k), GroupOf(cells, [k EXCEPT !.variant = opponent]))}, ByName)

RowsOf(cells, variant, opponent) ==
  LET keys == Compared(cells, variant, opponent) IN
  [i \in DOMAIN keys |-> Row(GroupOf(cells, keys[i]), GroupOf(cells, [keys[i] EXCEPT !.variant = opponent]))]

\* The mean of the rows' differences, none without rows.
OverallDelta(rows) ==
  LET sum == FoldLeft(LAMBDA acc, row : Plus(acc, row.delta), <<0, 1>>, rows) IN
  <<sum[1], sum[2] * Len(rows)>>

\* Every variant against base, and a combination against each of its components.
Impact(cells, components) ==
  [variant \in {k.variant : k \in Keys(cells)} \ {Base} |->
     [opponent \in {Base} \cup components[variant] |-> RowsOf(cells, variant, opponent)]]

------------------------------------------------------------------------------
(* buildLineage: origin says whom a trader mutates; one that is no trader is *)
(* unknown.                                                                  *)

NoOrigin == 0

Children(origin, names) == {t \in DOMAIN origin : origin[t] \in names}
\* The traders a walk from these meets.
Descendants(origin, names) ==
  FoldLeft(LAMBDA met, n : met \cup Children(origin, met), names, [n \in 1 .. Cardinality(DOMAIN origin) |-> n])

Roots(origin) == {t \in DOMAIN origin : origin[t] = NoOrigin}
UnknownOrigins(origin) == {origin[t] : t \in DOMAIN origin} \ (DOMAIN origin \cup {NoOrigin})
Orphans(origin) == Children(origin, UnknownOrigins(origin))

\* What the two walks have not met.
Cycles(origin) == DOMAIN origin \ Descendants(origin, Roots(origin) \cup Orphans(origin))
==============================================================================
