----------------------------- MODULE MCScoreboard -----------------------------
(***************************************************************************)
(* Scoreboard over every set of results of a small matrix.                 *)
(***************************************************************************)
EXTENDS Scoreboard, FiniteSetsExt

Result(status, points) == [status |-> status, points |-> points, dollars |-> 5 * points]
Results == {Result("TP", 2), Result("SL", -1), Result("NOT_FILLED", 0), Result("INVALID", 0)}

Slot(trader, variant, day, run) == [trader |-> trader, model |-> 1, variant |-> variant, day |-> day, run |-> run]
Slots(traders, variants, days, runs) == {Slot(t, v, d, r) : t \in traders, v \in variants, d \in days, r \in runs}

CellOf(slot, result) ==
  [trader |-> slot.trader, model |-> slot.model, variant |-> slot.variant, day |-> slot.day, run |-> slot.run,
   status |-> result.status, points |-> result.points, dollars |-> result.dollars]
\* Every set of cells over some of the slots, one result each.
Boards(slots) == UNION {{{CellOf(s, f[s]) : s \in some} : f \in [some -> Results]} : some \in SUBSET slots}

Feature == Base - 1
Other == Base + 1
OneGroup == Boards(Slots({1}, {Base}, {1, 2}, {1, 2}))
OnePair == Boards(Slots({1}, {Base, Feature}, {1, 2}, {1}) \cup {Slot(1, Base, 1, 2)})
FourGroups == Boards(Slots({1, 2}, {Base, Feature}, {1}, {1}))

\* The runs of a group add up to it; what is filled is won, lost or even, and what is not
\* scored is listed.
ASSUME GroupsAddUp ==
  \A cells \in OneGroup : cells # {} =>
    LET g == Summary(cells)
        Total(Part(_)) == MapThenSumSet(LAMBDA run : Part(g.totals[run]), g.runs)
    IN  /\ Total(LAMBDA t : t.days) = g.cells /\ Total(LAMBDA t : t.filled) = g.filled
        /\ Total(LAMBDA t : t.wins) = g.wins /\ Total(LAMBDA t : t.losses) = g.losses
        /\ g.wins + g.losses <= g.filled /\ g.filled <= g.scored
        /\ g.scored + Cardinality(g.errors) = g.cells
        /\ Same(g.mean, <<5 * Total(LAMBDA t : t.points), Cardinality(g.runs)>>)

\* Every group is ranked once, after all that earned more and after its betters by name.
ASSUME RankingIsTotal ==
  \A cells \in FourGroups :
    LET ranking == Ranking(cells)
        Earned(i) == MeanDollars(GroupOf(cells, ranking[i]))
    IN  /\ {ranking[i] : i \in DOMAIN ranking} = Keys(cells) /\ Len(ranking) = Cardinality(Keys(cells))
        /\ \A i, j \in DOMAIN ranking : i < j => ~Less(Earned(i), Earned(j))
        /\ \A i, j \in DOMAIN ranking : i < j /\ Same(Earned(i), Earned(j)) => ByName(ranking[i], ranking[j])

\* "Days covered by one side never bias" a row, whichever side's; it is the opposite of the
\* row seen from the other side; and without a fill on either side there is none.
ASSUME SharedDaysDecide ==
  \A cells \in OnePair :
    LET shared == SharedDays({c \in cells : c.variant = Base}, {c \in cells : c.variant = Feature})
        rows == RowsOf(cells, Feature, Base)
        mirrored == RowsOf(cells, Base, Feature)
    IN  /\ rows = RowsOf(OnDays(cells, shared), Feature, Base)
        /\ Len(rows) = 1 <=> \A v \in {Base, Feature} : \E c \in Filled(cells) : c.variant = v /\ c.day \in shared
        /\ Len(rows) = Len(mirrored)
        /\ rows # <<>> => Same(Plus(rows[1].delta, mirrored[1].delta), <<0, 1>>)

\* What is compared: each variant but base with base, and a combination with its parts.
ASSUME CombinationsMeetTheirParts ==
  \A cells \in Boards(Slots({1, 2}, {Base, Feature, Other}, {1}, {1}) \ {Slot(2, Base, 1, 1), Slot(1, Other, 1, 1)}) :
    LET impact == Impact(cells, [v \in {Feature, Other} |-> IF v = Other THEN {Feature} ELSE {}]) IN
    \A v \in DOMAIN impact : \A o \in DOMAIN impact[v] :
      /\ v # Base /\ (o # Base => v = Other /\ o = Feature)
      /\ Len(impact[v][o]) <= (IF v = Feature \/ o = Feature THEN 1 ELSE 0)
      /\ impact[v][o] # <<>> => Same(OverallDelta(impact[v][o]), impact[v][o][1].delta)

\* A shared day is one with any cell, so one that came to nothing counts as a run of 0: with
\* the unscored cells left out, a comparison can turn around.
ASSUME UnscoredDaysCount ==
  \E cells \in OnePair :
    LET rows == RowsOf(cells, Feature, Base)
        scored == RowsOf(Scored(cells), Feature, Base)
    IN  rows # <<>> /\ scored # <<>> /\ Less(<<0, 1>>, rows[1].delta) /\ Less(scored[1].delta, <<0, 1>>)

\* Every trader is drawn once: below a root, below an unknown origin, or among the
\* unreachable, which are those whose line of origins never ends.
ASSUME TradersAreDrawnOnce ==
  \A origin \in [1 .. 4 -> 0 .. 6] :
    LET Ancestor[n \in 0 .. 4] == [t \in 1 .. 4 |-> IF n = 0 THEN t
                                 ELSE IF Ancestor[n - 1][t] \in 1 .. 4 THEN origin[Ancestor[n - 1][t]] ELSE Ancestor[n - 1][t]]
    IN  /\ Cycles(origin) = {t \in 1 .. 4 : Ancestor[4][t] \in 1 .. 4}
        /\ Descendants(origin, Roots(origin)) = {t \in 1 .. 4 : Ancestor[4][t] = NoOrigin}
        /\ Descendants(origin, Orphans(origin)) \cap Descendants(origin, Roots(origin)) = {}
==============================================================================
