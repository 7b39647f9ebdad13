--------------------------- MODULE OrderSimulation ---------------------------
(***************************************************************************)
(* How a book of orders is graded: normalizeOrders (execution/orders.ts)   *)
(* and simulate / simulateOrder (execution/engine.ts).  simulate replays   *)
(* the session's candles order by order; the orders share nothing, so one  *)
(* Feed gives a candle to all of them.                                     *)
(*                                                                         *)
(* A short is a long seen upside down: every price is turned into its      *)
(* distance from the entry, positive on the side the order profits from.   *)
(* Ratios (triggerR, takeFraction, moveStopToR) are counted in Unit-ths    *)
(* and distances in Unit-ths of a tick, which keeps the arithmetic exact;  *)
(* points are in Unit^2-ths.  A candle stands for one minute.  MaxCandles  *)
(* bounds the session, Prices the ladder.                                  *)
(***************************************************************************)
EXTENDS Integers, Sequences, FiniteSetsExt

CONSTANTS
  Books,                  \* the order books that may be posted
  Prices, MaxCandles,
  OpenMinutes, CutoffMinutes,   \* the entry window of the session, or None
  Unit,
  None

ASSUME BoundAssumption ==
  Prices \subseteq Nat /\ MaxCandles \in Nat /\ Unit \in Nat \ {0} /\ None \notin Int
\* Of an order that is not typed nothing is known.
ASSUME BookAssumption ==
  \A book \in Books : \A i \in DOMAIN book : book[i].typed =>
    /\ book[i].side \in {"long", "short"}
    /\ {book[i].entry, book[i].stopLoss, book[i].takeProfit, book[i].qty} \subseteq Int
    /\ book[i].management \in
         Seq([triggerR : Int, takeFraction : Int \cup {None}, moveStopToR : Int \cup {None}])

VARIABLES
  phase,        \* "posted", "rejected", "running", "done"
  orders,       \* the book, normalised when it was accepted
  sim,          \* simulateOrder's locals, per order
  now,          \* minute of the last candle
  lastClose,
  summary

vars == <<phase, orders, sim, now, lastClose, summary>>

Statuses == {"SL", "TP", "EOD", "BE", "NOT_FILLED"}
Candles ==
  {k \in [open : Prices, high : Prices, low : Prices, close : Prices] :
     k.low <= k.open /\ k.low <= k.close /\ k.open <= k.high /\ k.close <= k.high}

\* fill, fired and exit are candle times; the three legs say where on the candle's
\* path the event lies, 0 for the open.  at is the distance of the exit.
Sims == [armed : BOOLEAN, closest : Nat \cup {None}, mae : Nat, mfe : Nat,
         stop : Int, moved : BOOLEAN,
         fill : Nat \cup {None}, fillLeg : 0 .. 2,
         fired : Nat \cup {None}, firedLeg : 0 .. 2,
         status : Statuses \cup {"open"}, exit : Nat \cup {None}, exitLeg : 0 .. 2,
         at : Int]

TypeOK ==
  /\ phase \in {"posted", "rejected", "running", "done"}
  /\ now \in 0 .. MaxCandles /\ lastClose \in Prices \cup {None}
  /\ \A i \in DOMAIN sim : sim[i] \in Sims
  /\ phase \in {"running", "done"} => DOMAIN sim = DOMAIN orders

------------------------------------------------------------------------------
(* normalizeOrders.                                                         *)

Dir(o) == IF o.side = "long" THEN 1 ELSE -1
Ahead(o, price) == Unit * Dir(o) * (price - o.entry)
\* In ticks.
Risk(o) == Dir(o) * (o.entry - o.stopLoss)
Target(o) == Dir(o) * (o.takeProfit - o.entry)

\* One management rule at most, with an effect, inside the bracket.
ValidRule(o, r) ==
  /\ r.triggerR > 0
  /\ r.takeFraction # None \/ r.moveStopToR # None
  /\ r.takeFraction # None => r.takeFraction \in 1 .. Unit - 1
  /\ r.moveStopToR # None => r.moveStopToR \in 0 .. r.triggerR - 1
  /\ r.triggerR * Risk(o) < Unit * Target(o)

\* typed: every field has its JSON type and activeFrom reads HH:MM.
Valid(o) ==
  /\ o.typed /\ Risk(o) > 0 /\ Target(o) > 0
  /\ o.qty >= 1
  /\ Len(o.management) <= 1
  /\ \A j \in DOMAIN o.management : ValidRule(o, o.management[j])

\* The id of an order without one counts the orders of its side.
IdOf(book, i) ==
  IF book[i].id # None THEN book[i].id
  ELSE <<book[i].side, Cardinality({j \in 1 .. i : book[j].side = book[i].side})>>

Accepted(book) ==
  /\ \A i \in DOMAIN book : Valid(book[i])
  /\ \A i, j \in DOMAIN book : IdOf(book, i) = IdOf(book, j) => i = j

\* entry + moveStopToR * risk, in the order's direction.
NewStop(o, r) == IF r.moveStopToR = None THEN None ELSE r.moveStopToR * Risk(o)

\* The only place where R becomes a price.
Normalized(o, id) ==
  LET rule(r) == [trigger |-> r.triggerR * Risk(o),
                  take    |-> IF r.takeFraction = None THEN 0 ELSE r.takeFraction,
                  newStop |-> NewStop(o, r)]
  IN  [id |-> id, side |-> o.side, entry |-> o.entry, risk |-> Unit * Risk(o),
       target |-> Unit * Target(o), qty |-> o.qty, activeFrom |-> o.activeFrom,
       rule |-> IF o.management = <<>> THEN None ELSE rule(o.management[1])]

Unfilled(o) == [armed |-> FALSE, closest |-> None, mae |-> 0, mfe |-> 0,
                stop |-> -o.risk, moved |-> FALSE, fill |-> None, fillLeg |-> 0,
                fired |-> None, firedLeg |-> 0, status |-> "open", exit |-> None,
                exitLeg |-> 0, at |-> 0]

NoSummary == [filled |-> 0, wins |-> 0, losses |-> 0, scratches |-> 0, netPoints |-> 0]

Init ==
  /\ phase = "posted" /\ orders \in Books
  /\ sim = <<>> /\ now = 0 /\ lastClose = None /\ summary = NoSummary

\* One order that does not validate, or one id twice, is a 400 for the book.
Normalize ==
  /\ phase = "posted"
  /\ IF Accepted(orders)
       THEN /\ phase' = "running"
            /\ orders' = [i \in DOMAIN orders |-> Normalized(orders[i], IdOf(orders, i))]
            /\ sim' = [i \in DOMAIN orders |-> Unfilled(orders'[i])]
       ELSE /\ phase' = "rejected"
            /\ UNCHANGED <<orders, sim>>
  /\ UNCHANGED <<now, lastClose, summary>>

------------------------------------------------------------------------------
(* simulateOrder: one candle.                                               *)

Larger(a, b) == IF a >= b THEN a ELSE b

\* The extremes of a candle, from where the order stands.
Worst(o, k) == Ahead(o, IF o.side = "long" THEN k.low ELSE k.high)
Best(o, k) == Ahead(o, IF o.side = "long" THEN k.high ELSE k.low)

\* The path is open, low, high, close when the candle is bullish or flat, and open,
\* high, low, close when it is bearish.
Bullish(k) == k.close >= k.open
StopLeg(o, k) == IF Bullish(k) <=> o.side = "long" THEN 1 ELSE 2
ProfitLeg(o, k) == 3 - StopLeg(o, k)

\* activeFrom tightens the session's window and never loosens it.
InWindow(o, minute) ==
  /\ OpenMinutes = None \/ minute >= OpenMinutes
  /\ o.activeFrom = None \/ minute >= o.activeFrom
  /\ CutoffMinutes = None \/ minute < CutoffMinutes

\* How near the touch side of the candle came to the entry.
Approach(o, k) == IF Worst(o, k) < 0 THEN -Worst(o, k) ELSE Worst(o, k)

\* A resting limit order: touched, coming from the side it is meant for.
Touches(o, s, k) == Worst(o, k) <= 0 /\ (s.armed \/ Ahead(o, k.open) >= 0)

\* While there is no position: approach, then fill or arm.
Enter(o, s, k, minute) ==
  IF s.fill # None \/ ~InWindow(o, minute) THEN s
  ELSE LET near == IF s.closest = None \/ Approach(o, k) < s.closest
                     THEN [s EXCEPT !.closest = Approach(o, k)] ELSE s
       IN  IF Touches(o, s, k)
             THEN [near EXCEPT !.fill = minute,
                     !.fillLeg = IF Ahead(o, k.open) <= 0 THEN 0 ELSE StopLeg(o, k)]
             ELSE [near EXCEPT !.armed = @ \/ Best(o, k) >= 0]

\* Mutated: the fill candle is left out.
ExcursionsAfterFill(o, s, k, minute) ==
  IF s.fill = minute THEN s
  ELSE [s EXCEPT !.mae = Larger(@, -Worst(o, k)), !.mfe = Larger(@, Best(o, k))]
\* The whole range of every candle from the fill on.
Excursions(o, s, k, minute) ==
  [s EXCEPT !.mae = Larger(@, -Worst(o, k)), !.mfe = Larger(@, Best(o, k))]

Exit(s, status, minute, leg, at) ==
  [s EXCEPT !.status = status, !.exit = minute, !.exitLeg = leg, !.at = at]

StopHit(o, s, k) == Worst(o, k) <= s.stop

RunStopLeg(o, s, k, minute) ==
  IF s.status = "open" /\ StopHit(o, s, k)
    THEN Exit(s, IF s.moved THEN "BE" ELSE "SL", minute, StopLeg(o, k), s.stop)
    ELSE s

\* The management event fires once: the partial exit, and the stop moves.
Trigger(o, s, k, minute) ==
  IF o.rule = None \/ s.fired # None THEN s
  ELSE IF Best(o, k) < o.rule.trigger THEN s
  ELSE [s EXCEPT !.fired = minute, !.firedLeg = ProfitLeg(o, k),
                 !.stop = IF o.rule.newStop = None THEN @ ELSE o.rule.newStop,
                 !.moved = o.rule.newStop # None]

\* Mutated: on the leg that fires the trigger the target is not looked at.
TargetHitAfterTrigger(o, s, k, minute) == Best(o, k) >= o.target /\ s.fired # minute
TargetHit(o, s, k, minute) == Best(o, k) >= o.target

RunProfitLeg(o, s, k, minute) ==
  LET t == Trigger(o, s, k, minute)
  IN  IF s.status # "open" THEN s
      ELSE IF TargetHit(o, t, k, minute) THEN Exit(t, "TP", minute, ProfitLeg(o, k), o.target)
      ELSE t

\* One turn of the candle loop.
Replayed(o, s, k, minute) ==
  LET e == Enter(o, s, k, minute)
      x == Excursions(o, e, k, minute)
  IN  IF s.status # "open" \/ e.fill = None THEN e
      ELSE IF StopLeg(o, k) = 1
        THEN RunProfitLeg(o, RunStopLeg(o, x, k, minute), k, minute)
        ELSE RunStopLeg(o, RunProfitLeg(o, x, k, minute), k, minute)

Feed ==
  /\ phase = "running" /\ now < MaxCandles
  /\ \E k \in Candles :
       /\ sim' = [i \in DOMAIN sim |-> Replayed(orders[i], sim[i], k, now + 1)]
       /\ lastClose' = k.close
  /\ now' = now + 1
  /\ UNCHANGED <<phase, orders, summary>>

------------------------------------------------------------------------------
(* simulate: the results.                                                   *)

\* No more candles: a position is closed at the last close.
Ended(o, s) ==
  IF s.status # "open" THEN s
  ELSE IF s.fill = None THEN [s EXCEPT !.status = "NOT_FILLED"]
  ELSE Exit(s, "EOD", now, 2, Ahead(o, lastClose))

\* Points of one contract: the part taken at the trigger and the runner.
Taken(o, s) == IF s.fired = None THEN 0 ELSE o.rule.take
\* Mutated: the runner still counts the part that was taken.
PerUnitWhole(o, s) == Unit * s.at + (IF s.fired = None THEN 0 ELSE Taken(o, s) * o.rule.trigger)
PerUnit(o, s) ==
  (IF s.fired = None THEN 0 ELSE Taken(o, s) * o.rule.trigger) + (Unit - Taken(o, s)) * s.at
Points(o, s) == o.qty * PerUnit(o, s)

Summary(results) ==
  LET filled == {i \in DOMAIN results : results[i].status # "NOT_FILLED"}
      points(i) == Points(orders[i], results[i])
  IN  [filled |-> Cardinality(filled),
       wins |-> Cardinality({i \in filled : points(i) > 0}),
       losses |-> Cardinality({i \in filled : points(i) < 0}),
       scratches |-> Cardinality({i \in filled : results[i].status = "BE"}),
       netPoints |-> MapThenSumSet(points, filled)]

Finish ==
  /\ phase = "running"
  /\ sim' = [i \in DOMAIN sim |-> Ended(orders[i], sim[i])]
  /\ summary' = Summary(sim')
  /\ phase' = "done"
  /\ UNCHANGED <<orders, now, lastClose>>

Next == Normalize \/ Feed \/ Finish

Spec == Init /\ [][Next]_vars

------------------------------------------------------------------------------
(* Properties.                                                              *)

Filled(i) == sim[i].fill # None
Result(i) == PerUnit(orders[i], sim[i])

\* The excursions account for every exit: while a position is open it has seen
\* neither its stop nor its target, its trigger has fired exactly if the best price
\* reached it, and what it closed at was seen (simulateOrder tracks the two
\* separately).
ExcursionsExplain ==
  \A i \in DOMAIN sim : Filled(i) =>
    LET o == orders[i]  s == sim[i] IN
    /\ s.status \in {"open", "EOD"} =>
         /\ s.mae < o.risk /\ s.mfe < o.target
         /\ o.rule # None => (s.fired # None <=> s.mfe >= o.rule.trigger)
    /\ s.status = "SL" => s.mae >= o.risk
    /\ s.status = "TP" => s.mfe >= o.target
    /\ s.fired # None => s.mfe >= o.rule.trigger

SameBracket(o, p) ==
  /\ o.side = p.side /\ o.entry = p.entry /\ o.activeFrom = p.activeFrom
  /\ o.risk = p.risk /\ o.target = p.target

\* Management can only tighten a bracket: the managed order fills with its unmanaged
\* twin, never outlives it, loses no more where the twin is stopped, and reaches the
\* target only with the twin.
ManagedIsTighter ==
  \A i, j \in DOMAIN sim :
    SameBracket(orders[i], orders[j]) /\ orders[i].rule # None /\ orders[j].rule = None =>
      /\ sim[i].fill = sim[j].fill
      /\ sim[j].status # "open" => sim[i].status # "open"
      /\ sim[j].status = "SL" => Result(i) >= Result(j)
      /\ sim[i].status = "TP" => sim[j].status = "TP" /\ sim[j].exit = sim[i].exit

\* R is fixed at inception: whatever leg, management or last close ends it, a filled
\* order loses at most one R and wins at most its target.
ResultIsBounded ==
  \A i \in DOMAIN sim : phase = "done" /\ Filled(i) =>
    Result(i) \in -Unit * orders[i].risk .. Unit * orders[i].target

\* "A level already passed on the path can never act on state created later in that
\* same path" (engine.ts): nothing closes a position, in whole or in part, on an
\* earlier leg of its fill candle than the one that filled it.
NoRetroactiveExit ==
  \A i \in DOMAIN sim : Filled(i) =>
    /\ sim[i].exit = sim[i].fill => sim[i].exitLeg >= sim[i].fillLeg
    /\ sim[i].fired = sim[i].fill => sim[i].firedLeg >= sim[i].fillLeg
==============================================================================
