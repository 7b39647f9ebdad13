------------------------ MODULE OrderSimulationProofs ------------------------
(***************************************************************************)
(* Theorems about OrderSimulation, for any book, ladder of prices, session *)
(* and unit of R: the excursions explain every exit, a managed order is    *)
(* never looser than its unmanaged twin, and no result leaves the bracket. *)
(***************************************************************************)
EXTENDS OrderSimulation, TLAPS

USE BoundAssumption

------------------------------------------------------------------------------
(* Normalised orders and candles.                                           *)

OrderOK(o) ==
  /\ o.side \in {"long", "short"} /\ o.entry \in Int
  /\ o.risk \in Nat \ {0} /\ o.target \in Nat \ {0}
  /\ o.rule # None =>
       /\ o.rule.trigger \in 1 .. o.target - 1
       /\ o.rule.take \in 0 .. Unit - 1
       /\ o.rule.newStop # None => o.rule.newStop \in 0 .. o.rule.trigger - 1

LEMMA Scales ==
  ASSUME NEW a \in Int, NEW b \in Int, NEW c \in Nat \ {0}
  PROVE  a * c \in Int /\ c * a \in Int /\ (a < b => a * c < b * c /\ c * a < c * b)
                       /\ (a <= b => a * c <= b * c /\ c * a <= c * b)
  OBVIOUS

LEMMA FirstOf ==
  ASSUME NEW S, NEW q \in Seq(S), q # <<>>
  PROVE  1 \in DOMAIN q /\ q[1] \in S
  OBVIOUS

\* What passes normalizeOrders is a bracket with at most one rule inside it.
LEMMA ValidIsOK ==
  ASSUME NEW book \in Books, NEW i \in DOMAIN book, Valid(book[i]), NEW id
  PROVE  OrderOK(Normalized(book[i], id))
<1> DEFINE o == book[i]
           n == Normalized(o, id)
           r == o.management[1]
<1>1. /\ o.side \in {"long", "short"} /\ o.entry \in Int /\ o.stopLoss \in Int
      /\ o.takeProfit \in Int
      /\ o.management \in
           Seq([triggerR : Int, takeFraction : Int \cup {None}, moveStopToR : Int \cup {None}])
  BY BookAssumption DEF Valid
<1>2. Risk(o) \in Int /\ Risk(o) > 0 /\ Target(o) \in Int /\ Target(o) > 0
  <2>1. Risk(o) \in Int /\ Target(o) \in Int
    BY <1>1 DEF Risk, Target, Dir
  <2> QED
    BY <2>1 DEF Valid
<1>3. /\ n.side = o.side /\ n.entry = o.entry /\ n.risk = Unit * Risk(o)
      /\ n.target = Unit * Target(o)
  BY DEF Normalized
<1>4. n.risk \in Nat \ {0} /\ n.target \in Nat \ {0}
  <2>1. 0 < Unit * Risk(o) /\ Unit * Risk(o) \in Int
    BY <1>2, Scales
  <2>2. 0 < Unit * Target(o) /\ Unit * Target(o) \in Int
    BY <1>2, Scales
  <2> QED
    BY <1>3, <2>1, <2>2
<1>5. ASSUME n.rule # None
      PROVE  /\ n.rule.trigger \in 1 .. n.target - 1
             /\ n.rule.take \in 0 .. Unit - 1
             /\ n.rule.newStop # None => n.rule.newStop \in 0 .. n.rule.trigger - 1
  <2>1. o.management # <<>>
    BY <1>5 DEF Normalized
  <2>2. 1 \in DOMAIN o.management /\ ValidRule(o, r)
    BY <1>1, <2>1 DEF Valid
  <2>3. /\ r.triggerR \in Int /\ r.takeFraction \in Int \cup {None}
        /\ r.moveStopToR \in Int \cup {None}
    <3>1. r \in [triggerR : Int, takeFraction : Int \cup {None}, moveStopToR : Int \cup {None}]
      BY <1>1, <2>1, FirstOf
    <3> QED
      BY <3>1
  <2>4. /\ n.rule.trigger = r.triggerR * Risk(o)
        /\ n.rule.take = IF r.takeFraction = None THEN 0 ELSE r.takeFraction
        /\ n.rule.newStop = IF r.moveStopToR = None THEN None ELSE r.moveStopToR * Risk(o)
    BY <2>1 DEF Normalized, NewStop
  <2>5. r.triggerR > 0 /\ r.triggerR * Risk(o) < Unit * Target(o)
    BY <2>2 DEF ValidRule
  <2>6. 0 < r.triggerR * Risk(o) /\ r.triggerR * Risk(o) \in Int
    BY <1>2, <2>3, <2>5, Scales
  <2>7. n.rule.trigger \in 1 .. n.target - 1
    BY <1>3, <1>4, <2>4, <2>5, <2>6
  <2>8. n.rule.take \in 0 .. Unit - 1
    BY <2>2, <2>3, <2>4 DEF ValidRule
  <2>9. ASSUME n.rule.newStop # None PROVE n.rule.newStop \in 0 .. n.rule.trigger - 1
    <3> DEFINE m == r.moveStopToR
    <3>1. m \in Int /\ 0 <= m /\ m < r.triggerR
      BY <2>2, <2>3, <2>4, <2>9 DEF ValidRule
    <3>2. 0 * Risk(o) <= m * Risk(o) /\ m * Risk(o) < r.triggerR * Risk(o) /\ m * Risk(o) \in Int
      BY <1>2, <2>3, <3>1, Scales
    <3> QED
      BY <1>2, <2>3, <2>4, <2>6, <3>1, <3>2
  <2> QED
    BY <2>7, <2>8, <2>9
<1> QED
  BY <1>1, <1>3, <1>4, <1>5 DEF OrderOK

LEMMA AheadIsInt ==
  ASSUME NEW o, OrderOK(o), NEW p \in Int
  PROVE  Ahead(o, p) \in Int
<1>1. Dir(o) \in Int
  BY DEF Dir
<1> QED
  BY <1>1 DEF OrderOK, Ahead

\* Whatever side it is on, an order sees the open and the close of a candle between the
\* worst and the best of it.
LEMMA CandleSpans ==
  ASSUME NEW o, OrderOK(o), NEW k \in Candles
  PROVE  /\ Worst(o, k) \in Int /\ Best(o, k) \in Int
         /\ Ahead(o, k.open) \in Int /\ Ahead(o, k.close) \in Int
         /\ Worst(o, k) <= Ahead(o, k.close) /\ Ahead(o, k.close) <= Best(o, k)
<1>1. /\ k.open \in Int /\ k.high \in Int /\ k.low \in Int /\ k.close \in Int
      /\ k.low <= k.close /\ k.close <= k.high
  <2>1. /\ k \in [open : Prices, high : Prices, low : Prices, close : Prices]
        /\ k.low <= k.close /\ k.close <= k.high
    BY DEF Candles
  <2>2. k.open \in Prices /\ k.high \in Prices /\ k.low \in Prices /\ k.close \in Prices
    BY <2>1
  <2>3. \A p \in Prices : p \in Int
    OBVIOUS
  <2> QED
    BY <2>1, <2>2, <2>3
<1> DEFINE up(p) == Unit * (p - o.entry)
<1>2. o.entry \in Int /\ Unit \in Nat \ {0}
  BY DEF OrderOK
<1>3. \A p \in Int : up(p) \in Int /\ Ahead(o, p) = IF o.side = "long" THEN up(p) ELSE -up(p)
  <2> TAKE p \in Int
  <2>1. up(p) \in Int
    BY <1>2
  <2>2. Unit * 1 = Unit /\ Unit * (-1) = -Unit
    BY <1>2
  <2>3. Ahead(o, p) = IF o.side = "long" THEN Unit * (p - o.entry) ELSE (-Unit) * (p - o.entry)
    BY <2>2 DEF Ahead, Dir
  <2>4. (-Unit) * (p - o.entry) = -(Unit * (p - o.entry))
    BY <1>2
  <2> QED
    BY <2>1, <2>3, <2>4
<1>4. up(k.low) <= up(k.close) /\ up(k.close) <= up(k.high)
  <2>1. /\ k.low - o.entry \in Int /\ k.close - o.entry \in Int /\ k.high - o.entry \in Int
        /\ k.low - o.entry <= k.close - o.entry /\ k.close - o.entry <= k.high - o.entry
    BY <1>1, <1>2
  <2> QED
    BY <1>2, <2>1, Scales
<1> HIDE DEF up
<1> QED
  BY <1>1, <1>3, <1>4 DEF OrderOK, Worst, Best

------------------------------------------------------------------------------
(* One order.                                                               *)

\* The stop is the one the order came with until the rule has moved it.
Core(o, s) ==
  /\ s \in Sims
  /\ s.fired # None => o.rule # None /\ s.mfe >= o.rule.trigger
  /\ s.moved => s.fired # None /\ o.rule.newStop # None
  /\ s.stop = IF s.moved THEN o.rule.newStop ELSE -o.risk

\* What a position has seen that nothing has closed.
Within(o, s) ==
  /\ s.mae < o.risk /\ s.mfe < o.target
  /\ o.rule # None /\ s.mfe >= o.rule.trigger => s.fired # None

ClosedOK(o, s) ==
  /\ s.fill # None /\ s.status \in {"SL", "TP", "BE", "EOD"} /\ s.at \in -o.risk .. o.target
  /\ s.status = "EOD" => Within(o, s)
  /\ s.status = "SL" => s.mae >= o.risk /\ s.at = -o.risk
  /\ s.status = "TP" => s.mfe >= o.target

OpenOK(o, s, close) ==
  /\ s.fill # None /\ s.status = "open" /\ Within(o, s)
  /\ close \in Prices /\ -s.mae <= Ahead(o, close) /\ Ahead(o, close) <= s.mfe

WaitOK(s) ==
  s.fill = None /\ s.status \in {"open", "NOT_FILLED"} /\ s.mae = 0 /\ s.mfe = 0 /\ s.fired = None

SimOK(o, s, close) == Core(o, s) /\ (WaitOK(s) \/ OpenOK(o, s, close) \/ ClosedOK(o, s))

LEMMA SimTyped ==
  ASSUME NEW s \in Sims
  PROVE  /\ s.armed \in BOOLEAN /\ s.closest \in Nat \cup {None} /\ s.mae \in Nat /\ s.mfe \in Nat
         /\ s.stop \in Int /\ s.moved \in BOOLEAN /\ s.fill \in Nat \cup {None}
         /\ s.fillLeg \in 0 .. 2 /\ s.fired \in Nat \cup {None} /\ s.firedLeg \in 0 .. 2
         /\ s.status \in Statuses \cup {"open"} /\ s.exit \in Nat \cup {None}
         /\ s.exitLeg \in 0 .. 2 /\ s.at \in Int
  BY DEF Sims

LEMMA Legs ==
  ASSUME NEW o, NEW k
  PROVE  /\ StopLeg(o, k) \in {1, 2} /\ ProfitLeg(o, k) \in {1, 2}
  BY DEF StopLeg, ProfitLeg

\* Entering touches nothing but the approach and the fill.
LEMMA EnterEffect ==
  ASSUME NEW o, OrderOK(o), NEW s \in Sims, NEW k \in Candles, NEW minute \in Nat
  PROVE  LET e == Enter(o, s, k, minute) IN
         /\ e \in Sims /\ (e.fill = s.fill \/ e.fill = minute)
         /\ s.fill # None => e = s
         /\ e.mae = s.mae /\ e.mfe = s.mfe /\ e.stop = s.stop /\ e.moved = s.moved
         /\ e.fired = s.fired /\ e.status = s.status /\ e.at = s.at /\ e.exit = s.exit
<1> DEFINE e == Enter(o, s, k, minute)
           c == Approach(o, k)
           near == IF s.closest = None \/ c < s.closest THEN [s EXCEPT !.closest = c] ELSE s
           l == IF Ahead(o, k.open) <= 0 THEN 0 ELSE StopLeg(o, k)
           filled == [near EXCEPT !.fill = minute, !.fillLeg = l]
           b == near.armed \/ Best(o, k) >= 0
           armed == [near EXCEPT !.armed = b]
<1>1. c \in Nat
  BY CandleSpans DEF Approach
<1>2. near \in Sims /\ near.fill = s.fill /\ near.mae = s.mae /\ near.mfe = s.mfe /\ near.stop = s.stop
      /\ near.moved = s.moved /\ near.fired = s.fired /\ near.status = s.status
      /\ near.at = s.at /\ near.exit = s.exit
  <2> HIDE DEF c
  <2> QED
    BY <1>1 DEF Sims
<1>3. l \in 0 .. 2 /\ b \in BOOLEAN
  <2>1. l \in 0 .. 2
    BY Legs
  <2>2. b \in BOOLEAN
    BY <1>2, SimTyped
  <2> QED
    BY <2>1, <2>2
<1>4. e = IF s.fill # None \/ ~InWindow(o, minute) THEN s
          ELSE IF Touches(o, s, k) THEN filled ELSE armed
  BY DEF Enter
<1> HIDE DEF e, c, near, l, b
<1>5. filled \in Sims /\ filled.fill = minute /\ filled.mae = s.mae /\ filled.mfe = s.mfe
      /\ filled.stop = s.stop /\ filled.moved = s.moved /\ filled.fired = s.fired
      /\ filled.status = s.status /\ filled.at = s.at /\ filled.exit = s.exit
  BY <1>2, <1>3 DEF Sims
<1>6. armed \in Sims /\ armed.fill = s.fill /\ armed.mae = s.mae /\ armed.mfe = s.mfe
      /\ armed.stop = s.stop /\ armed.moved = s.moved /\ armed.fired = s.fired
      /\ armed.status = s.status /\ armed.at = s.at /\ armed.exit = s.exit
  BY <1>2, <1>3 DEF Sims
<1> HIDE DEF filled, armed
<1> QED
  BY <1>4, <1>5, <1>6 DEF e

\* The position on a candle, before its legs are run: the candle is in the excursions.
Mid(o, s, k) ==
  /\ Core(o, s) /\ s.fill # None /\ s.status = "open"
  /\ s.mae >= -Worst(o, k) /\ s.mfe >= Best(o, k)
  /\ Worst(o, k) > -o.risk => s.mae < o.risk
  /\ Best(o, k) < o.target => s.mfe < o.target
  /\ o.rule # None /\ s.mfe >= o.rule.trigger /\ Best(o, k) < o.rule.trigger => s.fired # None

LEMMA ExcursionsMid ==
  ASSUME NEW o, OrderOK(o), NEW s, NEW k \in Candles, NEW minute \in Nat,
         Core(o, s), s.fill # None, s.status = "open", Within(o, s)
  PROVE  LET x == Excursions(o, s, k, minute) IN
         /\ Mid(o, x, k) /\ x.fill = s.fill /\ x.stop = s.stop /\ x.fired = s.fired
<1> DEFINE a == Larger(s.mae, -Worst(o, k))
           f == Larger(s.mfe, Best(o, k))
           x == [s EXCEPT !.mae = a, !.mfe = f]
<1>1. s \in Sims /\ s.mae \in Nat /\ s.mfe \in Nat /\ Worst(o, k) \in Int /\ Best(o, k) \in Int
  BY SimTyped, CandleSpans DEF Core
<1>2. /\ a \in Nat /\ f \in Nat /\ a >= s.mae /\ f >= s.mfe /\ a >= -Worst(o, k) /\ f >= Best(o, k)
      /\ a = s.mae \/ a = -Worst(o, k)
      /\ f = s.mfe \/ f = Best(o, k)
  BY <1>1 DEF Larger
<1>3. x = Excursions(o, s, k, minute)
  BY DEF Excursions
<1> HIDE DEF a, f
<1>4. x \in Sims
  BY <1>1, <1>2 DEF Sims
<1>5. /\ x.mae = a /\ x.mfe = f /\ x.stop = s.stop /\ x.fill = s.fill /\ x.fired = s.fired
      /\ x.status = s.status /\ x.moved = s.moved
  BY <1>1 DEF Sims
<1> HIDE DEF x
<1>6. Core(o, x)
  <2>1. x.fired # None => o.rule # None /\ x.mfe >= o.rule.trigger
    BY <1>1, <1>2, <1>5 DEF Core, OrderOK
  <2>2. x.moved => x.fired # None /\ o.rule.newStop # None
    BY <1>5 DEF Core
  <2>3. x.stop = IF x.moved THEN o.rule.newStop ELSE -o.risk
    BY <1>5 DEF Core
  <2> QED
    BY <1>4, <2>1, <2>2, <2>3 DEF Core
<1>7. /\ x.mae >= -Worst(o, k) /\ x.mfe >= Best(o, k)
      /\ Worst(o, k) > -o.risk => x.mae < o.risk
      /\ Best(o, k) < o.target => x.mfe < o.target
  BY <1>1, <1>2, <1>5 DEF Within, OrderOK
<1>8. o.rule # None /\ x.mfe >= o.rule.trigger /\ Best(o, k) < o.rule.trigger => x.fired # None
  BY <1>1, <1>2, <1>5 DEF Within, OrderOK
<1> QED
  BY <1>3, <1>5, <1>6, <1>7, <1>8 DEF Mid

\* The leg towards the stop.
LEMMA StopLegEffect ==
  ASSUME NEW o, OrderOK(o), NEW s, NEW k \in Candles, NEW minute \in Nat, Mid(o, s, k)
  PROVE  LET r == RunStopLeg(o, s, k, minute) IN
         IF Worst(o, k) <= s.stop
           THEN Core(o, r) /\ ClosedOK(o, r) /\ r.status \in {"SL", "BE"} /\ r.fill = s.fill
           ELSE r = s /\ Worst(o, k) > -o.risk
<1> DEFINE r == Exit(s, IF s.moved THEN "BE" ELSE "SL", minute, StopLeg(o, k), s.stop)
<1>1. /\ s \in Sims /\ s.stop \in Int /\ s.mae \in Nat /\ s.fill # None /\ s.status = "open"
      /\ Worst(o, k) \in Int /\ s.mae >= -Worst(o, k)
  BY SimTyped, CandleSpans DEF Mid, Core
<1>2. s.stop \in -o.risk .. o.target - 1 /\ (~s.moved => s.stop = -o.risk)
  <2>1. CASE s.moved
    BY <1>1, <2>1 DEF Mid, Core, OrderOK
  <2>2. CASE ~s.moved
    BY <1>1, <2>2 DEF Mid, Core, OrderOK
  <2> QED
    BY <2>1, <2>2
<1>3. ASSUME Worst(o, k) <= s.stop
      PROVE  Core(o, r) /\ ClosedOK(o, r) /\ r.status \in {"SL", "BE"} /\ r.fill = s.fill
  <2> DEFINE st == IF s.moved THEN "BE" ELSE "SL"
             leg == StopLeg(o, k)
  <2>1. st \in {"BE", "SL"} /\ leg \in 0 .. 2 /\ (st = "SL" => ~s.moved)
    BY Legs
  <2>2. st \in Statuses
    BY <2>1 DEF Statuses
  <2>3. r = Exit(s, st, minute, leg, s.stop)
    OBVIOUS
  <2> HIDE DEF st, leg, r
  <2>4. /\ r \in Sims /\ r.status = st /\ r.at = s.stop /\ r.mae = s.mae /\ r.mfe = s.mfe
        /\ r.fill = s.fill /\ r.fired = s.fired /\ r.moved = s.moved /\ r.stop = s.stop
    BY <1>1, <2>1, <2>2, <2>3 DEF Exit, Sims
  <2> HIDE DEF r
  <2>5. Core(o, r)
    BY <2>4 DEF Mid, Core
  <2>6. st = "SL" => r.mae >= o.risk /\ r.at = -o.risk
    BY <1>1, <1>2, <1>3, <2>1, <2>4 DEF OrderOK
  <2>7. r.at \in -o.risk .. o.target
    BY <1>2, <2>4 DEF OrderOK
  <2> QED
    BY <1>1, <2>1, <2>4, <2>5, <2>6, <2>7 DEF ClosedOK
<1>4. Worst(o, k) > s.stop => Worst(o, k) > -o.risk
  BY <1>1, <1>2 DEF OrderOK
<1>5. RunStopLeg(o, s, k, minute) = IF Worst(o, k) <= s.stop THEN r ELSE s
  BY <1>1 DEF RunStopLeg, StopHit
<1> QED
  BY <1>1, <1>3, <1>4, <1>5

\* The trigger fires when the best price reaches it, and the stop never moves away.
LEMMA TriggerEffect ==
  ASSUME NEW o, OrderOK(o), NEW s, NEW k \in Candles, NEW minute \in Nat, Mid(o, s, k)
  PROVE  LET t == Trigger(o, s, k, minute) IN
         /\ Mid(o, t, k) /\ t.fill = s.fill /\ t.stop >= s.stop
         /\ o.rule # None /\ t.mfe >= o.rule.trigger => t.fired # None
         /\ o.rule = None => t = s
<1> DEFINE st == IF o.rule.newStop = None THEN s.stop ELSE o.rule.newStop
           m == o.rule.newStop # None
           leg == ProfitLeg(o, k)
           f == [s EXCEPT !.fired = minute, !.firedLeg = leg, !.stop = st, !.moved = m]
           t == Trigger(o, s, k, minute)
<1>1. /\ s \in Sims /\ s.stop \in Int /\ s.mae \in Nat /\ s.mfe \in Nat
      /\ Worst(o, k) \in Int /\ Best(o, k) \in Int
  BY SimTyped, CandleSpans DEF Mid, Core
<1>2. CASE o.rule = None \/ s.fired # None \/ Best(o, k) < o.rule.trigger
  <2>1. t = s
    BY <1>2 DEF Trigger
  <2>2. o.rule # None /\ s.mfe >= o.rule.trigger => s.fired # None
    BY <1>2 DEF Mid
  <2> QED
    BY <1>1, <2>1, <2>2
<1>3. CASE o.rule # None /\ s.fired = None /\ Best(o, k) >= o.rule.trigger
  <2>0. ~(Best(o, k) < o.rule.trigger)
    BY <1>1, <1>3 DEF OrderOK
  <2>1. t = f
    BY <1>3, <2>0 DEF Trigger
  <2>2. leg \in 0 .. 2 /\ m \in BOOLEAN
    BY Legs
  <2>3. /\ s.stop = -o.risk
        /\ o.rule.newStop # None => o.rule.newStop \in 0 .. o.rule.trigger - 1
        /\ o.rule.trigger \in Int /\ o.risk \in Nat
    BY <1>3 DEF Mid, Core, OrderOK
  <2>4. st \in Int /\ st >= s.stop /\ st = IF m THEN o.rule.newStop ELSE -o.risk
    BY <1>1, <2>3
  <2> HIDE DEF t, leg
  <2>5. f \in Sims
    <3> HIDE DEF st, m
    <3> QED
      BY <1>1, <2>2, <2>4 DEF Sims
  <2>6. /\ f.status = s.status /\ f.at = s.at /\ f.mae = s.mae /\ f.mfe = s.mfe /\ f.fill = s.fill
        /\ f.fired = minute /\ f.moved = m /\ f.stop = st
    <3> HIDE DEF st, m
    <3> QED
      BY <1>1 DEF Sims
  <2> HIDE DEF f
  <2>7. minute # None
    OBVIOUS
  <2>8. Core(o, f)
    <3>1. f.fired # None => o.rule # None /\ f.mfe >= o.rule.trigger
      BY <1>1, <1>3, <2>3, <2>6 DEF Mid
    <3>2. f.moved => f.fired # None /\ o.rule.newStop # None
      BY <2>6, <2>7
    <3>3. f.stop = IF f.moved THEN o.rule.newStop ELSE -o.risk
      BY <2>4, <2>6
    <3> QED
      BY <2>5, <3>1, <3>2, <3>3 DEF Core
  <2>9. Mid(o, f, k)
    <3>1. /\ f.fill # None /\ f.status = "open"
          /\ f.mae >= -Worst(o, k) /\ f.mfe >= Best(o, k)
          /\ Worst(o, k) > -o.risk => f.mae < o.risk
          /\ Best(o, k) < o.target => f.mfe < o.target
      BY <2>6 DEF Mid
    <3>2. f.fired # None
      BY <2>6, <2>7
    <3> QED
      BY <2>8, <3>1, <3>2 DEF Mid
  <2>10. t = f /\ f.fired # None /\ f.fill = s.fill /\ f.stop >= s.stop
    BY <2>1, <2>4, <2>6, <2>7
  <2> QED
    BY <1>3, <2>9, <2>10 DEF t
<1> QED
  BY <1>1, <1>2, <1>3 DEF OrderOK

\* The leg towards the target, on which the rule acts first.
LEMMA ProfitLegEffect ==
  ASSUME NEW o, OrderOK(o), NEW s, NEW k \in Candles, NEW minute \in Nat, Mid(o, s, k)
  PROVE  LET r == RunProfitLeg(o, s, k, minute) IN
         IF Best(o, k) >= o.target
           THEN /\ Core(o, r) /\ ClosedOK(o, r) /\ r.status = "TP" /\ r.fill = s.fill
                /\ r.exit = minute
           ELSE /\ Mid(o, r, k) /\ r.fill = s.fill /\ r.stop >= s.stop /\ r.mfe < o.target
                /\ o.rule # None /\ r.mfe >= o.rule.trigger => r.fired # None
                /\ o.rule = None => r = s
<1> DEFINE t == Trigger(o, s, k, minute)
           r == RunProfitLeg(o, s, k, minute)
           leg == ProfitLeg(o, k)
           x == Exit(t, "TP", minute, leg, o.target)
<1>1. /\ Mid(o, t, k) /\ t.fill = s.fill /\ t.stop >= s.stop
      /\ o.rule # None /\ t.mfe >= o.rule.trigger => t.fired # None
      /\ o.rule = None => t = s
  BY TriggerEffect
<1>2. r = IF Best(o, k) >= o.target THEN x ELSE t
  BY DEF RunProfitLeg, TargetHit, Mid
<1>3. leg \in 0 .. 2 /\ Best(o, k) \in Int
  BY Legs, CandleSpans
<1> HIDE DEF t, r, leg
<1>4. CASE Best(o, k) >= o.target
  <2>1. t \in Sims /\ t.mfe \in Nat /\ o.target \in Nat /\ o.target > 0 /\ o.risk \in Nat
    BY <1>1, SimTyped DEF Mid, Core, OrderOK
  <2>2. "TP" \in Statuses /\ o.target \in Int
    BY <2>1 DEF Statuses
  <2>3. /\ x \in Sims /\ x.status = "TP" /\ x.exit = minute /\ x.at = o.target
        /\ x.mae = t.mae /\ x.mfe = t.mfe /\ x.fill = t.fill
        /\ x.fired = t.fired /\ x.moved = t.moved /\ x.stop = t.stop
    BY <1>3, <2>1, <2>2 DEF Exit, Sims
  <2> HIDE DEF x
  <2>4. Core(o, x)
    BY <1>1, <2>3 DEF Mid, Core
  <2>5. x.mfe >= o.target
    BY <1>1, <1>3, <1>4, <2>1, <2>3 DEF Mid
  <2>6. x.at \in -o.risk .. o.target
    BY <2>1, <2>3
  <2>7. ClosedOK(o, x)
    BY <1>1, <2>3, <2>5, <2>6 DEF ClosedOK, Mid
  <2> QED
    BY <1>1, <1>2, <1>4, <2>3, <2>4, <2>7 DEF r
<1>5. CASE ~(Best(o, k) >= o.target)
  <2>1. t.mfe < o.target
    BY <1>1, <1>3, <1>5 DEF Mid, OrderOK
  <2> QED
    BY <1>1, <1>2, <1>5, <2>1 DEF r
<1> QED
  BY <1>4, <1>5

\* A position that a candle has not closed has seen neither of its ends.
LEMMA MidIsOpen ==
  ASSUME NEW o, OrderOK(o), NEW s, NEW k \in Candles, Mid(o, s, k),
         Worst(o, k) > -o.risk, s.mfe < o.target,
         o.rule # None /\ s.mfe >= o.rule.trigger => s.fired # None
  PROVE  OpenOK(o, s, k.close)
<1>1. /\ s.mae \in Nat /\ s.mfe \in Nat /\ Worst(o, k) \in Int /\ Best(o, k) \in Int
      /\ Ahead(o, k.close) \in Int
      /\ Worst(o, k) <= Ahead(o, k.close) /\ Ahead(o, k.close) <= Best(o, k)
  BY SimTyped, CandleSpans DEF Mid, Core
<1>2. k.close \in Prices
  BY DEF Candles
<1>3. -s.mae <= Ahead(o, k.close) /\ Ahead(o, k.close) <= s.mfe
  BY <1>1 DEF Mid
<1> QED
  BY <1>2, <1>3 DEF Mid, OpenOK, Within

\* The two legs of a candle.
RunLegs(o, s, k, minute) ==
  IF StopLeg(o, k) = 1
    THEN RunProfitLeg(o, RunStopLeg(o, s, k, minute), k, minute)
    ELSE RunStopLeg(o, RunProfitLeg(o, s, k, minute), k, minute)

\* The candle reaches the target before anything stops it.
Reaches(o, k) == Best(o, k) >= o.target /\ (StopLeg(o, k) # 1 \/ Worst(o, k) > -o.risk)

LEMMA LegsEffect ==
  ASSUME NEW o, OrderOK(o), NEW s, NEW k \in Candles, NEW minute \in Nat, Mid(o, s, k)
  PROVE  LET r == RunLegs(o, s, k, minute) IN
         /\ SimOK(o, r, k.close) /\ r.fill = s.fill /\ r.status # "NOT_FILLED"
         /\ Worst(o, k) <= -o.risk \/ Best(o, k) >= o.target => r.status # "open"
         /\ r.status = "TP" => Reaches(o, k) /\ r.exit = minute
         /\ o.rule = None /\ r.status # "open" => Worst(o, k) <= -o.risk \/ Best(o, k) >= o.target
         /\ o.rule = None /\ Reaches(o, k) => r.status = "TP"
<1> DEFINE r == RunLegs(o, s, k, minute)
<1>1. /\ s.stop \in Int /\ s.stop >= -o.risk /\ (o.rule = None => s.stop = -o.risk)
      /\ o.risk \in Nat /\ o.target \in Nat /\ Worst(o, k) \in Int /\ Best(o, k) \in Int
  <2>1. o.rule = None => ~s.moved
    BY DEF Mid, Core
  <2>2. s.stop = -o.risk \/ (s.stop = o.rule.newStop /\ s.stop \in Nat /\ o.rule # None)
    BY DEF Mid, Core, OrderOK
  <2> QED
    BY <2>1, <2>2, CandleSpans DEF Mid, Core, OrderOK
<1>2. CASE StopLeg(o, k) = 1 /\ Worst(o, k) <= s.stop
  <2> DEFINE f == RunStopLeg(o, s, k, minute)
  <2>1. Core(o, f) /\ ClosedOK(o, f) /\ f.status \in {"SL", "BE"} /\ f.fill = s.fill
    BY <1>2, StopLegEffect
  <2>2. r = f
    BY <1>2, <2>1 DEF RunLegs, RunProfitLeg
  <2> HIDE DEF f, r
  <2>3. o.rule = None => Worst(o, k) <= -o.risk /\ ~Reaches(o, k)
    BY <1>1, <1>2 DEF Reaches
  <2> QED
    BY <2>1, <2>2, <2>3 DEF SimOK, r
<1>3. CASE StopLeg(o, k) = 1 /\ ~(Worst(o, k) <= s.stop)
  <2> DEFINE f == RunProfitLeg(o, s, k, minute)
  <2>1. r = f /\ Worst(o, k) > -o.risk
    BY <1>3, StopLegEffect DEF RunLegs
  <2>2. CASE Best(o, k) >= o.target
    <3>1. Core(o, f) /\ ClosedOK(o, f) /\ f.status = "TP" /\ f.fill = s.fill /\ f.exit = minute
      BY <2>2, ProfitLegEffect
    <3>2. Reaches(o, k)
      BY <2>1, <2>2 DEF Reaches
    <3> QED
      BY <2>1, <2>2, <3>1, <3>2 DEF SimOK, r
  <2>3. CASE ~(Best(o, k) >= o.target)
    <3>1. /\ Mid(o, f, k) /\ f.mfe < o.target /\ f.fill = s.fill
          /\ o.rule # None /\ f.mfe >= o.rule.trigger => f.fired # None
      BY <2>3, ProfitLegEffect
    <3>2. OpenOK(o, f, k.close)
      BY <2>1, <3>1, MidIsOpen
    <3>3. ~(Worst(o, k) <= -o.risk) /\ ~Reaches(o, k)
      BY <1>1, <2>1, <2>3 DEF Reaches
    <3> QED
      BY <2>1, <2>3, <3>1, <3>2, <3>3 DEF SimOK, Mid, r
  <2> QED
    BY <2>2, <2>3
<1>4. CASE StopLeg(o, k) # 1 /\ Best(o, k) >= o.target
  <2> DEFINE f == RunProfitLeg(o, s, k, minute)
  <2>1. Core(o, f) /\ ClosedOK(o, f) /\ f.status = "TP" /\ f.fill = s.fill /\ f.exit = minute
    BY <1>4, ProfitLegEffect
  <2>2. r = f
    BY <1>4, <2>1 DEF RunLegs, RunStopLeg
  <2>3. Reaches(o, k)
    BY <1>4 DEF Reaches
  <2> QED
    BY <1>4, <2>1, <2>2, <2>3 DEF SimOK, r
<1>5. CASE StopLeg(o, k) # 1 /\ ~(Best(o, k) >= o.target)
  <2> DEFINE p == RunProfitLeg(o, s, k, minute)
             f == RunStopLeg(o, p, k, minute)
  <2>1. /\ Mid(o, p, k) /\ p.mfe < o.target /\ p.fill = s.fill /\ p.stop >= s.stop
        /\ o.rule # None /\ p.mfe >= o.rule.trigger => p.fired # None
        /\ o.rule = None => p = s
    BY <1>5, ProfitLegEffect
  <2>2. r = f
    BY <1>5 DEF RunLegs
  <2>3. ~Reaches(o, k) /\ p.stop \in Int
    BY <1>5, <2>1, SimTyped DEF Reaches, Mid, Core
  <2> HIDE DEF p
  <2>4. CASE Worst(o, k) <= p.stop
    <3>1. Core(o, f) /\ ClosedOK(o, f) /\ f.status \in {"SL", "BE"} /\ f.fill = p.fill
      BY <2>1, <2>4, StopLegEffect
    <3>2. o.rule = None => Worst(o, k) <= -o.risk
      BY <1>1, <2>1, <2>4
    <3> QED
      BY <2>1, <2>2, <2>3, <3>1, <3>2 DEF SimOK, r
  <2>5. CASE ~(Worst(o, k) <= p.stop)
    <3>1. f = p /\ Worst(o, k) > -o.risk
      BY <2>1, <2>5, StopLegEffect
    <3>2. OpenOK(o, p, k.close)
      BY <2>1, <3>1, MidIsOpen
    <3>3. ~(Worst(o, k) <= -o.risk)
      BY <1>1, <3>1
    <3> QED
      BY <1>5, <2>1, <2>2, <2>3, <3>1, <3>2, <3>3 DEF SimOK, Mid, r
  <2> QED
    BY <2>4, <2>5
<1> QED
  BY <1>2, <1>3, <1>4, <1>5

\* A position on a candle.
LEMMA Enters ==
  ASSUME NEW o, OrderOK(o), NEW s, NEW close, SimOK(o, s, close),
         NEW k \in Candles, NEW minute \in Nat
  PROVE  LET e == Enter(o, s, k, minute) IN
         /\ Core(o, e) /\ e.status = s.status /\ (e.fill = s.fill \/ e.fill = minute)
         /\ s.fill # None => e = s
         /\ e.fill = None /\ WaitOK(s) => WaitOK(e)
         /\ e.fill # None /\ s.status = "open" => Mid(o, Excursions(o, e, k, minute), k)
         /\ Excursions(o, e, k, minute).fill = e.fill
<1> DEFINE e == Enter(o, s, k, minute)
<1>1. /\ e \in Sims /\ (e.fill = s.fill \/ e.fill = minute)
      /\ s.fill # None => e = s
      /\ e.mae = s.mae /\ e.mfe = s.mfe /\ e.stop = s.stop /\ e.moved = s.moved
      /\ e.fired = s.fired /\ e.status = s.status /\ e.at = s.at
  BY EnterEffect DEF SimOK, Core
<1> HIDE DEF e
<1>2. Core(o, e)
  BY <1>1 DEF SimOK, Core
<1>3. e.fill = None /\ WaitOK(s) => WaitOK(e)
  BY <1>1 DEF WaitOK
<1>4. ASSUME e.fill # None, s.status = "open" PROVE Mid(o, Excursions(o, e, k, minute), k)
  <2>1. CASE WaitOK(s)
    <3>1. Within(o, e)
      BY <1>1, <2>1 DEF WaitOK, Within, OrderOK
    <3> QED
      BY <1>1, <1>2, <1>4, <3>1, ExcursionsMid
  <2>2. CASE OpenOK(o, s, close)
    <3>1. Within(o, e)
      BY <1>1, <2>2 DEF OpenOK, Within
    <3> QED
      BY <1>1, <1>2, <1>4, <3>1, ExcursionsMid
  <2> QED
    BY <1>4, <2>1, <2>2 DEF SimOK, ClosedOK
<1>5. Excursions(o, e, k, minute).fill = e.fill
  BY <1>1 DEF Excursions, Sims
<1> QED
  BY <1>1, <1>2, <1>3, <1>4, <1>5 DEF e

LEMMA ReplayedIs ==
  ASSUME NEW o, NEW s, NEW k, NEW minute
  PROVE  LET e == Enter(o, s, k, minute) IN
         Replayed(o, s, k, minute) =
           IF s.status # "open" \/ e.fill = None THEN e
           ELSE RunLegs(o, Excursions(o, e, k, minute), k, minute)
  BY DEF Replayed, RunLegs

LEMMA ReplayedOK ==
  ASSUME NEW o, OrderOK(o), NEW s, NEW close, SimOK(o, s, close), s.status # "NOT_FILLED",
         NEW k \in Candles, NEW minute \in Nat
  PROVE  /\ SimOK(o, Replayed(o, s, k, minute), k.close)
         /\ Replayed(o, s, k, minute).status # "NOT_FILLED"
<1> DEFINE e == Enter(o, s, k, minute)
           r == Replayed(o, s, k, minute)
<1>1. /\ Core(o, e) /\ e.status = s.status
      /\ s.fill # None => e = s
      /\ e.fill = None /\ WaitOK(s) => WaitOK(e)
      /\ e.fill # None /\ s.status = "open" => Mid(o, Excursions(o, e, k, minute), k)
  BY Enters
<1>2. r = IF s.status # "open" \/ e.fill = None THEN e
          ELSE RunLegs(o, Excursions(o, e, k, minute), k, minute)
  BY ReplayedIs
<1> HIDE DEF e, r
<1>3. CASE s.status # "open"
  <2>1. ClosedOK(o, s) /\ e = s
    BY <1>1, <1>3 DEF SimOK, WaitOK, OpenOK, ClosedOK
  <2> QED
    BY <1>1, <1>2, <1>3, <2>1 DEF SimOK, r
<1>4. CASE s.status = "open" /\ e.fill = None
  <2>1. WaitOK(s)
    BY <1>1, <1>4 DEF SimOK, OpenOK, ClosedOK
  <2> QED
    BY <1>1, <1>2, <1>4, <2>1 DEF SimOK, r
<1>5. CASE s.status = "open" /\ e.fill # None
  BY <1>1, <1>2, <1>5, LegsEffect DEF r
<1> QED
  BY <1>3, <1>4, <1>5

\* The end of the session closes what is open, at a price it has seen.
LEMMA EndedOK ==
  ASSUME NEW o, OrderOK(o), NEW s, SimOK(o, s, lastClose), now \in Nat
  PROVE  LET r == Ended(o, s) IN
         /\ SimOK(o, r, lastClose) /\ r.status # "open" /\ r.fill = s.fill /\ r.armed = s.armed
         /\ s.status # "open" => r = s
         /\ s.status = "open" => r.status \in {"NOT_FILLED", "EOD"}
<1> DEFINE r == Ended(o, s)
           n == [s EXCEPT !.status = "NOT_FILLED"]
           at == Ahead(o, lastClose)
           x == Exit(s, "EOD", now, 2, at)
<1>1. r = IF s.status # "open" THEN s ELSE IF s.fill = None THEN n ELSE x
  BY DEF Ended
<1>2. s \in Sims /\ s.mae \in Nat /\ s.mfe \in Nat
  BY SimTyped DEF SimOK, Core
<1> HIDE DEF r
<1>3. CASE s.status # "open"
  BY <1>1, <1>3 DEF r
<1>4. CASE s.status = "open" /\ s.fill = None
  <2>1. WaitOK(s)
    BY <1>4 DEF SimOK, OpenOK, ClosedOK
  <2>2. n \in Sims
    BY <1>2 DEF Sims, Statuses
  <2>3. /\ n.status = "NOT_FILLED" /\ n.fill = s.fill /\ n.mae = s.mae /\ n.mfe = s.mfe
        /\ n.fired = s.fired /\ n.moved = s.moved /\ n.stop = s.stop
    BY <1>2 DEF Sims
  <2>a. n.armed = s.armed
    BY <1>2 DEF Sims
  <2> HIDE DEF n
  <2>4. Core(o, n)
    BY <2>2, <2>3 DEF SimOK, Core
  <2>5. WaitOK(n)
    BY <2>1, <2>3 DEF WaitOK
  <2> QED
    BY <1>1, <1>4, <2>a, <2>3, <2>4, <2>5 DEF SimOK, r
<1>5. CASE s.status = "open" /\ s.fill # None
  <2>1. OpenOK(o, s, lastClose)
    BY <1>5 DEF SimOK, WaitOK, ClosedOK
  <2>2. at \in Int /\ at \in -o.risk .. o.target
    <3>1. at \in Int
      <4>1. lastClose \in Int
        BY <2>1 DEF OpenOK
      <4> QED
        BY <4>1, AheadIsInt
    <3> QED
      BY <1>2, <2>1, <3>1 DEF OpenOK, Within, OrderOK
  <2> HIDE DEF at
  <2>3. x \in Sims
    <3>1. "EOD" \in Statuses /\ now \in Nat \cup {None} /\ 2 \in 0 .. 2
      BY DEF Statuses
    <3> QED
      BY <1>2, <2>2, <3>1 DEF Sims, Exit
  <2>4. /\ x.status = "EOD" /\ x.at = at /\ x.fill = s.fill /\ x.mae = s.mae /\ x.mfe = s.mfe
        /\ x.fired = s.fired /\ x.moved = s.moved /\ x.stop = s.stop
    BY <1>2 DEF Sims, Exit
  <2>a. x.armed = s.armed
    BY <1>2 DEF Sims, Exit
  <2> HIDE DEF x
  <2>5. Core(o, x)
    BY <2>3, <2>4 DEF SimOK, Core
  <2>6. Within(o, x)
    BY <2>1, <2>4 DEF OpenOK, Within
  <2>7. ClosedOK(o, x)
    BY <1>5, <2>2, <2>4, <2>6 DEF ClosedOK
  <2> QED
    BY <1>1, <1>5, <2>a, <2>4, <2>5, <2>7 DEF SimOK, r
<1> QED
  BY <1>3, <1>4, <1>5

\* What the part taken at the trigger and the runner make together.
LEMMA ResultInBracket ==
  ASSUME NEW o, OrderOK(o), NEW s, Core(o, s), s.at \in -o.risk .. o.target
  PROVE  PerUnit(o, s) \in -Unit * o.risk .. Unit * o.target
<1> DEFINE a == Taken(o, s)
           b == Unit - a
           g == IF s.fired = None THEN 0 ELSE a * o.rule.trigger
<1>1. s.at \in Int /\ o.risk \in Nat /\ o.target \in Nat /\ Unit \in Nat \ {0}
  BY DEF OrderOK
<1>2. a \in Nat /\ a < Unit
  BY DEF Taken, Core, OrderOK
<1>3. b \in Nat \ {0} /\ a + b = Unit
  BY <1>1, <1>2
<1>4. g \in Int /\ 0 <= g /\ g <= a * o.target
  <2>1. 0 <= a * o.target /\ a * o.target \in Int
    BY <1>1, <1>2
  <2>2. CASE s.fired = None
    BY <2>1, <2>2
  <2>3. CASE s.fired # None
    <3>1. o.rule.trigger \in Int /\ 0 <= o.rule.trigger /\ o.rule.trigger <= o.target
      BY <1>1, <2>3 DEF Core, OrderOK
    <3>2. 0 <= a * o.rule.trigger /\ a * o.rule.trigger <= a * o.target /\ a * o.rule.trigger \in Int
      <4> HIDE DEF a
      <4>1. CASE a = 0
        BY <1>1, <3>1, <4>1
      <4>2. CASE a # 0
        <5>1. a \in Nat \ {0}
          BY <1>2, <4>2
        <5>2. a * 0 <= a * o.rule.trigger /\ a * o.rule.trigger <= a * o.target
          BY <1>1, <3>1, <5>1, Scales
        <5> QED
          BY <3>1, <5>1, <5>2
      <4> QED
        BY <4>1, <4>2
    <3> QED
      BY <2>3, <3>2
  <2> QED
    BY <2>2, <2>3
<1>5. PerUnit(o, s) = g + b * s.at
  BY DEF PerUnit
<1> HIDE DEF a, b, g
<1>6. b * s.at \in Int /\ b * (-o.risk) <= b * s.at /\ b * s.at <= b * o.target
  <2>1. -o.risk \in Int /\ -o.risk <= s.at /\ s.at <= o.target
    BY <1>1
  <2> QED
    BY <1>1, <1>3, <2>1, Scales
<1>7. /\ a * o.target + b * o.target = Unit * o.target
      /\ -Unit * o.risk <= b * (-o.risk)
  <2>1. a * o.target + b * o.target = (a + b) * o.target
    BY <1>1, <1>2, <1>3
  <2>2. a * o.risk + b * o.risk = (a + b) * o.risk /\ 0 <= a * o.risk /\ a * o.risk \in Int
    BY <1>1, <1>2, <1>3
  <2>3. b * (-o.risk) = -(b * o.risk) /\ -Unit * o.risk = -(Unit * o.risk) /\ b * o.risk \in Int
    BY <1>1, <1>3
  <2>4. Unit * o.risk \in Int
    BY <1>1
  <2> QED
    BY <1>3, <2>1, <2>2, <2>3, <2>4
<1>8. /\ a * o.target \in Int /\ b * o.target \in Int /\ Unit * o.target \in Int
      /\ b * (-o.risk) \in Int /\ -Unit * o.risk \in Int
  BY <1>1, <1>2, <1>3
<1> QED
  BY <1>4, <1>5, <1>6, <1>7, <1>8

------------------------------------------------------------------------------
(* An order and its unmanaged twin.                                         *)

Twins(o, p) == SameBracket(o, p) /\ o.rule # None /\ p.rule = None

\* They enter together, the managed one is never open alone, and it meets the target
\* only with the other.
Tighter(s, t) ==
  /\ s.fill = t.fill /\ (s.fill = None => s.armed = t.armed)
  /\ s.status = "open" => t.status = "open"
  /\ s.status = "TP" => t.status = "TP" /\ t.exit = s.exit

LEMMA SameSight ==
  ASSUME NEW o, NEW p, SameBracket(o, p), NEW k \in Candles
  PROVE  /\ Worst(o, k) = Worst(p, k) /\ Best(o, k) = Best(p, k)
         /\ Ahead(o, k.open) = Ahead(p, k.open) /\ StopLeg(o, k) = StopLeg(p, k)
         /\ \A minute : InWindow(o, minute) = InWindow(p, minute)
         /\ Reaches(o, k) = Reaches(p, k)
  BY DEF SameBracket, Worst, Best, Ahead, Dir, StopLeg, InWindow, Reaches

LEMMA EnterDecides ==
  ASSUME NEW o, OrderOK(o), NEW s \in Sims, NEW k \in Candles, NEW minute \in Nat, s.fill = None
  PROVE  LET e == Enter(o, s, k, minute) IN
         /\ ~InWindow(o, minute) => e = s
         /\ InWindow(o, minute) /\ Touches(o, s, k) => e.fill = minute
         /\ InWindow(o, minute) /\ ~Touches(o, s, k) =>
              e.fill = None /\ e.armed = (s.armed \/ Best(o, k) >= 0)
<1> DEFINE e == Enter(o, s, k, minute)
           c == Approach(o, k)
           near == IF s.closest = None \/ c < s.closest THEN [s EXCEPT !.closest = c] ELSE s
           l == IF Ahead(o, k.open) <= 0 THEN 0 ELSE StopLeg(o, k)
           filled == [near EXCEPT !.fill = minute, !.fillLeg = l]
           b == near.armed \/ Best(o, k) >= 0
           armed == [near EXCEPT !.armed = b]
<1>1. c \in Nat
  BY CandleSpans DEF Approach
<1>2. near \in Sims /\ near.fill = s.fill /\ near.armed = s.armed
  <2> HIDE DEF c
  <2> QED
    BY <1>1 DEF Sims
<1>3. e = IF ~InWindow(o, minute) THEN s ELSE IF Touches(o, s, k) THEN filled ELSE armed
  BY DEF Enter
<1>4. b = (s.armed \/ Best(o, k) >= 0)
  BY <1>2
<1> HIDE DEF e, c, near, l, b
<1>5. filled.fill = minute
  BY <1>2 DEF Sims
<1>6. armed.fill = None /\ armed.armed = b
  BY <1>2 DEF Sims
<1> HIDE DEF filled, armed
<1> QED
  BY <1>3, <1>4, <1>5, <1>6 DEF e

LEMMA EnterTogether ==
  ASSUME NEW o, OrderOK(o), NEW p, OrderOK(p), SameBracket(o, p),
         NEW s \in Sims, NEW t \in Sims, NEW k \in Candles, NEW minute \in Nat,
         s.fill = t.fill, s.fill = None => s.armed = t.armed
  PROVE  LET e == Enter(o, s, k, minute)
             f == Enter(p, t, k, minute)
         IN  e.fill = f.fill /\ (e.fill = None => e.armed = f.armed)
<1> DEFINE e == Enter(o, s, k, minute)
           f == Enter(p, t, k, minute)
<1>1. CASE s.fill # None
  BY <1>1, EnterEffect
<1>2. CASE s.fill = None
  <2>1. /\ InWindow(o, minute) = InWindow(p, minute) /\ Touches(o, s, k) = Touches(p, t, k)
        /\ (s.armed \/ Best(o, k) >= 0) = (t.armed \/ Best(p, k) >= 0)
    BY <1>2, SameSight DEF Touches
  <2>2. /\ ~InWindow(o, minute) => e = s
        /\ InWindow(o, minute) /\ Touches(o, s, k) => e.fill = minute
        /\ InWindow(o, minute) /\ ~Touches(o, s, k) =>
             e.fill = None /\ e.armed = (s.armed \/ Best(o, k) >= 0)
    BY <1>2, EnterDecides
  <2>3. /\ ~InWindow(p, minute) => f = t
        /\ InWindow(p, minute) /\ Touches(p, t, k) => f.fill = minute
        /\ InWindow(p, minute) /\ ~Touches(p, t, k) =>
             f.fill = None /\ f.armed = (t.armed \/ Best(p, k) >= 0)
    BY <1>2, EnterDecides
  <2>4. minute # None
    OBVIOUS
  <2> HIDE DEF e, f
  <2>5. CASE ~InWindow(o, minute)
    BY <1>2, <2>1, <2>2, <2>3, <2>5 DEF e, f
  <2>6. CASE InWindow(o, minute) /\ Touches(o, s, k)
    BY <2>1, <2>2, <2>3, <2>4, <2>6 DEF e, f
  <2>7. CASE InWindow(o, minute) /\ ~Touches(o, s, k)
    BY <2>1, <2>2, <2>3, <2>7 DEF e, f
  <2> QED
    BY <2>5, <2>6, <2>7
<1> QED
  BY <1>1, <1>2

LEMMA TwinsStayTight ==
  ASSUME NEW o, OrderOK(o), NEW p, OrderOK(p), Twins(o, p), NEW close,
         NEW s, SimOK(o, s, close), s.status # "NOT_FILLED",
         NEW t, SimOK(p, t, close), t.status # "NOT_FILLED",
         Tighter(s, t), NEW k \in Candles, NEW minute \in Nat
  PROVE  Tighter(Replayed(o, s, k, minute), Replayed(p, t, k, minute))
<1> DEFINE e == Enter(o, s, k, minute)
           f == Enter(p, t, k, minute)
           x == Excursions(o, e, k, minute)
           y == Excursions(p, f, k, minute)
           q == Replayed(o, s, k, minute)
           r == Replayed(p, t, k, minute)
<1>1. e.fill = f.fill /\ (e.fill = None => e.armed = f.armed)
  BY EnterTogether DEF Twins, Tighter, SimOK, Core
<1>2. /\ e.status = s.status /\ (s.fill # None => e = s) /\ x.fill = e.fill
      /\ e.fill # None /\ s.status = "open" => Mid(o, x, k)
  BY Enters
<1>3. /\ f.status = t.status /\ (t.fill # None => f = t) /\ y.fill = f.fill
      /\ f.fill # None /\ t.status = "open" => Mid(p, y, k)
  BY Enters
<1>4. q = IF s.status # "open" \/ e.fill = None THEN e ELSE RunLegs(o, x, k, minute)
  BY ReplayedIs
<1>5. r = IF t.status # "open" \/ f.fill = None THEN f ELSE RunLegs(p, y, k, minute)
  BY ReplayedIs
<1>6. s.status # "open" => s.fill # None /\ e = s
  BY <1>2 DEF SimOK, WaitOK, OpenOK, ClosedOK
<1>7. t.status # "open" => t.fill # None /\ f = t
  BY <1>3 DEF SimOK, WaitOK, OpenOK, ClosedOK
<1> HIDE DEF e, f, x, y, q, r
<1>8. CASE e.fill = None
  <2>1. q = e /\ r = f /\ s.status = "open" /\ t.status = "open"
    BY <1>1, <1>4, <1>5, <1>6, <1>7, <1>8
  <2> QED
    BY <1>1, <1>2, <1>3, <2>1 DEF Tighter, q, r
<1>9. CASE e.fill # None /\ s.status # "open" /\ t.status # "open"
  BY <1>4, <1>5, <1>6, <1>7, <1>9 DEF Tighter, q, r
<1>10. CASE e.fill # None /\ s.status # "open" /\ t.status = "open"
  <2>1. q = s /\ s.status # "TP"
    BY <1>4, <1>6, <1>10 DEF Tighter
  <2>2. r.fill = y.fill
    BY <1>1, <1>3, <1>5, <1>10, LegsEffect
  <2> QED
    BY <1>1, <1>3, <1>6, <1>10, <2>1, <2>2 DEF Tighter, q, r
<1>11. CASE e.fill # None /\ s.status = "open"
  <2>1. t.status = "open"
    BY <1>11 DEF Tighter
  <2>2. q = RunLegs(o, x, k, minute) /\ Mid(o, x, k)
    BY <1>2, <1>4, <1>11
  <2>3. r = RunLegs(p, y, k, minute) /\ Mid(p, y, k)
    BY <1>1, <1>3, <1>5, <1>11, <2>1
  <2>4. /\ q.fill = x.fill
        /\ Worst(o, k) <= -o.risk \/ Best(o, k) >= o.target => q.status # "open"
        /\ q.status = "TP" => Reaches(o, k) /\ q.exit = minute
    BY <2>2, LegsEffect
  <2>5. /\ r.fill = y.fill
        /\ r.status = "TP" => r.exit = minute
        /\ r.status # "open" => Worst(p, k) <= -p.risk \/ Best(p, k) >= p.target
        /\ Reaches(p, k) => r.status = "TP"
    BY <2>3, LegsEffect DEF Twins
  <2>6. /\ Worst(o, k) = Worst(p, k) /\ Best(o, k) = Best(p, k) /\ Reaches(o, k) = Reaches(p, k)
        /\ o.risk = p.risk /\ o.target = p.target
    BY SameSight DEF Twins, SameBracket
  <2> QED
    BY <1>1, <1>2, <1>3, <1>11, <2>4, <2>5, <2>6 DEF Tighter, q, r
<1> QED
  BY <1>8, <1>9, <1>10, <1>11

------------------------------------------------------------------------------
(* The session.                                                             *)

Running == phase \in {"running", "done"}

SessionInv ==
  /\ phase \in {"posted", "rejected", "running", "done"}
  /\ now \in 0 .. MaxCandles /\ lastClose \in Prices \cup {None}
  /\ phase = "posted" => orders \in Books
  /\ ~Running => sim = <<>>
  /\ Running =>
       /\ DOMAIN sim = DOMAIN orders
       /\ \A i \in DOMAIN sim : OrderOK(orders[i]) /\ SimOK(orders[i], sim[i], lastClose)
  /\ phase = "running" => \A i \in DOMAIN sim : sim[i].status # "NOT_FILLED"
  /\ phase = "done" => \A i \in DOMAIN sim : sim[i].status # "open"

TwinInv ==
  Running => \A i, j \in DOMAIN sim : Twins(orders[i], orders[j]) => Tighter(sim[i], sim[j])

LEMMA UnfilledOK ==
  ASSUME NEW o, OrderOK(o), NEW close
  PROVE  /\ SimOK(o, Unfilled(o), close) /\ Unfilled(o).status = "open"
         /\ Unfilled(o).fill = None /\ Unfilled(o).armed = FALSE
<1> DEFINE u == Unfilled(o)
<1>1. u \in Sims
  BY DEF Unfilled, Sims, OrderOK
<1>2. /\ u.status = "open" /\ u.fill = None /\ u.mae = 0 /\ u.mfe = 0 /\ u.fired = None
      /\ u.stop = -o.risk
  BY DEF Unfilled
<1>3. u.moved = FALSE /\ u.armed = FALSE
  BY DEF Unfilled
<1> HIDE DEF u
<1> QED
  BY <1>1, <1>2, <1>3 DEF SimOK, Core, WaitOK, u

LEMMA NormalizeOK ==
  ASSUME SessionInv, Normalize
  PROVE  SessionInv' /\ TwinInv'
<1>1. phase = "posted" /\ orders \in Books /\ sim = <<>> /\ UNCHANGED <<now, lastClose>>
  BY DEF Normalize, SessionInv, Running
<1>2. CASE ~Accepted(orders)
  <2>1. phase' = "rejected" /\ sim' = <<>>
    BY <1>1, <1>2 DEF Normalize
  <2> QED
    BY <1>1, <2>1 DEF SessionInv, TwinInv, Running
<1>3. CASE Accepted(orders)
  <2>1. /\ phase' = "running"
        /\ orders' = [i \in DOMAIN orders |-> Normalized(orders[i], IdOf(orders, i))]
        /\ sim' = [i \in DOMAIN orders |-> Unfilled(orders'[i])]
    BY <1>3 DEF Normalize
  <2>2. ASSUME NEW i \in DOMAIN orders
        PROVE  /\ OrderOK(orders'[i])
               /\ SimOK(orders'[i], sim'[i], lastClose) /\ sim'[i].status = "open"
               /\ sim'[i].fill = None /\ sim'[i].armed = FALSE
    <3>1. OrderOK(orders'[i])
      BY <1>1, <1>3, <2>1, ValidIsOK DEF Accepted
    <3> QED
      BY <2>1, <3>1, UnfilledOK
  <2>3. DOMAIN sim' = DOMAIN orders /\ DOMAIN orders' = DOMAIN orders
    BY <2>1
  <2>4. SessionInv'
    BY <1>1, <2>1, <2>2, <2>3 DEF SessionInv, Running
  <2>5. TwinInv'
    BY <2>2, <2>3 DEF TwinInv, Tighter
  <2> QED
    BY <2>4, <2>5
<1> QED
  BY <1>2, <1>3

LEMMA FeedOK ==
  ASSUME SessionInv, TwinInv, Feed
  PROVE  SessionInv' /\ TwinInv'
<1>1. /\ phase = "running" /\ phase' = "running" /\ orders' = orders /\ now' = now + 1
      /\ now < MaxCandles /\ now \in Nat
  BY DEF Feed, SessionInv
<1>2. PICK k \in Candles :
        /\ sim' = [i \in DOMAIN sim |-> Replayed(orders[i], sim[i], k, now + 1)]
        /\ lastClose' = k.close
  BY DEF Feed
<1>3. DOMAIN sim' = DOMAIN sim /\ DOMAIN sim = DOMAIN orders
  BY <1>1, <1>2 DEF SessionInv, Running
<1>4. ASSUME NEW i \in DOMAIN sim
      PROVE  /\ OrderOK(orders[i]) /\ SimOK(orders[i], sim[i], lastClose)
             /\ sim[i].status # "NOT_FILLED"
             /\ sim'[i] = Replayed(orders[i], sim[i], k, now + 1)
  BY <1>1, <1>2 DEF SessionInv, Running
<1>5. ASSUME NEW i \in DOMAIN sim
      PROVE  SimOK(orders[i], sim'[i], k.close) /\ sim'[i].status # "NOT_FILLED"
  BY <1>1, <1>4, ReplayedOK
<1>6. k.close \in Prices
  BY DEF Candles
<1>7. SessionInv'
  BY <1>1, <1>2, <1>3, <1>4, <1>5, <1>6 DEF SessionInv, Running
<1>8. ASSUME NEW i \in DOMAIN sim, NEW j \in DOMAIN sim, Twins(orders[i], orders[j])
      PROVE  Tighter(sim'[i], sim'[j])
  <2>1. Tighter(sim[i], sim[j])
    BY <1>1, <1>8 DEF TwinInv, Running
  <2> QED
    BY <1>1, <1>4, <1>8, <2>1, TwinsStayTight
<1>9. TwinInv'
  BY <1>1, <1>3, <1>8 DEF TwinInv
<1> QED
  BY <1>7, <1>9

LEMMA FinishOK ==
  ASSUME SessionInv, TwinInv, Finish
  PROVE  SessionInv' /\ TwinInv'
<1>1. /\ phase = "running" /\ phase' = "done" /\ orders' = orders /\ now' = now
      /\ lastClose' = lastClose /\ now \in Nat
      /\ sim' = [i \in DOMAIN sim |-> Ended(orders[i], sim[i])]
  BY DEF Finish, SessionInv
<1>2. DOMAIN sim' = DOMAIN sim /\ DOMAIN sim = DOMAIN orders
  BY <1>1 DEF SessionInv, Running
<1>3. ASSUME NEW i \in DOMAIN sim
      PROVE  /\ OrderOK(orders[i]) /\ SimOK(orders[i], sim'[i], lastClose)
             /\ sim'[i].status # "open" /\ sim'[i].fill = sim[i].fill
             /\ sim'[i].armed = sim[i].armed
             /\ sim[i].status # "open" => sim'[i] = sim[i]
             /\ sim[i].status = "open" => sim'[i].status \in {"NOT_FILLED", "EOD"}
  <2>1. OrderOK(orders[i]) /\ SimOK(orders[i], sim[i], lastClose)
    BY <1>1 DEF SessionInv, Running
  <2>2. sim'[i] = Ended(orders[i], sim[i])
    BY <1>1
  <2> QED
    BY <1>1, <2>1, <2>2, EndedOK
<1>4. SessionInv'
  BY <1>1, <1>2, <1>3 DEF SessionInv, Running
<1>5. ASSUME NEW i \in DOMAIN sim, NEW j \in DOMAIN sim, Twins(orders[i], orders[j])
      PROVE  Tighter(sim'[i], sim'[j])
  <2>1. Tighter(sim[i], sim[j])
    BY <1>1, <1>5 DEF TwinInv, Running
  <2>2. sim'[i].fill = None => sim'[i].armed = sim'[j].armed
    BY <1>3, <2>1 DEF Tighter
  <2> QED
    BY <1>3, <2>1, <2>2 DEF Tighter
<1>6. TwinInv'
  BY <1>1, <1>2, <1>5 DEF TwinInv
<1> QED
  BY <1>4, <1>6

LEMMA SessionHolds == Spec => [](SessionInv /\ TwinInv)
<1>1. Init => SessionInv /\ TwinInv
  BY DEF Init, SessionInv, TwinInv, Running
<1>2. SessionInv /\ TwinInv /\ [Next]_vars => SessionInv' /\ TwinInv'
  <2> SUFFICES ASSUME SessionInv, TwinInv, [Next]_vars PROVE SessionInv' /\ TwinInv'
    OBVIOUS
  <2>1. CASE Normalize
    BY <2>1, NormalizeOK
  <2>2. CASE Feed
    BY <2>2, FeedOK
  <2>3. CASE Finish
    BY <2>3, FinishOK
  <2>4. CASE UNCHANGED vars
    BY <2>4 DEF vars, SessionInv, TwinInv, Running
  <2> QED
    BY <2>1, <2>2, <2>3, <2>4 DEF Next
<1> QED
  BY <1>1, <1>2, PTL DEF Spec

\* simulateOrder's locals keep their type, one set of them for each order of the book.
THEOREM TypeCorrect == Spec => []TypeOK
<1>1. SessionInv => TypeOK
  BY DEF SessionInv, Running, TypeOK, SimOK, Core
<1> QED
  BY <1>1, SessionHolds, PTL

\* The excursions account for every exit: an open position has seen neither its stop nor
\* its target, the rule has fired exactly if its trigger was reached, and what closed a
\* position was seen (simulateOrder tracks the two separately).
THEOREM ExcursionsAccount == Spec => []ExcursionsExplain
<1>1. SessionInv => ExcursionsExplain
  <2> SUFFICES ASSUME SessionInv, NEW i \in DOMAIN sim, Filled(i)
               PROVE  LET o == orders[i]  s == sim[i] IN
                      /\ s.status \in {"open", "EOD"} =>
                           /\ s.mae < o.risk /\ s.mfe < o.target
                           /\ o.rule # None => (s.fired # None <=> s.mfe >= o.rule.trigger)
                      /\ s.status = "SL" => s.mae >= o.risk
                      /\ s.status = "TP" => s.mfe >= o.target
                      /\ s.fired # None => s.mfe >= o.rule.trigger
    BY DEF ExcursionsExplain
  <2> DEFINE o == orders[i]
             s == sim[i]
  <2>1. SimOK(o, s, lastClose) /\ s.fill # None
    BY DEF SessionInv, Running, Filled
  <2> HIDE DEF o, s
  <2>2. CASE OpenOK(o, s, lastClose)
    BY <2>1, <2>2 DEF SimOK, Core, OpenOK, Within, o, s
  <2>3. CASE ClosedOK(o, s)
    BY <2>1, <2>3 DEF SimOK, Core, ClosedOK, Within, o, s
  <2> QED
    BY <2>1, <2>2, <2>3 DEF SimOK, WaitOK
<1> QED
  BY <1>1, SessionHolds, PTL

\* Management only tightens a bracket, whatever the candles: the managed order fills with
\* its unmanaged twin, never outlives it, loses no more where the twin is stopped, and
\* reaches the target only with the twin.
THEOREM ManagedStaysTighter == Spec => []ManagedIsTighter
<1>1. SessionInv /\ TwinInv => ManagedIsTighter
  <2> SUFFICES ASSUME SessionInv, TwinInv, NEW i \in DOMAIN sim, NEW j \in DOMAIN sim,
                      SameBracket(orders[i], orders[j]), orders[i].rule # None,
                      orders[j].rule = None
               PROVE  /\ sim[i].fill = sim[j].fill
                      /\ sim[j].status # "open" => sim[i].status # "open"
                      /\ sim[j].status = "SL" => Result(i) >= Result(j)
                      /\ sim[i].status = "TP" => sim[j].status = "TP" /\ sim[j].exit = sim[i].exit
    BY DEF ManagedIsTighter
  <2> DEFINE o == orders[i]
             p == orders[j]
             s == sim[i]
             t == sim[j]
  <2>1. /\ OrderOK(o) /\ SimOK(o, s, lastClose)
        /\ OrderOK(p) /\ SimOK(p, t, lastClose)
    BY DEF SessionInv, Running
  <2>2. Tighter(s, t)
    BY DEF SessionInv, TwinInv, Running, Twins
  <2>3. o.risk = p.risk /\ p.rule = None
    BY DEF SameBracket
  <2> HIDE DEF o, p, s, t
  <2>4. ASSUME t.status = "SL" PROVE PerUnit(o, s) >= PerUnit(p, t)
    <3>1. ClosedOK(p, t) /\ t.at = -p.risk
      BY <2>1, <2>4 DEF SimOK, WaitOK, OpenOK, ClosedOK
    <3>2. ClosedOK(o, s)
      BY <2>1, <2>2, <2>4, <3>1 DEF SimOK, WaitOK, OpenOK, ClosedOK, Tighter
    <3>3. PerUnit(o, s) \in -Unit * o.risk .. Unit * o.target
      BY <2>1, <3>2, ResultInBracket DEF SimOK, ClosedOK
    <3>4. t.fired = None
      BY <2>1, <2>3 DEF SimOK, Core
    <3>5. PerUnit(p, t) = Unit * (-p.risk)
      <4>1. Taken(p, t) = 0
        BY <3>4 DEF Taken
      <4>2. PerUnit(p, t) = 0 + (Unit - 0) * (-p.risk)
        BY <3>1, <3>4, <4>1 DEF PerUnit
      <4>3. p.risk \in Nat
        BY <2>1 DEF OrderOK
      <4> QED
        BY <4>2, <4>3
    <3>6. Unit * (-p.risk) = -Unit * o.risk
      BY <2>1, <2>3 DEF OrderOK
    <3> QED
      BY <3>3, <3>5, <3>6
  <2> QED
    BY <2>2, <2>4 DEF Tighter, Result, o, p, s, t
<1> QED
  BY <1>1, SessionHolds, PTL

\* R is fixed at inception: whatever leg, rule or last close ends it, a filled order loses
\* at most one R and wins at most its target.
THEOREM ResultsAreBounded == Spec => []ResultIsBounded
<1>1. SessionInv => ResultIsBounded
  <2> SUFFICES ASSUME SessionInv, NEW i \in DOMAIN sim, phase = "done", Filled(i)
               PROVE  Result(i) \in -Unit * orders[i].risk .. Unit * orders[i].target
    BY DEF ResultIsBounded
  <2>1. OrderOK(orders[i]) /\ SimOK(orders[i], sim[i], lastClose) /\ sim[i].status # "open"
    BY DEF SessionInv, Running
  <2>2. ClosedOK(orders[i], sim[i])
    BY <2>1 DEF SimOK, WaitOK, OpenOK, Filled
  <2> QED
    BY <2>1, <2>2, ResultInBracket DEF SimOK, ClosedOK, Result
<1> QED
  BY <1>1, SessionHolds, PTL
=============================================================================
