------------------------- MODULE MCOrderSimulation -------------------------
(* Books for OrderSimulation on a ladder of eight prices that goes one beyond *)
(* the brackets: each rule with its unmanaged twin, long and short, and books *)
(* that are refused.                                                         *)
EXTENDS OrderSimulation

Order(id, side, entry, stop, target, from, rules) ==
  [id |-> id, side |-> side, entry |-> entry, stopLoss |-> stop, takeProfit |-> target,
   qty |-> 2, activeFrom |-> from, management |-> rules, typed |-> TRUE]
Rule(trigger, take, move) == [triggerR |-> trigger, takeFraction |-> take, moveStopToR |-> move]

Long(id, from, rules) == Order(id, "long", 3, 1, 6, from, rules)
Short(id, from, rules) == Order(id, "short", 4, 6, 1, from, rules)

\* At one R: half off and the stop half-way, at the entry, or one of the two.
Rules == {Rule(2, 1, 1), Rule(2, 1, 0), Rule(2, 1, None), Rule(2, None, 1)}

Played ==
  UNION {{<<Long(None, 3, <<r>>), Long(None, 3, <<>>)>>,
          <<Short(None, None, <<r>>), Short(None, None, <<>>)>>} : r \in Rules}

\* A stop on the wrong side, a trigger past the target, a rule without effect, two
\* rules, a moved stop at the trigger, and a default id that is taken.
Refused ==
  {<<Order(None, "long", 3, 4, 6, None, <<>>)>>,
   <<Long(None, None, <<Rule(4, 1, 0)>>)>>,
   <<Long(None, None, <<Rule(2, None, None)>>)>>,
   <<Long(None, None, <<Rule(2, 1, 0), Rule(2, 1, 0)>>)>>,
   <<Short(None, None, <<Rule(2, 1, 2)>>)>>,
   <<Long(<<"long", 2>>, None, <<>>), Long(None, None, <<>>)>>}

MCBooks == Played \cup Refused
=============================================================================
