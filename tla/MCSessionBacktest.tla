-------------------------- MODULE MCSessionBacktest --------------------------
(* Two days of three bars each and one before and after the session; and the  *)
(* contract of a day against the convention that docs/es-contract-roll-       *)
(* convention.md states and its evidence, day by day.                         *)
EXTENDS SessionBacktest, ContractRoll

CONSTANTS a, b, u

Row(t, v) == [t |-> t, v |-> v]
On(one, two) == 1 :> one @@ 2 :> two

Whole == <<Row(2, a), Row(4, a), Row(6, a)>>
\* The first day with a bar on either side of the session and no gap, the second
\* with one.
Archived == On(<<Row(0, a)>> \o Whole \o <<Row(8, a)>>, <<Row(2, a), Row(6, a)>>)
\* Fresher bars: one that fills the gap, and one given twice.
Updated == On(<<Row(4, b)>>, <<Row(4, a), Row(4, b)>>)
\* A later update, of a minute of the archive and of one of the other update.
Corrected == On(<<Row(6, b)>>, <<Row(4, u)>>)
\* A truncated export, and one of a finer interval.
Truncated == On(<<Row(2, b), Row(4, b)>>, <<>>)
Finer == On(<<Row(4, b), Row(5, b)>>, <<>>)

MCSheets == {Archived, Updated, Truncated, Finer, Malformed}
MCDisk == {[archive |-> TRUE, dir |-> 2, sheet |-> Archived],
           [archive |-> FALSE, dir |-> 1, sheet |-> Updated],
           [archive |-> FALSE, dir |-> 3, sheet |-> Corrected]}
------------------------------------------------------------------------------
Date(y, m, d) == [y |-> y, m |-> m, d |-> d]

\* The sheets and volumes of the convention's evidence, and a day over the new year.
ASSUME EvidenceHolds ==
  /\ \A row \in {<<3, 17>>, <<6, 16>>, <<9, 15>>, <<12, 15>>} : RollSwitchMonday(2025, row[1]) = row[2]
  /\ \A row \in {<<3, 16>>, <<6, 15>>} : RollSwitchMonday(2026, row[1]) = row[2]
  /\ ResolveContract(Date(2025, 3, 14)) = <<"ES", "H", 25>> /\ ResolveContract(Date(2025, 3, 17)) = <<"ES", "M", 25>>
  /\ ResolveContract(Date(2025, 6, 9)) = <<"ES", "M", 25>> /\ ResolveContract(Date(2025, 6, 17)) = <<"ES", "U", 25>>
  /\ ResolveContract(Date(2025, 12, 12)) = <<"ES", "Z", 25>> /\ ResolveContract(Date(2025, 12, 15)) = <<"ES", "H", 26>>
  /\ ResolveContract(Date(2026, 1, 2)) = <<"ES", "H", 26>>

\* The rule as the convention puts it: the contract of a day is the quarterly of the
\* first expiration, a third Friday, whose week's Monday is still to come.
YearDays(y) == UNION {{Date(y, m, d) : d \in 1 .. MonthLength(m, y)} : m \in 1 .. 12}
Expirations(y) ==
  {c \in UNION {YearDays(z) : z \in y .. y + 1} :
     c.m \in {3, 6, 9, 12} /\ c.d \in 15 .. 21 /\ Weekday(DayNumber(c)) = 5}
ASSUME RollFollowsTheRule ==
  \A y \in {1999, 2024, 2025, 2026} :
    LET expirations == Expirations(y) IN
    \A date \in YearDays(y) :
      LET ahead == {c \in expirations : DayNumber(date) < DayNumber(c) - 4}
          nearest == CHOOSE c \in ahead : \A o \in ahead : DayNumber(c) <= DayNumber(o)
      IN  SymbolFor(<<"ES">>, date) = <<"ES", MonthCodes[nearest.m \div 3], nearest.y % 100>>
            /\ IsKnown(ResolveContract(date))

\* Adjacent days differ by at most one roll, forward: nothing is skipped or repeated.
RollIndex(date) ==
  LET c == ResolveContract(date) IN
  4 * c[3] + CHOOSE i \in 1 .. 4 : MonthCodes[i] = c[2]
ASSUME RollsForward ==
  \A y \in 2024 .. 2027, m \in 1 .. 12 :
    LET first == IF m = 12 THEN Date(y + 1, 1, 1) ELSE Date(y, m + 1, 1)
        last == Date(y, m, MonthLength(m, y))
    IN  /\ RollIndex(first) = RollIndex(last)
        /\ RollIndex(last) = RollIndex(Date(y, m, 1)) + (IF m % 3 = 0 THEN 1 ELSE 0)

\* Other symbols are read as they are asked for.
ASSUME OthersPassThrough ==
  /\ SymbolFor(<<"ES", "H", 25>>, Date(2026, 7, 1)) = <<"ES", "H", 25>>
  /\ SymbolFor(<<"MES">>, Date(2026, 3, 17)) = <<"MES">>
  /\ SymbolFor(<<"NQ", "H", 25>>, Date(2026, 3, 17)) = <<"404">>
  /\ SymbolFor(<<"ES">>, Date(2026, 13, 1)) = <<"400">>
==============================================================================
