----------------------------- MODULE ContractRoll -----------------------------
(***************************************************************************)
(* Which contract's candles a day is graded on: the roll rule              *)
(* (contracts-roll.ts), the contracts the service knows, and the symbol a  *)
(* backtest reads, where a base that rolls stands for the day's quarterly. *)
(* A symbol is <<base>> or <<base, month code, year of the century>>.      *)
(***************************************************************************)
EXTENDS Calendar, Sequences

QuarterMonths == <<3, 6, 9, 12>>
MonthCodes == <<"H", "M", "U", "Z">>

\* The Monday of expiration week: four days before the third Friday.
RollSwitchMonday(year, month) ==
  LET first == Weekday(DayNumber([y |-> year, m |-> month, d |-> 1]))
      firstFriday == 1 + ((5 - first + 7) % 7)
  IN  firstFriday + 14 - 4

\* The month and day numbers of the code's date check, which lets June 31 pass.
IsDate(date) == date.m \in 1 .. 12 /\ date.d \in 1 .. 31

\* The first quarter month not before the date's own.
FrontQuarter(date) == CHOOSE i \in 1 .. 4 : QuarterMonths[i] >= date.m
                                     /\ (i > 1 => QuarterMonths[i - 1] < date.m)

\* Dates are compared as they are written, so only the front month itself can have switched.
Switched(date) ==
  LET month == QuarterMonths[FrontQuarter(date)] IN
  date.m = month /\ date.d >= RollSwitchMonday(date.y, month)

ResolveContract(date) ==
  LET next == FrontQuarter(date) + 1 IN
  IF ~Switched(date) THEN <<"ES", MonthCodes[FrontQuarter(date)], date.y % 100>>
  ELSE IF next <= Len(QuarterMonths) THEN <<"ES", MonthCodes[next], date.y % 100>>
  ELSE <<"ES", MonthCodes[1], (date.y + 1) % 100>>

------------------------------------------------------------------------------
Bases == {"MES", "ES", "NQ", "MNQ"}

\* ContractsService.get finds a spec: a base, or a quarterly of ES by its base's.
IsKnown(symbol) ==
  \/ Len(symbol) = 1 /\ symbol[1] \in Bases
  \/ Len(symbol) = 3 /\ symbol[1] = "ES" /\ \E i \in 1 .. 4 : MonthCodes[i] = symbol[2]

\* BacktestService.run: what it asks the market data for, or its refusal.
SymbolFor(symbol, date) ==
  IF ~IsKnown(symbol) THEN <<"404">>
  ELSE IF symbol # <<"ES">> THEN symbol
  ELSE IF IsDate(date) THEN ResolveContract(date) ELSE <<"400">>
==============================================================================
