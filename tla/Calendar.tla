------------------------------- MODULE Calendar -------------------------------
(* The calendar the dates of days, titles and contracts are computed with: the *)
(* proleptic Gregorian one of Date.UTC.  A date is [y, m, d]; a day is its     *)
(* number, a multiple of 7 on Sundays.                                         *)
EXTENDS Integers

Leap(y) == y % 4 = 0 /\ (y % 100 # 0 \/ y % 400 = 0)
MonthLength(m, y) == IF m = 2 THEN IF Leap(y) THEN 29 ELSE 28
                     ELSE IF m \in {4, 6, 9, 11} THEN 30 ELSE 31

DayNumber(c) ==
  LET past == c.y - 1
      before == <<0, 31, 59, 90, 120, 151, 181, 212, 243, 273, 304, 334>>
  IN  365 * past + past \div 4 - past \div 100 + past \div 400
        + before[c.m] + (IF c.m > 2 /\ Leap(c.y) THEN 1 ELSE 0) + c.d

Weekday(day) == day % 7          \* getUTCDay
==============================================================================
