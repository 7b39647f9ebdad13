------------------------- MODULE MCEminiplayerIngest -------------------------
(* EminiplayerIngest over two neighbouring days of January 2026, Monday the   *)
(* 12th and Tuesday the 13th.  Tuesday's plan is listed before Monday's       *)
(* recap, so at first both days take Friday's; its page embeds a video whose  *)
(* title is right and whose content is Monday's, later the right one.  The    *)
(* listing also holds rows that must not be taken.                            *)
EXTENDS EminiplayerIngest, TLC

CONSTANTS qFri, qMon, pMon, pTue, pOther, vFri, vMonRecap, vMon, vTue, vWrong, vNew

Jan(d) == [y |-> 2026, m |-> 1, d |-> d]
On(d) == DayNumber(Jan(d))
MCDays == {On(12), On(13)}
MCRecapDates == {On(9), On(12)}

Row(kind, d, page) == [cell |-> Jan(d), kind |-> kind, printed |-> Jan(d),
                       weekday |-> Weekday(On(d)), page |-> page, home |-> TRUE]
Decoys == <<Row("other", 12, pOther), Row("recap", 13, pOther), [Row("recap", 11, pOther) EXCEPT !.cell = NoDate],
            [Row("recap", 10, pOther) EXCEPT !.cell.m = 13], [Row("tradePlan", 14, pOther) EXCEPT !.printed.d = 13]>>
Early == Decoys \o <<Row("tradePlan", 13, pTue), Row("tradePlan", 12, pMon), Row("recap", 9, qFri)>>
Mislabelled == <<[Row("tradePlan", 12, pMon) EXCEPT !.weekday = 2]>> \o Early
Late == <<Row("recap", 12, qMon)>> \o Early

Player(v) == [host |-> "youtube", path |-> "embed", wellFormed |-> TRUE, video |-> v]
Widget == [host |-> "other", path |-> "other", wellFormed |-> TRUE, video |-> vWrong]
Embeds(mon, tue) ==
  (qFri :> <<Widget, Player(vFri)>>) @@ (qMon :> <<Player(vMonRecap)>>) @@ (pMon :> <<Player(mon), Player(vWrong)>>)
    @@ (pTue :> <<Player(tue)>>) @@ (pOther :> <<Player(vWrong)>>)
Links == [p \in Pages |-> <<[pdf |-> FALSE, home |-> TRUE], [pdf |-> TRUE, home |-> TRUE]>>]
Shown(rows, mon, tue) == [rows |-> rows, embeds |-> Embeds(mon, tue), links |-> Links, today |-> On(13)]
MCSite == <<Shown(Mislabelled, vMon, vWrong), Shown(Early, vMon, vWrong), Shown(Late, vNew, vTue)>>

Called(flavor, d) == [flavors |-> {flavor}, dates |-> {[date |-> Jan(d), padded |-> TRUE]}]
Is(flavor, d) == [docType |-> flavor, isEs |-> TRUE, weekdays |-> {Weekday(On(d))}, confidence |-> "high"]
MCTitle == (vFri :> Called("recap", 9)) @@ (vMonRecap :> Called("recap", 12)) @@ (vMon :> Called("tradePlan", 12))
             @@ (vNew :> Called("tradePlan", 12)) @@ (vTue :> Called("tradePlan", 13)) @@ (vWrong :> Called("tradePlan", 13))
MCVerdict == (vFri :> Is("recap", 9)) @@ (vMonRecap :> Is("recap", 12)) @@ (vMon :> Is("tradePlan", 12))
             @@ (vNew :> Is("tradePlan", 12)) @@ (vTue :> [Is("tradePlan", 13) EXCEPT !.weekdays = {}]) @@ (vWrong :> Is("tradePlan", 12))
MCTranscript == [v \in Videos |-> Markdown([i \in 1 .. 3 |-> [ms |-> i * 1500000, chars |-> 20]])]
\* A prune that races takes the place of two failures.
MCCost == [kind \in Faults |-> IF kind = "race" THEN 2 ELSE 1]
MCWorksheet == [p \in Pages |-> [magic |-> TRUE, bytes |-> MinBytes, trailer |-> TRUE, pages |-> "packed"]]

------------------------------------------------------------------------------
(* The operators of EminiplayerArchive against what they stand for.         *)

\* Every small listing of Fridays' to Tuesdays' recaps: the pick is a recap of the
\* listing, before the day, and none of the listing lies between.
SmallRows == {Row(kind, d, pOther) : kind \in Flavors, d \in 9 .. 13}
NearestBefore(rows, day) ==
  LET dates == {RowDay(r) : r \in {x \in Range(rows) : x.kind = "recap" /\ InLookback(RowDay(x), day)}}
  IN  IF dates = {} THEN {} ELSE {Max(dates)}
ASSUME RecapIsNearest ==
  \A rows \in UNION {[1 .. n -> SmallRows] : n \in 0 .. 3}, d \in 12 .. 13 :
    {RowDay(r) : r \in Range(RecapFor(rows, On(d)))} = NearestBefore(rows, On(d))

\* Days are numbered one after the other, through leap years and turns of centuries.
ASSUME DaysFollow ==
  \A y \in {1999, 2000, 2023, 2024, 2100}, m \in 1 .. 12 :
    LET last == [y |-> y, m |-> m, d |-> MonthLength(m, y)]
        next == IF m = 12 THEN [y |-> y + 1, m |-> 1, d |-> 1] ELSE [y |-> y, m |-> m + 1, d |-> 1]
    IN  IsRealDate(last) /\ ~IsRealDate([last EXCEPT !.d = @ + 1]) /\ DayNumber(next) = DayNumber(last) + 1
ASSUME TodayIsTuesday == Weekday(On(13)) = 2

\* The stamps of a transcript say its seconds.
ASSUME StampsAreRead == \A s \in 0 .. 8000 : OffsetOf(Stamp(s)) = s

\* Shows is what a search of the printed text finds, over a year.
Slash == -1
Digits(n, padded) == IF n >= 10 \/ padded THEN <<n \div 10, n % 10>> ELSE <<n>>
Text(c, padded) == Digits(c.m, padded) \o <<Slash>> \o Digits(c.d, padded) \o <<Slash, c.y>>
Includes(text, form) == \E i \in 0 .. Len(text) - Len(form) : SubSeq(text, i + 1, i + Len(form)) = form
SomeDates == {[y |-> 2026, m |-> m, d |-> d] : m \in 1 .. 12, d \in {1, 2, 10, 11, 12, 21}}
ASSUME ShowsIsIncludes ==
  \A printed \in [date : SomeDates, padded : BOOLEAN], c \in SomeDates :
    Shows(printed, DayNumber(c)) <=>
      \E padded \in BOOLEAN : Includes(Text(printed.date, printed.padded), Text(c, padded))
==============================================================================
