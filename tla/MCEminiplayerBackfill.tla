------------------------ MODULE MCEminiplayerBackfill ------------------------
(* EminiplayerBackfill over two days as of Wednesday, January 14th 2026: the   *)
(* one before the frontier, and one within it whose recap is posted late.     *)
EXTENDS EminiplayerBackfill, TLC

CONSTANTS q30, q31, q1, p31, p2, v30, v31, v1, w31, w2

Dec(d) == [y |-> 2025, m |-> 12, d |-> d]
Jan(d) == [y |-> 2026, m |-> 1, d |-> d]
ASSUME TheDays == Days = {DayNumber(Dec(31)), DayNumber(Jan(2))}
ASSUME TheRecaps == RecapDates = {DayNumber(c) : c \in {Dec(30), Dec(31), Jan(1)}}
MCRanges == {<<Min(Days), Max(Days)>>}

Row(kind, c, weekday, page) == [cell |-> c, kind |-> kind, printed |-> c, weekday |-> weekday, page |-> page, home |-> TRUE]
Scraped == <<Row("tradePlan", Jan(2), 5, p2), Row("tradePlan", Dec(31), 3, p31), Row("recap", Dec(30), 2, q30),
             Row("recap", Dec(31), 3, q31)>>

Player(v) == <<[host |-> "youtu.be", path |-> "other", wellFormed |-> TRUE, video |-> v]>>
Embeds == [p \in Pages |-> Player(CASE p = q30 -> v30 [] p = q31 -> v31 [] p = q1 -> v1 [] p = p31 -> w31 [] p = p2 -> w2)]
Shown(rows) == [rows |-> rows, embeds |-> Embeds, links |-> [p \in Pages |-> <<[pdf |-> TRUE, home |-> TRUE]>>],
                today |-> 739630]
MCSite == [v \in {1, 2} |-> Shown(IF v = 1 THEN Scraped ELSE Append(Scraped, Row("recap", Jan(1), 4, q1)))]
ASSUME Posted == PostedWithinLookback
ASSUME Today == DayNumber(Jan(14)) = 739630

Flavor(v) == IF v \in {w31, w2} THEN "tradePlan" ELSE "recap"
Date(v) == CASE v = v30 -> Dec(30) [] v \in {v31, w31} -> Dec(31) [] v = v1 -> Jan(1) [] v = w2 -> Jan(2)
MCTitle == [v \in Videos |-> [flavors |-> {Flavor(v)}, dates |-> {[date |-> Date(v), padded |-> FALSE]}]]
MCVerdict == [v \in Videos |-> [docType |-> Flavor(v), isEs |-> TRUE, weekdays |-> {}, confidence |-> "medium"]]
MCTranscript == [v \in Videos |-> [header |-> TRUE, lines |-> <<[stamp |-> <<25, 0>>, chars |-> 60]>>]]
MCCost == [kind \in Faults |-> 1]
MCWorksheet == [p \in Pages |-> [magic |-> TRUE, bytes |-> MinBytes, trailer |-> TRUE, pages |-> "plain"]]
==============================================================================
