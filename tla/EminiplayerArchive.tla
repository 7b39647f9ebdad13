-------------------------- MODULE EminiplayerArchive --------------------------
(***************************************************************************)
(* What an ingest decides from what the site and YouTube show it, without  *)
(* any state: the selection of a day's entries from the archive listing    *)
(* (eminiplayer-archive.ts), the gates over titles, transcripts and pdfs   *)
(* (eminiplayer-validation.ts), over the model's verdict (the verify       *)
(* service), and the choice of a video and a pdf from a page's links       *)
(* (EminiplayerService).                                                   *)
(*                                                                         *)
(* A date as printed is a record of three numbers, which need not denote a *)
(* day; a day is its number in the calendar.  Of a row, a title, a page or *)
(* a file only what a gate looks at is kept.                               *)
(***************************************************************************)
EXTENDS Calendar, SequencesExt

CONSTANTS
  RecapLookback,             \* days
  MinLines, MinChars, MinDuration, MaxDuration, MinBytes,
  NoDate                     \* a date cell of another form

ASSUME LookbackAssumption == RecapLookback \in Nat

------------------------------------------------------------------------------
(* parseMmddyyyy, isWeekday, assertDayInvariants.                           *)

\* Date.UTC rolls over what is out of range, so the fields must come back unchanged;
\* years below 100 come back as 19xx.
IsRealDate(c) == c.y >= 100 /\ c.m \in 1 .. 12 /\ c.d \in 1 .. MonthLength(c.m, c.y)

\* The printed date is the day's.
Denotes(c, day) == IsRealDate(c) /\ DayNumber(c) = day

IsWeekday(day) == Weekday(day) \in 1 .. 5

\* Strictly before, and not by more than the lookback.
InLookback(recapDate, day) == recapDate < day /\ day - recapDate <= RecapLookback

DayInvariants(day, recapDate) ==
  InLookback(recapDate, day) /\ IsWeekday(day) /\ IsWeekday(recapDate)

------------------------------------------------------------------------------
(* selectDayEntries and listTradePlanDates over the rows of a listing:      *)
(*   [cell, kind, printed, weekday, page, home].                            *)

\* A date in the cell, and a title of one of the two anchored forms with a known weekday.
IsCandidate(row) == row.kind # "other" /\ row.cell # NoDate /\ IsRealDate(row.cell)

RowDay(row) == DayNumber(row.cell)

\* assertRowAgreement: the cell, the title's date and the title's weekday.
Agrees(row) == row.printed = row.cell /\ row.weekday = Weekday(RowDay(row))

\* toEntry: the row agrees with itself and its link stays on the site.
IsSound(row) == Agrees(row) /\ row.home

PlansFor(rows, day) == SelectSeq(rows, LAMBDA row : IsCandidate(row) /\ row.kind = "tradePlan" /\ RowDay(row) = day)

\* The latest recap so far, as a sequence of at most one row.
Later(best, row, day) ==
  IF IsCandidate(row) /\ row.kind = "recap" /\ InLookback(RowDay(row), day)
       /\ (best # <<>> => RowDay(row) > RowDay(best[1]))
    THEN <<row>> ELSE best

RecapFor(rows, day) == FoldLeft(LAMBDA best, row : Later(best, row, day), <<>>, rows)

Failed(resolution) == "error" \in DOMAIN resolution

SelectDayEntries(rows, day) ==
  LET plans == PlansFor(rows, day)
      recap == RecapFor(rows, day)
  IN  IF plans = <<>> \/ recap = <<>> THEN [error |-> "notFound"]
      ELSE IF ~IsSound(plans[1]) \/ ~IsSound(recap[1]) THEN [error |-> "validation"]
      ELSE [recapDate |-> RowDay(recap[1]), recap |-> recap[1].page, plan |-> plans[1].page]

ListTradePlanDates(rows, from, to) ==
  {day \in {RowDay(row) : row \in {r \in ToSet(rows) : IsCandidate(r) /\ r.kind = "tradePlan"}} :
     from <= day /\ day <= to}

------------------------------------------------------------------------------
(* The links of a page: getYoutubeUrl and findPdfUrl.                       *)

\* extractYoutubeVideoId: a YouTube host, one of the known paths, an id of the right shape.
IsEmbed(src) == src.host \in {"youtu.be", "youtube"} /\ (src.host = "youtube" => src.path # "other") /\ src.wellFormed

\* The first frame that is a player: the others are ads and widgets.
Embedded(srcs) == SelectSeq(srcs, IsEmbed)

\* The first link to a pdf, by path or file parameter; it must stay on the site.
PdfLink(links) ==
  LET pdfs == SelectSeq(links, LAMBDA link : link.pdf)
  IN  IF pdfs = <<>> THEN "none" ELSE IF pdfs[1].home THEN "found" ELSE "validation"

------------------------------------------------------------------------------
(* The gates.                                                               *)

\* title.includes of the padded and the bare forms of a date: a bare form is also the
\* end of the same day's form ten months later.
Shows(printed, day) ==
  \/ Denotes(printed.date, day)
  \/ /\ printed.date.m > 10 /\ Denotes([printed.date EXCEPT !.m = @ % 10], day)
     /\ printed.padded => printed.date.d >= 10

\* assertVideoTitle: a word of the flavor, and the expected date.
TitleFits(title, day, flavor) ==
  flavor \in title.flavors /\ \E printed \in title.dates : Shows(printed, day)

\* formatOffset and the line of the gate that reads it back.
Stamp(seconds) ==
  LET m == (seconds % 3600) \div 60 IN
  IF seconds >= 3600 THEN <<seconds \div 3600, m, seconds % 60>> ELSE <<m, seconds % 60>>
OffsetOf(stamp) ==
  IF Len(stamp) = 3 THEN stamp[1] * 3600 + stamp[2] * 60 + stamp[3] ELSE stamp[1] * 60 + stamp[2]

\* transcriptToMarkdown: a line per segment with text, stamped to the second.
Markdown(segments) ==
  LET spoken == SelectSeq(segments, LAMBDA s : s.chars > 0)
  IN  [header |-> TRUE, lines |-> [i \in DOMAIN spoken |->
         [stamp |-> Stamp(spoken[i].ms \div 1000), chars |-> spoken[i].chars]]]

\* assertTranscriptMarkdown.
TranscriptFits(markdown) ==
  LET lines == markdown.lines
      at == [i \in DOMAIN lines |-> OffsetOf(lines[i].stamp)]
  IN  /\ markdown.header
      /\ Len(lines) >= MinLines
      /\ FoldLeft(LAMBDA n, line : n + line.chars, 0, lines) >= MinChars
      /\ \A i \in 2 .. Len(lines) : at[i] >= at[i - 1]
      /\ lines # <<>> => at[Len(at)] >= MinDuration /\ at[Len(at)] <= MaxDuration

\* assertPdfBuffer: magic bytes, size, trailer, and pages, plain or packed.
PdfFits(pdf) == pdf.magic /\ pdf.bytes >= MinBytes /\ pdf.trailer /\ pdf.pages \in {"plain", "packed"}

\* verifyTranscript: no weekday or the expected one, and a confidence that is one of
\* the schema's two good ones (what is outside the schema fails closed).
VerdictFits(verdict, day, flavor) ==
  /\ verdict.docType = flavor /\ verdict.isEs
  /\ verdict.weekdays \subseteq {Weekday(day)}
  /\ verdict.confidence \in {"high", "medium"}
==============================================================================
