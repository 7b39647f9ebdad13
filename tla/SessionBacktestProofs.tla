------------------------ MODULE SessionBacktestProofs ------------------------
(***************************************************************************)
(* Theorems about SessionBacktest, for any candles, uploads and files on   *)
(* disk: the verdict stored with a day is that of its candles, a session   *)
(* that was complete when its cells were submitted is complete when they   *)
(* are graded, it is graded on every minute it has, and the freshest file  *)
(* has the last word.                                                      *)
(***************************************************************************)
EXTENDS SessionBacktest, FiniteSetTheorems, WellFoundedInduction, TLAPS

------------------------------------------------------------------------------
(* Numbers.                                                                 *)

LEMMA LeastMinute ==
  ASSUME NEW S \in SUBSET Nat, S # {}
  PROVE  Min(S) \in S /\ \A y \in S : Min(S) =< y
<1>a. \A a, b \in Nat : ~(b < a) => a =< b
  OBVIOUS
<1>1. \E x \in S : \A y \in S : ~(<<y, x>> \in OpToRel(<, Nat))
  BY NatLessThanWellFounded, WFMin, Zenon
<1>2. PICK x \in S : \A y \in S : ~(<<y, x>> \in OpToRel(<, Nat))
  BY <1>1, Zenon
<1>3. \A y \in S : ~(y < x)
  BY <1>2, Zenon DEF OpToRel
<1>4. \A y \in S : x =< y
  BY <1>a, <1>3
<1> QED
  BY <1>4, Zenon DEF Min

LEMMA LastMinute ==
  ASSUME NEW S \in SUBSET Nat, S # {}, NEW n \in Nat, \A s \in S : s <= n
  PROVE  Max(S) \in S /\ \A y \in S : Max(S) >= y
<1> DEFINE T == {n - s : s \in S}
<1>1. T \in SUBSET Nat /\ T # {}
  <2>1. \A s \in S : s \in Nat /\ n - s \in Nat
    OBVIOUS
  <2>2. PICK s \in S : TRUE
    OBVIOUS
  <2>3. n - s \in T
    BY <2>2
  <2> QED
    BY <2>1, <2>3
<1>2. Min(T) \in T /\ \A y \in T : Min(T) =< y
  BY <1>1, LeastMinute
<1>3. PICK x \in S : Min(T) = n - x
  BY <1>2
<1>4. ASSUME NEW y \in S PROVE x >= y
  <2>1. n - x =< n - y
    BY <1>2, <1>3
  <2> QED
    BY <2>1
<1> QED
  BY <1>4, Zenon DEF Max

\* Between two minutes of the grid lies a whole step.
LEMMA StepsApart ==
  ASSUME NEW a \in Nat, NEW b \in Nat, a % Step = 0, b % Step = 0, a < b
  PROVE  a + Step <= b
<1>1. Step \in Nat /\ Step > 0
  BY GridAssumption
<1>2. PICK i \in Nat, j \in Nat : a = Step * i /\ b = Step * j
  <2>1. a = Step * (a \div Step) /\ b = Step * (b \div Step)
    BY <1>1
  <2>2. (a \div Step) \in Nat /\ (b \div Step) \in Nat
    BY <1>1
  <2> QED
    BY <2>1, <2>2
<1>3. i + 1 <= j
  <2>1. ASSUME j <= i PROVE FALSE
    <3>1. Step * j <= Step * i
      BY <1>1, <2>1
    <3> QED
      BY <1>1, <1>2, <3>1
  <2> QED
    BY <2>1
<1>4. Step * (i + 1) <= Step * j
  BY <1>1, <1>3
<1> QED
  BY <1>1, <1>2, <1>4

------------------------------------------------------------------------------
(* A complete session.                                                      *)

\* Nothing fits between the bars of a complete session.
LEMMA NoBarBetween ==
  ASSUME NEW candles, DOMAIN candles \subseteq Times, Complete(candles), \A t \in Bars(candles) : t % Step = 0,
         NEW t \in Times, InWindow(t), t % Step = 0
  PROVE  t \in Bars(candles)
<1> DEFINE S == Bars(candles)
<1>1. /\ S \in SUBSET Nat /\ S # {} /\ Min(S) = Open /\ Max(S) = Close - Step /\ Contiguous(S)
      /\ \A s \in S : s <= Close
  <2>1. S # {} /\ Min(S) = Open /\ Max(S) = Close - Step /\ Contiguous(S)
    BY Zenon DEF Complete
  <2>2. S \in SUBSET Nat /\ \A s \in S : s <= Close
    <3>1. ASSUME NEW s \in S PROVE s \in Nat /\ s <= Close
      <4>1. s \in Times /\ s < Close
        BY Zenon DEF Bars, InWindow
      <4> QED
        BY <4>1, GridAssumption
    <3> QED
      BY <3>1
  <2> QED
    BY <2>1, <2>2
<1> SUFFICES ASSUME t \notin S PROVE FALSE
  OBVIOUS
<1> HIDE DEF S
<1>2. Open \in S /\ Close - Step \in S
  BY <1>1, LeastMinute, LastMinute, GridAssumption
<1>3. t \in Nat /\ Open <= t /\ t < Close /\ Step \in Nat /\ Step > 0 /\ Close \in Nat
  BY GridAssumption DEF InWindow
<1>4. t < Close - Step
  <2>1. t + Step <= Close
    BY <1>3, StepsApart, GridAssumption
  <2> QED
    BY <1>2, <1>3, <2>1
<1> DEFINE Later == {s \in S : t < s}
           u == Min(Later)
<1>5. u \in Later /\ \A y \in Later : u =< y
  <2>1. Later \in SUBSET Nat /\ Later # {}
    BY <1>1, <1>2, <1>4
  <2> QED
    BY <2>1, LeastMinute
<1> HIDE DEF u
<1> DEFINE Earlier == {s \in S : s < u}
<1>6. u \in S \ {Min(S)}
  BY <1>1, <1>3, <1>5
<1>7. Max(Earlier) = u - Step
  BY <1>1, <1>6 DEF Contiguous
<1>8. Max(Earlier) \in Earlier
  <2>1. u \in Nat /\ t < u
    BY <1>1, <1>5
  <2>2. Open \in Earlier
    <3>1. Open < u
      BY <1>3, <2>1, GridAssumption
    <3> QED
      BY <1>2, <3>1
  <2>3. Earlier \in SUBSET Nat /\ \A s \in Earlier : s <= u
    <3>1. ASSUME NEW s \in Earlier PROVE s \in Nat /\ s <= u
      <4>1. s \in Nat /\ s < u
        BY <1>1
      <4> QED
        BY <2>1, <4>1
    <3> QED
      BY <3>1
  <2> QED
    BY <2>1, <2>2, <2>3, LastMinute
<1>9. u - Step \in S /\ ~(t < u - Step) /\ t # u - Step
  <2>1. u - Step \in S
    BY <1>7, <1>8
  <2>2. u - Step < u
    BY <1>1, <1>3, <1>6
  <2> QED
    BY <1>1, <1>5, <1>3, <1>6, <2>1, <2>2
<1>10. u - Step + Step <= t
  <2>1. (u - Step) % Step = 0 /\ u - Step \in Nat
    BY <1>1, <1>9 DEF S
  <2>2. u - Step < t
    BY <1>3, <1>9, <2>1
  <2> QED
    BY <1>3, <2>1, <2>2, StepsApart
<1> QED
  BY <1>1, <1>3, <1>5, <1>6, <1>10

\* Merging rows of the grid never takes a session apart.
LEMMA SessionStays ==
  ASSUME NEW old, NEW new, DOMAIN old \subseteq DOMAIN new, DOMAIN new \subseteq Times,
         \A t \in DOMAIN new : t % Step = 0, Complete(old)
  PROVE  Complete(new)
<1>1. Bars(old) \subseteq Bars(new) /\ \A t \in Bars(new) : t \in Times /\ InWindow(t) /\ t % Step = 0
  BY DEF Bars
<1>2. Bars(new) = Bars(old)
  BY <1>1, NoBarBetween
<1> QED
  BY <1>2, Zenon DEF Complete

------------------------------------------------------------------------------
(* A day's candles.                                                         *)

\* The candles of some minutes of the grid.
Kept(candles) ==
  /\ candles \in [DOMAIN candles -> Values] /\ DOMAIN candles \subseteq Times
  /\ \A t \in DOMAIN candles : t % Step = 0

OnGrid(rows) == \A i \in DOMAIN rows : rows[i].t % Step = 0
Said(rows) == {rows[i].t : i \in DOMAIN rows}

DocsOK ==
  /\ doc \in [Dates -> Documents \cup {NoDoc}]
  /\ \A d \in Dates : doc[d] # NoDoc => \A t \in DOMAIN doc[d].candles : t % Step = 0

LEMMA CandlesKept ==
  ASSUME DocsOK, NEW d \in Dates
  PROVE  Kept(Candles(d))
<1>1. CASE doc[d] = NoDoc
  <2>1. Candles(d) = <<>>
    BY <1>1 DEF Candles
  <2>2. DOMAIN <<>> = {} /\ <<>> \in [{} -> Values]
    OBVIOUS
  <2> QED
    BY <2>1, <2>2 DEF Kept
<1>2. CASE doc[d] # NoDoc
  <2>1. Candles(d) = doc[d].candles /\ doc[d] \in Documents
    BY <1>2 DEF Candles, DocsOK
  <2>2. PICK T \in SUBSET Times : doc[d].candles \in [T -> Values]
    BY <2>1 DEF Documents
  <2>3. DOMAIN Candles(d) = T /\ Candles(d) \in [T -> Values]
    BY <2>1, <2>2
  <2>4. \A t \in DOMAIN Candles(d) : t % Step = 0
    BY <1>2, <2>1 DEF DocsOK
  <2> QED
    BY <2>3, <2>4 DEF Kept
<1> QED
  BY <1>1, <1>2

LEMMA LastRows ==
  ASSUME NEW rows \in Rows
  PROVE  /\ DOMAIN LastWins(rows) = Said(rows) /\ Said(rows) \subseteq Times
         /\ LastWins(rows) \in [Said(rows) -> Values]
         /\ OnGrid(rows) => Kept(LastWins(rows))
<1>1. \A i \in DOMAIN rows : i \in 1 .. Len(rows) /\ rows[i].t \in Times /\ rows[i].v \in Values
  <2> DEFINE Row == [t : Times, v : Values]
  <2>1. rows \in Seq(Row)
    BY DEF Rows
  <2> HIDE DEF Row
  <2>2. DOMAIN rows = 1 .. Len(rows) /\ \A i \in 1 .. Len(rows) : rows[i] \in Row
    BY <2>1
  <2>3. \A r \in Row : r.t \in Times /\ r.v \in Values
    BY DEF Row
  <2> QED
    BY <2>2, <2>3, Zenon
<1>2. ASSUME NEW t \in Said(rows) PROVE rows[Max({i \in DOMAIN rows : rows[i].t = t})].v \in Values
  <2> DEFINE I == {i \in DOMAIN rows : rows[i].t = t}
  <2>1. I # {} /\ \A i \in I : i \in DOMAIN rows /\ i \in 1 .. Len(rows)
    BY <1>1 DEF Said
  <2>2. Len(rows) \in Nat
    BY DEF Rows
  <2> HIDE DEF I
  <2>3. I \in SUBSET Nat /\ \A i \in I : i <= Len(rows)
    BY <2>1, <2>2
  <2>4. Max(I) \in I
    BY <2>1, <2>2, <2>3, LastMinute
  <2>5. rows[Max(I)].v \in Values
    BY <1>1, <2>1, <2>4
  <2> QED
    BY <2>5 DEF I
<1>3. LastWins(rows) \in [Said(rows) -> Values]
  BY <1>2 DEF LastWins, Said
<1>4. Said(rows) \subseteq Times
  BY <1>1 DEF Said
<1>5. OnGrid(rows) => \A t \in Said(rows) : t % Step = 0
  BY DEF OnGrid, Said
<1> QED
  BY <1>3, <1>4, <1>5 DEF Kept

LEMMA MergedKept ==
  ASSUME DocsOK, NEW d \in Dates, NEW rows \in Rows, OnGrid(rows), NEW replace \in BOOLEAN
  PROVE  /\ Kept(Merged(d, rows, replace))
         /\ ~replace =>
              /\ DOMAIN Merged(d, rows, replace) = Said(rows) \cup DOMAIN Candles(d)
              /\ \A t \in Said(rows) : Merged(d, rows, replace)[t] = LastWins(rows)[t]
              /\ \A t \in DOMAIN Candles(d) \ Said(rows) : Merged(d, rows, replace)[t] = Candles(d)[t]
<1> DEFINE new == LastWins(rows)
           old == Candles(d)
<1>1. Kept(new) /\ DOMAIN new = Said(rows) /\ Kept(old)
  BY CandlesKept, LastRows
<1> HIDE DEF new, old
<1>2. /\ Kept(Over(new, old)) /\ DOMAIN Over(new, old) = DOMAIN new \cup DOMAIN old
      /\ \A t \in DOMAIN new : Over(new, old)[t] = new[t]
      /\ \A t \in DOMAIN old \ DOMAIN new : Over(new, old)[t] = old[t]
  <2>1. DOMAIN Over(new, old) = DOMAIN new \cup DOMAIN old
    BY DEF Over
  <2>2. \A t \in DOMAIN new : Over(new, old)[t] = new[t]
    BY DEF Over
  <2>3. \A t \in DOMAIN old \ DOMAIN new : Over(new, old)[t] = old[t]
    BY DEF Over
  <2>4. \A t \in DOMAIN new \cup DOMAIN old : (IF t \in DOMAIN new THEN new[t] ELSE old[t]) \in Values
    BY <1>1 DEF Kept
  <2>5. Over(new, old) \in [DOMAIN new \cup DOMAIN old -> Values]
    BY <2>4, Zenon DEF Over
  <2>6. \A t \in DOMAIN new \cup DOMAIN old : t \in Times /\ t % Step = 0
    BY <1>1, Zenon DEF Kept
  <2> QED
    BY <2>1, <2>2, <2>3, <2>5, <2>6 DEF Kept
<1>3. CASE replace
  <2>1. Merged(d, rows, replace) = new
    BY <1>3 DEF Merged, new
  <2> QED
    BY <1>1, <1>3, <2>1
<1>4. CASE ~replace
  <2>1. Merged(d, rows, replace) = Over(new, old)
    BY <1>4 DEF Merged, new, old
  <2> QED
    BY <1>1, <1>2, <1>4, <2>1 DEF new, old
<1> QED
  BY <1>3, <1>4

LEMMA CompleteBoolean == \A candles : Complete(candles) \in BOOLEAN
BY Zenon DEF Complete

\* A transaction leaves the day with its merged candles and their verdict.
LEMMA UpsertEffect ==
  ASSUME DocsOK, NEW d \in Dates, NEW rows \in Rows, OnGrid(rows), NEW replace \in BOOLEAN,
         Upsert(d, rows, replace)
  PROVE  /\ DocsOK' /\ Candles(d)' = Merged(d, rows, replace)
         /\ \A e \in Dates \ {d} : doc'[e] = doc[e]
         /\ VerdictIsCurrent => VerdictIsCurrent'
<1> DEFINE merged == Merged(d, rows, replace)
<1>1. Kept(merged)
  BY MergedKept
<1>2. CASE merged = Candles(d)
  <2>1. doc' = doc
    BY <1>2, Zenon DEF Upsert
  <2>2. Candles(d)' = Candles(d)
    BY <2>1 DEF Candles
  <2> QED
    BY <1>2, <2>1, <2>2 DEF DocsOK, VerdictIsCurrent
<1>3. CASE merged # Candles(d)
  <2> DEFINE written == [candles |-> merged, complete |-> Complete(merged)]
  <2>1. doc' = [doc EXCEPT ![d] = written]
    BY <1>3, Zenon DEF Upsert, Judged
  <2>2. Complete(merged) \in BOOLEAN
    BY CompleteBoolean, Zenon
  <2> DEFINE m == merged
             v == Complete(merged)
  <2>3. written.candles = merged /\ written.complete = Complete(merged)
    OBVIOUS
  <2>4. written \in Documents
    <3>1. merged \in UNION {[T -> Values] : T \in SUBSET Times}
      BY <1>1 DEF Kept
    <3> QED
      BY <2>2, <3>1 DEF Documents
  <2> HIDE DEF written, merged
  <2>5. written # NoDoc
    BY <2>4, NoneAssumption
  <2>6. doc'[d] = written /\ \A e \in Dates \ {d} : doc'[e] = doc[e]
    BY <2>1 DEF DocsOK
  <2>7. doc' \in [Dates -> Documents \cup {NoDoc}]
    BY <2>1, <2>4 DEF DocsOK
  <2>8. Candles(d)' = merged
    BY <2>3, <2>5, <2>6 DEF Candles
  <2>9. DocsOK'
    BY <1>1, <2>3, <2>6, <2>7 DEF DocsOK, Kept
  <2>10. VerdictIsCurrent => VerdictIsCurrent'
    BY <2>3, <2>6 DEF VerdictIsCurrent
  <2> QED
    BY <2>6, <2>8, <2>9, <2>10 DEF merged
<1> QED
  BY <1>2, <1>3

------------------------------------------------------------------------------
(* The types.                                                               *)

Sheet == [Dates -> Rows]
Posts == [active : BOOLEAN, replace : BOOLEAN, sheet : Sheet \cup {Malformed}, days : SUBSET Dates]
Jobs == [state : {"none", "running", "done"}, files : SUBSET Disk, file : Disk \cup {NoFile},
         days : SUBSET Dates, processed : Nat, failed : Nat]

\* What is left of an upload and of a file is readable, and every file is counted once.
PostOK == post \in Posts /\ (post.days # {} => post.sheet \in Sheet /\ Aligned(post.sheet))
JobOK ==
  /\ job \in Jobs
  /\ job.days # {} =>
       /\ job.file \in Disk \ job.files /\ job.file.sheet \in Sheet /\ Aligned(job.file.sheet)
       /\ job.processed + Cardinality(job.files) < Cardinality(Disk)
  /\ job.failed <= job.processed /\ job.processed + Cardinality(job.files) <= Cardinality(Disk)
RestOK ==
  /\ cell \in [Dates -> Marks \cup {NoCell}]
  /\ answer.status \in {"none", "ok", "404", "422"}
  /\ alone \in BOOLEAN /\ replaced \in BOOLEAN
  /\ posts \in 0 .. MaxPosts /\ faults \in 0 .. MaxFaults

TypeInv == DocsOK /\ PostOK /\ JobOK /\ RestOK

LEMMA FileTyped == \A f \in Disk : f.archive \in BOOLEAN /\ f.dir \in Nat /\ f.sheet \in Sheet \cup {Malformed}
BY DiskAssumption DEF Sheet

LEMMA DayRows ==
  ASSUME NEW sheet \in Sheet, Aligned(sheet), NEW d \in Dates
  PROVE  sheet[d] \in Rows /\ OnGrid(sheet[d])
BY DEF Sheet, Aligned, OnGrid

LEMMA BeforeIsTotal ==
  ASSUME NEW f \in Disk, NEW g \in Disk
  PROVE  f # g => Before(f, g) \/ Before(g, f)
<1>1. f.archive \in BOOLEAN /\ g.archive \in BOOLEAN /\ f.dir \in Nat /\ g.dir \in Nat
  BY FileTyped
<1>2. f # g => f.archive # g.archive \/ f.dir < g.dir \/ g.dir < f.dir
  <2>1. f # g => f.archive # g.archive \/ f.dir # g.dir
    BY DiskAssumption
  <2> QED
    BY <1>1, <2>1
<1> QED
  BY <1>1, <1>2 DEF Before

\* The files in their order: the first is before all others.
LEMMA FirstFile ==
  ASSUME NEW files \in SUBSET Disk, files # {}
  PROVE  First(files) \in files /\ \A g \in files \ {First(files)} : Before(First(files), g)
<1>1. ASSUME NEW kind \in SUBSET files, kind # {}
      PROVE  \E f \in kind : \A g \in kind : f.dir =< g.dir
  <2> DEFINE dirs == {f.dir : f \in kind}
  <2>1. \A f \in kind : f.dir \in Nat
    BY FileTyped
  <2>2. dirs \in SUBSET Nat /\ dirs # {}
    BY <1>1, <2>1
  <2>3. Min(dirs) \in dirs /\ \A y \in dirs : Min(dirs) =< y
    BY <2>2, LeastMinute
  <2>4. PICK f \in kind : f.dir = Min(dirs)
    BY <2>3
  <2> QED
    BY <2>3, <2>4
<1>2. \E f \in files : \A g \in files : ~Before(g, f)
  <2>1. CASE \E f \in files : f.archive
    <3> DEFINE kind == {f \in files : f.archive}
    <3>1. PICK f \in kind : \A g \in kind : f.dir =< g.dir
      BY <1>1, <2>1
    <3>2. ASSUME NEW g \in files PROVE ~Before(g, f)
      <4>1. f.dir \in Nat /\ g.dir \in Nat /\ f.archive = TRUE /\ g.archive \in BOOLEAN
        BY FileTyped
      <4>2. g.archive => ~(g.dir < f.dir)
        BY <3>1, <4>1
      <4> QED
        BY <4>1, <4>2 DEF Before
    <3> QED
      BY <3>2
  <2>2. CASE \A f \in files : ~f.archive
    <3>1. PICK f \in files : \A g \in files : f.dir =< g.dir
      BY <1>1
    <3>2. ASSUME NEW g \in files PROVE ~Before(g, f)
      <4>1. f.dir \in Nat /\ g.dir \in Nat /\ f.archive = FALSE /\ g.archive = FALSE
        BY <2>2, FileTyped
      <4>2. ~(g.dir < f.dir)
        BY <3>1, <4>1
      <4> QED
        BY <4>1, <4>2 DEF Before
    <3> QED
      BY <3>2
  <2> QED
    BY <2>1, <2>2
<1>3. First(files) \in files /\ \A g \in files : ~Before(g, First(files))
  BY <1>2, Zenon DEF First
<1> QED
  BY <1>3, BeforeIsTotal

\* The step of the loop to the next file.
Begun(f) ==
  LET days == IF Readable(f.sheet) THEN DaysOf(f.sheet) ELSE {} IN
  [job EXCEPT !.files = @ \ {f}, !.file = f, !.days = days,
     !.processed = IF days = {} THEN @ + 1 ELSE @, !.failed = IF Readable(f.sheet) THEN @ ELSE @ + 1]

LEMMA FilesLeft ==
  ASSUME NEW files \in SUBSET Disk
  PROVE  /\ Cardinality(files) \in Nat /\ Cardinality(files) <= Cardinality(Disk) /\ Cardinality(Disk) \in Nat
         /\ \A f \in files : Cardinality(files \ {f}) = Cardinality(files) - 1
<1>1. IsFiniteSet(files)
  BY DiskAssumption, FS_Subset
<1> QED
  BY <1>1, DiskAssumption, FS_Subset, FS_RemoveElement, FS_CardinalityType

LEMMA BegunTyped ==
  ASSUME JobOK, job.state = "running", job.days = {}, job.files # {}, NEW f \in job.files, job' = Begun(f)
  PROVE  /\ JobOK' /\ job'.state = "running" /\ job'.files = job.files \ {f} /\ job'.file = f
         /\ \/ /\ Readable(f.sheet) /\ job'.days = DaysOf(f.sheet) /\ job'.failed = job.failed
            \/ ~Readable(f.sheet) /\ job'.days = {} /\ job'.failed > 0
<1> DEFINE readable == Readable(f.sheet)
           days == IF readable THEN DaysOf(f.sheet) ELSE {}
<1>1. job \in Jobs /\ job.files \in SUBSET Disk /\ job.processed \in Nat /\ job.failed \in Nat /\ f \in Disk
  BY DEF JobOK, Jobs
<1>2. days \in SUBSET Dates
  BY DEF DaysOf
<1>3. days # {} => f.sheet \in Sheet /\ Aligned(f.sheet)
  BY <1>1, FileTyped DEF Readable
<1>4. (readable => days = DaysOf(f.sheet)) /\ (~readable => days = {})
  OBVIOUS
<1> DEFINE p == IF days = {} THEN job.processed + 1 ELSE job.processed
           q == IF readable THEN job.failed ELSE job.failed + 1
           files == job.files \ {f}
<1>5. job' = [job EXCEPT !.files = files, !.file = f, !.days = days, !.processed = p, !.failed = q]
  BY Zenon DEF Begun
<1>a. p \in Nat /\ q \in Nat /\ files \in SUBSET Disk
  BY <1>1
<1> HIDE DEF readable, days, p, q, files
<1>b. /\ job'.state = "running" /\ job'.files = files /\ job'.file = f /\ job'.days = days
      /\ job'.processed = p /\ job'.failed = q /\ job' \in Jobs
  BY <1>1, <1>2, <1>5, <1>a DEF Jobs
<1>6. /\ job'.state = "running" /\ job'.files = job.files \ {f} /\ job'.file = f /\ job'.days = days
      /\ job'.processed = IF days = {} THEN job.processed + 1 ELSE job.processed
      /\ job'.failed = IF readable THEN job.failed ELSE job.failed + 1
      /\ job' \in Jobs
  BY <1>b, Zenon DEF p, q, files
<1>7. Cardinality(job'.files) = Cardinality(job.files) - 1 /\ Cardinality(job.files) \in Nat /\ Cardinality(Disk) \in Nat
  BY <1>1, <1>6, FilesLeft
<1>8. job.failed <= job.processed /\ job.processed + Cardinality(job.files) <= Cardinality(Disk)
  BY DEF JobOK
<1>9. job'.failed <= job'.processed /\ job'.processed + Cardinality(job'.files) <= Cardinality(Disk)
  BY <1>1, <1>4, <1>6, <1>7, <1>8
<1>10. days # {} => job'.processed + Cardinality(job'.files) < Cardinality(Disk)
  BY <1>1, <1>6, <1>7, <1>8
<1>11. JobOK'
  BY <1>1, <1>3, <1>6, <1>9, <1>10 DEF JobOK
<1> QED
  BY <1>1, <1>4, <1>6, <1>11 DEF readable

LEMMA JobDayTyped ==
  ASSUME JobOK, JobDay
  PROVE  /\ JobOK' /\ job'.state = job.state /\ job'.files = job.files /\ job'.file = job.file
         /\ job'.failed = job.failed
         /\ Min(job.days) \in job.days /\ job'.days = job.days \ {Min(job.days)}
<1> DEFINE d == Min(job.days)
           p == IF job.days = {d} THEN job.processed + 1 ELSE job.processed
           left == job.days \ {d}
<1>1. job \in Jobs /\ job.days # {} /\ job.processed \in Nat /\ job.failed \in Nat
  BY DEF JobOK, Jobs, JobDay
<1>2. d \in job.days
  <2>1. job.days \in SUBSET Nat
    BY <1>1, GridAssumption DEF Jobs
  <2> QED
    BY <1>1, <2>1, LeastMinute
<1>3. job' = [job EXCEPT !.days = left, !.processed = p]
  BY Zenon DEF JobDay
<1>4. p \in Nat /\ p >= job.processed /\ p <= job.processed + 1 /\ left \in SUBSET Dates
  BY <1>1 DEF Jobs
<1>5. left # {} => p = job.processed
  BY <1>2
<1>6. left \subseteq job.days
  OBVIOUS
<1> HIDE DEF d, p, left
<1>7. /\ job'.state = job.state /\ job'.files = job.files /\ job'.file = job.file
      /\ job'.failed = job.failed /\ job'.days = left /\ job'.processed = p /\ job' \in Jobs
  BY <1>1, <1>3, <1>4 DEF Jobs
<1>8. Cardinality(job.files) \in Nat /\ Cardinality(Disk) \in Nat
  BY <1>1, FilesLeft DEF Jobs
<1>9. JobOK'
  BY <1>1, <1>4, <1>5, <1>6, <1>7, <1>8 DEF JobOK
<1> QED
  BY <1>2, <1>7, <1>9 DEF d, left

LEMMA JobDayFailsTyped ==
  ASSUME JobOK, JobDayFails
  PROVE  JobOK' /\ job'.state = job.state /\ job'.files = job.files /\ job'.days = {} /\ job'.failed > 0
<1>1. job \in Jobs /\ job.days # {} /\ job.processed \in Nat /\ job.failed \in Nat
  BY DEF JobOK, Jobs, JobDayFails
<1>2. job' = [job EXCEPT !.days = {}, !.processed = job.processed + 1, !.failed = job.failed + 1]
  BY DEF JobDayFails
<1>3. /\ job'.state = job.state /\ job'.files = job.files /\ job'.failed = job.failed + 1 /\ job'.days = {}
      /\ job'.processed = job.processed + 1 /\ job' \in Jobs
  <2> DEFINE p == job.processed + 1
             q == job.failed + 1
             none == {}
  <2>1. p \in Nat /\ q \in Nat /\ none \in SUBSET Dates
    BY <1>1
  <2>2. job' = [job EXCEPT !.days = none, !.processed = p, !.failed = q]
    BY <1>2, Zenon
  <2> HIDE DEF p, q, none
  <2>3. /\ job'.state = job.state /\ job'.files = job.files /\ job'.failed = q /\ job'.days = none
        /\ job'.processed = p /\ job' \in Jobs
    BY <1>1, <2>1, <2>2 DEF Jobs
  <2> QED
    BY <2>3 DEF p, q, none
<1>4. Cardinality(job.files) \in Nat /\ Cardinality(Disk) \in Nat
  BY <1>1, FilesLeft DEF Jobs
<1> QED
  BY <1>1, <1>3, <1>4 DEF JobOK

LEMMA NoJobTyped ==
  /\ NoJob \in Jobs /\ NoJob.state = "none" /\ NoJob.files = {} /\ NoJob.file = NoFile /\ NoJob.days = {}
  /\ NoJob.processed = 0 /\ NoJob.failed = 0
BY DEF NoJob, Jobs

LEMMA NoJobOK == job' = NoJob => JobOK'
<1>1. Cardinality({}) = 0 /\ Cardinality(Disk) \in Nat
  BY FilesLeft, FS_EmptySet
<1>2. /\ NoJob \in Jobs /\ NoJob.files = {} /\ NoJob.days = {} /\ NoJob.processed = 0 /\ NoJob.failed = 0
      /\ NoJob.processed + Cardinality(NoJob.files) <= Cardinality(Disk) /\ NoJob.failed <= NoJob.processed
  BY <1>1, NoJobTyped
<1> SUFFICES ASSUME job' = NoJob PROVE JobOK'
  OBVIOUS
<1> QED
  BY <1>2 DEF JobOK

LEMMA StartJobTyped ==
  ASSUME StartJob
  PROVE  /\ JobOK' /\ job'.state = "running" /\ job'.files = Disk /\ job'.days = {} /\ job'.failed = 0
<1>1. job' = [NoJob EXCEPT !.state = "running", !.files = Disk]
  BY DEF StartJob
<1>2. /\ job'.state = "running" /\ job'.files = Disk /\ job'.days = {} /\ job'.processed = 0 /\ job'.failed = 0
      /\ job' \in Jobs
  BY <1>1, NoJobTyped DEF Jobs
<1> QED
  BY <1>2, FilesLeft DEF JobOK

LEMMA JobEndsTyped ==
  ASSUME JobOK, JobEnds
  PROVE  /\ JobOK' /\ job'.state = "done" /\ job'.files = {} /\ job'.days = {} /\ job'.failed = job.failed
         /\ job.files = {} /\ job.days = {} /\ job.state = "running"
<1>1. job \in Jobs /\ job' = [job EXCEPT !.state = "done", !.file = NoFile] /\ job.files = {} /\ job.days = {}
  BY DEF JobOK, JobEnds
<1>2. /\ job'.state = "done" /\ job'.files = job.files /\ job'.days = job.days /\ job'.failed = job.failed
      /\ job'.processed = job.processed /\ job' \in Jobs
  BY <1>1 DEF Jobs
<1> QED
  BY <1>1, <1>2 DEF JobOK, JobEnds

LEMMA NextFileTyped ==
  ASSUME JobOK, NextFile
  PROVE  LET f == First(job.files) IN
         /\ f \in job.files /\ (\A g \in job.files \ {f} : Before(f, g))
         /\ JobOK' /\ job.state = "running" /\ job'.state = "running" /\ job.days = {}
         /\ job'.files = job.files \ {f} /\ job'.file = f
         /\ \/ /\ Readable(f.sheet) /\ job'.days = DaysOf(f.sheet) /\ job'.failed = job.failed
            \/ ~Readable(f.sheet) /\ job'.days = {} /\ job'.failed > 0
<1>1. job.files \in SUBSET Disk /\ job.files # {} /\ job.state = "running" /\ job.days = {}
  BY DEF JobOK, Jobs, NextFile
<1>2. First(job.files) \in job.files /\ \A g \in job.files \ {First(job.files)} : Before(First(job.files), g)
  BY <1>1, FirstFile
<1>3. job' = Begun(First(job.files))
  BY Zenon DEF NextFile, Begun
<1> QED
  BY <1>1, <1>2, <1>3, BegunTyped

\* An upload writes readable rows of its days.
LEMMA UploadDayTyped ==
  ASSUME PostOK, UploadDay
  PROVE  /\ PostOK' /\ Min(post.days) \in Dates /\ post.replace \in BOOLEAN
         /\ post.sheet[Min(post.days)] \in Rows /\ OnGrid(post.sheet[Min(post.days)])
<1> DEFINE d == Min(post.days)
           left == post.days \ {d}
<1>1. post \in Posts /\ post.days # {} /\ post.sheet \in Sheet /\ Aligned(post.sheet)
  BY DEF PostOK, UploadDay
<1>2. d \in post.days /\ d \in Dates
  <2>1. post.days \in SUBSET Nat
    BY <1>1, GridAssumption DEF Posts
  <2>2. d \in post.days
    BY <1>1, <2>1, LeastMinute
  <2> QED
    BY <1>1, <2>2 DEF Posts
<1>3. post' = [post EXCEPT !.days = left]
  BY Zenon DEF UploadDay
<1>4. left \in SUBSET Dates
  BY <1>1 DEF Posts
<1> HIDE DEF d, left
<1>5. PostOK'
  BY <1>1, <1>3, <1>4 DEF PostOK, Posts
<1> QED
  BY <1>1, <1>2, <1>5, DayRows DEF d, Posts

LEMMA NoPostOK == post' = NoPost => PostOK'
BY DEF NoPost, PostOK, Posts

\* A transaction writes the rows of a day, replacing it only for an upload that says so.
Writes(d, rows, replace) ==
  d \in Dates /\ rows \in Rows /\ OnGrid(rows) /\ replace \in BOOLEAN /\ Upsert(d, rows, replace)

LEMMA UploadWrites ==
  ASSUME PostOK, UploadDay
  PROVE  \E d, rows, replace : Writes(d, rows, replace) /\ (replace => replaced')
<1>1. Writes(Min(post.days), post.sheet[Min(post.days)], post.replace)
  BY UploadDayTyped, Zenon DEF UploadDay, Writes
<1>2. post.replace => replaced'
  BY Zenon DEF UploadDay
<1> QED
  BY <1>1, <1>2, Zenon

LEMMA JobWrites ==
  ASSUME JobOK, JobDay
  PROVE  Writes(Min(job.days), job.file.sheet[Min(job.days)], FALSE)
<1>1. Min(job.days) \in Dates
  BY JobDayTyped DEF JobOK, Jobs
<1>2. job.file.sheet \in Sheet /\ Aligned(job.file.sheet)
  BY DEF JobOK, JobDay
<1>3. Upsert(Min(job.days), job.file.sheet[Min(job.days)], FALSE)
  BY Zenon DEF JobDay
<1> QED
  BY <1>1, <1>2, <1>3, DayRows DEF Writes

LEMMA DocStep ==
  ASSUME PostOK, JobOK, [Next]_vars
  PROVE  doc' = doc \/ \E d, rows, replace : Writes(d, rows, replace) /\ (replace => replaced')
<1>1. CASE UploadDay
  BY <1>1, UploadWrites
<1>2. CASE JobDay
  <2>1. \E d, rows, replace : Writes(d, rows, replace) /\ replace = FALSE
    BY <1>2, JobWrites
  <2> QED
    BY <2>1
<1>3. CASE ~UploadDay /\ ~JobDay
  <2>1. doc' = doc
    BY <1>3 DEF Next, Upload, UploadEnds, UploadFails, StartJob, NextFile, JobDayFails, JobEnds, Crash,
                Ask, Submit, Grade, GradeUnread, vars
  <2> QED
    BY <2>1
<1> QED
  BY <1>1, <1>2, <1>3

LEMMA InitTyped == Init => TypeInv
<1> SUFFICES ASSUME Init PROVE TypeInv
  OBVIOUS
<1>1. DocsOK
  BY DEF Init, DocsOK
<1>2. PostOK /\ JobOK
  <2>1. (NoPost \in Posts /\ NoPost.days = {})
    BY DEF NoPost, Posts
  <2>2. Cardinality({}) = 0 /\ Cardinality(Disk) \in Nat
    BY FilesLeft, FS_EmptySet
  <2> QED
    BY <2>1, <2>2, NoJobTyped DEF Init, PostOK, JobOK
<1>3. RestOK
  <2>1. cell \in [Dates -> Marks \cup {NoCell}]
    BY DEF Init
  <2>2. answer.status = "none" /\ posts = 0 /\ faults = 0
    BY DEF Init
  <2>3. alone \in BOOLEAN /\ replaced \in BOOLEAN
    BY Zenon DEF Init
  <2> QED
    BY <2>1, <2>2, <2>3, BoundAssumption DEF RestOK
<1> QED
  BY <1>1, <1>2, <1>3 DEF TypeInv

LEMMA DocsStay == PostOK /\ JobOK /\ DocsOK /\ [Next]_vars => DocsOK'
<1> SUFFICES ASSUME PostOK, JobOK, DocsOK, [Next]_vars PROVE DocsOK'
  OBVIOUS
<1>1. CASE doc' = doc
  BY <1>1 DEF DocsOK
<1>2. ASSUME NEW d, NEW rows, NEW replace, Writes(d, rows, replace) PROVE DocsOK'
  BY <1>2, UpsertEffect, Zenon DEF Writes
<1> QED
  BY <1>1, <1>2, DocStep

LEMMA PostStays == PostOK /\ [Next]_vars => PostOK'
<1> SUFFICES ASSUME PostOK, [Next]_vars PROVE PostOK'
  OBVIOUS
<1>1. CASE Upload
  <2>1. PICK sheet \in {s \in Sheets : Readable(s)}, replace \in BOOLEAN :
          post' = [active |-> TRUE, replace |-> replace, sheet |-> sheet, days |-> DaysOf(sheet)]
    BY <1>1, Zenon DEF Upload
  <2>2. sheet \in Sheet /\ Aligned(sheet)
    BY DiskAssumption DEF Readable, Sheet
  <2>3. DaysOf(sheet) \in SUBSET Dates
    BY DEF DaysOf
  <2> QED
    BY <2>1, <2>2, <2>3 DEF PostOK, Posts
<1>2. CASE UploadDay
  BY <1>2, UploadDayTyped
<1>3. CASE UploadEnds \/ UploadFails \/ Crash
  BY <1>3, NoPostOK DEF UploadEnds, UploadFails, Crash
<1>4. CASE UNCHANGED post
  BY <1>4 DEF PostOK
<1> QED
  BY <1>1, <1>2, <1>3, <1>4
  DEF Next, StartJob, NextFile, JobDay, JobDayFails, JobEnds, Ask, Submit, Grade, GradeUnread, vars

LEMMA JobStays == JobOK /\ [Next]_vars => JobOK'
<1> SUFFICES ASSUME JobOK, [Next]_vars PROVE JobOK'
  OBVIOUS
<1>1. CASE StartJob \/ JobDay \/ JobDayFails \/ JobEnds
  BY <1>1, StartJobTyped, JobDayTyped, JobDayFailsTyped, JobEndsTyped
<1>2. CASE NextFile
  BY <1>2, NextFileTyped
<1>3. CASE Crash
  BY <1>3, NoJobOK DEF Crash
<1>4. CASE UNCHANGED job
  BY <1>4 DEF JobOK
<1> QED
  BY <1>1, <1>2, <1>3, <1>4
  DEF Next, Upload, UploadDay, UploadEnds, UploadFails, Ask, Submit, Grade, GradeUnread, vars

LEMMA AnswerTyped ==
  \A d, session, allow : Backtested(d, session, allow).status \in {"none", "ok", "404", "422"}
BY DEF Backtested

LEMMA RestStays == PostOK /\ RestOK /\ [Next]_vars => RestOK'
<1> SUFFICES ASSUME PostOK, RestOK, [Next]_vars PROVE RestOK'
  OBVIOUS
<1>1. cell' \in [Dates -> Marks \cup {NoCell}]
  <2>1. CASE UNCHANGED cell
    BY <2>1 DEF RestOK
  <2>2. ASSUME NEW d \in Dates, Submit(d) \/ Grade(d) \/ GradeUnread(d)
        PROVE  cell' \in [Dates -> Marks \cup {NoCell}]
    BY <2>2 DEF RestOK, Submit, Grade, GradeUnread, Marks
  <2> QED
    BY <2>1, <2>2 DEF Next, Upload, UploadDay, UploadEnds, UploadFails, StartJob, NextFile, JobDay,
                      JobDayFails, JobEnds, Crash, Ask, vars
<1>2. answer'.status \in {"none", "ok", "404", "422"}
  <2>1. CASE UNCHANGED answer
    BY <2>1 DEF RestOK
  <2>2. CASE Ask \/ \E d \in Dates : Grade(d)
    <3>1. \E d, session, allow : answer' = Backtested(d, session, allow)
      BY <2>2, Zenon DEF Ask, Grade
    <3> QED
      BY <3>1, AnswerTyped, Zenon
  <2> QED
    BY <2>1, <2>2 DEF Next, Upload, UploadDay, UploadEnds, UploadFails, StartJob, NextFile, JobDay,
                      JobDayFails, JobEnds, Crash, Submit, GradeUnread, vars
<1>3. posts' \in 0 .. MaxPosts /\ faults' \in 0 .. MaxFaults
  <2>1. posts' = posts \/ (posts < MaxPosts /\ posts' = posts + 1)
    BY DEF Next, Upload, UploadDay, UploadEnds, UploadFails, StartJob, NextFile, JobDay, JobDayFails,
           JobEnds, Crash, Ask, Submit, Grade, GradeUnread, vars
  <2>2. faults' = faults \/ (faults < MaxFaults /\ faults' = faults + 1)
    BY DEF Next, Upload, UploadDay, UploadEnds, UploadFails, StartJob, NextFile, JobDay, JobDayFails,
           JobEnds, Crash, Ask, Submit, Grade, GradeUnread, vars
  <2> QED
    BY <2>1, <2>2, BoundAssumption DEF RestOK
<1>4. alone' \in BOOLEAN
  <2>1. alone' \in {alone, FALSE} \/ alone' = ~post.active
    BY DEF Next, Upload, UploadDay, UploadEnds, UploadFails, StartJob, NextFile, JobDay,
           JobDayFails, JobEnds, Crash, Ask, Submit, Grade, GradeUnread, vars
  <2> QED
    BY <2>1, Zenon DEF RestOK
<1>5. replaced' \in BOOLEAN
  <2>1. replaced' = replaced \/ replaced' = (replaced \/ post.replace)
    BY DEF Next, Upload, UploadDay, UploadEnds, UploadFails, StartJob, NextFile, JobDay,
           JobDayFails, JobEnds, Crash, Ask, Submit, Grade, GradeUnread, vars
  <2> QED
    BY <2>1, Zenon DEF RestOK
<1> QED
  BY <1>1, <1>2, <1>3, <1>4, <1>5 DEF RestOK

LEMMA Typed == Spec => []TypeInv
<1>1. TypeInv /\ [Next]_vars => TypeInv'
  BY DocsStay, PostStays, JobStays, RestStays DEF TypeInv
<1> QED
  BY <1>1, InitTyped, PTL DEF Spec

\* What is stored, uploaded and ingested keeps its type, and the job counts each file of
\* the disk at most once, as processed or as failed besides.
THEOREM TypeCorrect == Spec => []TypeOK
<1>1. TypeInv => TypeOK
  <2> SUFFICES ASSUME TypeInv PROVE TypeOK
    OBVIOUS
  <2>1. post.active \in BOOLEAN /\ post.replace \in BOOLEAN
    BY DEF TypeInv, PostOK, Posts
  <2>2. job.state \in {"none", "running", "done"}
    BY DEF TypeInv, JobOK, Jobs
  <2> QED
    BY <2>1, <2>2 DEF TypeInv, TypeOK, DocsOK, JobOK, RestOK
<1> QED
  BY <1>1, Typed, PTL

------------------------------------------------------------------------------
(* What the days are judged and graded by.                                  *)

\* The verdict stored with a day is that of the candles it holds, whatever uploads and
\* files were merged, replaced, left unwritten or cut short before.
THEOREM VerdictsAreCurrent == Spec => []VerdictIsCurrent
<1>1. Init => VerdictIsCurrent
  BY DEF Init, VerdictIsCurrent
<1>2. TypeInv /\ VerdictIsCurrent /\ [Next]_vars => VerdictIsCurrent'
  <2> SUFFICES ASSUME TypeInv, VerdictIsCurrent, [Next]_vars PROVE VerdictIsCurrent'
    OBVIOUS
  <2>1. CASE doc' = doc
    BY <2>1 DEF VerdictIsCurrent
  <2>2. ASSUME NEW d, NEW rows, NEW replace, Writes(d, rows, replace) PROVE VerdictIsCurrent'
    BY <2>2, UpsertEffect, Zenon DEF Writes, TypeInv
  <2> QED
    BY <2>1, <2>2, DocStep DEF TypeInv
<1> QED
  BY <1>1, <1>2, Typed, PTL DEF Spec

\* As long as no upload replaces days, what is complete stays complete.
LEMMA CompleteStays ==
  ASSUME TypeInv, [Next]_vars, ~replaced', NEW d \in Dates, Complete(Candles(d))
  PROVE  Complete(Candles(d)')
<1>1. CASE doc' = doc
  <2>1. Candles(d)' = Candles(d)
    BY <1>1 DEF Candles
  <2> QED
    BY <2>1
<1>2. ASSUME NEW e, NEW rows, NEW replace, Writes(e, rows, replace), replace => replaced'
      PROVE  Complete(Candles(d)')
  <2>1. e \in Dates /\ rows \in Rows /\ OnGrid(rows) /\ replace = FALSE
    BY <1>2 DEF Writes
  <2>2. Candles(e)' = Merged(e, rows, replace) /\ \A x \in Dates \ {e} : doc'[x] = doc[x]
    BY <1>2, UpsertEffect, Zenon DEF Writes, TypeInv
  <2>3. CASE d # e
    <3>1. Candles(d)' = Candles(d)
      BY <2>2, <2>3 DEF Candles
    <3> QED
      BY <3>1
  <2>4. CASE d = e
    <3>1. Kept(Merged(d, rows, FALSE)) /\ DOMAIN Candles(d) \subseteq DOMAIN Merged(d, rows, FALSE)
      BY <2>1, <2>4, MergedKept DEF TypeInv
    <3>2. Complete(Merged(d, rows, FALSE))
      BY <3>1, SessionStays DEF Kept
    <3> QED
      BY <2>1, <2>2, <2>4, <3>2
  <2> QED
    BY <2>3, <2>4
<1> QED
  BY <1>1, <1>2, DocStep DEF TypeInv

\* Cells wait for their grading on complete sessions.
WaitInv == ~replaced =>
  \A d \in Dates : cell[d] # "refused" /\ (cell[d] = "submitted" => Complete(Candles(d)))

\* A day that was complete when its cells were submitted is when they are graded, as
\* long as no upload replaces days: merging rows of the grid, in whatever order jobs,
\* uploads, failures and restarts bring them, never takes a session apart.
THEOREM SubmissionsAreGraded == Spec => []SubmittedIsGraded
<1>1. Init => WaitInv
  BY NoneAssumption DEF Init, WaitInv, Marks
<1>2. TypeInv /\ WaitInv /\ [Next]_vars => WaitInv'
  <2> SUFFICES ASSUME TypeInv, WaitInv, [Next]_vars, ~replaced', NEW d \in Dates
               PROVE  cell'[d] # "refused" /\ (cell'[d] = "submitted" => Complete(Candles(d)'))
    BY DEF WaitInv
  <2>1. ~replaced
    BY Zenon DEF Next, Upload, UploadDay, UploadEnds, UploadFails, StartJob, NextFile, JobDay, JobDayFails,
                 JobEnds, Crash, Ask, Submit, Grade, GradeUnread, vars
  <2>2. cell[d] # "refused" /\ (cell[d] = "submitted" => Complete(Candles(d)))
    BY <2>1 DEF WaitInv
  <2>3. cell \in [Dates -> Marks \cup {NoCell}]
    BY DEF TypeInv, RestOK
  <2>4. CASE cell'[d] = cell[d]
    BY <2>2, <2>4, CompleteStays
  <2>5. ASSUME NEW e \in Dates, Submit(e) PROVE cell'[d] = cell[d] \/ (cell'[d] = "submitted" /\ Complete(Candles(d)))
    BY <2>3, <2>5 DEF Submit
  <2>6. ASSUME NEW e \in Dates, Grade(e) PROVE cell'[d] \in {cell[d], "graded"}
    <3>1. CASE d # e
      BY <2>3, <2>6, <3>1 DEF Grade
    <3>2. CASE d = e
      <4>1. Complete(Candles(d)) /\ answer' = Backtested(d, "rth", FALSE)
        BY <2>2, <2>6, <3>2 DEF Grade
      <4>2. DOMAIN Candles(d) # {}
        BY <4>1, Zenon DEF Complete, Bars
      <4>3. answer'.status = "ok"
        BY <4>1, <4>2 DEF Backtested, Accepts
      <4> QED
        BY <2>3, <2>6, <3>2, <4>3 DEF Grade
    <3> QED
      BY <3>1, <3>2
  <2>u. ASSUME NEW e \in Dates, GradeUnread(e) PROVE cell'[d] \in {cell[d], "unread"}
    BY <2>3, <2>u DEF GradeUnread
  <2>7. \/ cell'[d] = cell[d] \/ cell'[d] \in {"graded", "unread"}
        \/ cell'[d] = "submitted" /\ Complete(Candles(d))
    BY <2>5, <2>6, <2>u DEF Next, Upload, UploadDay, UploadEnds, UploadFails, StartJob, NextFile, JobDay,
                      JobDayFails, JobEnds, Crash, Ask, vars
  <2> QED
    BY <2>4, <2>7, CompleteStays
<1>3. WaitInv => SubmittedIsGraded
  BY DEF WaitInv, SubmittedIsGraded
<1> QED
  BY <1>1, <1>2, <1>3, Typed, PTL DEF Spec

------------------------------------------------------------------------------
(* The minutes of a session.                                                *)

Bar(k) == Open + k * Step
Session(n) == {Bar(k) : k \in 0 .. n - 1}

LEMMA BarOrder ==
  ASSUME NEW i \in Int, NEW j \in Int
  PROVE  Bar(i) \in Int /\ (Bar(i) < Bar(j) <=> i < j) /\ (Bar(i) = Bar(j) <=> i = j)
<1>1. Step \in Nat /\ Step > 0 /\ Open \in Nat
  BY GridAssumption
<1>2. ASSUME NEW a \in Int, NEW b \in Int, a < b
      PROVE  a * Step < b * Step
  <2>1. b * Step = a * Step + (b - a) * Step
    BY <1>1
  <2>2. (b - a) * Step > 0
    BY <1>1, <1>2
  <2> QED
    BY <1>1, <2>1, <2>2
<1>3. i * Step \in Int /\ j * Step \in Int
  BY <1>1
<1>4. CASE i < j
  BY <1>1, <1>2, <1>3, <1>4 DEF Bar
<1>5. CASE j < i
  BY <1>1, <1>2, <1>3, <1>5 DEF Bar
<1>6. CASE i = j
  BY <1>1, <1>3, <1>6 DEF Bar
<1> QED
  BY <1>4, <1>5, <1>6

LEMMA SessionCounts ==
  ASSUME NEW n \in Nat
  PROVE  IsFiniteSet(Session(n)) /\ Cardinality(Session(n)) = n
<1> DEFINE f == [k \in 0 .. n - 1 |-> Bar(k)]
<1>1. f \in Bijection(0 .. n - 1, Session(n))
  <2>1. f \in [0 .. n - 1 -> Session(n)]
    BY DEF Session
  <2>2. \A i, j \in 0 .. n - 1 : f[i] = f[j] => i = j
    BY BarOrder
  <2>3. \A t \in Session(n) : \E k \in 0 .. n - 1 : f[k] = t
    BY DEF Session
  <2> QED
    BY <2>1, <2>2, <2>3 DEF Bijection, Injection, Surjection, IsInjective
<1>2. IsFiniteSet(0 .. n - 1) /\ Cardinality(0 .. n - 1) = n
  BY FS_Interval
<1> QED
  BY <1>1, <1>2, FS_Bijection DEF ExistsBijection

\* What lies before a bar are the bars before it.
LEMMA BarsBefore ==
  ASSUME NEW n \in Nat, NEW k \in 0 .. n - 1
  PROVE  Cardinality({u \in Session(n) : u < Bar(k)}) = k
<1>1. {u \in Session(n) : u < Bar(k)} = Session(k)
  <2>1. ASSUME NEW u, u \in Session(n), u < Bar(k)
        PROVE  u \in Session(k)
    <3>1. PICK i \in 0 .. n - 1 : u = Bar(i)
      BY <2>1 DEF Session
    <3>2. i < k
      BY <2>1, <3>1, BarOrder
    <3> QED
      BY <3>1, <3>2 DEF Session
  <2>2. ASSUME NEW u, u \in Session(k)
        PROVE  u \in Session(n) /\ u < Bar(k)
    <3>1. PICK i \in 0 .. k - 1 : u = Bar(i)
      BY <2>2 DEF Session
    <3>2. i \in 0 .. n - 1 /\ Bar(i) < Bar(k)
      BY BarOrder
    <3> QED
      BY <3>1, <3>2 DEF Session
  <2> QED
    BY <2>1, <2>2
<1>2. k \in Nat
  OBVIOUS
<1>3. Cardinality(Session(k)) = k
  BY <1>2, SessionCounts
<1> QED
  BY <1>1, <1>3

LEMMA SessionInOrder ==
  ASSUME NEW n \in Nat
  PROVE  InOrder(Session(n)) = [i \in 1 .. n |-> Open + (i - 1) * Step]
<1> DEFINE S == Session(n)
<1>1. Cardinality(S) = n
  BY SessionCounts
<1>2. ASSUME NEW i \in 1 .. n
      PROVE  (CHOOSE t \in S : Cardinality({u \in S : u < t}) = i - 1) = Bar(i - 1)
  <2>1. i - 1 \in 0 .. n - 1
    OBVIOUS
  <2>2. Bar(i - 1) \in S /\ Cardinality({u \in S : u < Bar(i - 1)}) = i - 1
    BY <2>1, BarsBefore DEF Session
  <2>3. ASSUME NEW t \in S, Cardinality({u \in S : u < t}) = i - 1
        PROVE  t = Bar(i - 1)
    <3>1. PICK k \in 0 .. n - 1 : t = Bar(k)
      BY DEF Session
    <3>2. Cardinality({u \in S : u < Bar(k)}) = k
      BY BarsBefore
    <3> QED
      BY <2>3, <3>1, <3>2
  <2> HIDE DEF S
  <2> QED
    BY <2>2, <2>3
<1> HIDE DEF S
<1>3. InOrder(S) = [i \in 1 .. n |-> Bar(i - 1)]
  BY <1>1, <1>2 DEF InOrder
<1> QED
  BY <1>3 DEF S, Bar

\* The bars of a complete session are those of the grid, because there are as many.
LEMMA CompleteIsSession ==
  ASSUME NEW candles, DOMAIN candles \subseteq Times, Complete(candles),
         \A t \in Bars(candles) : t % Step = 0
  PROVE  Bars(candles) = Session((Close - Open) \div Step) /\ (Close - Open) \div Step \in Nat
<1> DEFINE S == Bars(candles)
           n == (Close - Open) \div Step
<1>1. Step \in Nat /\ Step > 0 /\ Open \in Nat /\ Close \in Nat /\ Open < Close
      /\ Open % Step = 0 /\ Close % Step = 0
  BY GridAssumption
<1>2. Open = Step * (Open \div Step) /\ Close = Step * (Close \div Step)
      /\ Open \div Step \in Nat /\ Close \div Step \in Nat
  BY <1>1
<1>3. Close - Open = Step * n /\ n \in Nat
  <2>1. Close - Open = Step * (Close \div Step - Open \div Step)
    BY <1>1, <1>2
  <2>2. PICK d \in Int : d = Close \div Step - Open \div Step
    BY <1>2
  <2>3. Close - Open = Step * d /\ d \in Int
    BY <2>1, <2>2
  <2>4. n = d
    <3>1. n \in Int /\ Step * n <= Step * d /\ Step * d < Step * (n + 1)
      BY <1>1, <2>3
    <3>2. \A a, b \in Int : Step * a < Step * b => a < b
      BY <1>1
    <3> HIDE DEF n
    <3>3. n < d + 1 /\ d < n + 1
      <4>1. Step * (d + 1) = Step * d + Step
        BY <1>1, <2>3
      <4>2. Step * n < Step * (d + 1)
        BY <1>1, <2>3, <3>1, <4>1
      <4>3. n < d + 1
        BY <2>3, <3>1, <3>2, <4>2
      <4>4. d < n + 1
        BY <2>3, <3>1, <3>2
      <4> QED
        BY <4>3, <4>4
    <3> QED
      BY <2>3, <3>1, <3>3
  <2>5. d >= 0
    BY <1>1, <2>3
  <2> QED
    BY <2>3, <2>4, <2>5
<1> HIDE DEF n
<1>4. ASSUME NEW t \in S
      PROVE  t \in Session(n)
  <2>1. t \in Nat /\ Open <= t /\ t < Close /\ t % Step = 0
    BY GridAssumption DEF Bars, InWindow
  <2>2. t = Step * (t \div Step) /\ t \div Step \in Nat
    BY <1>1, <2>1
  <2>3. PICK q, o \in Int : q = t \div Step /\ o = Open \div Step
    BY <1>2, <2>2
  <2> DEFINE k == q - o
  <2>4. t = Open + Step * k /\ k \in Int
    <3>1. t = Step * q /\ Open = Step * o
      BY <1>2, <2>2, <2>3
    <3>2. Step * (q - o) = Step * q - Step * o
      BY <1>1
    <3> QED
      BY <1>1, <2>1, <3>1, <3>2
  <2> HIDE DEF k
  <2>5. 0 <= k
    BY <1>1, <2>1, <2>4
  <2>6. Step * k < Step * n
    BY <1>1, <1>3, <2>1, <2>4
  <2>7. k < n
    <3>1. \A a, b \in Int : Step * a < Step * b => a < b
      BY <1>1
    <3> QED
      BY <1>3, <2>4, <2>6, <3>1
  <2>8. t = Bar(k)
    <3>1. Step * k = k * Step
      BY <1>1, <2>4
    <3> QED
      BY <2>4, <3>1 DEF Bar
  <2>9. k \in 0 .. n - 1
    BY <1>3, <2>4, <2>5, <2>7
  <2> QED
    BY <2>8, <2>9 DEF Session
<1>5. Cardinality(S) = n
  BY Zenon DEF Complete, n
<1>6. S \subseteq Session(n)
  BY <1>4
<1>7. IsFiniteSet(Session(n)) /\ Cardinality(Session(n)) = n
  BY <1>3, SessionCounts
<1>8. S = Session(n)
  BY <1>5, <1>6, <1>7, FS_Subset
<1> QED
  BY <1>3, <1>8 DEF n

\* What a session that is not explicitly allowed to be incomplete is graded on.
LEMMA WholeAnswer ==
  ASSUME DocsOK, NEW d \in Dates, NEW a, a = Backtested(d, "rth", FALSE), a.status = "ok"
  PROVE  a.fed = [i \in 1 .. (Close - Open) \div Step |-> Open + (i - 1) * Step]
<1> DEFINE n == (Close - Open) \div Step
           candles == Candles(d)
<1>1. Accepts(d, "rth", FALSE) /\ a.fed = InOrder({t \in DOMAIN candles : InWindow(t)})
  BY DEF Backtested
<1>2. Complete(candles)
  BY <1>1 DEF Accepts
<1>3. DOMAIN candles \subseteq Times /\ \A t \in Bars(candles) : t % Step = 0
  BY CandlesKept DEF Kept, Bars
<1>4. a.fed = InOrder(Bars(candles))
  BY <1>1, Zenon DEF Bars
<1> HIDE DEF candles
<1>5. Bars(candles) = Session(n) /\ n \in Nat
  BY <1>2, <1>3, CompleteIsSession
<1> HIDE DEF n
<1>6. a.fed = [i \in 1 .. n |-> Open + (i - 1) * Step]
  BY <1>4, <1>5, SessionInOrder
<1> QED
  BY <1>6 DEF n

\* A session that is not explicitly allowed to be incomplete is graded on every minute
\* of the session, once, in order, and on nothing else, whatever was uploaded, merged and
\* replaced before: bars of the grid that are in the window and as many as the grid has
\* there are all of them.
THEOREM GradesAreWhole == Spec => []GradedIsWhole
<1>1. Init => GradedIsWhole
  BY DEF Init, GradedIsWhole
<1>2. TypeInv /\ GradedIsWhole /\ [Next]_vars => GradedIsWhole'
  <2> SUFFICES ASSUME TypeInv, GradedIsWhole, [Next]_vars PROVE GradedIsWhole'
    OBVIOUS
  <2>1. CASE UNCHANGED answer
    BY <2>1 DEF GradedIsWhole
  <2>2. ASSUME NEW d \in Dates, NEW session, NEW allow \in BOOLEAN, answer' = Backtested(d, session, allow)
        PROVE  GradedIsWhole'
    <3> SUFFICES ASSUME answer'.status = "ok", answer'.session = "rth", ~answer'.allow
                 PROVE  answer'.fed = [i \in 1 .. (Close - Open) \div Step |-> Open + (i - 1) * Step]
      BY DEF GradedIsWhole
    <3>1. answer'.session = session /\ answer'.allow = allow
      BY <2>2, Zenon DEF Backtested
    <3>2. session = "rth" /\ allow = FALSE
      BY <3>1
    <3> QED
      BY <2>2, <3>2, WholeAnswer DEF TypeInv
  <2>3. CASE Ask \/ \E d \in Dates : Grade(d)
    BY <2>2, <2>3, Zenon DEF Ask, Grade
  <2> QED
    BY <2>1, <2>3 DEF Next, Upload, UploadDay, UploadEnds, UploadFails, StartJob, NextFile, JobDay,
                      JobDayFails, JobEnds, Crash, Submit, GradeUnread, vars
<1> QED
  BY <1>1, <1>2, Typed, PTL DEF Spec

------------------------------------------------------------------------------
(* Whose candles stay.                                                      *)

\* The files that have written all they have of a day.
Done(d) == {f \in Disk \ job.files : ~(f = job.file /\ d \in job.days)}

\* Files are taken in their order, and the job is at the last one taken.
OrderInv ==
  /\ \A g \in job.files : \A f \in Disk \ job.files : Before(f, g)
  /\ job.days # {} => /\ job.days \subseteq DaysOf(job.file.sheet)
                      /\ \A f \in Disk \ job.files : f # job.file => Before(f, job.file)

\* Every minute that a file in F says is there, as the freshest of them says it.
Served(F, candles, d) == \A f \in F, t \in Times :
  Says(f, d, t) =>
    /\ t \in DOMAIN candles
    /\ (\A g \in F : Fresher(g, f) => ~Says(g, d, t)) => candles[t] = LastWins(f.sheet[d])[t]

FreshInv ==
  /\ job.state = "done" => job.files = {} /\ job.days = {}
  /\ job.state \in {"running", "done"} /\ job.failed = 0 /\ alone =>
       \A d \in Dates : Served(Done(d), Candles(d), d)

LEMMA BeforeIsFresher ==
  ASSUME NEW f \in Disk, NEW g \in Disk, Before(f, g)
  PROVE  Fresher(g, f)
<1>1. f.archive \in BOOLEAN /\ g.archive \in BOOLEAN
  BY FileTyped
<1> QED
  BY <1>1 DEF Before, Fresher

\* A file with nothing to say of the day changes nothing.
LEMMA ServedBySilent ==
  ASSUME NEW d, NEW candles, NEW F, NEW new, Served(F, candles, d), \A t \in Times : ~Says(new, d, t)
  PROVE  Served(F \cup {new}, candles, d)
BY DEF Served

\* The last file merged is the freshest.
LEMMA ServedByMerge ==
  ASSUME DocsOK, NEW d \in Dates, NEW F \in SUBSET Disk, NEW new \in Disk, Readable(new.sheet),
         \A f \in F : Before(f, new), Served(F, Candles(d), d)
  PROVE  Served(F \cup {new}, Merged(d, new.sheet[d], FALSE), d)
<1> DEFINE rows == new.sheet[d]
           merged == Merged(d, rows, FALSE)
<1>1. new.sheet \in Sheet /\ Aligned(new.sheet)
  BY FileTyped DEF Readable
<1>2. rows \in Rows /\ OnGrid(rows)
  BY <1>1, DayRows
<1>3. /\ DOMAIN merged = Said(rows) \cup DOMAIN Candles(d)
      /\ \A t \in Said(rows) : merged[t] = LastWins(rows)[t]
      /\ \A t \in DOMAIN Candles(d) \ Said(rows) : merged[t] = Candles(d)[t]
  BY <1>2, MergedKept
<1>4. \A t : Says(new, d, t) <=> t \in Said(rows)
  BY <1>1, NoneAssumption, Zenon DEF Says, Said, Readable
<1> HIDE DEF rows, merged
<1>5. ASSUME NEW f \in F \cup {new}, NEW t \in Times, Says(f, d, t)
      PROVE  /\ t \in DOMAIN merged
             /\ (\A g \in F \cup {new} : Fresher(g, f) => ~Says(g, d, t)) => merged[t] = LastWins(f.sheet[d])[t]
  <2>1. CASE f = new
    BY <1>3, <1>4, <1>5, <2>1 DEF rows
  <2>2. CASE f # new /\ t \in Said(rows)
    <3>1. Fresher(new, f) /\ Says(new, d, t)
      BY <1>4, <1>5, <2>2, BeforeIsFresher
    <3> QED
      BY <1>3, <2>2, <3>1
  <2>3. CASE f # new /\ t \notin Said(rows)
    <3>1. /\ t \in DOMAIN Candles(d)
          /\ (\A g \in F : Fresher(g, f) => ~Says(g, d, t)) => Candles(d)[t] = LastWins(f.sheet[d])[t]
      BY <1>5, <2>3, Zenon DEF Served
    <3>2. merged[t] = Candles(d)[t] /\ t \in DOMAIN merged
      BY <1>3, <2>3, <3>1
    <3> QED
      BY <3>1, <3>2
  <2> QED
    BY <2>1, <2>2, <2>3
<1> QED
  BY <1>5, Zenon DEF Served, merged, rows

LEMMA NextOrder == TypeInv /\ OrderInv /\ [Next]_vars => OrderInv'
<1> SUFFICES ASSUME TypeInv, OrderInv, [Next]_vars PROVE OrderInv'
  OBVIOUS
<1>1. CASE StartJob
  BY <1>1, StartJobTyped DEF OrderInv
<1>2. CASE NextFile
  <2>1. JobOK
    BY DEF TypeInv
  <2> DEFINE f == First(job.files)
  <2>2. /\ f \in job.files /\ (\A g \in job.files \ {f} : Before(f, g))
        /\ job'.files = job.files \ {f} /\ job'.file = f /\ (job'.days = {} \/ job'.days = DaysOf(f.sheet))
    BY <1>2, <2>1, NextFileTyped
  <2> HIDE DEF f
  <2>3. Disk \ job'.files \subseteq (Disk \ job.files) \cup {f}
    BY <2>2
  <2>4. \A g \in job'.files : \A e \in Disk \ job'.files : Before(e, g)
    BY <2>2, <2>3 DEF OrderInv
  <2>5. \A e \in Disk \ job'.files : e # f => Before(e, f)
    BY <2>2, <2>3 DEF OrderInv
  <2> QED
    BY <2>2, <2>4, <2>5 DEF OrderInv
<1>3. CASE JobDay
  <2>1. job'.files = job.files /\ job'.file = job.file /\ job'.days \subseteq job.days
    BY <1>3, JobDayTyped DEF TypeInv
  <2> QED
    BY <2>1 DEF OrderInv
<1>4. CASE JobDayFails \/ JobEnds
  <2>1. job'.files = job.files /\ job'.days = {}
    BY <1>4, JobDayFailsTyped, JobEndsTyped DEF TypeInv
  <2> QED
    BY <2>1 DEF OrderInv
<1>5. CASE Crash
  BY <1>5, NoJobTyped DEF Crash, OrderInv
<1>6. CASE UNCHANGED job
  BY <1>6 DEF OrderInv
<1> QED
  BY <1>1, <1>2, <1>3, <1>4, <1>5, <1>6
  DEF Next, Upload, UploadDay, UploadEnds, UploadFails, Ask, Submit, Grade, GradeUnread, vars

\* The files that have written theirs: the same after a step, or the present one besides.
LEMMA DoneAfterJobDay ==
  ASSUME JobOK, JobDay, NEW d \in Dates
  PROVE  Done(d)' = IF d = Min(job.days) THEN Done(d) \cup {job.file} ELSE Done(d)
<1>1. /\ job'.files = job.files /\ job'.file = job.file /\ Min(job.days) \in job.days
      /\ job'.days = job.days \ {Min(job.days)} /\ job.file \in Disk \ job.files
  BY JobDayTyped DEF JobOK, JobDay
<1>2. Done(d)' = {f \in Disk \ job'.files : ~(f = job'.file /\ d \in job'.days)}
  BY DEF Done
<1> QED
  BY <1>1, <1>2 DEF Done

LEMMA DoneAfterNextFile ==
  ASSUME JobOK, NextFile, Readable(First(job.files).sheet), NEW d \in Dates
  PROVE  \/ Done(d)' = Done(d)
         \/ Done(d)' = Done(d) \cup {First(job.files)} /\ First(job.files).sheet[d] = <<>>
<1> DEFINE f == First(job.files)
<1>1. /\ f \in job.files /\ job.files \in SUBSET Disk /\ job.days = {}
      /\ job'.files = job.files \ {f} /\ job'.file = f /\ job'.days = DaysOf(f.sheet)
  BY NextFileTyped DEF JobOK, Jobs
<1>2. Done(d)' = {e \in Disk \ job'.files : ~(e = job'.file /\ d \in job'.days)}
  BY DEF Done
<1>3. d \notin DaysOf(f.sheet) => f.sheet[d] = <<>>
  BY DEF DaysOf
<1> HIDE DEF f
<1> QED
  BY <1>1, <1>2, <1>3 DEF Done, f

LEMMA NextFresh == TypeInv /\ OrderInv /\ FreshInv /\ [Next]_vars => FreshInv'
<1> SUFFICES ASSUME TypeInv, OrderInv, FreshInv, [Next]_vars PROVE FreshInv'
  OBVIOUS
<1>t. JobOK /\ PostOK /\ DocsOK /\ job \in Jobs
  BY DEF TypeInv, JobOK
<1>1. CASE StartJob
  <2>1. job'.state = "running" /\ job'.files = Disk
    BY <1>1, StartJobTyped
  <2>2. ASSUME NEW d \in Dates PROVE Done(d)' = {}
    BY <2>1 DEF Done
  <2> QED
    BY <2>1, <2>2 DEF FreshInv, Served
<1>2. CASE NextFile
  <2> DEFINE f == First(job.files)
  <2>1. job.state = "running" /\ job'.state = "running"
    BY <1>2, <1>t, NextFileTyped
  <2>2. CASE ~Readable(f.sheet)
    <3>1. job'.failed > 0
      BY <1>2, <1>t, <2>2, NextFileTyped
    <3> QED
      BY <2>1, <3>1 DEF FreshInv
  <2>3. CASE Readable(f.sheet)
    <3>1. job'.failed = job.failed
      BY <1>2, <1>t, <2>3, NextFileTyped
    <3>2. alone' = alone /\ doc' = doc
      BY <1>2, Zenon DEF NextFile
    <3>3. ASSUME job.failed = 0, alone, NEW d \in Dates PROVE Served(Done(d), Candles(d), d)'
      <4>1. Served(Done(d), Candles(d), d)
        BY <2>1, <3>3 DEF FreshInv
      <4>2. Candles(d)' = Candles(d)
        BY <3>2 DEF Candles
      <4>3. CASE Done(d)' = Done(d)
        BY <4>1, <4>2, <4>3 DEF Served
      <4>4. CASE Done(d)' = Done(d) \cup {f} /\ f.sheet[d] = <<>>
        <5>1. \A t \in Times : ~Says(f, d, t)
          BY <4>4 DEF Says
        <5>2. Served(Done(d) \cup {f}, Candles(d), d)
          BY <4>1, <5>1, ServedBySilent
        <5> QED
          BY <4>2, <4>4, <5>2 DEF Served
      <4> QED
        BY <1>2, <1>t, <2>3, <4>3, <4>4, DoneAfterNextFile
    <3> QED
      BY <2>1, <3>1, <3>2, <3>3 DEF FreshInv
  <2> QED
    BY <2>2, <2>3
<1>3. CASE JobDay
  <2> DEFINE f == job.file
  <2>e. PICK e \in Dates : e = Min(job.days)
    BY <1>3, <1>t, JobDayTyped DEF Jobs
  <2>1. /\ job'.state = job.state /\ job.state = "running" /\ job'.failed = job.failed
        /\ e \in job.days /\ e \in Dates /\ f \in Disk /\ f.sheet \in Sheet /\ Readable(f.sheet)
    <3>1. /\ job'.state = job.state /\ job'.failed = job.failed /\ e \in job.days
      BY <1>3, <1>t, <2>e, JobDayTyped
    <3>2. job.state = "running" /\ job.days # {}
      BY <1>3 DEF JobDay
    <3>3. f \in Disk /\ f.sheet \in Sheet /\ Aligned(f.sheet)
      BY <1>t, <3>2 DEF JobOK
    <3>4. Readable(f.sheet)
      BY <3>3, NoneAssumption DEF Readable, Sheet
    <3> QED
      BY <1>t, <3>1, <3>2, <3>3, <3>4 DEF Jobs
  <2>2. alone' = alone
    BY <1>3, Zenon DEF JobDay
  <2>3. Writes(e, f.sheet[e], FALSE)
    BY <1>3, <1>t, <2>e, JobWrites
  <2>4. Candles(e)' = Merged(e, f.sheet[e], FALSE) /\ \A d \in Dates \ {e} : doc'[d] = doc[d]
    BY <1>t, <2>3, UpsertEffect, Zenon DEF Writes
  <2>5. ASSUME job.failed = 0, alone, NEW d \in Dates PROVE Served(Done(d), Candles(d), d)'
    <3>1. Served(Done(d), Candles(d), d)
      BY <2>1, <2>5 DEF FreshInv
    <3>2. CASE d # e
      <4>1. Candles(d)' = Candles(d)
        BY <2>4, <3>2 DEF Candles
      <4>2. Done(d)' = Done(d)
        BY <1>3, <1>t, <2>e, <3>2, DoneAfterJobDay
      <4> QED
        BY <3>1, <4>1, <4>2 DEF Served
    <3>3. CASE d = e
      <4>1. Done(d) \in SUBSET Disk /\ \A g \in Done(d) : Before(g, f)
        BY <2>1, <3>3 DEF Done, OrderInv
      <4>2. Served(Done(d) \cup {f}, Merged(d, f.sheet[d], FALSE), d)
        BY <1>t, <2>1, <3>1, <4>1, ServedByMerge
      <4>3. Done(d)' = Done(d) \cup {f}
        BY <1>3, <1>t, <2>e, <3>3, DoneAfterJobDay
      <4>4. Candles(d)' = Merged(d, f.sheet[d], FALSE)
        BY <2>4, <3>3
      <4> HIDE DEF f
      <4> QED
        BY <4>2, <4>3, <4>4 DEF Served
    <3> QED
      BY <3>2, <3>3
  <2> QED
    BY <2>1, <2>2, <2>5 DEF FreshInv
<1>4. CASE JobDayFails
  <2>1. job.state = "running" /\ job'.state = job.state /\ job'.failed > 0
    BY <1>4, <1>t, JobDayFailsTyped DEF JobDayFails
  <2> QED
    BY <2>1 DEF FreshInv
<1>5. CASE JobEnds
  <2>1. /\ job'.files = {} /\ job'.days = {} /\ job'.failed = job.failed
        /\ job.files = {} /\ job.days = {} /\ job.state = "running"
    BY <1>5, <1>t, JobEndsTyped
  <2>2. alone' = alone /\ doc' = doc
    BY <1>5, Zenon DEF JobEnds
  <2>3. ASSUME NEW d \in Dates PROVE Done(d)' = Done(d) /\ Candles(d)' = Candles(d)
    BY <2>1, <2>2 DEF Done, Candles
  <2> QED
    BY <2>1, <2>2, <2>3 DEF FreshInv, Served
<1>6. CASE Crash
  BY <1>6, NoJobTyped DEF Crash, FreshInv
<1>7. CASE UploadDay
  <2>1. alone' = FALSE /\ job' = job
    BY <1>7, Zenon DEF UploadDay
  <2> QED
    BY <2>1 DEF FreshInv
<1>8. CASE UNCHANGED <<job, doc, alone>>
  <2>1. ASSUME NEW d \in Dates PROVE Done(d)' = Done(d) /\ Candles(d)' = Candles(d)
    BY <1>8 DEF Done, Candles
  <2> QED
    BY <1>8, <2>1 DEF FreshInv, Served
<1> QED
  BY <1>1, <1>2, <1>3, <1>4, <1>5, <1>6, <1>7, <1>8
  DEF Next, Upload, UploadEnds, UploadFails, Ask, Submit, Grade, GradeUnread, vars

\* After a job that failed at nothing and that no upload has written beside, every
\* minute has the candle of the freshest file that has one, whatever was stored before
\* and however often the job was started.
THEOREM FreshestWins == Spec => []FreshWins
<1>1. Init => OrderInv /\ FreshInv
  BY NoJobTyped DEF Init, OrderInv, FreshInv
<1>2. TypeInv /\ OrderInv /\ FreshInv => FreshWins
  <2> SUFFICES ASSUME TypeInv, FreshInv, job.state = "done", job.failed = 0, alone, NEW d \in Dates
               PROVE  Served(Disk, Candles(d), d)
    BY Zenon DEF FreshWins, Served
  <2>1. Done(d) = Disk
    BY DEF FreshInv, Done
  <2> QED
    BY <2>1 DEF FreshInv
<1> QED
  BY <1>1, <1>2, NextOrder, NextFresh, Typed, PTL DEF Spec
==============================================================================
