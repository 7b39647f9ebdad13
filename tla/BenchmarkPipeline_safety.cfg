SPECIFICATION Spec
CONSTANTS
  c1 = c1
  c2 = c2
  c3 = c3
  Cells = {c1, c2, c3}
  Series = {"base", "scorecard", "later"}
  SeriesOf <- MCSeriesOf
  DayOf <- MCDayOf
  Scorecard <- MCScorecard
  LastDay = 2
  Requests <- MCRequests
  Runs = {r1, r2}
  Passes = {x1, x2}
  WorkerOf <- MCOneWorker
  Batches = {b1, b2}
  FailsWith = {"errored"}
  GcWaits = TRUE
  MaxFaults = 1
  Base = 2
  NoRun = NoRun
  NoBatch = NoBatch
SYMMETRY Symmetry
INVARIANT ReconciledIsComplete
PROPERTY SubmitsOnlyMissing
PROPERTY ClosedStaysClosed
INVARIANT ScoreboardCurrent
