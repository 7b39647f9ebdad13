SPECIFICATION PSpec
CONSTANTS
  c1 = c1
  c2 = c2
  c3 = c3
  Cells = {c1}
  Series = {"base"}
  SeriesOf <- MCSeriesOf
  DayOf <- MCDayOf
  Scorecard <- MCScorecard
  LastDay = 1
  Requests <- MCRequests
  Runs = {r1}
  Passes = {x1}
  WorkerOf <- MCOneWorker
  Batches = {b1, b2}
  FailsWith = {"errored", "canceled", "expired"}
  GcWaits = TRUE
  MaxFaults = 2
  Base = 2
  NoRun = NoRun
  NoBatch = NoBatch
  Dialects = {"emulated", "moonshot", "anthropic"}
  EmulatedRows <- MCEmulatedRows
  MoonshotRows <- MCMoonshotRows
  AnthropicRows <- MCAnthropicRows
  MaxSwallowed = 1
PROPERTY BatchesClose
INVARIANT CellsAreAnswered
INVARIANT CostedOnce
INVARIANT InputsAreCollected
