SPECIFICATION Spec
CONSTANTS
  Books <- MCBooks
  Prices = {0, 1, 2, 3, 4, 5, 6, 7}
  MaxCandles = 3
  OpenMinutes = None
  CutoffMinutes = None
  Unit = 2
  None = None
INVARIANTS
  NoRetroactiveExit
\* The simulation ends with the session, or with the book that is refused.
CHECK_DEADLOCK FALSE
