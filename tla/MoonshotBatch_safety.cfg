SPECIFICATION Spec
CONSTANTS
  Procs = {p1, p2}
  Drains = {d1, d2}
  Items = {1, 2, 3}
  Concurrency = 2
  Lease = 1
  MaxAge = 1
  Grace = 1
  GcTtl = 1
  MaxFaults = 1
  NoProc = NoProc
  NoDrain = NoDrain
  GroupOf <- MCGroupOf
SYMMETRY Symmetry
INVARIANT EndedIsComplete
INVARIANT LeaseIsExclusive
