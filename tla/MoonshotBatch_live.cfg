SPECIFICATION FairSpec
CONSTANTS
  Procs = {p1}
  Drains = {d1, d2, d3}
  Items = {1, 2}
  Concurrency = 2
  Lease = 0
  MaxAge = 1
  Grace = 0
  GcTtl = 0
  MaxFaults = 0
  NoProc = NoProc
  NoDrain = NoDrain
  GroupOf <- MCGroupOf
PROPERTY BatchResolves
PROPERTY DrainedBatchEnds
PROPERTY ImplementsBatchService
