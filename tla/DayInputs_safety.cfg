SPECIFICATION Spec
CONSTANTS
  c1 = c1
  c2 = c2
  w1 = w1
  NoDoc = NoDoc
  NoFile = NoFile
  NoManifest = NoManifest
  NoRecord = NoRecord
  Untagged = Untagged
  Cells = {c1, c2}
  Docs = {"d1", "d2"}
  Contents = {"r1", "r2", "t1", "t2", "p1", "p2"}
  Commits <- MCCommits
  Warmers = {w1}
  Providers = {"anthropic", "moonshot"}
  Legacy = "anthropic"
  NoWarming = {"moonshot"}
  MaxDeploys = 2
INVARIANTS
  SubmittedIsCommitted
  RowIsUnmixed
