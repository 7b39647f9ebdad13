SPECIFICATION Spec
CONSTANTS
  a = a
  b = b
  u = u
  Malformed = Malformed
  NoDoc = NoDoc
  NoFile = NoFile
  NoCell = NoCell
  Dates = {1, 2}
  Times = {0, 2, 4, 5, 6, 8}
  Values = {a, b, u}
  Step = 2
  Open = 2
  Close = 8
  Sheets <- MCSheets
  Disk <- MCDisk
  MaxPosts = 2
  MaxFaults = 1
INVARIANTS
  VerdictIsCurrent
  GradedIsWhole
  SubmittedIsGraded
  FreshWins
