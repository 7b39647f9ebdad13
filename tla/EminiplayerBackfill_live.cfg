SPECIFICATION BackfillFairSpec
CONSTANTS
  q30 = q30
  q31 = q31
  q1 = q1
  p31 = p31
  p2 = p2
  v30 = v30
  v31 = v31
  v1 = v1
  w31 = w31
  w2 = w2
  NoFile = NoFile
  NoManifest = NoManifest
  NoClaim = NoClaim
  NoTitle = NoTitle
  NoDate = NoDate
  Nothing = Nothing
  PlanMd = PlanMd
  PlanPdf = PlanPdf
  NoDay = NoDay
  Pages = {q30, q31, q1, p31, p2}
  Videos = {v30, v31, v1, w31, w2}
  Days = {739616, 739618}
  RecapDates = {739615, 739616, 739617}
  Site <- MCSite
  Versions = {1, 2}
  Title <- MCTitle
  Transcript <- MCTranscript
  Verdict <- MCVerdict
  Worksheet <- MCWorksheet
  RecapLookback = 14
  MinLines = 1
  MinChars = 50
  MinDuration = 120
  MaxDuration = 10800
  MinBytes = 4
  ForceFlags = {FALSE}
  Faults = {"stage", "scrape", "hang", "crash"}
  Cost <- MCCost
  MaxFaults = 1
  MaxForces = 0
  Ranges <- MCRanges
  MaxStageFailures = 2
INVARIANTS
  BackfillTypeOK
  CountedIsCommitted
PROPERTIES
  StartsFromCurrentListing
  ScrapedJobEnds
  BackfillCommits
\* A page callback that hangs may hold up everything until the process is restarted.
CHECK_DEADLOCK FALSE
