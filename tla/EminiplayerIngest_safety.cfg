SPECIFICATION Spec
CONSTANTS
  qFri = qFri
  qMon = qMon
  pMon = pMon
  pTue = pTue
  pOther = pOther
  vFri = vFri
  vMonRecap = vMonRecap
  vMon = vMon
  vTue = vTue
  vWrong = vWrong
  vNew = vNew
  NoFile = NoFile
  NoManifest = NoManifest
  NoClaim = NoClaim
  NoTitle = NoTitle
  NoDate = NoDate
  Nothing = Nothing
  PlanMd = PlanMd
  PlanPdf = PlanPdf
  Pages = {qFri, qMon, pMon, pTue, pOther}
  Videos = {vFri, vMonRecap, vMon, vTue, vWrong, vNew}
  Days <- MCDays
  RecapDates <- MCRecapDates
  Site <- MCSite
  Versions = {1, 2, 3}
  Title <- MCTitle
  Transcript <- MCTranscript
  Verdict <- MCVerdict
  Worksheet <- MCWorksheet
  RecapLookback = 14
  MinLines = 3
  MinChars = 50
  MinDuration = 120
  MaxDuration = 10800
  MinBytes = 4
  ForceFlags = {TRUE, FALSE}
  Faults = {"stage", "save", "ack", "uncommit", "read", "discard", "crash", "race"}
  Cost <- MCCost
  MaxFaults = 2
  MaxForces = 1
INVARIANTS
  CommittedIsComplete
  CommittedIsRight
  NoSharedVideo
  SourcesMatch
  AllOrNothing
  AuditIsQuiet
