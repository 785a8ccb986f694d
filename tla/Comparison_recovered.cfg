SPECIFICATION ComparisonSpec
CONSTANTS
  a = a  b = b  c1 = c1  c2 = c2  e1 = e1  e2 = e2  clean = clean  pvc = pvc
  synced = synced  drifted = drifted  missing = missing  NoBatch = NoBatch
  NoStatus = NoStatus  Absent = Absent  Torn = Torn  NoMeta = NoMeta
  Stems <- MCStems
  Resources <- OneResource
  Contents <- TwoContents
  Verdicts <- AllVerdicts
  WarningsOf <- WarnOfSecond
  NoWarnings = clean
  FlushEvery = 2
  Editors = {e1}
  DRFails = FALSE
  MaxEdits = 1
  MaxDRChanges = 1
  Faults = {"crash"}
  MaxFaults = 1
INVARIANTS
  MissingIsMissing
