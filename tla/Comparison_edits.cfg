SPECIFICATION FairComparisonSpec
CONSTANTS
  a = a  b = b  c1 = c1  c2 = c2  e1 = e1  e2 = e2  clean = clean  pvc = pvc
  synced = synced  drifted = drifted  missing = missing  NoBatch = NoBatch
  NoStatus = NoStatus  Absent = Absent  Torn = Torn  NoMeta = NoMeta
  Stems <- MCStems
  Resources <- OneResource
  Contents <- TwoContents
  Verdicts <- AllVerdicts
  WarningsOf <- WarnOfSecond
  NoWarnings = clean
  FlushEvery = 2
  Editors = {e1}
  DRFails = TRUE
  MaxEdits = 2
  MaxDRChanges = 0
  Faults = {}
  MaxFaults = 0
INVARIANTS
  TypeOKComparison
PROPERTIES
  WarningsHeal
