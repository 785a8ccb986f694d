SPECIFICATION ComparisonSpec
CONSTANTS
  a = a  b = b  c1 = c1  c2 = c2  e1 = e1  e2 = e2  clean = clean  pvc = pvc
  synced = synced  drifted = drifted  missing = missing  NoBatch = NoBatch
  NoStatus = NoStatus  Absent = Absent  Torn = Torn  NoMeta = NoMeta
  Stems <- MCStems
  Resources <- TwoResources
  Contents <- TwoContents
  Verdicts <- AllVerdicts
  WarningsOf <- NothingToWarn
  NoWarnings = clean
  FlushEvery = 2
  Editors = {}
  DRFails = FALSE
  MaxEdits = 0
  MaxDRChanges = 1
  Faults = {"crash"}
  MaxFaults = 1
SYMMETRY MCSymmetry
INVARIANTS
  UndisturbedComparisonIsTrue
