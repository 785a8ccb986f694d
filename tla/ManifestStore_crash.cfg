SPECIFICATION Spec
CONSTANTS
  a = a  b = b  c1 = c1  c2 = c2  c3 = c3
  synced = synced  drifted = drifted  clean = clean  pvc = pvc
  NoStatus = NoStatus  Absent = Absent  Torn = Torn  NoMeta = NoMeta
  Stems <- MCStems
  Resources <- TwoResources
  Contents <- TwoContents
  Verdicts = {synced}
  WarningsOf <- WarnOfSecond
  NoWarnings = clean
  FlushEvery = 2
  Faults = {"crash", "torn"}
  MaxFaults = 2
SYMMETRY MCSymmetry
INVARIANTS
  TypeOK
  EveryManifestListed
  VerdictsAreDurable
  LagIsBounded
  EditedFlagTracksOverlay
PROPERTIES
  OverlaysBelongToOperators
CHECK_DEADLOCK FALSE
