SPECIFICATION FairSpec
CONSTANTS
  a = a  b = b  c1 = c1  c2 = c2  c3 = c3
  synced = synced  drifted = drifted  clean = clean  pvc = pvc
  NoStatus = NoStatus  Absent = Absent  Torn = Torn  NoMeta = NoMeta
  Stems <- MCStems
  Resources <- OneResource
  Contents <- ThreeContents
  Verdicts = {synced}
  WarningsOf <- NothingToWarn
  NoWarnings = clean
  FlushEvery = 2
  Faults = {"crash", "error"}
  MaxFaults = 2
PROPERTIES
  EntriesHeal
  ImplementsOverlayStore
