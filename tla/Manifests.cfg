SPECIFICATION Spec
CONSTANTS
  empty = empty  v1 = v1  v2 = v2  noise = noise  longhorn = longhorn  disks = disks
  NoObject = NoObject
  Map = Map
  Keys <- MCKeys
  Scalars <- MCScalars
  EmptyString = empty
  NoiseAnnotations = {"class"}
  HelmAnnotations = {"helm"}
  NoiseLabels = {"hash"}
  PreserveHelm = FALSE
  SortedKeys <- MCSortedKeys
  MaxDriftPaths = 2
  Items <- MCItems
  LocalNames = {longhorn}
  IngressClass = "class"
  Family <- MCFamily
  Objects <- MCObjects
  Edits <- MCEdits
  ServerSets <- MCServerSets
  Defaults <- MCDefaults
INVARIANTS
  TypeOK
  SanitizingKeepsMeaning
  StoredIsClean
  SyncedMeansSame
  DriftPathsAreExact
  DeployedIsSynced
  WarningsDescribeView
