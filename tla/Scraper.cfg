SPECIFICATION Spec
CONSTANTS
  NoText = NoText
  NoKey = NoKey
  Apis <- MCApis
  Objects <- MCObjects
  Configs <- MCConfigs
  Existing <- MCExisting
  MaxVersion = 2
  MaxFaults = 1
  MaxChanges = 1
  NoObject = NoObject
  NoEntry = NoEntry
INVARIANTS
  TypeOK
  CleanScrapeIsComplete
PROPERTIES
  StoreChangesAsAsked
CHECK_DEADLOCK FALSE
