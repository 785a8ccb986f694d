SPECIFICATION Spec
CONSTANTS
  NoText = NoText
  NoKey = NoKey
  Apis <- MCApis
  Objects <- TwoObjects
  Configs <- OneConfig
  Existing <- MCExisting
  MaxVersion = 1
  MaxFaults = 0
  MaxChanges = 0
  NoObject = NoObject
  NoEntry = NoEntry
INVARIANTS
  EverySelectedObjectIsStored
CHECK_DEADLOCK FALSE
