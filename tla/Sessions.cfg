SPECIFICATION Spec
CONSTANTS
  l1 = l1
  l2 = l2
  i1 = i1
  NoText = NoText
  NoKey = NoKey
  Names <- MCNames
  Configs <- MCConfigs
  SecretOf <- MCSecretOf
  Faults = {"crash", "torn", "error"}
  MaxFaults = 1
  MaxChanges = 1
  Absent = Absent
  Torn = Torn
  Logins = {l1, l2}
  Ids = {i1}
  Grants <- MCGrants
  Attempts = 1
  Window = 2
  TTL = 1
  MaxTime = 2
  NoSession = NoSession
SYMMETRY MCSymmetry
INVARIANTS
  TypeOK
  SomebodyRemains
  AnswersAreKept
  SameSecretOpens
  RefusalsAreBounded
  SessionsLastTheirTime
PROPERTIES
  UsersAreNotReplaced
CHECK_DEADLOCK FALSE
