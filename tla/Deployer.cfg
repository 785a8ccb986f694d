SPECIFICATION Spec
CONSTANTS
  here = here
  there = there
  q1 = q1
  q2 = q2
  f = f
  g = g
  v = v
  Namespace = here
  Elsewhere = there
  Entries <- MCEntries
  Fields = {f, g}
  Values = {v}
  Foreign <- OnlyBoth
  Documents <- MCDocuments
  Requests = {q1, q2}
  MaxEvents = 1
  NoEntry = NoEntry
  Unreadable = Unreadable
  NoObject = NoObject
  NoTarget = NoTarget
SYMMETRY MCSymmetry
INVARIANTS
  TypeOK
  EveryTargetIsReported
  NeedsComeFirst
  SuccessIsLive
PROPERTIES
  MissingTouchesNothing
CHECK_DEADLOCK FALSE
