SPECIFICATION FairSpec
CONSTANTS
  Loggers = {p1, p2}
  Sizes = {1, 3, 6}
  BufSize = 2
  MaxRecords = 3
INVARIANTS
  InOrder
PROPERTIES
  SignalDrains
  DestructorReturns
CHECK_DEADLOCK FALSE
