SPECIFICATION Spec
CONSTANTS
  Keys <- MCKeys
  Depth <- MCDepth
  Types <- MCTypes
  Nodes <- MCNodes
  Files <- MCFiles
  Convert <- MCConvert
  Defaults <- MCDefaults
  Absent = absent
  Null = null
  Scalar = scalar
  Threads = {t1, t2}
  Ids = {"PF", "AS", "XX"}
  Kind <- MCKind
  NewKinds = {"SimpleFile"}
  LogsKey = "logs"
  NoLogs <- MCNoLogs
  Levels = {0, 4}
  Fatal = 4
  BufCap = 1
  MaxLogs = 3
SYMMETRY MCSymmetry
INVARIANTS
  EveryRecordOnce
  ReflectsConfig
  ConfigStable
PROPERTY FirstMakerStays
CHECK_DEADLOCK FALSE
