SPECIFICATION Spec
CONSTANTS
  Tasks = {t1, t2}
  Producers = {p1, p2}
  LoopThread = loop
  NoThread = noThread
  NoEntry = noEntry
  PipeCapacity = 2
  ReadSize = 1
  PipeModes = {TRUE}
  StopModes <- MCStopping
  SelfPush = TRUE
  ForeignStop = FALSE
  HangUps = TRUE
  IoTimeouts = TRUE
INVARIANTS
  NoLostWakeup
  
  EventAddSucceeds
PROPERTY TerminalIsFinal
SYMMETRY MCSymmetry
CHECK_DEADLOCK FALSE
