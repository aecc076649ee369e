\* Liveness of the event loop, with hang-ups and a pipe of one byte.
SPECIFICATION FairSpec
CONSTANTS
  Tasks = {t1, t2}
  Producers = {p1, p2}
  LoopThread = loop
  NoThread = noThread
  NoEntry = noEntry
  PipeCapacity = 1
  ReadSize = 1
  PipeModes = {TRUE}
  StopModes <- MCStopping
  SelfPush = FALSE
  ForeignStop = FALSE
  HangUps = TRUE
  IoTimeouts = FALSE
PROPERTIES
  ProducerReturns
  RemoteTaskRuns
  StopTerminates
  SleeperResumes
CHECK_DEADLOCK FALSE
