SPECIFICATION FairSpec
CONSTANTS
  Coroutines = {c1, c2}
  Fds = {f1}
  None = none
  Timeout = 0
  Naps = {1}
  HangUps <- MCResets
  CloseBusy = FALSE
  MaxCalls = 2
  MaxTime = 2
INVARIANTS
  EpollCtlSucceeds
  TableMatchesEpoll
  OneWake
  NoTimerLeak
PROPERTIES
  NoEarlyReturn
  EventResumes
  SleepEndsAtLast
CHECK_DEADLOCK FALSE
