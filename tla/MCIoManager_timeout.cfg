SPECIFICATION Spec
CONSTANTS
  Coroutines = {c1}
  Fds = {f1}
  None = none
  Timeout = 1
  Naps = {}
  HangUps <- MCNoHangUp
  CloseBusy = FALSE
  MaxCalls = 2
  MaxTime = 2
INVARIANT EpollCtlSucceeds
CHECK_DEADLOCK FALSE
