SPECIFICATION Spec
CONSTANTS
  Coroutines = {c1, c2}
  Fds = {f1}
  None = none
  Timeout = 0
  Naps = {1}
  HangUps <- MCResets
  CloseBusy = FALSE
  MaxCalls = 2
  MaxTime = 2
INVARIANT BlocksOnlyWhenIdle
CHECK_DEADLOCK FALSE
