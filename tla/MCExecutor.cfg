SPECIFICATION Spec
CONSTANTS
  Coroutines = {e1, e2, e3}
  Main = main
  Base = base
  NoContext = noContext
INVARIANTS
  NoWildJump
  CurrentIsRunning
CHECK_DEADLOCK FALSE
