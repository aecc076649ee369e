SPECIFICATION Spec
CONSTANTS
  Callers = {p1, p2}
  Fds = {f1, f2}
  Ptrs = {a1, a2, a3}
  Null = null
  Freed = freed
  SocketFlags <- MCIoctlOn
  ToggleAnytime = FALSE
INVARIANTS
  NoUseAfterFree
  ContextMatches
  NoStaleContext
  NeverBlocksThread
SYMMETRY MCSymmetry
