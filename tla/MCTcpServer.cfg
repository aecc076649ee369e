SPECIFICATION FairSpec
CONSTANTS
  Addrs = {a1}
  Conns = {c1, c2}
  Kinds = {"simple", "random", "sequence", "prio"}
  PrioThreads <- MCPrioThreads
  PrioArgs = {0, 5}
  UseCurrent = TRUE
  Restart = FALSE
  StartUnbound = FALSE
  EarlyClients = FALSE
  Asserts = FALSE
  MaxFd = 4
CHECK_DEADLOCK FALSE
INVARIANTS
  
  ExactlyOnce
  PrioHonoured
  EvenlySpread

  
  
  
