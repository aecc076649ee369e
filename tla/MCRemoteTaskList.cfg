SPECIFICATION FairSpec
CONSTANTS
  Producers = {p1, p2}
  Tasks = {t1, t2, t3}
  Addrs = {a1, a2, a3}
  Null = null
  Free = free
INVARIANTS
  NoDangling
  NoLeak
PROPERTY ImplementsStack
CHECK_DEADLOCK FALSE
