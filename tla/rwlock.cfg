SPECIFICATION FairSpec
CONSTANTS
  Threads = {t1, t2, t3}
INVARIANT CounterInv
PROPERTIES
  RefinesReadersWriters
  LockProgress
