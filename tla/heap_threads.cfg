CONSTANTS
  t1 = t1
  t2 = t2
  t3 = t3
  Capacity = 18
  Header = 3
  MagicAt = 1
  FreedAt = 2
  Null = Null
  FreeListSize = 1
  MutexSize = 1
  Sizes = {2}
  Mallocs <- TwoMallocs
  Threads = {t1, t2, t3}
  ProcessOf <- OneProcess
  MaxCalls = 1
SPECIFICATION FairSpec
INVARIANTS
  Exclusion
  NothingStale
PROPERTIES
  ImplementsHeapAllocator
  EveryCallReturns
