CONSTANTS
  w1 = w1
  w2 = w2
  c1 = c1
  c2 = c2
  c3 = c3
  c4 = c4
  c5 = c5
  c6 = c6
  NBuffer = 3
  SchedPolicy = "SFF"
  Workers = {w1, w2}
  Fds = {c1, c2, c3, c4}
  NoFd = NoFd
  LongMax = 10
  Requests <- ThreeRequests
  ZeroRequest <- Zero
SPECIFICATION Spec
SYMMETRY WorkersAndFds
INVARIANTS
  TypeOK
  MutualExclusion
  SemaphoresAccount
  Contiguous
  NoOverwrite
  TargetFound
  OwnedOnce
PROPERTIES
  ImplementsServicePool
