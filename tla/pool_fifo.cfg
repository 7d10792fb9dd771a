CONSTANTS
  w1 = w1
  w2 = w2
  c1 = c1
  c2 = c2
  c3 = c3
  c4 = c4
  c5 = c5
  c6 = c6
  NBuffer = 2
  SchedPolicy = "FIFO"
  Workers = {w1, w2}
  Fds = {c1, c2, c3, c4, c5, c6}
  NoFd = NoFd
  LongMax = 10
  Requests <- OneRequest
  ZeroRequest <- Zero
SPECIFICATION FairSpec
INVARIANTS
  DescriptorBound
PROPERTIES
  EveryRequestServed
  AcceptedIsQueued
