CONSTANTS
  w1 = w1
  w2 = w2
  c1 = c1
  c2 = c2
  c3 = c3
  c4 = c4
  c5 = c5
  NBuffer = 1
  SchedPolicy = "FIFO"
  Workers = {w1, w2}
  Fds = {c1, c2, c3, c4}
  NoFd = NoFd
  LongMax = 10
  Requests <- MCRequests
  ZeroRequest <- Zero
  Clients <- Mixed
  Uris <- MCUris
  NoUri = ""
  Files <- MCFiles
  FileOf <- MCFileOf
  DynamicUris <- MCDynamic
  Missing = Missing
  Sizes = {0, 1, 2}
  Times = {0}
  InitialFiles <- MCInitialFiles
  Edits <- NoEdits
SPECIFICATION ServerSpec
INVARIANTS
  NothingBorrowed
