CONSTANTS
  w1 = w1
  w2 = w2
  c1 = c1
  c2 = c2
  c3 = c3
  c4 = c4
  c5 = c5
  NBuffer = 1
  SchedPolicy = "RFF"
  Workers = {w1, w2}
  Fds = {c1, c2, c3}
  NoFd = NoFd
  LongMax = 10
  Requests <- MCRequests
  ZeroRequest <- Zero
  Clients <- Everybody
  Uris <- MCUris
  NoUri = ""
  Files <- MCFiles
  FileOf <- MCFileOf
  DynamicUris <- MCDynamic
  Missing = Missing
  Sizes = {0, 1, 2}
  Times <- MCTimes
  InitialFiles <- MCInitialFiles
  Edits <- SomeEdits
SPECIFICATION ServerSpec
SYMMETRY WorkersAndFds
INVARIANTS
  ServerTypeOK
  AnswersOwnRequest
  ChildrenMatchWaits
  ClosedAnswered
CHECK_DEADLOCK FALSE
