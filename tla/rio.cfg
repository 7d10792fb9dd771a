CONSTANTS
  Streams <- MCStreams
  Bytes = {"x", "n"}
  Newline = "n"
  MaxLine = 4
  Counts = {2}
  SocketSize = 2
  RioSize = 2
SPECIFICATION Spec
INVARIANTS
  TypeOK
PROPERTIES
  ImplementsLineStream
  ReaderIsDone
CHECK_DEADLOCK FALSE
