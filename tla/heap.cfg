CONSTANTS
  Capacity = 24
  Header = 3
  MagicAt = 1
  FreedAt = 2
  Null = Null
  FreeListSize = 1
  MutexSize = 1
  Sizes = {0, 1, 4}
SPECIFICATION Spec
INVARIANTS
  TypeOK
  Tiled
  ListSound
  InUseAccepted
  OrderedUpToLast
  SearchComplete
PROPERTIES
  DoubleFreeRefused
  ImplementsAbstractHeap
