\* A small heap: two blocks of 2 bytes and one of 4.
SPECIFICATION Spec
CONSTANTS
  StartAddress = 1
  NumberOfLists = 2
  MaximumSize = 4
  FirstSize = 2
  MallocSizes = {0, 1, 3}
  Characters = {"x", "y"}
  Messages <- MCMessages
  ReadSizes = {2}
  MaxMallocs = 4
  Garbage = "?"
  NoHeap = NoHeap
CHECK_DEADLOCK FALSE
INVARIANTS
  BlocksTileMemory
  CountersMatch
  ListsInOrder
  ReadsBackWritten
PROPERTIES
  TakesBestFit
  AllocatorSpec
