\* Servers that join and leave anywhere on the ring while edits are queued, and stray leaves.
SPECIFICATION Spec
CONSTANTS
  Docs = {"low", "high"}
  DocHash <- MCDocHash
  ServerIds = {1, 2, 3}
  ServerHash <- MCServerHash
  Contents <- MCContents
  RequestsNum = 8
  NoDoc = NoDoc
  NoContent = 0
  NoServer = NoServer
  Nobody = Nobody
  UintModulus = 32
  CacheSizes = {0, 1}
  MaximumDatabaseEntries = 2
  Inputs = {"join", "join first", "leave", "stray leave"}
CHECK_DEADLOCK FALSE
INVARIANTS
  RingSorted
  TasksAtDestination
  EditsInOrder
  CachesConsistent
  EvictsOnlyWhenFull
PROPERTIES
  NoEditForgotten
