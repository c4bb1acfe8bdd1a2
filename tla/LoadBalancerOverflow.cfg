\* Joins and leaves multiply the copies of a document until the array overflows.
SPECIFICATION Spec
CONSTANTS
  Docs = {"low"}
  DocHash <- MCDocHash
  ServerIds = {1, 2, 3}
  ServerHash <- MCServerHash
  Contents <- MCContents
  RequestsNum = 9
  NoDoc = NoDoc
  NoContent = 0
  NoServer = NoServer
  Nobody = Nobody
  UintModulus = 32
  CacheSizes = {1}
  MaximumDatabaseEntries = 2
  Inputs = {"join", "join first", "leave"}
CHECK_DEADLOCK FALSE
INVARIANT Survives
