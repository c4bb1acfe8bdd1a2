\* A server that joins as the head of the ring does not get the documents beyond the last tag.
SPECIFICATION Spec
CONSTANTS
  Docs = {"low", "high"}
  DocHash <- MCDocHash
  ServerIds = {1, 2, 3}
  ServerHash <- MCServerHash
  Contents <- MCContents
  RequestsNum = 8
  NoDoc = NoDoc
  NoContent = 0
  NoServer = NoServer
  Nobody = Nobody
  UintModulus = 32
  CacheSizes = {1}
  MaximumDatabaseEntries = 4
  Inputs = {"join first"}
CHECK_DEADLOCK FALSE
INVARIANT AnswersLatest
