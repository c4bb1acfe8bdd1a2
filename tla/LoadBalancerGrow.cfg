\* Servers that join behind the head of the ring while edits are queued.
SPECIFICATION FairSpec
CONSTANTS
  Docs = {"low", "high"}
  DocHash <- MCDocHash
  ServerIds = {1, 2, 3}
  ServerHash <- MCServerHash
  Contents <- MCContents
  RequestsNum = 7
  NoDoc = NoDoc
  NoContent = 0
  NoServer = NoServer
  Nobody = Nobody
  UintModulus = 32
  CacheSizes = {1}
  MaximumDatabaseEntries = 2
  Inputs = {"join"}
CHECK_DEADLOCK FALSE
INVARIANTS
  OneEntryPerDocument
  CachesCoherent
PROPERTIES
  StoreSpec
  InputServed
