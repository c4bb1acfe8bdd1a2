\* One server: two of three documents fit in its cache, two edits in its queue.
SPECIFICATION RFairSpec
CONSTANTS
  Docs = {d1, d2, d3}
  Contents = {x1, x2}
  NoDoc = NoDoc
  NoContent = NoContent
  NoRequest = NoRequest
  UintModulus = 16
  CacheCapacity = 2
  MaxQueue = 2
INVARIANTS
  TypeOK
  CacheConsistent
  CacheCoherent
  CacheHoldsMostRecent
  EditAnsweredAsEdit
PROPERTIES
  StoreSpec
  RequestAnswered
