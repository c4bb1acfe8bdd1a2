--------------------------- MODULE ServerRecency ---------------------------
(***************************************************************************)
(* The server with a history variable: every document an executed EDIT or  *)
(* an answered GET has used, latest use first.  It is not part of the      *)
(* code; it states what "least recently used" means for its cache.         *)
(***************************************************************************)
EXTENDS Server

VARIABLE recent

UsedNow(d) == recent' = Cons(d, RemoveFirst(recent, d))

RInit == Init /\ recent = <<>>

REdit == (\E d \in Docs, x \in Contents : Edit(d, x)) /\ UNCHANGED recent

RBeginGet == (\E d \in Docs \cup {NoDoc} : BeginGet(d)) /\ UNCHANGED recent

RExecuteTask == ExecuteTask /\ UsedNow(Oldest(server).doc)

RFinishGet ==
  /\ FinishGet
  /\ IF request \in Docs /\ GetReply(server, request).value # NoContent
     THEN UsedNow(request)
     ELSE UNCHANGED recent

RNext == REdit \/ RBeginGet \/ RExecuteTask \/ RFinishGet

rvars == <<vars, recent>>

RSpec == RInit /\ [][RNext]_rvars

RFairSpec == RSpec /\ WF_rvars(RExecuteTask) /\ WF_rvars(RFinishGet)

\* The cache always holds exactly the documents used last, in the order of
\* their use, and as many of them as fit: an eviction takes the document that
\* has not been used for longest and every hit moves its document to the front.
CacheHoldsMostRecent ==
  /\ IsPrefix(server.cache.list, recent)
  /\ Len(server.cache.list) = Min({CacheCapacity, Len(recent)})
=============================================================================
