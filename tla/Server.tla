------------------------------ MODULE Server ------------------------------
(***************************************************************************)
(* One server serving requests (server_handle_request).  An EDIT is only   *)
(* queued.  A GET, and the request without a document that the load        *)
(* balancer sends to flush a queue, first execute the queued tasks one by  *)
(* one, each with a response of its own, and then read the document.       *)
(***************************************************************************)
EXTENDS ServerOps

CONSTANTS CacheCapacity,   \* the cache_size given when the server is added
          MaxQueue,        \* bound of the model on the length of the queue
          NoRequest        \* no request is being handled

ASSUME ServerAssumption ==
  /\ CacheCapacity \in 1 .. UintModulus - 1
  /\ MaxQueue \in Nat
  /\ NoRequest \notin Docs \cup {NoDoc}

VARIABLES server,     \* the server's cache, database and queue
          request,    \* the document of the request being handled; NoDoc is a flush
          reply,      \* the last value server_handle_request returned to a client
          taskReply   \* the last response printed for an executed task

vars == <<server, request, reply, taskReply>>

TypeOK == /\ server \in ServerState
          /\ request \in Docs \cup {NoDoc, NoRequest}
          /\ reply \in Reply
          /\ taskReply \in Reply

Init == /\ server = InitServer(CacheCapacity)
        /\ request = NoRequest
        /\ reply = NoReply
        /\ taskReply = NoReply

Idle == request = NoRequest

\* EDIT: the whole handler.
Edit(d, x) ==
  /\ Idle
  /\ Len(server.queue) < MaxQueue
  /\ server' = AddTaskInQueue(server, d, x)
  /\ reply' = Queued(d)
  /\ UNCHANGED <<request, taskReply>>

\* GET of document d, or a flush when d is NoDoc: the handler is entered.
BeginGet(d) ==
  /\ Idle
  /\ request' = d
  /\ UNCHANGED <<server, reply, taskReply>>

\* One iteration of the handler's loop.
ExecuteTask ==
  /\ ~Idle
  /\ server.queue # <<>>
  /\ server' = ExecuteOldest(server)
  /\ taskReply' = ExecuteReply(server)
  /\ UNCHANGED <<request, reply>>

\* The loop has emptied the queue: the handler reads the document, if any.
FinishGet ==
  /\ ~Idle
  /\ server.queue = <<>>
  /\ IF request = NoDoc
     THEN UNCHANGED <<server, reply>>
     ELSE /\ server' = GetDocument(server, request)
          /\ reply' = GetReply(server, request)
  /\ request' = NoRequest
  /\ UNCHANGED taskReply

\* The bound MaxQueue applies to EDITs only; a request may come at any time.
Next == \/ \E d \in Docs, x \in Contents : Edit(d, x)
        \/ \E d \in Docs \cup {NoDoc} : BeginGet(d)
        \/ ExecuteTask
        \/ FinishGet

Spec == Init /\ [][Next]_vars

(***************************************************************************)
(* Fairness: the handler is a loop of the only thread, so a request that   *)
(* has been entered keeps executing.  Nothing forces a request to arrive.  *)
(***************************************************************************)
FairSpec == Spec /\ WF_vars(ExecuteTask) /\ WF_vars(FinishGet)
-----------------------------------------------------------------------------
CachedDocs == {d \in Docs : Cached(server.cache, d)}

\* The hash table, the list of use and the counter, which the code updates
\* separately, always describe the same entries: the list holds exactly the
\* documents of the table, each once, size counts them, and there are never
\* more than the capacity.
CacheConsistent ==
  /\ ToSet(server.cache.list) = CachedDocs
  /\ IsInjective(server.cache.list)
  /\ server.cache.size = Len(server.cache.list)
  /\ server.cache.size <= server.cache.capacity

\* A cached text is the text a lookup in the database would return: an edit
\* never reaches one of the two only, and no entry outlives the other's update.
CacheCoherent ==
  \A d \in CachedDocs :
     LruCacheGet(server.cache, d) = DatabaseGetEntry(server.db, d)

\* Every document the database holds is cached while the cache has room: only
\* a full cache evicts, and it stays full.
CachedWhileRoom ==
  ~LruCacheIsFull(server.cache) =>
    \A d \in Docs : InDatabase(server.db, d) => d \in CachedDocs

\* The text of the last acknowledged EDIT of d: in the youngest queued task
\* for d, or else in the database.
TasksFor(d) == {i \in DOMAIN server.queue : server.queue[i].doc = d}

Acknowledged(d) ==
  IF TasksFor(d) # {} THEN server.queue[Max(TasksFor(d))].content
                      ELSE DatabaseGetEntry(server.db, d)

\* The server, with its cache and its lazy execution of EDITs, implements the
\* map of DocumentStore: every GET returns the last acknowledged EDIT.  The
\* acknowledgement does not show the text, so the second conjunct says that an
\* EDIT stores its own.
Store == INSTANCE DocumentStore WITH store <- [d \in Docs |-> Acknowledged(d)]

EditsStored ==
  [][\A d \in Docs, x \in Contents : Edit(d, x) => Store!Edit(d, x)]_vars

StoreSpec == Store!Spec /\ EditsStored

\* An executed EDIT is answered by "created" or "overridden", never by a text.
\* The branch of server_edit_document that answers a text needs a document that
\* is stored and not cached while the cache has room: on a server of its own
\* that never happens, since only a full cache evicts.
EditAnsweredAsEdit == taskReply.kind # "content"

\* A request that executes queued tasks is always answered: the loop of
\* server_handle_request empties the queue.
RequestAnswered == ~Idle ~> Idle
=============================================================================
