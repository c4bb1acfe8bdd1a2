---------------------------- MODULE LoadBalancer ----------------------------
(***************************************************************************)
(* The load balancer and its servers (load_balancer.c, main.c): a ring of  *)
(* server tags sorted by hash, requests forwarded along it, and servers    *)
(* that join and leave while documents and queued EDITs exist.  main reads *)
(* RequestsNum requests from its input and serves one after the other.     *)
(*                                                                         *)
(* The text of an EDIT is the number of its request, so a greater text is  *)
(* a later one.  Serving a request is one step, or, when a task queue is   *)
(* executed on the way, a first step, one step per task and a last step.   *)
(***************************************************************************)
EXTENDS ServerOps, Sublists

CONSTANTS ServerIds,       \* server identifiers
          ServerHash,      \* hash_uint of every identifier
          DocHash,         \* hash_string of every document name
          CacheSizes,      \* cache sizes the input gives
          RequestsNum,     \* length of the input
          MaximumDatabaseEntries,  \* size of entries_ready_for_moving
          Inputs,          \* what the input may contain, see below
          NoServer,        \* NULL in the array of servers
          Nobody           \* no request is being handled

(***************************************************************************)
(* Inputs names the classes of membership requests beyond joins that come  *)
(* before the first document:                                              *)
(*   "join"        a server joins, behind the first tag of the ring        *)
(*   "join first"  a server joins and becomes the first tag                *)
(*   "leave"       a server leaves that is not the last one                *)
(*   "stray leave" a server leaves that is the last or was never added     *)
(***************************************************************************)
ASSUME LoadBalancerAssumption ==
  /\ ServerIds \subseteq Nat /\ 0 \notin ServerIds
  /\ ServerHash \in [ServerIds -> Nat]
  /\ \A s, t \in ServerIds : ServerHash[s] = ServerHash[t] => s = t
  /\ DocHash \in [Docs -> Nat]
  /\ RequestsNum \in Nat /\ Contents = 1 .. RequestsNum /\ NoContent = 0
  /\ CacheSizes \subseteq 0 .. UintModulus - 1
  /\ MaximumDatabaseEntries \in Nat
  /\ IsFiniteSet(Docs)
  /\ Inputs \subseteq {"join", "join first", "leave", "stray leave"}

\* A request whose handler has begun: what it does, at which server it is, for
\* which server and, of a GET, for which document.
Handlings(S) == [op : {"get", "add", "remove"}, at : S, server : S, doc : Docs \cup {NoDoc}]

ASSUME NoneAssumption == NoServer \notin ServerState /\ Nobody \notin Handlings(ServerIds)

VARIABLES servers,     \* the array of servers
          tags,        \* server_tags: the ring, as the sequence of identifiers
          numberOfServers,
          handling,    \* the request whose handler is executing a task queue
          served,      \* how many requests main has read
          alive,       \* the process has not died
          reply,       \* the last response to an EDIT or a GET
          taskReply    \* the last response printed for an executed task

vars == <<servers, tags, numberOfServers, handling, served, alive, reply, taskReply>>

Live == {s \in ServerIds : servers[s] # NoServer}

TypeOK ==
  /\ servers \in [ServerIds -> ServerState \cup {NoServer}]
  /\ tags \in Seq(ServerIds)
  /\ numberOfServers \in Int
  /\ handling \in Handlings(Live) \cup {Nobody}
  /\ served \in 0 .. RequestsNum
  /\ alive \in BOOLEAN
  /\ reply \in Reply /\ taskReply \in Reply

Init == /\ servers = [s \in ServerIds |-> NoServer]
        /\ tags = <<>>
        /\ numberOfServers = 0
        /\ handling = Nobody
        /\ served = 0
        /\ alive = TRUE
        /\ reply = NoReply /\ taskReply = NoReply
-----------------------------------------------------------------------------
\* The ring.

\* The first position whose tag satisfies Test; the walk wraps to the head.
FirstTag(ring, Test(_)) == LET i == SelectInSeq(ring, Test)
                           IN  ring[IF i = 0 THEN 1 ELSE i]

Before(s, t) == \/ ServerHash[s] < ServerHash[t]
                \/ ServerHash[s] = ServerHash[t] /\ s < t

\* Faulty variant: a new tag goes to the end of the ring.
AddTagLast(ring, s) == Append(ring, s)

\* add_node_in_ascending_order
AddTag(ring, s) == LET i == SelectInSeq(ring, LAMBDA t : Before(s, t))
                   IN  InsertAt(ring, IF i = 0 THEN Len(ring) + 1 ELSE i, s)

\* remove_node_with_key
RemoveTag(ring, s) == RemoveFirst(ring, s)

\* Faulty variant: the server before s on the ring.
PreviousOnRing(ring, s) == FirstTag(ring, LAMBDA t : Before(t, s))

\* The server after s on the ring: a joining server takes documents from it,
\* a leaving one gives it its own.
NextOnRing(ring, s) == FirstTag(ring, LAMBDA t : Before(s, t))

\* loader_forward_request: the server of a document.
ServerOf(ring, d) == FirstTag(ring, LAMBDA t : ServerHash[t] >= DocHash[d])

Destination(d) == IF numberOfServers = 1 THEN tags[1] ELSE ServerOf(tags, d)
-----------------------------------------------------------------------------
\* Faulty variant: a document on the very hash of the server is left out.
TakenBelow(db, s) == {d \in Docs : InDatabase(db, d) /\ DocHash[d] < ServerHash[s]}

\* The documents joining server s takes out of database db: all with a hash up
\* to its own, also those that earlier moves left behind as copies.
Taken(db, s) == {d \in Docs : InDatabase(db, d) /\ DocHash[d] <= ServerHash[s]}

\* The number of their entries, counted up to one beyond the array's end.
EntriesTaken(db, s) ==
  Cardinality({e \in Taken(db, s) \X (1 .. MaximumDatabaseEntries + 1) :
                  e[2] <= Len(db[e[1]])})

\* Faulty variants: the list keeps the documents; the size is not lowered.
GivingCacheListKept(c, S, n) ==
  [c EXCEPT !.bucket = [d \in Docs |-> IF d \in S THEN NoContent ELSE @[d]],
            !.size   = (@ - n) % UintModulus]

GivingCacheSizeKept(c, S, n) ==
  [c EXCEPT !.list   = Keep(@, Docs \ S),
            !.bucket = [d \in Docs |-> IF d \in S THEN NoContent ELSE @[d]]]

\* The source keeps its entries; its cache drops the documents S, and its size
\* goes down by one for every one of the n entries, cached or not.
GivingCache(c, S, n) ==
  [c EXCEPT !.list   = Keep(@, Docs \ S),
            !.bucket = [d \in Docs |-> IF d \in S THEN NoContent ELSE @[d]],
            !.size   = (@ - n) % UintModulus]

\* Every entry is added to the head of its bucket, which reverses their order.
AddAll(db, from, S) ==
  [d \in Docs |-> IF d \in S THEN Reverse(from[d]) \o db[d] ELSE db[d]]
-----------------------------------------------------------------------------
\* Requests of the input.

Ready == alive /\ handling = Nobody /\ served < RequestsNum

NextRequest == served' = served + 1

NoDocuments == \A s \in Live : /\ servers[s].queue = <<>>
                               /\ \A d \in Docs : servers[s].db[d] = <<>>

MayJoin(s) == ~NoDocuments =>
                IF Before(tags[1], s) THEN "join" \in Inputs
                                      ELSE "join first" \in Inputs

MayLeave(s) == IF s \in Live /\ numberOfServers > 1
               THEN "leave" \in Inputs
               ELSE "stray leave" \in Inputs

Handle(op, at, s, d) == [op |-> op, at |-> at, server |-> s, doc |-> d]

\* loader_add_server, up to the request that flushes the source.
AddServer(s, size) ==
  /\ Ready /\ s \notin Live /\ MayJoin(s)
  /\ NextRequest
  /\ servers' = [servers EXCEPT ![s] = InitServer(size)]
  /\ numberOfServers' = numberOfServers + 1
  /\ tags' = AddTag(tags, s)
  /\ handling' = IF numberOfServers' = 1 THEN Nobody
                 ELSE Handle("add", NextOnRing(tags', s), s, NoDoc)
  /\ UNCHANGED <<alive, reply, taskReply>>

\* loader_remove_server, up to the request that flushes the leaving server.
RemoveServer(s) ==
  /\ Ready /\ MayLeave(s)
  /\ NextRequest
  /\ numberOfServers' = numberOfServers - 1
  /\ handling' = IF s \notin Live \/ numberOfServers' = 0 THEN Nobody
                 ELSE Handle("remove", s, s, NoDoc)
  /\ UNCHANGED <<servers, tags, alive, reply, taskReply>>

\* EDIT: the destination queues it.
EditDoc(d) ==
  /\ Ready /\ tags # <<>>
  /\ NextRequest
  /\ LET s == Destination(d)
     IN  servers' = [servers EXCEPT ![s] = AddTaskInQueue(@, d, served')]
  /\ reply' = Queued(d)
  /\ UNCHANGED <<tags, numberOfServers, handling, alive, taskReply>>

\* GET: the destination executes its queue and then reads the document.
GetDoc(d) ==
  /\ Ready /\ tags # <<>>
  /\ NextRequest
  /\ handling' = Handle("get", Destination(d), Destination(d), d)
  /\ UNCHANGED <<servers, tags, numberOfServers, alive, reply, taskReply>>
-----------------------------------------------------------------------------
\* What the handlers do once they have entered server_handle_request.

At == servers[handling.at]

EntriesMoving == IF handling.op = "add" /\ At.queue = <<>>
                 THEN EntriesTaken(At.db, handling.server) ELSE 0

\* What ends the process, or leaves it with memory that means nothing: looking
\* into a cache of size 0, where hash % 0 traps; copying entries beyond the end
\* of entries_ready_for_moving; reading the ring after its only tag was freed.
Dies ==
  /\ handling # Nobody
  /\ \/ /\ At.cache.capacity = 0
        /\ At.queue # <<>> \/ handling.op = "get" \/ EntriesMoving > 0
     \/ EntriesMoving > MaximumDatabaseEntries
     \/ handling.op = "remove" /\ At.queue = <<>> /\ Len(tags) = 1

Die == /\ alive /\ Dies
       /\ alive' = FALSE
       /\ UNCHANGED <<servers, tags, numberOfServers, handling, served, reply, taskReply>>

Running(op) == alive /\ ~Dies /\ handling # Nobody /\ handling.op = op

ExecuteTask ==
  /\ alive /\ ~Dies /\ handling # Nobody
  /\ At.queue # <<>>
  /\ servers' = [servers EXCEPT ![handling.at] = ExecuteOldest(@)]
  /\ taskReply' = ExecuteReply(At)
  /\ UNCHANGED <<tags, numberOfServers, handling, served, alive, reply>>

FinishGet ==
  /\ Running("get") /\ At.queue = <<>>
  /\ servers' = [servers EXCEPT ![handling.at] = GetDocument(@, handling.doc)]
  /\ reply' = GetReply(At, handling.doc)
  /\ handling' = Nobody
  /\ UNCHANGED <<tags, numberOfServers, served, alive, taskReply>>

\* The new server receives copies of the documents it takes.
FinishAdd ==
  /\ Running("add") /\ At.queue = <<>>
  /\ LET S == Taken(At.db, handling.server)
     IN  servers' = [servers EXCEPT
           ![handling.at].cache = GivingCache(@, S, EntriesMoving),
           ![handling.server].db = AddAll(@, At.db, S)]
  /\ handling' = Nobody
  /\ UNCHANGED <<tags, numberOfServers, served, alive, reply, taskReply>>

\* Faulty variant: the server leaves before its queue is executed.
FinishRemoveEarly ==
  /\ Running("remove") /\ Len(tags) > 1
  /\ LET s == handling.server
         ring == RemoveTag(tags, s)
     IN  /\ tags' = ring
         /\ servers' = [servers EXCEPT
              ![NextOnRing(ring, s)].db = AddAll(@, At.db, Docs),
              ![s] = NoServer]
  /\ handling' = Nobody
  /\ UNCHANGED <<numberOfServers, served, alive, reply, taskReply>>

\* The neighbour receives copies of all entries and the server is freed.
FinishRemove ==
  /\ Running("remove") /\ At.queue = <<>>
  /\ LET s == handling.server
         ring == RemoveTag(tags, s)
     IN  /\ tags' = ring
         /\ servers' = [servers EXCEPT
              ![NextOnRing(ring, s)].db = AddAll(@, At.db, Docs),
              ![s] = NoServer]
  /\ handling' = Nobody
  /\ UNCHANGED <<numberOfServers, served, alive, reply, taskReply>>

Request == \/ \E s \in ServerIds, size \in CacheSizes : AddServer(s, size)
           \/ \E s \in ServerIds : RemoveServer(s)
           \/ \E d \in Docs : EditDoc(d)
           \/ \E d \in Docs : GetDoc(d)

Step == Die \/ ExecuteTask \/ FinishGet \/ FinishAdd \/ FinishRemove

Next == Request \/ Step

Spec == Init /\ [][Next]_vars

(***************************************************************************)
(* Fairness: main is a loop of the only thread; while the input has a next *)
(* request, or a handler has work left, the program takes a step.          *)
(***************************************************************************)
FairSpec == Spec /\ WF_vars(Next)
-----------------------------------------------------------------------------
\* Properties.

Pending(s, d) == {i \in DOMAIN servers[s].queue : servers[s].queue[i].doc = d}

PendingTexts(d) ==
  UNION {{servers[s].queue[i].content : i \in Pending(s, d)} : s \in Live}

StoredTexts(d) == UNION {ToSet(servers[s].db[d]) : s \in Live}

\* The latest acknowledged EDIT of d that any server still knows of.
Latest(d) == Max({NoContent} \cup PendingTexts(d) \cup StoredTexts(d))

\* Every variable has its type, and the ring has one tag for each server in the
\* array and is sorted, as the walks of loader_forward_request and of the moves
\* require.
RingSorted ==
  /\ TypeOK
  /\ \A i, j \in DOMAIN tags : i < j => Before(tags[i], tags[j])
  /\ ToSet(tags) = Live

\* The counter of servers, which selects the route of a lone server and keeps
\* the last one from leaving, is the number of tags.  A request to remove the
\* last server, or one that was never added, puts it out of step for ever.
CounterInStep ==
  LET leaving == IF handling # Nobody /\ handling.op = "remove" THEN 1 ELSE 0
  IN  numberOfServers + leaving = Len(tags)

\* A queued EDIT waits at the server that a GET of its document reaches, also
\* after servers joined and left, as long as the counter is in step: only a
\* queue that is just being executed may hold EDITs of documents that have moved.
TasksAtDestination ==
  CounterInStep =>
    \A s \in Live, d \in Docs :
      Pending(s, d) # {} =>
        \/ s = ServerOf(tags, d)
        \/ handling # Nobody /\ handling.at = s

\* The EDITs of one document are executed in the order of their arrival, as long
\* as the counter is in step: the ones still queued are in that order, and all
\* later than every text of the document in any database.
EditsInOrder ==
  CounterInStep =>
    \A d \in Docs :
      /\ \A s \in Live : \A i, j \in Pending(s, d) :
           i < j => servers[s].queue[i].content < servers[s].queue[j].content
      /\ \A x \in PendingTexts(d), y \in StoredTexts(d) : x > y

\* No step, in particular no join, leave or eviction, makes the database as a
\* whole forget an acknowledged EDIT that is not followed by a later one, as long
\* as the counter is in step.
NoEditForgotten == [][CounterInStep => \A d \in Docs : Latest(d)' >= Latest(d)]_vars

\* On every server the cache's hash table and list of use hold the same
\* documents, all of them present in its database, also after documents moved.
CachesConsistent ==
  \A s \in Live :
    LET c == servers[s].cache
    IN  /\ ToSet(c.list) = {d \in Docs : Cached(c, d)}
        /\ IsInjective(c.list)
        /\ \A d \in ToSet(c.list) : InDatabase(servers[s].db, d)

\* The counter a full cache is recognised by may fall below the number of
\* entries when documents move, but never exceeds it: no entry is evicted from
\* a cache that still has room.
EvictsOnlyWhenFull ==
  \A s \in Live : LET c == servers[s].cache
                  IN  LruCacheIsFull(c) => Len(c.list) >= c.capacity

\* No database holds two entries of a document, and so a join never has more
\* entries to copy than there are documents.
OneEntryPerDocument ==
  \A s \in Live, d \in Docs : Len(servers[s].db[d]) <= 1

\* A cached text is the one its server's database returns.
CachesCoherent ==
  \A s \in Live, d \in Docs :
    Cached(servers[s].cache, d) =>
      LruCacheGet(servers[s].cache, d) = DatabaseGetEntry(servers[s].db, d)

\* Until a join has moved the documents, their owner is found without it.
SettledTags == IF handling # Nobody /\ handling.op = "add"
               THEN RemoveTag(tags, handling.server) ELSE tags

\* The text of document d that a client should read next: of the last EDIT its
\* server has queued, or else of its database.
Readable(d) ==
  IF SettledTags = <<>> THEN NoContent
  ELSE LET s == ServerOf(SettledTags, d)
       IN  IF Pending(s, d) # {}
           THEN servers[s].queue[Max(Pending(s, d))].content
           ELSE DatabaseGetEntry(servers[s].db, d)

\* The servers together implement the map of DocumentStore, and an EDIT stores
\* its own text, which its acknowledgement does not show.
Store == INSTANCE DocumentStore WITH store <- [d \in Docs |-> Readable(d)]

EditsStored == [][\A d \in Docs : EditDoc(d) => Store!Edit(d, served')]_vars

StoreSpec == Store!Spec /\ EditsStored

\* The answer to a GET is the latest EDIT of the document that was acknowledged.
AnswersLatest == reply.kind = "content" => reply.value = Latest(reply.doc)

\* The array documents are moved through is never overrun and no handler uses
\* memory or a cache that is not there: the process outlives its input.
Survives == alive

\* main serves its whole input: no handler loops for ever.
InputServed == <>(~alive \/ (served = RequestsNum /\ handling = Nobody))
=============================================================================
