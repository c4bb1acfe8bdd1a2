---------------------------- MODULE ServerProofs ----------------------------
(***************************************************************************)
(* One server keeps its cache consistent and coherent, answers edits as    *)
(* edits, implements the map of DocumentStore and evicts the document used *)
(* least recently, for every number of documents, texts, cache size and    *)
(* queue bound.                                                            *)
(***************************************************************************)
EXTENDS ServerRecency, ServerOpsProofs

\* What every operation of a server preserves: the conjuncts after the first
\* are CacheConsistent, the cache size, CacheCoherent and CachedWhileRoom.
ServerInv(s) ==
  /\ s \in ServerState
  /\ WellFormed(s.cache)
  /\ s.cache.capacity = CacheCapacity
  /\ \A d \in Docs : Cached(s.cache, d) =>
       LruCacheGet(s.cache, d) = DatabaseGetEntry(s.db, d)
  /\ ~LruCacheIsFull(s.cache) =>
       \A d \in Docs : InDatabase(s.db, d) => Cached(s.cache, d)

Inv == /\ ServerInv(server)
       /\ request \in Docs \cup {NoDoc, NoRequest}
       /\ reply \in Reply
       /\ taskReply \in Reply
       /\ EditAnsweredAsEdit

\* What the invariant of a server says of its parts.
LEMMA ServerInvFacts ==
  ASSUME NEW s, ServerInv(s)
  PROVE  /\ WellFormed(s.cache) /\ s.cache \in LruCache
         /\ s.cache.capacity = CacheCapacity /\ s.cache.capacity > 0
         /\ s.db \in Database /\ s.queue \in Seq(Task)
         /\ s = [cache |-> s.cache, db |-> s.db, queue |-> s.queue]
BY ServerAssumption, UintAssumption DEF ServerInv, ServerState

\* A new database and cache that a Stores step of the cache agrees with keep
\* the invariant.
LEMMA StoresKeeps ==
  ASSUME NEW s, ServerInv(s), NEW d \in Docs, NEW x \in Contents,
         NEW c, Stores(s.cache, c, d, x),
         NEW db \in Database, InDatabase(db, d), DatabaseGetEntry(db, d) = x,
         \A e \in Docs \ {d} : db[e] = s.db[e],
         NEW q \in Seq(Task)
  PROVE  ServerInv([cache |-> c, db |-> db, queue |-> q])
<1>. DEFINE n == [cache |-> c, db |-> db, queue |-> q]
<1>1. /\ WellFormed(c) /\ c \in LruCache /\ c.capacity = CacheCapacity
  BY ServerInvFacts DEF Stores, WellFormed
<1>2. n \in ServerState /\ n.cache = c /\ n.db = db
  BY <1>1 DEF ServerState
<1>3. \A e \in Docs \ {d} : /\ InDatabase(db, e) <=> InDatabase(s.db, e)
                            /\ DatabaseGetEntry(db, e) = DatabaseGetEntry(s.db, e)
  BY DEF InDatabase, DatabaseGetEntry
<1>4. ASSUME NEW e \in Docs, Cached(c, e)
      PROVE  LruCacheGet(c, e) = DatabaseGetEntry(db, e)
  <2>1. CASE e = d
    BY <2>1 DEF LruCacheGet, Stores
  <2>2. CASE e # d
    <3>1. c.bucket[e] = s.cache.bucket[e]
      BY <1>4, <2>2 DEF Stores, Cached, LruCacheGet
    <3>. QED
      BY <1>3, <1>4, <2>2, <3>1 DEF ServerInv, Cached, LruCacheGet
  <2>. QED
    BY <2>1, <2>2
<1>5. ASSUME ~LruCacheIsFull(c), NEW e \in Docs, InDatabase(db, e)
      PROVE  Cached(c, e)
  <2>1. CASE e = d
    BY <2>1, NullAssumption DEF Cached, LruCacheGet, Stores
  <2>2. CASE e # d
    <3>1. ~LruCacheIsFull(s.cache) /\ c.bucket[e] = s.cache.bucket[e]
      BY <1>5, <2>2 DEF Stores
    <3>. QED
      BY <1>3, <1>5, <2>2, <3>1 DEF ServerInv, Cached, LruCacheGet
  <2>. QED
    BY <2>1, <2>2
<1>. HIDE DEF n
<1>. QED
  BY <1>1, <1>2, <1>4, <1>5 DEF ServerInv, n

\* Executing an edit keeps the invariant, makes its text the one the database
\* returns, changes that of no other document, and is answered as an edit.
LEMMA EditDocumentKeeps ==
  ASSUME NEW s, ServerInv(s), NEW d \in Docs, NEW x \in Contents,
         NEW q \in Seq(Task)
  PROVE  LET n == [EditDocument(s, d, x) EXCEPT !.queue = q]
         IN  /\ ServerInv(n) /\ n.queue = q
             /\ DatabaseGetEntry(n.db, d) = x
             /\ \A e \in Docs \ {d} :
                  DatabaseGetEntry(n.db, e) = DatabaseGetEntry(s.db, e)
             /\ EditReply(s, d, x) \in Reply
             /\ EditReply(s, d, x).kind # "content"
<1>. DEFINE c == EditedCache(s, d, x)
            db == EditedDatabase(s, d, x)
            n == [EditDocument(s, d, x) EXCEPT !.queue = q]
<1>1. /\ WellFormed(s.cache) /\ s.cache.capacity > 0 /\ s.db \in Database
      /\ s = [cache |-> s.cache, db |-> s.db, queue |-> s.queue]
  BY ServerInvFacts
<1>2. Stores(s.cache, c, d, x)
  BY <1>1, EditedCacheStores
<1>3. Cached(s.cache, d) => InDatabase(s.db, d)
  BY <1>1, DatabaseGetEntryType DEF ServerInv, Cached
<1>4. /\ db \in Database /\ InDatabase(db, d) /\ DatabaseGetEntry(db, d) = x
      /\ \A e \in Docs \ {d} : db[e] = s.db[e]
  BY <1>1, <1>3, EditedDatabaseStores
<1>5. n = [cache |-> c, db |-> db, queue |-> q]
  <2>1. EditDocument(s, d, x) = [s EXCEPT !.db = db, !.cache = c]
    BY DEF EditDocument
  <2>. HIDE DEF c, db
  <2>2. EditDocument(s, d, x) = [cache |-> c, db |-> db, queue |-> s.queue]
    BY <1>1, <2>1
  <2>. QED
    BY <2>2
<1>6. /\ EditReply(s, d, x) \in Reply
      /\ EditReply(s, d, x).kind # "content"
  <2>1. \/ EditReply(s, d, x) = Created(d)
        \/ EditReply(s, d, x) = Overridden(d)
    BY DEF EditReply, ServerInv
  <2>2. Created(d).kind # "content" /\ Overridden(d).kind # "content"
    BY DEF Created, Overridden, Message
  <2>. QED
    BY <2>1, <2>2, ReplyTypes
<1>. HIDE DEF c, db
<1>7. ServerInv([cache |-> c, db |-> db, queue |-> q])
  BY <1>2, <1>4, StoresKeeps
<1>8. n.db = db /\ n.queue = q
  BY <1>5
<1>9. \A e \in Docs \ {d} : DatabaseGetEntry(db, e) = DatabaseGetEntry(s.db, e)
  BY <1>4 DEF DatabaseGetEntry, InDatabase
<1>. QED
  BY <1>4, <1>5, <1>6, <1>7, <1>8, <1>9

\* Answering a GET keeps the invariant and the database, and answers the text
\* that the database returns.
LEMMA GetDocumentKeeps ==
  ASSUME NEW s, ServerInv(s), NEW d \in Docs
  PROVE  /\ ServerInv(GetDocument(s, d))
         /\ GetDocument(s, d).db = s.db
         /\ GetDocument(s, d).queue = s.queue
         /\ GetReply(s, d) = Text(d, DatabaseGetEntry(s.db, d))
<1>. DEFINE x == DatabaseGetEntry(s.db, d)
            g == GetDocument(s, d)
<1>1. /\ WellFormed(s.cache) /\ s.cache.capacity > 0 /\ s.db \in Database
      /\ s.queue \in Seq(Task)
      /\ s = [cache |-> s.cache, db |-> s.db, queue |-> s.queue]
  BY ServerInvFacts
<1>2. /\ x \in Contents \cup {NoContent}
      /\ InDatabase(s.db, d) <=> x # NoContent
  BY <1>1, DatabaseGetEntryType
<1>3. GetReply(s, d) = Text(d, x)
  BY DEF GetReply, ServerInv
<1>4. CASE ~Cached(s.cache, d) /\ ~InDatabase(s.db, d)
  <2>1. g = s
    BY <1>1, <1>4 DEF GetDocument
  <2>. QED
    BY <1>3, <2>1
<1>5. CASE Cached(s.cache, d)
  <2>. DEFINE c == Touch(s.cache, d)
  <2>1. g = [cache |-> c, db |-> s.db, queue |-> s.queue]
    BY <1>1, <1>5 DEF GetDocument
  <2>2. /\ WellFormed(c) /\ c.bucket = s.cache.bucket
        /\ c.capacity = s.cache.capacity /\ c.size = s.cache.size
    BY <1>1, <1>5, TouchWellFormed
  <2>. HIDE DEF c
  <2>3. c.bucket[d] = x /\ x \in Contents
    BY <1>2, <1>5, <2>2 DEF ServerInv, Cached, LruCacheGet
  <2>4. LruCacheIsFull(c) <=> LruCacheIsFull(s.cache)
    BY <2>2 DEF LruCacheIsFull
  <2>5. Stores(s.cache, c, d, x)
    BY <2>2, <2>3, <2>4 DEF Stores
  <2>6. InDatabase(s.db, d)
    BY <1>2, <2>3, NullAssumption
  <2>7. ServerInv([cache |-> c, db |-> s.db, queue |-> s.queue])
    BY <1>1, <2>3, <2>5, <2>6, StoresKeeps
  <2>. QED
    BY <1>3, <2>1, <2>7
<1>6. CASE ~Cached(s.cache, d) /\ InDatabase(s.db, d)
  <2>. DEFINE c == Admit(s.cache, d, x)
  <2>1. g = [cache |-> c, db |-> s.db, queue |-> s.queue]
    BY <1>1, <1>6 DEF GetDocument
  <2>2. x \in Contents
    BY <1>2, <1>6
  <2>3. Stores(s.cache, c, d, x)
    BY <1>1, <1>6, <2>2, AdmitStores
  <2>. HIDE DEF c
  <2>4. ServerInv([cache |-> c, db |-> s.db, queue |-> s.queue])
    BY <1>1, <1>6, <2>2, <2>3, StoresKeeps
  <2>. QED
    BY <1>3, <2>1, <2>4
<1>. QED
  BY <1>4, <1>5, <1>6
-----------------------------------------------------------------------------
\* A new server satisfies the invariant.
LEMMA InvInit ==
  ASSUME Init
  PROVE  Inv
<1>1. CacheCapacity \in 0 .. UintModulus - 1
  BY ServerAssumption, UintAssumption
<1>. DEFINE c == InitLruCache(CacheCapacity)
<1>2. WellFormed(c) /\ \A d \in Docs : ~Cached(c, d)
  BY <1>1, InitLruCacheWellFormed
<1>3. c.capacity = CacheCapacity
  BY DEF InitLruCache
<1>. HIDE DEF c
<1>4. server = [cache |-> c, db |-> [d \in Docs |-> <<>>], queue |-> <<>>]
  BY DEF Init, InitServer, c
<1>5. \A d \in Docs : ~InDatabase(server.db, d)
  BY <1>4 DEF InDatabase
<1>6. server \in ServerState
  <2>1. [d \in Docs |-> <<>>] \in Database
    BY DEF Database
  <2>. QED
    BY <1>2, <1>4, <2>1 DEF ServerState, WellFormed
<1>7. ServerInv(server)
  BY <1>2, <1>3, <1>4, <1>5, <1>6 DEF ServerInv
<1>8. NoReply \in Reply /\ NoReply.kind # "content"
  BY DEF NoReply, Message, Reply
<1>. QED
  BY <1>7, <1>8 DEF Init, Inv, EditAnsweredAsEdit

\* What the steps do to the server's documents and queue.
LEMMA ExecuteTaskStep ==
  ASSUME Inv, ExecuteTask
  PROVE  /\ Inv'
         /\ server'.queue = Tail(server.queue)
         /\ DatabaseGetEntry(server'.db, Oldest(server).doc) = Oldest(server).content
         /\ \A e \in Docs \ {Oldest(server).doc} :
              DatabaseGetEntry(server'.db, e) = DatabaseGetEntry(server.db, e)
<1>. DEFINE d == Oldest(server).doc
            x == Oldest(server).content
            q == Tail(server.queue)
<1>1. server.queue \in Seq(Task) /\ server.queue # <<>>
  BY ServerInvFacts DEF Inv, ExecuteTask
<1>2. Oldest(server) \in Task /\ q \in Seq(Task)
  BY <1>1, HeadTailProperties DEF Oldest
<1>3. d \in Docs /\ x \in Contents
  BY <1>2 DEF Task
<1>4. server' = [EditDocument(server, d, x) EXCEPT !.queue = q]
  BY DEF ExecuteTask, ExecuteOldest, EditDocument
<1>5. taskReply' = EditReply(server, d, x)
  BY DEF ExecuteTask, ExecuteReply
<1>. HIDE DEF d, x, q
<1>6. /\ ServerInv(server') /\ server'.queue = q
      /\ DatabaseGetEntry(server'.db, d) = x
      /\ \A e \in Docs \ {d} :
            DatabaseGetEntry(server'.db, e) = DatabaseGetEntry(server.db, e)
      /\ taskReply' \in Reply /\ taskReply'.kind # "content"
  BY <1>2, <1>3, <1>4, <1>5, EditDocumentKeeps DEF Inv
<1>7. Inv'
  BY <1>6 DEF Inv, EditAnsweredAsEdit, ExecuteTask
<1>. QED
  BY <1>6, <1>7 DEF d, x, q

\* A queued edit changes nothing but the queue.
LEMMA EditStep ==
  ASSUME Inv, NEW d \in Docs, NEW x \in Contents, Edit(d, x)
  PROVE  /\ Inv'
         /\ server'.db = server.db
         /\ server'.queue = Append(server.queue, [doc |-> d, content |-> x])
<1>. DEFINE q == Append(server.queue, [doc |-> d, content |-> x])
<1>1. /\ server.queue \in Seq(Task)
      /\ server = [cache |-> server.cache, db |-> server.db, queue |-> server.queue]
  BY ServerInvFacts DEF Inv
<1>2. q \in Seq(Task)
  BY <1>1, AppendProperties DEF Task
<1>3. server' = [server EXCEPT !.queue = q]
  BY DEF Edit, AddTaskInQueue
<1>. HIDE DEF q
<1>4. /\ server'.queue = q /\ server'.db = server.db /\ server'.cache = server.cache
      /\ server' = [cache |-> server.cache, db |-> server.db, queue |-> q]
  BY <1>1, <1>3
<1>5. ServerInv(server')
  <2>1. server' \in ServerState
    BY <1>2, <1>4 DEF Inv, ServerInv, ServerState
  <2>. QED
    BY <1>4, <2>1 DEF Inv, ServerInv
<1>6. Inv'
  BY <1>5, ReplyTypes DEF Inv, EditAnsweredAsEdit, Edit
<1>. QED
  BY <1>4, <1>6 DEF q

\* A GET leaves the database and the queue alone and answers the text that the
\* database holds.
LEMMA FinishGetStep ==
  ASSUME Inv, FinishGet
  PROVE  /\ Inv'
         /\ server'.db = server.db
         /\ server'.queue = server.queue
         /\ request # NoDoc =>
              /\ request \in Docs
              /\ reply' = Text(request, DatabaseGetEntry(server.db, request))
<1>1. CASE request = NoDoc
  <2>1. server' = server /\ reply' = reply /\ request' = NoRequest
        /\ taskReply' = taskReply
    BY <1>1 DEF FinishGet
  <2>. QED
    BY <1>1, <2>1 DEF Inv, EditAnsweredAsEdit
<1>2. CASE request # NoDoc
  <2>1. request \in Docs
    BY <1>2 DEF Inv, FinishGet, Idle
  <2>2. /\ server' = GetDocument(server, request)
        /\ reply' = GetReply(server, request)
        /\ request' = NoRequest /\ taskReply' = taskReply
    BY <1>2 DEF FinishGet
  <2>3. /\ ServerInv(server') /\ server'.db = server.db
        /\ server'.queue = server.queue
        /\ reply' = Text(request, DatabaseGetEntry(server.db, request))
    BY <2>1, <2>2, GetDocumentKeeps DEF Inv
  <2>4. reply' \in Reply
    BY <2>1, <2>3, ServerInvFacts, DatabaseGetEntryType, ReplyTypes DEF Inv
  <2>. QED
    BY <2>1, <2>2, <2>3, <2>4 DEF Inv, EditAnsweredAsEdit
<1>. QED
  BY <1>1, <1>2

\* Every step keeps the invariant.
LEMMA InvNext ==
  ASSUME Inv, [Next]_vars
  PROVE  Inv'
<1>1. ASSUME NEW d \in Docs, NEW x \in Contents, Edit(d, x)
      PROVE  Inv'
  BY <1>1, EditStep
<1>2. ASSUME NEW d \in Docs \cup {NoDoc}, BeginGet(d)
      PROVE  Inv'
  BY <1>2 DEF BeginGet, Inv, EditAnsweredAsEdit
<1>3. CASE ExecuteTask
  BY <1>3, ExecuteTaskStep
<1>4. CASE FinishGet
  BY <1>4, FinishGetStep
<1>5. CASE UNCHANGED vars
  BY <1>5 DEF vars, Inv, EditAnsweredAsEdit
<1>. QED
  BY <1>1, <1>2, <1>3, <1>4, <1>5 DEF Next

\* The invariant of the server holds in every state.
LEMMA Invariance == Spec => []Inv
<1>. QED
  BY InvInit, InvNext, PTL DEF Spec

\* Every state has its type: in particular the unsigned size of the cache never
\* wraps (init_server, lru_cache_put).
THEOREM TypeCorrect == Spec => []TypeOK
<1>1. Inv => TypeOK
  BY DEF Inv, ServerInv, TypeOK
<1>. QED
  BY <1>1, Invariance, PTL

\* The hash table, the list of use and the size counter of the cache describe
\* the same entries after every operation (lru_cache_put, server_edit_document,
\* server_get_document).
THEOREM CacheStaysConsistent == Spec => []CacheConsistent
<1>1. Inv => CacheConsistent
  BY DEF Inv, ServerInv, WellFormed, CacheConsistent, CachedDocs
<1>. QED
  BY <1>1, Invariance, PTL

\* A cached text is always the one the database would return
\* (server_edit_document updates both or neither).
THEOREM CacheStaysCoherent == Spec => []CacheCoherent
<1>1. Inv => CacheCoherent
  BY DEF Inv, ServerInv, CacheCoherent, CachedDocs
<1>. QED
  BY <1>1, Invariance, PTL

\* A document that is stored and not cached means a full cache, so the branch
\* of server_edit_document that answers an edit by its text is never taken on a
\* server that no documents are moved to or from.
THEOREM EditsAnsweredAsEdits == Spec => [](CachedWhileRoom /\ EditAnsweredAsEdit)
<1>1. Inv => CachedWhileRoom /\ EditAnsweredAsEdit
  BY DEF Inv, ServerInv, CachedWhileRoom, CachedDocs
<1>. QED
  BY <1>1, Invariance, PTL
-----------------------------------------------------------------------------
(***************************************************************************)
(* The refinement.  The text acknowledged for a document depends on the    *)
(* queue and on what the database returns:                                 *)
(***************************************************************************)
TasksIn(q, d) == {i \in DOMAIN q : q[i].doc = d}

Youngest(q, d) == q[Max(TasksIn(q, d))].content

\* The positions of the tasks of a document are positions of the queue.
LEMMA TasksInBounds ==
  ASSUME NEW q \in Seq(Task), NEW d
  PROVE  /\ Len(q) \in Nat /\ DOMAIN q = 1 .. Len(q)
         /\ TasksIn(q, d) \subseteq 0 .. Len(q)
         /\ TasksIn(q, d) \subseteq Int
         /\ TasksIn(q, d) # {} =>
              /\ Max(TasksIn(q, d)) \in TasksIn(q, d)
              /\ \A i \in TasksIn(q, d) : Max(TasksIn(q, d)) >= i
<1>1. Len(q) \in Nat /\ DOMAIN q = 1 .. Len(q)
  BY LenProperties
<1>2. TasksIn(q, d) \subseteq 0 .. Len(q) /\ TasksIn(q, d) \subseteq Int
  BY <1>1 DEF TasksIn
<1>. QED
  BY <1>1, <1>2, MaxIsGreatest

\* A task added at the end is the youngest of its document, and of no other.
LEMMA YoungestOfAppend ==
  ASSUME NEW q \in Seq(Task), NEW t \in Task, NEW d
  PROVE  LET a == Append(q, t)
         IN  /\ t.doc = d => /\ TasksIn(a, d) # {}
                             /\ Youngest(a, d) = t.content
             /\ t.doc # d => /\ TasksIn(a, d) = TasksIn(q, d)
                             /\ TasksIn(q, d) # {} => Youngest(a, d) = Youngest(q, d)
<1>. DEFINE a == Append(q, t)
            n == Len(q)
<1>1. /\ a \in Seq(Task) /\ Len(a) = n + 1 /\ a[n + 1] = t
      /\ \A i \in 1 .. n : a[i] = q[i]
  BY AppendProperties
<1>2. n \in Nat /\ DOMAIN q = 1 .. n /\ DOMAIN a = 1 .. n + 1
  BY <1>1, TasksInBounds
<1>. HIDE DEF a, n
<1>3. 1 .. n + 1 = (1 .. n) \cup {n + 1}
  BY <1>2
<1>4. CASE t.doc = d
  <2>1. n + 1 \in TasksIn(a, d)
    BY <1>1, <1>2, <1>3, <1>4 DEF TasksIn
  <2>2. \A i \in TasksIn(a, d) : n + 1 >= i
    BY <1>2 DEF TasksIn
  <2>3. TasksIn(a, d) \subseteq Int
    BY <1>1, TasksInBounds
  <2>4. Max(TasksIn(a, d)) = n + 1
    BY <2>1, <2>2, <2>3, MaxIs
  <2>. QED
    BY <1>1, <1>4, <2>1, <2>4 DEF Youngest, a
<1>5. CASE t.doc # d
  <2>1. TasksIn(a, d) = TasksIn(q, d)
    BY <1>1, <1>2, <1>3, <1>5 DEF TasksIn
  <2>2. ASSUME TasksIn(q, d) # {} PROVE Youngest(a, d) = Youngest(q, d)
    <3>1. Max(TasksIn(q, d)) \in 1 .. n
      BY <1>2, <2>2, TasksInBounds DEF TasksIn
    <3>. QED
      BY <1>1, <2>1, <3>1 DEF Youngest
  <2>. QED
    BY <1>5, <2>1, <2>2 DEF a
<1>. QED
  BY <1>4, <1>5

\* Taking the oldest task away leaves the younger ones as they are.
LEMMA YoungestOfTail ==
  ASSUME NEW q \in Seq(Task), q # <<>>, NEW d
  PROVE  /\ TasksIn(Tail(q), d) # {} =>
              /\ TasksIn(q, d) # {}
              /\ Youngest(q, d) = Youngest(Tail(q), d)
         /\ TasksIn(Tail(q), d) = {} =>
              /\ TasksIn(q, d) # {} <=> Head(q).doc = d
              /\ TasksIn(q, d) # {} => Youngest(q, d) = Head(q).content
<1>. DEFINE r == Tail(q)
            n == Len(q)
<1>1. /\ r \in Seq(Task) /\ Len(r) = n - 1
      /\ \A i \in 1 .. Len(r) : r[i] = q[i + 1]
      /\ Head(q) = q[1]
  BY HeadTailProperties
<1>2. n \in Nat /\ n > 0 /\ DOMAIN q = 1 .. n
  BY TasksInBounds, EmptySeq
<1>3. DOMAIN r = 1 .. n - 1 /\ \A i \in 1 .. n - 1 : r[i] = q[i + 1]
  BY <1>1, TasksInBounds
<1>. HIDE DEF r, n
<1>4. ASSUME NEW i \in Int
      PROVE  i \in TasksIn(r, d) <=> i + 1 \in TasksIn(q, d) /\ i + 1 # 1
  <2>1. i \in 1 .. n - 1 <=> i + 1 \in 1 .. n /\ i + 1 # 1
    BY <1>2
  <2>. QED
    BY <1>2, <1>3, <2>1 DEF TasksIn
<1>5. 1 \in TasksIn(q, d) <=> Head(q).doc = d
  BY <1>1, <1>2 DEF TasksIn
<1>6. ASSUME TasksIn(r, d) # {}
      PROVE  TasksIn(q, d) # {} /\ Youngest(q, d) = Youngest(r, d)
  <2>. DEFINE m == Max(TasksIn(r, d))
  <2>1. /\ m \in TasksIn(r, d) /\ m \in Int /\ m \in 1 .. n - 1
        /\ \A i \in TasksIn(r, d) : m >= i
    BY <1>1, <1>3, <1>6, TasksInBounds DEF TasksIn
  <2>. HIDE DEF m
  <2>2. m + 1 \in TasksIn(q, d)
    BY <1>4, <2>1
  <2>3. ASSUME NEW i \in TasksIn(q, d) PROVE m + 1 >= i
    <3>1. i \in Int /\ i - 1 \in Int /\ (i - 1) + 1 = i
      BY <1>2 DEF TasksIn
    <3>2. CASE i = 1
      BY <1>2, <2>1, <3>2
    <3>3. CASE i # 1
      <4>1. i - 1 \in TasksIn(r, d)
        BY <1>4, <3>1, <3>3
      <4>. QED
        BY <2>1, <3>1, <4>1
    <3>. QED
      BY <3>2, <3>3
  <2>4. Max(TasksIn(q, d)) = m + 1
    <3>1. TasksIn(q, d) \subseteq Int
      BY TasksInBounds
    <3>. QED
      BY <2>2, <2>3, <3>1, MaxIs
  <2>5. r[m] = q[m + 1]
    BY <1>3, <2>1
  <2>. QED
    BY <2>2, <2>4, <2>5 DEF Youngest, m
<1>7. ASSUME TasksIn(r, d) = {}
      PROVE  \A i \in TasksIn(q, d) : i = 1
  <2>1. ASSUME NEW i \in TasksIn(q, d), i # 1 PROVE FALSE
    <3>1. i - 1 \in Int /\ (i - 1) + 1 = i
      BY <1>2 DEF TasksIn
    <3>. QED
      BY <1>4, <1>7, <2>1, <3>1
  <2>. QED
    BY <2>1
<1>8. ASSUME TasksIn(r, d) = {}, TasksIn(q, d) # {}
      PROVE  Youngest(q, d) = Head(q).content
  <2>1. Max(TasksIn(q, d)) = 1
    BY <1>7, <1>8, TasksInBounds
  <2>. QED
    BY <1>1, <2>1 DEF Youngest
<1>. QED
  BY <1>5, <1>6, <1>7, <1>8 DEF r

\* The acknowledged text is that of the youngest queued edit, or else the one
\* in the database.
LEMMA AcknowledgedIs ==
  ASSUME NEW d
  PROVE  /\ Acknowledged(d) = IF TasksIn(server.queue, d) # {}
                              THEN Youngest(server.queue, d)
                              ELSE DatabaseGetEntry(server.db, d)
         /\ Acknowledged(d)' = IF TasksIn(server'.queue, d) # {}
                               THEN Youngest(server'.queue, d)
                               ELSE DatabaseGetEntry(server'.db, d)
BY DEF Acknowledged, TasksFor, TasksIn, Youngest

\* A new server acknowledges nothing.
LEMMA StoreInit ==
  ASSUME Init
  PROVE  Store!Init
<1>1. ASSUME NEW d \in Docs PROVE Acknowledged(d) = NoContent
  <2>1. server.queue = <<>> /\ server.db[d] = <<>>
    BY DEF Init, InitServer
  <2>2. TasksIn(server.queue, d) = {}
    BY <2>1 DEF TasksIn
  <2>. QED
    BY <2>1, <2>2, AcknowledgedIs DEF DatabaseGetEntry, InDatabase
<1>. QED
  BY <1>1 DEF Init, Store!Init, NoReply, Message, Store!NoReply, Store!Message

\* A queued edit is an edit of the abstract store.
LEMMA StoreEdit ==
  ASSUME Inv, NEW d \in Docs, NEW x \in Contents, Edit(d, x)
  PROVE  Store!Edit(d, x)
<1>. DEFINE t == [doc |-> d, content |-> x]
<1>1. /\ server.queue \in Seq(Task) /\ t \in Task
      /\ server'.db = server.db /\ server'.queue = Append(server.queue, t)
  BY EditStep, ServerInvFacts DEF Inv, Task
<1>. HIDE DEF t
<1>2. t.doc = d /\ t.content = x
  BY DEF t
<1>3. Acknowledged(d)' = x
  BY <1>1, <1>2, YoungestOfAppend, AcknowledgedIs
<1>4. ASSUME NEW e \in Docs, e # d PROVE Acknowledged(e)' = Acknowledged(e)
  <2>1. /\ TasksIn(server'.queue, e) = TasksIn(server.queue, e)
        /\ TasksIn(server.queue, e) # {} =>
              Youngest(server'.queue, e) = Youngest(server.queue, e)
    BY <1>1, <1>2, <1>4, YoungestOfAppend
  <2>. QED
    BY <1>1, <2>1, AcknowledgedIs
<1>5. [e \in Docs |-> Acknowledged(e)]' = [[e \in Docs |-> Acknowledged(e)] EXCEPT ![d] = x]
  BY <1>3, <1>4
<1>. QED
  BY <1>5 DEF Edit, Store!Edit, Queued, Message, Store!Queued, Store!Message

\* Executing a task moves a text from the queue to the database and no client
\* can tell.
LEMMA StoreExecuteTask ==
  ASSUME Inv, ExecuteTask
  PROVE  UNCHANGED Store!vars
<1>1. server.queue \in Seq(Task) /\ server.queue # <<>>
  BY ServerInvFacts DEF Inv, ExecuteTask
<1>2. /\ server'.queue = Tail(server.queue)
      /\ DatabaseGetEntry(server'.db, Oldest(server).doc) = Oldest(server).content
      /\ \A e \in Docs \ {Oldest(server).doc} :
            DatabaseGetEntry(server'.db, e) = DatabaseGetEntry(server.db, e)
  BY ExecuteTaskStep
<1>3. ASSUME NEW e \in Docs PROVE Acknowledged(e)' = Acknowledged(e)
  <2>1. CASE TasksIn(Tail(server.queue), e) # {}
    BY <1>1, <1>2, <2>1, YoungestOfTail, AcknowledgedIs
  <2>2. CASE TasksIn(Tail(server.queue), e) = {}
    <3>1. /\ TasksIn(server.queue, e) # {} <=> Oldest(server).doc = e
          /\ TasksIn(server.queue, e) # {} =>
                Youngest(server.queue, e) = Oldest(server).content
      BY <1>1, <2>2, YoungestOfTail DEF Oldest
    <3>2. Acknowledged(e)' = DatabaseGetEntry(server'.db, e)
      BY <1>2, <2>2, AcknowledgedIs
    <3>3. CASE Oldest(server).doc = e
      BY <1>2, <3>1, <3>2, <3>3, AcknowledgedIs
    <3>4. CASE Oldest(server).doc # e
      BY <1>2, <3>1, <3>2, <3>4, AcknowledgedIs
    <3>. QED
      BY <3>3, <3>4
  <2>. QED
    BY <2>1, <2>2
<1>. QED
  BY <1>3 DEF ExecuteTask, Store!vars

\* An answered GET reads the abstract store.
LEMMA StoreFinishGet ==
  ASSUME Inv, FinishGet
  PROVE  UNCHANGED Store!vars \/ \E d \in Docs : Store!Get(d)
<1>1. server'.db = server.db /\ server'.queue = server.queue
  BY FinishGetStep
<1>2. [d \in Docs |-> Acknowledged(d)]' = [d \in Docs |-> Acknowledged(d)]
  BY <1>1, AcknowledgedIs
<1>3. CASE request = NoDoc
  BY <1>2, <1>3 DEF FinishGet, Store!vars
<1>4. CASE request # NoDoc
  <2>1. /\ request \in Docs
        /\ reply' = Text(request, DatabaseGetEntry(server.db, request))
    BY <1>4, FinishGetStep
  <2>2. TasksIn(server.queue, request) = {}
    BY DEF FinishGet, TasksIn
  <2>3. Acknowledged(request) = DatabaseGetEntry(server.db, request)
    BY <2>2, AcknowledgedIs
  <2>4. reply' = Text(request, [d \in Docs |-> Acknowledged(d)][request])
    BY <2>1, <2>3
  <2>. QED
    BY <1>2, <2>1, <2>4 DEF Store!Get, Text, Store!Text
<1>. QED
  BY <1>3, <1>4

\* Every step of the server is a step of the abstract store or a stutter.
LEMMA StoreNext ==
  ASSUME Inv, [Next]_vars
  PROVE  [Store!Next]_(Store!vars)
<1>1. ASSUME NEW d \in Docs, NEW x \in Contents, Edit(d, x)
      PROVE  Store!Next
  BY <1>1, StoreEdit DEF Store!Next
<1>2. ASSUME NEW d \in Docs \cup {NoDoc}, BeginGet(d)
      PROVE  UNCHANGED Store!vars
  BY <1>2, AcknowledgedIs DEF BeginGet, Store!vars
<1>3. CASE ExecuteTask
  BY <1>3, StoreExecuteTask
<1>4. CASE FinishGet
  BY <1>4, StoreFinishGet DEF Store!Next
<1>5. CASE UNCHANGED vars
  BY <1>5, AcknowledgedIs DEF vars, Store!vars
<1>. QED
  BY <1>1, <1>2, <1>3, <1>4, <1>5 DEF Next

\* The server implements the map of its documents: although an EDIT is only
\* queued and its text reaches the cache and the database later, every GET
\* returns the text of the last acknowledged EDIT (server_handle_request).
THEOREM ImplementsStore == Spec => StoreSpec
<1>1. Init => Store!Init
  BY StoreInit
<1>2. Inv /\ [Next]_vars => [Store!Next]_(Store!vars)
  BY StoreNext
<1>3. Inv /\ [Next]_vars =>
        [\A d \in Docs, x \in Contents : Edit(d, x) => Store!Edit(d, x)]_vars
  BY StoreEdit
<1>. QED
  BY <1>1, <1>2, <1>3, Invariance, PTL DEF Spec, StoreSpec, Store!Spec, EditsStored
-----------------------------------------------------------------------------
(***************************************************************************)
(* The history of ServerRecency, which says what the cache keeps.          *)
(***************************************************************************)
\* The list of the cache is the beginning of r, and all of it while there is room.
Remembers(c, r) ==
  /\ r \in Seq(Docs) /\ IsInjective(r)
  /\ Len(c.list) <= Len(r)
  /\ \A i \in 1 .. Len(c.list) : c.list[i] = r[i]
  /\ ~LruCacheIsFull(c) => Len(c.list) = Len(r)

\* A use of a document moves it to the front of the cache and of the history.
LEMMA UseRemembered ==
  ASSUME NEW c, WellFormed(c), c.capacity > 0, NEW n, NEW d \in Docs,
         Uses(c, n, d), NEW r, Remembers(c, r)
  PROVE  Remembers(n, Cons(d, RemoveFirst(r, d)))
<1>. DEFINE u == Cons(d, RemoveFirst(r, d))
            l == c.list
            m == n.list
<1>1. /\ l \in Seq(Docs) /\ IsInjective(l) /\ m \in Seq(Docs)
      /\ c.size = Len(l) /\ c.capacity \in Nat
      /\ n.size = Len(m) /\ n.capacity = c.capacity
      /\ r \in Seq(Docs) /\ IsInjective(r)
  BY UintAssumption DEF WellFormed, LruCache, Uses, Remembers
<1>2. /\ Len(l) \in Nat /\ Len(m) \in Nat /\ Len(r) \in Nat
      /\ Len(l) <= Len(r) /\ \A i \in 1 .. Len(l) : l[i] = r[i]
      /\ ToSet(l) = {l[i] : i \in 1 .. Len(l)}
      /\ ToSet(r) = {r[i] : i \in 1 .. Len(r)}
  BY <1>1, IndicesOfSeq DEF Remembers
<1>3. \A i, j \in 1 .. Len(r) : r[i] = r[j] => i = j
  BY <1>1, IndicesOfSeq DEF IsInjective
<1>4. u \in Seq(Docs) /\ IsInjective(u)
  BY <1>1, UsedFirst
<1>5. d \notin ToSet(r) => PutFirst(u, r, d)
  BY <1>1, UsedFirst
<1>6. ASSUME NEW k \in 1 .. Len(r), r[k] = d
      PROVE  MovedFirst(u, r, k)
  BY <1>1, <1>6, UsedFirst
<1>7. /\ LruCacheIsFull(c) <=> Len(l) = c.capacity
      /\ LruCacheIsFull(n) <=> Len(m) = c.capacity
      /\ ~LruCacheIsFull(c) => Len(l) = Len(r)
  BY <1>1 DEF LruCacheIsFull, Remembers
<1>. HIDE DEF u, l, m
<1>8. SUFFICES /\ Len(m) <= Len(u)
               /\ \A i \in 1 .. Len(m) : m[i] = u[i]
               /\ Len(m) # c.capacity => Len(m) = Len(u)
  BY <1>4, <1>7 DEF Remembers, u, m
<1>9. CASE d \in ToSet(l) /\ m = Cons(d, RemoveFirst(l, d))
  <2>1. PICK k \in 1 .. Len(l) : l[k] = d
    BY <1>2, <1>9
  <2>2. /\ Len(m) = Len(l)
        /\ \A i \in 1 .. Len(l) :
             m[i] = IF i = 1 THEN d ELSE IF i <= k THEN l[i - 1] ELSE l[i]
    <3>1. MovedFirst(m, l, k)
      BY <1>1, <1>9, <2>1, UsedFirst
    <3>. QED
      BY <2>1, <3>1 DEF MovedFirst
  <2>3. k \in 1 .. Len(r) /\ r[k] = d
    BY <1>2, <2>1
  <2>4. /\ Len(u) = Len(r)
        /\ \A i \in 1 .. Len(r) :
             u[i] = IF i = 1 THEN d ELSE IF i <= k THEN r[i - 1] ELSE r[i]
    BY <1>6, <2>3 DEF MovedFirst
  <2>5. ASSUME NEW i \in 1 .. Len(l) PROVE m[i] = u[i]
    <3>1. i \in 1 .. Len(r)
      BY <1>2
    <3>2. CASE i = 1
      BY <2>2, <2>4, <3>1, <3>2
    <3>3. CASE i # 1
      <4>1. i - 1 \in 1 .. Len(l)
        BY <1>2, <3>3
      <4>2. l[i - 1] = r[i - 1] /\ l[i] = r[i]
        BY <1>2, <4>1
      <4>. QED
        BY <2>2, <2>4, <3>1, <3>3, <4>2
    <3>. QED
      BY <3>2, <3>3
  <2>. QED
    BY <1>2, <1>7, <2>2, <2>4, <2>5
<1>10. ASSUME d \notin ToSet(l), NEW k \in 1 .. Len(r), r[k] = d
       PROVE  k > Len(l)
  BY <1>2, <1>10
\* Only the new place of d matters below the former length of the list.
<1>11. ASSUME d \notin ToSet(l)
       PROVE  /\ Len(u) >= Len(r) /\ Len(u) \in Nat
              /\ Len(l) = Len(r) => Len(u) = Len(r) + 1
              /\ \A i \in 1 .. Len(l) + 1 : i <= Len(u) =>
                    u[i] = IF i = 1 THEN d ELSE l[i - 1]
  <2>1. CASE d \notin ToSet(r)
    <3>1. ASSUME NEW i \in 1 .. Len(l) + 1
          PROVE  u[i] = IF i = 1 THEN d ELSE l[i - 1]
      <4>1. u[i] = IF i = 1 THEN d ELSE r[i - 1]
        <5>. i \in 1 .. Len(r) + 1
          BY <1>2
        <5>. QED
          BY <1>5, <2>1 DEF PutFirst
      <4>2. i # 1 => l[i - 1] = r[i - 1]
        <5>. i # 1 => i - 1 \in 1 .. Len(l)
          BY <1>2
        <5>. QED
          BY <1>2
      <4>. QED
        BY <4>1, <4>2
    <3>. QED
      BY <1>2, <1>5, <2>1, <3>1 DEF PutFirst
  <2>2. CASE d \in ToSet(r)
    <3>1. PICK k \in 1 .. Len(r) : r[k] = d
      BY <1>2, <2>2
    <3>2. k > Len(l) /\ k \in Nat
      BY <1>2, <1>10, <1>11, <3>1
    <3>3. /\ Len(u) = Len(r)
          /\ \A i \in 1 .. Len(r) :
               u[i] = IF i = 1 THEN d ELSE IF i <= k THEN r[i - 1] ELSE r[i]
      BY <1>6, <3>1 DEF MovedFirst
    <3>4. Len(l) # Len(r)
      BY <1>2, <3>1, <3>2
    <3>5. ASSUME NEW i \in 1 .. Len(l) + 1, i <= Len(u)
          PROVE  u[i] = IF i = 1 THEN d ELSE l[i - 1]
      <4>1. i \in 1 .. Len(r) /\ i <= k
        BY <1>2, <3>2, <3>3, <3>5
      <4>2. u[i] = IF i = 1 THEN d ELSE r[i - 1]
        BY <3>3, <4>1
      <4>3. i # 1 => l[i - 1] = r[i - 1]
        <5>. i # 1 => i - 1 \in 1 .. Len(l)
          BY <1>2
        <5>. QED
          BY <1>2
      <4>. QED
        BY <4>2, <4>3
    <3>. QED
      BY <1>2, <3>3, <3>4, <3>5
  <2>. QED
    BY <2>1, <2>2
<1>. DEFINE p == Cons(d, l)
<1>12. /\ p \in Seq(Docs) /\ Len(p) = Len(l) + 1
       /\ \A i \in 1 .. Len(l) + 1 : p[i] = IF i = 1 THEN d ELSE l[i - 1]
  BY <1>1, ConsProperties
<1>. HIDE DEF p
<1>13. CASE d \notin ToSet(l) /\ ~LruCacheIsFull(c) /\ m = p
  <2>1. Len(u) = Len(r) + 1 /\ Len(l) = Len(r)
    BY <1>7, <1>11, <1>13
  <2>. QED
    BY <1>2, <1>11, <1>12, <1>13, <2>1
<1>14. CASE d \notin ToSet(l) /\ LruCacheIsFull(c) /\ m = Front(p)
  <2>1. p # <<>>
    BY <1>2, <1>12, EmptySeq
  <2>2. /\ Len(m) = Len(p) - 1
        /\ \A i \in 1 .. Len(p) - 1 : m[i] = p[i]
    BY <1>12, <1>14, <2>1, FrontProperties
  <2>3. Len(m) = Len(l) /\ Len(m) <= Len(u) /\ Len(p) - 1 = Len(l)
    BY <1>2, <1>11, <1>12, <1>14, <2>2
  <2>4. ASSUME NEW i \in 1 .. Len(l) PROVE m[i] = u[i]
    <3>1. i \in 1 .. Len(l) + 1 /\ i <= Len(u)
      BY <1>2, <1>11, <1>14, <2>3
    <3>2. m[i] = p[i]
      BY <2>2, <2>3
    <3>. QED
      BY <1>11, <1>12, <1>14, <3>1, <3>2
  <2>. QED
    BY <1>7, <1>14, <2>3, <2>4
<1>. QED
  BY <1>9, <1>13, <1>14 DEF Uses, l, m, p

\* Inductive: the strengthening of CacheHoldsMostRecent.
HistoryInv == Inv /\ Remembers(server.cache, recent)

\* An empty cache remembers an empty history.
LEMMA HistoryInit ==
  ASSUME RInit
  PROVE  HistoryInv
<1>1. Inv
  BY InvInit DEF RInit
<1>2. server.cache.list = <<>> /\ recent = <<>>
  BY DEF RInit, Init, InitServer, InitLruCache
<1>3. recent \in Seq(Docs) /\ IsInjective(recent) /\ Len(recent) = 0
  BY <1>2 DEF IsInjective
<1>. QED
  BY <1>1, <1>2, <1>3 DEF HistoryInv, Remembers

\* The task that is executed uses its document.
LEMMA HistoryExecuteTask ==
  ASSUME HistoryInv, RExecuteTask
  PROVE  Remembers(server'.cache, recent')
<1>. DEFINE d == Oldest(server).doc
            x == Oldest(server).content
<1>1. /\ server.queue \in Seq(Task) /\ server.queue # <<>>
      /\ WellFormed(server.cache) /\ server.cache.capacity > 0
      /\ server = [cache |-> server.cache, db |-> server.db, queue |-> server.queue]
  BY ServerInvFacts DEF HistoryInv, Inv, RExecuteTask, ExecuteTask
<1>2. d \in Docs /\ x \in Contents
  <2>1. Oldest(server) \in Task
    BY <1>1, HeadTailProperties DEF Oldest
  <2>. QED
    BY <2>1 DEF Task
<1>3. server'.cache = EditedCache(server, d, x)
  <2>1. server' = [EditDocument(server, d, x) EXCEPT !.queue = Tail(@)]
    BY DEF RExecuteTask, ExecuteTask, ExecuteOldest
  <2>. DEFINE c == EditedCache(server, d, x)
              b == EditedDatabase(server, d, x)
  <2>2. EditDocument(server, d, x) = [server EXCEPT !.db = b, !.cache = c]
    BY DEF EditDocument
  <2>. HIDE DEF b, c, d, x
  <2>3. EditDocument(server, d, x) = [cache |-> c, db |-> b, queue |-> server.queue]
    BY <1>1, <2>2
  <2>. QED
    BY <2>1, <2>3 DEF c
<1>4. recent' = Cons(d, RemoveFirst(recent, d))
  BY DEF RExecuteTask, UsedNow
<1>. HIDE DEF d, x
<1>5. Uses(server.cache, server'.cache, d)
  BY <1>1, <1>2, <1>3, EditedCacheUses
<1>6. Remembers(server.cache, recent)
  BY DEF HistoryInv
<1>7. Remembers(server'.cache, Cons(d, RemoveFirst(recent, d)))
  BY <1>1, <1>2, <1>5, <1>6, UseRemembered
<1>. QED
  BY <1>4, <1>7

\* A GET uses its document unless there is none.
LEMMA HistoryFinishGet ==
  ASSUME HistoryInv, RFinishGet
  PROVE  Remembers(server'.cache, recent')
<1>. DEFINE d == request
            c == server.cache
            x == DatabaseGetEntry(server.db, d)
<1>1. /\ WellFormed(c) /\ c.capacity > 0 /\ server.db \in Database
      /\ server = [cache |-> c, db |-> server.db, queue |-> server.queue]
      /\ ServerInv(server)
  BY ServerInvFacts DEF HistoryInv, Inv
<1>2. Remembers(c, recent)
  BY DEF HistoryInv
<1>3. CASE d = NoDoc
  BY <1>2, <1>3, NullAssumption DEF RFinishGet, FinishGet
<1>4. CASE d # NoDoc
  <2>1. d \in Docs /\ server' = GetDocument(server, d)
    BY <1>4 DEF HistoryInv, Inv, RFinishGet, FinishGet, Idle
  <2>2. /\ x \in Contents \cup {NoContent}
        /\ InDatabase(server.db, d) <=> x # NoContent
    BY <1>1, <2>1, DatabaseGetEntryType
  <2>3. GetReply(server, d).value = x
    <3>1. GetReply(server, d) = Text(d, x)
      BY <1>1, <2>1, GetDocumentKeeps
    <3>. QED
      BY <3>1 DEF Text, Message
  <2>4. /\ x # NoContent => recent' = Cons(d, RemoveFirst(recent, d))
        /\ x = NoContent => recent' = recent
    BY <2>1, <2>3 DEF RFinishGet, UsedNow
  <2>. HIDE DEF x, c, d
  <2>5. CASE Cached(c, d)
    <3>1. server' = [server EXCEPT !.cache = Touch(@, d)]
      BY <2>1, <2>5 DEF GetDocument, c
    <3>2. server'.cache = Touch(c, d)
      BY <1>1, <3>1
    <3>3. x # NoContent
      BY <1>1, <2>1, <2>5 DEF ServerInv, Cached, x, c
    <3>4. Uses(c, server'.cache, d)
      BY <1>1, <2>1, <2>5, <3>2, TouchUses
    <3>5. Remembers(server'.cache, Cons(d, RemoveFirst(recent, d)))
      BY <1>1, <1>2, <2>1, <3>4, UseRemembered
    <3>. QED
      BY <2>4, <3>3, <3>5
  <2>6. CASE ~Cached(c, d) /\ x # NoContent
    <3>1. server' = [server EXCEPT !.cache = Admit(@, d, x)]
      BY <2>1, <2>2, <2>6 DEF GetDocument, c, x
    <3>2. server'.cache = Admit(c, d, x)
      BY <1>1, <3>1
    <3>3. Uses(c, server'.cache, d)
      BY <1>1, <2>1, <2>2, <2>6, <3>2, AdmitUses
    <3>4. Remembers(server'.cache, Cons(d, RemoveFirst(recent, d)))
      BY <1>1, <1>2, <2>1, <3>3, UseRemembered
    <3>. QED
      BY <2>4, <2>6, <3>4
  <2>7. CASE ~Cached(c, d) /\ x = NoContent
    <3>1. server' = [server EXCEPT !.cache = @]
      BY <2>1, <2>2, <2>7 DEF GetDocument, c
    <3>2. server'.cache = c
      BY <1>1, <3>1
    <3>. QED
      BY <1>2, <2>4, <2>7, <3>2
  <2>. QED
    BY <2>5, <2>6, <2>7
<1>. QED
  BY <1>3, <1>4

\* A step with history is a step of the server.
LEMMA RNextIsNext == [RNext]_rvars => [Next]_vars
<1>1. \A d \in Docs \cup {NoDoc} : BeginGet(d) => Next
  BY DEF Next
<1>2. \A d \in Docs, x \in Contents : Edit(d, x) => Next
  BY DEF Next
<1>3. REdit => Next
  BY <1>2 DEF REdit
<1>4. RBeginGet => Next
  BY <1>1 DEF RBeginGet
<1>. QED
  BY <1>3, <1>4 DEF RNext, rvars, RExecuteTask, RFinishGet, Next

\* Every step keeps the cache in the order of the history.
LEMMA HistoryNext ==
  ASSUME HistoryInv, [RNext]_rvars
  PROVE  HistoryInv'
<1>1. Inv'
  BY InvNext, RNextIsNext DEF HistoryInv
<1>2. ASSUME server'.cache = server.cache, recent' = recent
      PROVE  Remembers(server'.cache, recent')
  BY <1>2 DEF HistoryInv
<1>. SUFFICES Remembers(server'.cache, recent')
  BY <1>1 DEF HistoryInv
<1>3. CASE REdit
  <2>1. PICK d \in Docs, x \in Contents : Edit(d, x) /\ UNCHANGED recent
    BY <1>3 DEF REdit
  <2>2. server' = [server EXCEPT !.queue = Append(@, [doc |-> d, content |-> x])]
    BY <2>1 DEF Edit, AddTaskInQueue
  <2>3. server'.cache = server.cache
    BY <2>2, ServerInvFacts DEF HistoryInv, Inv
  <2>. QED
    BY <1>2, <2>1, <2>3
<1>4. CASE RBeginGet
  BY <1>2, <1>4 DEF RBeginGet, BeginGet
<1>5. CASE RExecuteTask
  BY <1>5, HistoryExecuteTask
<1>6. CASE RFinishGet
  BY <1>6, HistoryFinishGet
<1>7. CASE UNCHANGED rvars
  BY <1>2, <1>7 DEF rvars, vars
<1>. QED
  BY <1>3, <1>4, <1>5, <1>6, <1>7 DEF RNext

\* The cache is least recently used: its list is the documents used last, in
\* the order of their use, and as many of them as fit (lru_cache_get,
\* lru_cache_put, server_edit_document, server_get_document).
THEOREM CacheIsLeastRecentlyUsed == RSpec => []CacheHoldsMostRecent
<1>1. HistoryInv => CacheHoldsMostRecent
  <2>. SUFFICES ASSUME HistoryInv PROVE CacheHoldsMostRecent
    OBVIOUS
  <2>. DEFINE l == server.cache.list
  <2>1. /\ l \in Seq(Docs) /\ recent \in Seq(Docs) /\ Len(l) <= Len(recent)
        /\ \A i \in 1 .. Len(l) : l[i] = recent[i]
        /\ Len(l) <= CacheCapacity
        /\ Len(l) # CacheCapacity => Len(l) = Len(recent)
    BY DEF HistoryInv, Inv, ServerInv, WellFormed, LruCache, LruCacheIsFull,
                Remembers
  <2>2. Len(l) \in Nat /\ Len(recent) \in Nat /\ CacheCapacity \in Nat
    <3>1. CacheCapacity \in Nat
      BY ServerAssumption, UintAssumption
    <3>. QED
      BY <2>1, <3>1, LenProperties
  <2>. HIDE DEF l
  <2>3. Len(l) = Min({CacheCapacity, Len(recent)})
    <3>. DEFINE T == {CacheCapacity, Len(recent)}
    <3>1. Min(T) \in T /\ \A y \in T : Min(T) <= y
      <4>1. T \in SUBSET Nat /\ T # {}
        BY <2>2
      <4>. HIDE DEF T
      <4>. QED
        BY <4>1, MinIsLeast
    <3>2. Len(l) \in T /\ \A y \in T : Len(l) <= y
      BY <2>1, <2>2
    <3>. QED
      BY <2>2, <3>1, <3>2
  <2>4. IsPrefix(l, recent)
    BY <2>1, PrefixIs
  <2>. QED
    BY <2>3, <2>4 DEF CacheHoldsMostRecent, l
<1>. QED
  BY <1>1, HistoryInit, HistoryNext, PTL DEF RSpec
=============================================================================
