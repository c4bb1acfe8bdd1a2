----------------------------- MODULE ServerOps -----------------------------
(***************************************************************************)
(* The state of one server and what its handlers compute from it           *)
(* (server.c, database.c, task_queue.c):                                   *)
(*   cache   its LRU cache                                                 *)
(*   db      its database.  The entries of one document are in one bucket; *)
(*           db[d] is their texts in the order of that bucket, so a lookup *)
(*           returns the first.  Entries of other documents in the bucket  *)
(*           never change what a lookup returns and are left out.          *)
(*   queue   the EDITs it has acknowledged and not executed, oldest first  *)
(***************************************************************************)
EXTENDS LruCache

Task == [doc : Docs, content : Contents]

Database == [Docs -> Seq(Contents)]

ServerState == [cache : LruCache, db : Database, queue : Seq(Task)]

InitServer(cap) == [cache |-> InitLruCache(cap),
                    db    |-> [d \in Docs |-> <<>>],
                    queue |-> <<>>]

InDatabase(db, d) == db[d] # <<>>

DatabaseGetEntry(db, d) == IF InDatabase(db, d) THEN Head(db[d]) ELSE NoContent

\* Faulty variant: the text of a new entry is never copied into it.
AddEntryWithoutText(db, d, x) == [db EXCEPT ![d] = Cons(NoContent, @)]

\* A new entry goes to the head of its bucket; an edit overwrites the first.
AddEntry(db, d, x)  == [db EXCEPT ![d] = Cons(x, @)]
Overwrite(db, d, x) == [db EXCEPT ![d][1] = x]

\* Faulty variant: an edit of a stored document adds a second entry.
EditedDatabaseAdding(s, d, x) ==
  IF Cached(s.cache, d) THEN s.db ELSE AddEntry(s.db, d, x)

EditedDatabase(s, d, x) ==
  IF InDatabase(s.db, d)  THEN Overwrite(s.db, d, x)
  ELSE IF Cached(s.cache, d) THEN s.db
  ELSE AddEntry(s.db, d, x)

\* Faulty variant: a hit reorders the list and leaves the old text in the table.
EditedCacheStale(s, d, x) ==
  IF Cached(s.cache, d) THEN Touch(s.cache, d) ELSE Admit(s.cache, d, x)

EditedCache(s, d, x) ==
  IF Cached(s.cache, d) THEN [Touch(s.cache, d) EXCEPT !.bucket[d] = x]
                        ELSE Admit(s.cache, d, x)

EditDocument(s, d, x) == [s EXCEPT !.db = EditedDatabase(s, d, x),
                                   !.cache = EditedCache(s, d, x)]

EditReply(s, d, x) ==
  IF ~Cached(s.cache, d) /\ ~InDatabase(s.db, d)         THEN Created(d)
  ELSE IF ~Cached(s.cache, d) /\ ~LruCacheIsFull(s.cache) THEN Text(d, x)
  ELSE Overridden(d)

GetDocument(s, d) ==
  [s EXCEPT !.cache = IF Cached(s.cache, d) THEN Touch(@, d)
                      ELSE IF InDatabase(s.db, d)
                           THEN Admit(@, d, DatabaseGetEntry(s.db, d))
                      ELSE @]

GetReply(s, d) == Text(d, IF Cached(s.cache, d) THEN LruCacheGet(s.cache, d)
                          ELSE DatabaseGetEntry(s.db, d))

\* Faulty variant: a new task is placed where the oldest is taken from.
AddTaskAtFront(s, d, x) ==
  [s EXCEPT !.queue = Cons([doc |-> d, content |-> x], @)]

AddTaskInQueue(s, d, x) ==
  [s EXCEPT !.queue = Append(@, [doc |-> d, content |-> x])]

\* One turn of the loop of server_handle_request: execute the oldest task.
Oldest(s) == Head(s.queue)

\* Faulty variant: the executed task is not removed from the queue.
ExecuteOldestKeeping(s) == EditDocument(s, Oldest(s).doc, Oldest(s).content)

ExecuteOldest(s) ==
  [EditDocument(s, Oldest(s).doc, Oldest(s).content) EXCEPT !.queue = Tail(@)]

ExecuteReply(s) == EditReply(s, Oldest(s).doc, Oldest(s).content)
=============================================================================
