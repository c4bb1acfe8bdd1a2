-------------------------- MODULE ServerOpsProofs --------------------------
(***************************************************************************)
(* What the operations on one server's cache and database establish.       *)
(***************************************************************************)
EXTENDS ServerOps, SequenceLemmas

\* The cache's list, table and counter describe the same entries.
WellFormed(c) == /\ c \in LruCache
                 /\ ToSet(c.list) = {d \in Docs : Cached(c, d)}
                 /\ IsInjective(c.list)
                 /\ c.size = Len(c.list)
                 /\ c.size <= c.capacity

\* Cache n comes from c by giving document d the text x: entries of other
\* documents stay, except that a full cache may lose one and then is still full.
Stores(c, n, d, x) ==
  /\ WellFormed(n)
  /\ n.capacity = c.capacity
  /\ n.bucket[d] = x
  /\ \A e \in Docs \ {d} : n.bucket[e] \in {c.bucket[e], NoContent}
  /\ ~LruCacheIsFull(n) => /\ ~LruCacheIsFull(c)
                           /\ \A e \in Docs \ {d} : n.bucket[e] = c.bucket[e]

\* Counting up by one below the modulus does not wrap.
LEMMA NoWrap ==
  ASSUME NEW n \in Nat, NEW m \in Nat, n < m
  PROVE  n % m = n
OBVIOUS

\* A new cache is well formed.
LEMMA InitLruCacheWellFormed ==
  ASSUME NEW cap \in 0 .. UintModulus - 1
  PROVE  /\ WellFormed(InitLruCache(cap))
         /\ \A d \in Docs : ~Cached(InitLruCache(cap), d)
<1>. DEFINE c == InitLruCache(cap)
<1>1. /\ c = [capacity |-> cap, size |-> 0, list |-> <<>>,
              bucket |-> [d \in Docs |-> NoContent]]
  BY DEF InitLruCache
<1>2. 0 \in 0 .. UintModulus - 1 /\ cap >= 0
  BY UintAssumption
<1>3. c \in LruCache
  BY <1>1, <1>2 DEF LruCache
<1>4. ASSUME NEW d \in Docs PROVE ~Cached(c, d)
  <2>1. c.bucket[d] = NoContent
    BY <1>1
  <2>. HIDE DEF c
  <2>. QED
    BY <2>1 DEF Cached, LruCacheGet
<1>5. ToSet(c.list) = {} /\ IsInjective(c.list) /\ Len(c.list) = 0
  BY <1>1 DEF ToSet, IsInjective
<1>6. c.size = 0 /\ c.capacity = cap
  BY <1>1
<1>. HIDE DEF c
<1>7. {d \in Docs : Cached(c, d)} = {}
  BY <1>4
<1>. QED
  BY <1>2, <1>3, <1>4, <1>5, <1>6, <1>7 DEF WellFormed, c

\* The list and the table of a cache hold the same documents, each once.  Unlike
\* WellFormed this says nothing of the counter, which moving documents lowers.
Matches(c) == /\ c \in LruCache
              /\ ToSet(c.list) = {d \in Docs : Cached(c, d)}
              /\ IsInjective(c.list)

\* Using a cached document changes the order of the list only.
LEMMA TouchMatches ==
  ASSUME NEW c, Matches(c), NEW d \in Docs, Cached(c, d)
  PROVE  /\ Matches(Touch(c, d))
         /\ Touch(c, d).list = Cons(d, RemoveFirst(c.list, d))
         /\ ToSet(Touch(c, d).list) = ToSet(c.list)
         /\ Len(Touch(c, d).list) = Len(c.list)
         /\ Touch(c, d).bucket = c.bucket
         /\ Touch(c, d).capacity = c.capacity
         /\ Touch(c, d).size = c.size
<1>1. /\ c \in LruCache /\ c.list \in Seq(Docs) /\ IsInjective(c.list)
      /\ d \in ToSet(c.list) /\ ToSet(c.list) = {e \in Docs : Cached(c, e)}
  BY DEF Matches, LruCache
<1>. DEFINE l == Cons(d, RemoveFirst(c.list, d))
            t == Touch(c, d)
<1>2. /\ l \in Seq(Docs) /\ Len(l) = Len(c.list) /\ IsInjective(l)
      /\ ToSet(l) = ToSet(c.list)
  BY <1>1, MoveToFront
<1>3. t = [c EXCEPT !.list = Cons(d, RemoveFirst(@, d))]
  BY <1>1 DEF Touch
<1>4. t = [c EXCEPT !.list = l]
  BY <1>3
<1>. HIDE DEF l, t
<1>5. /\ t \in LruCache /\ t.list = l /\ t.bucket = c.bucket
      /\ t.capacity = c.capacity /\ t.size = c.size
  BY <1>1, <1>2, <1>4 DEF LruCache
<1>6. Matches(t)
  BY <1>1, <1>2, <1>5 DEF Matches, Cached, LruCacheGet
<1>. QED
  BY <1>2, <1>5, <1>6 DEF t, l

\* Moving a document to the head of the order keeps the cache well formed.
LEMMA TouchWellFormed ==
  ASSUME NEW c, WellFormed(c), NEW d \in Docs, Cached(c, d)
  PROVE  /\ WellFormed(Touch(c, d))
         /\ Touch(c, d).bucket = c.bucket
         /\ Touch(c, d).capacity = c.capacity
         /\ Touch(c, d).size = c.size
<1>1. Matches(c) /\ c.size = Len(c.list) /\ c.size <= c.capacity
  BY DEF WellFormed, Matches
<1>. DEFINE t == Touch(c, d)
<1>2. /\ Matches(t) /\ Len(t.list) = Len(c.list) /\ t.bucket = c.bucket
      /\ t.capacity = c.capacity /\ t.size = c.size
  BY <1>1, TouchMatches
<1>. HIDE DEF t
<1>3. WellFormed(t)
  BY <1>1, <1>2 DEF WellFormed, Matches
<1>. QED
  BY <1>2, <1>3 DEF t

\* Cache n is c with one more document, which is counted.
Counts(c, n, d, x) == /\ Matches(n)
                      /\ n.list = Cons(d, c.list)
                      /\ ToSet(n.list) = ToSet(c.list) \cup {d}
                      /\ Len(n.list) = Len(c.list) + 1
                      /\ n.bucket = [c.bucket EXCEPT ![d] = x]
                      /\ n.capacity = c.capacity
                      /\ n.size = (c.size + 1) % UintModulus

\* Cache n is c with a document in the place of the one used last, v.
Replaces(c, n, d, x, v) ==
  /\ v \in Docs /\ v # d /\ v # NoDoc
  /\ Matches(n)
  /\ n.list = Front(Cons(d, c.list))
  /\ ToSet(n.list) = (ToSet(c.list) \ {v}) \cup {d}
  /\ Len(n.list) = Len(c.list)
  /\ n.bucket = [[c.bucket EXCEPT ![d] = x] EXCEPT ![v] = NoContent]
  /\ n.capacity = c.capacity
  /\ n.size = c.size

\* A document that is put without evicting one is counted.
LEMMA PutCounts ==
  ASSUME NEW c, Matches(c), NEW d \in Docs, ~Cached(c, d), NEW x \in Contents
  PROVE  Counts(c, LruCachePut(c, d, x, NoDoc), d, x)
<1>. DEFINE l == Cons(d, c.list)
            b == [c.bucket EXCEPT ![d] = x]
            z == (c.size + 1) % UintModulus
            n == LruCachePut(c, d, x, NoDoc)
<1>1. /\ c \in LruCache /\ c.list \in Seq(Docs) /\ IsInjective(c.list)
      /\ c.bucket \in [Docs -> Contents \cup {NoContent}]
      /\ d \notin ToSet(c.list) /\ c.size \in 0 .. UintModulus - 1
      /\ ToSet(c.list) = {e \in Docs : Cached(c, e)}
  BY DEF Matches, LruCache
<1>2. /\ l \in Seq(Docs) /\ Len(l) = Len(c.list) + 1 /\ IsInjective(l)
      /\ ToSet(l) = ToSet(c.list) \cup {d}
  BY <1>1, PushFront
<1>3. n = [c EXCEPT !.list = l, !.bucket = b, !.size = z]
  BY <1>1 DEF LruCachePut, LruCache
<1>4. b \in [Docs -> Contents \cup {NoContent}] /\ b[d] = x
      /\ \A e \in Docs \ {d} : b[e] = c.bucket[e]
  BY <1>1
<1>5. z \in 0 .. UintModulus - 1
  BY <1>1, UintAssumption
<1>. HIDE DEF l, b, z, n
<1>6. /\ n \in LruCache /\ n.list = l /\ n.bucket = b
      /\ n.capacity = c.capacity /\ n.size = z
  BY <1>1, <1>2, <1>3, <1>4, <1>5 DEF LruCache
<1>7. {e \in Docs : Cached(n, e)} = {e \in Docs : Cached(c, e)} \cup {d}
  BY <1>4, <1>6, NullAssumption DEF Cached, LruCacheGet
<1>8. Matches(n)
  BY <1>1, <1>2, <1>6, <1>7 DEF Matches
<1>. QED
  BY <1>2, <1>6, <1>8 DEF Counts, n, l, b, z

\* A document that is put in the place of the last one is not.
LEMMA PutReplaces ==
  ASSUME NEW c, Matches(c), c.list # <<>>,
         NEW d \in Docs, ~Cached(c, d), NEW x \in Contents
  PROVE  Replaces(c, LruCachePut(c, d, x, Last(c.list)), d, x, Last(c.list))
<1>. DEFINE v == Last(c.list)
            l == Front(Cons(d, c.list))
            b == [[c.bucket EXCEPT ![d] = x] EXCEPT ![v] = NoContent]
            n == LruCachePut(c, d, x, v)
<1>1. /\ c \in LruCache /\ c.list \in Seq(Docs) /\ IsInjective(c.list)
      /\ c.bucket \in [Docs -> Contents \cup {NoContent}]
      /\ d \notin ToSet(c.list)
      /\ ToSet(c.list) = {e \in Docs : Cached(c, e)}
  BY DEF Matches, LruCache
<1>2. /\ l \in Seq(Docs) /\ Len(l) = Len(c.list) /\ IsInjective(l)
      /\ ToSet(l) = (ToSet(c.list) \ {v}) \cup {d} /\ v \in ToSet(c.list)
  BY <1>1, PushFrontDropLast
<1>3. v \in Docs /\ v # d /\ v # NoDoc
  BY <1>1, <1>2, NullAssumption
<1>. HIDE DEF v
<1>4. n = [c EXCEPT !.list = l, !.bucket = b]
  BY <1>1, <1>3 DEF LruCachePut, LruCacheRemove, LruCache
<1>5. b \in [Docs -> Contents \cup {NoContent}] /\ b[d] = x /\ b[v] = NoContent
      /\ \A e \in Docs \ {d, v} : b[e] = c.bucket[e]
  BY <1>1, <1>3
<1>. HIDE DEF l, b, n
<1>6. /\ n \in LruCache /\ n.list = l /\ n.bucket = b
      /\ n.capacity = c.capacity /\ n.size = c.size
  BY <1>1, <1>2, <1>4, <1>5 DEF LruCache
<1>7. {e \in Docs : Cached(n, e)} = ({e \in Docs : Cached(c, e)} \ {v}) \cup {d}
  BY <1>3, <1>5, <1>6, NullAssumption DEF Cached, LruCacheGet
<1>8. Matches(n)
  BY <1>1, <1>2, <1>6, <1>7 DEF Matches
<1>. QED
  BY <1>2, <1>3, <1>6, <1>8 DEF Replaces, v, n, l, b

\* Adding a document to a cache that has room counts it and evicts nothing.
LEMMA AdmitWithRoom ==
  ASSUME NEW c, WellFormed(c), ~LruCacheIsFull(c),
         NEW d \in Docs, ~Cached(c, d), NEW x \in Contents
  PROVE  Stores(c, Admit(c, d, x), d, x)
<1>. DEFINE n == Admit(c, d, x)
<1>1. /\ Matches(c) /\ c.size = Len(c.list) /\ c.size <= c.capacity
      /\ c.size \in 0 .. UintModulus - 1 /\ c.capacity \in 0 .. UintModulus - 1
      /\ c.size # c.capacity /\ UintModulus \in Nat
      /\ c.bucket \in [Docs -> Contents \cup {NoContent}]
  BY UintAssumption DEF WellFormed, Matches, LruCache, LruCacheIsFull
<1>2. (c.size + 1) % UintModulus = c.size + 1
  <2>1. c.size + 1 \in Nat /\ c.size + 1 < UintModulus
    BY <1>1
  <2>. QED
    BY <1>1, <2>1, NoWrap
<1>3. n = LruCachePut(c, d, x, NoDoc)
  BY DEF Admit
<1>. HIDE DEF n
<1>4. Counts(c, n, d, x)
  BY <1>1, <1>3, PutCounts
<1>5. /\ Matches(n) /\ Len(n.list) = Len(c.list) + 1
      /\ n.capacity = c.capacity /\ n.size = c.size + 1
  BY <1>2, <1>4 DEF Counts
<1>6. WellFormed(n)
  BY <1>1, <1>5 DEF WellFormed, Matches
<1>7. n.bucket[d] = x /\ \A e \in Docs \ {d} : n.bucket[e] = c.bucket[e]
  BY <1>1, <1>4 DEF Counts
<1>. QED
  BY <1>5, <1>6, <1>7 DEF Stores, n

\* Adding a document to a full cache evicts one entry and keeps the count.
LEMMA AdmitWhenFull ==
  ASSUME NEW c, WellFormed(c), LruCacheIsFull(c), c.capacity > 0,
         NEW d \in Docs, ~Cached(c, d), NEW x \in Contents
  PROVE  Stores(c, Admit(c, d, x), d, x)
<1>. DEFINE v == Last(c.list)
            n == Admit(c, d, x)
<1>1. /\ Matches(c) /\ c.list \in Seq(Docs)
      /\ c.size = Len(c.list) /\ c.size = c.capacity
      /\ c.bucket \in [Docs -> Contents \cup {NoContent}]
  BY DEF WellFormed, Matches, LruCache, LruCacheIsFull
<1>2. c.list # <<>>
  <2>1. Len(c.list) # 0
    BY <1>1
  <2>. QED
    BY <1>1, <2>1, EmptySeq
<1>3. n = LruCachePut(c, d, x, v) /\ v = Last(c.list)
  BY <1>2 DEF Admit, FindEvictedKey
<1>. HIDE DEF n, v
<1>4. Replaces(c, n, d, x, v)
  BY <1>1, <1>2, <1>3, PutReplaces
<1>5. /\ v \in Docs /\ v # d /\ Matches(n) /\ Len(n.list) = Len(c.list)
      /\ n.capacity = c.capacity /\ n.size = c.size
  BY <1>4 DEF Replaces
<1>6. WellFormed(n) /\ LruCacheIsFull(n)
  BY <1>1, <1>5 DEF WellFormed, Matches, LruCacheIsFull
<1>7. n.bucket[d] = x /\ \A e \in Docs \ {d} : n.bucket[e] \in {c.bucket[e], NoContent}
  BY <1>1, <1>4, <1>5 DEF Replaces
<1>. QED
  BY <1>5, <1>6, <1>7 DEF Stores, n

\* A document that is admitted, with or without an eviction, is in the cache
\* with its text.
LEMMA AdmitStores ==
  ASSUME NEW c, WellFormed(c), c.capacity > 0,
         NEW d \in Docs, ~Cached(c, d), NEW x \in Contents
  PROVE  Stores(c, Admit(c, d, x), d, x)
BY AdmitWithRoom, AdmitWhenFull

\* An executed edit leaves the new text in the cache.
LEMMA EditedCacheStores ==
  ASSUME NEW s, WellFormed(s.cache), s.cache.capacity > 0,
         NEW d \in Docs, NEW x \in Contents
  PROVE  Stores(s.cache, EditedCache(s, d, x), d, x)
<1>. DEFINE c == s.cache
            t == Touch(c, d)
            n == EditedCache(s, d, x)
<1>1. CASE ~Cached(c, d)
  BY <1>1, AdmitStores DEF EditedCache
<1>2. CASE Cached(c, d)
  <2>1. /\ WellFormed(t) /\ t.bucket = c.bucket
        /\ t.capacity = c.capacity /\ t.size = c.size
    BY <1>2, TouchWellFormed
  <2>2. n = [t EXCEPT !.bucket[d] = x]
    BY <1>2 DEF EditedCache
  <2>3. c.bucket[d] # NoContent
    BY <1>2 DEF Cached, LruCacheGet
  <2>. HIDE DEF c, t, n
  <2>4. t \in LruCache
    BY <2>1 DEF WellFormed
  <2>5. /\ n \in LruCache /\ n.list = t.list /\ n.size = c.size
        /\ n.capacity = c.capacity /\ n.bucket = [t.bucket EXCEPT ![d] = x]
    BY <2>1, <2>2, <2>4 DEF LruCache
  <2>6. /\ n.bucket[d] = x
        /\ \A e \in Docs \ {d} : n.bucket[e] = c.bucket[e]
    BY <2>1, <2>4, <2>5 DEF LruCache
  <2>7. {e \in Docs : Cached(n, e)} = {e \in Docs : Cached(t, e)}
    BY <2>1, <2>3, <2>6, NullAssumption DEF Cached, LruCacheGet
  <2>8. WellFormed(n)
    BY <2>1, <2>5, <2>7 DEF WellFormed
  <2>9. LruCacheIsFull(n) <=> LruCacheIsFull(c)
    BY <2>5 DEF LruCacheIsFull
  <2>. QED
    BY <2>5, <2>6, <2>8, <2>9 DEF Stores, n, c
<1>. QED
  BY <1>1, <1>2

\* Overwriting the first element of a sequence.
LEMMA FirstReplaced ==
  ASSUME NEW S, NEW q \in Seq(S), q # <<>>, NEW x \in S
  PROVE  /\ [q EXCEPT ![1] = x] \in Seq(S)
         /\ [q EXCEPT ![1] = x] # <<>>
         /\ Head([q EXCEPT ![1] = x]) = x
<1>1. Len(q) \in Nat /\ Len(q) # 0 /\ DOMAIN q = 1 .. Len(q)
  BY LenProperties, EmptySeq
<1>2. 1 \in 1 .. Len(q)
  BY <1>1
<1>3. /\ [q EXCEPT ![1] = x] \in Seq(S)
      /\ Len([q EXCEPT ![1] = x]) = Len(q)
      /\ [q EXCEPT ![1] = x][1] = x
  BY <1>2, ExceptSeq
<1>. QED
  BY <1>1, <1>3, EmptySeq, HeadTailProperties

\* A new first element of a sequence.
LEMMA FirstAdded ==
  ASSUME NEW S, NEW q \in Seq(S), NEW x \in S
  PROVE  /\ Cons(x, q) \in Seq(S)
         /\ Cons(x, q) # <<>>
         /\ Head(Cons(x, q)) = x
<1>1. Len(q) \in Nat
  BY LenProperties
<1>. DEFINE c == Cons(x, q)
<1>2. c \in Seq(S) /\ Len(c) = Len(q) + 1
  BY ConsProperties
<1>3. \A i \in 1 .. Len(q) + 1 : c[i] = IF i = 1 THEN x ELSE q[i - 1]
  BY ConsProperties
<1>. HIDE DEF c
<1>4. c[1] = x /\ c # <<>>
  BY <1>1, <1>2, <1>3, EmptySeq
<1>5. Head(c) = c[1]
  BY <1>2
<1>. QED
  BY <1>2, <1>4, <1>5 DEF c

\* An executed edit leaves the new text where the database looks it up first,
\* and does not touch the entries of other documents.
LEMMA EditedDatabaseStores ==
  ASSUME NEW s, s.db \in Database, NEW d \in Docs, NEW x \in Contents,
         Cached(s.cache, d) => InDatabase(s.db, d)
  PROVE  /\ EditedDatabase(s, d, x) \in Database
         /\ InDatabase(EditedDatabase(s, d, x), d)
         /\ DatabaseGetEntry(EditedDatabase(s, d, x), d) = x
         /\ \A e \in Docs \ {d} : EditedDatabase(s, d, x)[e] = s.db[e]
<1>. DEFINE n == EditedDatabase(s, d, x)
<1>1. s.db \in [Docs -> Seq(Contents)] /\ s.db[d] \in Seq(Contents)
  BY DEF Database
<1>2. CASE InDatabase(s.db, d)
  <2>. DEFINE q == [s.db[d] EXCEPT ![1] = x]
  <2>1. q \in Seq(Contents) /\ q # <<>> /\ Head(q) = x
    BY <1>1, <1>2, FirstReplaced DEF InDatabase
  <2>2. n = [s.db EXCEPT ![d] = q]
    BY <1>1, <1>2 DEF EditedDatabase, Overwrite
  <2>. HIDE DEF q, n
  <2>3. n \in Database /\ n[d] = q /\ \A e \in Docs \ {d} : n[e] = s.db[e]
    BY <1>1, <2>1, <2>2 DEF Database
  <2>. QED
    BY <2>1, <2>3 DEF InDatabase, DatabaseGetEntry, n
<1>3. CASE ~InDatabase(s.db, d)
  <2>. DEFINE q == Cons(x, s.db[d])
  <2>1. q \in Seq(Contents) /\ q # <<>> /\ Head(q) = x
    BY <1>1, FirstAdded
  <2>2. n = [s.db EXCEPT ![d] = q]
    BY <1>1, <1>3 DEF EditedDatabase, AddEntry
  <2>. HIDE DEF q, n
  <2>3. n \in Database /\ n[d] = q /\ \A e \in Docs \ {d} : n[e] = s.db[e]
    BY <1>1, <2>1, <2>2 DEF Database
  <2>. QED
    BY <2>1, <2>3 DEF InDatabase, DatabaseGetEntry, n
<1>. QED
  BY <1>2, <1>3

\* What holds of every server in the array: its variables have their types, its
\* cache's list and table agree, and all they hold is in its database.
ServerOK(x) == /\ x \in ServerState
               /\ Matches(x.cache)
               /\ \A d \in ToSet(x.cache.list) : InDatabase(x.db, d)

\* The counter of cache n follows the one of c: an entry that is added is
\* counted, unless it takes the place of another one.
Follows(c, n) ==
  /\ n.capacity = c.capacity
  /\ \/ n.size = c.size /\ Len(n.list) = Len(c.list)
     \/ /\ n.size = (c.size + 1) % UintModulus
        /\ Len(n.list) = Len(c.list) + 1
        /\ ~LruCacheIsFull(c) \/ c.list = <<>>

\* Adding a document that was not cached.
LEMMA AdmitMatches ==
  ASSUME NEW c, Matches(c), NEW d \in Docs, ~Cached(c, d), NEW x \in Contents
  PROVE  /\ Matches(Admit(c, d, x))
         /\ ToSet(Admit(c, d, x).list) \subseteq ToSet(c.list) \cup {d}
         /\ Follows(c, Admit(c, d, x))
<1>. DEFINE n == Admit(c, d, x)
<1>1. CASE LruCacheIsFull(c) /\ c.list # <<>>
  <2>1. n = LruCachePut(c, d, x, Last(c.list))
    BY <1>1 DEF Admit, FindEvictedKey
  <2>. HIDE DEF n
  <2>2. Replaces(c, n, d, x, Last(c.list))
    BY <1>1, <2>1, PutReplaces
  <2>. QED
    BY <2>2 DEF Replaces, Follows, n
<1>2. CASE ~LruCacheIsFull(c) \/ c.list = <<>>
  <2>1. n = LruCachePut(c, d, x, NoDoc)
    BY <1>2 DEF Admit, FindEvictedKey
  <2>. HIDE DEF n
  <2>2. Counts(c, n, d, x)
    BY <2>1, PutCounts
  <2>3. /\ Matches(n) /\ ToSet(n.list) = ToSet(c.list) \cup {d}
        /\ n.capacity = c.capacity /\ n.size = (c.size + 1) % UintModulus
        /\ Len(n.list) = Len(c.list) + 1
    BY <2>2 DEF Counts
  <2>. QED
    BY <1>2, <2>3 DEF Follows, n
<1>. QED
  BY <1>1, <1>2

\* The cache after an executed edit.
LEMMA EditedCacheMatches ==
  ASSUME NEW s, Matches(s.cache), NEW d \in Docs, NEW x \in Contents
  PROVE  /\ Matches(EditedCache(s, d, x))
         /\ ToSet(EditedCache(s, d, x).list) \subseteq ToSet(s.cache.list) \cup {d}
         /\ Follows(s.cache, EditedCache(s, d, x))
<1>. DEFINE c == s.cache
            t == Touch(c, d)
            n == EditedCache(s, d, x)
<1>1. CASE ~Cached(c, d)
  BY <1>1, AdmitMatches DEF EditedCache
<1>2. CASE Cached(c, d)
  <2>1. /\ Matches(t) /\ ToSet(t.list) = ToSet(c.list) /\ Len(t.list) = Len(c.list)
        /\ t.bucket = c.bucket /\ t.capacity = c.capacity /\ t.size = c.size
    BY <1>2, TouchMatches
  <2>2. n = [t EXCEPT !.bucket[d] = x]
    BY <1>2 DEF EditedCache
  <2>3. c.bucket[d] # NoContent
    BY <1>2 DEF Cached, LruCacheGet
  <2>. HIDE DEF c, t, n
  <2>4. t \in LruCache
    BY <2>1 DEF Matches
  <2>5. /\ n \in LruCache /\ n.list = t.list /\ n.size = c.size
        /\ n.capacity = c.capacity /\ n.bucket = [t.bucket EXCEPT ![d] = x]
    BY <2>1, <2>2, <2>4 DEF LruCache
  <2>6. /\ n.bucket[d] = x
        /\ \A e \in Docs \ {d} : n.bucket[e] = t.bucket[e]
    BY <2>4, <2>5 DEF LruCache
  <2>7. {e \in Docs : Cached(n, e)} = {e \in Docs : Cached(t, e)}
    BY <2>1, <2>3, <2>6, NullAssumption DEF Cached, LruCacheGet
  <2>8. Matches(n)
    BY <2>1, <2>5, <2>7 DEF Matches
  <2>9. Follows(c, n)
    BY <2>1, <2>5 DEF Follows
  <2>. QED
    BY <2>1, <2>5, <2>8, <2>9 DEF n, c
<1>. QED
  BY <1>1, <1>2

\* A new server.
LEMMA InitServerOK ==
  ASSUME NEW cap \in 0 .. UintModulus - 1
  PROVE  /\ ServerOK(InitServer(cap))
         /\ InitServer(cap).cache = InitLruCache(cap)
         /\ InitServer(cap).queue = <<>>
         /\ \A d \in Docs : InitServer(cap).db[d] = <<>>
<1>. DEFINE c == InitLruCache(cap)
            x == InitServer(cap)
<1>1. WellFormed(c) /\ c.list = <<>>
  BY InitLruCacheWellFormed DEF InitLruCache
<1>2. Matches(c) /\ c \in LruCache /\ ToSet(c.list) = {}
  BY <1>1 DEF WellFormed, Matches, ToSet
<1>3. x = [cache |-> c, db |-> [d \in Docs |-> <<>>], queue |-> <<>>]
  BY DEF InitServer
<1>4. <<>> \in Seq(Contents) /\ <<>> \in Seq(Task)
  OBVIOUS
<1>. HIDE DEF c, x
<1>5. x \in ServerState
  BY <1>2, <1>3, <1>4 DEF ServerState, Database
<1>6. x.cache = c /\ x.queue = <<>> /\ \A d \in Docs : x.db[d] = <<>>
  BY <1>3
<1>. QED
  BY <1>2, <1>5, <1>6 DEF ServerOK, x, c

\* An edit replaces at most the entry the database looks up first.
LEMMA EditedDatabaseTexts ==
  ASSUME NEW s, s.db \in Database, NEW d \in Docs, NEW x \in Contents,
         Cached(s.cache, d) => InDatabase(s.db, d)
  PROVE  LET n == EditedDatabase(s, d, x)
         IN  /\ n \in Database
             /\ x \in ToSet(n[d])
             /\ ToSet(n[d]) \subseteq ToSet(s.db[d]) \cup {x}
             /\ \A e \in Docs \ {d} : n[e] = s.db[e]
<1>. DEFINE q == s.db[d]
            n == EditedDatabase(s, d, x)
<1>1. s.db \in [Docs -> Seq(Contents)] /\ q \in Seq(Contents) /\ Len(q) \in Nat
      /\ ToSet(q) = {q[i] : i \in 1 .. Len(q)}
  BY IndicesOfSeq DEF Database
<1>2. /\ n \in Database
      /\ \A e \in Docs \ {d} : n[e] = s.db[e]
  BY EditedDatabaseStores
<1>3. CASE InDatabase(s.db, d)
  <2>. DEFINE r == [q EXCEPT ![1] = x]
  <2>1. 1 \in 1 .. Len(q)
    BY <1>1, <1>3, EmptySeq DEF InDatabase
  <2>2. /\ r \in Seq(Contents) /\ Len(r) = Len(q)
        /\ \A j \in 1 .. Len(q) : r[j] = IF j = 1 THEN x ELSE q[j]
    BY <1>1, <2>1, ExceptSeq
  <2>3. n = [s.db EXCEPT ![d] = r]
    BY <1>1, <1>3 DEF EditedDatabase, Overwrite
  <2>4. n[d] = r
    BY <1>1, <2>3
  <2>. HIDE DEF r
  <2>5. ToSet(r) = {r[i] : i \in 1 .. Len(q)}
    BY <2>2, IndicesOfSeq
  <2>6. x \in ToSet(r)
    BY <2>1, <2>2, <2>5
  <2>7. ToSet(r) \subseteq ToSet(q) \cup {x}
    BY <1>1, <2>2, <2>5
  <2>. QED
    BY <1>2, <2>4, <2>6, <2>7
<1>4. CASE ~InDatabase(s.db, d)
  <2>. DEFINE o == <<x>>
              r == o \o q
  <2>1. n = [s.db EXCEPT ![d] = r]
    BY <1>4 DEF EditedDatabase, AddEntry, Cons
  <2>2. n[d] = r
    BY <1>1, <2>1
  <2>3. o \in Seq(Contents) /\ ToSet(o) = {x}
    BY DEF ToSet
  <2>. HIDE DEF q, o
  <2>4. ToSet(r) = ToSet(o) \cup ToSet(q)
    BY <1>1, <2>3, ConcatElements
  <2>. HIDE DEF r
  <2>. QED
    BY <1>2, <2>2, <2>3, <2>4 DEF q
<1>. QED
  BY <1>3, <1>4

\* What a lookup returns.
LEMMA DatabaseGetEntryType ==
  ASSUME NEW db \in Database, NEW d \in Docs
  PROVE  /\ DatabaseGetEntry(db, d) \in Contents \cup {NoContent}
         /\ InDatabase(db, d) <=> DatabaseGetEntry(db, d) # NoContent
<1>1. db[d] \in Seq(Contents)
  BY DEF Database
<1>2. CASE InDatabase(db, d)
  <2>1. Head(db[d]) \in Contents
    BY <1>1, <1>2, HeadTailProperties DEF InDatabase
  <2>. QED
    BY <1>2, <2>1, NullAssumption DEF DatabaseGetEntry
<1>3. CASE ~InDatabase(db, d)
  BY <1>3 DEF DatabaseGetEntry
<1>. QED
  BY <1>2, <1>3

\* What is printed.
LEMMA ReplyTypes ==
  ASSUME NEW d \in Docs, NEW x \in Contents \cup {NoContent}
  PROVE  /\ Text(d, x) \in Reply /\ NoReply \in Reply
         /\ Queued(d) \in Reply /\ Overridden(d) \in Reply /\ Created(d) \in Reply
BY DEF Text, NoReply, Queued, Overridden, Created, Message, Reply

\* What executing a task changes.
LEMMA ExecuteOldestFields ==
  ASSUME NEW s \in ServerState
  PROVE  LET d == Oldest(s).doc
             x == Oldest(s).content
             n == ExecuteOldest(s)
         IN  /\ n.db = EditedDatabase(s, d, x)
             /\ n.cache = EditedCache(s, d, x)
             /\ n.queue = Tail(s.queue)
             /\ n = [cache |-> n.cache, db |-> n.db, queue |-> n.queue]
<1>. DEFINE c == EditedCache(s, Oldest(s).doc, Oldest(s).content)
            db == EditedDatabase(s, Oldest(s).doc, Oldest(s).content)
            n == ExecuteOldest(s)
<1>1. n = [EditDocument(s, Oldest(s).doc, Oldest(s).content) EXCEPT !.queue = Tail(@)]
  BY DEF ExecuteOldest
<1>2. EditDocument(s, Oldest(s).doc, Oldest(s).content) = [s EXCEPT !.db = db, !.cache = c]
  BY DEF EditDocument
<1>. HIDE DEF c, db, n
<1>3. n = [cache |-> c, db |-> db, queue |-> Tail(s.queue)]
  BY <1>1, <1>2 DEF ServerState
<1>. QED
  BY <1>3 DEF c, db, n

\* The oldest task.
LEMMA OldestIsTask ==
  ASSUME NEW s \in ServerState, s.queue # <<>>
  PROVE  /\ Oldest(s) \in Task
         /\ Oldest(s).doc \in Docs /\ Oldest(s).content \in Contents
         /\ Tail(s.queue) \in Seq(Task)
<1>1. s.queue \in Seq(Task)
  BY DEF ServerState
<1>2. Oldest(s) \in Task /\ Tail(s.queue) \in Seq(Task)
  BY <1>1, HeadTailProperties DEF Oldest
<1>. QED
  BY <1>2 DEF Task

\* Executing a task leaves the server in order.
LEMMA ExecuteOldestOK ==
  ASSUME NEW s, ServerOK(s), s.queue # <<>>
  PROVE  /\ ServerOK(ExecuteOldest(s))
         /\ Follows(s.cache, ExecuteOldest(s).cache)
         /\ ExecuteReply(s) \in Reply
<1>. DEFINE d == Oldest(s).doc
            x == Oldest(s).content
            c == EditedCache(s, d, x)
            db == EditedDatabase(s, d, x)
            n == ExecuteOldest(s)
<1>1. /\ s \in ServerState /\ s.db \in Database /\ Matches(s.cache)
      /\ d \in Docs /\ x \in Contents /\ Tail(s.queue) \in Seq(Task)
  BY OldestIsTask DEF ServerOK, ServerState
<1>2. /\ n.db = db /\ n.cache = c /\ n.queue = Tail(s.queue)
      /\ n = [cache |-> n.cache, db |-> n.db, queue |-> n.queue]
  BY <1>1, ExecuteOldestFields
<1>3. Cached(s.cache, d) => InDatabase(s.db, d)
  BY <1>1 DEF ServerOK, Matches
<1>. HIDE DEF d, x
<1>4. /\ db \in Database /\ InDatabase(db, d)
      /\ \A e \in Docs \ {d} : db[e] = s.db[e]
  BY <1>1, <1>3, EditedDatabaseStores
<1>5. /\ Matches(c) /\ ToSet(c.list) \subseteq ToSet(s.cache.list) \cup {d}
      /\ Follows(s.cache, c)
  BY <1>1, EditedCacheMatches
<1>6. EditReply(s, d, x) \in Reply
  BY <1>1, ReplyTypes DEF EditReply
<1>. HIDE DEF c, db, n
<1>7. n \in ServerState
  BY <1>1, <1>2, <1>4, <1>5 DEF ServerState, Matches
<1>8. \A e \in ToSet(c.list) : e \in Docs /\ InDatabase(db, e)
  <2>1. \A e \in ToSet(s.cache.list) : e \in Docs /\ InDatabase(s.db, e)
    BY DEF ServerOK, Matches
  <2>. QED
    BY <1>1, <1>4, <1>5, <2>1 DEF InDatabase
<1>9. ServerOK(n)
  BY <1>2, <1>5, <1>7, <1>8 DEF ServerOK
<1>. QED
  BY <1>2, <1>5, <1>6, <1>9 DEF n, d, x, ExecuteReply

\* Reading a document leaves the server in order, its database and its queue.
LEMMA GetDocumentOK ==
  ASSUME NEW s, ServerOK(s), NEW d \in Docs
  PROVE  /\ ServerOK(GetDocument(s, d))
         /\ Follows(s.cache, GetDocument(s, d).cache)
         /\ GetDocument(s, d).db = s.db
         /\ GetDocument(s, d).queue = s.queue
         /\ GetReply(s, d) \in Reply
<1>. DEFINE c == IF Cached(s.cache, d) THEN Touch(s.cache, d)
                 ELSE IF InDatabase(s.db, d)
                      THEN Admit(s.cache, d, DatabaseGetEntry(s.db, d))
                 ELSE s.cache
            n == GetDocument(s, d)
<1>1. /\ s \in ServerState /\ s.db \in Database /\ Matches(s.cache)
      /\ s.cache.bucket \in [Docs -> Contents \cup {NoContent}]
      /\ Cached(s.cache, d) => InDatabase(s.db, d)
  BY DEF ServerOK, ServerState, Matches, LruCache
<1>2. /\ DatabaseGetEntry(s.db, d) \in Contents \cup {NoContent}
      /\ InDatabase(s.db, d) => DatabaseGetEntry(s.db, d) \in Contents
  BY <1>1, DatabaseGetEntryType
<1>3. /\ Matches(c) /\ Follows(s.cache, c)
      /\ ToSet(c.list) \subseteq ToSet(s.cache.list) \cup {d}
      /\ d \in ToSet(c.list) => InDatabase(s.db, d)
  <2>1. CASE Cached(s.cache, d)
    <3>. DEFINE t == Touch(s.cache, d)
    <3>1. /\ Matches(t) /\ ToSet(t.list) = ToSet(s.cache.list)
          /\ Len(t.list) = Len(s.cache.list)
          /\ t.capacity = s.cache.capacity /\ t.size = s.cache.size
      BY <1>1, <2>1, TouchMatches
    <3>2. c = t
      BY <2>1
    <3>. HIDE DEF c, t
    <3>. QED
      BY <1>1, <2>1, <3>1, <3>2 DEF Follows
  <2>2. CASE ~Cached(s.cache, d) /\ InDatabase(s.db, d)
    BY <1>1, <1>2, <2>2, AdmitMatches
  <2>3. CASE ~Cached(s.cache, d) /\ ~InDatabase(s.db, d)
    <3>1. c = s.cache
      BY <2>3
    <3>. HIDE DEF c
    <3>. QED
      BY <1>1, <2>3, <3>1 DEF Follows, Matches
  <2>. QED
    BY <2>1, <2>2, <2>3
<1>4. n = [s EXCEPT !.cache = c]
  BY DEF GetDocument
<1>5. GetReply(s, d) \in Reply
  <2>1. s.cache.bucket[d] \in Contents \cup {NoContent}
    BY <1>1
  <2>. QED
    BY <1>2, <2>1, ReplyTypes DEF GetReply, LruCacheGet
<1>. HIDE DEF c, n
<1>6. c \in LruCache
  BY <1>3 DEF Matches
<1>7. n \in ServerState /\ n.cache = c /\ n.db = s.db /\ n.queue = s.queue
  BY <1>1, <1>4, <1>6 DEF ServerState
<1>8. \A e \in ToSet(c.list) : InDatabase(s.db, e)
  BY <1>3 DEF ServerOK
<1>9. ServerOK(n)
  BY <1>3, <1>7, <1>8 DEF ServerOK
<1>. QED
  BY <1>3, <1>5, <1>7, <1>9 DEF n

\* Queueing an edit leaves the server in order.
LEMMA AddTaskOK ==
  ASSUME NEW s, ServerOK(s), NEW d \in Docs, NEW x \in Contents
  PROVE  /\ ServerOK(AddTaskInQueue(s, d, x))
         /\ AddTaskInQueue(s, d, x).cache = s.cache
         /\ AddTaskInQueue(s, d, x).db = s.db
         /\ AddTaskInQueue(s, d, x).queue = Append(s.queue, [doc |-> d, content |-> x])
<1>. DEFINE t == [doc |-> d, content |-> x]
            n == AddTaskInQueue(s, d, x)
<1>1. s \in ServerState /\ s.queue \in Seq(Task) /\ t \in Task
  BY DEF ServerOK, ServerState, Task
<1>2. n = [s EXCEPT !.queue = Append(@, t)]
  BY DEF AddTaskInQueue
<1>. HIDE DEF t, n
<1>3. Append(s.queue, t) \in Seq(Task)
  BY <1>1, AppendProperties
<1>4. /\ n \in ServerState /\ n.cache = s.cache /\ n.db = s.db
      /\ n.queue = Append(s.queue, t)
  BY <1>1, <1>2, <1>3 DEF ServerState
<1>5. ServerOK(n)
  BY <1>4 DEF ServerOK
<1>. QED
  BY <1>4, <1>5 DEF n, t

\* So does giving it another cache and database that still go together.
LEMMA ReplacedOK ==
  ASSUME NEW s, ServerOK(s),
         NEW c, Matches(c), ToSet(c.list) \subseteq ToSet(s.cache.list),
         NEW db \in Database, \A d \in Docs : InDatabase(s.db, d) => InDatabase(db, d)
  PROVE  ServerOK([cache |-> c, db |-> db, queue |-> s.queue])
<1>. DEFINE n == [cache |-> c, db |-> db, queue |-> s.queue]
<1>1. n.cache = c /\ n.db = db /\ n \in ServerState
  BY DEF ServerOK, ServerState, Matches
<1>. HIDE DEF n
<1>2. \A d \in ToSet(c.list) : InDatabase(db, d)
  <2>1. \A d \in ToSet(s.cache.list) : d \in Docs /\ InDatabase(s.db, d)
    BY DEF ServerOK, Matches
  <2>. QED
    BY <2>1
<1>. QED
  BY <1>1, <1>2 DEF ServerOK, n

\* Cache n comes from c by a use of document d.
Uses(c, n, d) ==
  /\ WellFormed(n) /\ n.capacity = c.capacity
  /\ \/ d \in ToSet(c.list) /\ n.list = Cons(d, RemoveFirst(c.list, d))
     \/ /\ d \notin ToSet(c.list) /\ ~LruCacheIsFull(c)
        /\ n.list = Cons(d, c.list)
     \/ /\ d \notin ToSet(c.list) /\ LruCacheIsFull(c)
        /\ n.list = Front(Cons(d, c.list))

\* Adding a document, a hit and an edit are uses of their document.
LEMMA AdmitUses ==
  ASSUME NEW c, WellFormed(c), c.capacity > 0,
         NEW d \in Docs, ~Cached(c, d), NEW x \in Contents
  PROVE  Uses(c, Admit(c, d, x), d)
<1>. DEFINE n == Admit(c, d, x)
<1>1. /\ Matches(c) /\ c.list \in Seq(Docs) /\ d \notin ToSet(c.list)
      /\ c.size = Len(c.list)
      /\ c.capacity \in Nat
  BY UintAssumption DEF WellFormed, Matches, LruCache
<1>2. WellFormed(n) /\ n.capacity = c.capacity
  BY AdmitStores DEF Stores
<1>3. CASE ~LruCacheIsFull(c)
  <2>1. n = LruCachePut(c, d, x, NoDoc)
    BY <1>3 DEF Admit
  <2>. HIDE DEF n
  <2>2. Counts(c, n, d, x)
    BY <1>1, <2>1, PutCounts
  <2>. QED
    BY <1>1, <1>2, <1>3, <2>2 DEF Counts, Uses, n
<1>4. CASE LruCacheIsFull(c)
  <2>1. c.list # <<>>
    <3>1. Len(c.list) # 0
      BY <1>1, <1>4 DEF LruCacheIsFull
    <3>. QED
      BY <1>1, <3>1, EmptySeq
  <2>2. n = LruCachePut(c, d, x, Last(c.list))
    BY <1>4, <2>1 DEF Admit, FindEvictedKey
  <2>. HIDE DEF n
  <2>3. Replaces(c, n, d, x, Last(c.list))
    BY <1>1, <2>1, <2>2, PutReplaces
  <2>. QED
    BY <1>1, <1>2, <1>4, <2>3 DEF Replaces, Uses, n
<1>. QED
  BY <1>3, <1>4

\* A document that is read becomes the most recently used one.
LEMMA TouchUses ==
  ASSUME NEW c, WellFormed(c), NEW d \in Docs, Cached(c, d)
  PROVE  Uses(c, Touch(c, d), d)
<1>1. Matches(c) /\ d \in ToSet(c.list)
  BY DEF WellFormed, Matches
<1>2. /\ Touch(c, d).list = Cons(d, RemoveFirst(c.list, d))
      /\ Touch(c, d).capacity = c.capacity
  BY <1>1, TouchMatches
<1>3. WellFormed(Touch(c, d))
  BY TouchWellFormed
<1>. QED
  BY <1>1, <1>2, <1>3 DEF Uses

\* A document whose edit is executed becomes the most recently used one.
LEMMA EditedCacheUses ==
  ASSUME NEW s, WellFormed(s.cache), s.cache.capacity > 0,
         NEW d \in Docs, NEW x \in Contents
  PROVE  Uses(s.cache, EditedCache(s, d, x), d)
<1>. DEFINE c == s.cache
            t == Touch(c, d)
            n == EditedCache(s, d, x)
<1>1. CASE ~Cached(c, d)
  BY <1>1, AdmitUses DEF EditedCache
<1>2. CASE Cached(c, d)
  <2>1. WellFormed(n) /\ n.capacity = c.capacity
    BY EditedCacheStores DEF Stores
  <2>2. Uses(c, t, d)
    BY <1>2, TouchUses
  <2>3. n = [t EXCEPT !.bucket[d] = x]
    BY <1>2 DEF EditedCache
  <2>4. t \in LruCache
    BY <2>2 DEF Uses, WellFormed
  <2>. HIDE DEF c, t, n
  <2>5. n.list = t.list
    BY <2>3, <2>4 DEF LruCache
  <2>. QED
    BY <2>1, <2>2, <2>5 DEF Uses, c, n
<1>. QED
  BY <1>1, <1>2

\* A cached text is the one the database returns.
Coherent(x) == \A d \in Docs :
  Cached(x.cache, d) => LruCacheGet(x.cache, d) = DatabaseGetEntry(x.db, d)

\* A database with no second entry of a document.
Single(db) == \A d \in Docs : Len(db[d]) <= 1

\* Cache n has the text x of document d, and the others as c or not at all.
Holds(c, n, d, x) == /\ n.bucket[d] = x
                     /\ \A e \in Docs \ {d} : n.bucket[e] \in {c.bucket[e], NoContent}

\* A document that is admitted is in the cache with its text, whatever the
\* counter says.
LEMMA AdmitHolds ==
  ASSUME NEW c, Matches(c), NEW d \in Docs, ~Cached(c, d), NEW x \in Contents
  PROVE  Holds(c, Admit(c, d, x), d, x)
<1>. DEFINE n == Admit(c, d, x)
            b == [c.bucket EXCEPT ![d] = x]
            v == Last(c.list)
<1>1. c.bucket \in [Docs -> Contents \cup {NoContent}]
  BY DEF Matches, LruCache
<1>2. n.bucket = b \/ (n.bucket = [b EXCEPT ![v] = NoContent] /\ v # d)
  <2>1. CASE LruCacheIsFull(c) /\ c.list # <<>>
    <3>1. n = LruCachePut(c, d, x, v)
      BY <2>1 DEF Admit, FindEvictedKey
    <3>. HIDE DEF n
    <3>2. Replaces(c, n, d, x, v)
      BY <2>1, <3>1, PutReplaces
    <3>. QED
      BY <3>2 DEF Replaces
  <2>2. CASE ~LruCacheIsFull(c) \/ c.list = <<>>
    <3>1. n = LruCachePut(c, d, x, NoDoc)
      BY <2>2 DEF Admit, FindEvictedKey
    <3>. HIDE DEF n
    <3>. QED
      BY <3>1, PutCounts DEF Counts
  <2>. QED
    BY <2>1, <2>2
<1>. HIDE DEF n, v
<1>. QED
  BY <1>1, <1>2 DEF Holds, n

\* So is one whose edit is executed.
LEMMA EditedCacheHolds ==
  ASSUME NEW s, Matches(s.cache), NEW d \in Docs, NEW x \in Contents
  PROVE  Holds(s.cache, EditedCache(s, d, x), d, x)
<1>. DEFINE c == s.cache
            t == Touch(c, d)
<1>1. CASE ~Cached(c, d)
  BY <1>1, AdmitHolds DEF EditedCache
<1>2. CASE Cached(c, d)
  <2>1. t \in LruCache /\ t.bucket = c.bucket
    BY <1>2, TouchMatches DEF Matches
  <2>2. EditedCache(s, d, x) = [t EXCEPT !.bucket[d] = x]
    BY <1>2 DEF EditedCache
  <2>. HIDE DEF c, t
  <2>. QED
    BY <2>1, <2>2 DEF Holds, LruCache, c
<1>. QED
  BY <1>1, <1>2

\* An edit overwrites the one entry of its document, or adds the first.
LEMMA EditedDatabaseSingle ==
  ASSUME NEW s, s.db \in Database, NEW d \in Docs, NEW x \in Contents, Single(s.db)
  PROVE  Single(EditedDatabase(s, d, x))
<1>. DEFINE db == s.db
            q == db[d]
            n == EditedDatabase(s, d, x)
<1>1. db \in [Docs -> Seq(Contents)] /\ q \in Seq(Contents) /\ Len(q) <= 1 /\ Len(q) \in Nat
  BY DEF Database, Single
<1>2. Len([q EXCEPT ![1] = x]) = Len(q)
  BY <1>1
<1>3. q = <<>> => Len(Cons(x, q)) = 1
  <2>1. Len(Cons(x, q)) = Len(q) + 1
    BY <1>1, ConsProperties
  <2>. QED
    BY <1>1, <2>1
<1>4. n \in {db, [db EXCEPT ![d] = [q EXCEPT ![1] = x]]} \/ (q = <<>> /\ n = [db EXCEPT ![d] = Cons(x, q)])
  BY DEF EditedDatabase, Overwrite, AddEntry, InDatabase
<1>. HIDE DEF n, q
<1>5. Len(n[d]) <= 1
  <2>1. n[d] \in {q, [q EXCEPT ![1] = x]} \/ (q = <<>> /\ n[d] = Cons(x, q))
    BY <1>1, <1>4 DEF q
  <2>2. CASE n[d] = q
    BY <1>1, <2>2
  <2>3. CASE n[d] = [q EXCEPT ![1] = x]
    BY <1>1, <1>2, <2>3
  <2>4. CASE q = <<>> /\ n[d] = Cons(x, q)
    <3>. DEFINE m == Cons(x, q)
    <3>1. Len(m) = 1 /\ n[d] = m
      BY <1>3, <2>4
    <3>. HIDE DEF m
    <3>2. Len(n[d]) = 1
      BY <3>1, Zenon
    <3>. QED
      BY <3>2
  <2>. QED
    BY <2>1, <2>2, <2>3, <2>4
<1>6. \A e \in Docs \ {d} : n[e] = db[e]
  BY <1>1, <1>4
<1>. QED
  BY <1>5, <1>6 DEF Single, n

\* Executing an edit keeps the cache and the database of a server coherent.
LEMMA ExecuteOldestCoherent ==
  ASSUME NEW s, ServerOK(s), s.queue # <<>>
  PROVE  /\ Coherent(s) => Coherent(ExecuteOldest(s))
         /\ Single(s.db) => Single(ExecuteOldest(s).db)
         /\ DatabaseGetEntry(ExecuteOldest(s).db, Oldest(s).doc) = Oldest(s).content
         /\ \A e \in Docs \ {Oldest(s).doc} : ExecuteOldest(s).db[e] = s.db[e]
         /\ ExecuteOldest(s).queue = Tail(s.queue)
<1>. DEFINE d == Oldest(s).doc
            x == Oldest(s).content
            n == ExecuteOldest(s)
            c == EditedCache(s, d, x)
            db == EditedDatabase(s, d, x)
<1>1. /\ s \in ServerState /\ s.db \in Database /\ Matches(s.cache)
      /\ d \in Docs /\ x \in Contents
      /\ Cached(s.cache, d) => InDatabase(s.db, d)
  BY OldestIsTask DEF ServerOK, ServerState, Matches
<1>2. n.db = db /\ n.cache = c /\ n.queue = Tail(s.queue)
  BY <1>1, ExecuteOldestFields
<1>. HIDE DEF d, x
<1>3. /\ DatabaseGetEntry(db, d) = x
      /\ \A e \in Docs \ {d} : db[e] = s.db[e]
  BY <1>1, EditedDatabaseStores
<1>4. Holds(s.cache, c, d, x)
  BY <1>1, EditedCacheHolds
<1>5. Single(s.db) => Single(db)
  BY <1>1, EditedDatabaseSingle
<1>. HIDE DEF c, db, n
<1>6. ASSUME Coherent(s), NEW e \in Docs, Cached(n.cache, e)
      PROVE  LruCacheGet(n.cache, e) = DatabaseGetEntry(n.db, e)
  <2>1. CASE e = d
    BY <1>2, <1>3, <1>4, <2>1 DEF Holds, LruCacheGet
  <2>2. CASE e # d
    <3>1. c.bucket[e] = s.cache.bucket[e] /\ Cached(s.cache, e)
      BY <1>2, <1>4, <1>6, <2>2 DEF Holds, Cached, LruCacheGet
    <3>2. LruCacheGet(s.cache, e) = DatabaseGetEntry(s.db, e)
      BY <1>6, <3>1 DEF Coherent
    <3>. QED
      BY <1>2, <1>3, <2>2, <3>1, <3>2 DEF LruCacheGet, DatabaseGetEntry, InDatabase
  <2>. QED
    BY <2>1, <2>2
<1>7. Coherent(s) => Coherent(n)
  BY <1>6 DEF Coherent
<1>. QED
  BY <1>2, <1>3, <1>5, <1>7 DEF n, d, x

\* Reading a document keeps them coherent and answers with the database's text.
LEMMA GetDocumentCoherent ==
  ASSUME NEW s, ServerOK(s), NEW d \in Docs, Coherent(s)
  PROVE  /\ Coherent(GetDocument(s, d))
         /\ GetReply(s, d) = Text(d, DatabaseGetEntry(s.db, d))
<1>. DEFINE g == DatabaseGetEntry(s.db, d)
            c == IF Cached(s.cache, d) THEN Touch(s.cache, d)
                 ELSE IF InDatabase(s.db, d) THEN Admit(s.cache, d, g)
                 ELSE s.cache
            n == GetDocument(s, d)
<1>1. /\ s \in ServerState /\ s.db \in Database /\ Matches(s.cache)
  BY DEF ServerOK, ServerState
<1>2. InDatabase(s.db, d) => g \in Contents
  BY <1>1, DatabaseGetEntryType
<1>3. n = [s EXCEPT !.cache = c]
  BY DEF GetDocument
<1>4. c.bucket = s.cache.bucket \/ Holds(s.cache, c, d, g)
  <2>1. CASE Cached(s.cache, d)
    BY <1>1, <2>1, TouchMatches
  <2>2. CASE ~Cached(s.cache, d) /\ InDatabase(s.db, d)
    <3>. HIDE DEF g
    <3>1. Holds(s.cache, Admit(s.cache, d, g), d, g)
      BY <1>1, <1>2, <2>2, AdmitHolds
    <3>. QED
      BY <2>2, <3>1
  <2>. QED
    BY <2>1, <2>2
<1>. HIDE DEF c, n
<1>5. n.cache = c /\ n.db = s.db
  BY <1>1, <1>3 DEF ServerState
<1>6. ASSUME NEW e \in Docs, Cached(c, e)
      PROVE  LruCacheGet(c, e) = DatabaseGetEntry(s.db, e)
  <2>1. CASE c.bucket[e] = s.cache.bucket[e]
    BY <1>6, <2>1 DEF Coherent, Cached, LruCacheGet
  <2>2. CASE c.bucket[e] # s.cache.bucket[e]
    BY <1>4, <1>6, <2>2 DEF Holds, Cached, LruCacheGet
  <2>. QED
    BY <2>1, <2>2
<1>7. Coherent(n)
  BY <1>5, <1>6 DEF Coherent
<1>8. GetReply(s, d) = Text(d, g)
  BY DEF GetReply, Coherent
<1>. QED
  BY <1>7, <1>8 DEF n
=============================================================================
