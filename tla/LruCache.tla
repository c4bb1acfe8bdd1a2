------------------------------ MODULE LruCache ------------------------------
(***************************************************************************)
(* The cache of one server (lru_cache.c), as operators on its state:       *)
(*   capacity, size   the limit and the number of entries the code counts; *)
(*                    size is an unsigned int and wraps at UintModulus     *)
(*   list             the document names in order of use, latest first     *)
(*   bucket           the hash table: the text stored for every document,  *)
(*                    NoContent for one that has no entry                  *)
(* The code looks a document up in the hash table and evicts by the list:  *)
(* the two are separate structures that every operation must keep in step. *)
(* A put follows a failed lookup, so the table has at most one entry of a  *)
(* document and a function represents it.                                  *)
(***************************************************************************)
EXTENDS Replies, Integers, Sequences, SequencesExt

CONSTANT UintModulus   \* one more than the largest unsigned int

ASSUME UintAssumption == UintModulus \in Nat \ {0}

LruCache == [capacity : 0 .. UintModulus - 1,
             size     : 0 .. UintModulus - 1,
             list     : Seq(Docs),
             bucket   : [Docs -> Contents \cup {NoContent}]]

InitLruCache(cap) == [capacity |-> cap,
                      size     |-> 0,
                      list     |-> <<>>,
                      bucket   |-> [d \in Docs |-> NoContent]]

LruCacheIsFull(c) == c.capacity = c.size

LruCacheGet(c, d) == c.bucket[d]

Cached(c, d) == LruCacheGet(c, d) # NoContent

FindEvictedKey(c) == IF c.list = <<>> THEN NoDoc ELSE Last(c.list)

LruCacheRemove(c, d) == [c EXCEPT !.bucket[d] = NoContent]

\* Faulty variant: the evicted key's node stays in the list.
LruCachePutKeepingTail(c, d, x, evicted) ==
  IF evicted = NoDoc
  THEN [c EXCEPT !.list = Cons(d, @),
                 !.bucket[d] = x,
                 !.size = (@ + 1) % UintModulus]
  ELSE LruCacheRemove([c EXCEPT !.list = Cons(d, @), !.bucket[d] = x], evicted)

\* With a key to evict, the entry of that key leaves the table and whatever
\* node is then the last leaves the list; without one, the entry is counted.
LruCachePut(c, d, x, evicted) ==
  IF evicted = NoDoc
  THEN [c EXCEPT !.list = Cons(d, @),
                 !.bucket[d] = x,
                 !.size = (@ + 1) % UintModulus]
  ELSE LruCacheRemove([c EXCEPT !.list = Front(Cons(d, @)), !.bucket[d] = x],
                      evicted)

\* Faulty variant: every entry that is added evicts the last one.
AdmitEvicting(c, d, x) == LruCachePut(c, d, x, FindEvictedKey(c))

\* How every caller adds an entry: it evicts the last one of a full cache.
Admit(c, d, x) ==
  LruCachePut(c, d, x, IF LruCacheIsFull(c) THEN FindEvictedKey(c) ELSE NoDoc)

\* Faulty variant: a hit does not reorder the list.
TouchNothing(c, d) == c

\* A hit moves the document's node to the head of the list, if it is there.
Touch(c, d) == IF d \in ToSet(c.list)
               THEN [c EXCEPT !.list = Cons(d, RemoveFirst(@, d))]
               ELSE c
=============================================================================
