------------------------- MODULE LoadBalancerProofs -------------------------
(***************************************************************************)
(* The ring of the load balancer stays sorted, the caches of its servers   *)
(* stay consistent and evict only when they are full, whatever servers     *)
(* join and leave. First what the operators on the ring and on a server's  *)
(* state return, then what every action does, then the invariants.         *)
(*                                                                         *)
(* Queued EDITs wait where a GET of their document looks for them, they    *)
(* are executed in the order of their arrival and none is forgotten, as    *)
(* long as the counter of servers is in step with the ring.  Where servers *)
(* only join, the caches stay coherent with the databases and the servers  *)
(* together implement one store of documents.                              *)
(***************************************************************************)
EXTENDS LoadBalancer, ServerOpsProofs

\* Subtracting from the counter wraps below zero.
LEMMA Wraps ==
  ASSUME NEW m \in Nat, NEW z \in 0 .. m - 1, NEW n \in 0 .. m - 1
  PROVE  (z - n) % m = IF z >= n THEN z - n ELSE z - n + m
<1>1. CASE z >= n
  BY <1>1, NoWrap
<1>2. CASE z < n
  BY <1>2
<1>. QED
  BY <1>1, <1>2

\* The documents a joining server takes, which keep their copies behind.
LEMMA GivingCacheOK ==
  ASSUME NEW x, ServerOK(x), NEW S \in SUBSET Docs, NEW n \in Nat
  PROVE  LET c == GivingCache(x.cache, S, n)
         IN  /\ Matches(c)
             /\ ToSet(c.list) = ToSet(x.cache.list) \ S
             /\ c.capacity = x.cache.capacity
             /\ c.size = (x.cache.size - n) % UintModulus
<1>. DEFINE l == Keep(x.cache.list, Docs \ S)
            b == [d \in Docs |-> IF d \in S THEN NoContent ELSE x.cache.bucket[d]]
            z == (x.cache.size - n) % UintModulus
            c == GivingCache(x.cache, S, n)
<1>1. /\ x.cache \in LruCache /\ x.cache.list \in Seq(Docs) /\ IsInjective(x.cache.list)
      /\ x.cache.bucket \in [Docs -> Contents \cup {NoContent}]
      /\ x.cache.size \in 0 .. UintModulus - 1
      /\ ToSet(x.cache.list) = {d \in Docs : Cached(x.cache, d)}
  BY DEF ServerOK, Matches, LruCache
<1>2. /\ l \in Seq(Docs) /\ IsInjective(l)
      /\ ToSet(l) = ToSet(x.cache.list) \cap (Docs \ S)
  BY <1>1, KeepProperties
<1>3. c = [x.cache EXCEPT !.list = l, !.bucket = b, !.size = z]
  BY DEF GivingCache
<1>4. b \in [Docs -> Contents \cup {NoContent}]
  BY <1>1
<1>5. z \in 0 .. UintModulus - 1
  BY <1>1, UintAssumption
<1>6. \A d \in Docs : b[d] = IF d \in S THEN NoContent ELSE x.cache.bucket[d]
  OBVIOUS
<1>. HIDE DEF l, b, z, c
<1>7. /\ c \in LruCache /\ c.list = l /\ c.bucket = b /\ c.size = z
      /\ c.capacity = x.cache.capacity
  BY <1>1, <1>2, <1>3, <1>4, <1>5 DEF LruCache
<1>8. {d \in Docs : Cached(c, d)} = {d \in Docs : Cached(x.cache, d)} \ S
  BY <1>6, <1>7 DEF Cached, LruCacheGet
<1>9. ToSet(l) = ToSet(x.cache.list) \ S
  BY <1>1, <1>2
<1>10. Matches(c)
  BY <1>1, <1>2, <1>7, <1>8, <1>9 DEF Matches
<1>. QED
  BY <1>7, <1>9, <1>10 DEF c, z

\* Copying entries into a database adds their texts and takes none away.
LEMMA AddAllOK ==
  ASSUME NEW db \in Database, NEW from \in Database, NEW S \in SUBSET Docs
  PROVE  /\ AddAll(db, from, S) \in Database
         /\ \A d \in S : ToSet(AddAll(db, from, S)[d]) = ToSet(from[d]) \cup ToSet(db[d])
         /\ \A d \in Docs \ S : AddAll(db, from, S)[d] = db[d]
         /\ \A d \in Docs : InDatabase(db, d) => InDatabase(AddAll(db, from, S), d)
<1>. DEFINE n == AddAll(db, from, S)
<1>1. \A d \in Docs : db[d] \in Seq(Contents) /\ from[d] \in Seq(Contents)
  BY DEF Database
<1>2. n = [d \in Docs |-> IF d \in S THEN Reverse(from[d]) \o db[d] ELSE db[d]]
  BY DEF AddAll
<1>. HIDE DEF n
<1>3. ASSUME NEW d \in S
      PROVE  /\ n[d] \in Seq(Contents)
             /\ ToSet(n[d]) = ToSet(from[d]) \cup ToSet(db[d])
             /\ InDatabase(db, d) => InDatabase(n, d)
  <2>. DEFINE r == Reverse(from[d])
              o == db[d]
  <2>1. r \in Seq(Contents) /\ ToSet(r) = ToSet(from[d]) /\ o \in Seq(Contents)
    BY <1>1, ReverseProperties
  <2>2. n[d] = r \o o
    BY <1>2
  <2>. HIDE DEF r
  <2>3. r \o o \in Seq(Contents) /\ ToSet(r \o o) = ToSet(r) \cup ToSet(o)
    BY <2>1, ConcatElements
  <2>4. r \o o = <<>> => o = <<>>
    BY <2>1, ConcatSimplifications
  <2>. QED
    BY <2>1, <2>2, <2>3, <2>4 DEF InDatabase
<1>4. ASSUME NEW d \in Docs \ S
      PROVE  n[d] = db[d]
  BY <1>2
<1>5. \A d \in Docs : n[d] \in Seq(Contents)
  BY <1>1, <1>3, <1>4
<1>6. n \in Database
  BY <1>2, <1>5 DEF Database
<1>. QED
  BY <1>3, <1>4, <1>6 DEF n, InDatabase

\* A list of server tags as the code keeps it.
Ascending(ring) == \A i, j \in DOMAIN ring : i < j => Before(ring[i], ring[j])

\* Tags are ordered by their hashes, which differ.
LEMMA BeforeIsHashOrder ==
  ASSUME NEW s \in ServerIds, NEW t \in ServerIds
  PROVE  /\ Before(s, t) <=> ServerHash[s] < ServerHash[t]
         /\ ServerHash[s] \in Nat /\ ServerHash[t] \in Nat
         /\ s # t => ServerHash[s] # ServerHash[t]
<1>1. ServerHash[s] \in Nat /\ ServerHash[t] \in Nat
  BY LoadBalancerAssumption
<1>2. ServerHash[s] = ServerHash[t] => s = t
  BY LoadBalancerAssumption
<1>3. s \in Nat
  BY LoadBalancerAssumption
<1>. QED
  BY <1>1, <1>2, <1>3 DEF Before

\* The server of a hash h on a ring of the servers L: the first one whose hash
\* is at least h, or the very first one.
Owns(L, t, h) ==
  /\ t \in L
  /\ \/ ServerHash[t] >= h /\ \A u \in L : ServerHash[u] >= h => ServerHash[t] <= ServerHash[u]
     \/ \A u \in L : ServerHash[u] < h /\ ServerHash[t] <= ServerHash[u]

\* One server owns a hash.
LEMMA OwnsUnique ==
  ASSUME NEW L \in SUBSET ServerIds, NEW h \in Nat,
         NEW t, Owns(L, t, h), NEW u, Owns(L, u, h)
  PROVE  t = u
<1>1. /\ t \in L /\ u \in L /\ \A v \in L : ServerHash[v] \in Nat
      /\ ServerHash[t] = ServerHash[u] => t = u
  BY LoadBalancerAssumption DEF Owns
<1>2. ServerHash[t] <= ServerHash[u] /\ ServerHash[u] <= ServerHash[t]
  BY <1>1 DEF Owns
<1>. QED
  BY <1>1, <1>2

\* The first selected position of a ring.
LEMMA AscendingFirst ==
  ASSUME NEW ring \in Seq(ServerIds), ring # <<>>, Ascending(ring),
         NEW h \in Nat, NEW I, I = {i \in 1 .. Len(ring) : ServerHash[ring[i]] >= h},
         NEW k, k = IF I # {} THEN Min(I) ELSE 0
  PROVE  Owns(ToSet(ring), ring[IF k = 0 THEN 1 ELSE k], h)
<1>1. /\ Len(ring) \in Nat /\ Len(ring) > 0 /\ DOMAIN ring = 1 .. Len(ring)
      /\ ToSet(ring) = {ring[i] : i \in 1 .. Len(ring)} /\ ToSet(ring) \subseteq ServerIds
      /\ \A i \in 1 .. Len(ring) : ring[i] \in ServerIds
  BY IndicesOfSeq, EmptySeq, ElementOfSeq
<1>2. /\ \A i \in 1 .. Len(ring) : ServerHash[ring[i]] \in Nat
      /\ \A i, j \in 1 .. Len(ring) : i < j => ServerHash[ring[i]] < ServerHash[ring[j]]
  BY <1>1, BeforeIsHashOrder DEF Ascending
<1>3. CASE I # {}
  <2>1. I \in SUBSET Nat
    BY <1>1
  <2>2. k \in I /\ \A y \in I : k <= y
    BY <1>3, <2>1, MinIsLeast
  <2>3. k \in 1 .. Len(ring) /\ ServerHash[ring[k]] >= h /\ k # 0
    BY <2>2
  <2>4. ASSUME NEW i \in 1 .. Len(ring), ServerHash[ring[i]] >= h
        PROVE  ServerHash[ring[k]] <= ServerHash[ring[i]]
    <3>1. i \in I /\ i \in Nat /\ k \in Nat
      BY <1>1, <2>3, <2>4
    <3>2. k <= i
      BY <2>2, <3>1
    <3>3. CASE k = i
      BY <1>2, <3>3
    <3>4. CASE k < i
      <4>1. ServerHash[ring[k]] < ServerHash[ring[i]]
        BY <1>2, <2>3, <3>4
      <4>2. ServerHash[ring[k]] \in Nat /\ ServerHash[ring[i]] \in Nat
        BY <1>2, <2>3
      <4>. QED
        BY <4>1, <4>2
    <3>. QED
      BY <3>1, <3>2, <3>3, <3>4
  <2>. QED
    BY <1>1, <2>3, <2>4 DEF Owns
<1>4. CASE I = {}
  <2>1. k = 0 /\ 1 \in 1 .. Len(ring)
    BY <1>1, <1>4
  <2>2. \A i \in 1 .. Len(ring) : ServerHash[ring[i]] < h
    BY <1>2, <1>4
  <2>3. \A i \in 1 .. Len(ring) : ServerHash[ring[1]] <= ServerHash[ring[i]]
    BY <1>2, <2>1
  <2>. QED
    BY <1>1, <2>1, <2>2, <2>3 DEF Owns
<1>. QED
  BY <1>3, <1>4

\* An ascending ring has no server twice.
LEMMA AscendingInjective ==
  ASSUME NEW ring \in Seq(ServerIds), Ascending(ring)
  PROVE  /\ IsInjective(ring)
         /\ Len(ring) \in Nat /\ DOMAIN ring = 1 .. Len(ring)
         /\ ToSet(ring) = {ring[i] : i \in 1 .. Len(ring)}
         /\ ToSet(ring) \subseteq ServerIds
         /\ \A i \in 1 .. Len(ring) : ring[i] \in ServerIds /\ ServerHash[ring[i]] \in Nat
         /\ \A i, j \in 1 .. Len(ring) : i < j => ServerHash[ring[i]] < ServerHash[ring[j]]
<1>1. /\ Len(ring) \in Nat /\ DOMAIN ring = 1 .. Len(ring)
      /\ ToSet(ring) = {ring[i] : i \in 1 .. Len(ring)} /\ ToSet(ring) \subseteq ServerIds
      /\ \A i \in 1 .. Len(ring) : ring[i] \in ServerIds
  BY IndicesOfSeq, ElementOfSeq
<1>2. \A i \in 1 .. Len(ring) : ServerHash[ring[i]] \in Nat
  BY <1>1, BeforeIsHashOrder
<1>3. \A i, j \in 1 .. Len(ring) : i < j => ServerHash[ring[i]] < ServerHash[ring[j]]
  BY <1>1, BeforeIsHashOrder DEF Ascending
<1>4. ASSUME NEW i \in 1 .. Len(ring), NEW j \in 1 .. Len(ring), ring[i] = ring[j]
      PROVE  i = j
  <2>1. ~(i < j) /\ ~(j < i)
    BY <1>2, <1>3, <1>4
  <2>. QED
    BY <1>1, <2>1
<1>5. IsInjective(ring)
  BY <1>1, <1>4 DEF IsInjective
<1>. QED
  BY <1>1, <1>2, <1>3, <1>5

\* loader_forward_request finds the owner of a document.
LEMMA ServerOfOwns ==
  ASSUME NEW ring \in Seq(ServerIds), ring # <<>>, Ascending(ring), NEW d \in Docs
  PROVE  Owns(ToSet(ring), ServerOf(ring, d), DocHash[d])
<1>. DEFINE I == {i \in 1 .. Len(ring) : ServerHash[ring[i]] >= DocHash[d]}
            k == IF I # {} THEN Min(I) ELSE 0
<1>1. DocHash[d] \in Nat
  BY LoadBalancerAssumption
<1>2. ServerOf(ring, d) = ring[IF k = 0 THEN 1 ELSE k]
  BY DEF ServerOf, FirstTag, SelectInSeq
<1>. HIDE DEF k
<1>3. Owns(ToSet(ring), ring[IF k = 0 THEN 1 ELSE k], DocHash[d])
  BY <1>1, AscendingFirst DEF k
<1>. QED
  BY <1>2, <1>3

\* The neighbour of a server is the owner of the hash behind its own.
LEMMA NextOwns ==
  ASSUME NEW ring \in Seq(ServerIds), ring # <<>>, Ascending(ring), NEW s \in ServerIds
  PROVE  Owns(ToSet(ring), NextOnRing(ring, s), ServerHash[s] + 1)
<1>. DEFINE h == ServerHash[s] + 1
            I == {i \in 1 .. Len(ring) : ServerHash[ring[i]] >= h}
            J == {i \in 1 .. Len(ring) : Before(s, ring[i])}
            k == IF I # {} THEN Min(I) ELSE 0
<1>1. ServerHash[s] \in Nat /\ h \in Nat
  <2>1. ServerHash[s] \in Nat
    BY LoadBalancerAssumption
  <2>. QED
    BY <2>1
<1>2. I = J
  <2>1. \A i \in 1 .. Len(ring) : Before(s, ring[i]) <=> ServerHash[s] < ServerHash[ring[i]]
    BY AscendingInjective, BeforeIsHashOrder
  <2>2. \A i \in 1 .. Len(ring) : ServerHash[ring[i]] \in Nat
    BY AscendingInjective
  <2>. QED
    BY <1>1, <2>1, <2>2
<1>3. NextOnRing(ring, s) = LET i == IF J # {} THEN Min(J) ELSE 0
                            IN  ring[IF i = 0 THEN 1 ELSE i]
  BY DEF NextOnRing, FirstTag, SelectInSeq
<1>. HIDE DEF h, I, J
<1>4. NextOnRing(ring, s) = ring[IF k = 0 THEN 1 ELSE k]
  BY <1>2, <1>3
<1>. HIDE DEF k
<1>5. Owns(ToSet(ring), ring[IF k = 0 THEN 1 ELSE k], h)
  BY <1>1, AscendingFirst DEF k, I
<1>. QED
  BY <1>4, <1>5 DEF h

\* add_node_in_ascending_order keeps the ring ascending.
LEMMA AddTagOK ==
  ASSUME NEW ring \in Seq(ServerIds), Ascending(ring),
         NEW s \in ServerIds, s \notin ToSet(ring)
  PROVE  /\ AddTag(ring, s) \in Seq(ServerIds)
         /\ Ascending(AddTag(ring, s))
         /\ ToSet(AddTag(ring, s)) = ToSet(ring) \cup {s}
         /\ Len(AddTag(ring, s)) = Len(ring) + 1
<1>. DEFINE n == Len(ring)
            J == {i \in 1 .. n : Before(s, ring[i])}
            p == IF J # {} THEN Min(J) ELSE 0
            k == IF p = 0 THEN n + 1 ELSE p
            r == InsertAt(ring, k, s)
<1>1. /\ n \in Nat /\ ToSet(ring) = {ring[i] : i \in 1 .. n}
      /\ \A i \in 1 .. n : ring[i] \in ServerIds
      /\ \A i, j \in 1 .. n : i < j => Before(ring[i], ring[j])
  BY AscendingInjective DEF Ascending
<1>2. AddTag(ring, s) = r
  BY DEF AddTag, SelectInSeq
<1>3. /\ k \in 1 .. n + 1
      /\ \A i \in 1 .. n : i < k => Before(ring[i], s)
      /\ \A i \in 1 .. n : i >= k => Before(s, ring[i])
  <2>1. \A i \in 1 .. n : ~Before(s, ring[i]) => Before(ring[i], s)
    <3>1. \A i \in 1 .. n : ring[i] # s
      BY <1>1
    <3>2. ASSUME NEW i \in 1 .. n, ~Before(s, ring[i])
          PROVE  Before(ring[i], s)
      <4>1. ring[i] \in ServerIds /\ ring[i] # s
        BY <1>1, <3>1
      <4>2. /\ ServerHash[s] \in Nat /\ ServerHash[ring[i]] \in Nat
            /\ ServerHash[s] # ServerHash[ring[i]]
            /\ ~(ServerHash[s] < ServerHash[ring[i]])
        BY <3>2, <4>1, BeforeIsHashOrder
      <4>3. ServerHash[ring[i]] < ServerHash[s]
        BY <4>2
      <4>. QED
        BY <4>1, <4>3, BeforeIsHashOrder
    <3>. QED
      BY <3>2
  <2>2. CASE J # {}
    <3>1. J \in SUBSET Nat
      BY <1>1
    <3>2. p \in J /\ \A y \in J : p <= y
      BY <2>2, <3>1, MinIsLeast
    <3>3. p \in 1 .. n /\ Before(s, ring[p]) /\ k = p
      BY <1>1, <3>2
    <3>4. \A i \in 1 .. n : i < k => Before(ring[i], s)
      <4>1. ASSUME NEW i \in 1 .. n, i < p PROVE i \notin J
        <5>1. i \in Int /\ p \in Int
          BY <1>1, <3>3
        <5>2. ~(p <= i)
          BY <4>1, <5>1
        <5>. QED
          BY <3>2, <5>2
      <4>. HIDE DEF p
      <4>. QED
        BY <2>1, <3>3, <4>1
    <3>5. ASSUME NEW i \in 1 .. n, i >= k PROVE Before(s, ring[i])
      <4>1. i = p \/ p < i
        BY <1>1, <3>3, <3>5
      <4>2. CASE p < i
        <5>1. Before(ring[p], ring[i])
          BY <1>1, <3>3, <4>2
        <5>2. /\ ring[p] \in ServerIds /\ ring[i] \in ServerIds
          BY <1>1, <3>3
        <5>3. /\ ServerHash[s] < ServerHash[ring[p]] /\ ServerHash[ring[p]] < ServerHash[ring[i]]
              /\ ServerHash[s] \in Nat /\ ServerHash[ring[p]] \in Nat
              /\ ServerHash[ring[i]] \in Nat
          BY <3>3, <5>1, <5>2, BeforeIsHashOrder
        <5>4. ServerHash[s] < ServerHash[ring[i]]
          BY <5>3, SMTT(30)
        <5>. QED
          BY <5>2, <5>4, BeforeIsHashOrder
      <4>. QED
        BY <3>3, <4>1, <4>2
    <3>. HIDE DEF p, k
    <3>6. k \in 1 .. n + 1
      BY <1>1, <3>3
    <3>. QED
      BY <3>4, <3>5, <3>6
  <2>3. CASE J = {}
    <3>1. k = n + 1
      BY <2>3
    <3>. HIDE DEF k
    <3>. QED
      BY <1>1, <2>1, <2>3, <3>1
  <2>. QED
    BY <2>2, <2>3
<1>. HIDE DEF k
<1>4. /\ r \in Seq(ServerIds) /\ Len(r) = n + 1
      /\ \A i \in 1 .. n + 1 : r[i] = IF i < k THEN ring[i]
                                      ELSE IF i = k THEN s ELSE ring[i - 1]
  BY <1>3, InsertAtProperties
<1>5. DOMAIN r = 1 .. n + 1 /\ ToSet(r) = {r[i] : i \in 1 .. n + 1}
  BY <1>4, IndicesOfSeq
<1>. HIDE DEF n, r
<1>6. ASSUME NEW i \in 1 .. n + 1, NEW j \in 1 .. n + 1, i < j
      PROVE  Before(r[i], r[j])
  <2>1. CASE j < k
    <3>1. i \in 1 .. n /\ j \in 1 .. n /\ i < k
      BY <1>1, <1>3, <1>6, <2>1
    <3>. QED
      BY <1>1, <1>4, <1>6, <2>1, <3>1
  <2>2. CASE j = k
    <3>1. i \in 1 .. n /\ i < k /\ ~(j < k)
      BY <1>1, <1>3, <1>6, <2>2
    <3>. QED
      BY <1>3, <1>4, <2>2, <3>1
  <2>3. CASE j > k /\ i < k
    <3>1. i \in 1 .. n /\ j - 1 \in 1 .. n /\ i < j - 1 /\ ~(j < k) /\ j # k
      BY <1>1, <1>3, <1>6, <2>3
    <3>. QED
      BY <1>1, <1>4, <2>3, <3>1
  <2>4. CASE j > k /\ i = k
    <3>1. j - 1 \in 1 .. n /\ j - 1 >= k /\ ~(j < k) /\ j # k /\ ~(i < k)
      BY <1>1, <1>3, <1>6, <2>4
    <3>. QED
      BY <1>3, <1>4, <2>4, <3>1
  <2>5. CASE j > k /\ i > k
    <3>1. /\ i - 1 \in 1 .. n /\ j - 1 \in 1 .. n /\ i - 1 < j - 1
          /\ ~(j < k) /\ j # k /\ ~(i < k) /\ i # k
      BY <1>1, <1>3, <1>6, <2>5
    <3>. QED
      BY <1>1, <1>4, <3>1
  <2>6. k \in Int /\ i \in Int /\ j \in Int
    BY <1>1, <1>3
  <2>. QED
    BY <1>6, <2>1, <2>2, <2>3, <2>4, <2>5, <2>6
<1>7. Ascending(r)
  BY <1>5, <1>6 DEF Ascending
<1>8. ToSet(r) = ToSet(ring) \cup {s}
  <2>1. ASSUME NEW i \in 1 .. n + 1 PROVE r[i] \in ToSet(ring) \cup {s}
    <3>1. /\ i < k => i \in 1 .. n
          /\ ~(i < k) /\ i # k => i - 1 \in 1 .. n
      BY <1>1, <1>3
    <3>. QED
      BY <1>1, <1>4, <3>1
  <2>2. s \in ToSet(r)
    <3>1. r[k] = s
      BY <1>3, <1>4
    <3>. QED
      BY <1>3, <1>5, <3>1
  <2>3. ASSUME NEW i \in 1 .. n PROVE ring[i] \in ToSet(r)
    <3>1. CASE i < k
      <4>1. i \in 1 .. n + 1
        BY <1>1
      <4>. QED
        BY <1>4, <1>5, <3>1, <4>1
    <3>2. CASE ~(i < k)
      <4>1. i + 1 \in 1 .. n + 1 /\ ~(i + 1 < k) /\ i + 1 # k /\ (i + 1) - 1 = i
        BY <1>1, <1>3, <3>2
      <4>2. r[i + 1] = ring[i]
        BY <1>4, <4>1
      <4>. QED
        BY <1>5, <4>1, <4>2
    <3>. QED
      BY <3>1, <3>2
  <2>4. ToSet(r) \subseteq ToSet(ring) \cup {s}
    BY <1>5, <2>1
  <2>5. ToSet(ring) \subseteq ToSet(r)
    BY <1>1, <2>3
  <2>. QED
    BY <2>2, <2>4, <2>5
<1>. QED
  BY <1>2, <1>4, <1>7, <1>8 DEF n

\* remove_node_with_key keeps the ring ascending.
LEMMA RemoveTagOK ==
  ASSUME NEW ring \in Seq(ServerIds), Ascending(ring), NEW s \in ToSet(ring)
  PROVE  /\ RemoveTag(ring, s) \in Seq(ServerIds)
         /\ Ascending(RemoveTag(ring, s))
         /\ ToSet(RemoveTag(ring, s)) = ToSet(ring) \ {s}
         /\ Len(RemoveTag(ring, s)) = Len(ring) - 1
<1>. DEFINE n == Len(ring)
            r == RemoveTag(ring, s)
<1>1. /\ n \in Nat /\ DOMAIN ring = 1 .. n /\ ToSet(ring) = {ring[i] : i \in 1 .. n}
      /\ IsInjective(ring)
      /\ \A i, j \in 1 .. n : i < j => Before(ring[i], ring[j])
  BY AscendingInjective DEF Ascending
<1>2. /\ r \in Seq(ServerIds) /\ Len(r) = n - 1 /\ ToSet(r) = ToSet(ring) \ {s}
  BY <1>1, RemoveElement DEF RemoveTag
<1>3. PICK k \in 1 .. n : ring[k] = s
  BY <1>1
<1>4. \A i \in 1 .. n : ring[i] = ring[k] => i = k
  BY <1>1 DEF IsInjective
<1>5. r = RemoveAt(ring, k)
  BY <1>1, <1>3, <1>4, RemoveFirstOnly DEF RemoveTag
<1>. HIDE DEF r
<1>6. \A i \in 1 .. n - 1 : r[i] = IF i < k THEN ring[i] ELSE ring[i + 1]
  BY <1>5, RemoveAtProperties
<1>7. DOMAIN r = 1 .. n - 1
  BY <1>2, IndicesOfSeq
<1>. HIDE DEF n
<1>8. ASSUME NEW i \in 1 .. n - 1, NEW j \in 1 .. n - 1, i < j
      PROVE  Before(r[i], r[j])
  <2>1. /\ i \in 1 .. n /\ i + 1 \in 1 .. n /\ j \in 1 .. n /\ j + 1 \in 1 .. n
        /\ i < j + 1 /\ i + 1 < j + 1 /\ (j < k => i < k)
    BY <1>1, <1>3, <1>8
  <2>2. r[i] = (IF i < k THEN ring[i] ELSE ring[i + 1])
        /\ r[j] = (IF j < k THEN ring[j] ELSE ring[j + 1])
    BY <1>6
  <2>. QED
    BY <1>1, <1>8, <2>1, <2>2
<1>9. Ascending(r)
  BY <1>7, <1>8 DEF Ascending
<1>. QED
  BY <1>2, <1>9 DEF r, n

\* Server s joins the servers L: t owned a hash h, now u owns it, and v is the
\* neighbour of s.
JoinOwned(L, s, h, t, u, v) ==
  /\ L \in SUBSET ServerIds /\ s \in ServerIds /\ s \notin L /\ h \in Nat
  /\ Owns(L, t, h)
  /\ Owns(L \cup {s}, u, h)
  /\ Owns(L \cup {s}, v, ServerHash[s] + 1)

\* A joining server takes over hashes of its neighbour only.
LEMMA OwnerAfterJoin ==
  ASSUME NEW L, NEW s, NEW h, NEW t, NEW u, NEW v, JoinOwned(L, s, h, t, u, v)
  PROVE  t = u \/ t = v
<1>. /\ L \in SUBSET ServerIds /\ s \in ServerIds /\ s \notin L /\ h \in Nat
     /\ Owns(L, t, h) /\ Owns(L \cup {s}, u, h)
     /\ Owns(L \cup {s}, v, ServerHash[s] + 1)
  BY DEF JoinOwned
<1>1. /\ \A r \in L \cup {s} : ServerHash[r] \in Nat
      /\ \A r \in L : ServerHash[r] # ServerHash[s]
      /\ t \in L /\ u \in L \cup {s}
  BY LoadBalancerAssumption DEF Owns
<1>2. ServerHash[s] + 1 \in Nat
  BY <1>1
<1>3. CASE u # s
  <2>1. u \in L
    BY <1>1, <1>3
  <2>2. Owns(L, u, h)
    BY <2>1 DEF Owns
  <2>. QED
    BY <2>2, OwnsUnique
<1>4. CASE u = s
  <2>1. Owns(L \cup {s}, t, ServerHash[s] + 1)
    <3>1. CASE ServerHash[s] >= h /\ \A r \in L \cup {s} : ServerHash[r] >= h => ServerHash[s] <= ServerHash[r]
      <4>1. \A r \in L : ServerHash[r] >= h <=> ServerHash[r] >= ServerHash[s] + 1
        BY <1>1, <3>1
      <4>2. ~(ServerHash[s] >= ServerHash[s] + 1)
        BY <1>1
      <4>3. CASE ServerHash[t] >= h /\ \A r \in L : ServerHash[r] >= h => ServerHash[t] <= ServerHash[r]
        BY <1>1, <4>1, <4>2, <4>3 DEF Owns
      <4>4. CASE \A r \in L : ServerHash[r] < h /\ ServerHash[t] <= ServerHash[r]
        BY <1>1, <3>1, <4>4 DEF Owns
      <4>. QED
        BY <4>3, <4>4 DEF Owns
    <3>2. CASE \A r \in L \cup {s} : ServerHash[r] < h /\ ServerHash[s] <= ServerHash[r]
      <4>1. \A r \in L : ServerHash[r] < h /\ ServerHash[r] >= ServerHash[s] + 1
        BY <1>1, <3>2
      <4>2. \A r \in L : ServerHash[t] <= ServerHash[r]
        BY <1>1, <4>1 DEF Owns
      <4>. QED
        BY <1>1, <4>1, <4>2 DEF Owns
    <3>. QED
      BY <1>4, <3>1, <3>2 DEF Owns
  <2>2. L \cup {s} \in SUBSET ServerIds
    OBVIOUS
  <2>. QED
    BY <1>2, <2>1, <2>2, OwnsUnique
<1>. QED
  BY <1>3, <1>4

\* A leaving server does not change who owns the hashes of the others.
LEMMA OwnerAfterLeave ==
  ASSUME NEW L, NEW s, NEW h, NEW t, Owns(L, t, h), t # s
  PROVE  Owns(L \ {s}, t, h)
BY DEF Owns

-----------------------------------------------------------------------------
\* The request being handled is a removal or a read at the server it names, and
\* a read is of a document.
HandlingOK ==
  handling # Nobody =>
    /\ handling.op \in {"get", "remove"} => handling.at = handling.server
    /\ handling.op = "get" => handling.doc \in Docs

\* What holds of the array, the ring and the request in every state.
Structure ==
  /\ TypeOK
  /\ Ascending(tags) /\ ToSet(tags) = Live
  /\ \A s \in Live : ServerOK(servers[s])
  /\ HandlingOK

Servers == [ServerIds -> ServerState \cup {NoServer}]

\* The servers of an array.
Present(f) == {s \in ServerIds : f[s] # NoServer}

\* Array g is f with the state x in place t.
Puts(f, g, t, x) == /\ g \in Servers
                    /\ g[t] = x
                    /\ \A s \in ServerIds \ {t} : g[s] = f[s]
                    /\ Present(g) = Present(f) \cup {t}

\* Changing one server leaves the other ones alone.
LEMMA SetServer ==
  ASSUME NEW f \in Servers, NEW t \in ServerIds, NEW x \in ServerState
  PROVE  Puts(f, [f EXCEPT ![t] = x], t, x)
BY NoneAssumption DEF Servers, Puts, Present

\* What the structure of the ring says of the servers that are on it.
LEMMA LiveServers ==
  ASSUME Structure
  PROVE  /\ servers \in Servers
         /\ tags \in Seq(ServerIds)
         /\ Live \subseteq ServerIds
         /\ \A s \in Live : /\ servers[s] \in ServerState
                            /\ servers[s].db \in Database
                            /\ servers[s].queue \in Seq(Task)
                            /\ Matches(servers[s].cache)
         /\ (tags = <<>>) <=> (Live = {})
<1>1. tags \in Seq(ServerIds) /\ ToSet(tags) = Live /\ servers \in Servers
  BY DEF Structure, TypeOK, Servers
<1>2. tags = <<>> <=> ToSet(tags) = {}
  <2>1. Len(tags) \in Nat /\ ToSet(tags) = {tags[i] : i \in 1 .. Len(tags)}
    BY <1>1, IndicesOfSeq
  <2>2. tags = <<>> <=> Len(tags) = 0
    BY <1>1, EmptySeq
  <2>3. Len(tags) # 0 => 1 \in 1 .. Len(tags)
    BY <2>1
  <2>4. Len(tags) = 0 => 1 .. Len(tags) = {}
    BY <2>1
  <2>. QED
    BY <2>1, <2>2, <2>3, <2>4
<1>3. \A s \in Live : ServerOK(servers[s])
  BY DEF Structure
<1>. QED
  BY <1>1, <1>2, <1>3 DEF Live, ServerOK, ServerState

\* A request goes to a server that is on the ring.
LEMMA DestinationLive ==
  ASSUME Structure, tags # <<>>, NEW d \in Docs
  PROVE  Destination(d) \in Live
<1>1. tags \in Seq(ServerIds) /\ Ascending(tags) /\ ToSet(tags) = Live
  BY DEF Structure, TypeOK
<1>2. CASE numberOfServers = 1
  <2>1. 1 \in 1 .. Len(tags)
    BY <1>1, LenProperties, EmptySeq
  <2>2. tags[1] \in ToSet(tags)
    BY <1>1, <2>1, IndicesOfSeq
  <2>. QED
    BY <1>1, <1>2, <2>2 DEF Destination
<1>3. CASE numberOfServers # 1
  <2>1. Owns(ToSet(tags), ServerOf(tags, d), DocHash[d])
    BY <1>1, ServerOfOwns
  <2>. QED
    BY <1>1, <1>3, <2>1 DEF Destination, Owns
<1>. QED
  BY <1>2, <1>3

\* A server joins the ring.
LEMMA AddServerEffect ==
  ASSUME Structure, NEW s \in ServerIds, NEW size \in CacheSizes, AddServer(s, size)
  PROVE  /\ s \notin Live /\ Live' = Live \cup {s} /\ servers' \in Servers
         /\ servers'[s] = InitServer(size)
         /\ \A t \in Live : servers'[t] = servers[t]
         /\ tags' \in Seq(ServerIds) /\ Ascending(tags') /\ ToSet(tags') = Live'
         /\ Len(tags') = Len(tags) + 1
         /\ handling = Nobody
         /\ handling' \in {Nobody, Handle("add", NextOnRing(tags', s), s, NoDoc)}
         /\ NextOnRing(tags', s) \in Live'
<1>1. /\ s \notin Live /\ servers' = [servers EXCEPT ![s] = InitServer(size)]
      /\ tags' = AddTag(tags, s) /\ handling = Nobody
      /\ handling' \in {Nobody, Handle("add", NextOnRing(tags', s), s, NoDoc)}
  BY DEF AddServer, Ready
<1>2. /\ tags \in Seq(ServerIds) /\ Ascending(tags) /\ ToSet(tags) = Live
      /\ servers \in Servers
  BY DEF Structure, TypeOK, Servers
<1>3. InitServer(size) \in ServerState
  BY LoadBalancerAssumption, InitServerOK DEF ServerOK
<1>4. /\ servers' \in Servers /\ Live' = Live \cup {s}
      /\ servers'[s] = InitServer(size)
      /\ \A t \in Live : servers'[t] = servers[t]
  <2>. DEFINE x == InitServer(size)
  <2>. HIDE DEF x
  <2>1. x \in ServerState /\ servers' = [servers EXCEPT ![s] = x]
    BY <1>1, <1>3 DEF x
  <2>2. Puts(servers, servers', s, x)
    BY <1>2, <2>1, SetServer
  <2>3. Present(servers) = Live /\ Present(servers') = Live'
    BY DEF Present, Live
  <2>. QED
    BY <1>1, <2>2, <2>3 DEF Puts, Live, x
<1>5. /\ tags' \in Seq(ServerIds) /\ Ascending(tags') /\ ToSet(tags') = Live'
      /\ Len(tags') = Len(tags) + 1
  BY <1>1, <1>2, <1>4, AddTagOK
<1>6. NextOnRing(tags', s) \in Live'
  <2>1. tags' # <<>>
    BY <1>4, <1>5 DEF ToSet
  <2>. DEFINE r == tags'
  <2>2. r \in Seq(ServerIds) /\ r # <<>> /\ Ascending(r)
    BY <1>5, <2>1
  <2>. HIDE DEF r
  <2>3. Owns(ToSet(r), NextOnRing(r, s), ServerHash[s] + 1)
    BY <2>2, NextOwns
  <2>. QED
    BY <1>5, <2>3 DEF Owns, r
<1>. QED
  BY <1>1, <1>4, <1>5, <1>6

\* Changing a server of the ring keeps the set of servers on it.
LEMMA LiveServerSet ==
  ASSUME Structure, NEW t \in Live, NEW x \in ServerState,
         servers' = [servers EXCEPT ![t] = x]
  PROVE  /\ Live' = Live /\ servers' \in Servers
         /\ servers'[t] = x
         /\ \A s \in Live \ {t} : servers'[s] = servers[s]
<1>1. servers \in Servers /\ t \in ServerIds
  BY LiveServers
<1>2. Puts(servers, servers', t, x)
  BY <1>1, SetServer
<1>3. Present(servers) = Live /\ Present(servers') = Live'
  BY DEF Present, Live
<1>. QED
  BY <1>2, <1>3 DEF Puts, Live

\* An edit waits at its document's destination.
LEMMA EditDocEffect ==
  ASSUME Structure, NEW d \in Docs, EditDoc(d)
  PROVE  /\ Live' = Live /\ servers' \in Servers
         /\ Destination(d) \in Live
         /\ servers'[Destination(d)]
              = AddTaskInQueue(servers[Destination(d)], d, served')
         /\ \A s \in Live \ {Destination(d)} : servers'[s] = servers[s]
         /\ served' = served + 1 /\ served' \in Contents
         /\ ServerOK(AddTaskInQueue(servers[Destination(d)], d, served'))
<1>1. /\ tags # <<>> /\ served' = served + 1 /\ served < RequestsNum
      /\ servers' = [servers EXCEPT ![Destination(d)] =
                        AddTaskInQueue(servers[Destination(d)], d, served')]
  BY DEF EditDoc, Ready, NextRequest
<1>2. served' \in Contents
  <2>1. RequestsNum \in Nat /\ Contents = 1 .. RequestsNum
    BY LoadBalancerAssumption
  <2>2. served \in 0 .. RequestsNum
    BY DEF Structure, TypeOK
  <2>. QED
    BY <1>1, <2>1, <2>2
<1>3. Destination(d) \in Live
  BY <1>1, DestinationLive
<1>. DEFINE t == Destination(d)
            x == AddTaskInQueue(servers[t], d, served')
<1>. HIDE DEF t
<1>4. t \in Live /\ ServerOK(servers[t])
  BY <1>3 DEF t, Structure
<1>5. ServerOK(x)
  BY <1>2, <1>4, AddTaskOK
<1>. HIDE DEF x
<1>6. servers' = [servers EXCEPT ![t] = x] /\ x \in ServerState
  BY <1>1, <1>5 DEF ServerOK, t, x
<1>7. /\ Live' = Live /\ servers' \in Servers
      /\ servers'[t] = x
      /\ \A s \in Live \ {t} : servers'[s] = servers[s]
  BY <1>4, <1>6, LiveServerSet
<1>. QED
  BY <1>1, <1>2, <1>4, <1>5, <1>7 DEF t, x

\* What a handler finds.
LEMMA HandlingServers ==
  ASSUME Structure, handling # Nobody
  PROVE  /\ handling \in Handlings(Live)
         /\ handling.at \in Live /\ handling.server \in Live
         /\ handling.op \in {"get", "add", "remove"}
         /\ ServerOK(servers[handling.at]) /\ ServerOK(servers[handling.server])
         /\ handling.op \in {"get", "remove"} => handling.at = handling.server
         /\ handling.op = "get" => handling.doc \in Docs
<1>1. handling \in Handlings(Live)
  BY DEF Structure, TypeOK
<1>2. /\ handling.at \in Live /\ handling.server \in Live
      /\ handling.op \in {"get", "add", "remove"}
  BY <1>1 DEF Handlings
<1>. QED
  BY <1>1, <1>2 DEF Structure, HandlingOK

\* The server of a request executes its oldest task.
LEMMA ExecuteTaskEffect ==
  ASSUME Structure, ExecuteTask
  PROVE  LET a == handling.at
         IN  /\ a \in Live /\ Live' = Live /\ servers' \in Servers
             /\ servers'[a] = ExecuteOldest(servers[a])
             /\ \A s \in Live \ {a} : servers'[s] = servers[s]
             /\ servers[a].queue # <<>>
             /\ ServerOK(ExecuteOldest(servers[a]))
             /\ taskReply' \in Reply
<1>. DEFINE a == handling.at
            x == ExecuteOldest(servers[a])
<1>1. /\ handling # Nobody /\ servers[a].queue # <<>>
      /\ servers' = [servers EXCEPT ![a] = x]
      /\ taskReply' = ExecuteReply(servers[a])
  BY DEF ExecuteTask, At
<1>2. a \in Live /\ ServerOK(servers[a])
  BY <1>1, HandlingServers
<1>3. ServerOK(x) /\ taskReply' \in Reply
  BY <1>1, <1>2, ExecuteOldestOK
<1>. HIDE DEF x, a
<1>4. x \in ServerState
  BY <1>3 DEF ServerOK
<1>5. /\ Live' = Live /\ servers' \in Servers
      /\ servers'[a] = x
      /\ \A s \in Live \ {a} : servers'[s] = servers[s]
  BY <1>1, <1>2, <1>4, LiveServerSet
<1>. QED
  BY <1>1, <1>2, <1>3, <1>5 DEF a, x

\* The server of a GET answers it.
LEMMA FinishGetEffect ==
  ASSUME Structure, FinishGet
  PROVE  LET a == handling.at
             d == handling.doc
         IN  /\ a \in Live /\ d \in Docs /\ Live' = Live /\ servers' \in Servers
             /\ servers'[a] = GetDocument(servers[a], d)
             /\ \A s \in Live \ {a} : servers'[s] = servers[s]
             /\ ServerOK(GetDocument(servers[a], d))
             /\ reply' \in Reply
<1>. DEFINE a == handling.at
            d == handling.doc
            x == GetDocument(servers[a], d)
<1>1. /\ handling # Nobody /\ handling.op = "get"
      /\ servers' = [servers EXCEPT ![a] = x]
      /\ reply' = GetReply(servers[a], d)
  BY DEF FinishGet, At, Running
<1>2. a \in Live /\ ServerOK(servers[a]) /\ d \in Docs
  BY <1>1, HandlingServers
<1>3. ServerOK(x) /\ reply' \in Reply
  BY <1>1, <1>2, GetDocumentOK
<1>. HIDE DEF x, a, d
<1>4. x \in ServerState
  BY <1>3 DEF ServerOK
<1>5. /\ Live' = Live /\ servers' \in Servers
      /\ servers'[a] = x
      /\ \A s \in Live \ {a} : servers'[s] = servers[s]
  BY <1>1, <1>2, <1>4, LiveServerSet
<1>. QED
  BY <1>1, <1>2, <1>3, <1>5 DEF a, d, x

\* The entries a join moves are finitely many.
LEMMA EntriesCounted ==
  ASSUME Structure, NEW db, NEW s
  PROVE  EntriesTaken(db, s) \in Nat
<1>. DEFINE M == 1 .. MaximumDatabaseEntries + 1
            T == Taken(db, s)
            E == {e \in T \X M : e[2] <= Len(db[e[1]])}
<1>1. MaximumDatabaseEntries \in Nat /\ IsFiniteSet(Docs)
  BY LoadBalancerAssumption
<1>2. IsFiniteSet(M)
  BY <1>1, FS_Interval
<1>3. IsFiniteSet(T)
  <2>1. T \subseteq Docs
    BY DEF Taken
  <2>. QED
    BY <1>1, <2>1, FS_Subset
<1>4. EntriesTaken(db, s) = Cardinality(E)
  BY DEF EntriesTaken
<1>. HIDE DEF M, T
<1>5. IsFiniteSet(T \X M)
  BY <1>2, <1>3, FS_Product
<1>6. E \subseteq T \X M
  OBVIOUS
<1>. HIDE DEF E
<1>7. IsFiniteSet(E)
  BY <1>5, <1>6, FS_Subset
<1>. QED
  BY <1>4, <1>7, FS_CardinalityType

\* A server with another cache and another database.
With(x, c, db) == [cache |-> c, db |-> db, queue |-> x.queue]

\* A server keeps its invariant with a smaller cache and a larger database.
LEMMA WithOK ==
  ASSUME NEW x, ServerOK(x),
         NEW c, Matches(c), ToSet(c.list) \subseteq ToSet(x.cache.list),
         NEW db \in Database, \A d \in Docs : InDatabase(x.db, d) => InDatabase(db, d)
  PROVE  ServerOK(With(x, c, db)) /\ With(x, c, db) \in ServerState
BY ReplacedOK DEF With, ServerOK

\* The cache a server a has after it gave documents to a joining server s, and
\* the database s then has.
CacheGiven(a, s) == GivingCache(servers[a].cache, Taken(servers[a].db, s),
                                EntriesTaken(servers[a].db, s))
DbTaken(a, s) == AddAll(servers[s].db, servers[a].db, Taken(servers[a].db, s))

\* A neighbour that gives documents away, and the server that takes them, keep
\* their invariants.
LEMMA GivenOK ==
  ASSUME Structure, NEW a \in Live, NEW s \in Live
  PROVE  /\ Matches(CacheGiven(a, s))
         /\ ToSet(CacheGiven(a, s).list)
              = ToSet(servers[a].cache.list) \ Taken(servers[a].db, s)
         /\ DbTaken(a, s) \in Database
         /\ \A d \in Docs : InDatabase(servers[s].db, d) => InDatabase(DbTaken(a, s), d)
<1>1. /\ ServerOK(servers[a]) /\ servers[a].db \in Database
      /\ servers[s].db \in Database
  BY LiveServers DEF Structure
<1>2. EntriesTaken(servers[a].db, s) \in Nat /\ Taken(servers[a].db, s) \in SUBSET Docs
  BY EntriesCounted DEF Taken
<1>3. /\ Matches(CacheGiven(a, s))
      /\ ToSet(CacheGiven(a, s).list)
           = ToSet(servers[a].cache.list) \ Taken(servers[a].db, s)
  <2>. DEFINE x == servers[a]
              S == Taken(servers[a].db, s)
              n == EntriesTaken(servers[a].db, s)
  <2>. HIDE DEF x, S, n
  <2>1. ServerOK(x) /\ S \in SUBSET Docs /\ n \in Nat
    BY <1>1, <1>2 DEF x, S, n
  <2>2. /\ Matches(GivingCache(x.cache, S, n))
        /\ ToSet(GivingCache(x.cache, S, n).list) = ToSet(x.cache.list) \ S
    BY <2>1, GivingCacheOK
  <2>. QED
    BY <2>2 DEF CacheGiven, x, S, n
<1>. QED
  BY <1>1, <1>2, <1>3, AddAllOK DEF DbTaken

\* A joining server has taken its documents from its neighbour.
LEMMA FinishAddEffect ==
  ASSUME Structure, FinishAdd
  PROVE  LET a == handling.at
             s == handling.server
         IN  /\ a \in Live /\ s \in Live /\ Live' = Live /\ servers' \in Servers
             /\ servers[a].queue = <<>>
             /\ \A u \in Live :
                  /\ servers'[u] =
                       With(servers[u],
                            IF u = a THEN CacheGiven(a, s) ELSE servers[u].cache,
                            IF u = s THEN DbTaken(a, s) ELSE servers[u].db)
                  /\ ServerOK(servers'[u])
<1>. DEFINE a == handling.at
            s == handling.server
            c == CacheGiven(a, s)
            db == DbTaken(a, s)
            N(u) == With(servers[u], IF u = a THEN c ELSE servers[u].cache,
                                     IF u = s THEN db ELSE servers[u].db)
<1>1. /\ handling # Nobody /\ handling.op = "add" /\ servers[a].queue = <<>>
      /\ servers' = [servers EXCEPT
           ![a].cache = GivingCache(@, Taken(servers[a].db, s), EntriesMoving),
           ![s].db = AddAll(@, servers[a].db, Taken(servers[a].db, s))]
  BY DEF FinishAdd, At, Running
<1>2. EntriesMoving = EntriesTaken(servers[a].db, s)
  BY <1>1 DEF EntriesMoving, At
<1>3. /\ a \in Live /\ s \in Live
  BY <1>1, HandlingServers
<1>4. /\ servers \in Servers /\ Live \subseteq ServerIds
      /\ \A u \in Live : servers[u] \in ServerState /\ ServerOK(servers[u])
  BY LiveServers DEF Structure
<1>5. /\ Matches(c) /\ ToSet(c.list) \subseteq ToSet(servers[a].cache.list)
      /\ db \in Database
      /\ \A d \in Docs : InDatabase(servers[s].db, d) => InDatabase(db, d)
  BY <1>3, GivenOK
<1>6. servers' = [servers EXCEPT ![a].cache = c, ![s].db = db]
  <2>. DEFINE f == [servers EXCEPT ![a].cache = c]
  <2>1. f[s].db = servers[s].db
    BY <1>3, <1>4 DEF Servers, ServerState
  <2>. QED
    BY <1>1, <1>2, <2>1 DEF CacheGiven, DbTaken
<1>. HIDE DEF a, s, c, db
<1>7. ASSUME NEW u \in Live
      PROVE  servers'[u] = N(u) /\ ServerOK(N(u)) /\ N(u) \in ServerState
  <2>1. /\ servers[u] = [cache |-> servers[u].cache, db |-> servers[u].db,
                         queue |-> servers[u].queue]
        /\ ServerOK(servers[u]) /\ Matches(servers[u].cache) /\ servers[u].db \in Database
    BY <1>4 DEF ServerState, ServerOK
  <2>2. servers'[u] = N(u)
    BY <1>3, <1>4, <1>6, <2>1 DEF Servers, With
  <2>. DEFINE k == IF u = a THEN c ELSE servers[u].cache
              e == IF u = s THEN db ELSE servers[u].db
  <2>3. /\ Matches(k) /\ ToSet(k.list) \subseteq ToSet(servers[u].cache.list)
        /\ e \in Database /\ \A d \in Docs : InDatabase(servers[u].db, d) => InDatabase(e, d)
    BY <1>5, <2>1
  <2>. HIDE DEF k, e
  <2>4. ServerOK(With(servers[u], k, e)) /\ With(servers[u], k, e) \in ServerState
    BY <2>1, <2>3, WithOK
  <2>. QED
    BY <2>2, <2>4 DEF k, e
<1>8. /\ DOMAIN servers' = ServerIds
      /\ \A u \in ServerIds \ Live : servers'[u] = NoServer
  BY <1>3, <1>4, <1>6 DEF Servers, Live
<1>9. \A u \in Live : servers'[u] \in ServerState /\ servers'[u] # NoServer
  BY <1>7, NoneAssumption
<1>10. servers' \in Servers /\ Live' = Live
  BY <1>4, <1>6, <1>8, <1>9 DEF Servers, Live
<1>11. \A u \in Live : servers'[u] = N(u) /\ ServerOK(servers'[u])
  BY <1>7
<1>. QED
  BY <1>1, <1>3, <1>10, <1>11 DEF a, s, c, db

\* A leaving server has given its documents to the next one.
LEMMA FinishRemoveEffect ==
  ASSUME Structure, FinishRemove
  PROVE  LET s == handling.server
             t == NextOnRing(tags', s)
         IN  /\ handling.at = s /\ s \in Live /\ Live' = Live \ {s} /\ t \in Live'
             /\ servers' \in Servers
             /\ servers[s].queue = <<>>
             /\ tags' \in Seq(ServerIds) /\ Ascending(tags') /\ ToSet(tags') = Live'
             /\ Len(tags') = Len(tags) - 1
             /\ \A u \in Live' :
                  /\ servers'[u] = With(servers[u], servers[u].cache,
                       IF u = t THEN AddAll(servers[u].db, servers[s].db, Docs)
                       ELSE servers[u].db)
                  /\ ServerOK(servers'[u])
<1>. DEFINE s == handling.server
            r == RemoveTag(tags, s)
            t == NextOnRing(r, s)
            db == AddAll(servers[t].db, servers[s].db, Docs)
            N(u) == With(servers[u], servers[u].cache, IF u = t THEN db ELSE servers[u].db)
<1>1. /\ handling # Nobody /\ handling.op = "remove" /\ servers[handling.at].queue = <<>>
      /\ ~Dies
      /\ tags' = r
      /\ servers' = [servers EXCEPT
           ![t].db = AddAll(@, servers[handling.at].db, Docs), ![s] = NoServer]
  BY DEF FinishRemove, At, Running
<1>2. /\ s \in Live /\ handling.at = s
  BY <1>1, HandlingServers
<1>3. /\ servers \in Servers /\ Live \subseteq ServerIds
      /\ tags \in Seq(ServerIds) /\ Ascending(tags) /\ ToSet(tags) = Live
      /\ \A u \in Live : servers[u] \in ServerState /\ ServerOK(servers[u])
  BY LiveServers DEF Structure
<1>4. Len(tags) # 1
  BY <1>1 DEF Dies, At
<1>5. /\ r \in Seq(ServerIds) /\ Ascending(r) /\ ToSet(r) = Live \ {s}
      /\ Len(r) = Len(tags) - 1
  BY <1>2, <1>3, RemoveTagOK
<1>. HIDE DEF r
<1>6. r # <<>>
  BY <1>3, <1>4, <1>5, LenProperties, EmptySeq
<1>7. t \in Live /\ t # s /\ t \in ServerIds /\ s \in ServerIds
  <2>1. Owns(ToSet(r), t, ServerHash[s] + 1)
    BY <1>2, <1>3, <1>5, <1>6, NextOwns
  <2>. QED
    BY <1>2, <1>3, <1>5, <2>1 DEF Owns
<1>8. /\ db \in Database
      /\ \A d \in Docs : InDatabase(servers[t].db, d) => InDatabase(db, d)
  <2>1. servers[t].db \in Database /\ servers[s].db \in Database
    BY <1>2, <1>7, LiveServers
  <2>. QED
    BY <2>1, AddAllOK
<1>9. servers' = [servers EXCEPT ![t].db = db, ![s] = NoServer]
  BY <1>1, <1>2
<1>. HIDE DEF s, t, db
<1>10. ASSUME NEW u \in Live \ {s}
       PROVE  servers'[u] = N(u) /\ ServerOK(N(u)) /\ N(u) \in ServerState
  <2>1. /\ servers[u] = [cache |-> servers[u].cache, db |-> servers[u].db,
                         queue |-> servers[u].queue]
        /\ ServerOK(servers[u]) /\ Matches(servers[u].cache) /\ servers[u].db \in Database
    BY <1>3 DEF ServerState, ServerOK
  <2>2. servers'[u] = N(u)
    BY <1>3, <1>7, <1>9, <2>1 DEF Servers, With
  <2>. DEFINE e == IF u = t THEN db ELSE servers[u].db
  <2>3. e \in Database /\ \A d \in Docs : InDatabase(servers[u].db, d) => InDatabase(e, d)
    BY <1>8, <2>1
  <2>. HIDE DEF e
  <2>4. /\ ServerOK(With(servers[u], servers[u].cache, e))
        /\ With(servers[u], servers[u].cache, e) \in ServerState
    BY <2>1, <2>3, WithOK
  <2>. QED
    BY <2>2, <2>4 DEF e
<1>11. /\ DOMAIN servers' = ServerIds /\ servers'[s] = NoServer
       /\ \A u \in ServerIds \ Live : servers'[u] = NoServer
  BY <1>3, <1>7, <1>9 DEF Servers, Live
<1>12. \A u \in Live \ {s} : servers'[u] \in ServerState /\ servers'[u] # NoServer
  BY <1>10, NoneAssumption
<1>13. servers' \in Servers /\ Live' = Live \ {s}
  <2>1. Live' = Live \ {s}
    BY <1>3, <1>11, <1>12 DEF Live
  <2>2. \A u \in ServerIds : servers'[u] \in ServerState \cup {NoServer}
    BY <1>11, <1>12
  <2>3. servers' = [u \in ServerIds |-> servers'[u]]
    BY <1>3, <1>9, <1>11 DEF Servers
  <2>. QED
    BY <2>1, <2>2, <2>3 DEF Servers
<1>14. \A u \in Live' : servers'[u] = N(u) /\ ServerOK(servers'[u])
  BY <1>10, <1>13
<1>15. t = NextOnRing(tags', s)
  BY <1>1 DEF t
<1>16. \A u \in Live' :
         /\ servers'[u] = With(servers[u], servers[u].cache,
              IF u = t THEN AddAll(servers[u].db, servers[s].db, Docs) ELSE servers[u].db)
         /\ ServerOK(servers'[u])
  BY <1>14 DEF db
<1>. QED
  BY <1>1, <1>2, <1>5, <1>7, <1>13, <1>15, <1>16 DEF s

\* The handlings a larger or an equal set of servers allows.
LEMMA HandlingsOf ==
  ASSUME NEW S, NEW op \in {"get", "add", "remove"}, NEW a \in S, NEW s \in S,
         NEW d \in Docs \cup {NoDoc}
  PROVE  /\ Handle(op, a, s, d) \in Handlings(S)
         /\ Handle(op, a, s, d).op = op /\ Handle(op, a, s, d).at = a
         /\ Handle(op, a, s, d).server = s /\ Handle(op, a, s, d).doc = d
BY DEF Handle, Handlings

\* A request is read before it is served.
LEMMA ServedInRange ==
  ASSUME Structure, Ready, NextRequest
  PROVE  served' \in 0 .. RequestsNum
<1>1. RequestsNum \in Nat /\ served \in 0 .. RequestsNum
  BY LoadBalancerAssumption DEF Structure, TypeOK
<1>. QED
  BY <1>1 DEF Ready, NextRequest

\* An empty ring has the structure.
LEMMA StructureInit == Init => Structure
<1>. SUFFICES ASSUME Init
              PROVE  Structure
  OBVIOUS
<1>1. /\ servers = [s \in ServerIds |-> NoServer] /\ tags = <<>> /\ numberOfServers = 0
      /\ handling = Nobody /\ served = 0 /\ alive = TRUE
      /\ reply = NoReply /\ taskReply = NoReply
  BY DEF Init
<1>2. Live = {}
  BY <1>1 DEF Live
<1>3. ToSet(tags) = {} /\ Ascending(tags) /\ tags \in Seq(ServerIds)
  BY <1>1 DEF ToSet, Ascending
<1>4. RequestsNum \in Nat
  BY LoadBalancerAssumption
<1>5. NoReply \in Reply
  BY DEF NoReply, Message, Reply
<1>6. TypeOK
  BY <1>1, <1>3, <1>4, <1>5 DEF TypeOK
<1>. QED
  BY <1>1, <1>2, <1>3, <1>6 DEF Structure, HandlingOK

\* A server that joins keeps the structure.
LEMMA StructureAddServer ==
  ASSUME Structure, NEW s \in ServerIds, NEW size \in CacheSizes, AddServer(s, size)
  PROVE  Structure'
<1>1. /\ Live' = Live \cup {s} /\ servers' \in Servers
      /\ servers'[s] = InitServer(size)
      /\ \A t \in Live : servers'[t] = servers[t]
      /\ tags' \in Seq(ServerIds) /\ Ascending(tags') /\ ToSet(tags') = Live'
      /\ handling' \in {Nobody, Handle("add", NextOnRing(tags', s), s, NoDoc)}
      /\ NextOnRing(tags', s) \in Live'
  BY AddServerEffect
<1>2. /\ Ready /\ NextRequest /\ numberOfServers' = numberOfServers + 1
      /\ alive' = alive /\ reply' = reply /\ taskReply' = taskReply
  BY DEF AddServer
<1>3. served' \in 0 .. RequestsNum
  BY <1>2, ServedInRange
<1>4. ServerOK(InitServer(size))
  BY LoadBalancerAssumption, InitServerOK
<1>5. \A t \in Live' : ServerOK(servers'[t])
  BY <1>1, <1>4 DEF Structure
<1>. DEFINE h == Handle("add", NextOnRing(tags', s), s, NoDoc)
<1>6. h \in Handlings(Live') /\ h.op = "add"
  BY <1>1 DEF Handle, Handlings
<1>. HIDE DEF h
<1>7. handling' \in Handlings(Live') \cup {Nobody} /\ HandlingOK'
  BY <1>1, <1>6 DEF HandlingOK, h
<1>8. TypeOK'
  BY <1>1, <1>2, <1>3, <1>7 DEF TypeOK, Servers, Structure
<1>. QED
  BY <1>1, <1>5, <1>7, <1>8 DEF Structure

\* Every request keeps the structure.
LEMMA StructureRequest ==
  ASSUME Structure, Request
  PROVE  Structure'
<1>1. ASSUME NEW s \in ServerIds, NEW size \in CacheSizes, AddServer(s, size)
      PROVE  Structure'
  BY <1>1, StructureAddServer
<1>2. ASSUME NEW s \in ServerIds, RemoveServer(s)
      PROVE  Structure'
  <2>1. /\ Ready /\ NextRequest /\ numberOfServers' = numberOfServers - 1
        /\ alive' = alive /\ reply' = reply /\ taskReply' = taskReply
        /\ servers' = servers /\ tags' = tags
        /\ handling' = Nobody \/ (s \in Live /\ handling' = Handle("remove", s, s, NoDoc))
    BY <1>2 DEF RemoveServer
  <2>2. served' \in 0 .. RequestsNum
    BY <2>1, ServedInRange
  <2>3. Live' = Live
    BY <2>1 DEF Live
  <2>4. handling' \in Handlings(Live') \cup {Nobody} /\ HandlingOK'
    BY <2>1, <2>3, HandlingsOf DEF HandlingOK
  <2>5. TypeOK'
    BY <2>1, <2>2, <2>3, <2>4 DEF TypeOK, Structure
  <2>. QED
    BY <2>1, <2>3, <2>4, <2>5 DEF Structure
<1>3. ASSUME NEW d \in Docs, EditDoc(d)
      PROVE  Structure'
  <2>1. /\ Ready /\ NextRequest /\ numberOfServers' = numberOfServers
        /\ alive' = alive /\ reply' = Queued(d) /\ taskReply' = taskReply
        /\ tags' = tags /\ handling' = handling
    BY <1>3 DEF EditDoc
  <2>2. served' \in 0 .. RequestsNum
    BY <2>1, ServedInRange
  <2>. DEFINE t == Destination(d)
  <2>3. /\ Live' = Live /\ servers' \in Servers
        /\ t \in Live
        /\ servers'[t] = AddTaskInQueue(servers[t], d, served')
        /\ \A s \in Live \ {t} : servers'[s] = servers[s]
        /\ ServerOK(AddTaskInQueue(servers[t], d, served'))
    BY <1>3, EditDocEffect
  <2>. HIDE DEF t
  <2>4. \A s \in Live' : ServerOK(servers'[s])
    BY <2>3 DEF Structure
  <2>5. reply' \in Reply
    BY <2>1, ReplyTypes
  <2>6. TypeOK' /\ HandlingOK'
    BY <2>1, <2>2, <2>3, <2>5 DEF TypeOK, Structure, Servers, HandlingOK
  <2>. QED
    BY <2>1, <2>3, <2>4, <2>6 DEF Structure
<1>4. ASSUME NEW d \in Docs, GetDoc(d)
      PROVE  Structure'
  <2>1. /\ Ready /\ NextRequest /\ numberOfServers' = numberOfServers
        /\ alive' = alive /\ reply' = reply /\ taskReply' = taskReply
        /\ tags' = tags /\ servers' = servers /\ tags # <<>>
        /\ handling' = Handle("get", Destination(d), Destination(d), d)
    BY <1>4 DEF GetDoc
  <2>2. served' \in 0 .. RequestsNum
    BY <2>1, ServedInRange
  <2>3. Live' = Live
    BY <2>1 DEF Live
  <2>4. Destination(d) \in Live
    BY <2>1, DestinationLive
  <2>5. handling' \in Handlings(Live') \cup {Nobody} /\ HandlingOK'
    BY <2>1, <2>3, <2>4, HandlingsOf DEF HandlingOK
  <2>6. TypeOK'
    BY <2>1, <2>2, <2>3, <2>5 DEF TypeOK, Structure
  <2>. QED
    BY <2>1, <2>3, <2>5, <2>6 DEF Structure
<1>. QED
  BY <1>1, <1>2, <1>3, <1>4 DEF Request

\* Every later step of a request keeps the structure.
LEMMA StructureStep ==
  ASSUME Structure, Step
  PROVE  Structure'
<1>1. CASE Die
  <2>1. /\ servers' = servers /\ tags' = tags /\ numberOfServers' = numberOfServers
        /\ handling' = handling /\ served' = served /\ alive' = FALSE
        /\ reply' = reply /\ taskReply' = taskReply
    BY <1>1 DEF Die
  <2>2. Live' = Live
    BY <2>1 DEF Live
  <2>3. TypeOK' /\ HandlingOK'
    BY <2>1, <2>2 DEF TypeOK, HandlingOK, Structure
  <2>. QED
    BY <2>1, <2>2, <2>3 DEF Structure
<1>2. CASE ExecuteTask
  <2>1. /\ tags' = tags /\ numberOfServers' = numberOfServers
        /\ handling' = handling /\ served' = served /\ alive' = alive /\ reply' = reply
    BY <1>2 DEF ExecuteTask
  <2>. DEFINE a == handling.at
              x == ExecuteOldest(servers[a])
  <2>2. /\ a \in Live /\ Live' = Live /\ servers' \in Servers
        /\ servers'[a] = x
        /\ \A s \in Live \ {a} : servers'[s] = servers[s]
        /\ ServerOK(x) /\ taskReply' \in Reply
    BY <1>2, ExecuteTaskEffect
  <2>. HIDE DEF a, x
  <2>3. \A s \in Live' : ServerOK(servers'[s])
    BY <2>2 DEF Structure
  <2>4. TypeOK' /\ HandlingOK'
    BY <2>1, <2>2 DEF TypeOK, HandlingOK, Structure, Servers
  <2>. QED
    BY <2>1, <2>2, <2>3, <2>4 DEF Structure
<1>3. CASE FinishGet
  <2>1. /\ tags' = tags /\ numberOfServers' = numberOfServers
        /\ handling' = Nobody /\ served' = served /\ alive' = alive /\ taskReply' = taskReply
    BY <1>3 DEF FinishGet
  <2>. DEFINE a == handling.at
              x == GetDocument(servers[a], handling.doc)
  <2>2. /\ a \in Live /\ Live' = Live /\ servers' \in Servers
        /\ servers'[a] = x
        /\ \A s \in Live \ {a} : servers'[s] = servers[s]
        /\ ServerOK(x) /\ reply' \in Reply
    BY <1>3, FinishGetEffect
  <2>. HIDE DEF a, x
  <2>3. \A s \in Live' : ServerOK(servers'[s])
    BY <2>2 DEF Structure
  <2>4. TypeOK' /\ HandlingOK'
    BY <2>1, <2>2 DEF TypeOK, HandlingOK, Structure, Servers
  <2>. QED
    BY <2>1, <2>2, <2>3, <2>4 DEF Structure
<1>4. CASE FinishAdd
  <2>1. /\ tags' = tags /\ numberOfServers' = numberOfServers
        /\ handling' = Nobody /\ served' = served /\ alive' = alive
        /\ reply' = reply /\ taskReply' = taskReply
    BY <1>4 DEF FinishAdd
  <2>2. /\ Live' = Live /\ servers' \in Servers
        /\ \A u \in Live : ServerOK(servers'[u])
    BY <1>4, FinishAddEffect
  <2>3. TypeOK' /\ HandlingOK'
    BY <2>1, <2>2 DEF TypeOK, HandlingOK, Structure, Servers
  <2>. QED
    BY <2>1, <2>2, <2>3 DEF Structure
<1>5. CASE FinishRemove
  <2>1. /\ numberOfServers' = numberOfServers
        /\ handling' = Nobody /\ served' = served /\ alive' = alive
        /\ reply' = reply /\ taskReply' = taskReply
    BY <1>5 DEF FinishRemove
  <2>2. /\ servers' \in Servers
        /\ tags' \in Seq(ServerIds) /\ Ascending(tags') /\ ToSet(tags') = Live'
        /\ \A u \in Live' : ServerOK(servers'[u])
    BY <1>5, FinishRemoveEffect
  <2>3. TypeOK' /\ HandlingOK'
    BY <2>1, <2>2 DEF TypeOK, HandlingOK, Structure, Servers
  <2>. QED
    BY <2>1, <2>2, <2>3 DEF Structure
<1>. QED
  BY <1>1, <1>2, <1>3, <1>4, <1>5 DEF Step

\* Every step keeps the structure.
LEMMA StructureInductive == Structure /\ [Next]_vars => Structure'
<1>. SUFFICES ASSUME Structure, [Next]_vars
              PROVE  Structure'
  OBVIOUS
<1>1. CASE UNCHANGED vars
  BY <1>1 DEF vars, Structure, TypeOK, Live, HandlingOK
<1>. QED
  BY <1>1, StructureRequest, StructureStep DEF Next

\* The ring is sorted and holds the servers that are alive, each with a cache
\* whose list and map agree (loader_add_server, loader_remove_server).
THEOREM StructureInvariant == Spec => []Structure
BY StructureInit, StructureInductive, PTL DEF Spec

\* The ring has one tag for each server in the array and stays sorted by hash,
\* and every variable has its type: add_node_in_ascending_order puts a new tag
\* in its place, and remove_node_with_key takes away the tag of the server.
THEOREM RingStaysSorted == Spec => []RingSorted
<1>1. Structure => RingSorted
  BY DEF Structure, RingSorted, Ascending
<1>. QED
  BY <1>1, StructureInvariant, PTL

\* On every server the cache's table and list hold the same documents, all of
\* them in its database, whatever joins and leaves move.
THEOREM CachesStayConsistent == Spec => []CachesConsistent
<1>1. Structure => CachesConsistent
  BY DEF Structure, CachesConsistent, ServerOK, Matches
<1>. QED
  BY <1>1, StructureInvariant, PTL

-----------------------------------------------------------------------------
\* The counter of a cache is k below the length of its list, and wraps below
\* zero; the list is at most k longer than the cache may be.
Debt(c, k) ==
  /\ c.size = IF Len(c.list) >= k THEN Len(c.list) - k
              ELSE Len(c.list) - k + UintModulus
  /\ Len(c.list) <= c.capacity + k

\* The numbers of a cache are in range.
LEMMA MatchesNumbers ==
  ASSUME NEW c, Matches(c)
  PROVE  /\ Len(c.list) \in Nat /\ c.list \in Seq(Docs) /\ IsInjective(c.list)
         /\ c.size \in 0 .. UintModulus - 1
         /\ c.capacity \in 0 .. UintModulus - 1
         /\ UintModulus \in Nat /\ UintModulus > 0
         /\ (Len(c.list) = 0) <=> (c.list = <<>>)
<1>1. c \in LruCache /\ UintModulus \in Nat /\ UintModulus > 0
  BY UintAssumption DEF Matches
<1>2. c.list \in Seq(Docs)
  BY <1>1 DEF LruCache
<1>. QED
  BY <1>1, <1>2, LenProperties, EmptySeq DEF LruCache, Matches

\* Using and adding documents leaves the debt of a cache as it is.
LEMMA DebtFollows ==
  ASSUME NEW c, Matches(c), NEW n, Matches(n), Follows(c, n),
         NEW k \in Nat, Debt(c, k), c.capacity # 0
  PROVE  Debt(n, k)
<1>. DEFINE m == UintModulus
            z == c.size
            a == Len(c.list)
            p == c.capacity
<1>1. /\ m \in Nat /\ m > 0 /\ z \in 0 .. m - 1 /\ a \in Nat /\ p \in 1 .. m - 1
      /\ z = (IF a >= k THEN a - k ELSE a - k + m) /\ a <= p + k
      /\ c.list = <<>> => a = 0
  BY MatchesNumbers DEF Debt
<1>2. n.capacity = p
  BY DEF Follows
<1>3. \/ n.size = z /\ Len(n.list) = a
      \/ n.size = (z + 1) % m /\ Len(n.list) = a + 1 /\ (p # z \/ a = 0)
  BY <1>1 DEF Follows, LruCacheIsFull
<1>. HIDE DEF m, z, a, p
<1>4. CASE n.size = z /\ Len(n.list) = a
  BY <1>1, <1>2, <1>4 DEF Debt, m
<1>5. CASE n.size = (z + 1) % m /\ Len(n.list) = a + 1 /\ (p # z \/ a = 0)
  <2>1. CASE a >= k
    <3>1. z = a - k /\ a + 1 <= p + k /\ z + 1 < m
      BY <1>1, <1>5, <2>1
    <3>2. (z + 1) % m = z + 1
      BY <1>1, <3>1, NoWrap
    <3>. QED
      BY <1>1, <1>2, <1>5, <2>1, <3>1, <3>2 DEF Debt, m
  <2>2. CASE a + 1 < k
    <3>1. z = a - k + m /\ z + 1 < m
      BY <1>1, <2>2
    <3>2. (z + 1) % m = z + 1
      BY <1>1, <3>1, NoWrap
    <3>. QED
      BY <1>1, <1>2, <1>5, <2>2, <3>1, <3>2 DEF Debt, m
  <2>3. CASE a + 1 = k
    <3>1. z + 1 = m
      BY <1>1, <2>3
    <3>2. (z + 1) % m = 0
      BY <1>1, <3>1
    <3>. QED
      BY <1>1, <1>2, <1>5, <2>3, <3>2 DEF Debt, m
  <2>. QED
    BY <1>1, <2>1, <2>2, <2>3
<1>. QED
  BY <1>3, <1>4, <1>5

\* A cache does not lose more documents than the database gives entries away.
LEMMA DocumentsLost ==
  ASSUME Structure, NEW a \in Live, NEW s \in Live
  PROVE  /\ EntriesTaken(servers[a].db, s) \in Nat
         /\ Cardinality(ToSet(servers[a].cache.list) \cap Taken(servers[a].db, s))
              <= EntriesTaken(servers[a].db, s)
<1>. DEFINE db == servers[a].db
            M == 1 .. MaximumDatabaseEntries + 1
            T == Taken(db, s)
            E == {e \in T \X M : e[2] <= Len(db[e[1]])}
            D == ToSet(servers[a].cache.list) \cap T
            f == [d \in D |-> <<d, 1>>]
<1>1. /\ MaximumDatabaseEntries \in Nat /\ IsFiniteSet(Docs)
  BY LoadBalancerAssumption
<1>2. db \in Database
  BY LiveServers
<1>3. IsFiniteSet(T \X M) /\ EntriesTaken(db, s) = Cardinality(E)
  <2>1. IsFiniteSet(M)
    BY <1>1, FS_Interval
  <2>2. IsFiniteSet(T)
    BY <1>1, FS_Subset DEF Taken
  <2>. HIDE DEF M, T
  <2>3. IsFiniteSet(T \X M)
    BY <2>1, <2>2, FS_Product
  <2>. QED
    BY <2>3 DEF EntriesTaken, M, T
<1>4. 1 \in M
  BY <1>1
<1>5. \A d \in T : Len(db[d]) \in Nat /\ 1 <= Len(db[d])
  <2>1. SUFFICES ASSUME NEW d \in T
                 PROVE  Len(db[d]) \in Nat /\ 1 <= Len(db[d])
    OBVIOUS
  <2>2. db[d] \in Seq(Contents) /\ db[d] # <<>>
    BY <1>2 DEF Taken, InDatabase, Database
  <2>. QED
    BY <2>2, LenProperties, EmptySeq
<1>. HIDE DEF M, T, db
<1>6. \A d \in D : <<d, 1>> \in E
  BY <1>4, <1>5
<1>7. f \in Injection(D, E)
  BY <1>6 DEF Injection, IsInjective
<1>. HIDE DEF f
<1>8. IsFiniteSet(E)
  BY <1>3, FS_Subset
<1>. HIDE DEF D, E
<1>9. Cardinality(D) <= Cardinality(E) /\ Cardinality(E) \in Nat
  BY <1>7, <1>8, FS_Injection, FS_CardinalityType
<1>. QED
  BY <1>3, <1>9 DEF D, db, T

\* The cache of a server that gave documents away has the n entries it gave as
\* additional debt, less the m documents it had cached.
LEMMA DebtOfGiving ==
  ASSUME Structure, NEW a \in Live, NEW s \in Live,
         NEW k \in Nat, Debt(servers[a].cache, k),
         k + EntriesTaken(servers[a].db, s) < UintModulus
  PROVE  /\ CacheGiven(a, s).capacity = servers[a].cache.capacity
         /\ \E j \in 0 .. k + EntriesTaken(servers[a].db, s) : Debt(CacheGiven(a, s), j)
<1>. DEFINE c == servers[a].cache
            g == CacheGiven(a, s)
            T == Taken(servers[a].db, s)
            n == EntriesTaken(servers[a].db, s)
            w == Cardinality(ToSet(c.list) \cap T)
<1>1. /\ ServerOK(servers[a]) /\ Matches(c) /\ T \in SUBSET Docs
  BY LiveServers DEF Structure, Taken
<1>2. n \in Nat /\ w <= n
  BY DocumentsLost
<1>3. g = GivingCache(c, T, n)
  BY DEF CacheGiven
<1>. HIDE DEF T, n, g
<1>4. /\ Matches(g) /\ ToSet(g.list) = ToSet(c.list) \ T
      /\ g.capacity = c.capacity /\ g.size = (c.size - n) % UintModulus
  <2>. DEFINE x == servers[a]
  <2>. HIDE DEF x
  <2>1. ServerOK(x) /\ c = x.cache
    BY <1>1 DEF x
  <2>2. /\ Matches(GivingCache(x.cache, T, n))
        /\ ToSet(GivingCache(x.cache, T, n).list) = ToSet(x.cache.list) \ T
    BY <1>1, <1>2, <2>1, GivingCacheOK
  <2>3. c \in LruCache
    BY <1>1 DEF Matches
  <2>. HIDE DEF c
  <2>4. g.capacity = c.capacity /\ g.size = (c.size - n) % UintModulus
    BY <1>3, <2>3 DEF GivingCache, LruCache
  <2>. QED
    BY <1>3, <2>1, <2>2, <2>4
<1>5. /\ Len(c.list) \in Nat /\ c.list \in Seq(Docs) /\ IsInjective(c.list)
      /\ Len(g.list) \in Nat /\ g.list \in Seq(Docs) /\ IsInjective(g.list)
      /\ c.size \in 0 .. UintModulus - 1 /\ c.capacity \in 0 .. UintModulus - 1
      /\ UintModulus \in Nat /\ UintModulus > 0
  BY <1>1, <1>4, MatchesNumbers
<1>6. Len(g.list) = Len(c.list) - w /\ w \in Nat
  <2>1. /\ IsFiniteSet(ToSet(c.list)) /\ Cardinality(ToSet(c.list)) = Len(c.list)
        /\ IsFiniteSet(ToSet(g.list)) /\ Cardinality(ToSet(g.list)) = Len(g.list)
    BY <1>5, InjectiveLength
  <2>2. Cardinality(ToSet(c.list) \ T)
          = Cardinality(ToSet(c.list)) - Cardinality(ToSet(c.list) \cap T)
    BY <2>1, FS_Difference
  <2>3. IsFiniteSet(ToSet(c.list) \cap T)
    BY <2>1, FS_Subset
  <2>. QED
    BY <1>4, <2>1, <2>2, <2>3, FS_CardinalityType
<1>. DEFINE m == UintModulus
            z == c.size
            b == Len(c.list)
            p == c.capacity
            j == k + n - w
<1>7. /\ z = (IF b >= k THEN b - k ELSE b - k + m) /\ b <= p + k /\ k + n < m
  BY DEF Debt, n
<1>8. j \in 0 .. k + n
  BY <1>2, <1>6
<1>. HIDE DEF m, z, b, p, w, c
<1>9. g.size = (z - n) % m /\ Len(g.list) = b - w /\ g.capacity = p /\ b - w \in Nat
  BY <1>4, <1>5, <1>6 DEF z, m, b, p, c
<1>10. /\ m \in Nat /\ m > 0 /\ z \in 0 .. m - 1 /\ b \in Nat /\ p \in 0 .. m - 1
       /\ n \in 0 .. m - 1
  BY <1>2, <1>5, <1>7 DEF m, z, b, p, c
<1>11. (z - n) % m = IF z >= n THEN z - n ELSE z - n + m
  BY <1>10, Wraps
<1>12. Debt(g, j)
  <2>1. Len(g.list) <= g.capacity + j
    BY <1>2, <1>6, <1>7, <1>9, <1>10
  <2>2. (z - n) % m = IF b - w >= j THEN b - w - j ELSE b - w - j + m
    <3>1. b - w >= j <=> b - k >= n
      BY <1>2, <1>6, <1>10
    <3>2. CASE b >= k
      BY <1>2, <1>6, <1>7, <1>10, <1>11, <3>1, <3>2
    <3>3. CASE b < k
      <4>1. z = b - k + m /\ z >= n
        BY <1>2, <1>7, <1>10, <3>3
      <4>. QED
        BY <1>2, <1>6, <1>10, <1>11, <3>1, <3>3, <4>1
    <3>. QED
      BY <1>10, <3>2, <3>3
  <2>. QED
    BY <1>9, <2>1, <2>2 DEF Debt, m
<1>. QED
  BY <1>4, <1>8, <1>12 DEF g, n, c

\* The requests whose handlers have ended.
Finished == IF handling = Nobody THEN served ELSE served - 1

\* Every cache is at most as far from its counter as all the joins together that
\* the input can have contained move entries.
SizesExplained ==
  /\ handling # Nobody => served >= 1
  /\ \A s \in Live :
       /\ servers[s].cache.capacity \in CacheSizes
       /\ \E k \in 0 .. Finished * MaximumDatabaseEntries : Debt(servers[s].cache, k)

\* What the input must leave room for: an unsigned int that all entries the joins
\* of the whole input can move do not carry from zero down to a cache size.
CounterHasRoom ==
  \A cap \in CacheSizes : cap + RequestsNum * MaximumDatabaseEntries < UintModulus

\* The parts of a server whose cache and database are replaced.
LEMMA WithFields ==
  ASSUME NEW x, NEW c, NEW db
  PROVE  With(x, c, db).cache = c /\ With(x, c, db).db = db /\ With(x, c, db).queue = x.queue
BY DEF With

\* Multiplication by a number of entries is monotonic.
LEMMA MoreEntries ==
  ASSUME NEW a \in Nat, NEW b \in Nat, NEW m \in Nat
  PROVE  /\ a * m \in Nat
         /\ (a + 1) * m = a * m + m
         /\ a <= b => a * m <= b * m
<1>1. a * m \in Nat /\ (a + 1) * m = a * m + m
  OBVIOUS
<1>2. ASSUME a <= b PROVE a * m <= b * m
  <2>. DEFINE c == b - a
  <2>1. c \in Nat /\ b = a + c
    BY <1>2
  <2>. HIDE DEF c
  <2>2. b * m = a * m + c * m /\ c * m \in Nat /\ a * m \in Nat
    BY <2>1
  <2>. QED
    BY <2>2
<1>. QED
  BY <1>1, <1>2

\* No more requests finish than are made.
LEMMA FinishedBound ==
  ASSUME Structure, SizesExplained
  PROVE  /\ Finished \in 0 .. RequestsNum /\ Finished \in Nat /\ RequestsNum \in Nat
         /\ MaximumDatabaseEntries \in Nat
         /\ Finished * MaximumDatabaseEntries \in Nat
         /\ Finished * MaximumDatabaseEntries <= RequestsNum * MaximumDatabaseEntries
<1>1. /\ RequestsNum \in Nat /\ MaximumDatabaseEntries \in Nat
  BY LoadBalancerAssumption
<1>2. Finished \in 0 .. RequestsNum
  BY <1>1 DEF Structure, TypeOK, Finished, SizesExplained
<1>. QED
  BY <1>1, <1>2, MoreEntries

\* Without servers there are no sizes to explain.
LEMMA SizesInit == Init => SizesExplained
<1>. SUFFICES ASSUME Init
              PROVE  SizesExplained
  OBVIOUS
<1>1. handling = Nobody /\ Live = {}
  BY DEF Init, Live
<1>. QED
  BY <1>1 DEF SizesExplained

\* A bound that does not go down, and caches that are each as before, or like a
\* cache that was as before.
LEMMA SizesKept ==
  ASSUME SizesExplained, Structure,
         handling' # Nobody => served' >= 1,
         Finished' \in Nat, Finished <= Finished',
         \A s \in Live' : s \in Live /\ servers'[s].cache = servers[s].cache
  PROVE  SizesExplained'
<1>1. /\ Finished * MaximumDatabaseEntries \in Nat
      /\ Finished' * MaximumDatabaseEntries \in Nat
      /\ Finished * MaximumDatabaseEntries <= Finished' * MaximumDatabaseEntries
  BY FinishedBound, MoreEntries
<1>2. ASSUME NEW s \in Live'
      PROVE  /\ servers'[s].cache.capacity \in CacheSizes
             /\ \E k \in 0 .. Finished' * MaximumDatabaseEntries : Debt(servers'[s].cache, k)
  <2>1. /\ servers[s].cache.capacity \in CacheSizes
        /\ \E k \in 0 .. Finished * MaximumDatabaseEntries : Debt(servers[s].cache, k)
    BY DEF SizesExplained
  <2>. QED
    BY <1>1, <2>1
<1>. QED
  BY <1>2 DEF SizesExplained

\* The same when one server's cache is used.
LEMMA SizesUsed ==
  ASSUME SizesExplained, Structure, Structure',
         handling' # Nobody => served' >= 1,
         Finished' \in Nat, Finished <= Finished', Live' = Live,
         NEW a \in Live, servers[a].cache.capacity # 0,
         Follows(servers[a].cache, servers'[a].cache),
         \A s \in Live \ {a} : servers'[s] = servers[s]
  PROVE  SizesExplained'
<1>1. /\ Finished * MaximumDatabaseEntries \in Nat
      /\ Finished' * MaximumDatabaseEntries \in Nat
      /\ Finished * MaximumDatabaseEntries <= Finished' * MaximumDatabaseEntries
  BY FinishedBound, MoreEntries
<1>2. ASSUME NEW s \in Live
      PROVE  /\ servers'[s].cache.capacity \in CacheSizes
             /\ \E k \in 0 .. Finished' * MaximumDatabaseEntries : Debt(servers'[s].cache, k)
  <2>1. servers[s].cache.capacity \in CacheSizes
    BY DEF SizesExplained
  <2>2. PICK k \in 0 .. Finished * MaximumDatabaseEntries : Debt(servers[s].cache, k)
    BY DEF SizesExplained
  <2>3. k \in Nat /\ k \in 0 .. Finished' * MaximumDatabaseEntries
    BY <1>1
  <2>4. CASE s # a
    BY <2>1, <2>2, <2>3, <2>4
  <2>5. CASE s = a
    <3>1. Matches(servers[a].cache) /\ Matches(servers'[a].cache)
      BY DEF Structure, ServerOK
    <3>2. Debt(servers'[a].cache, k)
      BY <2>2, <2>3, <2>5, <3>1, DebtFollows
    <3>3. servers'[a].cache.capacity = servers[a].cache.capacity
      BY DEF Follows
    <3>. QED
      BY <2>1, <2>3, <2>5, <3>2, <3>3
  <2>. QED
    BY <2>4, <2>5
<1>. QED
  BY <1>2 DEF SizesExplained

\* Every step keeps the sizes explained, as long as the counter has room.
LEMMA SizesInductive ==
  ASSUME CounterHasRoom
  PROVE  Structure /\ SizesExplained /\ [Next]_vars => SizesExplained'
<1>. SUFFICES ASSUME Structure, SizesExplained, [Next]_vars
              PROVE  SizesExplained'
  OBVIOUS
<1>1. Structure'
  BY StructureInductive
<1>2. /\ Finished \in Nat /\ served \in Nat
      /\ handling = Nobody => Finished = served
      /\ handling # Nobody => Finished = served - 1 /\ served >= 1
  BY FinishedBound DEF Finished, SizesExplained, Structure, TypeOK
<1>3. CASE UNCHANGED vars
  <2>1. Live' = Live /\ Finished' = Finished /\ servers' = servers
        /\ handling' = handling /\ served' = served
    BY <1>3 DEF vars, Live, Finished
  <2>. QED
    BY <1>2, <2>1, SizesKept
<1>4. ASSUME handling = Nobody, served' = served + 1
      PROVE  /\ Finished' \in Nat /\ Finished <= Finished'
             /\ handling' # Nobody => served' >= 1
  BY <1>2, <1>4 DEF Finished
<1>5. ASSUME NEW s \in ServerIds, NEW size \in CacheSizes, AddServer(s, size)
      PROVE  SizesExplained'
  <2>1. /\ handling = Nobody /\ served' = served + 1
    BY <1>5 DEF AddServer, Ready, NextRequest
  <2>2. /\ Live' = Live \cup {s} /\ servers'[s] = InitServer(size)
        /\ \A t \in Live : servers'[t] = servers[t]
    BY <1>5, AddServerEffect
  <2>3. /\ Finished' \in Nat /\ Finished <= Finished'
        /\ handling' # Nobody => served' >= 1
    BY <1>4, <2>1
  <2>4. /\ Finished * MaximumDatabaseEntries \in Nat
        /\ Finished' * MaximumDatabaseEntries \in Nat
        /\ Finished * MaximumDatabaseEntries <= Finished' * MaximumDatabaseEntries
    BY <2>3, FinishedBound, MoreEntries
  <2>5. ASSUME NEW t \in Live'
        PROVE  /\ servers'[t].cache.capacity \in CacheSizes
               /\ \E k \in 0 .. Finished' * MaximumDatabaseEntries : Debt(servers'[t].cache, k)
    <3>1. CASE t \in Live
      <4>1. /\ servers[t].cache.capacity \in CacheSizes
            /\ \E k \in 0 .. Finished * MaximumDatabaseEntries : Debt(servers[t].cache, k)
        BY <3>1 DEF SizesExplained
      <4>. QED
        BY <2>2, <2>4, <3>1, <4>1
    <3>2. CASE t = s
      <4>1. size \in 0 .. UintModulus - 1
        BY LoadBalancerAssumption
      <4>2. /\ servers'[s].cache.capacity = size /\ servers'[s].cache.size = 0
            /\ servers'[s].cache.list = <<>>
        <5>1. servers'[s].cache = InitLruCache(size)
          BY <2>2, <4>1, InitServerOK
        <5>. QED
          BY <5>1 DEF InitLruCache
      <4>3. Debt(servers'[s].cache, 0)
        BY <4>1, <4>2 DEF Debt
      <4>. QED
        BY <2>4, <3>2, <4>2, <4>3
    <3>. QED
      BY <2>2, <3>1, <3>2
  <2>. QED
    BY <2>3, <2>5 DEF SizesExplained
<1>6. ASSUME NEW s \in ServerIds, RemoveServer(s)
      PROVE  SizesExplained'
  <2>1. /\ handling = Nobody /\ served' = served + 1 /\ servers' = servers
    BY <1>6 DEF RemoveServer, Ready, NextRequest
  <2>2. Live' = Live
    BY <2>1 DEF Live
  <2>. QED
    BY <1>4, <2>1, <2>2, SizesKept
<1>7. ASSUME NEW d \in Docs, EditDoc(d)
      PROVE  SizesExplained'
  <2>1. /\ handling = Nobody /\ served' = served + 1
    BY <1>7 DEF EditDoc, Ready, NextRequest
  <2>. DEFINE t == Destination(d)
  <2>2. /\ Live' = Live /\ t \in Live
        /\ servers'[t] = AddTaskInQueue(servers[t], d, served')
        /\ \A s \in Live \ {t} : servers'[s] = servers[s]
        /\ served' \in Contents
    BY <1>7, EditDocEffect
  <2>. HIDE DEF t
  <2>3. servers'[t].cache = servers[t].cache
    <3>1. servers[t] \in ServerState
      BY <2>2, LiveServers
    <3>. QED
      BY <2>2, <3>1 DEF AddTaskInQueue, ServerState
  <2>4. \A s \in Live' : s \in Live /\ servers'[s].cache = servers[s].cache
    BY <2>2, <2>3
  <2>. QED
    BY <1>4, <2>1, <2>4, SizesKept
<1>8. ASSUME NEW d \in Docs, GetDoc(d)
      PROVE  SizesExplained'
  <2>1. /\ handling = Nobody /\ served' = served + 1 /\ servers' = servers
    BY <1>8 DEF GetDoc, Ready, NextRequest
  <2>2. Live' = Live
    BY <2>1 DEF Live
  <2>. QED
    BY <1>4, <2>1, <2>2, SizesKept
<1>9. CASE Die
  <2>1. /\ handling' = handling /\ served' = served /\ servers' = servers
    BY <1>9 DEF Die
  <2>2. Live' = Live /\ Finished' = Finished
    BY <2>1 DEF Live, Finished
  <2>. QED
    BY <1>2, <2>1, <2>2, SizesKept
<1>10. CASE ExecuteTask
  <2>1. /\ handling' = handling /\ served' = served /\ handling # Nobody /\ ~Dies
    BY <1>10 DEF ExecuteTask
  <2>. DEFINE a == handling.at
  <2>2. /\ a \in Live /\ Live' = Live
        /\ servers'[a] = ExecuteOldest(servers[a])
        /\ \A s \in Live \ {a} : servers'[s] = servers[s]
        /\ servers[a].queue # <<>>
    BY <1>10, ExecuteTaskEffect
  <2>3. servers[a].cache.capacity # 0
    BY <2>1, <2>2 DEF Dies, At
  <2>. HIDE DEF a
  <2>4. Follows(servers[a].cache, servers'[a].cache)
    BY <2>2, ExecuteOldestOK DEF Structure
  <2>5. Finished' = Finished
    BY <2>1 DEF Finished
  <2>. QED
    BY <1>1, <1>2, <2>1, <2>2, <2>3, <2>4, <2>5, SizesUsed
<1>11. CASE FinishGet
  <2>1. /\ handling' = Nobody /\ served' = served /\ handling # Nobody /\ ~Dies
        /\ handling.op = "get"
    BY <1>11 DEF FinishGet, Running
  <2>. DEFINE a == handling.at
  <2>2. /\ a \in Live /\ Live' = Live /\ handling.doc \in Docs
        /\ servers'[a] = GetDocument(servers[a], handling.doc)
        /\ \A s \in Live \ {a} : servers'[s] = servers[s]
    BY <1>11, FinishGetEffect
  <2>3. servers[a].cache.capacity # 0
    BY <2>1 DEF Dies, At
  <2>. HIDE DEF a
  <2>4. Follows(servers[a].cache, servers'[a].cache)
    BY <2>2, GetDocumentOK DEF Structure
  <2>5. Finished' \in Nat /\ Finished <= Finished'
    BY <1>2, <2>1 DEF Finished
  <2>. QED
    BY <1>1, <1>2, <2>1, <2>2, <2>3, <2>4, <2>5, SizesUsed
<1>12. CASE FinishAdd
  <2>1. /\ handling' = Nobody /\ served' = served /\ handling # Nobody /\ ~Dies
        /\ handling.op = "add"
    BY <1>12 DEF FinishAdd, Running
  <2>. DEFINE a == handling.at
              s == handling.server
              n == EntriesTaken(servers[a].db, s)
              M == MaximumDatabaseEntries
  <2>2. /\ a \in Live /\ s \in Live /\ Live' = Live
        /\ servers[a].queue = <<>>
        /\ \A u \in Live : servers'[u] =
             With(servers[u], IF u = a THEN CacheGiven(a, s) ELSE servers[u].cache,
                              IF u = s THEN DbTaken(a, s) ELSE servers[u].db)
    BY <1>12, FinishAddEffect
  <2>3. ~(n > M)
    BY <2>1, <2>2 DEF Dies, At, EntriesMoving
  <2>. HIDE DEF a, s
  <2>4. \A u \in Live : servers'[u].cache = IF u = a THEN CacheGiven(a, s)
                                            ELSE servers[u].cache
    BY <2>2, WithFields
  <2>5. n \in Nat /\ M \in Nat /\ n <= M
    <3>1. n \in Nat
      BY <2>2, DocumentsLost
    <3>2. M \in Nat
      BY FinishedBound
    <3>. QED
      BY <2>3, <3>1, <3>2
  <2>6. Finished' = Finished + 1 /\ Finished + 1 <= RequestsNum
    BY <1>2, <2>1, FinishedBound DEF Finished, Structure, TypeOK
  <2>7. /\ Finished * M \in Nat /\ Finished' * M = Finished * M + M
        /\ Finished' * M <= RequestsNum * M /\ RequestsNum * M \in Nat
    BY <1>2, <2>5, <2>6, FinishedBound, MoreEntries
  <2>. DEFINE B == Finished * M
              E == Finished' * M
              R == RequestsNum * M
  <2>9. B \in Nat /\ E = B + M /\ E <= R /\ R \in Nat /\ E \in Nat
    BY <2>5, <2>7
  <2>. HIDE DEF n, M, B, E, R
  <2>8. ASSUME NEW u \in Live
        PROVE  /\ servers'[u].cache.capacity \in CacheSizes
               /\ \E k \in 0 .. E : Debt(servers'[u].cache, k)
    <3>1. servers[u].cache.capacity \in CacheSizes
      BY DEF SizesExplained
    <3>2. PICK k \in 0 .. B : Debt(servers[u].cache, k)
      BY DEF SizesExplained, B, M
    <3>3. CASE u # a
      <4>1. k \in 0 .. E
        BY <2>5, <2>9
      <4>. QED
        BY <2>4, <3>1, <3>2, <3>3, <4>1
    <3>4. CASE u = a
      <4>1. k \in Nat /\ k + n \in Nat /\ k + n <= E
        BY <2>5, <2>9
      <4>2. k + n < UintModulus
        <5>1. servers[u].cache.capacity \in Nat /\ UintModulus \in Nat
          <6>1. UintModulus \in Nat /\ CacheSizes \subseteq 0 .. UintModulus - 1
            BY LoadBalancerAssumption, UintAssumption
          <6>2. servers[u].cache.capacity \in 0 .. UintModulus - 1
            BY <3>1, <6>1
          <6>. QED
            BY <6>1, <6>2
        <5>2. servers[u].cache.capacity + R < UintModulus
          BY <3>1 DEF CounterHasRoom, R, M
        <5>. QED
          BY <2>9, <4>1, <5>1, <5>2
      <4>3. /\ CacheGiven(a, s).capacity = servers[a].cache.capacity
            /\ \E j \in 0 .. k + n : Debt(CacheGiven(a, s), j)
        BY <2>2, <3>2, <3>4, <4>1, <4>2, DebtOfGiving DEF n
      <4>4. servers'[u].cache = CacheGiven(a, s)
        BY <2>4, <3>4
      <4>5. PICK j \in 0 .. k + n : Debt(CacheGiven(a, s), j)
        BY <4>3
      <4>6. j \in 0 .. E
        BY <2>9, <4>1
      <4>. QED
        BY <3>1, <3>4, <4>3, <4>4, <4>5, <4>6
    <3>. QED
      BY <3>3, <3>4
  <2>. QED
    BY <2>1, <2>2, <2>8 DEF SizesExplained, E, M
<1>13. CASE FinishRemove
  <2>1. /\ handling' = Nobody /\ served' = served /\ handling # Nobody
    BY <1>13 DEF FinishRemove, Running
  <2>. DEFINE s == handling.server
              t == NextOnRing(tags', s)
  <2>2. /\ Live' = Live \ {s}
        /\ \A u \in Live' : servers'[u] = With(servers[u], servers[u].cache,
             IF u = t THEN AddAll(servers[u].db, servers[s].db, Docs)
             ELSE servers[u].db)
    BY <1>13, FinishRemoveEffect
  <2>. HIDE DEF s, t
  <2>3. \A u \in Live' : u \in Live /\ servers'[u].cache = servers[u].cache
    BY <2>2, WithFields
  <2>4. Finished' \in Nat /\ Finished <= Finished'
    BY <1>2, <2>1 DEF Finished
  <2>. QED
    BY <2>1, <2>3, <2>4, SizesKept
<1>. QED
  BY <1>3, <1>5, <1>6, <1>7, <1>8, <1>9, <1>10, <1>11, <1>12, <1>13 DEF Next, Request, Step

\* No entry is evicted from a cache that still has room, although moving
\* documents lowers the counter of used entries by more than lru_cache_remove
\* removes, as long as the unsigned counter has room for all of them.
THEOREM EvictsOnlyFromFullCaches ==
  ASSUME CounterHasRoom
  PROVE  Spec => []EvictsOnlyWhenFull
<1>1. ASSUME Structure, SizesExplained PROVE EvictsOnlyWhenFull
  <2>. SUFFICES ASSUME NEW s \in Live, LruCacheIsFull(servers[s].cache)
                PROVE  Len(servers[s].cache.list) >= servers[s].cache.capacity
    BY DEF EvictsOnlyWhenFull
  <2>. DEFINE c == servers[s].cache
              M == MaximumDatabaseEntries
  <2>1. /\ Len(c.list) \in Nat /\ c.capacity \in Nat /\ UintModulus \in Nat
    BY <1>1, LiveServers, MatchesNumbers
  <2>2. /\ c.capacity \in CacheSizes
        /\ \E k \in 0 .. Finished * M : Debt(c, k)
    BY <1>1 DEF SizesExplained
  <2>3. PICK k \in 0 .. Finished * M : Debt(c, k)
    BY <2>2
  <2>4. Finished * M \in Nat /\ Finished * M <= RequestsNum * M /\ RequestsNum * M \in Nat
    BY <1>1, FinishedBound, MoreEntries
  <2>5. c.capacity + RequestsNum * M < UintModulus
    BY <2>2 DEF CounterHasRoom
  <2>6. k \in Nat /\ c.capacity + k < UintModulus
    BY <2>1, <2>4, <2>5
  <2>7. c.capacity = c.size
    BY DEF LruCacheIsFull
  <2>8. c.size = IF Len(c.list) >= k THEN Len(c.list) - k
                 ELSE Len(c.list) - k + UintModulus
    BY <2>3 DEF Debt
  <2>. HIDE DEF c, M
  <2>9. Len(c.list) >= c.capacity
    BY <2>1, <2>6, <2>7, <2>8
  <2>. QED
    BY <2>9 DEF c
<1>2. Init => Structure /\ SizesExplained
  BY StructureInit, SizesInit
<1>3. Structure /\ SizesExplained /\ [Next]_vars => (Structure /\ SizesExplained)'
  BY StructureInductive, SizesInductive
<1>. QED
  BY <1>1, <1>2, <1>3, PTL DEF Spec

-----------------------------------------------------------------------------
(* Where edits wait, in which order, and what is kept of them               *)


\* The texts of the edits of document d in a queue, and a queue in which the
\* edits of each document are in the order of their arrival.
Texts(q, d) == {q[i].content : i \in {j \in DOMAIN q : q[j].doc = d}}

Increasing(q) ==
  \A i, j \in DOMAIN q : i < j /\ q[i].doc = q[j].doc => q[i].content < q[j].content

\* The texts of a document in a queue are those of its tasks.
LEMMA TextsInQueue ==
  ASSUME NEW q \in Seq(Task), NEW d
  PROVE  /\ \A x : x \in Texts(q, d) <=>
                     \E i \in 1 .. Len(q) : q[i].doc = d /\ q[i].content = x
         /\ Len(q) \in Nat /\ DOMAIN q = 1 .. Len(q)
         /\ \A i \in 1 .. Len(q) : q[i].doc \in Docs /\ q[i].content \in Contents
<1>1. Len(q) \in Nat /\ DOMAIN q = 1 .. Len(q)
  BY IndicesOfSeq
<1>2. \A i \in 1 .. Len(q) : q[i] \in Task
  BY ElementOfSeq
<1>3. \A x : x \in Texts(q, d) <=>
               \E i \in 1 .. Len(q) : q[i].doc = d /\ q[i].content = x
  BY <1>1 DEF Texts
<1>. QED
  BY <1>1, <1>2, <1>3 DEF Task

\* A queue whose oldest task was taken.
LEMMA TextsOfTail ==
  ASSUME NEW q \in Seq(Task), q # <<>>, NEW d
  PROVE  /\ Texts(Tail(q), d) \subseteq Texts(q, d)
         /\ Texts(q, d) \subseteq Texts(Tail(q), d) \cup {Head(q).content}
         /\ Head(q).doc # d => Texts(Tail(q), d) = Texts(q, d)
         /\ Head(q).doc = d => Head(q).content \in Texts(q, d)
         /\ Increasing(q) => Increasing(Tail(q))
         /\ Increasing(q) /\ Head(q).doc = d
              => \A y \in Texts(Tail(q), d) : Head(q).content < y
<1>. DEFINE n == Len(q)
            t == Tail(q)
            h == Head(q)
<1>1. /\ n \in Nat /\ n # 0 /\ DOMAIN q = 1 .. n /\ h = q[1]
      /\ t \in Seq(Task) /\ Len(t) = n - 1 /\ \A i \in 1 .. n - 1 : t[i] = q[i + 1]
  BY LenProperties, EmptySeq, HeadTailProperties
<1>2. DOMAIN t = 1 .. n - 1
  BY <1>1, LenProperties
<1>. HIDE DEF n, t, h
<1>3. /\ \A x : x \in Texts(q, d) <=> \E i \in 1 .. n : q[i].doc = d /\ q[i].content = x
      /\ \A x : x \in Texts(t, d) <=> \E i \in 1 .. n - 1 : t[i].doc = d /\ t[i].content = x
  BY <1>1, TextsInQueue DEF n
<1>4. \A i \in 1 .. n - 1 : i + 1 \in 1 .. n /\ i + 1 # 1 /\ 1 < i + 1
  BY <1>1
<1>5. \A i \in 1 .. n : i = 1 \/ (i - 1 \in 1 .. n - 1 /\ t[i - 1] = q[i])
  <2>. SUFFICES ASSUME NEW i \in 1 .. n, i # 1
                PROVE  i - 1 \in 1 .. n - 1 /\ t[i - 1] = q[i]
    OBVIOUS
  <2>1. i - 1 \in 1 .. n - 1 /\ (i - 1) + 1 = i
    BY <1>1
  <2>. QED
    BY <1>1, <2>1
<1>6. Texts(t, d) \subseteq Texts(q, d)
  BY <1>1, <1>3, <1>4
<1>7. ASSUME NEW x \in Texts(q, d)
      PROVE  x \in Texts(t, d) \/ (h.doc = d /\ x = h.content)
  <2>1. PICK i \in 1 .. n : q[i].doc = d /\ q[i].content = x
    BY <1>3
  <2>2. CASE i = 1
    BY <1>1, <2>1, <2>2
  <2>3. CASE i - 1 \in 1 .. n - 1 /\ t[i - 1] = q[i]
    BY <1>3, <2>1, <2>3
  <2>. QED
    BY <1>5, <2>2, <2>3
<1>8. h.doc = d => h.content \in Texts(q, d)
  BY <1>1, <1>3
<1>9. Increasing(q) => Increasing(t)
  <2>. SUFFICES ASSUME Increasing(q), NEW i \in 1 .. n - 1, NEW j \in 1 .. n - 1,
                       i < j, t[i].doc = t[j].doc
                PROVE  t[i].content < t[j].content
    BY <1>2 DEF Increasing
  <2>1. i + 1 < j + 1 /\ t[i] = q[i + 1] /\ t[j] = q[j + 1]
    BY <1>1
  <2>. QED
    BY <1>1, <1>4, <2>1 DEF Increasing
<1>10. ASSUME Increasing(q), h.doc = d, NEW y \in Texts(t, d)
       PROVE  h.content < y
  <2>1. PICK i \in 1 .. n - 1 : t[i].doc = d /\ t[i].content = y
    BY <1>3, <1>10
  <2>2. 1 \in DOMAIN q /\ i + 1 \in DOMAIN q /\ 1 < i + 1 /\ t[i] = q[i + 1] /\ h = q[1]
    BY <1>1, <1>4
  <2>. QED
    BY <1>10, <2>1, <2>2 DEF Increasing
<1>. QED
  BY <1>6, <1>7, <1>8, <1>9, <1>10 DEF t, h

\* A queue with a new task.
LEMMA TextsOfAppend ==
  ASSUME NEW q \in Seq(Task), NEW t \in Task, NEW d
  PROVE  /\ t.doc = d => Texts(Append(q, t), d) = Texts(q, d) \cup {t.content}
         /\ t.doc # d => Texts(Append(q, t), d) = Texts(q, d)
         /\ Increasing(q) /\ (\A y \in Texts(q, t.doc) : y < t.content)
              => Increasing(Append(q, t))
<1>. DEFINE n == Len(q)
            a == Append(q, t)
<1>1. /\ n \in Nat /\ DOMAIN q = 1 .. n /\ a \in Seq(Task) /\ Len(a) = n + 1
      /\ \A i \in 1 .. n : a[i] = q[i]
      /\ a[n + 1] = t
  BY LenProperties, AppendProperties
<1>2. DOMAIN a = 1 .. n + 1
  BY <1>1, LenProperties
<1>. HIDE DEF n, a
<1>3. /\ \A x : x \in Texts(q, d) <=> \E i \in 1 .. n : q[i].doc = d /\ q[i].content = x
      /\ \A x : x \in Texts(a, d) <=> \E i \in 1 .. n + 1 : a[i].doc = d /\ a[i].content = x
  BY <1>1, TextsInQueue DEF n
<1>4. /\ n + 1 \in 1 .. n + 1
      /\ \A i \in 1 .. n : i \in 1 .. n + 1 /\ i < n + 1
      /\ \A i \in 1 .. n + 1 : i \in 1 .. n \/ i = n + 1
  BY <1>1
<1>5. \A x : x \in Texts(a, d) <=> x \in Texts(q, d) \/ (t.doc = d /\ x = t.content)
  BY <1>1, <1>3, <1>4
<1>6. ASSUME Increasing(q), \A y \in Texts(q, t.doc) : y < t.content
      PROVE  Increasing(a)
  <2>. SUFFICES ASSUME NEW i \in 1 .. n + 1, NEW j \in 1 .. n + 1,
                       i < j, a[i].doc = a[j].doc
                PROVE  a[i].content < a[j].content
    BY <1>2 DEF Increasing
  <2>1. i \in 1 .. n
    BY <1>1
  <2>2. CASE j = n + 1
    <3>1. q[i].content \in Texts(q, t.doc)
      BY <1>1, <2>1, <2>2, TextsInQueue DEF n
    <3>. QED
      BY <1>1, <1>6, <2>1, <2>2, <3>1
  <2>3. CASE j \in 1 .. n
    BY <1>1, <1>6, <2>1, <2>3 DEF Increasing
  <2>. QED
    BY <1>4, <2>2, <2>3
<1>. QED
  BY <1>5, <1>6 DEF a

\* An empty queue holds no text.
LEMMA TextsOfEmpty == \A d : Texts(<<>>, d) = {}
BY DEF Texts

\* The texts queued at server s, which waits for nothing once it has left.
Wait(s, d) == IF s \in Live THEN Texts(servers[s].queue, d) ELSE {}

\* What a step does to the edits that wait and to the texts that are stored.
Quiet ==
  /\ \A s \in ServerIds, d \in Docs : Wait(s, d)' = Wait(s, d)
  /\ \A d \in Docs : StoredTexts(d)' = StoredTexts(d)
  /\ \A s \in Live' : \/ s \in Live /\ servers'[s].queue = servers[s].queue
                      \/ servers'[s].queue = <<>>

\* The texts stored of a document when every server that stays has a database
\* as before.
LEMMA SameServersQuiet ==
  ASSUME Structure, Live' = Live,
         \A s \in Live : servers'[s].queue = servers[s].queue,
         \A s \in Live : servers'[s].db = servers[s].db
  PROVE  Quiet
BY DEF Quiet, Wait, StoredTexts

\* A server that joins has an empty queue.
LEMMA AddServerQuiet ==
  ASSUME Structure, NEW s \in ServerIds, NEW size \in CacheSizes, AddServer(s, size)
  PROVE  Quiet
<1>1. /\ s \notin Live /\ Live' = Live \cup {s}
      /\ servers'[s] = InitServer(size)
      /\ \A t \in Live : servers'[t] = servers[t]
  BY AddServerEffect
<1>2. /\ servers'[s].queue = <<>>
      /\ \A d \in Docs : servers'[s].db[d] = <<>>
  <2>1. size \in 0 .. UintModulus - 1
    BY LoadBalancerAssumption
  <2>2. /\ InitServer(size).queue = <<>>
        /\ \A d \in Docs : InitServer(size).db[d] = <<>>
    BY <2>1, InitServerOK
  <2>. QED
    BY <1>1, <2>2
<1>3. \A d \in Docs : ToSet(servers'[s].db[d]) = {}
  BY <1>2 DEF ToSet
<1>4. \A d \in Docs : StoredTexts(d)' = StoredTexts(d)
  BY <1>1, <1>3 DEF StoredTexts
<1>5. \A t \in ServerIds, d \in Docs : Wait(t, d)' = Wait(t, d)
  BY <1>1, <1>2, TextsOfEmpty DEF Wait
<1>. QED
  BY <1>1, <1>2, <1>4, <1>5 DEF Quiet

\* An answered GET adds nothing to a queue.
LEMMA FinishGetQuiet ==
  ASSUME Structure, FinishGet
  PROVE  Quiet
<1>. DEFINE a == handling.at
<1>1. /\ a \in Live /\ Live' = Live /\ handling.doc \in Docs
      /\ servers'[a] = GetDocument(servers[a], handling.doc)
      /\ \A s \in Live \ {a} : servers'[s] = servers[s]
  BY FinishGetEffect
<1>2. servers'[a].queue = servers[a].queue /\ servers'[a].db = servers[a].db
  BY <1>1, GetDocumentOK DEF Structure
<1>. HIDE DEF a
<1>3. \A s \in Live : servers'[s].queue = servers[s].queue /\ servers'[s].db = servers[s].db
  BY <1>1, <1>2
<1>. QED
  BY <1>1, <1>3, SameServersQuiet

\* The end of a join adds nothing to a queue.
LEMMA FinishAddQuiet ==
  ASSUME Structure, FinishAdd
  PROVE  Quiet
<1>. DEFINE a == handling.at
            s == handling.server
            T == Taken(servers[a].db, s)
<1>1. /\ a \in Live /\ s \in Live /\ Live' = Live
      /\ \A u \in Live : servers'[u] =
           With(servers[u], IF u = a THEN CacheGiven(a, s) ELSE servers[u].cache,
                            IF u = s THEN DbTaken(a, s) ELSE servers[u].db)
  BY FinishAddEffect
<1>. HIDE DEF a, s
<1>2. \A u \in Live : /\ servers'[u].queue = servers[u].queue
                      /\ servers'[u].db = IF u = s THEN DbTaken(a, s) ELSE servers[u].db
  BY <1>1, WithFields
<1>3. /\ servers[a].db \in Database /\ servers[s].db \in Database /\ T \in SUBSET Docs
  BY <1>1, LiveServers DEF Taken
<1>4. /\ \A d \in T : ToSet(DbTaken(a, s)[d]) = ToSet(servers[a].db[d]) \cup ToSet(servers[s].db[d])
      /\ \A d \in Docs \ T : DbTaken(a, s)[d] = servers[s].db[d]
  <2>. DEFINE p == servers[a].db
              q == servers[s].db
  <2>1. DbTaken(a, s) = AddAll(q, p, T)
    BY DEF DbTaken
  <2>. HIDE DEF p, q, T
  <2>2. p \in Database /\ q \in Database /\ T \in SUBSET Docs
    BY <1>3 DEF p, q, T
  <2>3. \A d \in T : ToSet(AddAll(q, p, T)[d]) = ToSet(p[d]) \cup ToSet(q[d])
    BY <2>2, AddAllOK
  <2>4. \A d \in Docs \ T : AddAll(q, p, T)[d] = q[d]
    BY <2>2 DEF AddAll
  <2>. QED
    BY <2>1, <2>3, <2>4 DEF p, q
<1>. HIDE DEF T
<1>5. ASSUME NEW d \in Docs PROVE StoredTexts(d)' = StoredTexts(d)
  <2>1. /\ ToSet(servers[s].db[d]) \subseteq ToSet(servers'[s].db[d])
        /\ ToSet(servers'[s].db[d]) \subseteq ToSet(servers[a].db[d]) \cup ToSet(servers[s].db[d])
    BY <1>1, <1>2, <1>4
  <2>2. \A u \in Live \ {s} : servers'[u].db[d] = servers[u].db[d]
    BY <1>2
  <2>. QED
    BY <1>1, <2>1, <2>2 DEF StoredTexts
<1>6. \A u \in ServerIds, d \in Docs : Wait(u, d)' = Wait(u, d)
  BY <1>1, <1>2 DEF Wait
<1>. QED
  BY <1>1, <1>2, <1>5, <1>6 DEF Quiet

\* The end of a leave adds nothing to a queue.
LEMMA FinishRemoveQuiet ==
  ASSUME Structure, FinishRemove
  PROVE  Quiet
<1>. DEFINE s == handling.server
            t == NextOnRing(tags', s)
            db == AddAll(servers[t].db, servers[s].db, Docs)
<1>1. /\ s \in Live /\ Live' = Live \ {s} /\ t \in Live' /\ servers[s].queue = <<>>
      /\ \A u \in Live' : servers'[u] = With(servers[u], servers[u].cache,
           IF u = t THEN AddAll(servers[u].db, servers[s].db, Docs) ELSE servers[u].db)
  BY FinishRemoveEffect
<1>. HIDE DEF s, t
<1>2. \A u \in Live' : /\ servers'[u].queue = servers[u].queue
                       /\ servers'[u].db = IF u = t THEN db ELSE servers[u].db
  BY <1>1, WithFields
<1>3. /\ servers[t].db \in Database /\ servers[s].db \in Database
  BY <1>1, LiveServers
<1>4. \A d \in Docs : ToSet(db[d]) = ToSet(servers[s].db[d]) \cup ToSet(servers[t].db[d])
  <2>. DEFINE p == servers[s].db
              q == servers[t].db
  <2>. HIDE DEF p, q
  <2>1. p \in Database /\ q \in Database /\ db = AddAll(q, p, Docs)
    BY <1>3 DEF p, q
  <2>2. \A d \in Docs : ToSet(AddAll(q, p, Docs)[d]) = ToSet(p[d]) \cup ToSet(q[d])
    BY <2>1, AddAllOK
  <2>. QED
    BY <2>1, <2>2 DEF p, q
<1>. HIDE DEF db
<1>5. ASSUME NEW d \in Docs PROVE StoredTexts(d)' = StoredTexts(d)
  <2>1. ToSet(servers'[t].db[d]) = ToSet(servers[s].db[d]) \cup ToSet(servers[t].db[d])
    BY <1>1, <1>2, <1>4
  <2>2. \A u \in Live' \ {t} : servers'[u].db[d] = servers[u].db[d]
    BY <1>2
  <2>. QED
    BY <1>1, <2>1, <2>2 DEF StoredTexts
<1>6. \A u \in ServerIds, d \in Docs : Wait(u, d)' = Wait(u, d)
  BY <1>1, <1>2, TextsOfEmpty DEF Wait
<1>. QED
  BY <1>1, <1>2, <1>5, <1>6 DEF Quiet

\* The steps that neither queue an edit nor execute one.
LEMMA OtherStepsQuiet ==
  ASSUME Structure, [Next]_vars, ~\E d \in Docs : EditDoc(d), ~ExecuteTask
  PROVE  Quiet
<1>1. ASSUME servers' = servers
      PROVE  Quiet
  <2>1. Live' = Live
    BY <1>1 DEF Live
  <2>. QED
    BY <1>1, <2>1, SameServersQuiet
<1>2. CASE UNCHANGED vars
  BY <1>1, <1>2 DEF vars
<1>3. ASSUME NEW s \in ServerIds, RemoveServer(s) PROVE Quiet
  BY <1>1, <1>3 DEF RemoveServer
<1>4. ASSUME NEW d \in Docs, GetDoc(d) PROVE Quiet
  BY <1>1, <1>4 DEF GetDoc
<1>5. CASE Die
  BY <1>1, <1>5 DEF Die
<1>. QED
  BY <1>2, <1>3, <1>4, <1>5, AddServerQuiet, FinishGetQuiet, FinishAddQuiet,
     FinishRemoveQuiet DEF Next, Request, Step

\* An edit waits at one server.
LEMMA EditDocWaits ==
  ASSUME Structure, NEW d \in Docs, EditDoc(d), NEW t, t = Destination(d)
  PROVE  /\ t \in Live /\ Live' = Live /\ t \in ServerIds
         /\ Wait(t, d)' = Wait(t, d) \cup {served'}
         /\ \A s \in ServerIds, e \in Docs : s # t \/ e # d => Wait(s, e)' = Wait(s, e)
         /\ \A e \in Docs : StoredTexts(e)' = StoredTexts(e)
         /\ \A s \in Live \ {t} : servers'[s] = servers[s]
         /\ Increasing(servers[t].queue) /\ (\A y \in Wait(t, d) : y < served')
              => Increasing(servers'[t].queue)
<1>. DEFINE k == [doc |-> d, content |-> served']
<1>1. /\ t \in Live /\ Live' = Live
      /\ servers'[t] = AddTaskInQueue(servers[t], d, served')
      /\ \A s \in Live \ {t} : servers'[s] = servers[s]
      /\ served' \in Contents
  BY EditDocEffect
<1>2. servers[t] \in ServerState /\ servers[t].queue \in Seq(Task) /\ Live \subseteq ServerIds
  BY <1>1, LiveServers
<1>3. /\ servers'[t].queue = Append(servers[t].queue, k)
      /\ servers'[t].db = servers[t].db
  BY <1>1, <1>2 DEF AddTaskInQueue, ServerState
<1>4. k \in Task /\ k.doc = d /\ k.content = served'
  BY <1>1 DEF Task
<1>. HIDE DEF k
<1>5. /\ Texts(servers'[t].queue, d) = Texts(servers[t].queue, d) \cup {served'}
      /\ \A e \in Docs \ {d} : Texts(servers'[t].queue, e) = Texts(servers[t].queue, e)
      /\ Increasing(servers[t].queue) /\ (\A y \in Texts(servers[t].queue, d) : y < served')
           => Increasing(servers'[t].queue)
  <2>. DEFINE q == servers[t].queue
              c == served'
  <2>1. q \in Seq(Task) /\ servers'[t].queue = Append(q, k) /\ k.content = c
    BY <1>2, <1>3, <1>4
  <2>. HIDE DEF q, c
  <2>2. Texts(Append(q, k), d) = Texts(q, d) \cup {c}
    BY <1>4, <2>1, TextsOfAppend
  <2>3. \A e \in Docs \ {d} : Texts(Append(q, k), e) = Texts(q, e)
    BY <1>4, <2>1, TextsOfAppend
  <2>4. Increasing(q) /\ (\A y \in Texts(q, d) : y < c) => Increasing(Append(q, k))
    BY <1>4, <2>1, TextsOfAppend
  <2>. QED
    BY <2>1, <2>2, <2>3, <2>4 DEF q, c
<1>6. \A e \in Docs : StoredTexts(e)' = StoredTexts(e)
  BY <1>1, <1>3 DEF StoredTexts
<1>7. /\ Wait(t, d)' = Wait(t, d) \cup {served'}
      /\ \A s \in ServerIds, e \in Docs : s # t \/ e # d => Wait(s, e)' = Wait(s, e)
      /\ Wait(t, d) = Texts(servers[t].queue, d)
  <2>1. \A s \in Live \ {t} : servers'[s].queue = servers[s].queue
    BY <1>1
  <2>2. \A s \in ServerIds, e \in Docs :
          Wait(s, e)' = IF s \in Live THEN Texts(servers'[s].queue, e) ELSE {}
    BY <1>1 DEF Wait
  <2>3. \A s \in ServerIds, e \in Docs : s # t \/ e # d => Wait(s, e)' = Wait(s, e)
    BY <1>5, <2>1, <2>2 DEF Wait
  <2>4. Wait(t, d) = Texts(servers[t].queue, d)
    BY <1>1 DEF Wait
  <2>5. Wait(t, d)' = Texts(servers'[t].queue, d)
    BY <1>1, <1>2, <2>2
  <2>. QED
    BY <1>5, <2>3, <2>4, <2>5
<1>. QED
  BY <1>1, <1>2, <1>5, <1>6, <1>7

\* The oldest edit stops waiting and is stored.
LEMMA ExecuteTaskWaits ==
  ASSUME Structure, ExecuteTask, NEW a, a = handling.at,
         NEW d, d = Oldest(servers[a]).doc, NEW x, x = Oldest(servers[a]).content
  PROVE  /\ a \in Live /\ Live' = Live /\ a \in ServerIds /\ d \in Docs /\ x \in Contents
         /\ x \in Wait(a, d) /\ x \in StoredTexts(d)'
         /\ Wait(a, d)' \subseteq Wait(a, d)
         /\ Wait(a, d) \subseteq Wait(a, d)' \cup {x}
         /\ \A s \in ServerIds, e \in Docs : s # a \/ e # d => Wait(s, e)' = Wait(s, e)
         /\ StoredTexts(d)' \subseteq StoredTexts(d) \cup {x}
         /\ \A e \in Docs \ {d} : StoredTexts(e)' = StoredTexts(e)
         /\ \A s \in Live \ {a} : servers'[s] = servers[s]
         /\ Increasing(servers[a].queue)
              => Increasing(servers'[a].queue) /\ \A y \in Wait(a, d)' : x < y
<1>. DEFINE o == servers[a]
            q == o.queue
            n == EditedDatabase(o, d, x)
<1>1. /\ a \in Live /\ Live' = Live
      /\ servers'[a] = ExecuteOldest(servers[a])
      /\ \A s \in Live \ {a} : servers'[s] = servers[s]
      /\ q # <<>>
  BY ExecuteTaskEffect
<1>2. /\ o \in ServerState /\ q \in Seq(Task) /\ Live \subseteq ServerIds /\ o.db \in Database
      /\ Matches(o.cache) /\ ServerOK(o)
  BY <1>1, LiveServers DEF Structure
<1>3. d \in Docs /\ x \in Contents
  BY <1>1, <1>2, OldestIsTask
<1>4. d = Head(q).doc /\ x = Head(q).content
  BY DEF Oldest, q, o
<1>5. servers'[a].queue = Tail(q) /\ servers'[a].db = n
  BY <1>1, <1>2, ExecuteOldestFields
<1>6. Cached(o.cache, d) => InDatabase(o.db, d)
  BY <1>2, <1>3 DEF ServerOK, Matches
<1>. HIDE DEF o, q, n
<1>7. /\ x \in ToSet(n[d]) /\ ToSet(n[d]) \subseteq ToSet(o.db[d]) \cup {x}
      /\ \A e \in Docs \ {d} : n[e] = o.db[e]
  <2>1. x \in ToSet(EditedDatabase(o, d, x)[d])
    BY <1>2, <1>3, <1>6, EditedDatabaseTexts
  <2>2. ToSet(EditedDatabase(o, d, x)[d]) \subseteq ToSet(o.db[d]) \cup {x}
    BY <1>2, <1>3, <1>6, EditedDatabaseTexts
  <2>3. \A e \in Docs \ {d} : EditedDatabase(o, d, x)[e] = o.db[e]
    BY <1>2, <1>3, <1>6, EditedDatabaseStores
  <2>. QED
    BY <2>1, <2>2, <2>3 DEF n
<1>8. /\ Texts(Tail(q), d) \subseteq Texts(q, d)
      /\ Texts(q, d) \subseteq Texts(Tail(q), d) \cup {x}
      /\ x \in Texts(q, d)
      /\ \A e \in Docs \ {d} : Texts(Tail(q), e) = Texts(q, e)
      /\ Increasing(q) => Increasing(Tail(q)) /\ \A y \in Texts(Tail(q), d) : x < y
  <2>1. q \in Seq(Task) /\ q # <<>> /\ Head(q).doc = d /\ Head(q).content = x
    BY <1>1, <1>2, <1>4 DEF q
  <2>2. /\ Texts(Tail(q), d) \subseteq Texts(q, d)
        /\ Texts(q, d) \subseteq Texts(Tail(q), d) \cup {Head(q).content}
        /\ Head(q).content \in Texts(q, d)
    BY <2>1, TextsOfTail
  <2>3. \A e \in Docs \ {d} : Texts(Tail(q), e) = Texts(q, e)
    BY <2>1, TextsOfTail
  <2>4. Increasing(q) => Increasing(Tail(q)) /\ \A y \in Texts(Tail(q), d) : Head(q).content < y
    BY <2>1, TextsOfTail
  <2>. QED
    BY <2>1, <2>2, <2>3, <2>4
<1>9. /\ Wait(a, d) = Texts(q, d) /\ Wait(a, d)' = Texts(Tail(q), d)
      /\ \A s \in ServerIds, e \in Docs : s # a \/ e # d => Wait(s, e)' = Wait(s, e)
  <2>1. \A s \in Live \ {a} : servers'[s].queue = servers[s].queue
    BY <1>1
  <2>2. \A s \in ServerIds, e \in Docs :
          Wait(s, e)' = IF s \in Live THEN Texts(servers'[s].queue, e) ELSE {}
    BY <1>1 DEF Wait
  <2>3. servers[a].queue = q
    BY DEF q, o
  <2>4. \A s \in ServerIds, e \in Docs : s # a \/ e # d => Wait(s, e)' = Wait(s, e)
    <3>. SUFFICES ASSUME NEW s \in ServerIds, NEW e \in Docs, s # a \/ e # d
                  PROVE  Wait(s, e)' = Wait(s, e)
      OBVIOUS
    <3>1. CASE s = a
      <4>1. Texts(Tail(q), e) = Texts(q, e)
        BY <1>8, <3>1
      <4>2. Wait(s, e) = Texts(q, e)
        BY <1>1, <2>3, <3>1 DEF Wait
      <4>3. Wait(s, e)' = Texts(Tail(q), e)
        BY <1>1, <1>5, <2>2, <3>1
      <4>. QED
        BY <4>1, <4>2, <4>3
    <3>2. CASE s # a
      BY <2>1, <2>2, <3>2 DEF Wait
    <3>. QED
      BY <3>1, <3>2
  <2>5. Wait(a, d) = Texts(q, d)
    BY <1>1, <2>3 DEF Wait
  <2>6. Wait(a, d)' = Texts(servers'[a].queue, d)
    BY <1>1, <1>2, <1>3, <2>2
  <2>. QED
    BY <1>5, <2>4, <2>5, <2>6
<1>10. o = servers[a] /\ q = servers[a].queue
  BY DEF o, q
<1>11. \A e \in Docs \ {d} : StoredTexts(e)' = StoredTexts(e)
  BY <1>1, <1>5, <1>7, <1>10 DEF StoredTexts
<1>12. x \in StoredTexts(d)' /\ StoredTexts(d)' \subseteq StoredTexts(d) \cup {x}
  <2>1. servers'[a].db[d] = n[d] /\ o.db[d] = servers[a].db[d]
    BY <1>5, <1>10
  <2>2. \A s \in Live \ {a} : servers'[s].db[d] = servers[s].db[d]
    BY <1>1
  <2>3. StoredTexts(d)' = UNION {ToSet(servers'[s].db[d]) : s \in Live}
    BY <1>1 DEF StoredTexts
  <2>. QED
    <3>1. x \in UNION {ToSet(servers'[s].db[d]) : s \in Live}
      <4>1. a \in Live /\ x \in ToSet(servers'[a].db[d])
        BY <1>1, <1>7, <2>1
      <4>. QED
        BY <4>1
    <3>2. ASSUME NEW s \in Live, NEW y \in ToSet(servers'[s].db[d])
          PROVE  y = x \/ y \in StoredTexts(d)
      <4>1. y = x \/ y \in ToSet(servers[s].db[d])
        <5>1. CASE s = a
          BY <1>7, <2>1, <5>1
        <5>2. CASE s # a
          BY <2>2, <5>2
        <5>. QED
          BY <5>1, <5>2
      <4>. QED
        BY <4>1 DEF StoredTexts
    <3>. QED
      BY <2>3, <3>1, <3>2
<1>13. /\ a \in ServerIds
       /\ Increasing(servers[a].queue)
            => Increasing(servers'[a].queue) /\ \A y \in Wait(a, d)' : x < y
  BY <1>1, <1>2, <1>5, <1>8, <1>9, <1>10
<1>14. /\ x \in Wait(a, d) /\ Wait(a, d)' \subseteq Wait(a, d)
       /\ Wait(a, d) \subseteq Wait(a, d)' \cup {x}
  BY <1>8, <1>9
<1>. QED
  BY <1>1, <1>3, <1>9, <1>11, <1>12, <1>13, <1>14

-----------------------------------------------------------------------------
\* The counter of servers is never ahead of the tags, so that once it is behind
\* it stays so.
Leaving == IF handling # Nobody /\ handling.op = "remove" THEN 1 ELSE 0

CountedTags == numberOfServers + Leaving <= Len(tags)

\* The numbers that the counter of servers is compared with.
LEMMA CounterNumbers ==
  ASSUME Structure
  PROVE  /\ numberOfServers \in Int /\ Len(tags) \in Nat /\ Leaving \in {0, 1}
         /\ handling = Nobody => Leaving = 0
         /\ CounterInStep <=> numberOfServers + Leaving = Len(tags)
         /\ served \in Nat
BY LenProperties DEF Structure, TypeOK, Leaving, CounterInStep

\* A counter that is out of step stays so.
LEMMA CounterSteps ==
  ASSUME Structure, CountedTags, [Next]_vars
  PROVE  CountedTags' /\ (CounterInStep' => CounterInStep)
<1>. DEFINE n == numberOfServers
            t == Len(tags)
            l == Leaving
<1>1. /\ n \in Int /\ t \in Nat /\ l \in {0, 1} /\ n + l <= t
      /\ CounterInStep <=> n + l = t
  BY CounterNumbers DEF CountedTags
<1>2. Structure'
  BY StructureInductive
<1>3. /\ n' \in Int /\ t' \in Nat /\ l' \in {0, 1}
      /\ CounterInStep' <=> n' + l' = t'
      /\ CountedTags' <=> n' + l' <= t'
  BY <1>2, LenProperties DEF Structure, TypeOK, Leaving, CounterInStep, CountedTags
<1>4. ASSUME n' + l' = n + l, t' = t
      PROVE  CountedTags' /\ (CounterInStep' => CounterInStep)
  BY <1>1, <1>3, <1>4
<1>5. ASSUME UNCHANGED <<numberOfServers, handling, tags>>
      PROVE  CountedTags' /\ (CounterInStep' => CounterInStep)
  BY <1>4, <1>5 DEF Leaving
<1>6. CASE UNCHANGED vars \/ Die \/ ExecuteTask \/ \E d \in Docs : EditDoc(d)
  BY <1>5, <1>6 DEF vars, Die, ExecuteTask, EditDoc
<1>7. ASSUME NEW s \in ServerIds, NEW size \in CacheSizes, AddServer(s, size)
      PROVE  CountedTags' /\ (CounterInStep' => CounterInStep)
  <2>1. /\ n' = n + 1 /\ handling = Nobody /\ t' = t + 1
        /\ handling' \in {Nobody, Handle("add", NextOnRing(tags', s), s, NoDoc)}
    BY <1>7, AddServerEffect DEF AddServer
  <2>2. l = 0 /\ l' = 0
    BY <2>1 DEF Leaving, Handle
  <2>. QED
    BY <1>1, <1>3, <2>1, <2>2
<1>8. ASSUME NEW s \in ServerIds, RemoveServer(s)
      PROVE  CountedTags' /\ (CounterInStep' => CounterInStep)
  <2>1. /\ n' = n - 1 /\ handling = Nobody /\ tags' = tags
        /\ handling' = Nobody \/ handling' = Handle("remove", s, s, NoDoc)
    BY <1>8 DEF RemoveServer, Ready
  <2>2. l = 0 /\ t' = t
    BY <2>1 DEF Leaving
  <2>3. CASE handling' = Nobody
    <3>1. l' = 0
      BY <2>3 DEF Leaving
    <3>. QED
      BY <1>1, <1>3, <2>1, <2>2, <3>1
  <2>4. CASE handling' = Handle("remove", s, s, NoDoc)
    <3>1. Handle("remove", s, s, NoDoc) \in Handlings(ServerIds)
      BY DEF Handle, Handlings
    <3>2. l' = 1
      BY <2>4, <3>1, NoneAssumption DEF Leaving, Handle
    <3>. QED
      BY <1>4, <2>1, <2>2, <3>2, <1>1
  <2>. QED
    BY <2>1, <2>3, <2>4
<1>9. ASSUME NEW d \in Docs, GetDoc(d)
      PROVE  CountedTags' /\ (CounterInStep' => CounterInStep)
  <2>1. /\ n' = n /\ handling = Nobody /\ tags' = tags
        /\ handling'.op = "get"
    BY <1>9 DEF GetDoc, Ready, Handle
  <2>2. l = 0 /\ l' = 0 /\ t' = t
    BY <2>1 DEF Leaving
  <2>. QED
    BY <1>4, <2>1, <2>2
<1>10. CASE FinishGet \/ FinishAdd
  <2>1. /\ n' = n /\ tags' = tags /\ handling' = Nobody /\ handling.op \in {"get", "add"}
    BY <1>10 DEF FinishGet, FinishAdd, Running
  <2>2. l = 0 /\ l' = 0 /\ t' = t
    BY <2>1 DEF Leaving
  <2>. QED
    BY <1>4, <2>1, <2>2
<1>11. CASE FinishRemove
  <2>1. /\ n' = n /\ handling' = Nobody /\ handling # Nobody /\ handling.op = "remove"
        /\ t' = t - 1
    BY <1>11, FinishRemoveEffect DEF FinishRemove, Running
  <2>2. l = 1 /\ l' = 0
    BY <2>1 DEF Leaving
  <2>. QED
    BY <1>1, <1>3, <2>1, <2>2
<1>. QED
  BY <1>6, <1>7, <1>8, <1>9, <1>10, <1>11 DEF Next, Request, Step

\* Edits wait at one server: the one a GET of their document reaches, or, while
\* that is changing, the one the request under way is at.
EditsPlaced ==
  /\ \A s \in ServerIds, d \in Docs :
       Wait(s, d) # {} => s = ServerOf(tags, d) \/ (handling # Nobody /\ handling.at = s)
  /\ \A d \in Docs, s, t \in ServerIds : Wait(s, d) # {} /\ Wait(t, d) # {} => s = t

\* Texts are numbers of requests that were read.
TextsServed ==
  \A d \in Docs : /\ \A s \in ServerIds : Wait(s, d) \subseteq 1 .. served
                  /\ StoredTexts(d) \subseteq 1 .. served

\* What waits is in the order of its arrival, and later than what is stored.
Ordered ==
  /\ \A s \in Live : Increasing(servers[s].queue)
  /\ \A d \in Docs, s \in ServerIds : \A x \in Wait(s, d), y \in StoredTexts(d) : y < x

Orderly == /\ CountedTags /\ TextsServed
           /\ CounterInStep => EditsPlaced /\ Ordered

\* Texts wait at servers that are on the ring.
LEMMA WaitLive ==
  ASSUME NEW s \in ServerIds, NEW d \in Docs, Wait(s, d) # {}
  PROVE  s \in Live
BY DEF Wait

\* The number of served requests never decreases.
LEMMA ServedGrows ==
  ASSUME Structure, [Next]_vars
  PROVE  /\ served \in Nat /\ served' \in Nat /\ served <= served'
         /\ 1 .. served \subseteq 1 .. served'
         /\ (\E d \in Docs : EditDoc(d)) => served' = served + 1
<1>1. Structure'
  BY StructureInductive
<1>2. served \in Nat /\ served' \in Nat
  BY <1>1 DEF Structure, TypeOK
<1>3. served' = served \/ served' = served + 1
  BY DEF Next, Request, Step, AddServer, RemoveServer, EditDoc, GetDoc, NextRequest, Die,
     ExecuteTask, FinishGet, FinishAdd, FinishRemove, vars
<1>. QED
  BY <1>2, <1>3 DEF EditDoc, NextRequest

\* Every step keeps the queued texts among those that were served.
LEMMA TextsServedInductive ==
  ASSUME Structure, TextsServed, [Next]_vars
  PROVE  TextsServed'
<1>1. /\ served \in Nat /\ served' \in Nat /\ 1 .. served \subseteq 1 .. served'
  BY ServedGrows
<1>2. CASE Quiet
  BY <1>1, <1>2 DEF Quiet, TextsServed
<1>3. ASSUME NEW d \in Docs, EditDoc(d)
      PROVE  TextsServed'
  <2>1. served' \in 1 .. served'
    BY <1>1, <1>3, ServedGrows
  <2>2. PICK t : t = Destination(d)
    OBVIOUS
  <2>3. /\ Wait(t, d)' = Wait(t, d) \cup {served'} /\ t \in ServerIds
        /\ \A s \in ServerIds, e \in Docs : s # t \/ e # d => Wait(s, e)' = Wait(s, e)
        /\ \A e \in Docs : StoredTexts(e)' = StoredTexts(e)
    BY <1>3, <2>2, EditDocWaits
  <2>. QED
    BY <1>1, <2>1, <2>3 DEF TextsServed
<1>4. CASE ExecuteTask
  <2>1. PICK a : a = handling.at
    OBVIOUS
  <2>2. PICK d : d = Oldest(servers[a]).doc
    OBVIOUS
  <2>3. PICK x : x = Oldest(servers[a]).content
    OBVIOUS
  <2>4. /\ a \in ServerIds /\ d \in Docs /\ x \in Wait(a, d)
        /\ Wait(a, d)' \subseteq Wait(a, d)
        /\ \A s \in ServerIds, e \in Docs : s # a \/ e # d => Wait(s, e)' = Wait(s, e)
        /\ StoredTexts(d)' \subseteq StoredTexts(d) \cup {x}
        /\ \A e \in Docs \ {d} : StoredTexts(e)' = StoredTexts(e)
    BY <1>4, <2>1, <2>2, <2>3, ExecuteTaskWaits
  <2>5. x \in 1 .. served
    BY <2>4 DEF TextsServed
  <2>6. \A e \in Docs : /\ \A s \in ServerIds : Wait(s, e)' \subseteq 1 .. served
                        /\ StoredTexts(e)' \subseteq 1 .. served
    BY <2>4, <2>5 DEF TextsServed
  <2>. QED
    BY <1>1, <2>6 DEF TextsServed
<1>. QED
  BY <1>2, <1>3, <1>4, OtherStepsQuiet

\* While the counter is in step, the route of a lone server agrees with the ring.
LEMMA DestinationOnRing ==
  ASSUME Structure, CounterInStep, handling = Nobody, tags # <<>>, NEW d \in Docs
  PROVE  Destination(d) = ServerOf(tags, d)
<1>1. CASE numberOfServers # 1
  BY <1>1 DEF Destination
<1>2. CASE numberOfServers = 1
  <2>1. tags \in Seq(ServerIds) /\ Ascending(tags)
    BY DEF Structure, TypeOK
  <2>2. Len(tags) = 1
    BY <1>2, CounterNumbers
  <2>3. ToSet(tags) = {tags[i] : i \in 1 .. Len(tags)}
    BY <2>1, IndicesOfSeq
  <2>4. ToSet(tags) = {tags[1]}
    BY <2>2, <2>3
  <2>5. ServerOf(tags, d) \in ToSet(tags)
    BY <2>1, ServerOfOwns DEF Owns
  <2>. QED
    BY <1>2, <2>4, <2>5 DEF Destination
<1>. QED
  BY <1>1, <1>2

\* An edit stays where a GET looks for it when a server joins, or where the
\* request is that moves the documents.
LEMMA PlacedAfterJoin ==
  ASSUME Structure, CounterInStep, EditsPlaced,
         NEW s \in ServerIds, NEW size \in CacheSizes, AddServer(s, size),
         NEW t \in ServerIds, NEW d \in Docs, Wait(t, d)' # {}
  PROVE  t = ServerOf(tags', d) \/ (handling' # Nobody /\ handling'.at = t)
<1>. DEFINE n == NextOnRing(tags', s)
<1>1. /\ s \notin Live /\ Live' = Live \cup {s} /\ handling = Nobody
      /\ tags' \in Seq(ServerIds) /\ Ascending(tags') /\ ToSet(tags') = Live'
      /\ n \in Live'
  BY AddServerEffect
<1>2. Wait(t, d) # {} /\ t \in Live
  BY AddServerQuiet, WaitLive DEF Quiet
<1>3. /\ tags \in Seq(ServerIds) /\ Ascending(tags) /\ ToSet(tags) = Live /\ tags # <<>>
      /\ Live \subseteq ServerIds
  BY <1>2, LiveServers DEF Structure
<1>4. numberOfServers' # 1
  <2>1. numberOfServers = Len(tags)
    BY <1>1, CounterNumbers
  <2>2. Len(tags) \in Nat /\ Len(tags) # 0
    BY <1>3, LenProperties, EmptySeq
  <2>. QED
    BY <2>1, <2>2 DEF AddServer
<1>5. handling' = Handle("add", n, s, NoDoc)
  BY <1>4 DEF AddServer
<1>6. handling' # Nobody /\ handling'.at = n
  <2>1. Handle("add", n, s, NoDoc) \in Handlings(ServerIds)
    BY <1>1, <1>3 DEF Handle, Handlings
  <2>. QED
    BY <1>5, <2>1, NoneAssumption DEF Handle
<1>7. t = ServerOf(tags, d)
  BY <1>1, <1>2 DEF EditsPlaced
<1>8. tags' # <<>>
  BY <1>1 DEF ToSet
<1>. DEFINE h == DocHash[d]
            u == ServerOf(tags', d)
            r == tags'
<1>9. h \in Nat
  BY LoadBalancerAssumption
<1>10. Owns(Live, t, h)
  BY <1>3, <1>7, ServerOfOwns
<1>11. Owns(Live', u, h) /\ Owns(Live', n, ServerHash[s] + 1)
  <2>1. r \in Seq(ServerIds) /\ Ascending(r) /\ r # <<>> /\ ToSet(r) = Live'
    BY <1>1, <1>8
  <2>. HIDE DEF r
  <2>2. Owns(ToSet(r), ServerOf(r, d), h) /\ Owns(ToSet(r), NextOnRing(r, s), ServerHash[s] + 1)
    BY <2>1, ServerOfOwns, NextOwns
  <2>. QED
    BY <2>1, <2>2 DEF r
<1>. HIDE DEF n, h, u, r
<1>12. t = u \/ t = n
  <2>. DEFINE L == Live
  <2>1. L \in SUBSET ServerIds /\ s \notin L /\ Live' = L \cup {s} /\ Owns(L, t, h)
    BY <1>1, <1>3, <1>10
  <2>. HIDE DEF L
  <2>2. Owns(L \cup {s}, u, h) /\ Owns(L \cup {s}, n, ServerHash[s] + 1)
    BY <1>11, <2>1
  <2>3. s \in ServerIds
    BY <1>1
  <2>4. JoinOwned(L, s, h, t, u, n)
    BY <1>9, <2>1, <2>2, <2>3 DEF JoinOwned
  <2>. QED
    BY <2>4, OwnerAfterJoin
<1>. QED
  BY <1>6, <1>12 DEF u

\* Neither does it have to move when another server leaves.
LEMMA PlacedAfterLeave ==
  ASSUME Structure, EditsPlaced, FinishRemove,
         NEW t \in ServerIds, NEW d \in Docs, Wait(t, d)' # {}
  PROVE  t = ServerOf(tags', d)
<1>. DEFINE s == handling.server
            r == tags'
<1>1. /\ handling.at = s /\ s \in Live /\ Live' = Live \ {s}
      /\ servers[s].queue = <<>>
      /\ r \in Seq(ServerIds) /\ Ascending(r) /\ ToSet(r) = Live'
  BY FinishRemoveEffect
<1>2. Wait(t, d) # {} /\ t \in Live
  BY FinishRemoveQuiet, WaitLive DEF Quiet
<1>3. t # s
  BY <1>1, <1>2, TextsOfEmpty DEF Wait
<1>4. t = ServerOf(tags, d)
  BY <1>1, <1>2, <1>3 DEF EditsPlaced
<1>5. /\ tags \in Seq(ServerIds) /\ Ascending(tags) /\ ToSet(tags) = Live /\ tags # <<>>
      /\ Live \subseteq ServerIds
  BY <1>2, LiveServers DEF Structure
<1>6. Owns(Live', t, DocHash[d])
  <2>1. Owns(Live, t, DocHash[d])
    BY <1>4, <1>5, ServerOfOwns
  <2>2. Owns(Live \ {s}, t, DocHash[d])
    BY <1>3, <2>1, OwnerAfterLeave
  <2>. QED
    BY <1>1, <2>2
<1>7. r # <<>>
  BY <1>1, <1>2, <1>3 DEF ToSet
<1>. HIDE DEF r
<1>8. Owns(Live', ServerOf(r, d), DocHash[d])
  BY <1>1, <1>7, ServerOfOwns
<1>9. DocHash[d] \in Nat /\ Live' \in SUBSET ServerIds
  BY <1>1, <1>5, LoadBalancerAssumption
<1>. QED
  BY <1>6, <1>8, <1>9, OwnsUnique DEF r

\* Every step keeps the edits of a document at one server, the one its hash
\* leads to.
LEMMA EditsPlacedInductive ==
  ASSUME Structure, CounterInStep, EditsPlaced, [Next]_vars
  PROVE  EditsPlaced'
<1>. DEFINE Placed(s, d) == s = ServerOf(tags, d) \/ (handling # Nobody /\ handling.at = s)
<1>1. /\ \A s \in ServerIds, d \in Docs : Wait(s, d) # {} => Placed(s, d)
      /\ \A d \in Docs, s, t \in ServerIds : Wait(s, d) # {} /\ Wait(t, d) # {} => s = t
  BY DEF EditsPlaced
<1>2. ASSUME \A s \in ServerIds, d \in Docs : Wait(s, d)' # {} => Wait(s, d) # {},
             \A s \in ServerIds, d \in Docs : Wait(s, d)' # {} => Placed(s, d)'
      PROVE  EditsPlaced'
  BY <1>1, <1>2 DEF EditsPlaced
<1>3. ASSUME Quiet
      PROVE  \A s \in ServerIds, d \in Docs : Wait(s, d)' # {} => Wait(s, d) # {}
  BY <1>3 DEF Quiet
<1>4. ASSUME tags' = tags, handling' = handling \/ handling = Nobody, Quiet
      PROVE  EditsPlaced'
  <2>1. \A s \in ServerIds, d \in Docs : Wait(s, d)' # {} => Placed(s, d)'
    BY <1>1, <1>3, <1>4
  <2>. QED
    BY <1>2, <1>3, <1>4, <2>1
<1>5. CASE UNCHANGED vars \/ Die \/ (\E s \in ServerIds : RemoveServer(s))
             \/ (\E d \in Docs : GetDoc(d))
  <2>1. Quiet
    <3>1. servers' = servers
      BY <1>5 DEF vars, Die, RemoveServer, GetDoc
    <3>2. Live' = Live
      BY <3>1 DEF Live
    <3>. QED
      BY <3>1, <3>2, SameServersQuiet
  <2>2. tags' = tags /\ (handling' = handling \/ handling = Nobody)
    BY <1>5 DEF vars, Die, RemoveServer, GetDoc, Ready
  <2>. QED
    BY <1>4, <2>1, <2>2
<1>6. ASSUME NEW s \in ServerIds, NEW size \in CacheSizes, AddServer(s, size)
      PROVE  EditsPlaced'
  <2>1. \A t \in ServerIds, d \in Docs : Wait(t, d)' # {} => Placed(t, d)'
    BY <1>6, PlacedAfterJoin
  <2>. QED
    BY <1>2, <1>3, <1>6, <2>1, AddServerQuiet
<1>7. CASE FinishGet \/ FinishAdd
  <2>1. Quiet /\ tags' = tags /\ handling # Nobody /\ servers[handling.at].queue = <<>>
    BY <1>7, FinishGetQuiet, FinishAddQuiet DEF FinishGet, FinishAdd, Running, At
  <2>2. ASSUME NEW s \in ServerIds, NEW d \in Docs, Wait(s, d)' # {}
        PROVE  Placed(s, d)'
    <3>1. Wait(s, d) # {}
      BY <1>3, <2>1, <2>2
    <3>2. s # handling.at
      BY <2>1, <3>1, TextsOfEmpty DEF Wait
    <3>. QED
      BY <1>1, <2>1, <3>1, <3>2
  <2>. QED
    BY <1>2, <1>3, <2>1, <2>2
<1>8. CASE FinishRemove
  <2>1. \A t \in ServerIds, d \in Docs : Wait(t, d)' # {} => Placed(t, d)'
    BY <1>8, PlacedAfterLeave
  <2>. QED
    BY <1>2, <1>3, <1>8, <2>1, FinishRemoveQuiet
<1>9. CASE ExecuteTask
  <2>1. PICK a : a = handling.at
    OBVIOUS
  <2>2. PICK d : d = Oldest(servers[a]).doc
    OBVIOUS
  <2>3. PICK x : x = Oldest(servers[a]).content
    OBVIOUS
  <2>4. /\ a \in ServerIds /\ d \in Docs
        /\ Wait(a, d)' \subseteq Wait(a, d)
        /\ \A s \in ServerIds, e \in Docs : s # a \/ e # d => Wait(s, e)' = Wait(s, e)
    BY <1>9, <2>1, <2>2, <2>3, ExecuteTaskWaits
  <2>5. \A s \in ServerIds, e \in Docs : Wait(s, e)' # {} => Wait(s, e) # {}
    BY <2>4
  <2>6. tags' = tags /\ handling' = handling
    BY <1>9 DEF ExecuteTask
  <2>7. \A s \in ServerIds, e \in Docs : Wait(s, e)' # {} => Placed(s, e)'
    BY <1>1, <2>5, <2>6
  <2>. QED
    BY <1>2, <2>5, <2>7
<1>10. ASSUME NEW d \in Docs, EditDoc(d)
       PROVE  EditsPlaced'
  <2>1. tags' = tags /\ handling' = handling /\ handling = Nobody /\ tags # <<>>
    BY <1>10 DEF EditDoc, Ready
  <2>2. PICK t : t = Destination(d)
    OBVIOUS
  <2>3. /\ t \in ServerIds
        /\ \A s \in ServerIds, e \in Docs : s # t \/ e # d => Wait(s, e)' = Wait(s, e)
    BY <1>10, <2>2, EditDocWaits
  <2>4. t = ServerOf(tags, d)
    BY <2>1, <2>2, DestinationOnRing
  <2>5. \A s \in ServerIds, e \in Docs : Wait(s, e)' # {} => s = ServerOf(tags, e)
    BY <1>1, <2>1, <2>3, <2>4
  <2>. QED
    BY <2>1, <2>5 DEF EditsPlaced
<1>. QED
  BY <1>5, <1>6, <1>7, <1>8, <1>9, <1>10 DEF Next, Request, Step

\* Every step keeps every queue in the order of the requests.
LEMMA OrderedInductive ==
  ASSUME Structure, CounterInStep, EditsPlaced, TextsServed, Ordered, [Next]_vars
  PROVE  Ordered'
<1>1. CASE Quiet
  <2>1. ASSUME NEW s \in Live' PROVE Increasing(servers'[s].queue)
    <3>1. Increasing(<<>>)
      BY DEF Increasing
    <3>. QED
      BY <1>1, <3>1 DEF Quiet, Ordered
  <2>. QED
    BY <1>1, <2>1 DEF Quiet, Ordered
<1>2. ASSUME NEW d \in Docs, EditDoc(d)
      PROVE  Ordered'
  <2>1. PICK t : t = Destination(d)
    OBVIOUS
  <2>2. /\ t \in Live /\ Live' = Live /\ t \in ServerIds
        /\ Wait(t, d)' = Wait(t, d) \cup {served'}
        /\ \A s \in ServerIds, e \in Docs : s # t \/ e # d => Wait(s, e)' = Wait(s, e)
        /\ \A e \in Docs : StoredTexts(e)' = StoredTexts(e)
        /\ \A s \in Live \ {t} : servers'[s] = servers[s]
        /\ Increasing(servers[t].queue) /\ (\A y \in Wait(t, d) : y < served')
             => Increasing(servers'[t].queue)
    BY <1>2, <2>1, EditDocWaits
  <2>3. \A y \in 1 .. served : y < served'
    BY <1>2, ServedGrows
  <2>4. \A y \in Wait(t, d) \cup StoredTexts(d) : y < served'
    BY <2>2, <2>3 DEF TextsServed
  <2>5. \A s \in Live' : Increasing(servers'[s].queue)
    BY <2>2, <2>4 DEF Ordered
  <2>6. \A e \in Docs, s \in ServerIds : \A x \in Wait(s, e)', y \in StoredTexts(e)' : y < x
    BY <2>2, <2>4 DEF Ordered
  <2>. QED
    BY <2>5, <2>6 DEF Ordered
<1>3. CASE ExecuteTask
  <2>1. PICK a : a = handling.at
    OBVIOUS
  <2>2. PICK d : d = Oldest(servers[a]).doc
    OBVIOUS
  <2>3. PICK x : x = Oldest(servers[a]).content
    OBVIOUS
  <2>4. /\ a \in Live /\ Live' = Live /\ a \in ServerIds /\ d \in Docs /\ x \in Wait(a, d)
        /\ Wait(a, d)' \subseteq Wait(a, d)
        /\ \A s \in ServerIds, e \in Docs : s # a \/ e # d => Wait(s, e)' = Wait(s, e)
        /\ StoredTexts(d)' \subseteq StoredTexts(d) \cup {x}
        /\ \A e \in Docs \ {d} : StoredTexts(e)' = StoredTexts(e)
        /\ \A s \in Live \ {a} : servers'[s] = servers[s]
        /\ Increasing(servers[a].queue)
             => Increasing(servers'[a].queue) /\ \A y \in Wait(a, d)' : x < y
    BY <1>3, <2>1, <2>2, <2>3, ExecuteTaskWaits
  <2>5. \A s \in Live' : Increasing(servers'[s].queue)
    BY <2>4 DEF Ordered
  <2>6. \A s \in ServerIds : \A w \in Wait(s, d)' : x < w
    <3>. SUFFICES ASSUME NEW s \in ServerIds, NEW w \in Wait(s, d)'
                  PROVE  x < w
      OBVIOUS
    <3>1. Wait(s, d) # {} /\ Wait(a, d) # {}
      BY <2>4
    <3>2. s = a
      BY <2>4, <3>1 DEF EditsPlaced
    <3>. QED
      BY <2>4, <3>2 DEF Ordered
  <2>7. ASSUME NEW e \in Docs, NEW s \in ServerIds,
               NEW w \in Wait(s, e)', NEW y \in StoredTexts(e)'
        PROVE  y < w
    <3>1. w \in Wait(s, e)
      BY <2>4
    <3>2. CASE e # d
      BY <2>4, <3>1, <3>2 DEF Ordered
    <3>3. CASE e = d
      BY <2>4, <2>6, <3>1, <3>3 DEF Ordered
    <3>. QED
      BY <3>2, <3>3
  <2>. QED
    BY <2>5, <2>7 DEF Ordered
<1>. QED
  BY <1>1, <1>2, <1>3, OtherStepsQuiet

\* Every step keeps the order of the edits.
LEMMA OrderlyInductive == Structure /\ Orderly /\ [Next]_vars => Orderly'
<1>. SUFFICES ASSUME Structure, Orderly, [Next]_vars
              PROVE  Orderly'
  OBVIOUS
<1>1. CountedTags' /\ (CounterInStep' => CounterInStep)
  BY CounterSteps DEF Orderly
<1>2. TextsServed'
  BY TextsServedInductive DEF Orderly
<1>3. CounterInStep' => EditsPlaced' /\ Ordered'
  BY <1>1, EditsPlacedInductive, OrderedInductive DEF Orderly
<1>. QED
  BY <1>1, <1>2, <1>3 DEF Orderly

\* Without servers no edit waits.
LEMMA OrderlyInit == Init => Orderly
<1>. SUFFICES ASSUME Init
              PROVE  Orderly
  OBVIOUS
<1>1. /\ handling = Nobody /\ Live = {} /\ numberOfServers = 0 /\ tags = <<>>
  BY DEF Init, Live
<1>2. CountedTags
  BY <1>1 DEF CountedTags, Leaving
<1>3. /\ \A s \in ServerIds, d \in Docs : Wait(s, d) = {}
      /\ \A d \in Docs : StoredTexts(d) = {}
  BY <1>1 DEF Wait, StoredTexts
<1>. QED
  BY <1>1, <1>2, <1>3 DEF Orderly, TextsServed, EditsPlaced, Ordered

\* In every state the edits that wait are ordered and, while the counter of
\* servers is in step, placed (loader_forward_request).
THEOREM OrderlyInvariant == Spec => [](Structure /\ Orderly)
BY StructureInit, StructureInductive, OrderlyInit, OrderlyInductive, PTL DEF Spec

\* What waits is what is pending.
LEMMA PendingWaits ==
  ASSUME NEW s \in Live, NEW d
  PROVE  /\ Wait(s, d) = {servers[s].queue[i].content : i \in Pending(s, d)}
         /\ (Pending(s, d) # {}) <=> (Wait(s, d) # {})
BY DEF Wait, Texts, Pending

\* The pending texts of a document are those that wait at some server.
LEMMA PendingTextsWait ==
  ASSUME NEW d
  PROVE  PendingTexts(d) = UNION {Wait(s, d) : s \in Live}
BY PendingWaits DEF PendingTexts

\* A queued EDIT waits at the server that a GET of its document reaches, through
\* every join and leave, as long as the counter of servers is in step.
THEOREM TasksWaitAtDestination == Spec => []TasksAtDestination
<1>1. Structure /\ Orderly => TasksAtDestination
  <2>. SUFFICES ASSUME Structure, Orderly, CounterInStep,
                       NEW s \in Live, NEW d \in Docs, Pending(s, d) # {}
                PROVE  s = ServerOf(tags, d) \/ (handling # Nobody /\ handling.at = s)
    BY DEF TasksAtDestination
  <2>1. Wait(s, d) # {}
    BY PendingWaits
  <2>2. s \in ServerIds
    BY LiveServers
  <2>. QED
    BY <2>1, <2>2 DEF Orderly, EditsPlaced
<1>. QED
  BY <1>1, OrderlyInvariant, PTL

\* The EDITs of one document are executed in the order of their arrival, also
\* when the documents and the servers they wait at move.
THEOREM EditsStayInOrder == Spec => []EditsInOrder
<1>1. Structure /\ Orderly => EditsInOrder
  <2>. SUFFICES ASSUME Structure, Orderly, CounterInStep, NEW d \in Docs
                PROVE  /\ \A s \in Live : \A i, j \in Pending(s, d) :
                            i < j => servers[s].queue[i].content < servers[s].queue[j].content
                       /\ \A x \in PendingTexts(d), y \in StoredTexts(d) : x > y
    BY DEF EditsInOrder
  <2>1. \A s \in Live : Increasing(servers[s].queue)
    BY DEF Orderly, Ordered
  <2>2. ASSUME NEW s \in Live, NEW i \in Pending(s, d), NEW j \in Pending(s, d), i < j
        PROVE  servers[s].queue[i].content < servers[s].queue[j].content
    BY <2>1, <2>2 DEF Pending, Increasing
  <2>3. ASSUME NEW x \in PendingTexts(d), NEW y \in StoredTexts(d)
        PROVE  x > y
    <3>1. PICK s \in Live : x \in Wait(s, d)
      BY PendingTextsWait
    <3>2. s \in ServerIds
      BY LiveServers
    <3>3. y < x
      BY <3>1, <3>2 DEF Orderly, Ordered
    <3>4. x \in 1 .. served /\ y \in 1 .. served /\ served \in Nat
      BY <3>1, <3>2, CounterNumbers DEF Orderly, TextsServed
    <3>. QED
      BY <3>3, <3>4
  <2>. QED
    BY <2>2, <2>3
<1>. QED
  BY <1>1, OrderlyInvariant, PTL

\* Every text known of a document has one at least as late after the step.
LEMMA KnownTextsGrow ==
  ASSUME Structure, Orderly, CounterInStep, [Next]_vars, NEW d \in Docs,
         NEW y \in PendingTexts(d) \cup StoredTexts(d)
  PROVE  \E z \in PendingTexts(d)' \cup StoredTexts(d)' : y <= z
<1>1. /\ PendingTexts(d) = UNION {Wait(s, d) : s \in Live}
      /\ PendingTexts(d)' = UNION {Wait(s, d)' : s \in Live'}
  <2>1. PendingTexts(d)' = UNION {Wait(s, d)' : s \in Live'}
    BY DEF PendingTexts, Pending, Wait, Texts
  <2>. QED
    BY <2>1, PendingTextsWait
<1>2. \A s \in Live : s \in ServerIds
  BY LiveServers
<1>3. \A s \in ServerIds : /\ Wait(s, d) \subseteq 1 .. served
                           /\ StoredTexts(d) \subseteq 1 .. served
  BY DEF Orderly, TextsServed
<1>4. /\ y \in Nat /\ y <= y
      /\ y \in StoredTexts(d) \/ \E s \in Live : y \in Wait(s, d)
  <2>1. y \in 1 .. served /\ served \in Nat
    BY <1>1, <1>2, <1>3, CounterNumbers DEF Orderly, TextsServed
  <2>. QED
    BY <1>1, <2>1
<1>5. CASE Quiet
  <2>1. CASE y \in StoredTexts(d)
    BY <1>4, <1>5, <2>1 DEF Quiet
  <2>2. ASSUME NEW s \in Live, y \in Wait(s, d)
        PROVE  y \in PendingTexts(d)'
    <3>1. y \in Wait(s, d)'
      BY <1>2, <1>5, <2>2 DEF Quiet
    <3>2. s \in Live'
      BY <3>1 DEF Wait
    <3>. QED
      BY <1>1, <3>1, <3>2
  <2>. QED
    BY <1>4, <2>1, <2>2
<1>6. ASSUME NEW e \in Docs, EditDoc(e)
      PROVE  \E z \in PendingTexts(d)' \cup StoredTexts(d)' : y <= z
  <2>1. PICK t : t = Destination(e)
    OBVIOUS
  <2>2. /\ Live' = Live
        /\ Wait(t, e)' = Wait(t, e) \cup {served'}
        /\ \A s \in ServerIds, f \in Docs : s # t \/ f # e => Wait(s, f)' = Wait(s, f)
        /\ StoredTexts(d)' = StoredTexts(d)
    BY <1>6, <2>1, EditDocWaits
  <2>3. \A s \in Live : Wait(s, d) \subseteq Wait(s, d)'
    BY <1>2, <2>2
  <2>4. y \in PendingTexts(d)' \cup StoredTexts(d)'
    BY <1>1, <1>4, <2>2, <2>3
  <2>. QED
    BY <1>4, <2>4
<1>7. CASE ExecuteTask
  <2>1. PICK a : a = handling.at
    OBVIOUS
  <2>2. PICK e : e = Oldest(servers[a]).doc
    OBVIOUS
  <2>3. PICK x : x = Oldest(servers[a]).content
    OBVIOUS
  <2>4. /\ Live' = Live /\ a \in ServerIds /\ e \in Docs
        /\ x \in Wait(a, e) /\ x \in StoredTexts(e)'
        /\ Wait(a, e) \subseteq Wait(a, e)' \cup {x}
        /\ \A s \in ServerIds, f \in Docs : s # a \/ f # e => Wait(s, f)' = Wait(s, f)
        /\ \A f \in Docs \ {e} : StoredTexts(f)' = StoredTexts(f)
    BY <1>7, <2>1, <2>2, <2>3, ExecuteTaskWaits
  <2>5. CASE y \in StoredTexts(d)
    <3>1. CASE d # e
      BY <1>4, <2>4, <2>5, <3>1
    <3>2. CASE d = e
      <4>1. y < x /\ x \in StoredTexts(d)'
        BY <2>4, <2>5, <3>2 DEF Orderly, Ordered
      <4>2. x \in 1 .. served /\ served \in Nat
        BY <1>3, <2>4, <3>2, CounterNumbers
      <4>3. y <= x
        BY <1>4, <4>1, <4>2
      <4>. QED
        BY <4>1, <4>3
    <3>. QED
      BY <3>1, <3>2
  <2>6. ASSUME NEW s \in Live, y \in Wait(s, d)
        PROVE  y \in PendingTexts(d)' \cup StoredTexts(d)'
    <3>1. y \in Wait(s, d)' \/ y \in StoredTexts(d)'
      BY <1>2, <2>4, <2>6
    <3>. QED
      BY <1>1, <2>4, <3>1
  <2>. QED
    BY <1>4, <2>5, <2>6
<1>. QED
  BY <1>5, <1>6, <1>7, OtherStepsQuiet

\* No step makes the databases as a whole forget an acknowledged EDIT that is not
\* followed by a later one, as long as the counter of servers is in step.
THEOREM NoEditIsForgotten == Spec => NoEditForgotten
<1>1. ASSUME Structure, Orderly, [Next]_vars
      PROVE  [CounterInStep => \A d \in Docs : Latest(d)' >= Latest(d)]_vars
  <2>. SUFFICES ASSUME CounterInStep, NEW d \in Docs
                PROVE  Latest(d)' >= Latest(d)
    OBVIOUS
  <2>. DEFINE K == {NoContent} \cup PendingTexts(d) \cup StoredTexts(d)
              L == {NoContent} \cup PendingTexts(d)' \cup StoredTexts(d)'
  <2>1. Structure' /\ Orderly'
    BY <1>1, StructureInductive, OrderlyInductive
  <2>2. NoContent = 0 /\ served \in Nat /\ served' \in Nat
    <3>1. NoContent = 0
      BY LoadBalancerAssumption
    <3>2. served \in Nat /\ served' \in Nat
      BY <1>1, ServedGrows
    <3>. QED
      BY <3>1, <3>2
  <2>3. K \in SUBSET (0 .. served)
    <3>1. /\ \A s \in ServerIds : Wait(s, d) \subseteq 1 .. served
          /\ StoredTexts(d) \subseteq 1 .. served
      BY <1>1 DEF Orderly, TextsServed
    <3>2. PendingTexts(d) \subseteq 1 .. served
      BY <1>1, <3>1, LiveServers, PendingTextsWait
    <3>. QED
      BY <2>2, <3>1, <3>2
  <2>4. L \in SUBSET (0 .. served')
    <3>1. /\ \A s \in ServerIds : Wait(s, d)' \subseteq 1 .. served'
          /\ StoredTexts(d)' \subseteq 1 .. served'
      BY <2>1 DEF Orderly, TextsServed
    <3>2. PendingTexts(d)' = UNION {Wait(s, d)' : s \in Live'}
      BY DEF PendingTexts, Pending, Wait, Texts
    <3>3. Live' \subseteq ServerIds
      BY DEF Live
    <3>. QED
      BY <2>2, <3>1, <3>2, <3>3
  <2>5. \A y \in K : \E z \in L : y <= z
    <3>. SUFFICES ASSUME NEW y \in K
                  PROVE  \E z \in L : y <= z
      OBVIOUS
    <3>1. CASE y = NoContent
      BY <2>2, <3>1
    <3>2. CASE y \in PendingTexts(d) \cup StoredTexts(d)
      BY <1>1, <3>2, KnownTextsGrow
    <3>. QED
      BY <3>1, <3>2
  <2>6. Latest(d) = Max(K) /\ Latest(d)' = Max(L)
    BY DEF Latest
  <2>7. K # {} /\ L # {}
    OBVIOUS
  <2>. HIDE DEF K, L
  <2>8. Max(K) \in K /\ Max(L) \in L /\ \A z \in L : Max(L) >= z
    BY <2>2, <2>3, <2>4, <2>7, MaxIsGreatest
  <2>9. PICK z \in L : Max(K) <= z
    BY <2>5, <2>8
  <2>10. Max(L) >= z /\ Max(K) \in Nat /\ Max(L) \in Nat /\ z \in Nat
    <3>1. \A k \in K : k \in 0 .. served
      BY <2>3
    <3>2. \A l \in L : l \in 0 .. served'
      BY <2>4
    <3>3. Max(K) \in 0 .. served /\ Max(L) \in 0 .. served' /\ z \in 0 .. served'
      BY <2>8, <3>1, <3>2
    <3>. QED
      BY <2>2, <2>8, <3>3
  <2>. QED
    BY <2>6, <2>9, <2>10
<1>. QED
  BY <1>1, OrderlyInvariant, PTL DEF Spec, NoEditForgotten

-----------------------------------------------------------------------------
\* The input has no request to remove a server.
NoLeaves == Inputs \subseteq {"join", "join first"}

\* A server that has never been given anything.
Fresh(x) == /\ x.queue = <<>>
            /\ \A d \in Docs : x.db[d] = <<>> /\ ~Cached(x.cache, d)

\* While a server joins it is untouched, and the request is at the server whose
\* documents it takes.
Joining ==
  handling # Nobody /\ handling.op = "add" =>
    /\ handling.at # handling.server
    /\ Owns(Live, handling.at, ServerHash[handling.server] + 1)
    /\ Fresh(servers[handling.server])

\* A GET is at the server that owns its document.
Fetching ==
  handling # Nobody /\ handling.op = "get" =>
    Owns(Live, handling.at, DocHash[handling.doc])

\* What one server's cache and database keep.
Sound(x) == Coherent(x) /\ Single(x.db)

\* What holds of a ring that only grows.
Growing ==
  /\ numberOfServers = Len(tags)
  /\ handling # Nobody => handling.op # "remove"
  /\ Joining /\ Fetching
  /\ \A s \in Live : Sound(servers[s])

\* The handling that begins.
LEMMA HandleIs ==
  ASSUME NEW op \in {"get", "add", "remove"}, NEW a \in ServerIds, NEW s \in ServerIds,
         NEW d \in Docs \cup {NoDoc}
  PROVE  /\ Handle(op, a, s, d) # Nobody
         /\ Handle(op, a, s, d).op = op /\ Handle(op, a, s, d).at = a
         /\ Handle(op, a, s, d).server = s /\ Handle(op, a, s, d).doc = d
BY HandlingsOf, NoneAssumption

\* A new server is fresh, and so its cache and database agree.
LEMMA NewServerFresh ==
  ASSUME NEW size \in CacheSizes
  PROVE  Fresh(InitServer(size)) /\ Sound(InitServer(size))
<1>. DEFINE x == InitServer(size)
<1>1. /\ x.cache = InitLruCache(size) /\ x.queue = <<>>
      /\ \A d \in Docs : x.db[d] = <<>>
      /\ \A d \in Docs : ~Cached(InitLruCache(size), d)
  BY LoadBalancerAssumption, InitServerOK, InitLruCacheWellFormed
<1>. HIDE DEF x
<1>2. Len(<<>>) <= 1
  OBVIOUS
<1>. QED
  BY <1>1, <1>2 DEF Fresh, Sound, Coherent, Single, x

\* The first server joins at once; any other one asks its neighbour.
LEMMA AddServerAsks ==
  ASSUME Structure, numberOfServers = Len(tags),
         NEW s \in ServerIds, NEW size \in CacheSizes, AddServer(s, size)
  PROVE  \/ Live = {} /\ handling' = Nobody
         \/ /\ Live # {} /\ handling' # Nobody /\ handling'.op = "add"
            /\ handling'.server = s /\ handling'.at # s
            /\ Owns(Live', handling'.at, ServerHash[s] + 1)
<1>. DEFINE n == NextOnRing(tags', s)
<1>1. /\ s \notin Live /\ Live' = Live \cup {s}
      /\ tags' \in Seq(ServerIds) /\ Ascending(tags') /\ ToSet(tags') = Live'
      /\ n \in Live'
  BY AddServerEffect
<1>2. /\ handling' = IF numberOfServers' = 1 THEN Nobody ELSE Handle("add", n, s, NoDoc)
      /\ numberOfServers' = numberOfServers + 1
  BY DEF AddServer
<1>3. /\ tags \in Seq(ServerIds)
      /\ (tags = <<>>) <=> (Live = {})
      /\ Live \subseteq ServerIds
  BY LiveServers
<1>4. CASE Live = {}
  BY <1>2, <1>3, <1>4
<1>5. CASE Live # {}
  <2>1. Len(tags) \in Nat /\ Len(tags) # 0
    <3>1. tags # <<>>
      BY <1>3, <1>5
    <3>. QED
      BY <1>3, <3>1, EmptySeq, LenProperties
  <2>2. handling' = Handle("add", n, s, NoDoc)
    BY <1>2, <2>1
  <2>3. n \in ServerIds
    BY <1>1, <1>3
  <2>4. /\ handling' # Nobody /\ handling'.op = "add"
        /\ handling'.server = s /\ handling'.at = n
    <3>. HIDE DEF n
    <3>. QED
      BY <2>2, <2>3, HandleIs
  <2>5. Owns(Live', n, ServerHash[s] + 1)
    <3>. DEFINE r == tags'
    <3>1. r # <<>>
      BY <1>1 DEF ToSet
    <3>2. r \in Seq(ServerIds) /\ Ascending(r)
      BY <1>1
    <3>. HIDE DEF r
    <3>3. Owns(ToSet(r), NextOnRing(r, s), ServerHash[s] + 1)
      BY <3>1, <3>2, NextOwns
    <3>. QED
      BY <1>1, <3>3 DEF r
  <2>. HIDE DEF n
  <2>6. n # s
    <3>. SUFFICES ASSUME n = s PROVE FALSE
      OBVIOUS
    <3>1. PICK t \in Live : t # s
      BY <1>1, <1>5
    <3>2. ServerHash[s] \in Nat /\ ServerHash[t] \in Nat /\ ServerHash[t] # ServerHash[s]
      BY <1>3, <3>1, BeforeIsHashOrder
    <3>3. t \in Live' /\ s \in Live'
      BY <1>1, <3>1
    <3>4. \A u \in Live' : ServerHash[u] < ServerHash[s] + 1 /\ ServerHash[s] <= ServerHash[u]
      BY <2>5, <3>2 DEF Owns
    <3>. QED
      BY <3>2, <3>3, <3>4
  <2>. QED
    BY <1>5, <2>4, <2>5, <2>6
<1>. QED
  BY <1>4, <1>5

\* A server that joins keeps a growing ring.
LEMMA GrowingAddServer ==
  ASSUME Structure, Growing, NEW s \in ServerIds, NEW size \in CacheSizes,
         AddServer(s, size)
  PROVE  Growing'
<1>1. /\ s \notin Live /\ Live' = Live \cup {s}
      /\ servers'[s] = InitServer(size)
      /\ \A t \in Live : servers'[t] = servers[t]
      /\ Len(tags') = Len(tags) + 1 /\ numberOfServers' = numberOfServers + 1
  BY AddServerEffect DEF AddServer
<1>2. numberOfServers = Len(tags)
  BY DEF Growing
<1>3. \/ handling' = Nobody
      \/ /\ handling' # Nobody /\ handling'.op = "add"
         /\ handling'.server = s /\ handling'.at # s
         /\ Owns(Live', handling'.at, ServerHash[s] + 1)
  BY <1>2, AddServerAsks
<1>. DEFINE x == InitServer(size)
<1>. HIDE DEF x
<1>4. Fresh(x) /\ Sound(x) /\ servers'[s] = x
  BY <1>1, NewServerFresh DEF x
<1>5. Joining' /\ Fetching'
  BY <1>3, <1>4 DEF Joining, Fetching
<1>6. \A t \in Live' : Sound(servers'[t])
  BY <1>1, <1>4 DEF Growing
<1>. QED
  BY <1>1, <1>2, <1>3, <1>5, <1>6 DEF Growing

\* An edit that is queued changes neither a cache nor a database.
LEMMA GrowingEditDoc ==
  ASSUME Structure, Growing, NEW d \in Docs, EditDoc(d)
  PROVE  Growing'
<1>. DEFINE a == Destination(d)
            x == AddTaskInQueue(servers[a], d, served')
<1>1. /\ Live' = Live /\ a \in Live /\ servers'[a] = x
      /\ \A s \in Live \ {a} : servers'[s] = servers[s]
      /\ served' \in Contents
  BY EditDocEffect
<1>2. /\ tags' = tags /\ numberOfServers' = numberOfServers
      /\ handling = Nobody /\ handling' = Nobody
  BY DEF EditDoc, Ready
<1>3. ServerOK(servers[a])
  BY <1>1 DEF Structure
<1>4. x.cache = servers[a].cache /\ x.db = servers[a].db
  <2>. DEFINE y == servers[a]
  <2>. HIDE DEF y
  <2>1. ServerOK(y)
    BY <1>3 DEF y
  <2>. QED
    BY <1>1, <2>1, AddTaskOK DEF y
<1>. HIDE DEF a, x
<1>5. \A s \in Live' : Sound(servers'[s])
  <2>1. Sound(x)
    BY <1>1, <1>4 DEF Growing, Sound, Coherent
  <2>. QED
    BY <1>1, <2>1 DEF Growing
<1>. QED
  BY <1>2, <1>5 DEF Growing, Joining, Fetching

\* An executed edit changes the server the request is at.
LEMMA GrowingExecuteTask ==
  ASSUME Structure, Growing, ExecuteTask
  PROVE  Growing'
<1>. DEFINE a == handling.at
            x == servers[a]
<1>1. /\ a \in Live /\ Live' = Live /\ servers'[a] = ExecuteOldest(x)
      /\ \A s \in Live \ {a} : servers'[s] = servers[s]
      /\ x.queue # <<>>
  BY ExecuteTaskEffect
<1>2. /\ tags' = tags /\ numberOfServers' = numberOfServers /\ handling' = handling
      /\ handling # Nobody
  BY DEF ExecuteTask
<1>3. handling.server \in Live
  BY <1>2, HandlingServers
<1>4. ServerOK(x) /\ Sound(x)
  BY <1>1 DEF Structure, Growing
<1>. HIDE DEF x
<1>5. Sound(ExecuteOldest(x))
  BY <1>1, <1>4, ExecuteOldestCoherent DEF Sound
<1>6. \A s \in Live' : Sound(servers'[s])
  BY <1>1, <1>5 DEF Growing
<1>7. Joining'
  <2>. SUFFICES ASSUME handling.op = "add"
                PROVE  /\ a # handling.server
                       /\ Owns(Live', a, ServerHash[handling.server] + 1)
                       /\ Fresh(servers'[handling.server])
    BY <1>2 DEF Joining
  <2>. QED
    BY <1>1, <1>2, <1>3 DEF Growing, Joining
<1>8. Fetching'
  BY <1>1, <1>2 DEF Growing, Fetching
<1>. QED
  BY <1>2, <1>6, <1>7, <1>8 DEF Growing

\* A GET that is answered changes the cache of its server.
LEMMA GrowingFinishGet ==
  ASSUME Structure, Growing, FinishGet
  PROVE  Growing'
<1>. DEFINE a == handling.at
            x == servers[a]
<1>1. PICK d : d = handling.doc
  OBVIOUS
<1>2. /\ a \in Live /\ d \in Docs /\ Live' = Live /\ servers'[a] = GetDocument(x, d)
      /\ \A s \in Live \ {a} : servers'[s] = servers[s]
  BY <1>1, FinishGetEffect
<1>3. /\ tags' = tags /\ numberOfServers' = numberOfServers /\ handling' = Nobody
  BY DEF FinishGet
<1>4. ServerOK(x) /\ Sound(x)
  BY <1>2 DEF Structure, Growing
<1>. HIDE DEF x, a
<1>5. Sound(GetDocument(x, d))
  BY <1>2, <1>4, GetDocumentCoherent, GetDocumentOK DEF Sound
<1>6. \A s \in Live' : Sound(servers'[s])
  BY <1>2, <1>5 DEF Growing
<1>. QED
  BY <1>3, <1>6 DEF Growing, Joining, Fetching

\* A database with no entry that takes single ones has exactly those.
LEMMA TakenIntoEmpty ==
  ASSUME NEW db \in Database, \A d \in Docs : db[d] = <<>>,
         NEW from \in Database, Single(from), NEW S \in SUBSET Docs, NEW d \in Docs
  PROVE  AddAll(db, from, S)[d] = IF d \in S THEN from[d] ELSE <<>>
<1>. DEFINE q == from[d]
            n == Len(q)
<1>1. q \in Seq(Contents) /\ n \in Nat /\ n <= 1 /\ DOMAIN q = 1 .. n
  BY IndicesOfSeq DEF Database, Single
<1>2. AddAll(db, from, S)[d] = IF d \in S THEN Reverse(q) \o <<>> ELSE <<>>
  BY DEF AddAll
<1>. HIDE DEF q
<1>3. Reverse(q) = q
  <2>1. Reverse(q) = [i \in 1 .. n |-> q[(n - i) + 1]]
    BY DEF Reverse
  <2>2. \A i \in 1 .. n : (n - i) + 1 = i
    BY <1>1
  <2>3. q = [i \in 1 .. n |-> q[i]]
    BY <1>1
  <2>. HIDE DEF n
  <2>. QED
    BY <2>1, <2>2, <2>3
<1>4. q \o <<>> = q
  BY <1>1, ConcatSimplifications
<1>. QED
  BY <1>2, <1>3, <1>4 DEF q

\* A neighbour that gives documents away still has them, and their cached texts
\* have gone.
LEMMA GivenCoherent ==
  ASSUME NEW x, ServerOK(x), Coherent(x), NEW S \in SUBSET Docs, NEW n,
         NEW c, c = GivingCache(x.cache, S, n), NEW d \in Docs, Cached(c, d)
  PROVE  LruCacheGet(c, d) = DatabaseGetEntry(x.db, d)
<1>1. x.cache \in LruCache
  BY DEF ServerOK, Matches
<1>2. c.bucket = [e \in Docs |-> IF e \in S THEN NoContent ELSE x.cache.bucket[e]]
  BY <1>1 DEF GivingCache, LruCache
<1>3. c.bucket[d] = x.cache.bucket[d]
  BY <1>2 DEF Cached, LruCacheGet
<1>. QED
  BY <1>3 DEF Coherent, Cached, LruCacheGet

\* What a joining server has got when its neighbour's documents have moved.
LEMMA FinishAddGives ==
  ASSUME Structure, Growing, FinishAdd,
         NEW a, a = handling.at, NEW s, s = handling.server
  PROVE  /\ a \in Live /\ s \in Live /\ a # s /\ Live' = Live
         /\ servers[a].queue = <<>> /\ servers[s].queue = <<>>
         /\ Owns(Live, a, ServerHash[s] + 1)
         /\ servers'[s].queue = <<>>
         /\ servers'[s].cache = servers[s].cache
         /\ \A d \in Docs : ~Cached(servers[s].cache, d)
         /\ \A d \in Docs : servers'[s].db[d] =
              IF d \in Taken(servers[a].db, s) THEN servers[a].db[d] ELSE <<>>
         /\ \A u \in Live \ {s} : /\ servers'[u].queue = servers[u].queue
                                  /\ servers'[u].db = servers[u].db
         /\ \A u \in Live \ {s, a} : servers'[u].cache = servers[u].cache
         /\ servers'[a].cache = CacheGiven(a, s)
<1>1. handling # Nobody /\ handling.op = "add"
  BY DEF FinishAdd, Running
<1>2. /\ a # s /\ Owns(Live, a, ServerHash[s] + 1) /\ Fresh(servers[s])
  BY <1>1 DEF Growing, Joining
<1>3. /\ a \in Live /\ s \in Live /\ Live' = Live
      /\ servers[a].queue = <<>>
      /\ \A u \in Live : servers'[u] =
           With(servers[u], IF u = a THEN CacheGiven(a, s) ELSE servers[u].cache,
                            IF u = s THEN DbTaken(a, s) ELSE servers[u].db)
  BY FinishAddEffect
<1>4. \A u \in Live :
        /\ servers'[u].cache = IF u = a THEN CacheGiven(a, s) ELSE servers[u].cache
        /\ servers'[u].db = IF u = s THEN DbTaken(a, s) ELSE servers[u].db
        /\ servers'[u].queue = servers[u].queue
  <2>. SUFFICES ASSUME NEW u \in Live
                PROVE  /\ servers'[u].cache = IF u = a THEN CacheGiven(a, s) ELSE servers[u].cache
                       /\ servers'[u].db = IF u = s THEN DbTaken(a, s) ELSE servers[u].db
                       /\ servers'[u].queue = servers[u].queue
    OBVIOUS
  <2>. DEFINE c == IF u = a THEN CacheGiven(a, s) ELSE servers[u].cache
              db == IF u = s THEN DbTaken(a, s) ELSE servers[u].db
  <2>1. servers'[u] = With(servers[u], c, db)
    BY <1>3
  <2>. HIDE DEF c, db
  <2>2. servers'[u].cache = c /\ servers'[u].db = db /\ servers'[u].queue = servers[u].queue
    BY <2>1, WithFields
  <2>. QED
    BY <2>2 DEF c, db
<1>5. /\ servers[a].db \in Database /\ servers[s].db \in Database
      /\ Single(servers[a].db) /\ \A d \in Docs : servers[s].db[d] = <<>>
  BY <1>2, <1>3, LiveServers DEF Growing, Sound, Fresh
<1>6. \A d \in Docs : DbTaken(a, s)[d] =
        IF d \in Taken(servers[a].db, s) THEN servers[a].db[d] ELSE <<>>
  <2>1. Taken(servers[a].db, s) \in SUBSET Docs
    BY DEF Taken
  <2>. DEFINE S == Taken(servers[a].db, s)
              f == servers[a].db
              t == servers[s].db
  <2>2. /\ S \in SUBSET Docs /\ f \in Database /\ t \in Database /\ Single(f)
        /\ \A d \in Docs : t[d] = <<>>
    BY <1>5, <2>1
  <2>3. DbTaken(a, s) = AddAll(t, f, S)
    BY DEF DbTaken
  <2>. HIDE DEF S, f, t
  <2>4. \A d \in Docs : AddAll(t, f, S)[d] = IF d \in S THEN f[d] ELSE <<>>
    BY <2>2, TakenIntoEmpty
  <2>. QED
    BY <2>3, <2>4 DEF S, f
<1>. QED
  BY <1>2, <1>3, <1>4, <1>6 DEF Fresh

\* The end of a join keeps every cache in step with its database.
LEMMA GrowingFinishAdd ==
  ASSUME Structure, Growing, FinishAdd
  PROVE  Growing'
<1>1. PICK a : a = handling.at
  OBVIOUS
<1>2. PICK s : s = handling.server
  OBVIOUS
<1>3. /\ a \in Live /\ s \in Live /\ a # s /\ Live' = Live
      /\ servers'[s].cache = servers[s].cache
      /\ \A d \in Docs : ~Cached(servers[s].cache, d)
      /\ \A d \in Docs : servers'[s].db[d] =
           IF d \in Taken(servers[a].db, s) THEN servers[a].db[d] ELSE <<>>
      /\ \A u \in Live \ {s} : servers'[u].db = servers[u].db
      /\ \A u \in Live \ {s, a} : servers'[u].cache = servers[u].cache
      /\ servers'[a].cache = CacheGiven(a, s)
  BY <1>1, <1>2, FinishAddGives
<1>4. /\ tags' = tags /\ numberOfServers' = numberOfServers /\ handling' = Nobody
  BY DEF FinishAdd
<1>5. \A u \in Live : ServerOK(servers[u]) /\ Coherent(servers[u]) /\ Single(servers[u].db)
  BY DEF Structure, Growing, Sound
<1>6. Sound(servers'[s])
  <2>1. Coherent(servers'[s])
    BY <1>3 DEF Coherent
  <2>2. Len(<<>>) <= 1
    OBVIOUS
  <2>3. Single(servers'[s].db)
    BY <1>3, <1>5, <2>2 DEF Single
  <2>. QED
    BY <2>1, <2>3 DEF Sound
<1>7. Sound(servers'[a])
  <2>. DEFINE x == servers[a]
              S == Taken(x.db, s)
              c == CacheGiven(a, s)
  <2>1. /\ ServerOK(x) /\ Coherent(x) /\ S \in SUBSET Docs
        /\ c = GivingCache(x.cache, S, EntriesTaken(x.db, s))
    BY <1>3, <1>5 DEF Taken, CacheGiven
  <2>. HIDE DEF S, c, x
  <2>2. \A d \in Docs : Cached(c, d) => LruCacheGet(c, d) = DatabaseGetEntry(x.db, d)
    BY <2>1, GivenCoherent
  <2>3. servers'[a].db = x.db /\ servers'[a].cache = c
    BY <1>3 DEF x, c
  <2>4. Single(x.db)
    BY <1>3, <1>5 DEF x
  <2>. QED
    BY <2>2, <2>3, <2>4 DEF Sound, Coherent
<1>8. \A u \in Live \ {s, a} : Sound(servers'[u])
  BY <1>3, <1>5 DEF Sound, Coherent
<1>. QED
  BY <1>3, <1>4, <1>6, <1>7, <1>8 DEF Growing, Joining, Fetching

\* Without requests to remove servers, every step keeps the ring growing.
LEMMA GrowingInductive ==
  ASSUME NoLeaves
  PROVE  Structure /\ Growing /\ [Next]_vars => Growing'
<1>. SUFFICES ASSUME Structure, Growing, [Next]_vars
              PROVE  Growing'
  OBVIOUS
<1>1. CASE UNCHANGED vars \/ Die
  <2>1. /\ tags' = tags /\ numberOfServers' = numberOfServers
        /\ handling' = handling /\ servers' = servers
    BY <1>1 DEF vars, Die
  <2>2. Live' = Live
    BY <2>1 DEF Live
  <2>. QED
    BY <2>1, <2>2 DEF Growing, Joining, Fetching
<1>2. ASSUME NEW s \in ServerIds
      PROVE  ~RemoveServer(s)
  BY DEF RemoveServer, MayLeave, NoLeaves
<1>3. ~FinishRemove
  BY DEF FinishRemove, Running, Growing
<1>4. ASSUME NEW d \in Docs, GetDoc(d)
      PROVE  Growing'
  <2>. DEFINE t == ServerOf(tags, d)
  <2>1. /\ tags' = tags /\ numberOfServers' = numberOfServers /\ servers' = servers
        /\ handling = Nobody /\ tags # <<>>
        /\ handling' = Handle("get", Destination(d), Destination(d), d)
    BY <1>4 DEF GetDoc, Ready
  <2>2. Live' = Live
    BY <2>1 DEF Live
  <2>3. numberOfServers = Len(tags)
    BY DEF Growing
  <2>4. CounterInStep
    BY <2>1, <2>3, CounterNumbers
  <2>5. Destination(d) = t
    BY <2>1, <2>4, DestinationOnRing
  <2>6. Owns(Live, t, DocHash[d])
    BY <2>1, ServerOfOwns DEF Structure, TypeOK
  <2>7. t \in ServerIds
    BY <2>6 DEF Owns, Live
  <2>. HIDE DEF t
  <2>8. handling' # Nobody /\ handling'.op = "get" /\ handling'.at = t /\ handling'.doc = d
    BY <2>1, <2>5, <2>7, HandleIs
  <2>9. Joining' /\ Fetching'
    BY <2>2, <2>6, <2>8 DEF Joining, Fetching
  <2>. QED
    BY <2>1, <2>2, <2>8, <2>9 DEF Growing
<1>. QED
  BY <1>1, <1>2, <1>3, <1>4, GrowingAddServer, GrowingEditDoc, GrowingExecuteTask,
     GrowingFinishGet, GrowingFinishAdd DEF Next, Request, Step

\* Without servers.
LEMMA GrowingInit == Init => Growing
<1>. SUFFICES ASSUME Init
              PROVE  Growing
  OBVIOUS
<1>1. handling = Nobody /\ Live = {} /\ numberOfServers = 0 /\ tags = <<>>
  BY DEF Init, Live
<1>. QED
  BY <1>1 DEF Growing, Joining, Fetching

\* As long as no server is removed, no database holds two entries of a document:
\* a joining server takes copies into a database that nothing was added to since
\* it joined, so AddAll never puts an entry before another one.
THEOREM OneEntryPerDocumentWithoutLeaves ==
  ASSUME NoLeaves
  PROVE  Spec => []OneEntryPerDocument
<1>1. Growing => OneEntryPerDocument
  BY DEF Growing, Sound, Single, OneEntryPerDocument
<1>. QED
  BY <1>1, StructureInvariant, GrowingInit, GrowingInductive, PTL DEF Spec

\* As long as no server is removed, a cached text is the one the database of its
\* server returns, through evictions and through moves of documents.
THEOREM CachesCoherentWithoutLeaves ==
  ASSUME NoLeaves
  PROVE  Spec => []CachesCoherent
<1>1. Growing => CachesCoherent
  BY DEF Growing, Sound, Coherent, CachesCoherent
<1>. QED
  BY <1>1, StructureInvariant, GrowingInit, GrowingInductive, PTL DEF Spec

\* The tasks for document d in a queue, and the text a server x would answer a
\* GET of d with once its queue is executed.
Tasks(q, d) == {i \in DOMAIN q : q[i].doc = d}

Awaits(x, d) == IF Tasks(x.queue, d) # {} THEN x.queue[Max(Tasks(x.queue, d))].content
                ELSE DatabaseGetEntry(x.db, d)

\* The last task for a document in a queue.
LEMMA LastTask ==
  ASSUME NEW q \in Seq(Task), NEW d
  PROVE  /\ Len(q) \in Nat
         /\ Tasks(q, d) = {i \in 1 .. Len(q) : q[i].doc = d}
         /\ Tasks(q, d) # {} => /\ Max(Tasks(q, d)) \in Tasks(q, d)
                                /\ \A i \in Tasks(q, d) : Max(Tasks(q, d)) >= i
<1>. DEFINE I == Tasks(q, d)
            n == Len(q)
<1>1. n \in Nat /\ I = {i \in 1 .. n : q[i].doc = d}
  BY IndicesOfSeq DEF Tasks
<1>. HIDE DEF I, n
<1>2. I \in SUBSET (0 .. n)
  BY <1>1
<1>3. I # {} => Max(I) \in I /\ \A i \in I : Max(I) >= i
  BY <1>1, <1>2, MaxIsGreatest
<1>. QED
  BY <1>1, <1>3 DEF I, n

\* A queued edit is what a later GET of its document returns.
LEMMA AwaitsQueued ==
  ASSUME NEW x, ServerOK(x), NEW d \in Docs, NEW y \in Contents
  PROVE  /\ Awaits(AddTaskInQueue(x, d, y), d) = y
         /\ \A e \in Docs \ {d} : Awaits(AddTaskInQueue(x, d, y), e) = Awaits(x, e)
<1>. DEFINE q == x.queue
            t == [doc |-> d, content |-> y]
            r == Append(q, t)
            n == AddTaskInQueue(x, d, y)
            k == Len(q)
<1>1. n.queue = r /\ n.db = x.db
  BY AddTaskOK
<1>2. q \in Seq(Task) /\ t \in Task /\ t.doc = d /\ t.content = y
  BY DEF ServerOK, ServerState, Task
<1>. HIDE DEF t, n, q
<1>3. /\ r \in Seq(Task) /\ Len(r) = k + 1 /\ k \in Nat
      /\ \A i \in 1 .. k : r[i] = q[i]
      /\ r[k + 1] = t
  BY <1>2, AppendProperties, LenProperties
<1>. HIDE DEF r, k
<1>4. \A e : /\ Tasks(q, e) = {i \in 1 .. k : q[i].doc = e}
             /\ Tasks(r, e) = {i \in 1 .. k + 1 : r[i].doc = e}
  BY <1>2, <1>3, LastTask DEF k
<1>5. Awaits(n, d) = y
  <2>1. k + 1 \in Tasks(r, d) /\ Tasks(r, d) \in SUBSET Int /\ \A i \in Tasks(r, d) : k + 1 >= i
    BY <1>2, <1>3, <1>4
  <2>2. Max(Tasks(r, d)) = k + 1
    BY <2>1, MaxIs
  <2>. QED
    BY <1>1, <1>2, <1>3, <2>1, <2>2 DEF Awaits
<1>6. ASSUME NEW e \in Docs \ {d}
      PROVE  Awaits(n, e) = Awaits(x, e)
  <2>1. Tasks(r, e) = Tasks(q, e)
    <3>1. \A i \in 1 .. k + 1 : i \in 1 .. k \/ i = k + 1
      BY <1>3
    <3>2. 1 .. k \subseteq 1 .. k + 1
      BY <1>3
    <3>3. r[k + 1].doc # e
      BY <1>2, <1>3
    <3>. DEFINE I == {i \in 1 .. k : q[i].doc = e}
                J == {i \in 1 .. k + 1 : r[i].doc = e}
    <3>4. I = J
      BY <1>3, <3>1, <3>2, <3>3
    <3>. QED
      BY <1>4, <3>4
  <2>2. CASE Tasks(q, e) = {}
    BY <1>1, <2>1, <2>2 DEF Awaits, q
  <2>3. CASE Tasks(q, e) # {}
    <3>1. Max(Tasks(q, e)) \in 1 .. k
      BY <1>2, <1>4, <2>3, LastTask
    <3>2. r[Max(Tasks(q, e))] = q[Max(Tasks(q, e))]
      BY <1>3, <3>1
    <3>. QED
      BY <1>1, <2>1, <2>3, <3>2 DEF Awaits, q
  <2>. QED
    BY <2>2, <2>3
<1>. QED
  BY <1>5, <1>6 DEF n

\* Executing the oldest edit does not change what a GET returns.
LEMMA AwaitsExecuted ==
  ASSUME NEW x, ServerOK(x), x.queue # <<>>, NEW d \in Docs
  PROVE  Awaits(ExecuteOldest(x), d) = Awaits(x, d)
<1>. DEFINE q == x.queue
            r == Tail(q)
            n == ExecuteOldest(x)
            k == Len(q) - 1
            I == Tasks(q, d)
            J == Tasks(r, d)
<1>1. /\ n.queue = r
      /\ DatabaseGetEntry(n.db, Oldest(x).doc) = Oldest(x).content
      /\ \A e \in Docs \ {Oldest(x).doc} : n.db[e] = x.db[e]
  BY ExecuteOldestCoherent
<1>2. q \in Seq(Task) /\ q # <<>>
  BY DEF ServerOK, ServerState
<1>3. /\ Len(q) \in Nat /\ Len(q) # 0 /\ Oldest(x) = q[1]
      /\ r \in Seq(Task) /\ Len(r) = k /\ \A i \in 1 .. k : r[i] = q[i + 1]
  BY <1>2, LenProperties, EmptySeq, HeadTailProperties DEF Oldest
<1>4. k \in Nat /\ Len(q) = k + 1
  BY <1>3
<1>. HIDE DEF q, r, k, n
<1>5. /\ I = {i \in 1 .. k + 1 : q[i].doc = d}
      /\ J = {i \in 1 .. k : r[i].doc = d}
      /\ J # {} => Max(J) \in J /\ \A i \in J : Max(J) >= i
  BY <1>2, <1>3, <1>4, LastTask
<1>. HIDE DEF I, J
<1>6. CASE J # {}
  <2>1. PICK m : m = Max(J)
    OBVIOUS
  <2>2. m \in J /\ \A i \in J : m >= i
    BY <1>5, <1>6, <2>1
  <2>3. m \in 1 .. k /\ r[m] = q[m + 1] /\ m + 1 \in I
    BY <1>3, <1>4, <1>5, <2>2
  <2>4. \A i \in I : m + 1 >= i
    <3>. SUFFICES ASSUME NEW i \in I, i # 1
                  PROVE  m + 1 >= i
      BY <1>5, <2>3
    <3>1. i - 1 \in 1 .. k /\ i \in Int /\ (i - 1) + 1 = i
      BY <1>4, <1>5
    <3>2. r[i - 1] = q[i]
      BY <1>3, <3>1
    <3>3. i - 1 \in J
      BY <1>5, <3>1, <3>2
    <3>4. m >= i - 1
      BY <2>2, <3>3
    <3>. QED
      BY <2>3, <3>1, <3>4
  <2>5. Max(I) = m + 1
    <3>1. I \in SUBSET Int
      BY <1>5
    <3>. QED
      BY <2>3, <2>4, <3>1, MaxIs
  <2>6. I # {}
    BY <2>3
  <2>. QED
    BY <1>1, <1>6, <2>1, <2>3, <2>5, <2>6 DEF Awaits, I, J, q, n
<1>7. CASE J = {}
  <2>1. \A i \in I : i = 1
    <3>. SUFFICES ASSUME NEW i \in I, i # 1
                  PROVE  FALSE
      OBVIOUS
    <3>1. i - 1 \in 1 .. k /\ i \in Int /\ (i - 1) + 1 = i
      BY <1>4, <1>5
    <3>2. r[i - 1] = q[i]
      BY <1>3, <3>1
    <3>3. i - 1 \in J
      BY <1>5, <3>1, <3>2
    <3>. QED
      BY <1>7, <3>3
  <2>2. CASE I = {}
    <3>1. 1 \in 1 .. k + 1
      BY <1>4
    <3>2. Oldest(x).doc # d
      BY <1>3, <1>5, <2>2, <3>1
    <3>3. n.db[d] = x.db[d]
      BY <1>1, <3>2
    <3>. QED
      BY <1>1, <1>7, <2>2, <3>3 DEF Awaits, I, J, q, n, DatabaseGetEntry, InDatabase
  <2>3. CASE I # {}
    <3>1. 1 \in I
      BY <2>1, <2>3
    <3>2. Max(I) = 1
      <4>1. I \in SUBSET Int /\ \A i \in I : 1 >= i
        BY <2>1, <3>1
      <4>. QED
        BY <3>1, <4>1, MaxIs
    <3>3. q[1].doc = d
      BY <1>5, <3>1
    <3>4. DatabaseGetEntry(n.db, d) = q[1].content
      BY <1>1, <1>3, <3>3
    <3>. QED
      BY <1>1, <1>7, <2>3, <3>2, <3>4 DEF Awaits, I, J, q, n
  <2>. QED
    BY <2>2, <2>3
<1>. QED
  BY <1>6, <1>7

\* What a server awaits depends on its queue and its database only.
LEMMA AwaitsSame ==
  ASSUME NEW x, NEW y, NEW d, x.queue = y.queue, x.db[d] = y.db[d]
  PROVE  Awaits(x, d) = Awaits(y, d)
BY DEF Awaits, DatabaseGetEntry, InDatabase

\* A server with an empty queue awaits what its database has.
LEMMA AwaitsStored ==
  ASSUME NEW x, NEW d, x.queue = <<>>
  PROVE  Awaits(x, d) = DatabaseGetEntry(x.db, d)
<1>1. Tasks(<<>>, d) = {}
  BY DEF Tasks
<1>. QED
  BY <1>1 DEF Awaits

\* The servers on the ring before the join that is under way, if there is one.
Settled == IF handling # Nobody /\ handling.op = "add"
           THEN Live \ {handling.server} ELSE Live

\* The text of a document that an array of servers and a ring lead to.
ReadIn(f, ring, d) == IF ring = <<>> THEN NoContent
                      ELSE Awaits(f[ServerOf(ring, d)], d)

IsRing(ring, L) == ring \in Seq(ServerIds) /\ Ascending(ring) /\ ToSet(ring) = L

\* The settled tags are a ring of the settled servers.
LEMMA SettledRing == Structure => IsRing(SettledTags, Settled)
<1>. SUFFICES ASSUME Structure
              PROVE  IsRing(SettledTags, Settled)
  OBVIOUS
<1>1. IsRing(tags, Live)
  BY DEF Structure, TypeOK, IsRing
<1>2. CASE handling # Nobody /\ handling.op = "add"
  <2>1. handling.server \in Live
    BY <1>2, HandlingServers
  <2>2. /\ SettledTags = RemoveTag(tags, handling.server)
        /\ Settled = Live \ {handling.server}
    BY <1>2 DEF SettledTags, Settled
  <2>. QED
    BY <1>1, <2>1, <2>2, RemoveTagOK DEF IsRing
<1>3. CASE ~(handling # Nobody /\ handling.op = "add")
  BY <1>1, <1>3 DEF SettledTags, Settled
<1>. QED
  BY <1>2, <1>3

\* Also after a step.
LEMMA SettledRingAfter == Structure' => IsRing(SettledTags, Settled)'
BY SettledRing, PTL

\* What is read of a document is what its owner awaits.
LEMMA ReadableRead ==
  ASSUME NEW d
  PROVE  /\ Readable(d) = ReadIn(servers, SettledTags, d)
         /\ Readable(d)' = ReadIn(servers', SettledTags', d)
BY DEF Readable, ReadIn, Awaits, Tasks, Pending

\* A document has an owner on a ring that is not empty.
LEMMA RingOwner ==
  ASSUME NEW L, NEW ring, IsRing(ring, L), NEW d \in Docs
  PROVE  /\ L \in SUBSET ServerIds /\ DocHash[d] \in Nat
         /\ (ring = <<>>) <=> (L = {})
         /\ ring # <<>> => Owns(L, ServerOf(ring, d), DocHash[d])
<1>1. ring # <<>> => Owns(L, ServerOf(ring, d), DocHash[d])
  BY ServerOfOwns DEF IsRing
<1>2. L \in SUBSET ServerIds
  BY AscendingInjective DEF IsRing
<1>3. (ring = <<>>) => (L = {})
  BY DEF IsRing, ToSet
<1>. QED
  BY <1>1, <1>2, <1>3, LoadBalancerAssumption DEF Owns

\* A read leads to the owner.
LEMMA ReadAtOwner ==
  ASSUME NEW f, NEW L, NEW ring, IsRing(ring, L), NEW d \in Docs,
         NEW t, Owns(L, t, DocHash[d])
  PROVE  ReadIn(f, ring, d) = Awaits(f[t], d)
<1>1. t \in L
  BY DEF Owns
<1>2. ring # <<>> /\ Owns(L, ServerOf(ring, d), DocHash[d])
  BY <1>1, RingOwner
<1>3. ServerOf(ring, d) = t
  BY <1>2, RingOwner, OwnsUnique
<1>. QED
  BY <1>2, <1>3 DEF ReadIn

\* A step that keeps the settled servers, and what the owner of a document
\* awaits, keeps what is read of it.
LEMMA ReadableKept ==
  ASSUME Structure, Structure', NEW d \in Docs, Settled' = Settled,
         \A t \in Settled : Owns(Settled, t, DocHash[d])
                             => Awaits(servers'[t], d) = Awaits(servers[t], d)
  PROVE  Readable(d)' = Readable(d)
<1>. DEFINE L == Settled
            r == SettledTags
            p == SettledTags'
            f == servers
            g == servers'
<1>1. IsRing(r, L) /\ IsRing(p, L)
  BY SettledRing, SettledRingAfter
<1>2. \A t \in L : Owns(L, t, DocHash[d]) => Awaits(g[t], d) = Awaits(f[t], d)
  OBVIOUS
<1>3. Readable(d) = ReadIn(f, r, d) /\ Readable(d)' = ReadIn(g, p, d)
  BY ReadableRead
<1>. HIDE DEF L, r, p, f, g
<1>4. CASE L = {}
  <2>1. r = <<>> /\ p = <<>>
    BY <1>1, <1>4, RingOwner
  <2>. QED
    BY <1>3, <2>1 DEF ReadIn
<1>5. CASE L # {}
  <2>1. PICK t : Owns(L, t, DocHash[d])
    BY <1>1, <1>5, RingOwner
  <2>2. t \in L
    BY <2>1 DEF Owns
  <2>3. ReadIn(f, r, d) = Awaits(f[t], d) /\ ReadIn(g, p, d) = Awaits(g[t], d)
    BY <1>1, <2>1, ReadAtOwner
  <2>. QED
    BY <1>2, <1>3, <2>1, <2>2, <2>3
<1>. QED
  BY <1>4, <1>5

-----------------------------------------------------------------------------
\* Servers join behind the first tag, once there are documents.
JoinsBehind == Inputs \subseteq {"join"}

\* While a server joins there is one before it, or there is no document.
Behind ==
  handling # Nobody /\ handling.op = "add" =>
    (\E t \in Live : ServerHash[t] < ServerHash[handling.server]) \/ NoDocuments

\* A server that joins is not the first, unless there is no document.
LEMMA BehindAddServer ==
  ASSUME JoinsBehind, Structure, Growing,
         NEW s \in ServerIds, NEW size \in CacheSizes, AddServer(s, size)
  PROVE  Behind'
<1>1. /\ s \notin Live /\ Live' = Live \cup {s}
      /\ servers'[s] = InitServer(size)
      /\ \A t \in Live : servers'[t] = servers[t]
  BY AddServerEffect
<1>2. \/ handling' = Nobody
      \/ Live # {} /\ handling'.server = s
  BY AddServerAsks DEF Growing
<1>3. NoDocuments \/ Before(tags[1], s)
  BY DEF AddServer, MayJoin, JoinsBehind
<1>4. CASE NoDocuments
  <2>. DEFINE x == InitServer(size)
  <2>. HIDE DEF x
  <2>1. Fresh(x) /\ servers'[s] = x
    BY <1>1, NewServerFresh DEF x
  <2>2. NoDocuments'
    BY <1>1, <1>4, <2>1 DEF NoDocuments, Fresh
  <2>. QED
    BY <2>2 DEF Behind
<1>5. CASE Before(tags[1], s) /\ Live # {} /\ handling'.server = s
  <2>1. tags \in Seq(ServerIds) /\ tags # <<>> /\ ToSet(tags) = Live
    BY <1>5, LiveServers DEF Structure
  <2>2. tags[1] \in Live
    <3>1. 1 \in DOMAIN tags
      BY <2>1
    <3>. QED
      BY <2>1, <3>1 DEF ToSet
  <2>3. ServerHash[tags[1]] < ServerHash[s]
    BY <1>5, <2>1, <2>2, LiveServers, BeforeIsHashOrder
  <2>. QED
    BY <1>1, <1>5, <2>2, <2>3 DEF Behind
<1>6. CASE handling' = Nobody
  BY <1>6 DEF Behind
<1>. QED
  BY <1>2, <1>3, <1>4, <1>5, <1>6

\* Every step keeps joining servers behind the first.
LEMMA BehindInductive ==
  ASSUME JoinsBehind
  PROVE  Structure /\ Growing /\ Behind /\ [Next]_vars => Behind'
<1>. SUFFICES ASSUME Structure, Growing, Behind, [Next]_vars
              PROVE  Behind'
  OBVIOUS
<1>1. CASE UNCHANGED vars \/ Die
  <2>1. handling' = handling /\ servers' = servers
    BY <1>1 DEF vars, Die
  <2>2. Live' = Live
    BY <2>1 DEF Live
  <2>. QED
    BY <2>1, <2>2 DEF Behind, NoDocuments
<1>2. CASE ExecuteTask
  <2>1. /\ handling.at \in Live /\ Live' = Live /\ servers[handling.at].queue # <<>>
        /\ handling' = handling
    BY <1>2, ExecuteTaskEffect DEF ExecuteTask
  <2>2. ~NoDocuments
    BY <2>1 DEF NoDocuments
  <2>. QED
    BY <2>1, <2>2 DEF Behind
<1>3. ASSUME NEW s \in ServerIds
      PROVE  ~RemoveServer(s)
  BY DEF RemoveServer, MayLeave, JoinsBehind
<1>4. CASE FinishGet \/ FinishAdd \/ FinishRemove \/ (\E d \in Docs : EditDoc(d))
  <2>1. handling' = Nobody
    BY <1>4 DEF FinishGet, FinishAdd, FinishRemove, EditDoc, Ready
  <2>. QED
    BY <2>1 DEF Behind
<1>5. CASE \E d \in Docs : GetDoc(d)
  <2>1. handling'.op = "get"
    BY <1>5 DEF GetDoc, Handle
  <2>. QED
    BY <2>1 DEF Behind
<1>. QED
  BY <1>1, <1>2, <1>3, <1>4, <1>5, BehindAddServer DEF Next, Request, Step

\* The start of a join keeps what is read.
LEMMA ReadableAddServer ==
  ASSUME Structure, Structure', Growing, NEW d \in Docs,
         NEW s \in ServerIds, NEW size \in CacheSizes, AddServer(s, size)
  PROVE  Readable(d)' = Readable(d)
<1>1. /\ s \notin Live /\ Live' = Live \cup {s} /\ handling = Nobody
      /\ servers'[s] = InitServer(size)
      /\ \A t \in Live : servers'[t] = servers[t]
  BY AddServerEffect
<1>2. Settled = Live
  BY <1>1 DEF Settled
<1>3. CASE Live # {} /\ handling' # Nobody /\ handling'.op = "add" /\ handling'.server = s
  <2>1. Settled' = Settled
    BY <1>1, <1>2, <1>3 DEF Settled
  <2>. QED
    BY <1>1, <1>2, <2>1, ReadableKept
<1>4. CASE Live = {} /\ handling' = Nobody
  <2>. DEFINE x == InitServer(size)
              p == SettledTags'
              r == SettledTags
              g == servers'
  <2>1. Settled' = {s} /\ Settled = {}
    BY <1>1, <1>2, <1>4 DEF Settled
  <2>2. IsRing(r, {}) /\ IsRing(p, {s})
    BY <2>1, SettledRing, SettledRingAfter
  <2>3. /\ Readable(d) = ReadIn(servers, r, d) /\ Readable(d)' = ReadIn(g, p, d)
        /\ g[s] = x
    BY <1>1, ReadableRead
  <2>. HIDE DEF x, p, r, g
  <2>4. Fresh(x)
    BY NewServerFresh DEF x
  <2>5. Awaits(x, d) = NoContent
    BY <2>4, AwaitsStored DEF Fresh, DatabaseGetEntry, InDatabase
  <2>6. Owns({s}, s, DocHash[d])
    <3>1. p # <<>> /\ Owns({s}, ServerOf(p, d), DocHash[d])
      BY <2>2, RingOwner
    <3>2. ServerOf(p, d) = s
      BY <3>1 DEF Owns
    <3>. QED
      BY <3>1, <3>2
  <2>7. ReadIn(g, p, d) = Awaits(g[s], d)
    BY <2>2, <2>6, ReadAtOwner
  <2>8. r = <<>>
    BY <2>2, RingOwner
  <2>. QED
    BY <2>3, <2>5, <2>7, <2>8 DEF ReadIn
<1>. QED
  BY <1>3, <1>4, AddServerAsks DEF Growing

\* So does its end: what the new server owns it has taken from its neighbour.
LEMMA ReadableFinishAdd ==
  ASSUME Structure, Structure', Growing, Behind, NEW d \in Docs, FinishAdd
  PROVE  Readable(d)' = Readable(d)
<1>. DEFINE h == DocHash[d]
<1>1. PICK a : a = handling.at
  OBVIOUS
<1>2. PICK s : s = handling.server
  OBVIOUS
<1>3. /\ a \in Live /\ s \in Live /\ a # s /\ Live' = Live
      /\ servers[a].queue = <<>> /\ servers[s].queue = <<>>
      /\ Owns(Live, a, ServerHash[s] + 1)
      /\ servers'[s].queue = <<>>
      /\ servers'[s].db[d] =
           IF d \in Taken(servers[a].db, s) THEN servers[a].db[d] ELSE <<>>
      /\ \A u \in Live \ {s} : /\ servers'[u].queue = servers[u].queue
                               /\ servers'[u].db = servers[u].db
  BY <1>1, <1>2, FinishAddGives
<1>4. handling # Nobody /\ handling.op = "add" /\ handling' = Nobody
  BY DEF FinishAdd, Running
<1>. DEFINE L == Live \ {s}
            M == Live
            r == SettledTags
            p == SettledTags'
            f == servers
            g == servers'
<1>5. Settled = L /\ Settled' = M
  BY <1>2, <1>3, <1>4 DEF Settled
<1>6. IsRing(r, L) /\ IsRing(p, M)
  BY <1>5, SettledRing, SettledRingAfter
<1>7. Readable(d) = ReadIn(f, r, d) /\ Readable(d)' = ReadIn(g, p, d)
  BY ReadableRead
<1>8. /\ M \in SUBSET ServerIds /\ M # {} /\ L # {} /\ L \in SUBSET ServerIds
      /\ M = L \cup {s} /\ s \notin L /\ s \in ServerIds
  BY <1>3, LiveServers
<1>9. /\ Owns(M, a, ServerHash[s] + 1) /\ g[s].queue = <<>> /\ f[a].queue = <<>>
      /\ \A u \in M \ {s} : g[u].queue = f[u].queue /\ g[u].db = f[u].db
  BY <1>3
<1>10. h \in Nat
  BY LoadBalancerAssumption
<1>. HIDE DEF h, L, M, r, p, f, g
<1>11. PICK t : Owns(L, t, h)
  BY <1>6, <1>8, RingOwner DEF h
<1>12. PICK u : Owns(M, u, h)
  BY <1>6, <1>8, RingOwner DEF h
<1>13. ReadIn(f, r, d) = Awaits(f[t], d) /\ ReadIn(g, p, d) = Awaits(g[u], d)
  BY <1>6, <1>11, <1>12, ReadAtOwner DEF h
<1>14. t = u \/ t = a
  <2>1. JoinOwned(L, s, h, t, u, a)
    BY <1>8, <1>9, <1>10, <1>11, <1>12 DEF JoinOwned
  <2>. QED
    BY <2>1, OwnerAfterJoin
<1>15. CASE u # s
  <2>1. Owns(M \ {s}, u, h)
    BY <1>12, <1>15, OwnerAfterLeave
  <2>2. M \ {s} = L
    BY <1>8
  <2>3. t = u
    BY <1>8, <1>10, <1>11, <2>1, <2>2, OwnsUnique
  <2>4. g[u].queue = f[u].queue /\ g[u].db = f[u].db
    BY <1>9, <1>12, <1>15 DEF Owns
  <2>5. Awaits(g[u], d) = Awaits(f[u], d)
    BY <2>4, AwaitsSame
  <2>. QED
    BY <1>7, <1>13, <2>3, <2>5
<1>16. CASE u = s
  <2>1. t \in L
    BY <1>11 DEF Owns
  <2>2. t = a
    BY <1>8, <1>14, <1>16, <2>1
  <2>3. /\ Awaits(f[a], d) = DatabaseGetEntry(f[a].db, d)
        /\ Awaits(g[s], d) = DatabaseGetEntry(g[s].db, d)
    BY <1>9, AwaitsStored
  <2>4. InDatabase(f[a].db, d) => h <= ServerHash[s]
    <3>. SUFFICES ASSUME InDatabase(f[a].db, d), ~(h <= ServerHash[s])
                  PROVE  FALSE
      OBVIOUS
    <3>1. \A v \in M : ServerHash[v] \in Nat
      BY <1>8, LoadBalancerAssumption
    <3>2. s \in M
      BY <1>8
    <3>3. \A v \in M : ServerHash[s] <= ServerHash[v]
      BY <1>10, <1>12, <1>16, <3>1, <3>2 DEF Owns
    <3>4. (\E v \in Live : ServerHash[v] < ServerHash[s]) \/ NoDocuments
      BY <1>2, <1>4 DEF Behind
    <3>5. ~\E v \in Live : ServerHash[v] < ServerHash[s]
      BY <3>1, <3>2, <3>3 DEF M
    <3>. QED
      BY <1>3, <3>4, <3>5 DEF NoDocuments, InDatabase, f
  <2>5. g[s].db[d] = f[a].db[d]
    BY <1>3, <2>4 DEF Taken, InDatabase, h, f, g
  <2>. QED
    BY <1>7, <1>13, <1>16, <2>2, <2>3, <2>5 DEF DatabaseGetEntry, InDatabase
<1>. QED
  BY <1>15, <1>16

\* A queued edit is what is read next.
LEMMA ReadableEditDoc ==
  ASSUME Structure, Structure', Growing, NEW d \in Docs, EditDoc(d)
  PROVE  /\ Readable(d)' = served'
         /\ \A e \in Docs \ {d} : Readable(e)' = Readable(e)
<1>. DEFINE t == ServerOf(tags, d)
            x == servers[t]
            y == AddTaskInQueue(x, d, served')
<1>1. /\ tags' = tags /\ handling = Nobody /\ handling' = Nobody /\ tags # <<>>
  BY DEF EditDoc, Ready
<1>2. Destination(d) = t
  <2>1. numberOfServers = Len(tags)
    BY DEF Growing
  <2>2. CounterInStep
    BY <1>1, <2>1, CounterNumbers
  <2>. QED
    BY <1>1, <2>2, DestinationOnRing
<1>3. /\ Live' = Live /\ t \in Live /\ servers'[t] = y
      /\ \A s \in Live \ {t} : servers'[s] = servers[s]
      /\ served' \in Contents
  BY <1>2, EditDocEffect
<1>4. Settled = Live /\ Settled' = Live
  BY <1>1, <1>3 DEF Settled
<1>5. ServerOK(x)
  BY <1>3 DEF Structure
<1>6. Owns(Live, t, DocHash[d])
  BY <1>1, ServerOfOwns DEF Structure, TypeOK
<1>. HIDE DEF x, t
<1>7. Awaits(y, d) = served' /\ \A e \in Docs \ {d} : Awaits(y, e) = Awaits(x, e)
  BY <1>3, <1>5, AwaitsQueued
<1>. HIDE DEF y
<1>8. \A e \in Docs \ {d} : Readable(e)' = Readable(e)
  <2>. SUFFICES ASSUME NEW e \in Docs \ {d}
                PROVE  Readable(e)' = Readable(e)
    OBVIOUS
  <2>1. \A s \in Settled : Awaits(servers'[s], e) = Awaits(servers[s], e)
    BY <1>3, <1>4, <1>7 DEF x
  <2>. QED
    BY <1>4, <2>1, ReadableKept
<1>9. Readable(d)' = served'
  <2>. DEFINE p == SettledTags'
              g == servers'
  <2>1. IsRing(p, Live) /\ Readable(d)' = ReadIn(g, p, d) /\ g[t] = y
    BY <1>3, <1>4, ReadableRead, SettledRingAfter
  <2>. HIDE DEF p, g
  <2>2. ReadIn(g, p, d) = Awaits(g[t], d)
    BY <1>6, <2>1, ReadAtOwner
  <2>. QED
    BY <1>7, <2>1, <2>2
<1>. QED
  BY <1>8, <1>9

\* An executed one still is.
LEMMA ReadableExecuteTask ==
  ASSUME Structure, Structure', NEW d \in Docs, ExecuteTask
  PROVE  Readable(d)' = Readable(d)
<1>. DEFINE a == handling.at
            x == servers[a]
<1>1. /\ a \in Live /\ Live' = Live /\ servers'[a] = ExecuteOldest(x)
      /\ \A s \in Live \ {a} : servers'[s] = servers[s]
      /\ x.queue # <<>>
  BY ExecuteTaskEffect
<1>2. handling' = handling
  BY DEF ExecuteTask
<1>3. ServerOK(x)
  BY <1>1 DEF Structure
<1>4. Settled' = Settled /\ Settled \subseteq Live
  BY <1>1, <1>2 DEF Settled
<1>. HIDE DEF x, a
<1>5. Awaits(ExecuteOldest(x), d) = Awaits(x, d)
  BY <1>1, <1>3, AwaitsExecuted
<1>6. \A s \in Settled : Awaits(servers'[s], d) = Awaits(servers[s], d)
  BY <1>1, <1>4, <1>5 DEF x
<1>. QED
  BY <1>4, <1>6, ReadableKept

\* A GET answers what is read, and keeps it.
LEMMA ReadableFinishGet ==
  ASSUME Structure, Structure', Growing, FinishGet, NEW d, d = handling.doc
  PROVE  /\ \A e \in Docs : Readable(e)' = Readable(e)
         /\ d \in Docs /\ reply' = Text(d, Readable(d))
<1>. DEFINE a == handling.at
            x == servers[a]
<1>1. /\ a \in Live /\ d \in Docs /\ Live' = Live /\ servers'[a] = GetDocument(x, d)
      /\ \A s \in Live \ {a} : servers'[s] = servers[s]
  BY FinishGetEffect
<1>2. /\ handling # Nobody /\ handling.op = "get" /\ handling' = Nobody
      /\ x.queue = <<>> /\ reply' = GetReply(x, d)
  BY DEF FinishGet, Running, At
<1>3. ServerOK(x) /\ Coherent(x)
  BY <1>1 DEF Structure, Growing, Sound
<1>4. Settled' = Settled /\ Settled = Live
  BY <1>1, <1>2 DEF Settled
<1>5. Owns(Live, a, DocHash[d])
  BY <1>2 DEF Growing, Fetching
<1>. HIDE DEF x, a
<1>6. GetReply(x, d) = Text(d, DatabaseGetEntry(x.db, d))
  BY <1>1, <1>3, GetDocumentCoherent
<1>7. GetDocument(x, d).db = x.db /\ GetDocument(x, d).queue = x.queue
  BY <1>1, <1>3, GetDocumentOK
<1>8. \A e \in Docs : Readable(e)' = Readable(e)
  <2>. SUFFICES ASSUME NEW e \in Docs
                PROVE  Readable(e)' = Readable(e)
    OBVIOUS
  <2>1. Awaits(GetDocument(x, d), e) = Awaits(x, e)
    BY <1>7, AwaitsSame
  <2>2. \A s \in Settled : Awaits(servers'[s], e) = Awaits(servers[s], e)
    BY <1>1, <1>4, <2>1 DEF x
  <2>. QED
    BY <1>4, <2>2, ReadableKept
<1>9. Readable(d) = DatabaseGetEntry(x.db, d)
  <2>. DEFINE r == SettledTags
              f == servers
  <2>1. IsRing(r, Live) /\ Readable(d) = ReadIn(f, r, d) /\ f[a] = x
    BY <1>4, ReadableRead, SettledRing DEF x
  <2>. HIDE DEF r, f
  <2>2. ReadIn(f, r, d) = Awaits(f[a], d)
    BY <1>1, <1>5, <2>1, ReadAtOwner
  <2>. QED
    BY <1>2, <2>1, <2>2, AwaitsStored
<1>. QED
  BY <1>1, <1>2, <1>6, <1>8, <1>9

\* A step that changes no server and starts no join keeps what is read.
LEMMA ReadableSameServers ==
  ASSUME Structure, Structure', NEW d \in Docs,
         servers' = servers, handling' = handling \/ (handling = Nobody /\ handling'.op = "get")
  PROVE  Readable(d)' = Readable(d)
<1>1. Settled' = Settled
  BY DEF Settled, Live
<1>. QED
  BY <1>1, ReadableKept

\* A queued EDIT stores its text.
LEMMA EditStores ==
  ASSUME Structure, Structure', Growing, NEW d \in Docs, EditDoc(d)
  PROVE  Store!Edit(d, served') /\ served' \in Contents
<1>. DEFINE F == [e \in Docs |-> Readable(e)]
<1>1. /\ Readable(d)' = served'
      /\ \A e \in Docs \ {d} : Readable(e)' = Readable(e)
  BY ReadableEditDoc
<1>2. F' = [e \in Docs |-> Readable(e)']
  OBVIOUS
<1>3. F' = [F EXCEPT ![d] = served']
  BY <1>1, <1>2
<1>4. reply' = Store!Queued(d)
  BY DEF EditDoc, Queued, Message, Store!Queued, Store!Message
<1>5. served' \in Contents
  BY EditDocEffect
<1>. QED
  BY <1>3, <1>4, <1>5 DEF Store!Edit

\* An answered GET reads the store.
LEMMA GetReads ==
  ASSUME Structure, Structure', Growing, FinishGet
  PROVE  \E d \in Docs : Store!Get(d)
<1>. DEFINE F == [e \in Docs |-> Readable(e)]
<1>1. PICK d : d = handling.doc
  OBVIOUS
<1>2. /\ \A e \in Docs : Readable(e)' = Readable(e)
      /\ d \in Docs /\ reply' = Text(d, Readable(d))
  BY <1>1, ReadableFinishGet
<1>3. F' = [e \in Docs |-> Readable(e)']
  OBVIOUS
<1>4. F' = F
  BY <1>2, <1>3
<1>5. reply' = Store!Text(d, F[d])
  BY <1>2 DEF Text, Store!Text
<1>. QED
  BY <1>2, <1>4, <1>5 DEF Store!Get

\* Every other step leaves the store and the reply as they are.
LEMMA OthersKeepStore ==
  ASSUME JoinsBehind, Structure, Structure', Growing, Behind, [Next]_vars,
         ~\E d \in Docs : EditDoc(d), ~FinishGet
  PROVE  UNCHANGED Store!vars
<1>. DEFINE F == [e \in Docs |-> Readable(e)]
<1>1. SUFFICES reply' = reply /\ \A d \in Docs : Readable(d)' = Readable(d)
  <2>1. F' = [e \in Docs |-> Readable(e)']
    OBVIOUS
  <2>. SUFFICES ASSUME reply' = reply, \A d \in Docs : Readable(d)' = Readable(d)
                PROVE  UNCHANGED Store!vars
    BY <1>1
  <2>2. F' = F
    BY <2>1
  <2>. QED
    BY <2>2 DEF Store!vars
<1>2. CASE UNCHANGED vars \/ Die \/ \E d \in Docs : GetDoc(d)
  <2>1. /\ servers' = servers /\ reply' = reply
        /\ handling' = handling \/ (handling = Nobody /\ handling'.op = "get")
    BY <1>2 DEF vars, Die, GetDoc, Ready, Handle
  <2>. QED
    BY <2>1, ReadableSameServers
<1>3. CASE ExecuteTask
  BY <1>3, ReadableExecuteTask DEF ExecuteTask
<1>4. CASE FinishAdd
  BY <1>4, ReadableFinishAdd DEF FinishAdd
<1>5. ASSUME NEW s \in ServerIds, NEW size \in CacheSizes, AddServer(s, size)
      PROVE  reply' = reply /\ \A d \in Docs : Readable(d)' = Readable(d)
  BY <1>5, ReadableAddServer DEF AddServer
<1>6. ASSUME NEW s \in ServerIds
      PROVE  ~RemoveServer(s)
  BY DEF RemoveServer, MayLeave, JoinsBehind
<1>7. ~FinishRemove
  BY DEF FinishRemove, Running, Growing
<1>. QED
  BY <1>2, <1>3, <1>4, <1>5, <1>6, <1>7 DEF Next, Request, Step

\* At first the store is empty.
LEMMA StoreInit == Init => Store!Init
<1>. SUFFICES ASSUME Init
              PROVE  Store!Init
  OBVIOUS
<1>1. SettledTags = <<>> /\ reply = NoReply
  BY DEF Init, SettledTags
<1>2. \A d \in Docs : Readable(d) = NoContent
  BY <1>1 DEF Readable
<1>. QED
  BY <1>1, <1>2 DEF Store!Init, NoReply, Message, Store!NoReply, Store!Message

\* As long as servers only join, and behind the head of the ring once there are
\* documents, the servers together are one map of documents for their client,
\* whatever is cached, queued and moved: every EDIT stores its text, every GET
\* answers with the text stored last, and no other step of the load balancer
\* (loader_add_server, server_handle_request) changes what a GET would answer.
THEOREM GrowingRingImplementsStore ==
  ASSUME JoinsBehind
  PROVE  Spec => StoreSpec
<1>. DEFINE I == Structure /\ Growing /\ Behind
<1>1. Init => I
  BY StructureInit, GrowingInit DEF Behind, Init
<1>2. I /\ [Next]_vars => I'
  BY StructureInductive, GrowingInductive, BehindInductive DEF NoLeaves, JoinsBehind
<1>3. Init => Store!Init
  BY StoreInit
<1>4. I /\ I' /\ [Next]_vars => [Store!Next]_(Store!vars)
  BY EditStores, GetReads, OthersKeepStore DEF Store!Next
<1>5. I /\ I' /\ [Next]_vars => [\A d \in Docs : EditDoc(d) => Store!Edit(d, served')]_vars
  BY EditStores
<1>. QED
  BY <1>1, <1>2, <1>3, <1>4, <1>5, PTL DEF Spec, StoreSpec, Store!Spec, EditsStored
=============================================================================
