------------------------- MODULE SegregatedHeapProofs -------------------------
(***************************************************************************)
(* What the heap promises, for every memory, size of block and input:      *)
(* counters that are right (CountersStayRight), lists in order             *)
(* (ListsStayInOrder), blocks that tile the memory (BlocksKeepTiling),     *)
(* first fit that is best fit (MallocIsBestFit), all that Allocator asks   *)
(* for (HeapImplementsAllocator), and bytes that are read as they were     *)
(* written (WritesAreReadBack).                                            *)
(*                                                                         *)
(* The free lists are followed as one multiset of blocks: an operation     *)
(* Adds a block to them or takes one away, and a measure that every block  *)
(* adds its own to (their number, their sizes, how many have byte x)       *)
(* changes by that block's.  Counts and Tiles say of these measures what   *)
(* the counters and the tiling are; HeapOK joins them, and HeapInv says it *)
(* of the program.                                                         *)
(***************************************************************************)
EXTENDS SegregatedHeap, SequenceLemmas

\* What sorting and unlinking do to a sequence: t is s with e at place p.
Inserted(t, s, p, e) ==
  /\ Len(t) = Len(s) + 1
  /\ p \in 1 .. Len(s) + 1
  /\ t[p] = e
  /\ \A i \in 1 .. Len(s) : t[IF i < p THEN i ELSE i + 1] = s[i]

\* Every element of t is the new one or one of s.
LEMMA InsertedElements ==
  ASSUME NEW S, NEW s \in Seq(S), NEW t \in Seq(S), NEW p, NEW e, Inserted(t, s, p, e)
  PROVE  /\ \A i \in 1 .. Len(s) + 1 :
              t[i] = IF i < p THEN s[i] ELSE IF i = p THEN e ELSE s[i - 1]
         /\ ToSet(t) = ToSet(s) \cup {e}
<1>. DEFINE n == Len(s)
<1>1. /\ n \in Nat /\ Len(t) = n + 1 /\ p \in 1 .. n + 1 /\ t[p] = e
      /\ \A i \in 1 .. n : t[IF i < p THEN i ELSE i + 1] = s[i]
  BY IndicesOfSeq DEF Inserted
<1>2. ToSet(s) = {s[i] : i \in 1 .. n} /\ ToSet(t) = {t[i] : i \in 1 .. n + 1}
  BY <1>1, IndicesOfSeq
<1>3. ASSUME NEW i \in 1 .. n + 1
      PROVE  t[i] = IF i < p THEN s[i] ELSE IF i = p THEN e ELSE s[i - 1]
  <2>1. CASE i < p
    <3>1. i \in 1 .. n
      BY <1>1, <2>1
    <3>. QED
      BY <1>1, <2>1, <3>1
  <2>2. CASE i > p
    <3>1. i - 1 \in 1 .. n /\ ~(i - 1 < p) /\ (i - 1) + 1 = i /\ ~(i < p) /\ i # p
      BY <1>1, <2>2
    <3>. QED
      BY <1>1, <3>1
  <2>3. CASE i = p
    BY <1>1, <2>3
  <2>. QED
    BY <1>1, <2>1, <2>2, <2>3
<1>4. ToSet(t) \subseteq ToSet(s) \cup {e}
  <2>. SUFFICES ASSUME NEW i \in 1 .. n + 1 PROVE t[i] \in ToSet(s) \cup {e}
    BY <1>2
  <2>1. CASE i < p
    <3>1. i \in 1 .. n
      BY <1>1, <2>1
    <3>. QED
      BY <1>2, <1>3, <2>1, <3>1
  <2>2. CASE i > p
    <3>1. i - 1 \in 1 .. n /\ ~(i < p) /\ i # p
      BY <1>1, <2>2
    <3>. QED
      BY <1>2, <1>3, <3>1
  <2>3. CASE i = p
    BY <1>1, <2>3
  <2>. QED
    BY <1>1, <2>1, <2>2, <2>3
<1>5. ToSet(s) \cup {e} \subseteq ToSet(t)
  <2>1. ASSUME NEW i \in 1 .. n PROVE s[i] \in ToSet(t)
    <3>. DEFINE j == IF i < p THEN i ELSE i + 1
    <3>1. j \in 1 .. n + 1 /\ t[j] = s[i]
      BY <1>1
    <3>. QED
      BY <1>2, <3>1
  <2>2. e \in ToSet(t)
    BY <1>1, <1>2
  <2>. QED
    BY <1>2, <2>1, <2>2
<1>. QED
  BY <1>3, <1>4, <1>5

\* InsertAt inserts, and RemoveAt takes an insertion back.
LEMMA InsertAtInserts ==
  ASSUME NEW S, NEW s \in Seq(S), NEW p \in 1 .. Len(s) + 1, NEW e \in S
  PROVE  InsertAt(s, p, e) \in Seq(S) /\ Inserted(InsertAt(s, p, e), s, p, e)
<1>. DEFINE n == Len(s)
            t == InsertAt(s, p, e)
<1>1. n \in Nat
  BY IndicesOfSeq
<1>2. /\ t \in Seq(S) /\ Len(t) = n + 1
      /\ \A i \in 1 .. n + 1 : t[i] = IF i < p THEN s[i] ELSE IF i = p THEN e ELSE s[i - 1]
  <2>1. /\ InsertAt(s, p, e) \in Seq(S) /\ Len(InsertAt(s, p, e)) = Len(s) + 1
        /\ \A i \in 1 .. Len(s) + 1 :
              InsertAt(s, p, e)[i] = IF i < p THEN s[i] ELSE IF i = p THEN e ELSE s[i - 1]
    <3>. HIDE DEF t, n
    <3>. QED
      BY InsertAtProperties
  <2>. QED
    BY <2>1
<1>. HIDE DEF t
<1>3. ASSUME NEW i \in 1 .. n
      PROVE  t[IF i < p THEN i ELSE i + 1] = s[i]
  <2>1. CASE i < p
    BY <1>1, <1>2, <2>1
  <2>2. CASE ~(i < p)
    <3>1. i + 1 \in 1 .. n + 1 /\ ~(i + 1 < p) /\ i + 1 # p /\ (i + 1) - 1 = i
      BY <1>1, <2>2
    <3>. QED
      BY <1>2, <2>2, <3>1
  <2>. QED
    BY <2>1, <2>2
<1>4. t[p] = e
  BY <1>1, <1>2
<1>. QED
  BY <1>2, <1>3, <1>4 DEF Inserted, t

\* Removing an element leaves the sequence it would be inserted into.
LEMMA RemoveAtUndoes ==
  ASSUME NEW S, NEW s \in Seq(S), NEW p \in 1 .. Len(s)
  PROVE  RemoveAt(s, p) \in Seq(S) /\ Inserted(s, RemoveAt(s, p), p, s[p])
<1>. DEFINE n == Len(s)
            t == RemoveAt(s, p)
<1>1. n \in Nat
  BY IndicesOfSeq
<1>2. /\ t \in Seq(S) /\ Len(t) = n - 1
      /\ \A i \in 1 .. n - 1 : t[i] = IF i < p THEN s[i] ELSE s[i + 1]
  BY RemoveAtProperties
<1>. HIDE DEF t
<1>3. \A i \in 1 .. n - 1 : s[IF i < p THEN i ELSE i + 1] = t[i]
  BY <1>1, <1>2
<1>4. n = Len(t) + 1 /\ Len(t) = n - 1 /\ p \in 1 .. Len(t) + 1
  BY <1>1, <1>2
<1>. QED
  BY <1>2, <1>3, <1>4 DEF Inserted, t

\* A list in the order of addresses.
ByAddress(s) == \A j, k \in 1 .. Len(s) : j < k => s[j].address <= s[k].address

\* Without one of its elements a list stays in order.
LEMMA RemovedInOrder ==
  ASSUME NEW S, NEW s \in Seq(S), NEW t \in Seq(S), NEW p, NEW e,
         Inserted(s, t, p, e), ByAddress(s)
  PROVE  ByAddress(t)
<1>1. Len(t) \in Nat /\ p \in 1 .. Len(t) + 1 /\ Len(s) = Len(t) + 1
  BY IndicesOfSeq DEF Inserted
<1>. SUFFICES ASSUME NEW j \in 1 .. Len(t), NEW k \in 1 .. Len(t), j < k
              PROVE  t[j].address <= t[k].address
  BY DEF ByAddress
<1>. DEFINE a == IF j < p THEN j ELSE j + 1
            b == IF k < p THEN k ELSE k + 1
<1>2. a \in 1 .. Len(s) /\ b \in 1 .. Len(s) /\ a < b
  BY <1>1
<1>3. s[a] = t[j] /\ s[b] = t[k]
  BY DEF Inserted
<1>. HIDE DEF a, b
<1>. QED
  BY <1>2, <1>3 DEF ByAddress

\* InsertByAddress inserts a block and keeps the order.
LEMMA InsertByAddressInserts ==
  ASSUME NEW S, NEW s \in Seq(S), NEW b \in S, \A x \in S : x.address \in Int
  PROVE  /\ InsertByAddress(s, b) \in Seq(S)
         /\ \E p \in 1 .. Len(s) + 1 : Inserted(InsertByAddress(s, b), s, p, b)
         /\ ByAddress(s) => ByAddress(InsertByAddress(s, b))
<1>. DEFINE n == Len(s)
            I == {i \in 1 .. n : s[i].address >= b.address}
            q == IF I # {} THEN Min(I) ELSE 0
            p == IF q = 0 THEN n + 1 ELSE q
            t == InsertAt(s, p, b)
<1>1. n \in Nat /\ \A i \in 1 .. n : s[i] \in S /\ s[i].address \in Int
  BY IndicesOfSeq, ElementOfSeq
<1>2. InsertByAddress(s, b) = t
  BY DEF InsertByAddress, SelectInSeq
<1>3. I # {} => q \in I /\ \A i \in I : q <= i
  <2>1. I \in SUBSET Nat
    BY <1>1
  <2>. QED
    BY <2>1, MinIsLeast
<1>. HIDE DEF q
<1>4. /\ p \in 1 .. n + 1
      /\ \A i \in 1 .. n : i < p => s[i].address < b.address
      /\ p \in 1 .. n => s[p].address >= b.address
  <2>1. CASE I = {}
    <3>1. q = 0
      BY <2>1 DEF q
    <3>. QED
      BY <1>1, <2>1, <3>1
  <2>2. CASE I # {}
    <3>1. q \in I /\ \A i \in I : q <= i
      BY <1>3, <2>2
    <3>2. p = q /\ q \in 1 .. n /\ s[q].address >= b.address
      BY <1>1, <3>1
    <3>3. ASSUME NEW i \in 1 .. n, i < q
          PROVE  s[i].address < b.address
      <4>1. i \notin I
        BY <1>1, <3>1, <3>2, <3>3
      <4>. QED
        BY <1>1, <4>1
    <3>. QED
      BY <1>1, <3>2, <3>3
  <2>. QED
    BY <2>1, <2>2
<1>. HIDE DEF p
<1>5. t \in Seq(S) /\ Inserted(t, s, p, b)
  BY <1>4, InsertAtInserts
<1>. HIDE DEF t
<1>6. Len(t) = n + 1 /\ \A i \in 1 .. n + 1 :
        t[i] = IF i < p THEN s[i] ELSE IF i = p THEN b ELSE s[i - 1]
  <2>1. Len(t) = n + 1
    BY <1>5 DEF Inserted
  <2>2. \A i \in 1 .. Len(s) + 1 :
          t[i] = IF i < p THEN s[i] ELSE IF i = p THEN b ELSE s[i - 1]
    BY <1>5, InsertedElements
  <2>. QED
    BY <2>1, <2>2
<1>7. ASSUME ByAddress(s), NEW j \in 1 .. n + 1, NEW k \in 1 .. n + 1, j < k
      PROVE  t[j].address <= t[k].address
  <2>0. \A x, y \in 1 .. n : x < y => s[x].address <= s[y].address
    BY <1>7 DEF ByAddress
  <2>1. CASE k < p
    <3>1. j \in 1 .. n /\ k \in 1 .. n /\ j < p
      BY <1>1, <1>4, <1>7, <2>1
    <3>. QED
      BY <1>6, <1>7, <2>0, <2>1, <3>1
  <2>2. CASE k = p
    <3>1. j \in 1 .. n /\ j < p
      BY <1>1, <1>4, <1>7, <2>2
    <3>2. t[j] = s[j] /\ t[k] = b /\ s[j].address < b.address
      BY <1>4, <1>6, <2>2, <3>1
    <3>. QED
      BY <1>1, <3>1, <3>2
  <2>3. CASE k > p /\ j < p
    <3>1. j \in 1 .. n /\ k - 1 \in 1 .. n /\ (j < k - 1 \/ j = k - 1)
      BY <1>1, <1>4, <1>7, <2>3
    <3>2. t[j] = s[j] /\ t[k] = s[k - 1]
      BY <1>4, <1>6, <2>3, <3>1
    <3>. QED
      BY <1>1, <2>0, <3>1, <3>2
  <2>4. CASE k > p /\ j = p
    <3>1. p \in 1 .. n /\ k - 1 \in 1 .. n /\ (p < k - 1 \/ p = k - 1)
      BY <1>1, <1>4, <1>7, <2>4
    <3>2. t[j] = b /\ t[k] = s[k - 1] /\ s[p].address >= b.address
      BY <1>4, <1>6, <2>4, <3>1
    <3>3. s[p].address <= s[k - 1].address
      BY <1>1, <2>0, <3>1
    <3>. QED
      BY <1>1, <3>1, <3>2, <3>3
  <2>5. CASE j > p
    <3>1. j - 1 \in 1 .. n /\ k - 1 \in 1 .. n /\ j - 1 < k - 1
      BY <1>1, <1>4, <1>7, <2>5
    <3>2. t[j] = s[j - 1] /\ t[k] = s[k - 1]
      BY <1>4, <1>6, <1>7, <2>5, <3>1
    <3>. QED
      BY <2>0, <3>1, <3>2
  <2>. QED
    BY <1>1, <1>4, <2>1, <2>2, <2>3, <2>4, <2>5
<1>8. ByAddress(s) => ByAddress(t)
  BY <1>6, <1>7 DEF ByAddress
<1>. QED
  BY <1>2, <1>4, <1>5, <1>8

FreeList == [size : Nat, numberOfBlocks : Nat, blocks : Seq(FreeBlock)]

\* One list for each size, in the order of sizes.
BySize(L) == \A i, j \in 1 .. Len(L) : i < j => L[i].size < L[j].size

\* A list in its place: behind the smaller ones, of which there are as many.
LEMMA PlaceBySize ==
  ASSUME NEW L \in Seq(FreeList), BySize(L), NEW l \in FreeList,
         \A i \in 1 .. Len(L) : L[i].size # l.size
  PROVE  \E p \in 1 .. Len(L) + 1 : \A i \in 1 .. Len(L) :
            IF i < p THEN L[i].size < l.size ELSE l.size < L[i].size
<1>. DEFINE n == Len(L)
            K == {i \in 1 .. n : l.size < L[i].size}
            p == IF K = {} THEN n + 1 ELSE Min(K)
<1>1. n \in Nat /\ \A i \in 1 .. n : L[i].size \in Nat
  <2>1. \A i \in 1 .. n : L[i] \in FreeList
    BY ElementOfSeq
  <2>. QED
    BY <2>1, IndicesOfSeq DEF FreeList
<1>2. l.size \in Nat
  BY DEF FreeList
<1>3. CASE K = {}
  <2>1. n + 1 \in 1 .. n + 1 /\ \A i \in 1 .. n : i < n + 1 /\ ~(l.size < L[i].size)
    BY <1>1, <1>3
  <2>2. \A i \in 1 .. n : L[i].size < l.size
    BY <1>1, <1>2, <2>1
  <2>. QED
    BY <2>1, <2>2
<1>4. CASE K # {}
  <2>1. K \in SUBSET Nat
    OBVIOUS
  <2>2. Min(K) \in K /\ \A i \in K : Min(K) <= i
    BY <1>4, <2>1, MinIsLeast
  <2>. DEFINE q == Min(K)
  <2>. HIDE DEF q
  <2>3. q \in 1 .. n /\ l.size < L[q].size /\ \A i \in K : q <= i
    BY <2>2 DEF q
  <2>4. ASSUME NEW i \in 1 .. n
        PROVE  IF i < q THEN L[i].size < l.size ELSE l.size < L[i].size
    <3>1. CASE i < q
      <4>1. i \notin K
        BY <1>1, <2>3, <3>1
      <4>2. ~(l.size < L[i].size) /\ L[i].size # l.size
        BY <4>1
      <4>. QED
        BY <1>1, <1>2, <3>1, <4>2
    <3>2. CASE i = q
      BY <2>3, <3>2
    <3>3. CASE q < i
      <4>1. L[q].size < L[i].size
        BY <2>3, <3>3 DEF BySize
      <4>. QED
        BY <1>1, <1>2, <2>3, <3>3, <4>1
    <3>. QED
      BY <1>1, <2>3, <3>1, <3>2, <3>3
  <2>5. q \in 1 .. n + 1
    BY <1>1, <2>3
  <2>6. \A i \in 1 .. n : IF i < q THEN L[i].size < l.size ELSE l.size < L[i].size
    BY <2>4
  <2>. QED
    BY <2>5, <2>6
<1>. QED
  BY <1>3, <1>4

\* Sorting inserts a list that was appended.
LEMMA SortedInserts ==
  ASSUME NEW L \in Seq(FreeList), BySize(L), NEW l \in FreeList,
         \A i \in 1 .. Len(L) : L[i].size # l.size
  PROVE  /\ Sorted(Append(L, l)) \in Seq(FreeList)
         /\ BySize(Sorted(Append(L, l)))
         /\ \E p \in 1 .. Len(L) + 1 : Inserted(Sorted(Append(L, l)), L, p, l)
<1>. DEFINE n == Len(L)
            M == Append(L, l)
            c == [i \in 1 .. n + 1 |-> Cardinality(Smaller(M, i))]
            T == Sorted(M)
<1>1. n \in Nat /\ \A i \in 1 .. n : L[i] \in FreeList /\ L[i].size \in Nat
  <2>1. \A i \in 1 .. n : L[i] \in FreeList
    BY ElementOfSeq
  <2>. QED
    BY <2>1, IndicesOfSeq DEF FreeList
<1>2. l.size \in Nat
  BY DEF FreeList
<1>3. DOMAIN M = 1 .. n + 1 /\ M[n + 1] = l /\ \A i \in 1 .. n : M[i] = L[i]
  BY <1>1, AppendProperties
<1>4. PICK p \in 1 .. n + 1 : \A i \in 1 .. n :
         IF i < p THEN L[i].size < l.size ELSE l.size < L[i].size
  BY PlaceBySize
<1>5. \A i, j \in 1 .. n : /\ i < j => L[i].size < L[j].size
                           /\ L[j].size < L[i].size => j < i
  <2>1. \A i, j \in 1 .. n : i < j => L[i].size < L[j].size
    BY DEF BySize
  <2>. QED
    BY <1>1, <2>1
<1>. HIDE DEF M, n
<1>6. ASSUME NEW i \in 1 .. n
      PROVE  c[i] = IF i < p THEN i - 1 ELSE i
  <2>1. i \in 1 .. n + 1 /\ i # n + 1 /\ i \in Nat /\ i >= 1 /\ c[i] = Cardinality(Smaller(M, i))
    BY <1>1
  <2>2. IsFiniteSet(1 .. i - 1) /\ Cardinality(1 .. i - 1) = i - 1
    <3>1. 1 \in Int /\ i - 1 \in Int
      BY <2>1
    <3>2. IsFiniteSet(1 .. i - 1) /\ Cardinality(1 .. i - 1) = IF 1 > i - 1 THEN 0 ELSE (i - 1) - 1 + 1
      BY <3>1, FS_Interval
    <3>. QED
      BY <2>1, <3>2
  <2>3. \A j \in 1 .. n : M[j].size < M[i].size <=> j \in 1 .. i - 1
    <3>1. \A j \in 1 .. n : L[j].size < L[i].size <=> j < i
      BY <1>1, <1>5
    <3>. QED
      BY <1>1, <1>3, <2>1, <3>1
  <2>4. 1 .. i - 1 \subseteq 1 .. n /\ n + 1 \notin 1 .. i - 1
    BY <1>1, <2>1
  <2>5. M[n + 1].size < M[i].size <=> ~(i < p)
    <3>1. M[i] = L[i] /\ M[n + 1] = l
      BY <1>3
    <3>2. IF i < p THEN L[i].size < l.size ELSE l.size < L[i].size
      BY <1>4
    <3>. QED
      BY <1>1, <1>2, <3>1, <3>2
  <2>6. Smaller(M, i) = IF i < p THEN 1 .. i - 1 ELSE (1 .. i - 1) \cup {n + 1}
    <3>1. Smaller(M, i) = {j \in 1 .. n + 1 : M[j].size < M[i].size}
      BY <1>3 DEF Smaller
    <3>2. 1 .. n + 1 = (1 .. n) \cup {n + 1}
      BY <1>1
    <3>. QED
      BY <2>3, <2>4, <2>5, <3>1, <3>2
  <2>7. Cardinality((1 .. i - 1) \cup {n + 1}) = i
    <3>. DEFINE S == 1 .. i - 1
                e == n + 1
    <3>1. IsFiniteSet(S) /\ Cardinality(S) = i - 1 /\ e \notin S
      BY <2>2, <2>4
    <3>. HIDE DEF S, e
    <3>2. Cardinality(S \cup {e}) = Cardinality(S) + 1
      BY <3>1, FS_AddElement
    <3>. QED
      BY <2>1, <3>1, <3>2 DEF S, e
  <2>. QED
    BY <2>1, <2>2, <2>6, <2>7
<1>7. c[n + 1] = p - 1
  <2>1. p \in Int /\ p >= 1 /\ p <= n + 1
    BY <1>1, <1>4
  <2>2. Cardinality(1 .. p - 1) = p - 1
    <3>1. 1 \in Int /\ p - 1 \in Int
      BY <2>1
    <3>2. Cardinality(1 .. p - 1) = IF 1 > p - 1 THEN 0 ELSE (p - 1) - 1 + 1
      BY <3>1, FS_Interval
    <3>. QED
      BY <2>1, <3>2
  <2>3. Smaller(M, n + 1) = 1 .. p - 1
    <3>1. Smaller(M, n + 1) = {j \in 1 .. n + 1 : M[j].size < l.size}
      BY <1>3 DEF Smaller
    <3>2. ASSUME NEW j \in 1 .. n + 1
          PROVE  M[j].size < l.size <=> j \in 1 .. p - 1
      <4>1. CASE j = n + 1
        <5>1. ~(M[j].size < l.size) /\ j \notin 1 .. p - 1
          BY <1>1, <1>2, <1>3, <2>1, <4>1
        <5>. QED
          BY <5>1
      <4>2. CASE j # n + 1
        <5>1. j \in 1 .. n /\ M[j] = L[j]
          BY <1>1, <1>3, <4>2
        <5>2. IF j < p THEN L[j].size < l.size ELSE l.size < L[j].size
          BY <1>4, <5>1
        <5>3. j < p <=> j \in 1 .. p - 1
          BY <2>1, <5>1
        <5>. QED
          BY <1>1, <1>2, <5>1, <5>2, <5>3
      <4>. QED
        BY <4>1, <4>2
    <3>3. 1 .. p - 1 \subseteq 1 .. n + 1
      BY <1>1, <2>1
    <3>. QED
      BY <3>1, <3>2, <3>3
  <2>4. c[n + 1] = Cardinality(Smaller(M, n + 1))
    BY <1>1
  <2>. QED
    BY <2>2, <2>3, <2>4
<1>8. /\ DOMAIN T = 1 .. n + 1
      /\ \A k \in 1 .. n + 1 :
           T[k] = M[CHOOSE i \in DOMAIN M : Cardinality(Smaller(M, i)) = k - 1]
      /\ T = [k \in 1 .. n + 1 |-> T[k]]
      /\ \A i \in 1 .. n + 1 : c[i] = Cardinality(Smaller(M, i))
  BY <1>3 DEF Sorted
<1>. HIDE DEF T, c
<1>9. ASSUME NEW k \in 1 .. n + 1, NEW i \in 1 .. n + 1, c[i] = k - 1
      PROVE  T[k] = M[i]
  <2>1. \A j \in 1 .. n + 1 : c[j] = k - 1 => j = i
    <3>1. ASSUME NEW j \in 1 .. n + 1, c[j] = k - 1
          PROVE  j = i
      <4>1. p \in 1 .. n + 1 /\ k \in Int
        BY <1>4
      <4>2. CASE j = n + 1 /\ i = n + 1
        BY <4>2
      <4>3. CASE j = n + 1 /\ i # n + 1
        <5>1. i \in 1 .. n /\ c[i] = p - 1
          BY <1>1, <1>7, <1>9, <3>1, <4>3
        <5>. QED
          BY <1>1, <1>6, <4>1, <5>1
      <4>4. CASE j # n + 1 /\ i = n + 1
        <5>1. j \in 1 .. n /\ c[j] = p - 1
          BY <1>1, <1>7, <1>9, <3>1, <4>4
        <5>. QED
          BY <1>1, <1>6, <4>1, <5>1
      <4>5. CASE j # n + 1 /\ i # n + 1
        <5>0. j \in 1 .. n /\ i \in 1 .. n
          BY <1>1, <4>5
        <5>1. j \in 1 .. n /\ i \in 1 .. n /\ c[i] = c[j]
          BY <1>9, <3>1, <5>0
        <5>2. c[i] = (IF i < p THEN i - 1 ELSE i) /\ c[j] = (IF j < p THEN j - 1 ELSE j)
          BY <1>6, <5>1
        <5>3. i \in Int /\ j \in Int /\ p \in Int
          BY <1>1, <4>1, <5>1
        <5>4. (IF i < p THEN i - 1 ELSE i) = (IF j < p THEN j - 1 ELSE j)
          BY <5>1, <5>2
        <5>. QED
          BY <5>3, <5>4
      <4>. QED
        BY <4>2, <4>3, <4>4, <4>5
    <3>. QED
      BY <3>1
  <2>2. (CHOOSE j \in DOMAIN M : Cardinality(Smaller(M, j)) = k - 1) = i
    <3>1. \A j \in DOMAIN M : Cardinality(Smaller(M, j)) = k - 1 <=> j = i
      BY <1>3, <1>8, <1>9, <2>1
    <3>2. i \in DOMAIN M
      BY <1>3
    <3>. QED
      BY <3>1, <3>2
  <2>. QED
    BY <1>8, <2>2
<1>10. T[p] = l
  <2>1. n + 1 \in 1 .. n + 1
    BY <1>1
  <2>. QED
    BY <1>3, <1>4, <1>7, <1>9, <2>1
<1>11. ASSUME NEW i \in 1 .. n
       PROVE  T[IF i < p THEN i ELSE i + 1] = L[i]
  <2>. DEFINE k == IF i < p THEN i ELSE i + 1
  <2>1. k \in 1 .. n + 1 /\ i \in 1 .. n + 1 /\ c[i] = k - 1
    BY <1>1, <1>6
  <2>. HIDE DEF k
  <2>2. T[k] = M[i]
    BY <1>9, <2>1
  <2>. QED
    BY <1>3, <2>2 DEF k
<1>12. T \in Seq(FreeList) /\ Len(T) = n + 1
  <2>1. ASSUME NEW k \in 1 .. n + 1
        PROVE  T[k] \in FreeList
    <3>1. CASE k < p
      <4>1. k \in 1 .. n /\ T[k] = L[k]
        BY <1>1, <1>4, <1>11, <3>1
      <4>. QED
        BY <1>1, <4>1
    <3>2. CASE k = p
      BY <1>10, <3>2
    <3>3. CASE k > p
      <4>1. k - 1 \in 1 .. n /\ ~(k - 1 < p) /\ (k - 1) + 1 = k
        BY <1>1, <1>4, <3>3
      <4>2. T[k] = L[k - 1]
        BY <1>11, <4>1
      <4>. QED
        BY <1>1, <4>1, <4>2
    <3>. QED
      BY <1>1, <1>4, <3>1, <3>2, <3>3
  <2>2. T \in [1 .. n + 1 -> FreeList]
    BY <1>8, <2>1
  <2>3. n + 1 \in Nat
    BY <1>1
  <2>4. T \in Seq(FreeList)
    BY <2>2, <2>3
  <2>. QED
    BY <1>8, <2>3, <2>4, LenProperties
<1>13. Inserted(T, L, p, l)
  BY <1>4, <1>10, <1>11, <1>12 DEF Inserted, n
<1>14. BySize(T)
  <2>1. \A k \in 1 .. n + 1 : T[k] = IF k < p THEN L[k] ELSE IF k = p THEN l ELSE L[k - 1]
    BY <1>12, <1>13, InsertedElements DEF n
  <2>. SUFFICES ASSUME NEW i \in 1 .. n + 1, NEW j \in 1 .. n + 1, i < j
                PROVE  T[i].size < T[j].size
    BY <1>12 DEF BySize
  <2>2. p \in Int /\ p >= 1 /\ p <= n + 1 /\ n \in Nat
    BY <1>1, <1>4
  <2>3. CASE j < p
    <3>1. i \in 1 .. n /\ j \in 1 .. n /\ T[i] = L[i] /\ T[j] = L[j]
      BY <2>1, <2>2, <2>3
    <3>. QED
      BY <1>5, <3>1
  <2>4. CASE j = p
    <3>1. i \in 1 .. n /\ i < p /\ T[i] = L[i] /\ T[j] = l
      BY <2>1, <2>2, <2>4
    <3>. QED
      BY <1>4, <3>1
  <2>5. CASE i = p
    <3>1. j - 1 \in 1 .. n /\ ~(j - 1 < p) /\ T[i] = l /\ T[j] = L[j - 1]
      BY <2>1, <2>2, <2>5
    <3>. QED
      BY <1>4, <3>1
  <2>6. CASE i < p /\ p < j
    <3>1. i \in 1 .. n /\ j - 1 \in 1 .. n /\ ~(j - 1 < p) /\ T[i] = L[i] /\ T[j] = L[j - 1]
      BY <2>1, <2>2, <2>6
    <3>2. L[i].size < l.size /\ l.size < L[j - 1].size
      BY <1>4, <2>6, <3>1
    <3>. QED
      BY <1>1, <1>2, <3>1, <3>2
  <2>7. CASE p < i
    <3>1. i - 1 \in 1 .. n /\ j - 1 \in 1 .. n /\ i - 1 < j - 1 /\ T[i] = L[i - 1] /\ T[j] = L[j - 1]
      BY <2>1, <2>2, <2>7
    <3>. QED
      BY <1>5, <3>1
  <2>. QED
    BY <2>2, <2>3, <2>4, <2>5, <2>6, <2>7
<1>. QED
  BY <1>4, <1>12, <1>13, <1>14 DEF T, M, n

\* A list counts its blocks, which have its size and are in order.
ListOK(l) == /\ l.numberOfBlocks = Len(l.blocks)
             /\ ByAddress(l.blocks)
             /\ \A j \in 1 .. Len(l.blocks) : l.blocks[j].size = l.size

Tidy(L) == L \in Seq(FreeList) /\ BySize(L) /\ \A i \in 1 .. Len(L) : ListOK(L[i])

FreeOf(L) == UNION {ToSet(L[i].blocks) : i \in 1 .. Len(L)}

\* M has the blocks of L and b, which went into a list or became one.
JoinsList(M, L, b, i) ==
  /\ Len(M) = Len(L)
  /\ \A j \in 1 .. Len(L) : j # i => M[j] = L[j]
  /\ \E p : Inserted(M[i].blocks, L[i].blocks, p, b)

MakesList(M, L, b, p) == \E l \in FreeList : l.blocks = <<b>> /\ Inserted(M, L, p, l)

Adds(M, L, b) == \/ \E i \in 1 .. Len(L) : JoinsList(M, L, b, i)
                 \/ \E p \in 1 .. Len(L) + 1 : MakesList(M, L, b, p)

\* A measure of lists of blocks to which each block adds its own.
Additive(w, c) ==
  /\ w \in [Seq(FreeBlock) -> Int] /\ c \in [FreeBlock -> Int] /\ w[<<>>] = 0
  /\ \A s, t \in Seq(FreeBlock), b \in FreeBlock :
       (\E p : Inserted(t, s, p, b)) => w[t] = w[s] + c[b]

Weight(L, w) == SumOver([i \in 1 .. Len(L) |-> w[L[i].blocks]], 1 .. Len(L))

\* What the lists of an array are.
LEMMA ListsOf ==
  ASSUME NEW L \in Seq(FreeList)
  PROVE  /\ Len(L) \in Nat /\ DOMAIN L = 1 .. Len(L) /\ IsFiniteSet(1 .. Len(L))
         /\ \A i \in 1 .. Len(L) : /\ L[i] \in FreeList
                                   /\ L[i].blocks \in Seq(FreeBlock)
                                   /\ L[i].size \in Nat
<1>1. Len(L) \in Nat /\ DOMAIN L = 1 .. Len(L)
  BY IndicesOfSeq
<1>2. IsFiniteSet(1 .. Len(L))
  BY <1>1, FS_Interval
<1>3. \A i \in 1 .. Len(L) : L[i] \in FreeList
  BY ElementOfSeq
<1>. QED
  BY <1>1, <1>2, <1>3 DEF FreeList

\* One more block adds its own measure to that of the lists.
LEMMA AddsWeight ==
  ASSUME NEW L \in Seq(FreeList), NEW M \in Seq(FreeList), NEW b \in FreeBlock, Adds(M, L, b),
         NEW w, NEW c, Additive(w, c)
  PROVE  /\ Weight(L, w) \in Int /\ c[b] \in Int
         /\ Weight(M, w) = Weight(L, w) + c[b]
<1>. DEFINE n == Len(L)
            f == [i \in 1 .. n |-> w[L[i].blocks]]
            g == [i \in 1 .. Len(M) |-> w[M[i].blocks]]
<1>1. /\ n \in Nat /\ IsFiniteSet(1 .. n) /\ Len(M) \in Nat
      /\ \A i \in 1 .. n : L[i].blocks \in Seq(FreeBlock)
      /\ \A i \in 1 .. Len(M) : M[i].blocks \in Seq(FreeBlock)
  BY ListsOf
<1>2. w \in [Seq(FreeBlock) -> Int] /\ c[b] \in Int /\ w[<<>>] = 0
  BY DEF Additive
<1>3. \A i \in 1 .. n : f[i] \in Int /\ f[i] = w[L[i].blocks]
  BY <1>1, <1>2
<1>4. \A i \in 1 .. Len(M) : g[i] \in Int /\ g[i] = w[M[i].blocks]
  BY <1>1, <1>2
<1>5. Weight(L, w) = SumOver(f, 1 .. n) /\ Weight(M, w) = SumOver(g, 1 .. Len(M))
  BY DEF Weight
<1>. HIDE DEF f, g
<1>6. SumOver(f, 1 .. n) \in Int
  BY <1>1, <1>3, SumOverType
<1>7. ASSUME NEW i \in 1 .. n, JoinsList(M, L, b, i)
      PROVE  SumOver(g, 1 .. Len(M)) = SumOver(f, 1 .. n) + c[b]
  <2>1. Len(M) = n /\ \A j \in 1 .. n : j # i => M[j] = L[j]
    BY <1>7 DEF JoinsList
  <2>2. w[M[i].blocks] = w[L[i].blocks] + c[b]
    <3>1. M[i].blocks \in Seq(FreeBlock) /\ L[i].blocks \in Seq(FreeBlock)
      BY <1>1, <2>1
    <3>2. \E p : Inserted(M[i].blocks, L[i].blocks, p, b)
      BY <1>7 DEF JoinsList
    <3>. QED
      BY <3>1, <3>2 DEF Additive
  <2>3. g[i] = f[i] + c[b]
    BY <1>3, <1>4, <2>1, <2>2
  <2>. DEFINE S == 1 .. n
  <2>4. IsFiniteSet(S) /\ i \in S /\ \A x \in S : f[x] \in Int /\ g[x] \in Int
    BY <1>1, <1>3, <1>4, <2>1
  <2>5. \A x \in S \ {i} : g[x] = f[x]
    BY <1>3, <1>4, <2>1
  <2>. HIDE DEF S
  <2>6. SumOver(g, S) = SumOver(f, S) - f[i] + g[i]
    <3>1. DiffersAt(g, f, S, i)
      BY <2>4, <2>5 DEF DiffersAt
    <3>2. IsFiniteSet(S) /\ i \in S
      BY <2>4
    <3>. QED
      BY <3>1, <3>2, SumOverChanged
  <2>7. SumOver(f, S) \in Int /\ f[i] \in Int /\ Len(M) = n
    BY <1>6, <2>1, <2>4 DEF S
  <2>. QED
    BY <1>2, <2>3, <2>6, <2>7 DEF S
<1>8. ASSUME NEW p \in 1 .. n + 1, MakesList(M, L, b, p)
      PROVE  SumOver(g, 1 .. Len(M)) = SumOver(f, 1 .. n) + c[b]
  <2>1. PICK l \in FreeList : l.blocks = <<b>> /\ Inserted(M, L, p, l)
    BY <1>8 DEF MakesList
  <2>2. /\ Len(M) = n + 1 /\ M[p] = l
        /\ \A i \in 1 .. n : M[IF i < p THEN i ELSE i + 1] = L[i]
    BY <2>1 DEF Inserted
  <2>3. w[<<b>>] = w[<<>>] + c[b]
    <3>1. <<b>> \in Seq(FreeBlock) /\ <<>> \in Seq(FreeBlock)
      OBVIOUS
    <3>2. Inserted(<<b>>, <<>>, 1, b)
      BY DEF Inserted
    <3>. QED
      BY <3>1, <3>2 DEF Additive
  <2>4. g[p] = c[b]
    <3>1. p \in 1 .. Len(M)
      BY <1>1, <2>2
    <3>2. g[p] = w[<<b>>]
      BY <1>4, <2>1, <2>2, <3>1
    <3>. QED
      BY <1>2, <2>3, <3>2
  <2>5. \A i \in 1 .. n : g[IF i < p THEN i ELSE i + 1] = f[i]
    <3>. SUFFICES ASSUME NEW i \in 1 .. n PROVE g[IF i < p THEN i ELSE i + 1] = f[i]
      OBVIOUS
    <3>. DEFINE j == IF i < p THEN i ELSE i + 1
    <3>1. j \in 1 .. Len(M) /\ M[j] = L[i]
      BY <1>1, <2>2
    <3>. HIDE DEF j
    <3>2. g[j] = f[i]
      BY <1>3, <1>4, <3>1
    <3>. QED
      BY <3>2 DEF j
  <2>6. \A i \in 1 .. n : f[i] \in Int
    BY <1>3
  <2>7. SumOver(g, 1 .. n + 1) = SumOver(f, 1 .. n) + g[p]
    <3>1. n \in Nat /\ p \in 1 .. n + 1 /\ g[p] \in Int
      BY <1>1, <1>2, <2>4
    <3>2. OneMore(g, f, n, p)
      BY <2>5, <2>6, <3>1 DEF OneMore
    <3>. HIDE DEF n
    <3>. QED
      BY <3>1, <3>2, SumOverInserted
  <2>. QED
    BY <2>2, <2>4, <2>7
<1>9. SumOver(g, 1 .. Len(M)) = SumOver(f, 1 .. n) + c[b]
  BY <1>7, <1>8 DEF Adds
<1>. QED
  BY <1>2, <1>5, <1>6, <1>9

\* One more block is free.
LEMMA AddsBlocks ==
  ASSUME NEW L \in Seq(FreeList), NEW M \in Seq(FreeList), NEW b \in FreeBlock, Adds(M, L, b)
  PROVE  FreeOf(M) = FreeOf(L) \cup {b}
<1>. DEFINE n == Len(L)
<1>1. /\ n \in Nat /\ Len(M) \in Nat
      /\ \A i \in 1 .. n : L[i].blocks \in Seq(FreeBlock)
      /\ \A i \in 1 .. Len(M) : M[i].blocks \in Seq(FreeBlock)
  BY ListsOf
<1>2. ASSUME NEW i \in 1 .. n, JoinsList(M, L, b, i)
      PROVE  FreeOf(M) = FreeOf(L) \cup {b}
  <2>1. Len(M) = n /\ \A j \in 1 .. n : j # i => M[j] = L[j]
    BY <1>2 DEF JoinsList
  <2>2. ToSet(M[i].blocks) = ToSet(L[i].blocks) \cup {b}
    <3>1. M[i].blocks \in Seq(FreeBlock) /\ L[i].blocks \in Seq(FreeBlock)
      BY <1>1, <2>1
    <3>2. PICK p : Inserted(M[i].blocks, L[i].blocks, p, b)
      BY <1>2 DEF JoinsList
    <3>. QED
      BY <3>1, <3>2, InsertedElements
  <2>. DEFINE A(j) == ToSet(M[j].blocks)
              B(j) == ToSet(L[j].blocks)
  <2>3. \A j \in 1 .. n : A(j) = IF j = i THEN B(j) \cup {b} ELSE B(j)
    BY <2>1, <2>2
  <2>4. FreeOf(M) = UNION {A(j) : j \in 1 .. n} /\ FreeOf(L) = UNION {B(j) : j \in 1 .. n}
    BY <2>1 DEF FreeOf
  <2>. HIDE DEF A, B
  <2>5. \A x : x \in UNION {A(j) : j \in 1 .. n} <=> x \in (UNION {B(j) : j \in 1 .. n}) \cup {b}
    BY <2>3
  <2>. QED
    BY <2>4, <2>5
<1>3. ASSUME NEW p \in 1 .. n + 1, MakesList(M, L, b, p)
      PROVE  FreeOf(M) = FreeOf(L) \cup {b}
  <2>1. PICK l \in FreeList : l.blocks = <<b>> /\ Inserted(M, L, p, l)
    BY <1>3 DEF MakesList
  <2>2. ToSet(M) = ToSet(L) \cup {l}
    BY <2>1, InsertedElements
  <2>3. ToSet(M) = {M[i] : i \in 1 .. Len(M)} /\ ToSet(L) = {L[i] : i \in 1 .. n}
    BY IndicesOfSeq
  <2>4. FreeOf(M) = UNION {ToSet(k.blocks) : k \in ToSet(M)}
    BY <2>3 DEF FreeOf
  <2>5. FreeOf(L) = UNION {ToSet(k.blocks) : k \in ToSet(L)}
    BY <2>3 DEF FreeOf
  <2>6. ToSet(l.blocks) = {b}
    <3>1. /\ <<b>> \in Seq(FreeBlock) /\ Len(<<b>>) = 1 /\ <<b>>[1] = b
      OBVIOUS
    <3>2. ToSet(<<b>>) = {<<b>>[i] : i \in 1 .. 1}
      BY <3>1, IndicesOfSeq
    <3>. QED
      BY <2>1, <3>1, <3>2
  <2>. QED
    BY <2>2, <2>4, <2>5, <2>6
<1>. QED
  BY <1>2, <1>3 DEF Adds

\* What AddFreeBlock does to heap h.
Added(g, h, b) ==
  /\ g \in Heaps /\ Tidy(g.lists) /\ Adds(g.lists, h.lists, b)
  /\ Len(h.lists) <= Len(g.lists)
  /\ 1 <= Len(h.lists) /\ Len(h.lists) <= h.capacity => Len(g.lists) <= g.capacity
  /\ g.totalMemory = h.totalMemory /\ g.totalFreeMemory = h.totalFreeMemory
  /\ g.totalBlocks = h.totalBlocks /\ g.freeCalls = h.freeCalls

\* The block goes to the list of its size.
LEMMA AddToList ==
  ASSUME NEW h \in Heaps, Tidy(h.lists), NEW b \in FreeBlock,
         \E i \in DOMAIN h.lists : h.lists[i].size = b.size
  PROVE  Added(AddFreeBlock(h, b), h, b)
<1>. DEFINE L == h.lists
            n == Len(L)
            M == [i \in DOMAIN L |->
                    IF L[i].size # b.size THEN L[i]
                    ELSE [L[i] EXCEPT !.numberOfBlocks = @ + 1, !.blocks = InsertByAddress(@, b)]]
            g == [h EXCEPT !.lists = M]
<1>1. AddFreeBlock(h, b) = g
  BY DEF AddFreeBlock
<1>2. L \in Seq(FreeList) /\ BySize(L) /\ \A i \in 1 .. n : ListOK(L[i])
  BY DEF Tidy
<1>3. /\ n \in Nat /\ DOMAIN L = 1 .. n
      /\ \A i \in 1 .. n : L[i] \in FreeList /\ L[i].blocks \in Seq(FreeBlock) /\ L[i].size \in Nat
  BY <1>2, ListsOf
<1>4. PICK k \in 1 .. n : L[k].size = b.size
  BY <1>3
<1>5. \A i \in 1 .. n : i # k => L[i].size # b.size
  <2>. SUFFICES ASSUME NEW i \in 1 .. n, i # k PROVE L[i].size # b.size
    OBVIOUS
  <2>1. CASE i < k
    <3>1. L[i].size < L[k].size
      BY <1>2, <2>1 DEF BySize
    <3>. QED
      BY <1>3, <1>4, <3>1
  <2>2. CASE k < i
    <3>1. L[k].size < L[i].size
      BY <1>2, <2>2 DEF BySize
    <3>. QED
      BY <1>3, <1>4, <3>1
  <2>. QED
    BY <1>3, <2>1, <2>2
<1>. DEFINE s == L[k].blocks
            t == InsertByAddress(s, b)
<1>6. t \in Seq(FreeBlock) /\ (\E p \in 1 .. Len(s) + 1 : Inserted(t, s, p, b)) /\ ByAddress(t)
  <2>1. \A x \in FreeBlock : x.address \in Int
    BY HeapAssumption DEF FreeBlock, Addresses
  <2>2. s \in Seq(FreeBlock) /\ ByAddress(s)
    BY <1>2, <1>3 DEF ListOK
  <2>. HIDE DEF s
  <2>. QED
    BY <2>1, <2>2, InsertByAddressInserts
<1>7. PICK p \in 1 .. Len(s) + 1 : Inserted(t, s, p, b)
  BY <1>6
<1>8. M[k] = [L[k] EXCEPT !.numberOfBlocks = L[k].numberOfBlocks + 1, !.blocks = t]
  BY <1>3, <1>4
<1>9. \A i \in 1 .. n : i # k => M[i] = L[i]
  BY <1>3, <1>5
<1>. HIDE DEF t
<1>10. /\ M[k] \in FreeList /\ M[k].size = L[k].size /\ M[k].blocks = t
       /\ M[k].numberOfBlocks = L[k].numberOfBlocks + 1
  <2>1. L[k] \in FreeList /\ L[k].numberOfBlocks + 1 \in Nat
    BY <1>3 DEF FreeList
  <2>. DEFINE r == L[k]
              m == L[k].numberOfBlocks + 1
              u == M[k]
  <2>2. r \in FreeList /\ m \in Nat /\ t \in Seq(FreeBlock)
    BY <1>6, <2>1
  <2>3. u = [r EXCEPT !.numberOfBlocks = m, !.blocks = t]
    BY <1>8
  <2>. HIDE DEF M, r, m, u
  <2>4. u \in FreeList /\ u.size = r.size /\ u.blocks = t /\ u.numberOfBlocks = m
    BY <2>2, <2>3 DEF FreeList
  <2>. QED
    BY <2>4 DEF r, m, u
<1>11. M \in [1 .. n -> FreeList]
  <2>1. M = [i \in 1 .. n |-> M[i]]
    BY <1>3
  <2>2. \A i \in 1 .. n : M[i] \in FreeList
    BY <1>3, <1>9, <1>10
  <2>. HIDE DEF M
  <2>. QED
    BY <2>1, <2>2
<1>. HIDE DEF M
<1>12. M \in Seq(FreeList) /\ Len(M) = n
  <2>1. M \in Seq(FreeList)
    <3>1. n \in Nat
      BY <1>3
    <3>. HIDE DEF n
    <3>. QED
      BY <1>11, <3>1
  <2>2. DOMAIN M = 1 .. n
    BY <1>11
  <2>. QED
    BY <1>3, <2>1, <2>2, LenProperties
<1>13. BySize(M)
  <2>1. \A i \in 1 .. n : M[i].size = L[i].size
    BY <1>9, <1>10
  <2>. QED
    BY <1>2, <1>12, <2>1 DEF BySize
<1>14. ListOK(M[k])
  <2>1. ListOK(L[k]) /\ s \in Seq(FreeBlock)
    BY <1>2, <1>3
  <2>2. Len(t) = Len(s) + 1
    BY <1>7 DEF Inserted
  <2>3. ASSUME NEW j \in 1 .. Len(t)
        PROVE  t[j].size = b.size
    <3>1. t[j] \in ToSet(s) \cup {b}
      <4>1. t[j] \in ToSet(t)
        BY <1>6, <2>3, IndicesOfSeq
      <4>2. ToSet(t) = ToSet(s) \cup {b}
        BY <1>6, <1>7, <2>1, InsertedElements
      <4>. QED
        BY <4>1, <4>2
    <3>2. \A x \in ToSet(s) : x.size = b.size
      <4>1. ToSet(s) = {s[i] : i \in 1 .. Len(s)}
        <5>. HIDE DEF s
        <5>. QED
          BY <2>1, IndicesOfSeq
      <4>2. \A i \in 1 .. Len(s) : s[i].size = b.size
        BY <1>4, <2>1 DEF ListOK
      <4>. QED
        BY <4>1, <4>2
    <3>. QED
      BY <3>1, <3>2
  <2>. QED
    BY <1>4, <1>6, <1>10, <2>1, <2>2, <2>3 DEF ListOK
<1>15. Tidy(M)
  <2>1. \A i \in 1 .. n : ListOK(M[i])
    BY <1>2, <1>9, <1>14
  <2>. QED
    BY <1>12, <1>13, <2>1 DEF Tidy
<1>16. Adds(M, L, b)
  <2>1. JoinsList(M, L, b, k)
    BY <1>7, <1>9, <1>10, <1>12 DEF JoinsList
  <2>. QED
    BY <2>1 DEF Adds
<1>17. /\ g \in Heaps /\ g.lists = M /\ g.capacity = h.capacity
       /\ g.totalMemory = h.totalMemory /\ g.totalFreeMemory = h.totalFreeMemory
       /\ g.totalBlocks = h.totalBlocks /\ g.freeCalls = h.freeCalls
  BY <1>12 DEF Heaps, FreeList
<1>18. h.capacity \in Nat
  BY DEF Heaps
<1>. HIDE DEF g, n
<1>. QED
  BY <1>1, <1>3, <1>12, <1>15, <1>16, <1>17, <1>18 DEF Added, n, L

\* The block becomes a list of its own.
LEMMA AddAsList ==
  ASSUME NEW h \in Heaps, Tidy(h.lists), NEW b \in FreeBlock,
         ~ \E i \in DOMAIN h.lists : h.lists[i].size = b.size
  PROVE  Added(AddFreeBlock(h, b), h, b)
<1>. DEFINE L == h.lists
            n == Len(L)
            l == [size |-> b.size, numberOfBlocks |-> 1, blocks |-> <<b>>]
            M == Sorted(Append(L, l))
            g == [h EXCEPT !.capacity = IF @ = Len(L) THEN 2 * @ ELSE @, !.lists = M]
<1>1. AddFreeBlock(h, b) = g
  BY DEF AddFreeBlock
<1>2. L \in Seq(FreeList) /\ BySize(L) /\ \A i \in 1 .. n : ListOK(L[i])
  BY DEF Tidy
<1>3. n \in Nat /\ DOMAIN L = 1 .. n /\ \A i \in 1 .. n : L[i].size # l.size
  BY <1>2, ListsOf
<1>4. /\ l \in FreeList /\ l.blocks = <<b>> /\ l.size = b.size /\ l.numberOfBlocks = 1
  <2>1. b.size \in Nat
    BY HeapAssumption DEF FreeBlock
  <2>. QED
    BY <2>1 DEF FreeList
<1>5. ListOK(l)
  <2>1. Len(<<b>>) = 1 /\ <<b>>[1] = b
    OBVIOUS
  <2>2. ByAddress(<<b>>)
    BY <2>1 DEF ByAddress
  <2>3. \A j \in 1 .. Len(<<b>>) : <<b>>[j].size = b.size
    BY <2>1
  <2>. HIDE DEF l
  <2>. QED
    BY <1>4, <2>1, <2>2, <2>3 DEF ListOK
<1>. HIDE DEF l
<1>6. /\ M \in Seq(FreeList) /\ BySize(M) /\ \E p \in 1 .. n + 1 : Inserted(M, L, p, l)
  BY <1>2, <1>3, <1>4, SortedInserts
<1>7. PICK p \in 1 .. n + 1 : Inserted(M, L, p, l)
  BY <1>6
<1>. HIDE DEF M
<1>8. Len(M) = n + 1 /\ ToSet(M) = ToSet(L) \cup {l}
  <2>1. ToSet(M) = ToSet(L) \cup {l}
    BY <1>2, <1>6, <1>7, InsertedElements
  <2>. QED
    BY <1>7, <2>1 DEF Inserted
<1>9. \A i \in 1 .. Len(M) : ListOK(M[i])
  <2>1. ToSet(M) = {M[i] : i \in 1 .. Len(M)} /\ ToSet(L) = {L[i] : i \in 1 .. n}
    BY <1>2, <1>6, IndicesOfSeq
  <2>2. \A x \in ToSet(M) : ListOK(x)
    BY <1>2, <1>5, <1>8, <2>1
  <2>. QED
    BY <2>1, <2>2
<1>10. Tidy(M)
  BY <1>6, <1>9 DEF Tidy
<1>11. Adds(M, L, b)
  <2>1. MakesList(M, L, b, p)
    BY <1>4, <1>7 DEF MakesList
  <2>. QED
    BY <2>1 DEF Adds
<1>12. h.capacity \in Nat
  BY DEF Heaps
<1>13. /\ g \in Heaps /\ g.lists = M
       /\ g.capacity = IF h.capacity = n THEN 2 * h.capacity ELSE h.capacity
       /\ g.totalMemory = h.totalMemory /\ g.totalFreeMemory = h.totalFreeMemory
       /\ g.totalBlocks = h.totalBlocks /\ g.freeCalls = h.freeCalls
  <2>. DEFINE cap == IF h.capacity = n THEN 2 * h.capacity ELSE h.capacity
  <2>1. cap \in Nat /\ g = [h EXCEPT !.capacity = cap, !.lists = M]
    BY <1>12
  <2>. HIDE DEF cap, g
  <2>2. /\ g \in Heaps /\ g.lists = M /\ g.capacity = cap
        /\ g.totalMemory = h.totalMemory /\ g.totalFreeMemory = h.totalFreeMemory
        /\ g.totalBlocks = h.totalBlocks /\ g.freeCalls = h.freeCalls
    BY <1>6, <2>1 DEF Heaps, FreeList
  <2>. QED
    BY <2>2 DEF cap
<1>14. 1 <= n /\ n <= h.capacity => n + 1 <= g.capacity
  BY <1>3, <1>12, <1>13
<1>. HIDE DEF g, n
<1>15. 1 <= Len(L) /\ Len(L) <= h.capacity => Len(g.lists) <= g.capacity
  BY <1>8, <1>13, <1>14 DEF n
<1>16. Len(L) <= Len(g.lists)
  BY <1>3, <1>8, <1>13 DEF n
<1>. QED
  BY <1>1, <1>10, <1>11, <1>13, <1>15, <1>16 DEF Added

\* AddFreeBlock adds the block, in a list that exists or in one of its own.
LEMMA AddFreeBlockEffect ==
  ASSUME NEW h \in Heaps, Tidy(h.lists), NEW b \in FreeBlock
  PROVE  Added(AddFreeBlock(h, b), h, b)
BY AddToList, AddAsList

\* Unlinking by a counter that is right removes the block.
LEMMA UnlinkRemoves ==
  ASSUME NEW S, NEW s \in Seq(S), NEW j \in 1 .. Len(s)
  PROVE  /\ Unlink(s, Len(s), j) \in Seq(S)
         /\ Len(Unlink(s, Len(s), j)) = Len(s) - 1
         /\ Inserted(s, Unlink(s, Len(s), j), j, s[j])
<1>. DEFINE r == RemoveAt(s, j)
<1>1. Len(s) \in Nat /\ r \in Seq(S) /\ Inserted(s, r, j, s[j])
  BY IndicesOfSeq, RemoveAtUndoes
<1>2. Len(r) = Len(s) - 1
  <2>1. Len(r) \in Nat
    BY <1>1, LenProperties
  <2>2. Len(s) = Len(r) + 1
    BY <1>1 DEF Inserted
  <2>. QED
    BY <1>1, <2>1, <2>2
<1>. HIDE DEF r
<1>3. Unlink(s, Len(s), j) = r
  <2>1. CASE Len(s) = 1
    <3>1. r = <<>>
      BY <1>1, <1>2, <2>1, EmptySeq
    <3>. QED
      BY <2>1, <3>1 DEF Unlink
  <2>2. CASE Len(s) # 1
    BY <2>2 DEF Unlink, r
  <2>. QED
    BY <2>1, <2>2
<1>. QED
  BY <1>1, <1>2, <1>3

\* The places where a heap's block is found.
FoundAt(h, b, i, j) == /\ i \in 1 .. Len(h.lists)
                       /\ j \in 1 .. Len(h.lists[i].blocks)
                       /\ b = h.lists[i].blocks[j]

\* Unlinking one block leaves tidy lists.
LEMMA WithoutIsTidy ==
  ASSUME NEW L, Tidy(L), NEW i \in 1 .. Len(L), NEW j \in 1 .. Len(L[i].blocks)
  PROVE  /\ Tidy(Without(L, i, j)) /\ Len(Without(L, i, j)) = Len(L)
         /\ Adds(L, Without(L, i, j), L[i].blocks[j])
<1>. DEFINE n == Len(L)
            M == Without(L, i, j)
            s == L[i].blocks
            t == Unlink(s, L[i].numberOfBlocks, j)
            c == L[i].numberOfBlocks - 1
            b == s[j]
<1>1. L \in Seq(FreeList) /\ BySize(L) /\ \A k \in 1 .. n : ListOK(L[k])
  BY DEF Tidy
<1>2. /\ n \in Nat /\ DOMAIN L = 1 .. n
      /\ \A k \in 1 .. n : L[k] \in FreeList /\ L[k].blocks \in Seq(FreeBlock) /\ L[k].size \in Nat
  BY <1>1, ListsOf
<1>3. s \in Seq(FreeBlock) /\ Len(s) \in Nat /\ L[i].numberOfBlocks = Len(s) /\ ByAddress(s)
  <2>1. s \in Seq(FreeBlock) /\ ListOK(L[i])
    BY <1>1, <1>2
  <2>. QED
    BY <2>1, LenProperties DEF ListOK
<1>4. /\ t \in Seq(FreeBlock) /\ Len(t) = Len(s) - 1 /\ Inserted(s, t, j, b)
  BY <1>3, UnlinkRemoves
<1>5. c \in Nat /\ c = Len(t)
  BY <1>3, <1>4
<1>6. M[i] = [L[i] EXCEPT !.blocks = t, !.numberOfBlocks = c]
  <2>. DEFINE r == [L[i] EXCEPT !.blocks = Unlink(L[i].blocks, L[i].numberOfBlocks, j),
                                !.numberOfBlocks = L[i].numberOfBlocks - 1]
  <2>1. r = [L[i] EXCEPT !.blocks = t, !.numberOfBlocks = c]
    BY <1>2 DEF FreeList
  <2>2. M = [L EXCEPT ![i] = r]
    BY <1>2 DEF Without
  <2>. HIDE DEF r, M
  <2>3. M[i] = r
    BY <1>2, <2>2
  <2>. QED
    BY <2>1, <2>3
<1>7. \A k \in 1 .. n : k # i => M[k] = L[k]
  BY <1>2 DEF Without
<1>8. M = [k \in 1 .. n |-> M[k]]
  BY <1>1, <1>2 DEF Without
<1>. HIDE DEF M, t, c
<1>9. /\ M[i] \in FreeList /\ M[i].size = L[i].size /\ M[i].blocks = t
      /\ M[i].numberOfBlocks = c
  <2>1. L[i] \in FreeList
    BY <1>2
  <2>. QED
    BY <1>4, <1>5, <1>6, <2>1 DEF FreeList
<1>10. M \in Seq(FreeList) /\ Len(M) = n
  <2>1. n \in Nat
    BY <1>2
  <2>2. M \in [1 .. n -> FreeList]
    BY <1>2, <1>7, <1>8, <1>9
  <2>. HIDE DEF n
  <2>3. M \in Seq(FreeList)
    BY <2>1, <2>2
  <2>4. DOMAIN M = 1 .. n
    BY <2>2
  <2>. QED
    BY <2>1, <2>3, <2>4, LenProperties
<1>11. BySize(M)
  <2>1. \A k \in 1 .. n : M[k].size = L[k].size
    BY <1>7, <1>9
  <2>. QED
    BY <1>1, <1>10, <2>1 DEF BySize
<1>12. ListOK(M[i])
  <2>1. ByAddress(t)
    BY <1>3, <1>4, RemovedInOrder
  <2>2. ASSUME NEW k \in 1 .. Len(t)
        PROVE  t[k].size = L[i].size
    <3>1. ToSet(s) = ToSet(t) \cup {b} /\ ToSet(s) = {s[m] : m \in 1 .. Len(s)}
      BY <1>3, <1>4, InsertedElements, IndicesOfSeq
    <3>2. t[k] \in ToSet(t)
      BY <1>4, IndicesOfSeq
    <3>3. \A m \in 1 .. Len(s) : s[m].size = L[i].size
      BY <1>1 DEF ListOK
    <3>. QED
      BY <3>1, <3>2, <3>3
  <2>. QED
    BY <1>5, <1>9, <2>1, <2>2 DEF ListOK
<1>13. Tidy(M)
  <2>1. \A k \in 1 .. n : ListOK(M[k])
    BY <1>1, <1>7, <1>12
  <2>. QED
    BY <1>10, <1>11, <2>1 DEF Tidy
<1>14. Adds(L, M, b)
  <2>1. JoinsList(L, M, b, i)
    BY <1>4, <1>7, <1>9, <1>10 DEF JoinsList
  <2>2. i \in 1 .. Len(M)
    BY <1>10
  <2>. QED
    BY <2>1, <2>2 DEF Adds
<1>. QED
  BY <1>10, <1>13, <1>14 DEF M

\* What Cut leaves of heap h when n bytes are cut from block b.
CutFrom(g, h, b, n) ==
  /\ g \in Heaps /\ Tidy(g.lists) /\ Len(h.lists) <= Len(g.lists)
  /\ 1 <= Len(h.lists) /\ Len(h.lists) <= h.capacity => Len(g.lists) <= g.capacity
  /\ g.totalMemory = h.totalMemory /\ g.totalFreeMemory = h.totalFreeMemory - n
  /\ g.freeCalls = h.freeCalls
  /\ \E M \in Seq(FreeList) :
       /\ Adds(h.lists, M, b)
       /\ IF b.size > n
          THEN /\ Rest(b, n) \in FreeBlock /\ Adds(g.lists, M, Rest(b, n))
               /\ g.totalBlocks = h.totalBlocks
          ELSE g.lists = M /\ g.totalBlocks = h.totalBlocks - 1

\* Cut takes one block from the lists and adds what is left of it.
LEMMA CutEffect ==
  ASSUME NEW h \in Heaps, Tidy(h.lists), NEW f, NEW b \in FreeBlock, NEW n \in Nat,
         FoundAt(h, b, f.list, f.block), n <= b.size,
         b.size > 0 => b.address + b.size \in Addresses,
         n <= h.totalFreeMemory, 1 <= h.totalBlocks
  PROVE  CutFrom(Cut(h, f, n), h, b, n)
<1>. DEFINE L == h.lists
            i == f.list
            j == f.block
            M == Without(L, i, j)
            k == IF Rest(b, n).size > 0 THEN h.totalBlocks ELSE h.totalBlocks - 1
            m == h.totalFreeMemory - n
            w == [h EXCEPT !.lists = M, !.totalFreeMemory = m, !.totalBlocks = k]
<1>1. i \in 1 .. Len(L) /\ j \in 1 .. Len(L[i].blocks) /\ b = L[i].blocks[j]
  BY DEF FoundAt
<1>2. /\ Tidy(M) /\ Len(M) = Len(L) /\ Adds(L, M, b) /\ M \in Seq(FreeList)
  <2>1. Tidy(M) /\ Len(M) = Len(L) /\ Adds(L, M, L[i].blocks[j])
    BY <1>1, WithoutIsTidy
  <2>. QED
    BY <1>1, <2>1 DEF Tidy
<1>3. /\ b.size \in Nat /\ b.address \in Int
  BY HeapAssumption DEF FreeBlock, Addresses
<1>4. /\ Rest(b, n).size = b.size - n /\ Rest(b, n).address = b.address + n
      /\ Rest(b, n) = [address |-> b.address + n, size |-> b.size - n]
  BY DEF Rest, Block
<1>5. k \in Nat /\ m \in Nat /\ h.capacity \in Nat
  <2>1. h.totalBlocks \in Nat /\ h.totalFreeMemory \in Nat /\ h.capacity \in Nat
    BY DEF Heaps
  <2>. QED
    BY <2>1
<1>6. Cut(h, f, n) = IF Rest(b, n).size > 0 THEN AddFreeBlock(w, Rest(b, n)) ELSE w
  BY <1>1 DEF Cut, Without, Heaps
<1>. HIDE DEF M, k, m
<1>7. /\ w \in Heaps /\ w.lists = M /\ w.totalFreeMemory = m /\ w.totalBlocks = k
      /\ w.capacity = h.capacity /\ w.totalMemory = h.totalMemory /\ w.freeCalls = h.freeCalls
  BY <1>2, <1>5 DEF Heaps, FreeList
<1>. HIDE DEF w
<1>8. CASE b.size > n
  <2>1. Rest(b, n) \in FreeBlock
    <3>1. b.address + n \in Addresses
      BY <1>3, <1>8, HeapAssumption DEF FreeBlock, Addresses
    <3>2. b.size - n \in 0 .. MaximumSize
      BY <1>3, <1>8, HeapAssumption DEF FreeBlock
    <3>. QED
      BY <1>4, <3>1, <3>2 DEF FreeBlock
  <2>2. Rest(b, n).size > 0
    BY <1>3, <1>4, <1>8
  <2>. DEFINE g == AddFreeBlock(w, Rest(b, n))
  <2>3. Added(g, w, Rest(b, n))
    BY <1>2, <1>7, <2>1, AddFreeBlockEffect
  <2>4. Cut(h, f, n) = g
    BY <1>6, <2>2
  <2>5. k = h.totalBlocks
    BY <2>2 DEF k
  <2>. HIDE DEF g
  <2>6. CutFrom(g, h, b, n)
    BY <1>2, <1>7, <1>8, <2>1, <2>3, <2>5 DEF CutFrom, Added, m
  <2>. QED
    BY <2>4, <2>6
<1>9. CASE ~(b.size > n)
  <2>1. ~(Rest(b, n).size > 0)
    BY <1>3, <1>4, <1>9
  <2>2. Cut(h, f, n) = w /\ k = h.totalBlocks - 1
    BY <1>6, <2>1 DEF k
  <2>3. CutFrom(w, h, b, n)
    BY <1>2, <1>7, <1>9, <2>2 DEF CutFrom, m
  <2>. QED
    BY <2>2, <2>3
<1>. QED
  BY <1>8, <1>9

\* Three measures: the number of blocks, their bytes, and how many have byte x.
Lengths == [s \in Seq(FreeBlock) |-> Len(s)]

Sizes == [s \in Seq(FreeBlock) |-> SumOver([k \in 1 .. Len(s) |-> s[k].size], 1 .. Len(s))]

Coverings(x) == [s \in Seq(FreeBlock) |-> Covering(s, x)]

OneEach == [b \in FreeBlock |-> 1]

SizeOf == [b \in FreeBlock |-> b.size]

Has(x) == [b \in FreeBlock |-> IF x \in Covers(b) THEN 1 ELSE 0]

\* What the blocks of a sequence are.
LEMMA BlocksOf ==
  ASSUME NEW s \in Seq(FreeBlock)
  PROVE  /\ Len(s) \in Nat /\ DOMAIN s = 1 .. Len(s) /\ IsFiniteSet(1 .. Len(s))
         /\ \A k \in 1 .. Len(s) : s[k] \in FreeBlock /\ s[k].size \in Nat /\ s[k].address \in Nat
<1>1. Len(s) \in Nat /\ DOMAIN s = 1 .. Len(s)
  BY IndicesOfSeq
<1>2. IsFiniteSet(1 .. Len(s))
  BY <1>1, FS_Interval
<1>3. \A k \in 1 .. Len(s) : s[k] \in FreeBlock
  BY ElementOfSeq
<1>4. \A b \in FreeBlock : b.size \in Nat /\ b.address \in Nat
  BY HeapAssumption DEF FreeBlock, Addresses
<1>. QED
  BY <1>1, <1>2, <1>3, <1>4

\* The number of blocks is such a measure.
LEMMA LengthsAdditive == Additive(Lengths, OneEach)
<1>1. Lengths \in [Seq(FreeBlock) -> Int] /\ OneEach \in [FreeBlock -> Int]
  BY BlocksOf DEF Lengths, OneEach
<1>2. Lengths[<<>>] = 0
  BY DEF Lengths
<1>3. ASSUME NEW s \in Seq(FreeBlock), NEW t \in Seq(FreeBlock), NEW b \in FreeBlock,
             NEW p, Inserted(t, s, p, b)
      PROVE  Lengths[t] = Lengths[s] + OneEach[b]
  BY <1>3 DEF Inserted, Lengths, OneEach
<1>. QED
  BY <1>1, <1>2, <1>3 DEF Additive

\* So is the sum of their sizes.
LEMMA SizesAdditive == Additive(Sizes, SizeOf)
<1>. DEFINE f(s) == [k \in 1 .. Len(s) |-> s[k].size]
<1>1. ASSUME NEW s \in Seq(FreeBlock)
      PROVE  /\ \A k \in 1 .. Len(s) : f(s)[k] = s[k].size /\ f(s)[k] \in Int
             /\ Sizes[s] = SumOver(f(s), 1 .. Len(s)) /\ Sizes[s] \in Int
  <2>1. \A k \in 1 .. Len(s) : f(s)[k] = s[k].size /\ f(s)[k] \in Int
    BY BlocksOf
  <2>2. Sizes[s] = SumOver(f(s), 1 .. Len(s))
    BY DEF Sizes
  <2>3. SumOver(f(s), 1 .. Len(s)) \in Int
    <3>. HIDE DEF f
    <3>. QED
      BY <2>1, BlocksOf, SumOverType
  <2>. QED
    BY <2>1, <2>2, <2>3
<1>2. Sizes = [s \in Seq(FreeBlock) |-> Sizes[s]]
  BY DEF Sizes
<1>. HIDE DEF f
<1>3. Sizes \in [Seq(FreeBlock) -> Int] /\ SizeOf \in [FreeBlock -> Int]
  <2>1. \A b \in FreeBlock : b.size \in Int
    BY HeapAssumption DEF FreeBlock
  <2>2. SizeOf \in [FreeBlock -> Int]
    BY <2>1 DEF SizeOf
  <2>. QED
    BY <1>1, <1>2, <2>2
<1>4. Sizes[<<>>] = 0
  <2>1. <<>> \in Seq(FreeBlock) /\ Len(<<>>) = 0 /\ 1 .. 0 = {}
    OBVIOUS
  <2>2. Sizes[<<>>] = SumOver(f(<<>>), 1 .. Len(<<>>))
    BY <1>1, <2>1
  <2>. QED
    BY <2>1, <2>2, SumOverEmpty
<1>5. ASSUME NEW s \in Seq(FreeBlock), NEW t \in Seq(FreeBlock), NEW b \in FreeBlock,
             NEW p, Inserted(t, s, p, b)
      PROVE  Sizes[t] = Sizes[s] + SizeOf[b]
  <2>. DEFINE n == Len(s)
              u == f(s)
              v == f(t)
  <2>1. /\ n \in Nat /\ Len(t) = n + 1 /\ p \in 1 .. n + 1 /\ t[p] = b
        /\ \A i \in 1 .. n : t[IF i < p THEN i ELSE i + 1] = s[i]
    BY <1>5, BlocksOf DEF Inserted
  <2>2. /\ \A k \in 1 .. n : u[k] = s[k].size /\ u[k] \in Int
        /\ \A k \in 1 .. n + 1 : v[k] = t[k].size /\ v[k] \in Int
    BY <1>1, <2>1
  <2>3. Sizes[s] = SumOver(u, 1 .. n) /\ Sizes[t] = SumOver(v, 1 .. n + 1)
    BY <1>1, <2>1
  <2>. HIDE DEF n, u, v
  <2>4. OneMore(v, u, n, p)
    <3>1. ASSUME NEW i \in 1 .. n
          PROVE  u[i] \in Int /\ v[IF i < p THEN i ELSE i + 1] = u[i]
      <4>. DEFINE k == IF i < p THEN i ELSE i + 1
      <4>1. k \in 1 .. n + 1 /\ t[k] = s[i]
        BY <2>1
      <4>. HIDE DEF k
      <4>2. v[k] = u[i]
        BY <2>2, <4>1
      <4>. QED
        BY <2>2, <4>2 DEF k
    <3>. QED
      BY <2>1, <2>2, <3>1 DEF OneMore
  <2>5. SumOver(v, 1 .. n + 1) = SumOver(u, 1 .. n) + v[p]
    BY <2>1, <2>4, SumOverInserted
  <2>6. v[p] = SizeOf[b]
    BY <2>1, <2>2 DEF SizeOf
  <2>. QED
    BY <2>3, <2>5, <2>6
<1>. QED
  BY <1>3, <1>4, <1>5 DEF Additive

\* And so is the number of those with byte x.
LEMMA CoveringsAdditive ==
  ASSUME NEW x
  PROVE  Additive(Coverings(x), Has(x))
<1>. DEFINE Q(s) == {j \in DOMAIN s : x \in Covers(s[j])}
            f(s) == [j \in 1 .. Len(s) |-> IF j \in Q(s) THEN 1 ELSE 0]
<1>1. ASSUME NEW s \in Seq(FreeBlock)
      PROVE  /\ \A j \in 1 .. Len(s) : /\ f(s)[j] \in Int
                                       /\ f(s)[j] = IF x \in Covers(s[j]) THEN 1 ELSE 0
             /\ Coverings(x)[s] = SumOver(f(s), 1 .. Len(s)) /\ Coverings(x)[s] \in Int
  <2>1. DOMAIN s = 1 .. Len(s) /\ IsFiniteSet(1 .. Len(s))
    BY BlocksOf
  <2>2. \A j \in 1 .. Len(s) : /\ f(s)[j] \in Int
                               /\ f(s)[j] = IF x \in Covers(s[j]) THEN 1 ELSE 0
    BY <2>1
  <2>3. Coverings(x)[s] = Cardinality(Q(s))
    BY DEF Coverings, Covering
  <2>4. Q(s) \in SUBSET (1 .. Len(s)) /\ \A j \in 1 .. Len(s) : f(s)[j] = IF j \in Q(s) THEN 1 ELSE 0
    BY <2>1
  <2>5. Cardinality(Q(s)) \in Nat /\ Cardinality(Q(s)) = SumOver(f(s), 1 .. Len(s))
    <3>. DEFINE S == 1 .. Len(s)
                R == Q(s)
                g == f(s)
    <3>. HIDE DEF Q, f
    <3>1. IsFiniteSet(S) /\ R \in SUBSET S /\ \A j \in S : g[j] = IF j \in R THEN 1 ELSE 0
      BY <2>1, <2>4
    <3>. HIDE DEF S, R, g
    <3>2. Cardinality(R) \in Nat /\ Cardinality(R) = SumOver(g, S)
      BY <3>1, CountIsSum
    <3>. QED
      BY <3>2 DEF S, R, g
  <2>. QED
    BY <2>2, <2>3, <2>5
<1>2. Coverings(x) = [s \in Seq(FreeBlock) |-> Coverings(x)[s]]
  BY DEF Coverings
<1>. HIDE DEF f, Q
<1>3. Coverings(x) \in [Seq(FreeBlock) -> Int] /\ Has(x) \in [FreeBlock -> Int]
  <2>1. Has(x) \in [FreeBlock -> Int]
    BY DEF Has
  <2>. QED
    BY <1>1, <1>2, <2>1
<1>4. Coverings(x)[<<>>] = 0
  <2>1. <<>> \in Seq(FreeBlock) /\ Len(<<>>) = 0 /\ 1 .. 0 = {}
    OBVIOUS
  <2>2. Coverings(x)[<<>>] = SumOver(f(<<>>), 1 .. Len(<<>>))
    BY <1>1, <2>1
  <2>. QED
    BY <2>1, <2>2, SumOverEmpty
<1>5. ASSUME NEW s \in Seq(FreeBlock), NEW t \in Seq(FreeBlock), NEW b \in FreeBlock,
             NEW p, Inserted(t, s, p, b)
      PROVE  Coverings(x)[t] = Coverings(x)[s] + Has(x)[b]
  <2>. DEFINE n == Len(s)
              u == f(s)
              v == f(t)
  <2>1. /\ n \in Nat /\ Len(t) = n + 1 /\ p \in 1 .. n + 1 /\ t[p] = b
        /\ \A i \in 1 .. n : t[IF i < p THEN i ELSE i + 1] = s[i]
    BY <1>5, BlocksOf DEF Inserted
  <2>2. /\ \A k \in 1 .. n : u[k] \in Int /\ u[k] = IF x \in Covers(s[k]) THEN 1 ELSE 0
        /\ \A k \in 1 .. n + 1 : v[k] \in Int /\ v[k] = IF x \in Covers(t[k]) THEN 1 ELSE 0
    BY <1>1, <2>1
  <2>3. Coverings(x)[s] = SumOver(u, 1 .. n) /\ Coverings(x)[t] = SumOver(v, 1 .. n + 1)
    BY <1>1, <2>1
  <2>. HIDE DEF n, u, v
  <2>4. OneMore(v, u, n, p)
    <3>1. ASSUME NEW i \in 1 .. n
          PROVE  u[i] \in Int /\ v[IF i < p THEN i ELSE i + 1] = u[i]
      <4>. DEFINE k == IF i < p THEN i ELSE i + 1
      <4>1. k \in 1 .. n + 1 /\ t[k] = s[i]
        BY <2>1
      <4>. HIDE DEF k
      <4>2. v[k] = u[i]
        BY <2>2, <4>1
      <4>. QED
        BY <2>2, <4>2 DEF k
    <3>. QED
      BY <2>1, <2>2, <3>1 DEF OneMore
  <2>5. SumOver(v, 1 .. n + 1) = SumOver(u, 1 .. n) + v[p]
    BY <2>1, <2>4, SumOverInserted
  <2>6. v[p] = Has(x)[b]
    BY <2>1, <2>2 DEF Has
  <2>. QED
    BY <2>3, <2>5, <2>6
<1>. QED
  BY <1>3, <1>4, <1>5 DEF Additive

\* Where the allocated blocks lie, and whether they could be free ones.
Placed(A) == [k \in 1 .. Len(A) |-> Block(A[k].address, A[k].size)]

Fitted(A) == A \in Seq(AllocatedBlock) /\ \A k \in 1 .. Len(A) : A[k].size <= MaximumSize

\* What an allocated block is made of.
LEMMA AllocatedBlockIs ==
  ASSUME NEW b \in AllocatedBlock
  PROVE  /\ b.address \in Addresses /\ b.size \in Nat /\ b.address \in Nat
         /\ b.size \in MallocSizes /\ b.payload \in [0 .. b.size - 1 -> Bytes]
         /\ b = [address |-> b.address, size |-> b.size, payload |-> b.payload]
<1>1. PICK n \in MallocSizes :
        b \in [address : Addresses, size : {n}, payload : [0 .. n - 1 -> Bytes]]
  BY DEF AllocatedBlock
<1>2. b.address \in Addresses /\ b.size = n /\ n \in Nat /\ b.payload \in [0 .. n - 1 -> Bytes]
  BY <1>1, HeapAssumption
<1>3. b = [address |-> b.address, size |-> b.size, payload |-> b.payload]
  BY <1>1
<1>. QED
  BY <1>2, <1>3, HeapAssumption DEF Addresses

\* What the blocks of an arena are.
LEMMA AllocatedBlocksOf ==
  ASSUME NEW A \in Seq(AllocatedBlock)
  PROVE  /\ Len(A) \in Nat /\ DOMAIN A = 1 .. Len(A) /\ IsFiniteSet(1 .. Len(A))
         /\ \A k \in 1 .. Len(A) : /\ A[k] \in AllocatedBlock /\ A[k].address \in Addresses
                                   /\ A[k].size \in Nat /\ A[k].address \in Nat
<1>1. Len(A) \in Nat /\ DOMAIN A = 1 .. Len(A)
  BY IndicesOfSeq
<1>2. IsFiniteSet(1 .. Len(A))
  BY <1>1, FS_Interval
<1>3. \A k \in 1 .. Len(A) : A[k] \in AllocatedBlock
  BY ElementOfSeq
<1>. QED
  BY <1>1, <1>2, <1>3, AllocatedBlockIs

\* The places of an arena's blocks, one for each.
LEMMA PlacedOf ==
  ASSUME NEW A, Fitted(A)
  PROVE  /\ Placed(A) \in Seq(FreeBlock) /\ Len(Placed(A)) = Len(A)
         /\ \A k \in 1 .. Len(A) : /\ Placed(A)[k] = Block(A[k].address, A[k].size)
                                   /\ Placed(A)[k].address = A[k].address
                                   /\ Placed(A)[k].size = A[k].size
<1>. DEFINE n == Len(A)
            P == Placed(A)
<1>1. /\ n \in Nat
      /\ \A k \in 1 .. n : /\ A[k].address \in Addresses /\ A[k].size \in Nat
                           /\ A[k].size <= MaximumSize
  BY AllocatedBlocksOf DEF Fitted
<1>2. P = [k \in 1 .. n |-> Block(A[k].address, A[k].size)]
  BY DEF Placed
<1>3. \A k \in 1 .. n : Block(A[k].address, A[k].size) \in FreeBlock
  BY <1>1, HeapAssumption DEF Block, FreeBlock
<1>4. \A k \in 1 .. n : /\ P[k] = Block(A[k].address, A[k].size)
                        /\ P[k].address = A[k].address /\ P[k].size = A[k].size
  BY <1>2 DEF Block
<1>5. P \in [1 .. n -> FreeBlock]
  BY <1>2, <1>3
<1>. HIDE DEF n, P
<1>6. P \in Seq(FreeBlock) /\ DOMAIN P = 1 .. n
  BY <1>1, <1>5
<1>7. Len(P) = n
  BY <1>1, <1>6, LenProperties
<1>. QED
  BY <1>4, <1>6, <1>7 DEF n, P

\* Measures see an arena as the blocks of its places.
LEMMA PlacedInserted ==
  ASSUME NEW A, Fitted(A), NEW B, Fitted(B), NEW p, NEW e, Inserted(B, A, p, e)
  PROVE  Inserted(Placed(B), Placed(A), p, Block(e.address, e.size))
<1>. DEFINE n == Len(A)
            P == Placed(A)
            Q == Placed(B)
<1>1. /\ n \in Nat /\ Len(B) = n + 1 /\ p \in 1 .. n + 1 /\ B[p] = e
      /\ \A i \in 1 .. n : B[IF i < p THEN i ELSE i + 1] = A[i]
  BY AllocatedBlocksOf DEF Inserted, Fitted
<1>2. /\ Len(P) = n /\ Len(Q) = n + 1
      /\ \A k \in 1 .. n : P[k] = Block(A[k].address, A[k].size)
      /\ \A k \in 1 .. n + 1 : Q[k] = Block(B[k].address, B[k].size)
  BY <1>1, PlacedOf
<1>. HIDE DEF n, P, Q
<1>3. Q[p] = Block(e.address, e.size)
  BY <1>1, <1>2
<1>4. ASSUME NEW i \in 1 .. n
      PROVE  Q[IF i < p THEN i ELSE i + 1] = P[i]
  <2>. DEFINE k == IF i < p THEN i ELSE i + 1
  <2>1. k \in 1 .. n + 1 /\ B[k] = A[i]
    BY <1>1
  <2>. HIDE DEF k
  <2>2. Q[k] = P[i]
    BY <1>2, <2>1
  <2>. QED
    BY <2>2 DEF k
<1>5. Inserted(Q, P, p, Block(e.address, e.size))
  BY <1>1, <1>2, <1>3, <1>4 DEF Inserted
<1>. QED
  BY <1>5 DEF P, Q

\* What the runs' properties say of the arena, in the measures' terms.
LEMMA PlacedMeasures ==
  ASSUME NEW A, Fitted(A)
  PROVE  /\ Lengths[Placed(A)] = Len(A)
         /\ Sizes[Placed(A)] = SumFunction([k \in DOMAIN A |-> A[k].size])
         /\ \A x : Coverings(x)[Placed(A)] = Covering(A, x)
         /\ ByAddress(Placed(A)) <=> ByAddress(A)
<1>. DEFINE n == Len(A)
            P == Placed(A)
<1>1. /\ n \in Nat /\ DOMAIN A = 1 .. n /\ IsFiniteSet(1 .. n)
      /\ \A k \in 1 .. n : A[k].size \in Nat
  BY AllocatedBlocksOf DEF Fitted
<1>2. /\ P \in Seq(FreeBlock) /\ Len(P) = n /\ DOMAIN P = 1 .. n
      /\ \A k \in 1 .. n : P[k].address = A[k].address /\ P[k].size = A[k].size
  <2>1. /\ P \in Seq(FreeBlock) /\ Len(P) = n
        /\ \A k \in 1 .. n : P[k].address = A[k].address /\ P[k].size = A[k].size
    BY PlacedOf
  <2>2. DOMAIN P = 1 .. Len(P)
    BY <2>1, BlocksOf
  <2>. QED
    BY <2>1, <2>2
<1>. HIDE DEF P
<1>3. Lengths[P] = n
  BY <1>2 DEF Lengths
<1>4. ASSUME NEW x PROVE Coverings(x)[P] = Covering(A, x)
  <2>1. {j \in 1 .. n : x \in Covers(P[j])} = {j \in 1 .. n : x \in Covers(A[j])}
    BY <1>2 DEF Covers
  <2>. QED
    BY <1>1, <1>2, <2>1 DEF Coverings, Covering
<1>5. ByAddress(P) <=> ByAddress(A)
  BY <1>2 DEF ByAddress
<1>6. Sizes[P] = SumFunction([k \in DOMAIN A |-> A[k].size])
  <2>. DEFINE f == [k \in 1 .. n |-> A[k].size]
  <2>1. Sizes[P] = SumOver(f, 1 .. n)
    <3>1. Sizes[P] = SumOver([k \in 1 .. n |-> P[k].size], 1 .. n)
      BY <1>2 DEF Sizes
    <3>2. [k \in 1 .. n |-> P[k].size] = f
      BY <1>2
    <3>. QED
      BY <3>1, <3>2
  <2>2. SumFunction(f) = SumOver(f, 1 .. n)
    <3>1. DOMAIN f = 1 .. n
      OBVIOUS
    <3>. HIDE DEF f
    <3>2. SumFunction(f) = SumOver(f, DOMAIN f)
      BY SumFunctionIs
    <3>. QED
      BY <3>1, <3>2
  <2>. QED
    BY <1>1, <2>1, <2>2
<1>. QED
  BY <1>3, <1>4, <1>5, <1>6 DEF P

\* The same of the lists: their weights are the sums of the properties.
LEMMA ListMeasures ==
  ASSUME NEW L \in Seq(FreeList)
  PROVE  /\ Weight(L, Lengths) = SumFunction([i \in DOMAIN L |-> Len(L[i].blocks)])
         /\ \A x : Weight(L, Coverings(x))
                     = SumFunction([i \in DOMAIN L |-> Covering(L[i].blocks, x)])
<1>. DEFINE n == Len(L)
<1>1. /\ n \in Nat /\ DOMAIN L = 1 .. n /\ \A i \in 1 .. n : L[i].blocks \in Seq(FreeBlock)
  BY ListsOf
<1>2. ASSUME NEW f, DOMAIN f = 1 .. n
      PROVE  SumFunction(f) = SumOver(f, 1 .. n)
  BY <1>2, SumFunctionIs
<1>3. Weight(L, Lengths) = SumFunction([i \in DOMAIN L |-> Len(L[i].blocks)])
  <2>. DEFINE f == [i \in 1 .. n |-> Lengths[L[i].blocks]]
              g == [i \in DOMAIN L |-> Len(L[i].blocks)]
  <2>1. \A i \in 1 .. n : Lengths[L[i].blocks] = Len(L[i].blocks)
    BY <1>1 DEF Lengths
  <2>2. f = g /\ DOMAIN f = 1 .. n
    BY <1>1, <2>1
  <2>3. Weight(L, Lengths) = SumOver(f, 1 .. n)
    BY DEF Weight
  <2>. HIDE DEF f, g
  <2>4. SumFunction(f) = SumOver(f, 1 .. n)
    BY <1>2, <2>2
  <2>5. Weight(L, Lengths) = SumFunction(g)
    BY <2>2, <2>3, <2>4
  <2>. QED
    BY <2>5 DEF g
<1>4. ASSUME NEW x
      PROVE  Weight(L, Coverings(x)) = SumFunction([i \in DOMAIN L |-> Covering(L[i].blocks, x)])
  <2>. DEFINE f == [i \in 1 .. n |-> Coverings(x)[L[i].blocks]]
              g == [i \in DOMAIN L |-> Covering(L[i].blocks, x)]
  <2>1. \A i \in 1 .. n : Coverings(x)[L[i].blocks] = Covering(L[i].blocks, x)
    BY <1>1 DEF Coverings
  <2>2. f = g /\ DOMAIN f = 1 .. n
    BY <1>1, <2>1
  <2>3. Weight(L, Coverings(x)) = SumOver(f, 1 .. n)
    BY DEF Weight
  <2>. HIDE DEF f, g
  <2>4. SumFunction(f) = SumOver(f, 1 .. n)
    BY <1>2, <2>2
  <2>5. Weight(L, Coverings(x)) = SumFunction(g)
    BY <2>2, <2>3, <2>4
  <2>. QED
    BY <2>5 DEF g
<1>. QED
  BY <1>3, <1>4

\* Sizes of blocks add up to a natural number.
LEMMA SizesAreNat ==
  ASSUME NEW s \in Seq(FreeBlock)
  PROVE  Sizes[s] \in Nat
<1>. DEFINE f == [k \in 1 .. Len(s) |-> s[k].size]
<1>1. IsFiniteSet(1 .. Len(s)) /\ \A k \in 1 .. Len(s) : f[k] \in Nat
  BY BlocksOf
<1>2. Sizes[s] = SumOver(f, 1 .. Len(s))
  BY DEF Sizes
<1>. HIDE DEF f
<1>3. SumOver(f, 1 .. Len(s)) \in Nat
  BY <1>1, SumOverElement
<1>. QED
  BY <1>2, <1>3

\* The number of blocks with a byte is natural.
LEMMA CoveringIsNat ==
  ASSUME NEW S, NEW s \in Seq(S), NEW x
  PROVE  IsFiniteSet({j \in DOMAIN s : x \in Covers(s[j])}) /\ Covering(s, x) \in Nat
<1>. DEFINE Q == {j \in DOMAIN s : x \in Covers(s[j])}
<1>1. IsFiniteSet(1 .. Len(s)) /\ Q \in SUBSET (1 .. Len(s))
  <2>1. Len(s) \in Nat /\ DOMAIN s = 1 .. Len(s)
    BY IndicesOfSeq
  <2>2. 1 \in Int /\ Len(s) \in Int
    BY <2>1
  <2>. QED
    BY <2>1, <2>2, FS_Interval
<1>. HIDE DEF Q
<1>2. IsFiniteSet(Q)
  BY <1>1, FS_Subset
<1>3. Cardinality(Q) \in Nat
  BY <1>2, FS_CardinalityType
<1>. QED
  BY <1>2, <1>3 DEF Q, Covering

\* Weights of natural numbers are natural.
LEMMA WeightIsNat ==
  ASSUME NEW L \in Seq(FreeList)
  PROVE  /\ Weight(L, Lengths) \in Nat /\ Weight(L, Sizes) \in Nat
         /\ \A x : Weight(L, Coverings(x)) \in Nat
<1>1. ASSUME NEW w, \A s \in Seq(FreeBlock) : w[s] \in Nat
      PROVE  Weight(L, w) \in Nat
  <2>. DEFINE f == [i \in 1 .. Len(L) |-> w[L[i].blocks]]
  <2>1. IsFiniteSet(1 .. Len(L)) /\ \A i \in 1 .. Len(L) : f[i] \in Nat
    BY <1>1, ListsOf
  <2>2. Weight(L, w) = SumOver(f, 1 .. Len(L))
    BY DEF Weight
  <2>. HIDE DEF f
  <2>3. SumOver(f, 1 .. Len(L)) \in Nat
    BY <2>1, SumOverElement
  <2>. QED
    BY <2>2, <2>3
<1>2. \A s \in Seq(FreeBlock) : Lengths[s] \in Nat
  BY BlocksOf DEF Lengths
<1>3. \A s \in Seq(FreeBlock) : Sizes[s] \in Nat
  BY SizesAreNat
<1>4. ASSUME NEW x
      PROVE  Weight(L, Coverings(x)) \in Nat
  <2>1. ASSUME NEW s \in Seq(FreeBlock)
        PROVE  Coverings(x)[s] \in Nat
    BY <2>1, CoveringIsNat DEF Coverings
  <2>. HIDE DEF Coverings
  <2>. QED
    BY <1>1, <2>1
<1>. QED
  BY <1>1, <1>2, <1>3, <1>4

\* No block reaches out of the initial block it was cut from.
Inside(b) == \E c \in InitialBlocks : Covers(b) \subseteq Covers(c)

\* The counters of heap h and arena r are what they count.  Free memory is at
\* least that of the free blocks: the remainders of the lists belong to none.
Counts(h, r) ==
  /\ NumberOfLists <= Len(h.lists) /\ Len(h.lists) <= h.capacity
  /\ r.totalMallocs = Len(r.blocks)
  /\ r.totalMallocs = r.mallocCalls - h.freeCalls
  /\ r.totalAllocatedMemory = Sizes[Placed(r.blocks)]
  /\ h.totalFreeMemory = h.totalMemory - r.totalAllocatedMemory
  /\ h.totalFreeMemory >= Weight(h.lists, Sizes)
  /\ h.totalBlocks = Weight(h.lists, Lengths)
  /\ h.totalBlocks + r.totalMallocs = Cardinality(InitialBlocks) + r.totalFragmentations

\* Blocks in lists L and at places P tile the memory.
Tiles(L, P) ==
  /\ \A x \in Memory : Weight(L, Coverings(x)) + Coverings(x)[P] = 1
  /\ \A b \in FreeOf(L) \cup ToSet(P) : Inside(b)

HeapOK(h, r) ==
  /\ h \in Heaps /\ r \in Arenas
  /\ Tidy(h.lists) /\ Fitted(r.blocks) /\ ByAddress(r.blocks)
  /\ Counts(h, r)
  /\ Tiles(h.lists, Placed(r.blocks))

\* What Malloc makes of the arena: blocks B, with b among them.
Allocates(s, r, B, b, m) ==
  s = [r EXCEPT !.blocks = B, !.totalAllocatedMemory = @ + b.size, !.totalMallocs = @ + 1,
                !.mallocCalls = @ + 1, !.totalFragmentations = IF m > b.size THEN @ + 1 ELSE @]

\* What INIT_HEAP's blocks and lists are like, of which the memory consists.
InitialBlocksOK == /\ IsFiniteSet(InitialBlocks)
                   /\ \A c \in InitialBlocks : c.address + c.size \in Addresses
                   /\ \A c \in InitialBlocks : c.size \in Nat /\ c.address \in Nat /\ c.size > 0
                   /\ InitialBlocks # {} => NumberOfLists >= 1

\* A block inside an initial block ends within the memory.
LEMMA InsideEnds ==
  ASSUME InitialBlocksOK, NEW b, b.address \in Addresses, b.size \in Nat, Inside(b)
  PROVE  /\ NumberOfLists >= 1
         /\ b.size > 0 => b.address + b.size \in Addresses
<1>1. PICK c \in InitialBlocks : Covers(b) \subseteq Covers(c)
  BY DEF Inside
<1>2. NumberOfLists >= 1
  BY <1>1 DEF InitialBlocksOK
<1>3. c.size \in Nat /\ c.address \in Nat /\ c.address + c.size \in Addresses
  BY <1>1 DEF InitialBlocksOK
<1>4. ASSUME b.size > 0
      PROVE  b.address + b.size \in Addresses
  <2>1. b.address \in Nat /\ b.address >= StartAddress
    BY HeapAssumption DEF Addresses
  <2>2. b.address + b.size - 1 \in Covers(b)
    BY <1>4, <2>1 DEF Covers
  <2>3. b.address + b.size - 1 <= c.address + c.size - 1
    BY <1>1, <1>3, <2>2 DEF Covers
  <2>. QED
    <3>. DEFINE e == StartAddress + NumberOfLists * MaximumSize
    <3>1. e \in Int /\ Addresses = StartAddress .. e
      BY HeapAssumption DEF Addresses
    <3>2. c.address + c.size <= e /\ StartAddress \in Nat
      BY <1>3, <3>1, HeapAssumption
    <3>. HIDE DEF e
    <3>3. b.address + b.size <= c.address + c.size
      BY <1>3, <2>1, <2>3
    <3>. QED
      BY <1>3, <2>1, <3>1, <3>2, <3>3
<1>. QED
  BY <1>2, <1>4

\* A MALLOC keeps the heap in order.
LEMMA MallocKeeps ==
  ASSUME InitialBlocksOK, NEW h, NEW r, HeapOK(h, r), NEW f, NEW b \in FreeBlock,
         FoundAt(h, b, f.list, f.block), NEW n \in Nat, n <= b.size,
         NEW t \in AllocatedBlock, t.address = b.address, t.size = n,
         NEW s, Allocates(s, r, InsertByAddress(r.blocks, t), t, b.size)
  PROVE  HeapOK(Cut(h, f, n), s)
<1>. DEFINE L == h.lists
            A == r.blocks
            B == InsertByAddress(A, t)
            P == Placed(A)
            Q == Placed(B)
            u == Block(b.address, n)
            g == Cut(h, f, n)
<1>1. /\ h \in Heaps /\ r \in Arenas /\ Tidy(L) /\ L \in Seq(FreeList)
      /\ Fitted(A) /\ A \in Seq(AllocatedBlock) /\ ByAddress(A)
      /\ Counts(h, r) /\ Tiles(L, P)
  BY DEF HeapOK, Tidy, Fitted
<1>2. /\ b.size \in Nat /\ b.size <= MaximumSize /\ b.address \in Addresses /\ b.address \in Nat
  BY HeapAssumption DEF FreeBlock, Addresses
<1>3. B \in Seq(AllocatedBlock) /\ (\E p : Inserted(B, A, p, t)) /\ ByAddress(B)
  <2>1. \A x \in AllocatedBlock : x.address \in Int
    BY AllocatedBlockIs
  <2>. HIDE DEF A
  <2>. QED
    BY <1>1, <2>1, InsertByAddressInserts
<1>4. PICK p : Inserted(B, A, p, t)
  BY <1>3
<1>. HIDE DEF B
<1>5. Fitted(B)
  <2>1. ToSet(B) = ToSet(A) \cup {t} /\ ToSet(B) = {B[k] : k \in 1 .. Len(B)}
        /\ ToSet(A) = {A[k] : k \in 1 .. Len(A)}
    BY <1>1, <1>3, <1>4, InsertedElements, IndicesOfSeq
  <2>2. \A x \in ToSet(A) : x.size <= MaximumSize
    BY <1>1, <2>1 DEF Fitted
  <2>3. t.size <= MaximumSize
    BY <1>2, HeapAssumption
  <2>. QED
    BY <1>3, <2>1, <2>2, <2>3 DEF Fitted
<1>6. /\ Inserted(Q, P, p, u) /\ P \in Seq(FreeBlock) /\ Q \in Seq(FreeBlock)
  <2>1. u = Block(t.address, t.size)
    OBVIOUS
  <2>. HIDE DEF u, A
  <2>. QED
    BY <1>1, <1>4, <1>5, <2>1, PlacedInserted, PlacedOf
<1>7. u \in FreeBlock /\ u.address = b.address /\ u.size = n /\ Len(B) = Len(A) + 1
  <2>1. u \in FreeBlock /\ u.address = b.address /\ u.size = n
    BY <1>2, HeapAssumption DEF Block, FreeBlock
  <2>2. Len(B) = Len(A) + 1
    BY <1>4 DEF Inserted
  <2>. QED
    BY <2>1, <2>2
<1>. HIDE DEF P, Q, u
<1>8. b \in FreeOf(L) /\ Inside(b)
  <2>1. f.list \in 1 .. Len(L) /\ f.block \in 1 .. Len(L[f.list].blocks)
        /\ b = L[f.list].blocks[f.block]
    BY DEF FoundAt
  <2>2. L[f.list].blocks \in Seq(FreeBlock)
    BY <1>1, <2>1, ListsOf
  <2>3. b \in ToSet(L[f.list].blocks)
    <3>. DEFINE v == L[f.list].blocks
    <3>1. v \in Seq(FreeBlock) /\ f.block \in 1 .. Len(v) /\ b = v[f.block]
      BY <2>1, <2>2
    <3>. HIDE DEF v
    <3>2. ToSet(v) = {v[k] : k \in 1 .. Len(v)}
      BY <3>1, IndicesOfSeq
    <3>3. b \in ToSet(v)
      BY <3>1, <3>2
    <3>. QED
      BY <3>3 DEF v
  <2>4. b \in FreeOf(L)
    BY <2>1, <2>3 DEF FreeOf
  <2>. QED
    BY <1>1, <2>4 DEF Tiles
<1>9. b.size > 0 => b.address + b.size \in Addresses
  BY <1>2, <1>8, InsideEnds
<1>10. n <= h.totalFreeMemory /\ 1 <= h.totalBlocks
  <2>. DEFINE M == Without(L, f.list, f.block)
  <2>1. Tidy(M) /\ Adds(L, M, b)
    BY <1>1, WithoutIsTidy DEF FoundAt
  <2>2. M \in Seq(FreeList)
    BY <2>1 DEF Tidy
  <2>. HIDE DEF M
  <2>3. /\ Weight(L, Lengths) = Weight(M, Lengths) + OneEach[b]
        /\ Weight(L, Sizes) = Weight(M, Sizes) + SizeOf[b]
    BY <1>1, <2>1, <2>2, AddsWeight, LengthsAdditive, SizesAdditive
  <2>4. Weight(M, Lengths) \in Nat /\ Weight(M, Sizes) \in Nat
    BY <2>2, WeightIsNat
  <2>5. OneEach[b] = 1 /\ SizeOf[b] = b.size
    BY DEF OneEach, SizeOf
  <2>6. h.totalFreeMemory >= Weight(L, Sizes) /\ h.totalBlocks = Weight(L, Lengths)
        /\ h.totalFreeMemory \in Nat
    BY <1>1 DEF Counts, Heaps
  <2>. QED
    BY <1>2, <2>3, <2>4, <2>5, <2>6
<1>11. CutFrom(g, h, b, n)
  BY <1>1, <1>9, <1>10, CutEffect
<1>. HIDE DEF g
<1>12. PICK M \in Seq(FreeList) :
         /\ Adds(L, M, b)
         /\ IF b.size > n
            THEN /\ Rest(b, n) \in FreeBlock /\ Adds(g.lists, M, Rest(b, n))
                 /\ g.totalBlocks = h.totalBlocks
            ELSE g.lists = M /\ g.totalBlocks = h.totalBlocks - 1
  BY <1>11 DEF CutFrom
<1>13. /\ g \in Heaps /\ Tidy(g.lists) /\ g.lists \in Seq(FreeList)
       /\ Len(g.lists) <= g.capacity \/ ~(1 <= Len(L))
       /\ g.totalMemory = h.totalMemory /\ g.totalFreeMemory = h.totalFreeMemory - n
       /\ g.freeCalls = h.freeCalls
  BY <1>1, <1>11 DEF CutFrom, Counts, Tidy
<1>14. NumberOfLists <= Len(g.lists) /\ Len(g.lists) <= g.capacity
  <2>1. f.list \in 1 .. Len(L) /\ Len(L) \in Nat /\ Len(g.lists) \in Nat
    BY <1>1, <1>13, ListsOf DEF FoundAt
  <2>2. NumberOfLists <= Len(L) /\ Len(L) <= Len(g.lists) /\ NumberOfLists \in Nat
    BY <1>1, <1>11, HeapAssumption DEF Counts, CutFrom
  <2>. QED
    BY <1>13, <2>1, <2>2
<1>15. ASSUME NEW w, NEW c, Additive(w, c)
       PROVE  /\ Weight(L, w) \in Int /\ c[b] \in Int /\ Weight(g.lists, w) \in Int
              /\ w[Q] = w[P] + c[u] /\ w[P] \in Int /\ c[u] \in Int
              /\ b.size > n => /\ c[Rest(b, n)] \in Int
                               /\ Weight(g.lists, w) = Weight(L, w) - c[b] + c[Rest(b, n)]
              /\ ~(b.size > n) => Weight(g.lists, w) = Weight(L, w) - c[b]
  <2>1. /\ Weight(M, w) \in Int /\ c[b] \in Int /\ Weight(L, w) = Weight(M, w) + c[b]
    BY <1>1, <1>12, <1>15, AddsWeight
  <2>2. w[Q] = w[P] + c[u] /\ w[P] \in Int /\ c[u] \in Int
    BY <1>6, <1>7, <1>15 DEF Additive
  <2>3. CASE b.size > n
    <3>1. Rest(b, n) \in FreeBlock /\ Adds(g.lists, M, Rest(b, n))
      BY <1>12, <2>3
    <3>2. c[Rest(b, n)] \in Int /\ Weight(g.lists, w) = Weight(M, w) + c[Rest(b, n)]
      BY <1>12, <1>13, <1>15, <3>1, AddsWeight
    <3>. QED
      BY <2>1, <2>2, <2>3, <3>2, SMTT(30)
  <2>4. CASE ~(b.size > n)
    <3>1. g.lists = M
      BY <1>12, <2>4
    <3>. QED
      BY <2>1, <2>2, <2>4, <3>1
  <2>. QED
    BY <2>3, <2>4
<1>16. Rest(b, n).size = b.size - n /\ Rest(b, n).address = b.address + n
  BY DEF Rest, Block
<1>17. /\ s \in Arenas /\ s.blocks = B
       /\ s.totalAllocatedMemory = r.totalAllocatedMemory + n
       /\ s.totalMallocs = r.totalMallocs + 1 /\ s.mallocCalls = r.mallocCalls + 1
       /\ s.totalFragmentations = IF b.size > n THEN r.totalFragmentations + 1
                                  ELSE r.totalFragmentations
  <2>. DEFINE z == IF b.size > n THEN r.totalFragmentations + 1 ELSE r.totalFragmentations
  <2>1. /\ r.totalAllocatedMemory + n \in Nat /\ r.totalMallocs + 1 \in Nat
        /\ r.mallocCalls + 1 \in Nat /\ z \in Nat
    BY <1>1 DEF Arenas
  <2>2. s = [r EXCEPT !.blocks = B, !.totalAllocatedMemory = r.totalAllocatedMemory + n,
               !.totalMallocs = r.totalMallocs + 1, !.mallocCalls = r.mallocCalls + 1,
               !.totalFragmentations = z]
    BY DEF Allocates, B
  <2>. HIDE DEF z
  <2>3. /\ s \in Arenas /\ s.blocks = B
        /\ s.totalAllocatedMemory = r.totalAllocatedMemory + n
        /\ s.totalMallocs = r.totalMallocs + 1 /\ s.mallocCalls = r.mallocCalls + 1
        /\ s.totalFragmentations = z
    BY <1>1, <1>3, <2>1, <2>2 DEF Arenas
  <2>. QED
    BY <2>3 DEF z
<1>18. Counts(g, s)
  <2>1. /\ r.totalMallocs = Len(A) /\ r.totalMallocs = r.mallocCalls - h.freeCalls
        /\ r.totalAllocatedMemory = Sizes[P]
        /\ h.totalFreeMemory = h.totalMemory - r.totalAllocatedMemory
        /\ h.totalFreeMemory >= Weight(L, Sizes)
        /\ h.totalBlocks = Weight(L, Lengths)
        /\ h.totalBlocks + r.totalMallocs = Cardinality(InitialBlocks) + r.totalFragmentations
    BY <1>1 DEF Counts, P
  <2>2. /\ h.totalFreeMemory \in Nat /\ h.totalMemory \in Nat /\ h.totalBlocks \in Nat
        /\ h.freeCalls \in Nat /\ r.totalMallocs \in Nat /\ r.mallocCalls \in Nat
        /\ r.totalAllocatedMemory \in Nat /\ r.totalFragmentations \in Nat
    BY <1>1 DEF Heaps, Arenas
  <2>3. Cardinality(InitialBlocks) \in Nat
    BY FS_CardinalityType DEF InitialBlocksOK
  <2>4. Sizes[Q] = Sizes[P] + n
    BY <1>7, <1>15, SizesAdditive DEF SizeOf
  <2>5. SizeOf[b] = b.size /\ OneEach[b] = 1
    BY DEF SizeOf, OneEach
  <2>6. Weight(g.lists, Sizes) <= Weight(L, Sizes) - n /\ Weight(L, Sizes) \in Int
        /\ Weight(g.lists, Sizes) \in Int
    <3>1. CASE b.size > n
      <4>1. SizeOf[Rest(b, n)] = b.size - n
        BY <1>12, <1>16, <3>1 DEF SizeOf
      <4>2. /\ Weight(g.lists, Sizes) = Weight(L, Sizes) - SizeOf[b] + SizeOf[Rest(b, n)]
            /\ Weight(L, Sizes) \in Int
        BY <1>15, <3>1, SizesAdditive
      <4>. QED
        BY <1>2, <2>5, <4>1, <4>2
    <3>2. CASE ~(b.size > n)
      <4>1. Weight(g.lists, Sizes) = Weight(L, Sizes) - SizeOf[b] /\ Weight(L, Sizes) \in Int
        BY <1>15, <3>2, SizesAdditive
      <4>. QED
        BY <1>2, <2>5, <3>2, <4>1
    <3>. QED
      BY <3>1, <3>2
  <2>7. g.totalBlocks = Weight(g.lists, Lengths) /\ Weight(L, Lengths) \in Int
    <3>1. CASE b.size > n
      <4>1. OneEach[Rest(b, n)] = 1
        BY <1>12, <3>1 DEF OneEach
      <4>2. /\ Weight(g.lists, Lengths) = Weight(L, Lengths) - OneEach[b] + OneEach[Rest(b, n)]
            /\ Weight(L, Lengths) \in Int
        BY <1>15, <3>1, LengthsAdditive
      <4>3. g.totalBlocks = h.totalBlocks
        BY <1>12, <3>1
      <4>. QED
        BY <2>1, <2>5, <4>1, <4>2, <4>3
    <3>2. CASE ~(b.size > n)
      <4>1. Weight(g.lists, Lengths) = Weight(L, Lengths) - OneEach[b] /\ Weight(L, Lengths) \in Int
        BY <1>15, <3>2, LengthsAdditive
      <4>2. g.totalBlocks = h.totalBlocks - 1
        BY <1>12, <3>2
      <4>. QED
        BY <2>1, <2>5, <4>1, <4>2
    <3>. QED
      BY <3>1, <3>2
  <2>8. g.totalBlocks + s.totalMallocs = Cardinality(InitialBlocks) + s.totalFragmentations
    <3>1. g.totalBlocks = IF b.size > n THEN h.totalBlocks ELSE h.totalBlocks - 1
      BY <1>12
    <3>2. /\ s.totalMallocs = r.totalMallocs + 1
          /\ s.totalFragmentations = IF b.size > n THEN r.totalFragmentations + 1
                                     ELSE r.totalFragmentations
      BY <1>17
    <3>. DEFINE k == Cardinality(InitialBlocks)
                x == h.totalBlocks
                y == r.totalMallocs
                z == r.totalFragmentations
    <3>3. k \in Int /\ x \in Int /\ y \in Int /\ z \in Int /\ x + y = k + z
      BY <2>1, <2>2, <2>3
    <3>4. /\ g.totalBlocks = IF b.size > n THEN x ELSE x - 1
          /\ s.totalMallocs = y + 1 /\ s.totalFragmentations = IF b.size > n THEN z + 1 ELSE z
      BY <3>1, <3>2
    <3>. HIDE DEF k, x, y, z
    <3>5. g.totalBlocks + s.totalMallocs = k + s.totalFragmentations
      BY <3>3, <3>4
    <3>. QED
      BY <3>5 DEF k
  <2>9. s.totalMallocs = Len(s.blocks) /\ s.totalMallocs = s.mallocCalls - g.freeCalls
    <3>1. /\ s.totalMallocs = r.totalMallocs + 1 /\ s.mallocCalls = r.mallocCalls + 1
          /\ g.freeCalls = h.freeCalls /\ s.blocks = B
      BY <1>13, <1>17
    <3>. QED
      BY <1>7, <2>1, <2>2, <3>1
  <2>10. s.totalAllocatedMemory = Sizes[Placed(s.blocks)]
    BY <1>17, <2>1, <2>4 DEF Q
  <2>11. /\ g.totalFreeMemory = g.totalMemory - s.totalAllocatedMemory
         /\ g.totalFreeMemory >= Weight(g.lists, Sizes)
    <3>1. /\ g.totalMemory = h.totalMemory /\ g.totalFreeMemory = h.totalFreeMemory - n
          /\ s.totalAllocatedMemory = r.totalAllocatedMemory + n
      BY <1>13, <1>17
    <3>2. g.totalFreeMemory = g.totalMemory - s.totalAllocatedMemory
      BY <2>1, <2>2, <3>1, SMTT(30)
    <3>3. g.totalFreeMemory >= Weight(g.lists, Sizes)
      <4>. DEFINE w == Weight(L, Sizes)
                  v == Weight(g.lists, Sizes)
                  m == h.totalFreeMemory
      <4>1. w \in Int /\ v \in Int /\ m \in Int /\ m >= w /\ v <= w - n
        BY <2>1, <2>2, <2>6
      <4>. HIDE DEF w, v, m
      <4>2. m - n >= v
        BY <4>1
      <4>. QED
        BY <3>1, <4>2 DEF m, v
    <3>. QED
      BY <3>2, <3>3
  <2>. QED
    BY <1>14, <2>7, <2>8, <2>9, <2>10, <2>11 DEF Counts
<1>19. Tiles(g.lists, Q)
  <2>1. ASSUME NEW x \in Memory
        PROVE  Weight(g.lists, Coverings(x)) + Coverings(x)[Q] = 1
    <3>. DEFINE k == Coverings(x)
                c == Has(x)
    <3>1. Weight(L, k) + k[P] = 1
      BY <1>1 DEF Tiles, P
    <3>2. Additive(k, c)
      BY CoveringsAdditive
    <3>3. c[b] = (IF x \in Covers(b) THEN 1 ELSE 0) /\ c[u] = IF x \in Covers(u) THEN 1 ELSE 0
      BY <1>7 DEF Has
    <3>4. ASSUME b.size > n PROVE c[Rest(b, n)] = IF x \in Covers(Rest(b, n)) THEN 1 ELSE 0
      BY <1>12, <3>4 DEF Has
    <3>. HIDE DEF k, c
    <3>5. CASE b.size > n
      <4>1. c[b] = c[Rest(b, n)] + c[u]
        <5>1. x \in Covers(b) <=> x \in b.address .. b.address + b.size - 1
          BY DEF Covers
        <5>2. x \in Covers(u) <=> x \in b.address .. b.address + n - 1
          BY <1>7 DEF Covers
        <5>3. x \in Covers(Rest(b, n)) <=> x \in b.address + n .. b.address + n + (b.size - n) - 1
          BY <1>16 DEF Covers
        <5>. QED
          BY <1>2, <3>3, <3>4, <3>5, <5>1, <5>2, <5>3, SMTT(30)
      <4>2. /\ Weight(g.lists, k) = Weight(L, k) - c[b] + c[Rest(b, n)]
            /\ Weight(L, k) \in Int /\ c[b] \in Int /\ c[Rest(b, n)] \in Int
            /\ k[Q] = k[P] + c[u] /\ k[P] \in Int /\ c[u] \in Int
        BY <1>15, <3>2, <3>5
      <4>3. Weight(g.lists, k) + k[Q] = 1
        <5>. DEFINE w == Weight(L, k)
                    v == Weight(g.lists, k)
                    y == c[b]
                    z == c[Rest(b, n)]
                    q == c[u]
                    o == k[P]
        <5>1. /\ v = w - y + z /\ k[Q] = o + q /\ w + o = 1 /\ y = z + q
              /\ w \in Int /\ y \in Int /\ z \in Int /\ o \in Int /\ q \in Int
          BY <3>1, <4>1, <4>2
        <5>. HIDE DEF w, v, y, z, q, o
        <5>2. v + k[Q] = 1
          BY <5>1
        <5>. QED
          BY <5>2 DEF v
      <4>. QED
        BY <4>3 DEF k
    <3>6. CASE ~(b.size > n)
      <4>1. c[b] = c[u]
        <5>1. b.size = n
          BY <1>2, <3>6
        <5>2. Covers(b) = Covers(u)
          BY <1>7, <5>1 DEF Covers
        <5>. QED
          BY <3>3, <5>2
      <4>2. /\ Weight(g.lists, k) = Weight(L, k) - c[b]
            /\ Weight(L, k) \in Int /\ c[b] \in Int
            /\ k[Q] = k[P] + c[u] /\ k[P] \in Int /\ c[u] \in Int
        BY <1>15, <3>2, <3>6
      <4>3. Weight(g.lists, k) + k[Q] = 1
        BY <3>1, <4>1, <4>2
      <4>. QED
        BY <4>3 DEF k
    <3>. QED
      BY <3>5, <3>6
  <2>2. FreeOf(L) = FreeOf(M) \cup {b}
    BY <1>1, <1>12, AddsBlocks
  <2>3. FreeOf(g.lists) = IF b.size > n THEN FreeOf(M) \cup {Rest(b, n)} ELSE FreeOf(M)
    BY <1>12, <1>13, AddsBlocks
  <2>4. ToSet(Q) = ToSet(P) \cup {u}
    BY <1>6, InsertedElements
  <2>5. \A y \in FreeOf(L) \cup ToSet(P) : Inside(y)
    BY <1>1 DEF Tiles, P
  <2>6. Inside(u)
    <3>1. Covers(u) \subseteq Covers(b)
      BY <1>2, <1>7 DEF Covers
    <3>. QED
      BY <1>8, <3>1 DEF Inside
  <2>7. ASSUME b.size > n PROVE Inside(Rest(b, n))
    <3>1. Covers(Rest(b, n)) \subseteq Covers(b)
      BY <1>2, <1>16, <2>7 DEF Covers
    <3>. QED
      BY <1>8, <3>1 DEF Inside
  <2>8. \A y \in FreeOf(g.lists) \cup ToSet(Q) : Inside(y)
    BY <2>2, <2>3, <2>4, <2>5, <2>6, <2>7
  <2>. QED
    BY <2>1, <2>8 DEF Tiles
<1>. QED
  BY <1>3, <1>5, <1>13, <1>17, <1>18, <1>19 DEF HeapOK, g, Q

\* What Free makes of the heap, before the block is added, and of the arena.
Returns(g, h, t) == g = [h EXCEPT !.freeCalls = @ + 1, !.totalFreeMemory = @ + t.size,
                                  !.totalBlocks = @ + 1]

Releases(s, r, j) == s = [r EXCEPT !.blocks = Unlink(@, r.totalMallocs, j),
                                   !.totalAllocatedMemory = @ - r.blocks[j].size,
                                   !.totalMallocs = @ - 1]

\* A FREE keeps the heap in order.
LEMMA FreeKeeps ==
  ASSUME InitialBlocksOK, NEW h, NEW r, HeapOK(h, r), NEW j \in 1 .. Len(r.blocks),
         NEW g, Returns(g, h, r.blocks[j]), NEW s, Releases(s, r, j)
  PROVE  HeapOK(AddFreeBlock(g, Block(r.blocks[j].address, r.blocks[j].size)), s)
<1>. DEFINE L == h.lists
            A == r.blocks
            t == A[j]
            B == Unlink(A, r.totalMallocs, j)
            P == Placed(A)
            Q == Placed(B)
            u == Block(t.address, t.size)
            k == AddFreeBlock(g, u)
<1>1. /\ h \in Heaps /\ r \in Arenas /\ Tidy(L) /\ L \in Seq(FreeList)
      /\ Fitted(A) /\ A \in Seq(AllocatedBlock) /\ ByAddress(A)
      /\ Counts(h, r) /\ Tiles(L, P)
  BY DEF HeapOK, Tidy, Fitted
<1>2. /\ Len(A) \in Nat /\ t \in AllocatedBlock /\ t.address \in Addresses /\ t.size \in Nat
      /\ t.size <= MaximumSize
  BY <1>1, AllocatedBlocksOf DEF Fitted
<1>3. /\ r.totalMallocs = Len(A) /\ r.totalMallocs = r.mallocCalls - h.freeCalls
      /\ r.totalAllocatedMemory = Sizes[P]
      /\ h.totalFreeMemory = h.totalMemory - r.totalAllocatedMemory
      /\ h.totalFreeMemory >= Weight(L, Sizes)
      /\ h.totalBlocks = Weight(L, Lengths)
      /\ h.totalBlocks + r.totalMallocs = Cardinality(InitialBlocks) + r.totalFragmentations
      /\ NumberOfLists <= Len(L) /\ Len(L) <= h.capacity
  BY <1>1 DEF Counts
<1>4. B \in Seq(AllocatedBlock) /\ Len(B) = Len(A) - 1 /\ Inserted(A, B, j, t)
  BY <1>1, <1>3, UnlinkRemoves
<1>5. u \in FreeBlock /\ u.address = t.address /\ u.size = t.size
  BY <1>2, HeapAssumption DEF Block, FreeBlock
<1>. HIDE DEF B, t
<1>6. ByAddress(B)
  BY <1>1, <1>4, RemovedInOrder
<1>7. Fitted(B)
  <2>1. ToSet(A) = ToSet(B) \cup {t} /\ ToSet(B) = {B[i] : i \in 1 .. Len(B)}
        /\ ToSet(A) = {A[i] : i \in 1 .. Len(A)}
    BY <1>1, <1>4, InsertedElements, IndicesOfSeq
  <2>2. \A x \in ToSet(A) : x.size <= MaximumSize
    BY <1>1, <2>1 DEF Fitted
  <2>. QED
    BY <1>4, <2>1, <2>2 DEF Fitted
<1>8. Inserted(P, Q, j, u) /\ P \in Seq(FreeBlock) /\ Q \in Seq(FreeBlock)
  BY <1>1, <1>4, <1>7, PlacedInserted, PlacedOf
<1>. HIDE DEF P, Q, u
<1>9. ToSet(P) = ToSet(Q) \cup {u}
  BY <1>8, InsertedElements
<1>10. \A x \in FreeOf(L) \cup ToSet(P) : Inside(x)
  BY <1>1 DEF Tiles, P
<1>11. NumberOfLists >= 1
  <2>1. Inside(u)
    BY <1>9, <1>10
  <2>. QED
    BY <1>2, <1>5, <2>1, InsideEnds
<1>12. /\ h.totalFreeMemory \in Nat /\ h.totalMemory \in Nat /\ h.totalBlocks \in Nat
       /\ h.freeCalls \in Nat /\ h.capacity \in Nat
  BY <1>1 DEF Heaps
<1>13. /\ r.totalMallocs \in Nat /\ r.mallocCalls \in Nat
       /\ r.totalAllocatedMemory \in Nat /\ r.totalFragmentations \in Nat
  BY <1>1 DEF Arenas
<1>14. /\ g \in Heaps /\ g.lists = L /\ g.capacity = h.capacity /\ g.totalMemory = h.totalMemory
       /\ g.totalFreeMemory = h.totalFreeMemory + t.size /\ g.totalBlocks = h.totalBlocks + 1
       /\ g.freeCalls = h.freeCalls + 1
  <2>1. /\ h.totalFreeMemory + t.size \in Nat /\ h.totalBlocks + 1 \in Nat
        /\ h.freeCalls + 1 \in Nat
    BY <1>2, <1>12, SMTT(30)
  <2>2. g = [h EXCEPT !.freeCalls = h.freeCalls + 1,
                      !.totalFreeMemory = h.totalFreeMemory + t.size,
                      !.totalBlocks = h.totalBlocks + 1]
    BY DEF Returns, t
  <2>. QED
    BY <1>1, <2>1, <2>2 DEF Heaps
<1>15. Added(k, g, u)
  BY <1>1, <1>5, <1>14, AddFreeBlockEffect
<1>. HIDE DEF k
<1>16. /\ k \in Heaps /\ Tidy(k.lists) /\ Adds(k.lists, L, u) /\ k.lists \in Seq(FreeList)
       /\ Len(L) <= Len(k.lists)
       /\ 1 <= Len(L) /\ Len(L) <= h.capacity => Len(k.lists) <= k.capacity
       /\ k.totalMemory = h.totalMemory
       /\ k.totalFreeMemory = h.totalFreeMemory + t.size
       /\ k.totalBlocks = h.totalBlocks + 1 /\ k.freeCalls = h.freeCalls + 1
  BY <1>14, <1>15 DEF Added, Tidy
<1>17. ASSUME NEW w, NEW c, Additive(w, c)
       PROVE  /\ Weight(k.lists, w) = Weight(L, w) + c[u] /\ w[P] = w[Q] + c[u]
              /\ Weight(L, w) \in Int /\ w[Q] \in Int /\ c[u] \in Int
  <2>1. Weight(L, w) \in Int /\ c[u] \in Int /\ Weight(k.lists, w) = Weight(L, w) + c[u]
    BY <1>1, <1>5, <1>16, <1>17, AddsWeight
  <2>2. w[P] = w[Q] + c[u] /\ w[Q] \in Int
    BY <1>5, <1>8, <1>17 DEF Additive
  <2>. QED
    BY <2>1, <2>2
<1>18. SizeOf[u] = t.size /\ OneEach[u] = 1
  BY <1>5 DEF SizeOf, OneEach
<1>19. Sizes[P] = Sizes[Q] + t.size /\ Sizes[Q] \in Nat
  <2>1. Sizes[P] = Sizes[Q] + t.size
    BY <1>17, <1>18, SizesAdditive
  <2>2. Sizes[Q] \in Nat
    BY <1>8, SizesAreNat
  <2>. QED
    BY <2>1, <2>2
<1>20. /\ s \in Arenas /\ s.blocks = B
       /\ s.totalAllocatedMemory = r.totalAllocatedMemory - t.size
       /\ s.totalMallocs = r.totalMallocs - 1 /\ s.mallocCalls = r.mallocCalls
       /\ s.totalFragmentations = r.totalFragmentations
  <2>1. r.totalAllocatedMemory - t.size \in Nat /\ r.totalMallocs - 1 \in Nat
    BY <1>2, <1>3, <1>13, <1>19
  <2>2. s = [r EXCEPT !.blocks = B, !.totalAllocatedMemory = r.totalAllocatedMemory - t.size,
                      !.totalMallocs = r.totalMallocs - 1]
    BY DEF Releases, B, t
  <2>. QED
    BY <1>1, <1>4, <2>1, <2>2 DEF Arenas
<1>21. NumberOfLists <= Len(k.lists) /\ Len(k.lists) <= k.capacity
  <2>1. /\ Len(L) \in Nat /\ Len(k.lists) \in Nat /\ NumberOfLists \in Nat
        /\ NumberOfLists <= Len(L) /\ Len(L) <= Len(k.lists)
    BY <1>1, <1>3, <1>16, ListsOf, HeapAssumption
  <2>2. 1 <= Len(L)
    BY <1>11, <2>1
  <2>. QED
    BY <1>3, <1>16, <2>1, <2>2
<1>22. Counts(k, s)
  <2>1. s.totalMallocs = Len(s.blocks)
    BY <1>3, <1>4, <1>20
  <2>2. s.totalMallocs = s.mallocCalls - k.freeCalls
    <3>. DEFINE a == r.mallocCalls
                b == h.freeCalls
    <3>1. a \in Int /\ b \in Int /\ r.totalMallocs = a - b
      BY <1>3, <1>12, <1>13
    <3>2. s.totalMallocs = r.totalMallocs - 1 /\ s.mallocCalls = a /\ k.freeCalls = b + 1
      BY <1>16, <1>20
    <3>. HIDE DEF a, b
    <3>. QED
      BY <3>1, <3>2
  <2>3. s.totalAllocatedMemory = Sizes[Placed(s.blocks)]
    BY <1>2, <1>3, <1>19, <1>20 DEF Q
  <2>4. k.totalFreeMemory = k.totalMemory - s.totalAllocatedMemory
    <3>. DEFINE a == h.totalMemory
                b == r.totalAllocatedMemory
    <3>1. a \in Int /\ b \in Int /\ t.size \in Int /\ h.totalFreeMemory = a - b
      BY <1>2, <1>3, <1>12, <1>13, SMTT(30)
    <3>2. /\ k.totalFreeMemory = h.totalFreeMemory + t.size /\ k.totalMemory = a
          /\ s.totalAllocatedMemory = b - t.size
      BY <1>16, <1>20
    <3>. HIDE DEF a, b
    <3>. QED
      BY <3>1, <3>2
  <2>5. k.totalFreeMemory >= Weight(k.lists, Sizes)
    <3>1. Weight(k.lists, Sizes) = Weight(L, Sizes) + t.size /\ Weight(L, Sizes) \in Int
      BY <1>17, <1>18, SizesAdditive
    <3>. QED
      BY <1>2, <1>3, <1>12, <1>16, <3>1
  <2>6. k.totalBlocks = Weight(k.lists, Lengths)
    <3>1. Weight(k.lists, Lengths) = Weight(L, Lengths) + 1
      BY <1>17, <1>18, LengthsAdditive
    <3>. QED
      BY <1>3, <1>16, <3>1
  <2>7. k.totalBlocks + s.totalMallocs = Cardinality(InitialBlocks) + s.totalFragmentations
    <3>. DEFINE a == h.totalBlocks
                b == r.totalMallocs
    <3>1. /\ a \in Int /\ b \in Int
          /\ a + b = Cardinality(InitialBlocks) + s.totalFragmentations
          /\ k.totalBlocks = a + 1 /\ s.totalMallocs = b - 1
      BY <1>3, <1>12, <1>13, <1>16, <1>20
    <3>. HIDE DEF a, b
    <3>2. k.totalBlocks + s.totalMallocs = a + b
      BY <3>1
    <3>. QED
      BY <3>1, <3>2
  <2>. QED
    BY <1>21, <2>1, <2>2, <2>3, <2>4, <2>5, <2>6, <2>7 DEF Counts
<1>23. Tiles(k.lists, Q)
  <2>1. ASSUME NEW x \in Memory
        PROVE  Weight(k.lists, Coverings(x)) + Coverings(x)[Q] = 1
    <3>. DEFINE w == Coverings(x)
                c == Has(x)
    <3>1. Weight(L, w) + w[P] = 1
      BY <1>1 DEF Tiles, P
    <3>2. Additive(w, c)
      BY CoveringsAdditive
    <3>. HIDE DEF w, c
    <3>3. /\ Weight(k.lists, w) = Weight(L, w) + c[u] /\ w[P] = w[Q] + c[u]
          /\ Weight(L, w) \in Int /\ w[Q] \in Int /\ c[u] \in Int
      BY <1>17, <3>2
    <3>4. Weight(k.lists, w) + w[Q] = 1
      BY <3>1, <3>3
    <3>. QED
      BY <3>4 DEF w
  <2>2. FreeOf(k.lists) = FreeOf(L) \cup {u}
    BY <1>1, <1>5, <1>16, AddsBlocks
  <2>3. \A y \in FreeOf(k.lists) \cup ToSet(Q) : Inside(y)
    BY <1>9, <1>10, <2>2
  <2>. QED
    BY <2>1, <2>3 DEF Tiles
<1>. QED
  BY <1>6, <1>7, <1>16, <1>20, <1>22, <1>23 DEF HeapOK, k, Q, u, t

\* Products keep the order.
LEMMA ProductsInOrder ==
  ASSUME NEW n \in Nat, NEW j \in Int, NEW k \in Int
  PROVE  /\ j * n \in Int /\ (j + 1) * n = j * n + n
         /\ j <= k => j * n <= k * n
         /\ j < k => (j + 1) * n <= k * n
<1>1. j * n \in Int /\ (j + 1) * n = j * n + n
  OBVIOUS
<1>2. ASSUME NEW a \in Int, a <= k
      PROVE  a * n <= k * n
  <2>1. k - a \in Nat
    BY <1>2
  <2>2. (k - a) * n \in Nat
    BY <2>1
  <2>3. k * n = a * n + (k - a) * n /\ a * n \in Int
    BY <2>1
  <2>. QED
    BY <2>2, <2>3
<1>3. j < k => j + 1 <= k /\ j + 1 \in Int
  OBVIOUS
<1>. QED
  BY <1>1, <1>2, <1>3

\* The sizes of the lists double from the first.
LEMMA BlockSizeIs ==
  /\ DOMAIN BlockSize = 1 .. NumberOfLists
  /\ \A i \in 1 .. NumberOfLists :
       BlockSize[i] = IF i = 1 THEN FirstSize ELSE 2 * BlockSize[i - 1]
<1>. DEFINE Val(F, i) == IF i = 1 THEN FirstSize ELSE 2 * F[i - 1]
            Good(m) == \E F : F = [i \in 1 .. m |-> Val(F, i)]
            Bad == {m \in Nat : ~Good(m)}
<1>1. Good(0)
  <2>. DEFINE F == [i \in 1 .. 0 |-> 0]
  <2>1. F = [i \in 1 .. 0 |-> Val(F, i)]
    OBVIOUS
  <2>. QED
    BY <2>1
<1>2. ASSUME NEW m \in Nat, m > 0, Good(m - 1)
      PROVE  Good(m)
  <2>1. PICK F : F = [i \in 1 .. m - 1 |-> Val(F, i)]
    BY <1>2
  <2>. DEFINE G == [i \in 1 .. m |-> Val(F, i)]
  <2>2. \A i \in 1 .. m : Val(G, i) = Val(F, i)
    <3>1. ASSUME NEW i \in 1 .. m, i # 1
          PROVE  G[i - 1] = F[i - 1]
      <4>1. i - 1 \in 1 .. m /\ i - 1 \in 1 .. m - 1
        BY <3>1
      <4>. HIDE DEF Val
      <4>2. F[i - 1] = Val(F, i - 1)
        <5>. HIDE DEF G
        <5>. QED
          BY <2>1, <4>1
      <4>3. G[i - 1] = Val(F, i - 1)
        BY <4>1
      <4>. QED
        BY <4>2, <4>3
    <3>. HIDE DEF G
    <3>. QED
      BY <3>1
  <2>3. G = [i \in 1 .. m |-> Val(G, i)]
    <3>1. G = [i \in 1 .. m |-> Val(F, i)]
      OBVIOUS
    <3>. HIDE DEF Val, G
    <3>. QED
      BY <2>2, <3>1
  <2>. QED
    BY <2>3
<1>. HIDE DEF Good
<1>3. Good(NumberOfLists)
  <2>1. SUFFICES ASSUME Bad # {} PROVE FALSE
    BY HeapAssumption
  <2>2. PICK m \in Bad : \A k \in Bad : m <= k
    BY <2>1, LeastExists
  <2>3. m \in Nat /\ m # 0
    BY <1>1, <2>2
  <2>4. m - 1 \in Nat /\ ~(m <= m - 1)
    BY <2>3
  <2>5. Good(m - 1)
    BY <2>2, <2>4
  <2>. QED
    BY <1>2, <2>2, <2>3, <2>5
<1>4. BlockSize = [i \in 1 .. NumberOfLists |-> Val(BlockSize, i)]
  <2>1. \E F : F = [i \in 1 .. NumberOfLists |-> Val(F, i)]
    BY <1>3 DEF Good
  <2>2. BlockSize = CHOOSE F : F = [i \in 1 .. NumberOfLists |-> Val(F, i)]
    BY DEF BlockSize
  <2>. HIDE DEF Val
  <2>. QED
    BY <2>1, <2>2
<1>. HIDE DEF BlockSize
<1>. QED
  BY <1>4

\* From list to list the size of the blocks grows.
LEMMA BlockSizeGrows ==
  /\ \A i \in 1 .. NumberOfLists : BlockSize[i] \in Nat /\ BlockSize[i] > 0
  /\ \A i, j \in 1 .. NumberOfLists : i < j => BlockSize[i] < BlockSize[j]
<1>. DEFINE N == NumberOfLists
            Good(j) == /\ BlockSize[j] \in Nat /\ BlockSize[j] > 0
                       /\ \A i \in 1 .. N : i < j => BlockSize[i] < BlockSize[j]
            Bad == {j \in 1 .. N : ~Good(j)}
<1>1. N \in Nat /\ FirstSize \in Nat /\ FirstSize > 0
  BY HeapAssumption
<1>2. \A i \in 1 .. N : BlockSize[i] = IF i = 1 THEN FirstSize ELSE 2 * BlockSize[i - 1]
  BY BlockSizeIs
<1>. HIDE DEF N
<1>3. ASSUME NEW j \in 1 .. N, \A k \in 1 .. N : k < j => Good(k)
      PROVE  Good(j)
  <2>1. CASE j = 1
    BY <1>1, <1>2, <2>1
  <2>2. CASE j # 1
    <3>1. j - 1 \in 1 .. N /\ j - 1 < j
      BY <1>1, <2>2
    <3>2. Good(j - 1) /\ BlockSize[j] = 2 * BlockSize[j - 1]
      BY <1>2, <1>3, <2>2, <3>1
    <3>3. \A i \in 1 .. N : i < j => i < j - 1 \/ i = j - 1
      BY <1>1
    <3>4. ASSUME NEW i \in 1 .. N, i < j
          PROVE  BlockSize[i] < BlockSize[j]
      <4>1. BlockSize[i] \in Nat
        BY <1>3, <3>4
      <4>. QED
        BY <3>1, <3>2, <3>3, <3>4, <4>1
    <3>. QED
      BY <3>2, <3>4
  <2>. QED
    BY <2>1, <2>2
<1>4. Bad = {}
  <2>1. SUFFICES ASSUME Bad # {} PROVE FALSE
    OBVIOUS
  <2>2. Bad \in SUBSET Nat
    BY <1>1
  <2>3. PICK j \in Bad : \A k \in Bad : j <= k
    BY <2>1, <2>2, LeastExists
  <2>4. \A k \in 1 .. N : k < j => Good(k)
    <3>1. \A k \in 1 .. N : k < j => k \notin Bad
      BY <1>1, <2>3
    <3>. QED
      BY <3>1
  <2>. QED
    BY <1>3, <2>3, <2>4
<1>. QED
  BY <1>4 DEF N

\* A list INIT_HEAP creates fits into MaximumSize bytes.
LEMMA InitialListIs ==
  ASSUME NEW i \in 1 .. NumberOfLists
  PROVE  /\ BlockSize[i] \in Nat /\ BlockSize[i] > 0
         /\ MaximumSize \div BlockSize[i] \in Nat
         /\ (MaximumSize \div BlockSize[i]) * BlockSize[i] <= MaximumSize
<1>1. BlockSize[i] \in Nat /\ BlockSize[i] > 0 /\ MaximumSize \in Nat
  BY BlockSizeGrows, HeapAssumption
<1>. DEFINE n == BlockSize[i]
            m == MaximumSize
<1>2. n \in Nat /\ n > 0 /\ m \in Nat
  BY <1>1
<1>. HIDE DEF n, m
<1>3. m \div n \in Nat /\ (m \div n) * n <= m
  BY <1>2
<1>. QED
  BY <1>1, <1>3 DEF n, m

\* Initial list i has Quota(i) blocks, from address Base(i) on.
Quota(i) == MaximumSize \div BlockSize[i]

Base(i) == StartAddress + (i - 1) * MaximumSize

InitialBlock(i, k) == Block(Base(i) + (k - 1) * BlockSize[i], BlockSize[i])

\* An initial block lies in the memory of its list, and so in the addresses.
LEMMA InitialBlockIs ==
  ASSUME NEW i \in 1 .. NumberOfLists, NEW k \in 1 .. Quota(i),
         NEW b, b = InitialBlock(i, k)
  PROVE  /\ b \in FreeBlock /\ b.size = BlockSize[i] /\ b.address = Base(i) + (k - 1) * BlockSize[i]
         /\ b.size \in Nat /\ b.size > 0 /\ b.address \in Nat /\ Base(i) \in Nat
         /\ b.address + b.size \in Addresses
         /\ Base(i) <= b.address /\ b.address + b.size <= Base(i) + MaximumSize
<1>. DEFINE n == BlockSize[i]
            q == Quota(i)
            m == MaximumSize
            x == (k - 1) * n
            y == (i - 1) * m
            z == NumberOfLists * m
<1>1. /\ n \in Nat /\ n > 0 /\ q \in Nat /\ q * n <= m /\ m \in Nat /\ NumberOfLists \in Nat
      /\ StartAddress \in Nat
  BY InitialListIs, HeapAssumption DEF Quota
<1>2. b.size = n /\ b.address = StartAddress + y + x /\ b = [address |-> b.address, size |-> b.size]
      /\ Base(i) = StartAddress + y
  BY DEF InitialBlock, Block, Base
<1>3. k - 1 \in Nat /\ k - 1 < q /\ q \in Int /\ i - 1 \in Nat /\ i - 1 < NumberOfLists
  BY <1>1
<1>4. x \in Nat /\ x + n <= m
  <2>1. x \in Nat
    BY <1>1, <1>3
  <2>2. (k - 1 + 1) * n = x + n /\ (k - 1 + 1) * n <= q * n /\ q * n \in Int
    <3>. DEFINE j == k - 1
    <3>1. j \in Int /\ q \in Int /\ j < q /\ n \in Nat
      BY <1>1, <1>3
    <3>. HIDE DEF j, q, n
    <3>2. (j + 1) * n = j * n + n /\ (j + 1) * n <= q * n /\ q * n \in Int
      BY <3>1, ProductsInOrder
    <3>. QED
      BY <3>2 DEF j
  <2>. QED
    BY <1>1, <2>1, <2>2
<1>5. y \in Nat /\ y + m <= z /\ z \in Nat
  <2>1. y \in Nat /\ z \in Nat
    BY <1>1, <1>3
  <2>2. (i - 1 + 1) * m = y + m /\ (i - 1 + 1) * m <= z
    <3>. DEFINE j == i - 1
    <3>1. j \in Int /\ j < NumberOfLists /\ m \in Nat /\ NumberOfLists \in Int
      BY <1>1, <1>3
    <3>. HIDE DEF j, m
    <3>2. (j + 1) * m = j * m + m /\ (j + 1) * m <= NumberOfLists * m
      BY <3>1, ProductsInOrder
    <3>. QED
      BY <3>2 DEF j
  <2>. QED
    BY <1>1, <2>1, <2>2
<1>6. Addresses = StartAddress .. StartAddress + z
  BY DEF Addresses
<1>. HIDE DEF x, y, z, n, m
<1>7. b.size \in 0 .. m /\ b.address \in StartAddress .. StartAddress + z
  BY <1>1, <1>2, <1>4, <1>5
<1>8. b \in FreeBlock
  BY <1>2, <1>6, <1>7 DEF FreeBlock, m
<1>9. b.address + b.size \in StartAddress .. StartAddress + z
  BY <1>1, <1>2, <1>4, <1>5
<1>10. Base(i) <= b.address /\ b.address + b.size <= Base(i) + m /\ Base(i) \in Nat
  BY <1>1, <1>2, <1>4, <1>5
<1>11. b.address \in Nat
  BY <1>1, <1>2, <1>4, <1>5
<1>12. b.address = Base(i) + x
  BY <1>2
<1>. QED
  BY <1>1, <1>2, <1>6, <1>8, <1>9, <1>10, <1>11, <1>12 DEF n, m, x

\* No two initial blocks share a byte.
LEMMA InitialBlocksDisjoint ==
  ASSUME NEW i \in 1 .. NumberOfLists, NEW k \in 1 .. Quota(i),
         NEW j \in 1 .. NumberOfLists, NEW l \in 1 .. Quota(j),
         NEW x, x \in Covers(InitialBlock(i, k)), x \in Covers(InitialBlock(j, l))
  PROVE  i = j /\ k = l
<1>. DEFINE b == InitialBlock(i, k)
            c == InitialBlock(j, l)
            m == MaximumSize
<1>1. /\ b.size = BlockSize[i] /\ b.address = Base(i) + (k - 1) * BlockSize[i]
      /\ b.size \in Nat /\ b.address \in Nat /\ Base(i) \in Nat
      /\ Base(i) <= b.address /\ b.address + b.size <= Base(i) + m
  BY InitialBlockIs
<1>2. /\ c.size = BlockSize[j] /\ c.address = Base(j) + (l - 1) * BlockSize[j]
      /\ c.size \in Nat /\ c.address \in Nat /\ Base(j) \in Nat
      /\ Base(j) <= c.address /\ c.address + c.size <= Base(j) + m
  BY InitialBlockIs
<1>3. /\ b.address <= x /\ x < b.address + b.size /\ c.address <= x /\ x < c.address + c.size
      /\ x \in Int
  <2>1. x \in b.address .. b.address + b.size - 1 /\ x \in c.address .. c.address + c.size - 1
    BY DEF Covers
  <2>. HIDE DEF b, c
  <2>. QED
    BY <1>1, <1>2, <2>1
<1>4. /\ Base(i) = StartAddress + (i - 1) * m /\ Base(j) = StartAddress + (j - 1) * m
      /\ StartAddress \in Nat /\ m \in Nat /\ NumberOfLists \in Nat
  BY HeapAssumption DEF Base
<1>. HIDE DEF b, c, m
<1>5. ASSUME NEW p \in Int, NEW q \in Int, p < q
      PROVE  p * m + m <= q * m /\ p * m \in Int /\ q * m \in Int
  BY <1>4, <1>5, ProductsInOrder
<1>6. i - 1 \in Int /\ j - 1 \in Int
  BY <1>4
<1>. DEFINE u == (i - 1) * m
            v == (j - 1) * m
<1>7. u \in Int /\ v \in Int /\ (i < j => u + m <= v) /\ (j < i => v + m <= u)
  <2>1. u \in Int /\ v \in Int
    BY <1>4, <1>6
  <2>2. i < j => i - 1 < j - 1
    BY <1>4
  <2>3. j < i => j - 1 < i - 1
    BY <1>4
  <2>. HIDE DEF u, v
  <2>. QED
    BY <1>5, <1>6, <2>1, <2>2, <2>3 DEF u, v
<1>. HIDE DEF u, v
<1>8. i = j
  <2>1. Base(i) = StartAddress + u /\ Base(j) = StartAddress + v
    BY <1>4 DEF u, v
  <2>2. ~(i < j)
    BY <1>1, <1>2, <1>3, <1>4, <1>7, <2>1
  <2>3. ~(j < i)
    BY <1>1, <1>2, <1>3, <1>4, <1>7, <2>1
  <2>. QED
    BY <1>4, <2>2, <2>3
<1>9. k = l
  <2>. DEFINE n == BlockSize[i]
              y == (k - 1) * n
              z == (l - 1) * n
  <2>1. n \in Nat /\ Quota(i) \in Nat /\ b.size = n /\ c.size = n
        /\ b.address = Base(i) + y /\ c.address = Base(i) + z
    BY <1>1, <1>2, <1>8, InitialListIs DEF Quota
  <2>2. k - 1 \in Int /\ l - 1 \in Int /\ (k < l => k - 1 < l - 1) /\ (l < k => l - 1 < k - 1)
    BY <1>8, <2>1
  <2>. HIDE DEF n
  <2>3. ASSUME NEW p \in Int, NEW q \in Int, p < q
        PROVE  p * n + n <= q * n
    BY <2>1, <2>3, ProductsInOrder
  <2>4. y \in Int /\ z \in Int
    BY <2>1, <2>2
  <2>5. (k < l => y + n <= z) /\ (l < k => z + n <= y)
    <3>. HIDE DEF y, z
    <3>. QED
      BY <2>2, <2>3 DEF y, z
  <2>. HIDE DEF y, z
  <2>6. ~(k < l)
    BY <1>1, <1>2, <1>3, <2>1, <2>4, <2>5
  <2>7. ~(l < k)
    BY <1>1, <1>2, <1>3, <2>1, <2>4, <2>5
  <2>. QED
    BY <1>8, <2>1, <2>6, <2>7
<1>. QED
  BY <1>8, <1>9

\* What the lists are that INIT_HEAP creates.
LEMMA InitialListsAre ==
  /\ InitialLists \in Seq(FreeList) /\ Len(InitialLists) = NumberOfLists /\ Tidy(InitialLists)
  /\ \A i \in 1 .. NumberOfLists :
       /\ InitialLists[i].blocks \in Seq(FreeBlock) /\ Len(InitialLists[i].blocks) = Quota(i)
       /\ InitialLists[i].numberOfBlocks = Quota(i) /\ Quota(i) \in Nat
       /\ \A k \in 1 .. Quota(i) : InitialLists[i].blocks[k] = InitialBlock(i, k)
<1>. DEFINE N == NumberOfLists
            L == InitialLists
<1>1. N \in Nat /\ DOMAIN L = 1 .. N /\ L = [i \in 1 .. N |-> L[i]]
  BY HeapAssumption DEF InitialLists
<1>2. ASSUME NEW i \in 1 .. N
      PROVE  /\ L[i] \in FreeList /\ ListOK(L[i]) /\ L[i].size = BlockSize[i]
             /\ L[i].blocks \in Seq(FreeBlock) /\ Len(L[i].blocks) = Quota(i)
             /\ L[i].numberOfBlocks = Quota(i) /\ Quota(i) \in Nat
             /\ \A k \in 1 .. Quota(i) : L[i].blocks[k] = InitialBlock(i, k)
  <2>. DEFINE s == [k \in 1 .. Quota(i) |-> InitialBlock(i, k)]
  <2>1. L[i] = [size |-> BlockSize[i], numberOfBlocks |-> Quota(i), blocks |-> s]
    BY DEF InitialLists, InitialList, InitialBlock, Quota, Base
  <2>2. BlockSize[i] \in Nat /\ Quota(i) \in Nat
    BY InitialListIs DEF Quota
  <2>3. \A k \in 1 .. Quota(i) : s[k] = InitialBlock(i, k)
    OBVIOUS
  <2>4. s \in [1 .. Quota(i) -> FreeBlock]
    <3>1. \A k \in 1 .. Quota(i) : InitialBlock(i, k) \in FreeBlock
      BY InitialBlockIs
    <3>. QED
      BY <3>1
  <2>. HIDE DEF s, L
  <2>5. s \in Seq(FreeBlock) /\ Len(s) = Quota(i)
    <3>1. s \in Seq(FreeBlock)
      BY <2>2, <2>4
    <3>2. DOMAIN s = 1 .. Quota(i)
      BY <2>4
    <3>. QED
      BY <2>2, <3>1, <3>2, LenProperties
  <2>6. L[i].size = BlockSize[i] /\ L[i].numberOfBlocks = Quota(i) /\ L[i].blocks = s
    BY <2>1
  <2>7. L[i] \in FreeList
    BY <2>1, <2>2, <2>5 DEF FreeList
  <2>8. ByAddress(s)
    <3>. SUFFICES ASSUME NEW j \in 1 .. Quota(i), NEW k \in 1 .. Quota(i), j < k
                  PROVE  s[j].address <= s[k].address
      BY <2>5 DEF ByAddress
    <3>. DEFINE n == BlockSize[i]
                y == (j - 1) * n
                z == (k - 1) * n
    <3>1. /\ s[j].address = Base(i) + y /\ s[k].address = Base(i) + z /\ Base(i) \in Nat
      BY <2>3, InitialBlockIs
    <3>2. j - 1 \in Int /\ k - 1 \in Int /\ j - 1 <= k - 1 /\ n \in Nat
      BY <2>2
    <3>. HIDE DEF n
    <3>3. y \in Int /\ z \in Int /\ y <= z
      <4>. DEFINE p == j - 1
                  q == k - 1
      <4>1. p \in Int /\ q \in Int /\ p <= q
        BY <3>2
      <4>. HIDE DEF p, q
      <4>2. p * n \in Int /\ q * n \in Int /\ p * n <= q * n
        BY <3>2, <4>1, ProductsInOrder
      <4>. QED
        BY <4>2 DEF p, q
    <3>. HIDE DEF y, z
    <3>. QED
      BY <3>1, <3>3
  <2>9. \A k \in 1 .. Len(s) : s[k].size = BlockSize[i]
    BY <2>3, <2>5, InitialBlockIs
  <2>10. ListOK(L[i])
    BY <2>5, <2>6, <2>8, <2>9 DEF ListOK
  <2>. QED
    BY <2>2, <2>3, <2>5, <2>6, <2>7, <2>10
<1>. HIDE DEF L, N
<1>3. L \in Seq(FreeList) /\ Len(L) = N
  <2>1. L \in [1 .. N -> FreeList]
    BY <1>1, <1>2
  <2>2. L \in Seq(FreeList)
    BY <1>1, <2>1
  <2>. QED
    BY <1>1, <2>2, LenProperties
<1>4. BySize(L)
  <2>1. \A i, j \in 1 .. N : i < j => BlockSize[i] < BlockSize[j]
    BY BlockSizeGrows DEF N
  <2>. QED
    BY <1>2, <1>3, <2>1 DEF BySize
<1>5. Tidy(L)
  BY <1>2, <1>3, <1>4 DEF Tidy
<1>. QED
  BY <1>2, <1>3, <1>5 DEF L, N

\* The blocks INIT_HEAP creates.
LEMMA InitialBlocksAre ==
  /\ FreeOf(InitialLists) = InitialBlocks
  /\ \A c \in InitialBlocks :
       \E i \in 1 .. NumberOfLists : \E k \in 1 .. Quota(i) : c = InitialBlock(i, k)
  /\ \A i \in 1 .. NumberOfLists : \A k \in 1 .. Quota(i) : InitialBlock(i, k) \in InitialBlocks
<1>. DEFINE L == InitialLists
            N == NumberOfLists
<1>1. /\ DOMAIN L = 1 .. N /\ Len(L) = N
      /\ \A i \in 1 .. N :
           /\ L[i].blocks \in Seq(FreeBlock) /\ Len(L[i].blocks) = Quota(i)
           /\ \A k \in 1 .. Quota(i) : L[i].blocks[k] = InitialBlock(i, k)
  BY InitialListsAre, ListsOf
<1>2. \A i \in 1 .. N : /\ BlocksIn(L[i]) = {InitialBlock(i, k) : k \in 1 .. Quota(i)}
                        /\ ToSet(L[i].blocks) = {InitialBlock(i, k) : k \in 1 .. Quota(i)}
  <2>. SUFFICES ASSUME NEW i \in 1 .. N
                PROVE  /\ BlocksIn(L[i]) = {InitialBlock(i, k) : k \in 1 .. Quota(i)}
                       /\ ToSet(L[i].blocks) = {InitialBlock(i, k) : k \in 1 .. Quota(i)}
    OBVIOUS
  <2>. DEFINE s == L[i].blocks
  <2>1. s \in Seq(FreeBlock) /\ Len(s) = Quota(i) /\ \A k \in 1 .. Quota(i) : s[k] = InitialBlock(i, k)
    BY <1>1
  <2>2. DOMAIN s = 1 .. Len(s) /\ ToSet(s) = {s[k] : k \in 1 .. Len(s)}
    BY <2>1, IndicesOfSeq
  <2>3. BlocksIn(L[i]) = {s[k] : k \in DOMAIN s}
    BY DEF BlocksIn
  <2>. HIDE DEF s
  <2>4. {s[k] : k \in 1 .. Len(s)} = {InitialBlock(i, k) : k \in 1 .. Quota(i)}
    BY <2>1
  <2>5. BlocksIn(L[i]) = {InitialBlock(i, k) : k \in 1 .. Quota(i)}
    BY <2>2, <2>3, <2>4
  <2>6. ToSet(s) = {InitialBlock(i, k) : k \in 1 .. Quota(i)}
    BY <2>2, <2>4
  <2>. QED
    BY <2>5, <2>6 DEF s
<1>3. /\ InitialBlocks = UNION {BlocksIn(L[i]) : i \in 1 .. N}
      /\ FreeOf(L) = UNION {ToSet(L[i].blocks) : i \in 1 .. N}
  BY <1>1 DEF InitialBlocks, FreeOf
<1>. HIDE DEF L, N
<1>4. FreeOf(L) = InitialBlocks
  BY <1>2, <1>3
<1>5. InitialBlocks = UNION {{InitialBlock(i, k) : k \in 1 .. Quota(i)} : i \in 1 .. N}
  BY <1>2, <1>3
<1>. QED
  BY <1>4, <1>5 DEF L, N

\* There are as many initial blocks as the initial lists have: none is in two
\* places, for no two share a byte and none is empty.
LEMMA InitialBlocksCount ==
  /\ IsFiniteSet(InitialBlocks)
  /\ Cardinality(InitialBlocks) = Weight(InitialLists, Lengths)
<1>. DEFINE N == NumberOfLists
            L == InitialLists
            f == [i \in 1 .. N |-> Lengths[L[i].blocks]]
            Upto(m) == UNION {ToSet(L[i].blocks) : i \in 1 .. m}
            Good(m) == /\ IsFiniteSet(Upto(m))
                       /\ Cardinality(Upto(m)) = SumOver(f, 1 .. m)
            Bad == {m \in 0 .. N : ~Good(m)}
<1>1. N \in Nat
  BY HeapAssumption
<1>2. /\ Len(L) = N
      /\ \A i \in 1 .. N :
           /\ L[i].blocks \in Seq(FreeBlock) /\ Len(L[i].blocks) = Quota(i) /\ Quota(i) \in Nat
           /\ \A k \in 1 .. Quota(i) : L[i].blocks[k] = InitialBlock(i, k)
  BY InitialListsAre
<1>3. \A i \in 1 .. N : f[i] = Quota(i) /\ f[i] \in Int
  BY <1>2 DEF Lengths
<1>4. FreeOf(L) = Upto(N) /\ Weight(L, Lengths) = SumOver(f, 1 .. N)
  BY <1>2 DEF FreeOf, Weight
<1>5. \A i, j \in 1 .. N : \A k \in 1 .. Quota(i), l \in 1 .. Quota(j) :
         InitialBlock(i, k) = InitialBlock(j, l) => i = j /\ k = l
  <2>. SUFFICES ASSUME NEW i \in 1 .. N, NEW j \in 1 .. N, NEW k \in 1 .. Quota(i),
                       NEW l \in 1 .. Quota(j), InitialBlock(i, k) = InitialBlock(j, l)
                PROVE  i = j /\ k = l
    OBVIOUS
  <2>. DEFINE b == InitialBlock(i, k)
  <2>1. b.size \in Nat /\ b.size > 0 /\ b.address \in Nat
    BY InitialBlockIs
  <2>. HIDE DEF b
  <2>2. b.address \in Covers(b)
    BY <2>1 DEF Covers
  <2>. QED
    BY <2>2, InitialBlocksDisjoint DEF b
<1>. HIDE DEF f, L, N
<1>6. ASSUME NEW i \in 1 .. N
      PROVE  /\ IsFiniteSet(ToSet(L[i].blocks)) /\ Cardinality(ToSet(L[i].blocks)) = f[i]
             /\ ToSet(L[i].blocks) = {InitialBlock(i, k) : k \in 1 .. Quota(i)}
  <2>. DEFINE s == L[i].blocks
  <2>1. s \in Seq(FreeBlock) /\ Len(s) = Quota(i) /\ \A k \in 1 .. Quota(i) : s[k] = InitialBlock(i, k)
    BY <1>2
  <2>2. DOMAIN s = 1 .. Len(s) /\ ToSet(s) = {s[k] : k \in 1 .. Len(s)}
    BY <2>1, IndicesOfSeq
  <2>. HIDE DEF s
  <2>3. IsInjective(s)
    BY <1>5, <2>1, <2>2 DEF IsInjective
  <2>4. IsFiniteSet(ToSet(s)) /\ Cardinality(ToSet(s)) = Len(s)
    BY <2>1, <2>3, InjectiveLength
  <2>5. ToSet(s) = {InitialBlock(i, k) : k \in 1 .. Quota(i)}
    BY <2>1, <2>2
  <2>. QED
    BY <1>3, <2>1, <2>4, <2>5 DEF s
<1>. DEFINE S(i) == ToSet(L[i].blocks)
<1>7. Good(0)
  <2>1. Upto(0) = {} /\ 1 .. 0 = {}
    OBVIOUS
  <2>. QED
    BY <2>1, FS_EmptySet, SumOverEmpty
<1>8. ASSUME NEW m \in 1 .. N, Good(m - 1)
      PROVE  Good(m)
  <2>1. m \in Nat /\ m - 1 \in Nat /\ \A i \in 1 .. m - 1 : i \in 1 .. N /\ i # m
    BY <1>1
  <2>2. 1 .. m = (1 .. m - 1) \cup {m} /\ m \notin 1 .. m - 1
    BY <2>1
  <2>3. Upto(m) = Upto(m - 1) \cup S(m)
    BY <2>2
  <2>4. Upto(m - 1) \cap S(m) = {}
    <3>1. ASSUME NEW i \in 1 .. m - 1, NEW x, x \in S(i), x \in S(m)
          PROVE  FALSE
      <4>1. i \in 1 .. N /\ i # m
        BY <2>1
      <4>2. PICK k \in 1 .. Quota(i) : x = InitialBlock(i, k)
        BY <1>6, <3>1, <4>1
      <4>3. PICK l \in 1 .. Quota(m) : x = InitialBlock(m, l)
        BY <1>6, <3>1
      <4>4. InitialBlock(i, k) = InitialBlock(m, l)
        BY <4>2, <4>3
      <4>5. i = m
        BY <1>5, <4>1, <4>4
      <4>. QED
        BY <4>1, <4>5
    <3>. QED
      BY <3>1
  <2>5. IsFiniteSet(Upto(m)) /\ Cardinality(Upto(m)) = Cardinality(Upto(m - 1)) + f[m]
    <3>. DEFINE A == Upto(m - 1)
                B == S(m)
    <3>1. IsFiniteSet(A) /\ IsFiniteSet(B) /\ A \cap B = {} /\ Cardinality(B) = f[m]
      BY <1>6, <1>8, <2>4
    <3>. HIDE DEF A, B
    <3>2. /\ IsFiniteSet(A \cup B)
          /\ Cardinality(A \cup B) = Cardinality(A) + Cardinality(B) - Cardinality(A \cap B)
          /\ Cardinality(A) \in Nat /\ Cardinality(B) \in Nat
      BY <3>1, FS_Union, FS_CardinalityType
    <3>3. Cardinality(A \cap B) = 0
      BY <3>1, FS_EmptySet
    <3>4. Cardinality(A \cup B) = Cardinality(A) + Cardinality(B)
      BY <3>2, <3>3
    <3>. QED
      BY <2>3, <3>1, <3>2, <3>4 DEF A, B
  <2>6. SumOver(f, 1 .. m) = SumOver(f, 1 .. m - 1) + f[m]
    <3>. DEFINE A == 1 .. m - 1
    <3>1. IsFiniteSet(A)
      BY <2>1, FS_Interval
    <3>2. m \notin A /\ \A x \in A \cup {m} : f[x] \in Int
      BY <1>3, <2>1, <2>2
    <3>. HIDE DEF A
    <3>3. SumOver(f, A \cup {m}) = SumOver(f, A) + f[m]
      BY <3>1, <3>2, SumOverAdd
    <3>. QED
      BY <2>2, <3>3 DEF A
  <2>. QED
    BY <1>8, <2>5, <2>6
<1>. HIDE DEF Good
<1>9. Good(N)
  <2>1. SUFFICES ASSUME Bad # {} PROVE FALSE
    BY <1>1
  <2>2. Bad \in SUBSET Nat
    BY <1>1
  <2>3. PICK m \in Bad : \A k \in Bad : m <= k
    BY <2>1, <2>2, LeastExists
  <2>4. m \in 0 .. N /\ m # 0 /\ ~Good(m)
    BY <1>7, <2>3
  <2>5. m \in 1 .. N /\ m - 1 \in 0 .. N /\ ~(m <= m - 1)
    BY <1>1, <2>4
  <2>6. Good(m - 1)
    BY <2>3, <2>5
  <2>. QED
    BY <1>8, <2>4, <2>5, <2>6
<1>. QED
  BY <1>4, <1>9, InitialBlocksAre DEF Good, L

\* INIT_HEAP's blocks end within the memory.
LEMMA InitialBlocksAreOK == InitialBlocksOK
<1>1. ASSUME NEW c \in InitialBlocks
      PROVE  /\ c.address + c.size \in Addresses /\ c.size \in Nat /\ c.address \in Nat
             /\ c.size > 0 /\ NumberOfLists >= 1
  <2>1. PICK i \in 1 .. NumberOfLists : \E k \in 1 .. Quota(i) : c = InitialBlock(i, k)
    BY InitialBlocksAre
  <2>2. PICK k \in 1 .. Quota(i) : c = InitialBlock(i, k)
    BY <2>1
  <2>3. NumberOfLists >= 1
    BY HeapAssumption
  <2>. QED
    BY <2>2, <2>3, InitialBlockIs
<1>. QED
  BY <1>1, InitialBlocksCount DEF InitialBlocksOK

\* Every byte of the memory is in one initial block.
LEMMA InitialTiles == Tiles(InitialLists, <<>>)
<1>. DEFINE N == NumberOfLists
            L == InitialLists
<1>1. N \in Nat /\ IsFiniteSet(1 .. N)
  BY HeapAssumption, FS_Interval
<1>2. /\ Len(L) = N
      /\ \A i \in 1 .. N :
           /\ L[i].blocks \in Seq(FreeBlock) /\ Len(L[i].blocks) = Quota(i) /\ Quota(i) \in Nat
           /\ \A k \in 1 .. Quota(i) : L[i].blocks[k] = InitialBlock(i, k)
  BY InitialListsAre
<1>3. ASSUME NEW x \in Memory
      PROVE  Weight(L, Coverings(x)) + Coverings(x)[<<>>] = 1
  <2>1. PICK i \in 1 .. N : \E k \in 1 .. Quota(i) : x \in Covers(InitialBlock(i, k))
    BY InitialBlocksAre DEF Memory
  <2>2. PICK k \in 1 .. Quota(i) : x \in Covers(InitialBlock(i, k))
    BY <2>1
  <2>. DEFINE f == [j \in 1 .. N |-> Coverings(x)[L[j].blocks]]
  <2>3. \A j \in 1 .. N : f[j] = Cardinality({l \in 1 .. Quota(j) : x \in Covers(InitialBlock(j, l))})
    <3>. SUFFICES ASSUME NEW j \in 1 .. N
                  PROVE  f[j] = Cardinality({l \in 1 .. Quota(j) : x \in Covers(InitialBlock(j, l))})
      OBVIOUS
    <3>. DEFINE s == L[j].blocks
    <3>1. /\ s \in Seq(FreeBlock) /\ Len(s) = Quota(j)
          /\ \A l \in 1 .. Quota(j) : s[l] = InitialBlock(j, l)
      BY <1>2
    <3>2. f[j] = Coverings(x)[s]
      OBVIOUS
    <3>. HIDE DEF s, f
    <3>3. DOMAIN s = 1 .. Quota(j)
      BY <3>1, BlocksOf
    <3>4. Coverings(x)[s] = Cardinality({l \in DOMAIN s : x \in Covers(s[l])})
      BY <3>1 DEF Coverings, Covering
    <3>5. {l \in DOMAIN s : x \in Covers(s[l])} = {l \in 1 .. Quota(j) : x \in Covers(InitialBlock(j, l))}
      BY <3>1, <3>3
    <3>. QED
      BY <3>2, <3>4, <3>5
  <2>4. Weight(L, Coverings(x)) = SumOver(f, 1 .. N)
    BY <1>2 DEF Weight
  <2>. HIDE DEF f, L, N
  <2>5. \A j \in 1 .. N : f[j] = IF j \in {i} THEN 1 ELSE 0
    <3>. SUFFICES ASSUME NEW j \in 1 .. N PROVE f[j] = IF j \in {i} THEN 1 ELSE 0
      OBVIOUS
    <3>. DEFINE Q == {l \in 1 .. Quota(j) : x \in Covers(InitialBlock(j, l))}
    <3>1. \A l \in Q : j = i /\ l = k
      BY <2>2, InitialBlocksDisjoint DEF N
    <3>2. CASE j = i
      <4>1. Q = {k}
        BY <2>2, <3>1, <3>2
      <4>2. Cardinality({k}) = 1
        BY FS_Singleton
      <4>. QED
        BY <2>3, <3>2, <4>1, <4>2
    <3>3. CASE j # i
      <4>1. Q = {}
        BY <3>1, <3>3
      <4>2. Cardinality({}) = 0
        BY FS_EmptySet
      <4>. QED
        BY <2>3, <3>3, <4>1, <4>2
    <3>. QED
      BY <3>2, <3>3
  <2>6. Cardinality({i}) = SumOver(f, 1 .. N)
    <3>. DEFINE S == 1 .. N
                Q == {i}
    <3>1. IsFiniteSet(S) /\ Q \in SUBSET S /\ \A j \in S : f[j] = IF j \in Q THEN 1 ELSE 0
      BY <1>1, <2>5
    <3>. HIDE DEF S, Q
    <3>2. Cardinality(Q) = SumOver(f, S)
      BY <3>1, CountIsSum
    <3>. QED
      BY <3>2 DEF S, Q
  <2>7. Cardinality({i}) = 1
    BY FS_Singleton
  <2>8. Coverings(x)[<<>>] = 0
    BY CoveringsAdditive DEF Additive
  <2>. QED
    BY <2>4, <2>6, <2>7, <2>8
<1>4. ASSUME NEW b \in FreeOf(L) \cup ToSet(<<>>)
      PROVE  Inside(b)
  <2>1. ToSet(<<>>) = {}
    BY DEF ToSet
  <2>. QED
    BY <2>1, InitialBlocksAre DEF Inside
<1>. QED
  BY <1>3, <1>4 DEF Tiles

\* No list has more bytes in its blocks than MaximumSize.
LEMMA InitialSizes == Weight(InitialLists, Sizes) <= NumberOfLists * MaximumSize
<1>. DEFINE N == NumberOfLists
            L == InitialLists
            m == MaximumSize
            f == [i \in 1 .. N |-> Sizes[L[i].blocks]]
            g == [i \in 1 .. N |-> m]
<1>1. N \in Nat /\ m \in Nat /\ IsFiniteSet(1 .. N) /\ Cardinality(1 .. N) = N
  <2>1. N \in Nat /\ m \in Nat
    BY HeapAssumption
  <2>2. 1 \in Int /\ N \in Int
    BY <2>1
  <2>. HIDE DEF N
  <2>3. IsFiniteSet(1 .. N) /\ Cardinality(1 .. N) = IF 1 > N THEN 0 ELSE N - 1 + 1
    BY <2>2, FS_Interval
  <2>. QED
    BY <2>1, <2>3
<1>2. Weight(L, Sizes) = SumOver(f, 1 .. N)
  BY InitialListsAre DEF Weight
<1>3. ASSUME NEW i \in 1 .. N
      PROVE  f[i] \in Int /\ f[i] <= m
  <2>. DEFINE s == L[i].blocks
              n == BlockSize[i]
              q == Quota(i)
              h == [k \in 1 .. Len(s) |-> s[k].size]
  <2>1. /\ s \in Seq(FreeBlock) /\ Len(s) = q /\ q \in Nat /\ n \in Int
        /\ \A k \in 1 .. q : s[k].size = n
        /\ q * n <= m
    <3>1. /\ s \in Seq(FreeBlock) /\ Len(s) = q /\ q \in Nat
          /\ \A k \in 1 .. q : s[k] = InitialBlock(i, k)
      BY InitialListsAre
    <3>2. \A k \in 1 .. q : InitialBlock(i, k).size = n
      BY InitialBlockIs
    <3>3. n \in Int /\ q * n <= m
      BY InitialListIs DEF Quota
    <3>. QED
      BY <3>1, <3>2, <3>3
  <2>2. f[i] = Sizes[s]
    OBVIOUS
  <2>. HIDE DEF s, n, q, f
  <2>3. Sizes[s] = SumOver(h, 1 .. q)
    BY <2>1 DEF Sizes
  <2>4. \A k \in 1 .. q : h[k] = n
    BY <2>1
  <2>. HIDE DEF h
  <2>5. IsFiniteSet(1 .. q) /\ Cardinality(1 .. q) = q
    <3>1. 1 \in Int /\ q \in Int
      BY <2>1
    <3>2. IsFiniteSet(1 .. q) /\ Cardinality(1 .. q) = IF 1 > q THEN 0 ELSE q - 1 + 1
      BY <3>1, FS_Interval
    <3>. QED
      BY <2>1, <3>2
  <2>6. SumOver(h, 1 .. q) = n * q
    <3>. DEFINE S == 1 .. q
    <3>1. IsFiniteSet(S) /\ Cardinality(S) = q /\ \A k \in S : h[k] = n
      BY <2>4, <2>5
    <3>. HIDE DEF S
    <3>2. SumOver(h, S) = n * Cardinality(S)
      BY <2>1, <3>1, SumOverConstant
    <3>. QED
      BY <3>1, <3>2 DEF S
  <2>7. n * q = q * n /\ q * n \in Int
    BY <2>1
  <2>. QED
    BY <2>1, <2>2, <2>3, <2>6, <2>7
<1>4. \A i \in 1 .. N : g[i] = m
  OBVIOUS
<1>. HIDE DEF f, g, N, m, L
<1>. DEFINE S == 1 .. N
<1>5. IsFiniteSet(S) /\ Cardinality(S) = N /\ \A i \in S : g[i] = m
  BY <1>1, <1>4
<1>6. \A i \in S : f[i] \in Int /\ g[i] \in Int /\ f[i] <= g[i]
  BY <1>1, <1>3, <1>4
<1>. HIDE DEF S
<1>7. SumOver(g, S) = m * Cardinality(S)
  BY <1>1, <1>5, SumOverConstant, SMTT(30)
<1>8. SumOver(f, S) <= SumOver(g, S)
  BY <1>5, <1>6, SumOverAtMost
<1>9. m * N = N * m
  BY <1>1
<1>. QED
  BY <1>2, <1>5, <1>7, <1>8, <1>9 DEF S, L, N, m

\* INIT_HEAP puts the heap in order.
LEMMA InitialHeapOK == HeapOK(InitialHeap, InitialArena)
<1>. DEFINE L == InitialLists
            z == NumberOfLists * MaximumSize
            k == SumFunction([i \in 1 .. NumberOfLists |-> InitialLists[i].numberOfBlocks])
<1>1. /\ L \in Seq(FreeList) /\ Len(L) = NumberOfLists /\ Tidy(L) /\ DOMAIN L = 1 .. NumberOfLists
      /\ \A i \in 1 .. NumberOfLists : L[i].numberOfBlocks = Len(L[i].blocks)
  BY InitialListsAre, ListsOf
<1>2. z \in Nat /\ NumberOfLists \in Nat
  BY HeapAssumption
<1>3. k = Weight(L, Lengths) /\ k \in Nat
  <2>. DEFINE f == [i \in 1 .. NumberOfLists |-> InitialLists[i].numberOfBlocks]
              g == [i \in DOMAIN L |-> Len(L[i].blocks)]
  <2>1. f = g
    BY <1>1
  <2>2. Weight(L, Lengths) = SumFunction(g)
    BY <1>1, ListMeasures
  <2>3. Weight(L, Lengths) \in Nat
    BY <1>1, WeightIsNat
  <2>. QED
    BY <2>1, <2>2, <2>3
<1>4. /\ InitialHeap.lists = L /\ InitialHeap.totalMemory = z /\ InitialHeap.totalFreeMemory = z
      /\ InitialHeap.totalBlocks = k /\ InitialHeap.capacity = NumberOfLists
      /\ InitialHeap.freeCalls = 0
      /\ InitialHeap = [lists |-> L, totalMemory |-> z, totalFreeMemory |-> z, totalBlocks |-> k,
                        capacity |-> NumberOfLists, freeCalls |-> 0]
  BY DEF InitialHeap
<1>. HIDE DEF L, z, k
<1>5. InitialHeap \in Heaps
  BY <1>1, <1>2, <1>3, <1>4 DEF Heaps, FreeList
<1>6. InitialArena \in Arenas
  BY DEF InitialArena, Arenas
<1>7. /\ InitialArena.blocks = <<>> /\ InitialArena.totalAllocatedMemory = 0
      /\ InitialArena.totalMallocs = 0 /\ InitialArena.mallocCalls = 0
      /\ InitialArena.totalFragmentations = 0
  BY DEF InitialArena
<1>8. Fitted(<<>>) /\ ByAddress(<<>>) /\ Placed(<<>>) = <<>> /\ Sizes[<<>>] = 0
  <2>1. Fitted(<<>>)
    BY DEF Fitted
  <2>2. ByAddress(<<>>)
    BY DEF ByAddress
  <2>3. Placed(<<>>) = <<>>
    BY <2>1, PlacedOf, EmptySeq
  <2>4. Sizes[<<>>] = 0
    BY SizesAdditive DEF Additive
  <2>. QED
    BY <2>1, <2>2, <2>3, <2>4
<1>9. Cardinality(InitialBlocks) = k /\ Weight(L, Sizes) <= z
  BY <1>3, InitialBlocksCount, InitialSizes DEF L, z
<1>10. Counts(InitialHeap, InitialArena)
  BY <1>1, <1>2, <1>3, <1>4, <1>7, <1>8, <1>9 DEF Counts
<1>11. Tiles(L, <<>>)
  BY InitialTiles DEF L
<1>. QED
  BY <1>1, <1>4, <1>5, <1>6, <1>7, <1>8, <1>10, <1>11 DEF HeapOK

\* What MALLOC looks for: the first fitting block of the smallest fitting size.
BestFit(L, b, n) ==
  /\ b \in FreeOf(L) /\ b.size >= n
  /\ \A c \in FreeOf(L) : c.size >= n => ~Better(c, b)

\* First fit through lists sorted by size, each sorted by address, is best fit.
LEMMA FirstFitIsBest ==
  ASSUME NEW h, Tidy(h.lists), NEW n \in Nat
  PROVE  /\ FirstFit(h, n).list = 0 => \A b \in FreeOf(h.lists) : ~(b.size >= n)
         /\ FirstFit(h, n).list # 0 =>
              \E b \in FreeBlock :
                /\ b = h.lists[FirstFit(h, n).list].blocks[FirstFit(h, n).block]
                /\ FoundAt(h, b, FirstFit(h, n).list, FirstFit(h, n).block)
                /\ BestFit(h.lists, b, n)
<1>. DEFINE L == h.lists
            I == {i \in 1 .. Len(L) : \E b \in ToSet(L[i].blocks) : Fits(n, b)}
            i == IF I # {} THEN Min(I) ELSE 0
            J == {j \in 1 .. Len(L[i].blocks) : Fits(n, L[i].blocks[j])}
            j == IF J # {} THEN Min(J) ELSE 0
            f == FirstFit(h, n)
<1>1. /\ L \in Seq(FreeList) /\ BySize(L) /\ Len(L) \in Nat
      /\ \A k \in 1 .. Len(L) : /\ ListOK(L[k]) /\ L[k].blocks \in Seq(FreeBlock)
                                /\ L[k].size \in Nat
  BY ListsOf DEF Tidy
<1>2. f.list = i
  BY DEF FirstFit, SelectInSeq
<1>3. i # 0 => f.block = j
  BY DEF FirstFit, SelectInSeq
<1>4. ASSUME NEW c \in FreeOf(L)
      PROVE  \E k \in 1 .. Len(L) : \E m \in 1 .. Len(L[k].blocks) :
               /\ c = L[k].blocks[m] /\ c \in ToSet(L[k].blocks) /\ c.size = L[k].size
               /\ c \in FreeBlock
  <2>1. PICK k \in 1 .. Len(L) : c \in ToSet(L[k].blocks)
    BY DEF FreeOf
  <2>2. L[k].blocks \in Seq(FreeBlock)
    BY <1>1
  <2>3. PICK m \in 1 .. Len(L[k].blocks) : c = L[k].blocks[m]
    BY <2>1, <2>2, IndicesOfSeq
  <2>4. c.size = L[k].size
    BY <1>1, <2>3 DEF ListOK
  <2>5. c \in FreeBlock
    BY <2>2, <2>3, BlocksOf
  <2>. QED
    BY <2>1, <2>3, <2>4, <2>5
<1>5. CASE I = {}
  <2>1. ASSUME NEW b \in FreeOf(L)
        PROVE  ~(b.size >= n)
    <3>1. PICK k \in 1 .. Len(L) : b \in ToSet(L[k].blocks)
      BY DEF FreeOf
    <3>2. ~Fits(n, b)
      BY <1>5, <3>1
    <3>. QED
      BY <3>2 DEF Fits
  <2>2. i = 0
    BY <1>5
  <2>. QED
    BY <1>2, <2>1, <2>2
<1>6. CASE I # {}
  <2>1. I \in SUBSET Nat /\ i = Min(I)
    BY <1>1, <1>6
  <2>2. i \in I /\ \A k \in I : i <= k
    BY <1>6, <2>1, MinIsLeast
  <2>. HIDE DEF i
  <2>3. i \in 1 .. Len(L) /\ i # 0 /\ \E b \in ToSet(L[i].blocks) : Fits(n, b)
    BY <1>1, <2>2
  <2>. DEFINE s == L[i].blocks
  <2>4. /\ s \in Seq(FreeBlock) /\ Len(s) \in Nat /\ ByAddress(s)
        /\ \A m \in 1 .. Len(s) : s[m].size = L[i].size /\ s[m] \in FreeBlock /\ s[m].address \in Nat
        /\ L[i].size \in Nat
    <3>1. s \in Seq(FreeBlock) /\ ListOK(L[i]) /\ L[i].size \in Nat
      BY <1>1, <2>3
    <3>. QED
      BY <3>1, BlocksOf DEF ListOK
  <2>5. PICK m \in 1 .. Len(s) : Fits(n, s[m])
    BY <2>3, <2>4, IndicesOfSeq
  <2>6. J # {} /\ J \in SUBSET Nat /\ j = Min(J)
    BY <2>4, <2>5
  <2>7. j \in J /\ \A k \in J : j <= k
    BY <2>6, MinIsLeast
  <2>. HIDE DEF j
  <2>. DEFINE b == s[j]
  <2>8. j \in 1 .. Len(s) /\ b.size >= n /\ b.size = L[i].size /\ b \in FreeBlock
    BY <2>4, <2>7 DEF Fits
  <2>9. b \in FreeOf(L)
    <3>1. b \in ToSet(s)
      BY <2>4, <2>8, IndicesOfSeq
    <3>. QED
      BY <2>3, <3>1 DEF FreeOf
  <2>10. ASSUME NEW c \in FreeOf(L), c.size >= n
         PROVE  ~Better(c, b)
    <3>1. PICK k \in 1 .. Len(L) : \E o \in 1 .. Len(L[k].blocks) :
             c = L[k].blocks[o] /\ c \in ToSet(L[k].blocks) /\ c.size = L[k].size /\ c \in FreeBlock
      BY <1>4
    <3>11. PICK o \in 1 .. Len(L[k].blocks) : c = L[k].blocks[o] /\ c \in ToSet(L[k].blocks)
                                            /\ c.size = L[k].size /\ c \in FreeBlock
      BY <3>1
    <3>2. k \in I
      BY <2>10, <3>11 DEF Fits
    <3>3. i <= k
      BY <2>2, <3>2
    <3>4. CASE i < k
      <4>1. L[i].size < L[k].size
        BY <1>1, <2>3, <3>4 DEF BySize
      <4>2. L[i].size \in Nat /\ L[k].size \in Nat
        BY <1>1, <2>3
      <4>3. ~(c.size < b.size) /\ c.size # b.size
        BY <2>8, <3>11, <4>1, <4>2, SMTT(30)
      <4>. QED
        BY <4>3 DEF Better
    <3>5. CASE i = k
      <4>1. c = s[o] /\ o \in J
        BY <2>10, <3>11, <3>5 DEF Fits
      <4>2. j <= o /\ o \in 1 .. Len(s)
        BY <2>7, <4>1
      <4>3. s[j].address <= s[o].address
        <5>1. CASE j = o
          <6>. DEFINE x == s[j].address
          <6>1. x \in Nat /\ s[o].address = x
            BY <2>4, <2>8, <5>1
          <6>. HIDE DEF x
          <6>2. x <= s[o].address
            BY <6>1
          <6>. QED
            BY <6>2 DEF x
        <5>2. CASE j # o
          <6>1. j < o
            BY <2>4, <2>8, <4>2, <5>2
          <6>. QED
            BY <2>4, <2>8, <4>2, <6>1 DEF ByAddress
        <5>. QED
          BY <5>1, <5>2
      <4>4. ~(c.size < b.size) /\ ~(c.address < b.address)
        <5>1. c.size = L[i].size /\ b.size = L[i].size /\ L[i].size \in Nat
          BY <2>4, <2>8, <4>1, <4>2
        <5>2. c.address >= b.address /\ c.address \in Nat /\ b.address \in Nat
          BY <2>4, <2>8, <4>1, <4>2, <4>3
        <5>. DEFINE x == c.size
                    y == b.size
                    z == c.address
                    w == b.address
        <5>3. x \in Nat /\ y \in Nat /\ x = y
          BY <5>1
        <5>6. z \in Nat /\ w \in Nat /\ z >= w
          BY <5>2
        <5>. HIDE DEF x, y, z, w
        <5>4. ~(x < y) /\ ~(z < w)
          BY <5>3, <5>6
        <5>. QED
          BY <5>4 DEF x, y, z, w
      <4>. QED
        BY <4>4 DEF Better
    <3>. QED
      BY <2>3, <3>3, <3>4, <3>5
  <2>11. BestFit(L, b, n)
    BY <2>8, <2>9, <2>10 DEF BestFit
  <2>12. f.list = i /\ f.block = j
    BY <1>2, <1>3, <2>3
  <2>13. FoundAt(h, b, f.list, f.block) /\ b = L[f.list].blocks[f.block]
    BY <2>3, <2>8, <2>12 DEF FoundAt
  <2>. HIDE DEF b, f
  <2>. QED
    BY <2>3, <2>8, <2>11, <2>12, <2>13 DEF f
<1>. QED
  BY <1>5, <1>6

\* The walk of READ and WRITE starts in the block that holds the address.
LEMMA LeftBoundHolds ==
  ASSUME NEW A \in Seq(AllocatedBlock), A # <<>>, NEW a \in Nat, NEW len \in Nat,
         ~Faults(A, a, len)
  PROVE  /\ LeftBound(A, a) \in 1 .. Len(A)
         /\ A[LeftBound(A, a)].address <= a
         /\ a < A[LeftBound(A, a)].address + A[LeftBound(A, a)].size
<1>. DEFINE l == LeftBound(A, a)
<1>1. /\ Len(A) \in Nat /\ Len(A) > 0
      /\ \A k \in 1 .. Len(A) : A[k].address \in Nat /\ A[k].size \in Nat
  <2>1. Len(A) # 0
    BY EmptySeq
  <2>. QED
    BY <2>1, AllocatedBlocksOf
<1>2. l # 0
  BY DEF Faults
<1>3. CASE Len(A) = 1
  <2>1. l = 1
    BY <1>3 DEF LeftBound
  <2>2. A[1].address <= a /\ a + len < A[1].address + A[1].size
    BY <1>2, <1>3 DEF Faults
  <2>3. 1 \in 1 .. Len(A) /\ A[1].address \in Nat /\ A[1].size \in Nat
    BY <1>1, <1>3
  <2>4. a < A[1].address + A[1].size
    BY <2>2, <2>3
  <2>. QED
    BY <2>1, <2>2, <2>3, <2>4
<1>4. CASE Len(A) # 1
  <2>. DEFINE F == Front(A)
              I == {i \in 1 .. Len(F) : Holds(F[i], a)}
  <2>1. Len(F) = Len(A) - 1 /\ \A i \in 1 .. Len(A) - 1 : F[i] = A[i]
    BY FrontProperties
  <2>2. l = IF I # {} THEN Min(I) ELSE 0
    BY <1>4 DEF LeftBound, SelectInSeq
  <2>3. I # {} /\ l = Min(I)
    BY <1>2, <2>2
  <2>4. I \in SUBSET Nat
    BY <1>1, <2>1
  <2>. HIDE DEF l
  <2>5. l \in I
    BY <2>3, <2>4, MinIsLeast
  <2>6. l \in 1 .. Len(A) - 1 /\ Holds(A[l], a)
    BY <2>1, <2>5
  <2>7. l \in 1 .. Len(A)
    BY <1>1, <2>6
  <2>. QED
    BY <2>6, <2>7 DEF Holds, l
<1>. QED
  BY <1>3, <1>4

\* It ends at a block of the list.
LEMMA RightBoundIs ==
  ASSUME NEW A \in Seq(AllocatedBlock), A # <<>>, NEW l \in 1 .. Len(A)
  PROVE  RightBound(A, l) \in 1 .. Len(A)
<1>. DEFINE T == {1} \cup {k + 1 : k \in AdjacentPairs(A, l, Len(A) - 1)}
<1>1. Len(A) \in Nat /\ Len(A) > 0
  <2>1. Len(A) # 0
    BY EmptySeq
  <2>. QED
    BY <2>1, IndicesOfSeq
<1>2. T \in SUBSET (1 .. Len(A))
  <2>1. \A k \in AdjacentPairs(A, l, Len(A) - 1) : k \in l .. Len(A) - 1
    BY DEF AdjacentPairs
  <2>2. \A k \in l .. Len(A) - 1 : k + 1 \in 1 .. Len(A)
    BY <1>1
  <2>. QED
    BY <1>1, <2>1, <2>2
<1>3. T \in SUBSET (0 .. Len(A)) /\ T # {}
  BY <1>1, <1>2
<1>. HIDE DEF T
<1>4. Max(T) \in T
  BY <1>1, <1>3, MaxIsGreatest
<1>. QED
  BY <1>2, <1>4 DEF RightBound, T

\* Places grow by one with each byte and by its size with each block.
LEMMA PlaceIs ==
  ASSUME NEW A \in Seq(AllocatedBlock), NEW a \in Nat, LeftBound(A, a) \in 1 .. Len(A)
  PROVE  /\ Place(A, a, LeftBound(A, a), 0) = A[LeftBound(A, a)].address - a
         /\ \A k \in LeftBound(A, a) .. Len(A) + 1 : \A i \in Int :
              /\ Place(A, a, k, i) \in Int /\ Place(A, a, k, 0) \in Int
              /\ Place(A, a, k, i) = Place(A, a, k, 0) + i
         /\ \A k \in LeftBound(A, a) .. Len(A) :
              Place(A, a, k + 1, 0) = Place(A, a, k, 0) + A[k].size
<1>. DEFINE l == LeftBound(A, a)
            n == Len(A)
            f(k) == [j \in l .. k - 1 |-> A[j].size]
            S(k) == SumOver(f(k), l .. k - 1)
            c == a - A[l].address
<1>1. /\ n \in Nat /\ l \in 1 .. n
      /\ \A k \in 1 .. n : A[k].address \in Nat /\ A[k].size \in Nat
  BY AllocatedBlocksOf
<1>2. c \in Int /\ -c = A[l].address - a
  BY <1>1
<1>3. ASSUME NEW k, NEW i
      PROVE  Place(A, a, k, i) = S(k) + i - c
  <2>. DEFINE g == f(k)
  <2>1. DOMAIN g = l .. k - 1
    OBVIOUS
  <2>2. Place(A, a, k, i) = SumFunction(g) + i - c
    BY DEF Place
  <2>. HIDE DEF g, c
  <2>3. SumFunction(g) = SumOver(g, DOMAIN g)
    BY SumFunctionIs
  <2>. QED
    BY <2>1, <2>2, <2>3 DEF g
<1>. HIDE DEF l, c
<1>4. ASSUME NEW k \in l .. n + 1
      PROVE  S(k) \in Int
  <2>1. l \in Int /\ k - 1 \in Int /\ \A j \in l .. k - 1 : j \in 1 .. n
    BY <1>1
  <2>2. IsFiniteSet(l .. k - 1)
    BY <2>1, FS_Interval
  <2>. DEFINE g == f(k)
              D == l .. k - 1
  <2>3. \A j \in D : g[j] \in Int
    BY <1>1, <2>1
  <2>. HIDE DEF g, D
  <2>4. SumOver(g, D) \in Int
    BY <2>2, <2>3, SumOverType DEF D
  <2>. QED
    BY <2>4 DEF g, D
<1>5. S(l) = 0
  <2>1. l .. l - 1 = {}
    BY <1>1
  <2>. QED
    BY <2>1, SumOverEmpty
<1>6. ASSUME NEW k \in l .. n
      PROVE  S(k + 1) = S(k) + A[k].size
  <2>. DEFINE g == f(k)
              h == f(k + 1)
              D == l .. k - 1
              E == l .. (k + 1) - 1
  <2>1. l \in Int /\ k \in Int /\ k - 1 \in Int /\ \A j \in E : j \in 1 .. n
    BY <1>1
  <2>2. IsFiniteSet(D)
    BY <2>1, FS_Interval
  <2>3. E = D \cup {k} /\ k \notin D
    BY <2>1
  <2>4. /\ \A j \in D : g[j] = A[j].size
        /\ \A j \in E : h[j] = A[j].size /\ h[j] \in Int
    BY <1>1, <2>1
  <2>5. S(k) = SumOver(g, D) /\ S(k + 1) = SumOver(h, E)
    OBVIOUS
  <2>. HIDE DEF g, h, D, E, S
  <2>6. SumOver(g, D) = SumOver(h, D)
    <3>1. \A j \in D : g[j] = h[j]
      BY <2>3, <2>4
    <3>. QED
      BY <2>2, <3>1, SumOverSame
  <2>7. SumOver(h, D \cup {k}) = SumOver(h, D) + h[k]
    BY <2>2, <2>3, <2>4, SumOverAdd
  <2>8. h[k] = A[k].size
    BY <2>3, <2>4
  <2>. QED
    BY <2>3, <2>5, <2>6, <2>7, <2>8
<1>. HIDE DEF S, n
<1>7. Place(A, a, l, 0) = A[l].address - a
  BY <1>2, <1>3, <1>5
<1>8. ASSUME NEW k \in l .. n + 1, NEW i \in Int
      PROVE  /\ Place(A, a, k, i) \in Int /\ Place(A, a, k, 0) \in Int
             /\ Place(A, a, k, i) = Place(A, a, k, 0) + i
  <2>1. S(k) \in Int /\ Place(A, a, k, i) = S(k) + i - c /\ Place(A, a, k, 0) = S(k) + 0 - c
    BY <1>3, <1>4
  <2>. QED
    BY <1>2, <2>1
<1>9. ASSUME NEW k \in l .. n
      PROVE  Place(A, a, k + 1, 0) = Place(A, a, k, 0) + A[k].size
  <2>1. k \in l .. n + 1 /\ A[k].size \in Nat
    BY <1>1
  <2>2. S(k) \in Int /\ S(k + 1) = S(k) + A[k].size
    BY <1>4, <1>6, <2>1
  <2>3. Place(A, a, k + 1, 0) = S(k + 1) + 0 - c /\ Place(A, a, k, 0) = S(k) + 0 - c
    BY <1>3
  <2>. QED
    BY <1>2, <2>1, <2>2, <2>3
<1>. QED
  BY <1>7, <1>8, <1>9 DEF l, n

\* What a READ answers: at each place the byte of a block it walks.
FoundOnWalk(A, a, s, p) ==
  \E k \in Walked(A, a) : \E i \in 0 .. A[k].size - 1 :
    k \in 1 .. Len(A) /\ Place(A, a, k, i) = p - 1 /\ s[p] = A[k].payload[i]

\* READ answers bytes of the heap, not more than it was asked for.
LEMMA BytesReadFinds ==
  ASSUME NEW A \in Seq(AllocatedBlock), A # <<>>, NEW a \in Nat, NEW len \in Nat,
         LeftBound(A, a) \in 1 .. Len(A), A[LeftBound(A, a)].address <= a, ~RunsOff(A, a)
  PROVE  /\ BytesRead(A, a, len) \in Seq(Bytes)
         /\ Len(BytesRead(A, a, len)) <= len
         /\ \A p \in 1 .. Len(BytesRead(A, a, len)) :
              FoundOnWalk(A, a, BytesRead(A, a, len), p)
<1>. DEFINE l == LeftBound(A, a)
            R == RightBound(A, l)
            P(k) == Place(A, a, k, 0)
            bytes == UNION {{k} \X (DOMAIN A[k].payload) : k \in Walked(A, a)}
            end == P(R + 1)
            T == {len, end}
            m == Min(T)
<1>1. /\ Len(A) \in Nat /\ l \in 1 .. Len(A) /\ R \in 1 .. Len(A) /\ A[l].address <= a
      /\ \A k \in 1 .. Len(A) : A[k] \in AllocatedBlock /\ A[k].address \in Nat /\ A[k].size \in Nat
  BY AllocatedBlocksOf, RightBoundIs
<1>2. l <= R + 1
  BY <1>1 DEF RunsOff
<1>3. /\ P(l) = A[l].address - a
      /\ \A k \in l .. Len(A) + 1 : \A i \in Int : /\ Place(A, a, k, i) = P(k) + i /\ P(k) \in Int
      /\ \A k \in l .. Len(A) : P(k + 1) = P(k) + A[k].size
  BY <1>1, PlaceIs
<1>4. BytesRead(A, a, len) =
        [p \in 1 .. m |-> LET x == CHOOSE y \in bytes : Place(A, a, y[1], y[2]) = p - 1
                          IN  A[x[1]].payload[x[2]]]
  BY DEF BytesRead
<1>5. Walked(A, a) = l .. R
  BY DEF Walked
<1>. HIDE DEF l, P, R
<1>13. ASSUME NEW k \in l .. Len(A) + 1
       PROVE  P(k) \in Int
  <2>1. 0 \in Int
    OBVIOUS
  <2>. QED
    BY <1>3, <2>1
<1>6. end \in Int
  <2>1. R + 1 \in l .. Len(A) + 1
    BY <1>1, <1>2
  <2>. QED
    BY <1>13, <2>1
<1>7. m \in Int /\ m <= end /\ m <= len
  <2>1. T = {len, end}
    OBVIOUS
  <2>2. \E x \in T : \A y \in T : x <= y
    BY <1>6
  <2>3. m \in T /\ \A y \in T : m <= y
    BY <2>2 DEF Min
  <2>. HIDE DEF m
  <2>. QED
    BY <1>6, <2>3
<1>8. P(l) <= 0 /\ P(l) \in Int
  BY <1>1, <1>3
<1>9. ASSUME NEW t \in Nat, t < end
      PROVE  \E y \in bytes : Place(A, a, y[1], y[2]) = t
  <2>. DEFINE K == {k \in l .. R : t < P(k + 1)}
  <2>1. R # l - 1
    <3>1. R = l - 1 => R + 1 = l
      BY <1>1
    <3>. QED
      BY <1>6, <1>8, <1>9, <3>1
  <2>2. R \in K
    BY <1>1, <1>2, <1>9, <2>1
  <2>3. K \in SUBSET Nat
    BY <1>1
  <2>4. PICK k \in K : \A j \in K : k <= j
    BY <2>2, <2>3, LeastExists
  <2>5. k \in l .. R /\ k \in 1 .. Len(A) /\ k \in l .. Len(A) /\ k \in l .. Len(A) + 1 /\ t < P(k + 1)
    BY <1>1, <2>4
  <2>6. P(k) <= t
    <3>1. CASE k = l
      BY <1>8, <3>1
    <3>2. CASE k # l
      <4>1. k - 1 \in l .. R /\ ~(k <= k - 1) /\ (k - 1) + 1 = k
        BY <1>1, <2>5, <3>2
      <4>2. ~(t < P(k))
        BY <2>4, <4>1
      <4>3. P(k) \in Int
        BY <1>3, <2>5
      <4>. QED
        BY <4>2, <4>3
    <3>. QED
      BY <3>1, <3>2
  <2>7. P(k) \in Int /\ P(k + 1) = P(k) + A[k].size /\ A[k].size \in Nat
    <3>1. P(k) \in Int
      BY <1>13, <2>5
    <3>2. P(k + 1) = P(k) + A[k].size
      BY <1>3, <2>5
    <3>3. A[k].size \in Nat
      BY <1>1, <2>5
    <3>. QED
      BY <3>1, <3>2, <3>3
  <2>. DEFINE i == t - P(k)
              y == <<k, i>>
  <2>8. i \in 0 .. A[k].size - 1
    <3>. DEFINE c == A[k].size
                q == P(k)
    <3>1. /\ q \in Int /\ q <= t /\ t < q + c /\ c \in Nat /\ t \in Nat
      BY <2>5, <2>6, <2>7
    <3>. HIDE DEF c, q
    <3>2. t - q \in 0 .. c - 1
      BY <3>1
    <3>. QED
      BY <3>2 DEF c, q
  <2>9. DOMAIN A[k].payload = 0 .. A[k].size - 1
    BY <1>1, <2>5, AllocatedBlockIs
  <2>10. y \in bytes
    <3>1. k \in Walked(A, a)
      BY <1>5, <2>5
    <3>2. y \in {k} \X (DOMAIN A[k].payload)
      BY <2>8, <2>9
    <3>. HIDE DEF y
    <3>. QED
      BY <3>1, <3>2
  <2>11. Place(A, a, k, i) = P(k) + i
    BY <1>3, <2>5, <2>8
  <2>12. Place(A, a, k, i) = t
    BY <2>7, <2>11
  <2>. QED
    BY <2>10, <2>12
<1>10. ASSUME NEW y \in bytes
       PROVE  \E k \in Walked(A, a) : \E i \in 0 .. A[k].size - 1 :
                /\ y[1] = k /\ y[2] = i /\ k \in 1 .. Len(A)
                /\ A[y[1]].payload[y[2]] \in Bytes
  <2>1. PICK k \in l .. R : y \in {k} \X (DOMAIN A[k].payload)
    BY <1>5
  <2>2. y[1] = k /\ y[2] \in DOMAIN A[k].payload /\ k \in 1 .. Len(A) /\ k \in Walked(A, a)
    BY <1>1, <1>5, <2>1
  <2>3. A[k].payload \in [0 .. A[k].size - 1 -> Bytes]
    BY <1>1, <2>2, AllocatedBlockIs
  <2>. HIDE DEF bytes
  <2>. QED
    BY <2>2, <2>3
<1>. DEFINE s == BytesRead(A, a, len)
<1>. HIDE DEF m, end, bytes
<1>11. ASSUME NEW p \in 1 .. m
       PROVE  s[p] \in Bytes /\ FoundOnWalk(A, a, s, p)
  <2>1. p - 1 \in Nat /\ p - 1 < end
    BY <1>6, <1>7
  <2>2. \E y \in bytes : Place(A, a, y[1], y[2]) = p - 1
    BY <1>9, <2>1
  <2>. DEFINE x == CHOOSE y \in bytes : Place(A, a, y[1], y[2]) = p - 1
  <2>3. x \in bytes /\ Place(A, a, x[1], x[2]) = p - 1
    BY <2>2
  <2>4. s[p] = A[x[1]].payload[x[2]]
    BY <1>4
  <2>. HIDE DEF x, s
  <2>. QED
    BY <1>10, <2>3, <2>4 DEF FoundOnWalk
<1>12. s = [p \in 1 .. m |-> s[p]]
  BY <1>4
<1>. HIDE DEF s
<1>14. s \in Seq(Bytes) /\ Len(s) <= len /\ \A p \in 1 .. Len(s) : p \in 1 .. m
  <2>1. CASE m \in Nat
    <3>1. s \in [1 .. m -> Bytes]
      BY <1>11, <1>12
    <3>2. s \in Seq(Bytes) /\ Len(s) = m
      BY <2>1, <3>1
    <3>. QED
      BY <1>7, <3>2
  <2>2. CASE m \notin Nat
    <3>1. 1 .. m = 1 .. 0
      BY <1>7, <2>2
    <3>2. s \in [1 .. 0 -> Bytes] /\ 0 \in Nat
      BY <1>11, <1>12, <3>1
    <3>3. s \in Seq(Bytes) /\ Len(s) = 0
      BY <3>2
    <3>. QED
      BY <3>3
  <2>. QED
    BY <2>1, <2>2
<1>. QED
  BY <1>11, <1>14 DEF s

\* READ answers bytes of the heap.
LEMMA BytesReadAreBytes ==
  ASSUME NEW A \in Seq(AllocatedBlock), A # <<>>, NEW a \in Nat, NEW len \in Nat,
         ~Faults(A, a, len), ~RunsOff(A, a)
  PROVE  BytesRead(A, a, len) \in Seq(Bytes)
BY LeftBoundHolds, BytesReadFinds

\* The bytes of block k after a WRITE.
NewPayload(A, a, m, k) ==
  IF k \notin Walked(A, a) THEN A[k].payload
  ELSE [i \in 0 .. A[k].size - 1 |->
          IF Place(A, a, k, i) \in 0 .. Len(m) - 1
          THEN m[Place(A, a, k, i) + 1] ELSE A[k].payload[i]]

\* WRITE changes bytes only: every block stays where it is.
LEMMA WrittenIs ==
  ASSUME NEW A \in Seq(AllocatedBlock), NEW a \in Nat, NEW m \in Messages
  PROVE  /\ Written(A, a, m) \in Seq(AllocatedBlock) /\ Len(Written(A, a, m)) = Len(A)
         /\ \A k \in 1 .. Len(A) :
              /\ Written(A, a, m)[k].address = A[k].address
              /\ Written(A, a, m)[k].size = A[k].size
              /\ Written(A, a, m)[k].payload = NewPayload(A, a, m, k)
<1>. DEFINE n == Len(A)
            B == Written(A, a, m)
            p(k) == NewPayload(A, a, m, k)
<1>1. /\ n \in Nat /\ DOMAIN A = 1 .. n
      /\ \A k \in 1 .. n : A[k] \in AllocatedBlock
  BY AllocatedBlocksOf
<1>2. DOMAIN B = 1 .. n /\ B = [k \in 1 .. n |-> B[k]]
  BY <1>1 DEF Written
<1>3. ASSUME NEW k \in 1 .. n
      PROVE  /\ B[k] \in AllocatedBlock /\ B[k].address = A[k].address /\ B[k].size = A[k].size
             /\ B[k].payload = p(k)
  <2>. DEFINE b == A[k]
  <2>1. /\ b.address \in Addresses /\ b.size \in Nat /\ b.size \in MallocSizes
        /\ b.payload \in [0 .. b.size - 1 -> Bytes]
        /\ b = [address |-> b.address, size |-> b.size, payload |-> b.payload]
    BY <1>1, AllocatedBlockIs
  <2>2. DOMAIN b.payload = 0 .. b.size - 1
    BY <2>1
  <2>3. B[k] = [address |-> b.address, size |-> b.size, payload |-> p(k)]
    <3>. DEFINE q == [i \in DOMAIN A[k].payload |->
                        IF Place(A, a, k, i) \in 0 .. Len(m) - 1
                        THEN m[Place(A, a, k, i) + 1] ELSE A[k].payload[i]]
    <3>1. B[k] = IF k \notin Walked(A, a) THEN b ELSE [b EXCEPT !.payload = q]
      BY <1>1 DEF Written
    <3>2. k \in Walked(A, a) => q = p(k)
      BY <2>2 DEF NewPayload
    <3>3. k \notin Walked(A, a) => p(k) = b.payload
      BY DEF NewPayload
    <3>. HIDE DEF q, p, b, B
    <3>4. CASE k \notin Walked(A, a)
      BY <2>1, <3>1, <3>3, <3>4
    <3>5. CASE k \in Walked(A, a)
      <4>1. B[k] = [b EXCEPT !.payload = p(k)]
        BY <3>1, <3>2, <3>5
      <4>2. [b EXCEPT !.payload = p(k)] = [address |-> b.address, size |-> b.size, payload |-> p(k)]
        BY <2>1
      <4>. QED
        BY <4>1, <4>2
    <3>. QED
      BY <3>4, <3>5
  <2>4. p(k) \in [0 .. b.size - 1 -> Bytes]
    <3>1. m \in Seq(Characters)
      BY HeapAssumption
    <3>2. \A i \in 1 .. Len(m) : m[i] \in Bytes
      BY <3>1, ElementOfSeq DEF Bytes
    <3>3. ASSUME NEW i \in 0 .. b.size - 1, Place(A, a, k, i) \in 0 .. Len(m) - 1
          PROVE  m[Place(A, a, k, i) + 1] \in Bytes
      <4>. DEFINE x == Place(A, a, k, i)
      <4>1. x \in 0 .. Len(m) - 1 /\ Len(m) \in Nat
        BY <3>1, <3>3, LenProperties
      <4>. HIDE DEF x
      <4>2. x + 1 \in 1 .. Len(m)
        BY <4>1
      <4>3. m[x + 1] \in Bytes
        BY <3>2, <4>2
      <4>. QED
        BY <4>3 DEF x
    <3>. QED
      BY <2>1, <3>3 DEF NewPayload
  <2>. HIDE DEF p, B
  <2>5. B[k] \in AllocatedBlock
    <3>1. B[k] \in [address : Addresses, size : {b.size}, payload : [0 .. b.size - 1 -> Bytes]]
      BY <2>1, <2>3, <2>4
    <3>. QED
      BY <2>1, <3>1 DEF AllocatedBlock
  <2>. QED
    BY <2>3, <2>5
<1>. HIDE DEF B, p, n
<1>4. B \in Seq(AllocatedBlock)
  <2>1. B \in [1 .. n -> AllocatedBlock]
    BY <1>2, <1>3
  <2>. QED
    BY <1>1, <2>1
<1>5. Len(B) = n
  BY <1>1, <1>2, <1>4, LenProperties
<1>. QED
  BY <1>3, <1>4, <1>5 DEF B, n, p

\* A WRITE keeps the heap in order: it moves no block.
LEMMA WriteKeeps ==
  ASSUME NEW h, NEW r, HeapOK(h, r), NEW a \in Nat, NEW m \in Messages
  PROVE  HeapOK(h, [r EXCEPT !.blocks = Written(r.blocks, a, m)])
<1>. DEFINE A == r.blocks
            B == Written(A, a, m)
            s == [r EXCEPT !.blocks = B]
<1>1. /\ r \in Arenas /\ Fitted(A) /\ A \in Seq(AllocatedBlock) /\ ByAddress(A)
  BY DEF HeapOK, Fitted
<1>2. /\ B \in Seq(AllocatedBlock) /\ Len(B) = Len(A)
      /\ \A k \in 1 .. Len(A) : B[k].address = A[k].address /\ B[k].size = A[k].size
  <2>. HIDE DEF A
  <2>1. A \in Seq(AllocatedBlock)
    BY <1>1
  <2>. QED
    BY <2>1, WrittenIs
<1>. HIDE DEF B
<1>3. Fitted(B) /\ ByAddress(B)
  BY <1>1, <1>2 DEF Fitted, ByAddress
<1>4. Placed(B) = Placed(A)
  BY <1>2 DEF Placed
<1>5. /\ s \in Arenas /\ s.blocks = B /\ s.totalAllocatedMemory = r.totalAllocatedMemory
      /\ s.totalMallocs = r.totalMallocs /\ s.mallocCalls = r.mallocCalls
      /\ s.totalFragmentations = r.totalFragmentations
  BY <1>1, <1>2 DEF Arenas
<1>. HIDE DEF s
<1>6. Counts(h, s)
  BY <1>2, <1>4, <1>5 DEF HeapOK, Counts
<1>7. HeapOK(h, s)
  BY <1>3, <1>4, <1>5, <1>6 DEF HeapOK
<1>. QED
  BY <1>7 DEF s, B

HeapInv ==
  /\ output \in Outputs /\ process \in {"running", "ended", "crashed"}
  /\ Exists <=> arena # NoHeap
  /\ Exists => HeapOK(heap, arena)

\* What the program says is one of its outputs.
LEMMA SaysIs ==
  /\ NoOutput \in Outputs /\ NoOutput.kind = "none"
  /\ \A k \in {"out of memory", "invalid free", "segmentation fault"} :
       Says(k) \in Outputs /\ Says(k).kind = k
<1>1. <<>> \in Seq(Bytes)
  OBVIOUS
<1>2. NoOutput = [kind |-> "none", bytes |-> <<>>]
  BY DEF NoOutput
<1>3. ASSUME NEW k
      PROVE  Says(k) = [kind |-> k, bytes |-> <<>>]
  BY <1>2 DEF Says
<1>4. ASSUME NEW k \in {"none", "out of memory", "invalid free", "segmentation fault", "read"}
      PROVE  [kind |-> k, bytes |-> <<>>] \in Outputs
  BY <1>1 DEF Outputs
<1>. QED
  BY <1>2, <1>3, <1>4

\* A heap in order is one, and so is its arena.
LEMMA OrderedExists ==
  ASSUME NEW h, NEW r, HeapOK(h, r)
  PROVE  h # NoHeap /\ r # NoHeap
BY NoHeapAssumption DEF HeapOK

\* A step after which the heap is in order keeps the invariant.
LEMMA KeepsOrder ==
  ASSUME HeapOK(heap', arena'), output' \in Outputs,
         process' \in {"running", "ended", "crashed"}
  PROVE  HeapInv'
BY OrderedExists DEF HeapInv, Exists

\* What MALLOC does when a block is large enough.
Allocated(n, b) ==
  /\ BestFit(heap.lists, b, n) /\ b \in FreeBlock
  /\ HeapOK(heap', arena') /\ output' = NoOutput
  /\ \E t \in AllocatedBlock, p \in 1 .. Len(arena.blocks) + 1 :
       /\ t.address = b.address /\ t.size = n
       /\ Inserted(arena'.blocks, arena.blocks, p, t)

\* A MALLOC finds no block large enough, or allocates from the best fit.
LEMMA MallocStep ==
  ASSUME HeapInv, NEW n \in MallocSizes, Malloc(n)
  PROVE  \/ /\ output' = Says("out of memory") /\ UNCHANGED <<heap, arena>>
            /\ \A b \in FreeOf(heap.lists) : ~(b.size >= n)
         \/ \E b : Allocated(n, b)
<1>. DEFINE f == FirstFit(heap, n)
            b == heap.lists[f.list].blocks[f.block]
            t == [address |-> b.address, size |-> n, payload |-> [i \in 0 .. n - 1 |-> Garbage]]
            s == [arena EXCEPT !.blocks = InsertByAddress(@, t),
                               !.totalAllocatedMemory = @ + n, !.totalMallocs = @ + 1,
                               !.mallocCalls = @ + 1,
                               !.totalFragmentations = IF b.size > n THEN @ + 1 ELSE @]
<1>1. HeapOK(heap, arena) /\ n \in Nat
  BY HeapAssumption DEF HeapInv, Malloc, Ready, Exists
<1>2. Tidy(heap.lists) /\ arena \in Arenas /\ arena.blocks \in Seq(AllocatedBlock)
  BY <1>1 DEF HeapOK, Fitted
<1>3. CASE f.list = 0
  <2>1. output' = Says("out of memory") /\ UNCHANGED <<heap, arena>>
    BY <1>3 DEF Malloc
  <2>2. \A c \in FreeOf(heap.lists) : ~(c.size >= n)
    BY <1>1, <1>2, <1>3, FirstFitIsBest
  <2>. QED
    BY <2>1, <2>2
<1>4. CASE f.list # 0
  <2>1. /\ b \in FreeBlock /\ FoundAt(heap, b, f.list, f.block) /\ BestFit(heap.lists, b, n)
    BY <1>1, <1>2, <1>4, FirstFitIsBest
  <2>2. heap' = Cut(heap, f, n) /\ arena' = s /\ output' = NoOutput
    BY <1>4 DEF Malloc
  <2>. HIDE DEF b, f
  <2>3. b.size >= n /\ b.address \in Addresses /\ b.size \in Nat
    BY <2>1, HeapAssumption DEF BestFit, FreeBlock
  <2>4. t \in AllocatedBlock /\ t.address = b.address /\ t.size = n
    <3>1. [i \in 0 .. n - 1 |-> Garbage] \in [0 .. n - 1 -> Bytes]
      BY DEF Bytes
    <3>2. t \in [address : Addresses, size : {n}, payload : [0 .. n - 1 -> Bytes]]
      BY <2>3, <3>1
    <3>. QED
      BY <3>2 DEF AllocatedBlock
  <2>5. Allocates(s, arena, InsertByAddress(arena.blocks, t), t, b.size)
    <3>. DEFINE u == [arena EXCEPT !.blocks = InsertByAddress(arena.blocks, t),
                        !.totalAllocatedMemory = @ + t.size, !.totalMallocs = @ + 1,
                        !.mallocCalls = @ + 1,
                        !.totalFragmentations = IF b.size > t.size THEN @ + 1 ELSE @]
    <3>1. s = u
      BY <2>4
    <3>. QED
      BY <3>1 DEF Allocates
  <2>. HIDE DEF t, s
  <2>6. HeapOK(Cut(heap, f, n), s)
    <3>1. n <= b.size
      BY <1>1, <2>3
    <3>. QED
      BY <1>1, <2>1, <2>4, <2>5, <3>1, MallocKeeps, InitialBlocksAreOK
  <2>7. HeapOK(heap', arena')
    BY <2>2, <2>6
  <2>8. arena'.blocks = InsertByAddress(arena.blocks, t)
    BY <1>2, <2>2 DEF s, Arenas
  <2>9. \E p \in 1 .. Len(arena.blocks) + 1 : Inserted(arena'.blocks, arena.blocks, p, t)
    <3>. DEFINE A == arena.blocks
    <3>1. A \in Seq(AllocatedBlock) /\ \A x \in AllocatedBlock : x.address \in Int
      BY <1>2, AllocatedBlockIs
    <3>. HIDE DEF A
    <3>2. \E p \in 1 .. Len(A) + 1 : Inserted(InsertByAddress(A, t), A, p, t)
      BY <2>4, <3>1, InsertByAddressInserts
    <3>. QED
      BY <2>8, <3>2 DEF A
  <2>10. Allocated(n, b)
    BY <2>1, <2>2, <2>4, <2>7, <2>9 DEF Allocated
  <2>. QED
    BY <2>10
<1>. QED
  BY <1>3, <1>4

\* What FREE does when the address is that of a block.
Freed(a, j) ==
  /\ arena.blocks[j].address = a
  /\ HeapOK(heap', arena') /\ output' = NoOutput
  /\ Inserted(arena.blocks, arena'.blocks, j, arena.blocks[j])

\* A FREE finds no block at its address, or gives the first one back.
LEMMA FreeStep ==
  ASSUME HeapInv, NEW a, Free(a)
  PROVE  \/ output' = Says("invalid free") /\ UNCHANGED <<heap, arena>>
         \/ \E j \in 1 .. Len(arena.blocks) : Freed(a, j)
<1>. DEFINE A == arena.blocks
            I == {i \in 1 .. Len(A) : A[i].address = a}
            j == IF I # {} THEN Min(I) ELSE 0
            t == A[j]
            g == [heap EXCEPT !.freeCalls = @ + 1, !.totalFreeMemory = @ + t.size,
                              !.totalBlocks = @ + 1]
            s == [arena EXCEPT !.blocks = Unlink(@, arena.totalMallocs, j),
                               !.totalAllocatedMemory = @ - t.size, !.totalMallocs = @ - 1]
<1>1. HeapOK(heap, arena)
  BY DEF HeapInv, Free, Ready, Exists
<1>2. arena \in Arenas /\ A \in Seq(AllocatedBlock) /\ Len(A) \in Nat /\ arena.totalMallocs = Len(A)
  <2>1. arena \in Arenas /\ A \in Seq(AllocatedBlock) /\ arena.totalMallocs = Len(A)
    BY <1>1 DEF HeapOK, Fitted, Counts
  <2>. QED
    BY <2>1, LenProperties
<1>3. SelectInSeq(A, LAMBDA x : x.address = a) = j
  BY DEF SelectInSeq
<1>4. CASE I = {}
  <2>1. j = 0
    BY <1>4
  <2>. QED
    BY <1>3, <2>1 DEF Free
<1>5. CASE I # {}
  <2>1. I \in SUBSET Nat /\ j = Min(I)
    BY <1>2, <1>5
  <2>. HIDE DEF j
  <2>2. j \in I
    BY <1>5, <2>1, MinIsLeast
  <2>3. j \in 1 .. Len(A) /\ t.address = a /\ j # 0
    BY <1>2, <2>2
  <2>4. heap' = AddFreeBlock(g, Block(t.address, t.size)) /\ arena' = s /\ output' = NoOutput
    BY <1>3, <2>3 DEF Free
  <2>5. Returns(g, heap, A[j]) /\ Releases(s, arena, j)
    BY DEF Returns, Releases
  <2>. HIDE DEF g, s
  <2>6. HeapOK(AddFreeBlock(g, Block(t.address, t.size)), s)
    BY <1>1, <2>3, <2>5, FreeKeeps, InitialBlocksAreOK
  <2>7. s.blocks = Unlink(A, arena.totalMallocs, j)
    BY <1>2 DEF s, Arenas
  <2>8. Inserted(A, s.blocks, j, A[j])
    <3>. HIDE DEF A
    <3>. QED
      BY <1>2, <2>3, <2>7, UnlinkRemoves
  <2>9. Freed(a, j)
    BY <2>3, <2>4, <2>6, <2>8 DEF Freed
  <2>. QED
    BY <2>3, <2>9
<1>. QED
  BY <1>4, <1>5

\* Without a heap there is nothing to be in order.
LEMMA HeapInvInit == Init => HeapInv
BY SaysIs DEF Init, HeapInv, Exists

\* Addresses and lengths are natural numbers.
LEMMA AddressesAreNat == Addresses \in SUBSET Nat /\ \A m \in Messages : Len(m) \in Nat
<1>1. Addresses \in SUBSET Nat
  BY HeapAssumption DEF Addresses
<1>2. \A m \in Messages : Len(m) \in Nat
  BY HeapAssumption, LenProperties
<1>. QED
  BY <1>1, <1>2

\* Every command keeps the invariant.
LEMMA HeapInvNext == HeapInv /\ [Next]_vars => HeapInv'
<1>. SUFFICES ASSUME HeapInv, [Next]_vars PROVE HeapInv'
  OBVIOUS
<1>0. output \in Outputs /\ process \in {"running", "ended", "crashed"}
  BY DEF HeapInv
<1>1. CASE UNCHANGED vars
  BY <1>1 DEF vars, HeapInv, Exists
<1>2. CASE CreateHeap
  <2>1. HeapOK(heap', arena') /\ output' = NoOutput /\ process' = process
    BY <1>2, InitialHeapOK DEF CreateHeap
  <2>. QED
    BY <1>0, <2>1, KeepsOrder, SaysIs
<1>3. CASE DestroyHeap
  BY <1>0, <1>3, SaysIs DEF DestroyHeap, HeapInv, Exists
<1>4. ASSUME NEW n \in MallocSizes, Malloc(n) PROVE HeapInv'
  <2>1. process' = process /\ heap # NoHeap
    BY <1>4 DEF Malloc, Ready
  <2>2. CASE output' = Says("out of memory") /\ UNCHANGED <<heap, arena>>
    BY <1>0, <2>1, <2>2, SaysIs DEF HeapInv, Exists
  <2>3. CASE \E b : Allocated(n, b)
    BY <1>0, <2>1, <2>3, KeepsOrder, SaysIs DEF Allocated
  <2>. QED
    BY <1>4, <2>2, <2>3, MallocStep
<1>5. ASSUME NEW a \in Addresses, Free(a) PROVE HeapInv'
  <2>1. process' = process
    BY <1>5 DEF Free
  <2>2. CASE output' = Says("invalid free") /\ UNCHANGED <<heap, arena>>
    BY <1>0, <2>1, <2>2, SaysIs DEF HeapInv, Exists
  <2>3. CASE \E j \in 1 .. Len(arena.blocks) : Freed(a, j)
    BY <1>0, <2>1, <2>3, KeepsOrder, SaysIs DEF Freed
  <2>. QED
    BY <1>5, <2>2, <2>3, FreeStep
<1>6. ASSUME NEW a \in Addresses, NEW m \in Messages, Write(a, m) PROVE HeapInv'
  <2>1. /\ HeapOK(heap, arena) /\ process' = process /\ heap' = heap
        /\ output' = NoOutput /\ a \in Nat
    BY <1>6, AddressesAreNat DEF Write, Walks, Ready, HeapInv, Exists
  <2>2. \/ arena' = arena
        \/ arena' = [arena EXCEPT !.blocks = Written(arena.blocks, a, m)]
    BY <1>6 DEF Write
  <2>3. HeapOK(heap', arena')
    BY <2>1, <2>2, WriteKeeps
  <2>. QED
    BY <1>0, <2>1, <2>3, KeepsOrder, SaysIs
<1>7. ASSUME NEW a \in Addresses, NEW n \in ReadSizes, Read(a, n) PROVE HeapInv'
  <2>1. /\ HeapOK(heap, arena) /\ process' = process /\ heap' = heap /\ arena' = arena
        /\ a \in Nat /\ n \in Nat
    BY <1>7, AddressesAreNat, HeapAssumption DEF Read, Walks, Ready, HeapInv, Exists
  <2>2. arena.blocks \in Seq(AllocatedBlock)
    BY <2>1 DEF HeapOK, Fitted
  <2>3. output' \in Outputs
    <3>1. CASE arena.blocks = <<>>
      BY <1>7, <3>1, SaysIs DEF Read
    <3>2. CASE arena.blocks # <<>>
      <4>1. /\ ~Faults(arena.blocks, a, n) /\ ~RunsOff(arena.blocks, a)
            /\ output' = [kind |-> "read", bytes |-> BytesRead(arena.blocks, a, n)]
        BY <1>7, <3>2 DEF Read, Walks
      <4>2. BytesRead(arena.blocks, a, n) \in Seq(Bytes)
        BY <2>1, <2>2, <3>2, <4>1, BytesReadAreBytes
      <4>. QED
        BY <4>1, <4>2 DEF Outputs
    <3>. QED
      BY <3>1, <3>2
  <2>. QED
    BY <1>0, <2>1, <2>3, KeepsOrder
<1>8. ASSUME NEW a, NEW n, Fault(a, n) PROVE HeapInv'
  BY <1>8, SaysIs DEF Fault, HeapInv, Exists
<1>9. ASSUME NEW a, NEW n, Crash(a, n) PROVE HeapInv'
  BY <1>9 DEF Crash, HeapInv, Exists
<1>. QED
  BY <1>1, <1>2, <1>3, <1>4, <1>5, <1>6, <1>7, <1>8, <1>9 DEF Next

\* The heap is in order after every sequence of commands: lists tidy, counters
\* right, memory tiled.  Each of these needs the others: handle_malloc and
\* handle_free unlink by the counters, and the counters count what was unlinked.
THEOREM HeapInvariant == Spec => []HeapInv
<1>1. Init => HeapInv
  BY HeapInvInit
<1>2. HeapInv /\ [Next]_vars => HeapInv'
  BY HeapInvNext
<1>. QED
  BY <1>1, <1>2, PTL DEF Spec

\* The free blocks of the runs' properties are those of the lists.
LEMMA FreeBlocksAre ==
  ASSUME Tidy(heap.lists)
  PROVE  FreeBlocks = FreeOf(heap.lists)
<1>. DEFINE L == heap.lists
<1>1. /\ L \in Seq(FreeList) /\ DOMAIN L = 1 .. Len(L)
      /\ \A i \in 1 .. Len(L) : L[i].blocks \in Seq(FreeBlock)
  BY ListsOf DEF Tidy
<1>2. \A i \in 1 .. Len(L) : BlocksIn(L[i]) = ToSet(L[i].blocks)
  BY <1>1, IndicesOfSeq DEF BlocksIn
<1>3. FreeBlocks = UNION {BlocksIn(L[i]) : i \in 1 .. Len(L)}
  BY <1>1 DEF FreeBlocks
<1>4. FreeOf(L) = UNION {ToSet(L[i].blocks) : i \in 1 .. Len(L)}
  BY DEF FreeOf
<1>. HIDE DEF L
<1>5. FreeBlocks = FreeOf(L)
  BY <1>2, <1>3, <1>4
<1>. QED
  BY <1>5 DEF L

\* The counters of a heap in order are what they count.
LEMMA OrderedMatches == HeapInv => CountersMatch
<1>. SUFFICES ASSUME HeapInv PROVE CountersMatch
  OBVIOUS
<1>1. TypeOK
  BY DEF HeapInv, HeapOK, TypeOK, Exists
<1>2. ASSUME Exists
      PROVE  /\ \A i \in DOMAIN heap.lists :
                  heap.lists[i].numberOfBlocks = Len(heap.lists[i].blocks)
             /\ heap.totalBlocks = SumFunction([i \in DOMAIN heap.lists |-> Len(heap.lists[i].blocks)])
             /\ arena.totalMallocs = Len(arena.blocks)
             /\ arena.totalMallocs = arena.mallocCalls - heap.freeCalls
             /\ arena.totalAllocatedMemory =
                  SumFunction([k \in DOMAIN arena.blocks |-> arena.blocks[k].size])
             /\ heap.totalFreeMemory = heap.totalMemory - arena.totalAllocatedMemory
             /\ heap.totalBlocks + arena.totalMallocs =
                  Cardinality(InitialBlocks) + arena.totalFragmentations
             /\ Len(heap.lists) <= heap.capacity
  <2>1. Tidy(heap.lists) /\ Fitted(arena.blocks) /\ Counts(heap, arena)
    BY <1>2 DEF HeapInv, HeapOK
  <2>2. heap.lists \in Seq(FreeList) /\ DOMAIN heap.lists = 1 .. Len(heap.lists)
    BY <2>1, ListsOf DEF Tidy
  <2>3. \A i \in DOMAIN heap.lists : heap.lists[i].numberOfBlocks = Len(heap.lists[i].blocks)
    BY <2>1, <2>2 DEF Tidy, ListOK
  <2>4. heap.totalBlocks = SumFunction([i \in DOMAIN heap.lists |-> Len(heap.lists[i].blocks)])
    BY <2>1, <2>2, ListMeasures DEF Counts
  <2>5. arena.totalAllocatedMemory = SumFunction([k \in DOMAIN arena.blocks |-> arena.blocks[k].size])
    BY <2>1, PlacedMeasures DEF Counts
  <2>. QED
    BY <2>1, <2>3, <2>4, <2>5 DEF Counts
<1>. QED
  BY <1>1, <1>2 DEF CountersMatch

\* Its lists are sorted.
LEMMA OrderedIsSorted == HeapInv => ListsInOrder
<1>. SUFFICES ASSUME HeapInv, Exists PROVE
        /\ \A i, j \in DOMAIN heap.lists : i < j => heap.lists[i].size < heap.lists[j].size
        /\ \A i \in DOMAIN heap.lists :
             /\ \A b \in ToSet(heap.lists[i].blocks) : b.size = heap.lists[i].size
             /\ \A j, k \in DOMAIN heap.lists[i].blocks :
                  j < k => heap.lists[i].blocks[j].address <= heap.lists[i].blocks[k].address
        /\ \A j, k \in DOMAIN arena.blocks :
             j < k => arena.blocks[j].address <= arena.blocks[k].address
  BY DEF ListsInOrder
<1>1. Tidy(heap.lists) /\ Fitted(arena.blocks) /\ ByAddress(arena.blocks)
  BY DEF HeapInv, HeapOK
<1>2. /\ heap.lists \in Seq(FreeList) /\ DOMAIN heap.lists = 1 .. Len(heap.lists)
      /\ \A i \in 1 .. Len(heap.lists) : heap.lists[i].blocks \in Seq(FreeBlock)
  BY <1>1, ListsOf DEF Tidy
<1>3. \A i, j \in DOMAIN heap.lists : i < j => heap.lists[i].size < heap.lists[j].size
  BY <1>1, <1>2 DEF Tidy, BySize
<1>4. ASSUME NEW i \in DOMAIN heap.lists
      PROVE  /\ \A b \in ToSet(heap.lists[i].blocks) : b.size = heap.lists[i].size
             /\ \A j, k \in DOMAIN heap.lists[i].blocks :
                  j < k => heap.lists[i].blocks[j].address <= heap.lists[i].blocks[k].address
  <2>. DEFINE s == heap.lists[i].blocks
  <2>1. ListOK(heap.lists[i]) /\ s \in Seq(FreeBlock)
    BY <1>1, <1>2 DEF Tidy
  <2>2. DOMAIN s = 1 .. Len(s) /\ ToSet(s) = {s[k] : k \in 1 .. Len(s)}
    BY <2>1, IndicesOfSeq
  <2>. QED
    BY <2>1, <2>2 DEF ListOK, ByAddress
<1>5. DOMAIN arena.blocks = 1 .. Len(arena.blocks)
  BY <1>1, AllocatedBlocksOf DEF Fitted
<1>6. \A j, k \in DOMAIN arena.blocks :
             j < k => arena.blocks[j].address <= arena.blocks[k].address
  BY <1>1, <1>5 DEF ByAddress
<1>. QED
  BY <1>3, <1>4, <1>6

\* Every allocated block lies in an initial one.
LEMMA BlocksAreInside ==
  ASSUME NEW L, NEW A, Fitted(A), Tiles(L, Placed(A)), NEW k \in 1 .. Len(A)
  PROVE  Inside(A[k])
<1>. DEFINE P == Placed(A)
<1>1. P \in Seq(FreeBlock) /\ Len(P) = Len(A) /\ P[k].address = A[k].address /\ P[k].size = A[k].size
  BY PlacedOf
<1>. HIDE DEF P
<1>2. P[k] \in ToSet(P)
  BY <1>1, IndicesOfSeq
<1>3. Inside(P[k])
  BY <1>2 DEF Tiles, P
<1>4. Covers(P[k]) = Covers(A[k])
  BY <1>1 DEF Covers
<1>. QED
  BY <1>3, <1>4 DEF Inside

\* Its blocks tile the memory.
LEMMA OrderedTiles == HeapInv => BlocksTileMemory
<1>. SUFFICES ASSUME HeapInv, Exists PROVE BlocksTileMemory
  BY DEF BlocksTileMemory
<1>. DEFINE L == heap.lists
            A == arena.blocks
            P == Placed(A)
<1>1. Tidy(L) /\ Fitted(A) /\ Tiles(L, P) /\ L \in Seq(FreeList) /\ A \in Seq(AllocatedBlock)
  BY DEF HeapInv, HeapOK, Tidy, Fitted
<1>2. ASSUME NEW x \in Memory
      PROVE  SumFunction([i \in DOMAIN L |-> Covering(L[i].blocks, x)]) + Covering(A, x) = 1
  <2>1. Weight(L, Coverings(x)) + Coverings(x)[P] = 1
    BY <1>1, <1>2 DEF Tiles
  <2>2. Coverings(x)[P] = Covering(A, x)
    BY <1>1, PlacedMeasures
  <2>3. Weight(L, Coverings(x)) = SumFunction([i \in DOMAIN L |-> Covering(L[i].blocks, x)])
    BY <1>1, ListMeasures
  <2>. QED
    BY <2>1, <2>2, <2>3
<1>3. ASSUME NEW b \in FreeBlocks
      PROVE  \E c \in InitialBlocks : Covers(b) \subseteq Covers(c)
  BY <1>1, <1>3, FreeBlocksAre DEF Tiles, Inside
<1>4. ASSUME NEW b \in ToSet(A)
      PROVE  \E c \in InitialBlocks : Covers(b) \subseteq Covers(c)
  <2>. HIDE DEF A
  <2>1. PICK k \in 1 .. Len(A) : b = A[k]
    BY <1>1, <1>4, IndicesOfSeq
  <2>. QED
    BY <1>1, <2>1, BlocksAreInside DEF Inside
<1>. QED
  BY <1>2, <1>3, <1>4 DEF BlocksTileMemory

\* Every variable has its type, and the counters that handle_malloc and
\* handle_free unlink by and DUMP_MEMORY prints are what they count, whatever
\* blocks were split and freed.
THEOREM CountersStayRight == Spec => []CountersMatch
BY HeapInvariant, OrderedMatches, PTL

\* Lists stay sorted by size, one for each size, their blocks and the arena by
\* address, through every split, FREE and new list.
THEOREM ListsStayInOrder == Spec => []ListsInOrder
BY HeapInvariant, OrderedIsSorted, PTL

\* Splitting and freeing blocks in whatever order lose or share no byte: every
\* byte INIT_HEAP made belongs to exactly one free or allocated block.
THEOREM BlocksKeepTiling == Spec => []BlocksTileMemory
BY HeapInvariant, OrderedTiles, PTL

\* One more block, one more place.
LEMMA PlacesInserted ==
  ASSUME NEW A \in Seq(AllocatedBlock), NEW B \in Seq(AllocatedBlock), NEW p, NEW t,
         Inserted(B, A, p, t)
  PROVE  Places(B) = Places(A) \cup {Block(t.address, t.size)}
<1>1. ToSet(B) = ToSet(A) \cup {t}
  BY InsertedElements
<1>. QED
  BY <1>1 DEF Places

\* A MALLOC takes the best fit, and fails only when nothing fits.
LEMMA MallocTakesBestFit ==
  ASSUME HeapInv, NEW n \in MallocSizes, Malloc(n)
  PROVE  BestFitTaken(n)
<1>. DEFINE fitting == {b \in FreeBlocks : b.size >= n}
<1>1. HeapOK(heap, arena)
  BY DEF HeapInv, Malloc, Ready, Exists
<1>2. FreeBlocks = FreeOf(heap.lists) /\ arena.blocks \in Seq(AllocatedBlock)
  BY <1>1, FreeBlocksAre DEF HeapOK, Fitted
<1>3. CASE output' = Says("out of memory") /\ \A b \in FreeOf(heap.lists) : ~(b.size >= n)
  <2>1. fitting = {}
    BY <1>2, <1>3
  <2>. QED
    BY <1>3, <2>1, SaysIs DEF BestFitTaken
<1>4. CASE \E b : Allocated(n, b)
  <2>1. PICK b : Allocated(n, b)
    BY <1>4
  <2>2. /\ b \in fitting /\ \A c \in fitting : ~Better(c, b)
    BY <1>2, <2>1 DEF Allocated, BestFit
  <2>3. PICK t \in AllocatedBlock : \E p \in 1 .. Len(arena.blocks) + 1 :
          /\ t.address = b.address /\ t.size = n /\ Inserted(arena'.blocks, arena.blocks, p, t)
    BY <2>1 DEF Allocated
  <2>4. PICK p : Inserted(arena'.blocks, arena.blocks, p, t)
    BY <2>3
  <2>5. arena'.blocks \in Seq(AllocatedBlock)
    BY <2>1 DEF Allocated, HeapOK, Fitted
  <2>6. Places(arena'.blocks) = Places(arena.blocks) \cup {Block(b.address, n)}
    BY <1>2, <2>3, <2>4, <2>5, PlacesInserted
  <2>. QED
    BY <2>2, <2>6 DEF BestFitTaken
<1>. QED
  BY <1>3, <1>4, MallocStep

\* MALLOC takes the smallest block that is large enough, the lowest of those,
\* and says "Out of memory" only when there is none.
THEOREM MallocIsBestFit == Spec => TakesBestFit
<1>1. HeapInv /\ [Next]_vars => [\A n \in MallocSizes : Malloc(n) => BestFitTaken(n)]_vars
  BY MallocTakesBestFit
<1>. QED
  BY <1>1, HeapInvariant, PTL DEF TakesBestFit, Spec

\* Allocated blocks share no byte: the heap they tile has one block at each.
LEMMA AllocatedDisjoint ==
  ASSUME NEW h, NEW r, HeapOK(h, r), NEW j \in 1 .. Len(r.blocks), NEW k \in 1 .. Len(r.blocks),
         NEW x, x \in Covers(r.blocks[j]), x \in Covers(r.blocks[k])
  PROVE  j = k
<1>. DEFINE A == r.blocks
            Q == {i \in DOMAIN A : x \in Covers(A[i])}
            w == Weight(h.lists, Coverings(x))
<1>1. /\ Fitted(A) /\ A \in Seq(AllocatedBlock) /\ Tiles(h.lists, Placed(A))
      /\ h.lists \in Seq(FreeList) /\ DOMAIN A = 1 .. Len(A)
  BY IndicesOfSeq DEF HeapOK, Fitted, Tidy
<1>2. j \in Q /\ k \in Q
  BY <1>1
<1>3. x \in Memory
  <2>1. Inside(A[j])
    BY <1>1, BlocksAreInside
  <2>. QED
    BY <2>1 DEF Inside, Memory
<1>4. w + Covering(A, x) = 1 /\ w \in Nat
  <2>1. w + Coverings(x)[Placed(A)] = 1
    BY <1>1, <1>3 DEF Tiles
  <2>2. Coverings(x)[Placed(A)] = Covering(A, x)
    BY <1>1, PlacedMeasures
  <2>3. w \in Nat
    BY <1>1, WeightIsNat
  <2>. QED
    BY <2>1, <2>2, <2>3
<1>5. IsFiniteSet(Q) /\ Covering(A, x) = Cardinality(Q) /\ Covering(A, x) \in Nat
  BY <1>1, CoveringIsNat DEF Covering
<1>. HIDE DEF A, Q, w
<1>6. Cardinality(Q) <= 1
  BY <1>4, <1>5
<1>7. SUFFICES ASSUME j # k PROVE FALSE
  OBVIOUS
<1>8. {j, k} \in SUBSET Q /\ Cardinality({j, k}) <= Cardinality(Q)
  BY <1>2, <1>5, FS_Subset
<1>9. Cardinality({j, k}) = 2
  <2>. DEFINE T == {j}
  <2>1. IsFiniteSet(T) /\ Cardinality(T) = 1 /\ k \notin T /\ {j, k} = T \cup {k}
    BY <1>7, FS_Singleton
  <2>. HIDE DEF T
  <2>2. Cardinality(T \cup {k}) = Cardinality(T) + 1
    BY <2>1, FS_AddElement
  <2>3. Cardinality({j, k}) = Cardinality(T \cup {k})
    BY <2>1, Zenon
  <2>. QED
    BY <2>1, <2>2, <2>3
<1>. QED
  BY <1>5, <1>6, <1>8, <1>9

\* A WRITE at address a changes no byte below a: of the blocks it walks, the
\* first begins at or below a, and the others are behind the first.
LEMMA BelowUnchanged ==
  ASSUME NEW h, NEW r, HeapOK(h, r), r.blocks # <<>>, NEW a \in Nat, NEW m \in Messages,
         ~Faults(r.blocks, a, Len(m)), NEW k \in 1 .. Len(r.blocks),
         NEW i \in 0 .. r.blocks[k].size - 1, r.blocks[k].address + i < a
  PROVE  NewPayload(r.blocks, a, m, k)[i] = r.blocks[k].payload[i]
<1>. DEFINE A == r.blocks
            l == LeftBound(A, a)
            p == A[k].address
            q == A[l].address
<1>1. A \in Seq(AllocatedBlock) /\ ByAddress(A) /\ Len(A) \in Nat /\ Len(m) \in Nat
  BY AddressesAreNat, LenProperties DEF HeapOK, Fitted
<1>2. l \in 1 .. Len(A) /\ q <= a /\ a < q + A[l].size
  BY <1>1, LeftBoundHolds
<1>3. /\ p \in Nat /\ q \in Nat /\ A[k].size \in Nat /\ A[l].size \in Nat
      /\ RightBound(A, l) \in 1 .. Len(A)
  BY <1>1, <1>2, AllocatedBlocksOf, RightBoundIs
<1>4. CASE k \notin Walked(A, a)
  BY <1>4 DEF NewPayload
<1>5. CASE k \in Walked(A, a)
  <2>1. k >= l
    BY <1>2, <1>3, <1>5 DEF Walked
  <2>2. k = l
    <3>1. SUFFICES ASSUME k # l PROVE FALSE
      OBVIOUS
    <3>2. q <= p
      BY <1>1, <1>2, <2>1, <3>1 DEF ByAddress
    <3>3. p + i \in Covers(A[k]) /\ p + i \in Covers(A[l])
      <4>1. i \in Nat /\ i <= A[k].size - 1 /\ p + i < a
        BY <1>3
      <4>2. p + i \in p .. p + A[k].size - 1 /\ p + i \in q .. q + A[l].size - 1
        <5>. DEFINE c == A[k].size
                    d == A[l].size
        <5>1. /\ p \in Nat /\ q \in Nat /\ c \in Nat /\ d \in Nat /\ i \in Nat /\ i <= c - 1
              /\ p + i < a /\ q <= p /\ a < q + d /\ a \in Nat
          BY <1>2, <1>3, <3>2, <4>1
        <5>. HIDE DEF p, q, c, d
        <5>2. p + i \in p .. p + c - 1 /\ p + i \in q .. q + d - 1
          BY <5>1
        <5>. QED
          BY <5>2 DEF c, d
      <4>. QED
        BY <4>2 DEF Covers
    <3>4. k = l
      <4>. DEFINE x == p + i
      <4>1. l \in 1 .. Len(r.blocks) /\ x \in Covers(r.blocks[k]) /\ x \in Covers(r.blocks[l])
        BY <1>2, <3>3
      <4>. HIDE DEF A, l, x, p, q
      <4>. QED
        BY <4>1, AllocatedDisjoint
    <3>. QED
      BY <3>1, <3>4
  <2>3. Place(A, a, k, i) < 0
    <3>1. Place(A, a, l, 0) = q - a /\ Place(A, a, l, i) = Place(A, a, l, 0) + i
      <4>1. l \in l .. Len(A) + 1 /\ i \in Int
        BY <1>1, <1>2, <1>3
      <4>2. Place(A, a, l, 0) = q - a
        BY <1>1, <1>2, PlaceIs
      <4>3. Place(A, a, l, i) = Place(A, a, l, 0) + i
        BY <1>1, <1>2, <4>1, PlaceIs
      <4>. QED
        BY <4>2, <4>3
    <3>2. Place(A, a, k, i) = q - a + i /\ q + i < a /\ i \in Nat
      BY <1>3, <2>2, <3>1
    <3>. QED
      BY <1>3, <3>2, SMTT(30)
  <2>4. ~(Place(A, a, k, i) \in 0 .. Len(m) - 1)
    BY <1>1, <2>3
  <2>. QED
    BY <1>5, <2>4 DEF NewPayload
<1>. QED
  BY <1>4, <1>5

\* The blocks of a heap in order are those of its arena.
LEMMA OrderedBlocks ==
  /\ HeapInv /\ Exists =>
       /\ HeapOK(heap, arena) /\ arena.blocks \in Seq(AllocatedBlock)
       /\ AllocatedBlocks = ToSet(arena.blocks)
       /\ AllocatedBlocks = {arena.blocks[k] : k \in 1 .. Len(arena.blocks)}
  /\ ~Exists => AllocatedBlocks = {}
<1>1. HeapInv /\ Exists => HeapOK(heap, arena) /\ arena.blocks \in Seq(AllocatedBlock)
  BY DEF HeapInv, HeapOK, Fitted
<1>2. Exists => AllocatedBlocks = ToSet(arena.blocks)
  BY DEF AllocatedBlocks
<1>3. ~Exists => AllocatedBlocks = {}
  BY DEF AllocatedBlocks
<1>. QED
  BY <1>1, <1>2, <1>3, IndicesOfSeq

\* A MALLOC allocates a block that shares no byte with the others.
LEMMA MallocImplements ==
  ASSUME HeapInv, HeapInv', Exists, Exists', NEW n, NEW b, Allocated(n, b)
  PROVE  Promise!Malloc
<1>. DEFINE A == arena.blocks
            B == arena'.blocks
            S == AllocatedBlocks
<1>1. PICK t \in AllocatedBlock : \E p \in 1 .. Len(A) + 1 : Inserted(B, A, p, t)
  BY DEF Allocated
<1>2. PICK p \in 1 .. Len(A) + 1 : Inserted(B, A, p, t)
  BY <1>1
<1>3. /\ HeapOK(heap', arena') /\ B \in Seq(AllocatedBlock) /\ A \in Seq(AllocatedBlock)
      /\ S = {A[k] : k \in 1 .. Len(A)} /\ S = ToSet(A) /\ S' = ToSet(B)
  BY OrderedBlocks DEF Allocated, HeapOK, Fitted, AllocatedBlocks
<1>4. /\ Len(A) \in Nat /\ Len(B) = Len(A) + 1 /\ p \in 1 .. Len(B) /\ B[p] = t
      /\ \A i \in 1 .. Len(A) : B[IF i < p THEN i ELSE i + 1] = A[i]
  BY <1>2, <1>3, IndicesOfSeq DEF Inserted
<1>5. S' = S \cup {t}
  BY <1>2, <1>3, InsertedElements
<1>6. Covers(t) \subseteq Memory
  <2>1. Inside(B[p])
    <3>1. Fitted(B) /\ Tiles(heap'.lists, Placed(B))
      BY <1>3 DEF HeapOK
    <3>. QED
      BY <1>4, <3>1, BlocksAreInside
  <2>. QED
    BY <1>4, <2>1 DEF Inside, Memory
<1>7. ASSUME NEW c \in S, NEW x, x \in Covers(t), x \in Covers(c) PROVE FALSE
  <2>1. PICK i \in 1 .. Len(A) : c = A[i]
    BY <1>3
  <2>. DEFINE j == IF i < p THEN i ELSE i + 1
  <2>2. j \in 1 .. Len(B) /\ B[j] = c /\ j # p
    BY <1>4, <2>1
  <2>. HIDE DEF j
  <2>3. j = p
    BY <1>3, <1>4, <1>7, <2>2, AllocatedDisjoint
  <2>. QED
    BY <2>2, <2>3
<1>. HIDE DEF A, B, S
<1>8. \A c \in S : Covers(t) \cap Covers(c) = {}
  BY <1>7
<1>. QED
  BY <1>5, <1>6, <1>8 DEF Promise!Malloc, Promise!Covers, Covers, S

\* A FREE takes one block away, or nothing when another of size 0 is in its place.
LEMMA FreeImplements ==
  ASSUME HeapInv, HeapInv', Exists, Exists', NEW a, NEW j \in 1 .. Len(arena.blocks), Freed(a, j)
  PROVE  Promise!Free \/ UNCHANGED AllocatedBlocks
<1>. DEFINE A == arena.blocks
            B == arena'.blocks
            S == AllocatedBlocks
            b == A[j]
<1>1. /\ Inserted(A, B, j, b) /\ B \in Seq(AllocatedBlock) /\ A \in Seq(AllocatedBlock)
      /\ S = {A[k] : k \in 1 .. Len(A)} /\ S = ToSet(A) /\ S' = ToSet(B)
  BY OrderedBlocks DEF Freed, HeapOK, Fitted, AllocatedBlocks
<1>2. S = S' \cup {b} /\ b \in S
  BY <1>1, InsertedElements
<1>. HIDE DEF A, B, S, b
<1>3. S' = S \/ S' = S \ {b}
  BY <1>2
<1>. QED
  BY <1>2, <1>3 DEF Promise!Free, S

\* A WRITE rewrites the blocks at and behind its address.
LEMMA WriteImplements ==
  ASSUME HeapInv, HeapInv', NEW a \in Addresses, NEW m \in Messages, Write(a, m)
  PROVE  Promise!Write \/ UNCHANGED AllocatedBlocks
<1>. DEFINE A == arena.blocks
            B == arena'.blocks
            S == AllocatedBlocks
            l == LeftBound(A, a)
<1>1. Exists /\ heap' = heap
  BY DEF Write, Walks, Ready, Exists
<1>2. CASE A = <<>>
  <2>1. arena' = arena
    BY <1>2 DEF Write
  <2>. QED
    BY <1>1, <2>1 DEF AllocatedBlocks, Exists
<1>3. CASE A # <<>>
  <2>1. /\ arena' = [arena EXCEPT !.blocks = Written(A, a, m)]
        /\ ~Faults(A, a, Len(m)) /\ a \in Nat /\ Len(m) \in Nat
    BY <1>3, AddressesAreNat DEF Write, Walks
  <2>2. /\ HeapOK(heap, arena) /\ A \in Seq(AllocatedBlock)
        /\ S = {A[k] : k \in 1 .. Len(A)}
    BY <1>1, OrderedBlocks
  <2>3. B = Written(A, a, m)
    BY <2>1, <2>2 DEF HeapOK, Arenas
  <2>4. /\ B \in Seq(AllocatedBlock) /\ Len(B) = Len(A)
        /\ \A k \in 1 .. Len(A) : /\ B[k].address = A[k].address /\ B[k].size = A[k].size
                                  /\ B[k].payload = NewPayload(A, a, m, k)
    BY <2>1, <2>2, <2>3, WrittenIs
  <2>5. S' = {B[k] : k \in 1 .. Len(A)}
    <3>1. S' = ToSet(B)
      BY <1>1 DEF AllocatedBlocks, Exists
    <3>. QED
      BY <2>4, <3>1, IndicesOfSeq
  <2>6. a \in Memory /\ \E b \in S : a \in Covers(b)
    <3>1. l \in 1 .. Len(A) /\ A[l].address <= a /\ a < A[l].address + A[l].size
      BY <1>3, <2>1, <2>2, LeftBoundHolds
    <3>2. A[l].address \in Nat /\ A[l].size \in Nat
      BY <2>2, <3>1, AllocatedBlocksOf
    <3>3. a \in Covers(A[l])
      BY <2>1, <3>1, <3>2 DEF Covers
    <3>4. Inside(A[l])
      <4>1. Fitted(A) /\ Tiles(heap.lists, Placed(A))
        BY <2>2 DEF HeapOK
      <4>. QED
        BY <3>1, <4>1, BlocksAreInside
    <3>5. a \in Memory
      BY <3>3, <3>4 DEF Inside, Memory
    <3>. QED
      BY <2>2, <3>1, <3>3, <3>5
  <2>7. ASSUME NEW k \in 1 .. Len(A)
        PROVE  Promise!Rewritten(A[k], a, B[k])
    <3>1. A[k] \in AllocatedBlock /\ B[k] \in AllocatedBlock
      BY <2>2, <2>4, AllocatedBlocksOf
    <3>2. DOMAIN A[k].payload = 0 .. A[k].size - 1 /\ DOMAIN B[k].payload = 0 .. A[k].size - 1
      BY <2>4, <3>1, AllocatedBlockIs
    <3>3. ASSUME NEW i \in 0 .. A[k].size - 1, A[k].address + i < a
          PROVE  B[k].payload[i] = A[k].payload[i]
      BY <1>3, <2>1, <2>2, <2>4, <3>3, BelowUnchanged
    <3>. QED
      BY <2>4, <3>2, <3>3 DEF Promise!Rewritten
  <2>. HIDE DEF A, B, S
  <2>8. /\ \A b \in S : \E c \in S' : Promise!Rewritten(b, a, c)
        /\ \A c \in S' : \E b \in S : Promise!Rewritten(b, a, c)
    BY <2>2, <2>5, <2>7
  <2>9. \E b \in S : a \in Promise!Covers(b)
    BY <2>6 DEF Promise!Covers, Covers
  <2>. QED
    BY <2>6, <2>8, <2>9 DEF Promise!Write, S
<1>. QED
  BY <1>2, <1>3

\* Every step of the heap is one of Allocator, or none that it sees.
LEMMA HeapImplements == HeapInv /\ HeapInv' /\ [Next]_vars => [Promise!Next]_AllocatedBlocks
<1>. SUFFICES ASSUME HeapInv, HeapInv', [Next]_vars
     PROVE  Promise!Next \/ UNCHANGED AllocatedBlocks
  BY Zenon
<1>1. ASSUME UNCHANGED <<heap, arena>> PROVE UNCHANGED AllocatedBlocks
  BY <1>1 DEF AllocatedBlocks, Exists
<1>2. ASSUME heap' = NoHeap PROVE Promise!Next
  BY <1>2 DEF AllocatedBlocks, Exists, Promise!Next, Promise!Reset
<1>3. CASE UNCHANGED vars
  BY <1>1, <1>3 DEF vars
<1>4. CASE CreateHeap
  <2>1. arena'.blocks = <<>>
    BY <1>4 DEF CreateHeap, InitialArena
  <2>2. AllocatedBlocks' = {}
    BY <2>1 DEF AllocatedBlocks, ToSet
  <2>. QED
    BY <2>2 DEF Promise!Next, Promise!Reset
<1>5. CASE DestroyHeap
  BY <1>2, <1>5 DEF DestroyHeap
<1>6. ASSUME NEW n \in MallocSizes, Malloc(n) PROVE Promise!Next \/ UNCHANGED AllocatedBlocks
  <2>1. Exists
    BY <1>6 DEF Malloc, Ready, Exists
  <2>2. CASE UNCHANGED <<heap, arena>>
    BY <1>1, <2>2
  <2>3. ASSUME NEW b, Allocated(n, b) PROVE Promise!Next
    <3>1. Exists'
      BY <2>3, OrderedExists DEF Allocated, Exists
    <3>. QED
      BY <2>1, <2>3, <3>1, MallocImplements DEF Promise!Next
  <2>. QED
    BY <1>6, <2>2, <2>3, MallocStep
<1>7. ASSUME NEW a \in Addresses, Free(a) PROVE Promise!Next \/ UNCHANGED AllocatedBlocks
  <2>1. Exists
    BY <1>7 DEF Free, Ready, Exists
  <2>2. CASE UNCHANGED <<heap, arena>>
    BY <1>1, <2>2
  <2>3. ASSUME NEW j \in 1 .. Len(arena.blocks), Freed(a, j)
        PROVE  Promise!Next \/ UNCHANGED AllocatedBlocks
    <3>1. Exists'
      BY <2>3, OrderedExists DEF Freed, Exists
    <3>. QED
      BY <2>1, <2>3, <3>1, FreeImplements DEF Promise!Next
  <2>. QED
    BY <1>7, <2>2, <2>3, FreeStep
<1>8. ASSUME NEW a \in Addresses, NEW m \in Messages, Write(a, m)
      PROVE  Promise!Next \/ UNCHANGED AllocatedBlocks
  BY <1>8, WriteImplements DEF Promise!Next
<1>9. ASSUME NEW a, NEW n, Read(a, n) PROVE UNCHANGED AllocatedBlocks
  BY <1>1, <1>9 DEF Read
<1>10. ASSUME NEW a, NEW n, Fault(a, n) PROVE Promise!Next
  BY <1>2, <1>10 DEF Fault
<1>11. ASSUME NEW a, NEW n, Crash(a, n) PROVE UNCHANGED AllocatedBlocks
  BY <1>1, <1>11 DEF Crash
<1>. QED
  BY <1>3, <1>4, <1>5, <1>6, <1>7, <1>8, <1>9, <1>10, <1>11 DEF Next

\* The heap implements Allocator: allocated blocks lie in the memory and share no
\* byte, and a WRITE at an address changes no byte below it, though WRITE walks
\* the blocks by their order and not by their addresses.
THEOREM HeapImplementsAllocator == Spec => AllocatorSpec
<1>1. Init => Promise!Init
  BY DEF Init, Promise!Init, AllocatedBlocks, Exists
<1>2. HeapInv /\ HeapInv' /\ [Next]_vars => [Promise!Next]_AllocatedBlocks
  BY HeapImplements
<1>. QED
  BY <1>1, <1>2, HeapInvariant, PTL DEF Spec, AllocatorSpec, Promise!Spec

\* Blocks that stand at the same places.
SamePlaces(A, B) ==
  /\ Len(B) = Len(A)
  /\ \A k \in 1 .. Len(A) : B[k].address = A[k].address /\ B[k].size = A[k].size

\* READ and WRITE walk by addresses and sizes: over blocks in the same places
\* they take the same walk.
LEMMA WalkUnmoved ==
  ASSUME NEW A \in Seq(AllocatedBlock), NEW B \in Seq(AllocatedBlock), SamePlaces(A, B),
         NEW a \in Nat, A # <<>>, LeftBound(A, a) \in 1 .. Len(A)
  PROVE  /\ LeftBound(B, a) = LeftBound(A, a) /\ Walked(B, a) = Walked(A, a)
         /\ RunsOff(B, a) = RunsOff(A, a)
         /\ \A k \in 1 .. Len(A), i \in Int : Place(B, a, k, i) = Place(A, a, k, i)
<1>. DEFINE l == LeftBound(A, a)
            n == Len(A)
            H(C) == {i \in 1 .. Len(Front(C)) : Holds(Front(C)[i], a)}
<1>1. /\ n \in Nat /\ n > 0 /\ Len(B) = n /\ B # <<>>
      /\ \A k \in 1 .. n : B[k].address = A[k].address /\ B[k].size = A[k].size
  <2>1. n \in Nat /\ n # 0
    BY AllocatedBlocksOf, EmptySeq
  <2>2. Len(B) = n
    BY DEF SamePlaces
  <2>3. B # <<>>
    BY <2>1, <2>2, EmptySeq
  <2>. QED
    BY <2>1, <2>2, <2>3 DEF SamePlaces
<1>2. LeftBound(B, a) = l
  <2>1. CASE n = 1
    BY <1>1, <2>1 DEF LeftBound
  <2>2. CASE n # 1
    <3>1. /\ Len(Front(A)) = n - 1 /\ \A i \in 1 .. n - 1 : Front(A)[i] = A[i]
          /\ Len(Front(B)) = n - 1 /\ \A i \in 1 .. n - 1 : Front(B)[i] = B[i]
      BY <1>1, FrontProperties
    <3>2. \A i \in 1 .. n - 1 : Holds(Front(B)[i], a) = Holds(Front(A)[i], a)
      <4>1. \A i \in 1 .. n - 1 : i \in 1 .. n
        BY <1>1
      <4>. QED
        BY <1>1, <3>1, <4>1 DEF Holds
    <3>3. H(A) = H(B)
      BY <3>1, <3>2
    <3>4. /\ LeftBound(A, a) = IF H(A) # {} THEN Min(H(A)) ELSE 0
          /\ LeftBound(B, a) = IF H(B) # {} THEN Min(H(B)) ELSE 0
      BY <1>1, <2>2 DEF LeftBound, SelectInSeq
    <3>. HIDE DEF H
    <3>. QED
      BY <3>3, <3>4
  <2>. QED
    BY <2>1, <2>2
<1>3. RightBound(B, l) = RightBound(A, l)
  <2>1. \A k \in l .. n - 1 : k \in 1 .. n /\ k + 1 \in 1 .. n
    BY <1>1
  <2>2. \A k \in l .. n - 1 : Adjacent(B, k) = Adjacent(A, k)
    BY <1>1, <2>1 DEF Adjacent
  <2>3. AdjacentPairs(B, l, n - 1) = AdjacentPairs(A, l, n - 1)
    BY <2>2 DEF AdjacentPairs
  <2>. QED
    BY <1>1, <2>3 DEF RightBound
<1>4. ASSUME NEW k \in 1 .. n, NEW i \in Int
      PROVE  Place(B, a, k, i) = Place(A, a, k, i)
  <2>1. \A j \in l .. k - 1 : j \in 1 .. n
    BY <1>1
  <2>2. [j \in l .. k - 1 |-> B[j].size] = [j \in l .. k - 1 |-> A[j].size]
    BY <1>1, <2>1
  <2>3. B[l].address = A[l].address
    BY <1>1
  <2>. QED
    BY <1>2, <2>2, <2>3 DEF Place
<1>. QED
  BY <1>2, <1>3, <1>4 DEF Walked, RunsOff

\* A READ of what a WRITE changed answers a part of the message from its start.
LEMMA ReadsPrefix ==
  ASSUME NEW A \in Seq(AllocatedBlock), A # <<>>, NEW a \in Nat, NEW m \in Messages,
         ~Faults(A, a, Len(m)), ~RunsOff(A, a)
  PROVE  IsPrefix(BytesRead(Written(A, a, m), a, Len(m)), m)
<1>. DEFINE B == Written(A, a, m)
            l == LeftBound(A, a)
            s == BytesRead(B, a, Len(m))
<1>1. Len(m) \in Nat /\ m \in Seq(Bytes)
  <2>1. m \in Seq(Characters) /\ Characters \subseteq Bytes
    BY HeapAssumption DEF Bytes
  <2>. QED
    BY <2>1, SeqMonotonic, LenProperties
<1>2. /\ B \in Seq(AllocatedBlock) /\ SamePlaces(A, B)
      /\ \A k \in 1 .. Len(A) : B[k].payload = NewPayload(A, a, m, k)
  BY WrittenIs DEF SamePlaces
<1>3. l \in 1 .. Len(A) /\ A[l].address <= a
  BY <1>1, LeftBoundHolds
<1>. HIDE DEF B
<1>4. /\ LeftBound(B, a) = l /\ Walked(B, a) = Walked(A, a) /\ ~RunsOff(B, a)
      /\ \A k \in 1 .. Len(A), i \in Int : Place(B, a, k, i) = Place(A, a, k, i)
  BY <1>2, <1>3, WalkUnmoved
<1>5. /\ Len(B) = Len(A) /\ \A k \in 1 .. Len(A) : B[k].size = A[k].size
      /\ B[l].address = A[l].address /\ B # <<>>
  <2>1. Len(A) # 0
    BY EmptySeq
  <2>. QED
    BY <1>2, <1>3, <2>1, EmptySeq DEF SamePlaces
<1>6. s \in Seq(Bytes) /\ Len(s) <= Len(m) /\ \A p \in 1 .. Len(s) : FoundOnWalk(B, a, s, p)
  BY <1>1, <1>2, <1>3, <1>4, <1>5, BytesReadFinds
<1>. HIDE DEF s, l
<1>7. ASSUME NEW p \in 1 .. Len(s)
      PROVE  s[p] = m[p]
  <2>1. PICK k \in Walked(B, a) : \E i \in 0 .. B[k].size - 1 :
          k \in 1 .. Len(B) /\ Place(B, a, k, i) = p - 1 /\ s[p] = B[k].payload[i]
    BY <1>6 DEF FoundOnWalk
  <2>2. PICK i \in 0 .. B[k].size - 1 :
          k \in 1 .. Len(B) /\ Place(B, a, k, i) = p - 1 /\ s[p] = B[k].payload[i]
    BY <2>1
  <2>3. k \in 1 .. Len(A) /\ k \in Walked(A, a) /\ i \in 0 .. A[k].size - 1 /\ i \in Int
    BY <1>4, <1>5, <2>2
  <2>4. Place(A, a, k, i) = p - 1 /\ s[p] = NewPayload(A, a, m, k)[i]
    BY <1>2, <1>4, <2>2, <2>3
  <2>5. Len(s) \in Nat
    BY <1>6, LenProperties
  <2>6. p - 1 \in 0 .. Len(m) - 1 /\ (p - 1) + 1 = p
    BY <1>1, <1>6, <2>5
  <2>. DEFINE q == p - 1
  <2>. HIDE DEF q
  <2>7. NewPayload(A, a, m, k)[i] = m[Place(A, a, k, i) + 1]
    BY <2>3, <2>4, <2>6 DEF NewPayload, q
  <2>. QED
    BY <2>4, <2>6, <2>7
<1>8. IsPrefix(s, m)
  BY <1>1, <1>6, <1>7, PrefixIs
<1>. QED
  BY <1>8 DEF s, B

\* A block ends before every block behind it begins, when none of the two is empty.
LEMMA BlocksApart ==
  ASSUME NEW h, NEW r, HeapOK(h, r), NEW j \in 1 .. Len(r.blocks), NEW k \in 1 .. Len(r.blocks),
         j < k, r.blocks[j].size > 0, r.blocks[k].size > 0
  PROVE  r.blocks[j].address + r.blocks[j].size <= r.blocks[k].address
<1>. DEFINE A == r.blocks
            p == A[j].address
            q == A[k].address
            c == A[j].size
            d == A[k].size
<1>1. A \in Seq(AllocatedBlock) /\ p <= q
  BY DEF HeapOK, Fitted, ByAddress
<1>2. p \in Nat /\ q \in Nat /\ c \in Nat /\ d \in Nat
  BY <1>1, AllocatedBlocksOf
<1>3. q \in Covers(A[k]) /\ (q < p + c => q \in Covers(A[j]))
  <2>1. q \in q .. q + d - 1 /\ (q < p + c => q \in p .. p + c - 1)
    <3>1. c > 0 /\ d > 0
      OBVIOUS
    <3>. HIDE DEF p, q, c, d
    <3>. QED
      BY <1>1, <1>2, <3>1
  <2>. QED
    BY <2>1 DEF Covers
<1>4. ASSUME q < p + c PROVE FALSE
  <2>1. q \in Covers(r.blocks[k]) /\ q \in Covers(r.blocks[j])
    BY <1>3, <1>4
  <2>. HIDE DEF q
  <2>2. j = k
    BY <2>1, AllocatedDisjoint
  <2>. QED
    BY <2>2
<1>5. p + c <= q
  <2>. HIDE DEF p, q, c, d
  <2>. QED
    BY <1>2, <1>4
<1>. QED
  BY <1>5

\* Every byte up to one that is as near as the reach is long is held by a block.
LEMMA ReachCovers ==
  ASSUME NEW A, NEW a \in Nat, NEW l, NEW x \in Int, a <= x,
         Cardinality(Reach(A, a, l)) > x - a, NEW y \in a .. x
  PROVE  \E k \in l .. Len(A) : Holds(A[k], y)
<1>. DEFINE R == Reach(A, a, l)
            b == a + NumberOfLists * MaximumSize
<1>1. b \in Int /\ R \subseteq a .. b
  BY HeapAssumption DEF Reach
<1>2. SUFFICES ASSUME ~\E k \in l .. Len(A) : Holds(A[k], y) PROVE FALSE
  OBVIOUS
<1>3. R \subseteq a .. x - 1
  <2>. SUFFICES ASSUME NEW z \in R PROVE z \in a .. x - 1
    OBVIOUS
  <2>1. z \in a .. b /\ \A w \in a .. z : \E k \in l .. Len(A) : Holds(A[k], w)
    BY DEF Reach
  <2>2. y \notin a .. z
    BY <1>2, <2>1
  <2>. HIDE DEF R, b
  <2>3. z \in Int /\ a <= z
    BY <1>1, <2>1
  <2>. QED
    BY <2>2, <2>3
<1>4. Cardinality(R) <= x - a /\ Cardinality(R) \in Nat
  <2>1. IsFiniteSet(a .. x - 1) /\ Cardinality(a .. x - 1) = x - a
    <3>. DEFINE v == x - 1
    <3>1. v \in Int /\ a \in Int /\ (a > v => x - a = 0) /\ (~(a > v) => v - a + 1 = x - a)
      OBVIOUS
    <3>. HIDE DEF v
    <3>2. IsFiniteSet(a .. v) /\ Cardinality(a .. v) = IF a > v THEN 0 ELSE v - a + 1
      BY <3>1, FS_Interval
    <3>. QED
      BY <3>1, <3>2 DEF v
  <2>2. IsFiniteSet(R) /\ Cardinality(R) <= Cardinality(a .. x - 1)
    <3>. HIDE DEF R
    <3>. QED
      BY <1>3, <2>1, FS_Subset
  <2>. QED
    BY <2>1, <2>2, FS_CardinalityType
<1>. QED
  BY <1>4

\* Where every byte from a up to block k is held by a block that is not empty, no
\* gap lies between the blocks.
LEMMA HeldIsAdjacent ==
  ASSUME NEW h, NEW r, HeapOK(h, r), NEW a \in Nat,
         NEW l \in 1 .. Len(r.blocks), a < r.blocks[l].address + r.blocks[l].size,
         \A i \in l .. Len(r.blocks) : r.blocks[i].size > 0,
         NEW k \in l .. Len(r.blocks), NEW x \in Int, r.blocks[k].address <= x,
         \A y \in a .. x : \E i \in l .. Len(r.blocks) : Holds(r.blocks[i], y),
         NEW j \in l .. k - 1
  PROVE  Adjacent(r.blocks, j)
<1>. DEFINE A == r.blocks
            n == Len(A)
            b(i) == A[i].address
            c(i) == A[i].size
            e(i) == b(i) + c(i)
<1>1. A \in Seq(AllocatedBlock) /\ n \in Nat /\ \A i \in 1 .. n : b(i) \in Nat /\ c(i) \in Nat
  <2>1. A \in Seq(AllocatedBlock)
    BY DEF HeapOK, Fitted
  <2>. HIDE DEF A
  <2>. QED
    BY <2>1, AllocatedBlocksOf
<1>2. /\ j \in l .. n /\ j + 1 \in l .. n /\ j + 1 <= k /\ k \in l .. n /\ l \in l .. n
      /\ \A i \in l .. n : i \in 1 .. n /\ i \in Int
  <2>1. l \in 1 .. n /\ k \in l .. n
    OBVIOUS
  <2>. HIDE DEF n
  <2>. QED
    BY <1>1, <2>1
<1>3. ASSUME NEW i \in l .. n, NEW o \in l .. n, i < o
      PROVE  e(i) <= b(o)
  BY <1>2, <1>3, BlocksApart
<1>4. /\ a < e(l) /\ b(k) <= x
      /\ \A y \in a .. x : \E i \in l .. n : b(i) <= y /\ y < e(i)
  BY DEF Holds
<1>5. b(j + 1) = e(j) => Adjacent(A, j)
  BY DEF Adjacent
<1>. HIDE DEF A, n, b, c
<1>6. \A i \in l .. n : b(i) \in Nat /\ c(i) \in Nat /\ e(i) \in Nat
  <2>. SUFFICES ASSUME NEW i \in l .. n PROVE b(i) \in Nat /\ c(i) \in Nat /\ e(i) \in Nat
    OBVIOUS
  <2>1. b(i) \in Nat /\ c(i) \in Nat
    BY <1>1, <1>2
  <2>. QED
    BY <2>1
<1>7. ASSUME NEW i \in l .. n, NEW o \in l .. n, i <= o
      PROVE  b(i) <= b(o) /\ e(i) <= e(o)
  <2>1. CASE i = o
    BY <1>6, <2>1
  <2>2. CASE i # o
    <3>1. e(i) <= b(o)
      BY <1>2, <1>3, <1>7, <2>2
    <3>2. b(i) \in Nat /\ c(i) \in Nat /\ b(o) \in Nat /\ c(o) \in Nat
      BY <1>6
    <3>. QED
      BY <3>1, <3>2
  <2>. QED
    BY <2>1, <2>2
<1>. DEFINE y == e(j)
            z == b(j + 1)
<1>8. SUFFICES ASSUME y # z PROVE FALSE
  BY <1>5 DEF A
<1>9. y <= z /\ y \in Nat /\ z \in Nat
  BY <1>2, <1>3, <1>6
<1>10. y \in a .. x
  <2>1. e(l) <= y /\ z <= b(k) /\ e(l) \in Nat /\ b(k) \in Nat
    BY <1>2, <1>6, <1>7
  <2>. HIDE DEF y, z, e
  <2>. QED
    BY <1>4, <1>9, <2>1
<1>11. PICK i \in l .. n : b(i) <= y /\ y < e(i)
  BY <1>4, <1>10
<1>12. ~(i <= j)
  <2>1. (i <= j => e(i) <= y) /\ e(i) \in Nat
    BY <1>2, <1>6, <1>7
  <2>. HIDE DEF y, e
  <2>. QED
    BY <1>9, <1>11, <2>1
<1>13. j + 1 <= i
  BY <1>2, <1>12
<1>14. z <= b(i) /\ b(i) \in Nat
  BY <1>2, <1>6, <1>7, <1>13
<1>. HIDE DEF y, z
<1>. QED
  BY <1>8, <1>9, <1>11, <1>14

\* Over adjacent blocks places follow addresses.
LEMMA PlaceOfAdjacent ==
  ASSUME NEW A \in Seq(AllocatedBlock), NEW a \in Nat, LeftBound(A, a) \in 1 .. Len(A),
         NEW k \in LeftBound(A, a) .. Len(A), \A j \in LeftBound(A, a) .. k - 1 : Adjacent(A, j)
  PROVE  Place(A, a, k, 0) = A[k].address - a
<1>. DEFINE l == LeftBound(A, a)
            n == Len(A)
            P(i) == Place(A, a, i, 0)
            bad == {i \in l .. k : P(i) # A[i].address - a}
<1>1. /\ n \in Nat /\ l \in 1 .. n
      /\ \A i \in l .. n : A[i].address \in Nat /\ A[i].size \in Nat
  BY AllocatedBlocksOf
<1>2. P(l) = A[l].address - a /\ \A i \in l .. n : P(i + 1) = P(i) + A[i].size
  BY PlaceIs
<1>. HIDE DEF l, P
<1>3. SUFFICES ASSUME bad # {} PROVE FALSE
  <2>1. k \in l .. k
    BY <1>1 DEF l
  <2>. QED
    BY <2>1 DEF P
<1>4. bad \in SUBSET Nat
  BY <1>1
<1>5. PICK i \in bad : \A j \in bad : i <= j
  BY <1>3, <1>4, LeastExists
<1>6. i \in l .. k /\ i # l /\ P(i) # A[i].address - a
  BY <1>2, <1>5
<1>. DEFINE j == i - 1
<1>7. j \in l .. k - 1 /\ j \in l .. k /\ j \in l .. n /\ j + 1 = i /\ ~(i <= j) /\ i \in l .. n
  BY <1>1, <1>6 DEF l
<1>8. P(j) = A[j].address - a /\ Adjacent(A, j)
  BY <1>5, <1>7 DEF l
<1>9. P(i) = P(j) + A[j].size /\ A[i].address = A[j].address + A[j].size
  <2>. HIDE DEF j
  <2>. QED
    BY <1>2, <1>7, <1>8 DEF Adjacent
<1>10. A[j].address \in Nat /\ A[j].size \in Nat
  BY <1>1, <1>7
<1>. HIDE DEF j
<1>. QED
  BY <1>6, <1>8, <1>9, <1>10

\* Adjacent blocks behind the one of address a have room for n bytes, and none of
\* them is empty.
RoomFor(A, a, n) ==
  LET l == LeftBound(A, a)
  IN  /\ l < Len(A) /\ Adjacent(A, l) /\ Cardinality(Reach(A, a, l)) >= n
      /\ \A k \in l .. Len(A) : A[k].size > 0

\* Byte i of block k is one that message m at address a is meant for.
MeantFor(A, a, m, k, i) == A[k].address + i - a \in 0 .. Len(m) - 1

\* A message is stored whole, from its address on, where there is room for it.
LEMMA StoresWhole ==
  ASSUME NEW h, NEW r, HeapOK(h, r), r.blocks # <<>>, NEW a \in Nat, NEW m \in Messages,
         ~Faults(r.blocks, a, Len(m)), RoomFor(r.blocks, a, Len(m)),
         NEW k \in LeftBound(r.blocks, a) .. Len(r.blocks), NEW i \in 0 .. r.blocks[k].size - 1,
         MeantFor(r.blocks, a, m, k, i)
  PROVE  NewPayload(r.blocks, a, m, k)[i] = m[r.blocks[k].address + i - a + 1]
<1>. DEFINE A == r.blocks
            l == LeftBound(A, a)
            n == Len(A)
            R == RightBound(A, l)
            x == A[k].address + i
<1>1. A \in Seq(AllocatedBlock) /\ n \in Nat /\ Len(m) \in Nat
  BY AllocatedBlocksOf, AddressesAreNat DEF HeapOK, Fitted
<1>2. l \in 1 .. n /\ a < A[l].address + A[l].size /\ R \in 1 .. n
  BY <1>1, LeftBoundHolds, RightBoundIs
<1>3. k \in 1 .. n /\ A[k].address \in Nat /\ A[k].size \in Nat
  <2>1. k \in l .. n
    OBVIOUS
  <2>2. k \in 1 .. n
    <3>. HIDE DEF l, n
    <3>. QED
      BY <1>1, <1>2, <2>1
  <2>. QED
    BY <1>1, <2>2, AllocatedBlocksOf
<1>15. x - a = A[k].address + i - a /\ (x - a) + 1 = A[k].address + i - a + 1
  <2>. DEFINE p == A[k].address
  <2>1. x = p + i /\ p \in Nat /\ i \in Int
    BY <1>3
  <2>. HIDE DEF p, x
  <2>2. x - a = p + i - a /\ (x - a) + 1 = p + i - a + 1
    BY <2>1
  <2>. QED
    BY <2>2 DEF p
<1>4. x \in Int /\ A[k].address <= x /\ a <= x /\ x - a <= Len(m) - 1
  <2>. DEFINE p == A[k].address
              c == Len(m)
  <2>1. x - a \in 0 .. c - 1 /\ i \in Nat /\ x = p + i /\ p \in Nat /\ c \in Nat
    BY <1>1, <1>3, <1>15 DEF MeantFor
  <2>. HIDE DEF p, c, x
  <2>2. x \in Int /\ p <= x /\ a <= x /\ x - a <= c - 1
    BY <2>1
  <2>. QED
    BY <2>2 DEF p, c
<1>5. Cardinality(Reach(A, a, l)) > x - a
  <2>. DEFINE c == Cardinality(Reach(A, a, l))
  <2>1. c \in Nat
    <3>1. IsFiniteSet(a .. a + NumberOfLists * MaximumSize)
      <4>1. a + NumberOfLists * MaximumSize \in Int
        BY HeapAssumption
      <4>. QED
        BY <4>1, FS_Interval
    <3>2. IsFiniteSet(Reach(A, a, l))
      BY <3>1, FS_Subset DEF Reach
    <3>. QED
      BY <3>2, FS_CardinalityType
  <2>2. c >= Len(m)
    BY DEF RoomFor
  <2>. HIDE DEF c, x
  <2>. QED
    BY <1>1, <1>4, <2>1, <2>2 DEF c
<1>6. \A y \in a .. x : \E j \in l .. n : Holds(A[j], y)
  <2>. HIDE DEF A, l, n, x
  <2>. QED
    BY <1>4, <1>5, ReachCovers DEF n
<1>7. \A j \in l .. k - 1 : Adjacent(A, j)
  <2>1. /\ l \in 1 .. Len(r.blocks) /\ a < r.blocks[l].address + r.blocks[l].size
        /\ \A j \in l .. Len(r.blocks) : r.blocks[j].size > 0
        /\ k \in l .. Len(r.blocks) /\ r.blocks[k].address <= x
        /\ \A y \in a .. x : \E j \in l .. Len(r.blocks) : Holds(r.blocks[j], y)
    BY <1>2, <1>4, <1>6 DEF RoomFor
  <2>. HIDE DEF l, x
  <2>. QED
    BY <1>4, <2>1, HeldIsAdjacent
<1>8. Adjacent(A, l) /\ l < n
  BY DEF RoomFor
<1>9. Place(A, a, k, 0) = A[k].address - a
  BY <1>1, <1>2, <1>7, PlaceOfAdjacent
<1>10. Place(A, a, k, i) = x - a
  <2>1. Place(A, a, k, i) = Place(A, a, k, 0) + i
    <3>1. k \in l .. n + 1 /\ i \in Int
      BY <1>1, <1>2, <1>3
    <3>. QED
      BY <1>1, <1>2, <3>1, PlaceIs
  <2>2. i \in Int
    BY <1>3
  <2>. QED
    BY <1>3, <1>9, <2>1, <2>2
<1>11. k <= R
  <2>. DEFINE T == {1} \cup {j + 1 : j \in AdjacentPairs(A, l, n - 1)}
  <2>1. T \in SUBSET (0 .. n) /\ T # {}
    <3>1. \A j \in AdjacentPairs(A, l, n - 1) : j \in l .. n - 1
      BY DEF AdjacentPairs
    <3>2. \A j \in l .. n - 1 : j + 1 \in 0 .. n
      BY <1>1, <1>2
    <3>3. 1 \in 0 .. n
      BY <1>1, <1>2
    <3>. QED
      BY <3>1, <3>2, <3>3
  <2>2. R = Max(T)
    BY DEF RightBound
  <2>3. ASSUME NEW j \in l .. n - 1, Adjacent(A, j)
        PROVE  j + 1 <= R
    <3>1. j \in AdjacentPairs(A, l, n - 1)
      BY <2>3 DEF AdjacentPairs
    <3>2. j + 1 \in T
      BY <3>1
    <3>. HIDE DEF T, R, n
    <3>3. R >= j + 1 /\ R \in Nat /\ j + 1 \in Int
      <4>1. \A y \in T : Max(T) >= y
        BY <1>1, <2>1, MaxIsGreatest
      <4>. QED
        BY <1>1, <1>2, <2>2, <3>2, <4>1
    <3>. QED
      BY <3>3
  <2>. HIDE DEF T, R
  <2>4. CASE k = l
    <3>1. l \in l .. n - 1
      BY <1>1, <1>2, <1>8
    <3>2. l + 1 <= R
      BY <1>8, <2>3, <3>1
    <3>. QED
      BY <1>2, <2>4, <3>2
  <2>5. CASE k # l
    <3>. DEFINE j == k - 1
    <3>1. j \in l .. n - 1 /\ j \in l .. k - 1 /\ j + 1 = k
      BY <1>1, <1>2, <1>3, <2>5
    <3>. HIDE DEF j
    <3>2. j + 1 <= R
      BY <1>7, <2>3, <3>1
    <3>. QED
      BY <3>1, <3>2
  <2>. QED
    BY <2>4, <2>5
<1>12. k \in Walked(A, a)
  <2>1. k \in l .. R
    <3>. HIDE DEF R
    <3>. QED
      BY <1>2, <1>3, <1>11
  <2>. QED
    BY <2>1 DEF Walked
<1>13. Place(A, a, k, i) \in 0 .. Len(m) - 1
  <2>1. x - a \in 0 .. Len(m) - 1
    <3>1. A[k].address + i - a \in 0 .. Len(m) - 1
      BY DEF MeantFor
    <3>. HIDE DEF x
    <3>. QED
      BY <1>15, <3>1
  <2>. HIDE DEF x
  <2>. QED
    BY <1>10, <2>1
<1>14. NewPayload(A, a, m, k)[i] = m[(x - a) + 1]
  <2>1. i \in 0 .. A[k].size - 1
    OBVIOUS
  <2>. HIDE DEF A, x
  <2>. QED
    BY <1>10, <1>12, <1>13, <2>1 DEF NewPayload
<1>. HIDE DEF x
<1>. QED
  BY <1>14, <1>15

\* What the invariant says of a WRITE that could be made.
LEMMA OrderedReadsBack == HeapInv => ReadsBackWritten
<1>. SUFFICES ASSUME HeapInv, Exists, arena.blocks # <<>>, NEW a \in Addresses, NEW m \in Messages,
                     ~Faults(arena.blocks, a, Len(m)), ~RunsOff(arena.blocks, a)
              PROVE
       LET A == arena.blocks  B == Written(A, a, m) \o <<>>
       IN  /\ IsPrefix(BytesRead(B, a, Len(m)), m)
           /\ \A k \in DOMAIN A : \A i \in DOMAIN A[k].payload :
                A[k].address + i < a => B[k].payload[i] = A[k].payload[i]
           /\ LET l == LeftBound(A, a)
              IN  /\ l < Len(A) /\ Adjacent(A, l) /\ Cardinality(Reach(A, a, l)) >= Len(m)
                  /\ \A k \in l .. Len(A) : A[k].size > 0
                  => \A k \in l .. Len(A) : \A i \in DOMAIN B[k].payload :
                       A[k].address + i - a \in 0 .. Len(m) - 1 =>
                         B[k].payload[i] = m[A[k].address + i - a + 1]
  BY Zenon DEF ReadsBackWritten
<1>. DEFINE A == arena.blocks
            W == Written(A, a, m)
            B == W \o <<>>
            l == LeftBound(A, a)
<1>1. /\ HeapOK(heap, arena) /\ A \in Seq(AllocatedBlock) /\ a \in Nat /\ Len(m) \in Nat
  BY OrderedBlocks, AddressesAreNat
<1>2. /\ W \in Seq(AllocatedBlock) /\ Len(W) = Len(A)
      /\ \A k \in 1 .. Len(A) : W[k].size = A[k].size /\ W[k].payload = NewPayload(A, a, m, k)
  BY <1>1, WrittenIs
<1>3. B = W
  <2>. HIDE DEF W
  <2>. QED
    BY <1>2, ConcatEmptySeq
<1>4. l \in 1 .. Len(A)
  BY <1>1, LeftBoundHolds
<1>5. /\ DOMAIN A = 1 .. Len(A)
      /\ \A k \in 1 .. Len(A) : /\ DOMAIN A[k].payload = 0 .. A[k].size - 1
                                /\ DOMAIN W[k].payload = 0 .. A[k].size - 1
  <2>. HIDE DEF W, A
  <2>1. \A k \in 1 .. Len(A) : A[k] \in AllocatedBlock /\ W[k] \in AllocatedBlock
    BY <1>1, <1>2, AllocatedBlocksOf
  <2>2. \A b \in AllocatedBlock : DOMAIN b.payload = 0 .. b.size - 1
    BY AllocatedBlockIs
  <2>. QED
    BY <1>1, <1>2, <2>1, <2>2, AllocatedBlocksOf
<1>6. IsPrefix(BytesRead(B, a, Len(m)), m)
  BY <1>1, <1>3, ReadsPrefix
<1>7. ASSUME NEW k \in DOMAIN A, NEW i \in DOMAIN A[k].payload, A[k].address + i < a
      PROVE  B[k].payload[i] = A[k].payload[i]
  <2>1. k \in 1 .. Len(A) /\ i \in 0 .. A[k].size - 1
    BY <1>5
  <2>2. NewPayload(A, a, m, k)[i] = A[k].payload[i]
    BY <1>1, <1>7, <2>1, BelowUnchanged
  <2>. QED
    BY <1>2, <1>3, <2>1, <2>2
<1>8. ASSUME l < Len(A), Adjacent(A, l), Cardinality(Reach(A, a, l)) >= Len(m),
             \A k \in l .. Len(A) : A[k].size > 0,
             NEW k \in l .. Len(A), NEW i \in DOMAIN B[k].payload,
             A[k].address + i - a \in 0 .. Len(m) - 1
      PROVE  B[k].payload[i] = m[A[k].address + i - a + 1]
  <2>1. k \in 1 .. Len(A)
    BY <1>1, <1>4
  <2>2. i \in 0 .. A[k].size - 1
    BY <1>3, <1>5, <2>1
  <2>3. NewPayload(A, a, m, k)[i] = m[A[k].address + i - a + 1]
    <3>1. MeantFor(A, a, m, k, i) /\ RoomFor(A, a, Len(m))
      BY <1>8 DEF MeantFor, RoomFor
    <3>. HIDE DEF W, B
    <3>. QED
      BY <1>1, <1>8, <2>2, <3>1, StoresWhole
  <2>. QED
    BY <1>2, <1>3, <2>1, <2>3
<1>. QED
  BY <1>6, <1>7, <1>8

\* Whatever WRITE could be made, a READ of the same bytes answers the message or a
\* part of it from its start, and adjacent blocks with room, none of them empty, take
\* it whole.
THEOREM WritesAreReadBack == Spec => []ReadsBackWritten
BY HeapInvariant, OrderedReadsBack, PTL
===============================================================================
