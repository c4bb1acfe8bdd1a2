--------------------------- MODULE SequenceLemmas ---------------------------
(***************************************************************************)
(* Facts about the operators on sequences and sets of numbers that the     *)
(* models are built from.                                                  *)
(***************************************************************************)
EXTENDS Sublists, SequencesExt, SequenceTheorems, FiniteSetTheorems,
        WellFoundedInduction, TLAPS

\* A nonempty set of natural numbers has a least element.
LEMMA LeastExists ==
  ASSUME NEW T \in SUBSET Nat, T # {}
  PROVE  \E x \in T : \A y \in T : x <= y
<1>1. IsWellFoundedOn(OpToRel(<, Nat), Nat)
  BY NatLessThanWellFounded
<1>2. \E x \in T : \A y \in T : <<y, x>> \notin OpToRel(<, Nat)
  BY <1>1, WFMin
<1>3. \A x, y \in Nat : y < x => <<y, x>> \in OpToRel(<, Nat)
  BY DEF OpToRel
<1>4. PICK x \in T : \A y \in T : <<y, x>> \notin OpToRel(<, Nat)
  BY <1>2
<1>5. \A y \in T : ~(y < x)
  BY <1>3, <1>4
<1>6. \A y \in T : x <= y
  BY <1>5
<1>. QED
  BY <1>6

\* A nonempty set of natural numbers with an upper bound has a greatest element.
LEMMA GreatestExists ==
  ASSUME NEW n \in Nat, NEW T \in SUBSET (0 .. n), T # {}
  PROVE  \E x \in T : \A y \in T : x >= y
<1>. DEFINE R == {n - x : x \in T}
<1>1. R \in SUBSET Nat /\ R # {}
  <2>1. \A x \in T : n - x \in Nat
    OBVIOUS
  <2>. QED
    BY <2>1, Zenon
<1>2. PICK r \in R : \A y \in R : r <= y
  BY <1>1, LeastExists
<1>3. PICK x \in T : r = n - x
  BY <1>2
<1>4. \A y \in T : n - x <= n - y
  BY <1>2, <1>3
<1>. QED
  BY <1>3, <1>4

\* Min is the least element of a nonempty set of natural numbers.
LEMMA MinIsLeast ==
  ASSUME NEW T \in SUBSET Nat, T # {}
  PROVE  Min(T) \in T /\ \A y \in T : Min(T) <= y
BY LeastExists DEF Min

\* Max is the greatest element of a bounded nonempty set.
LEMMA MaxIsGreatest ==
  ASSUME NEW n \in Nat, NEW T \in SUBSET (0 .. n), T # {}
  PROVE  Max(T) \in T /\ \A y \in T : Max(T) >= y
BY GreatestExists DEF Max

\* The greatest element is the one that no other exceeds.
LEMMA MaxIs ==
  ASSUME NEW T \in SUBSET Int, NEW m \in T, \A y \in T : m >= y
  PROVE  Max(T) = m
<1>1. \A x \in T : (\A y \in T : x >= y) => x = m
  OBVIOUS
<1>. QED
  BY <1>1 DEF Max

\* Putting an element in front of a sequence.
LEMMA ConsProperties ==
  ASSUME NEW S, NEW s \in Seq(S), NEW e \in S
  PROVE  /\ Cons(e, s) \in Seq(S)
         /\ Len(Cons(e, s)) = Len(s) + 1
         /\ \A i \in 1 .. Len(s) + 1 :
               Cons(e, s)[i] = IF i = 1 THEN e ELSE s[i - 1]
<1>1. <<e>> \in Seq(S) /\ Len(<<e>>) = 1 /\ <<e>>[1] = e
  OBVIOUS
<1>2. Len(s) \in Nat
  BY LenProperties
<1>. QED
  BY <1>1, <1>2, ConcatProperties DEF Cons

\* Dropping the last element.
LEMMA FrontProperties ==
  ASSUME NEW S, NEW s \in Seq(S), s # <<>>
  PROVE  /\ Front(s) \in Seq(S)
         /\ Len(Front(s)) = Len(s) - 1
         /\ \A i \in 1 .. Len(s) - 1 : Front(s)[i] = s[i]
         /\ Last(s) = s[Len(s)]
<1>1. Len(s) \in Nat /\ Len(s) > 0
  BY LenProperties, EmptySeq
<1>2. \A i \in 1 .. Len(s) - 1 : s[i] \in S
  BY <1>1, ElementOfSeq
<1>3. /\ SubSeq(s, 1, Len(s) - 1) \in Seq(S)
      /\ Len(SubSeq(s, 1, Len(s) - 1)) =
           IF 1 <= Len(s) - 1 THEN Len(s) - 1 - 1 + 1 ELSE 0
      /\ \A i \in 1 .. Len(s) - 1 - 1 + 1 :
           SubSeq(s, 1, Len(s) - 1)[i] = s[1 + i - 1]
  <2>1. 1 \in Int /\ Len(s) - 1 \in Int
    BY <1>1
  <2>. QED
    BY <2>1, <1>2, SubSeqProperties
<1>4. Front(s) = SubSeq(s, 1, Len(s) - 1)
  BY DEF Front
<1>5. ASSUME NEW n \in Nat, n > 0
      PROVE  (IF 1 <= n - 1 THEN n - 1 - 1 + 1 ELSE 0) = n - 1
  <2>1. CASE n = 1
    BY <2>1
  <2>2. CASE n > 1
    BY <2>2
  <2>. QED
    BY <1>5, <2>1, <2>2
<1>6. Front(s) \in Seq(S) /\ Len(Front(s)) = Len(s) - 1
  BY <1>1, <1>3, <1>4, <1>5
<1>7. ASSUME NEW i \in 1 .. Len(s) - 1
      PROVE  Front(s)[i] = s[i]
  <2>1. i \in 1 .. Len(s) - 1 - 1 + 1 /\ 1 + i - 1 = i
    BY <1>1
  <2>. QED
    BY <1>3, <1>4, <2>1
<1>. QED
  BY <1>6, <1>7 DEF Last

\* Removing position k.
LEMMA RemoveAtProperties ==
  ASSUME NEW S, NEW s \in Seq(S), NEW k \in 1 .. Len(s)
  PROVE  /\ RemoveAt(s, k) \in Seq(S)
         /\ Len(RemoveAt(s, k)) = Len(s) - 1
         /\ \A i \in 1 .. Len(s) - 1 :
               RemoveAt(s, k)[i] = IF i < k THEN s[i] ELSE s[i + 1]
<1>. DEFINE a == SubSeq(s, 1, k - 1)
            b == SubSeq(s, k + 1, Len(s))
<1>1. Len(s) \in Nat /\ k \in Nat /\ k > 0 /\ k <= Len(s)
  BY LenProperties
<1>2. /\ \A i \in 1 .. k - 1 : s[i] \in S
      /\ \A i \in k + 1 .. Len(s) : s[i] \in S
  BY <1>1, ElementOfSeq
<1>3. /\ a \in Seq(S) /\ Len(a) = k - 1
      /\ \A i \in 1 .. k - 1 : a[i] = s[i]
  <2>1. /\ a \in Seq(S)
        /\ Len(a) = IF 1 <= k - 1 THEN k - 1 - 1 + 1 ELSE 0
        /\ \A i \in 1 .. k - 1 - 1 + 1 : a[i] = s[1 + i - 1]
    <3>1. 1 \in Int /\ k - 1 \in Int
      BY <1>1
    <3>. QED
      BY <3>1, <1>2, SubSeqProperties
  <2>. QED
    BY <2>1, <1>1
<1>4. /\ b \in Seq(S) /\ Len(b) = Len(s) - k
      /\ \A i \in 1 .. Len(s) - k : b[i] = s[k + i]
  <2>1. /\ b \in Seq(S)
        /\ Len(b) = IF k + 1 <= Len(s) THEN Len(s) - (k + 1) + 1 ELSE 0
        /\ \A i \in 1 .. Len(s) - (k + 1) + 1 : b[i] = s[k + 1 + i - 1]
    <3>1. k + 1 \in Int /\ Len(s) \in Int
      BY <1>1
    <3>. QED
      BY <3>1, <1>2, SubSeqProperties
  <2>. QED
    BY <2>1, <1>1
<1>5. /\ a \o b \in Seq(S)
      /\ Len(a \o b) = Len(a) + Len(b)
      /\ \A i \in 1 .. Len(a) + Len(b) :
            (a \o b)[i] = IF i <= Len(a) THEN a[i] ELSE b[i - Len(a)]
  BY <1>3, <1>4, ConcatProperties
<1>6. RemoveAt(s, k) = a \o b
  BY DEF RemoveAt
<1>. HIDE DEF a, b
<1>7. ASSUME NEW i \in 1 .. Len(s) - 1
      PROVE  (a \o b)[i] = IF i < k THEN s[i] ELSE s[i + 1]
  <2>1. i \in 1 .. Len(a) + Len(b) /\ i \in Int
    BY <1>1, <1>3, <1>4
  <2>2. (a \o b)[i] = IF i <= Len(a) THEN a[i] ELSE b[i - Len(a)]
    BY <1>5, <2>1
  <2>3. CASE i < k
    <3>1. i <= Len(a) /\ i \in 1 .. k - 1
      BY <1>1, <1>3, <2>1, <2>3
    <3>. QED
      BY <1>3, <2>2, <2>3, <3>1
  <2>4. CASE ~(i < k)
    <3>1. ~(i <= Len(a)) /\ i - Len(a) \in 1 .. Len(s) - k
          /\ k + (i - Len(a)) = i + 1
      BY <1>1, <1>3, <2>1, <2>4
    <3>. QED
      BY <1>4, <2>2, <2>4, <3>1
  <2>. QED
    BY <2>3, <2>4
<1>8. Len(a) + Len(b) = Len(s) - 1
  BY <1>1, <1>3, <1>4
<1>. QED
  BY <1>5, <1>6, <1>7, <1>8

\* RemoveFirst takes out the only occurrence of an element.
LEMMA RemoveFirstOnly ==
  ASSUME NEW s, NEW n \in Nat, n = Len(s), NEW k \in 1 .. n,
         \A i \in 1 .. n : s[i] = s[k] => i = k
  PROVE  RemoveFirst(s, s[k]) = RemoveAt(s, k)
<1>. DEFINE I == {i \in 1 .. Len(s) : s[i] = s[k]}
<1>1. I = {k}
  OBVIOUS
<1>2. Min(I) = k
  BY <1>1 DEF Min
<1>3. SelectInSeq(s, LAMBDA v : v = s[k]) = k
  BY <1>1, <1>2 DEF SelectInSeq
<1>. QED
  BY <1>3 DEF RemoveFirst

\* The indices and the elements of a sequence.
LEMMA IndicesOfSeq ==
  ASSUME NEW S, NEW s \in Seq(S)
  PROVE  /\ Len(s) \in Nat
         /\ DOMAIN s = 1 .. Len(s)
         /\ ToSet(s) = {s[i] : i \in 1 .. Len(s)}
         /\ ToSet(s) \subseteq S
<1>1. Len(s) \in Nat /\ DOMAIN s = 1 .. Len(s)
  BY LenProperties
<1>2. \A i \in 1 .. Len(s) : s[i] \in S
  BY ElementOfSeq
<1>. QED
  BY <1>1, <1>2 DEF ToSet

\* A new element in front of a sequence without duplicates.
LEMMA PushFront ==
  ASSUME NEW S, NEW s \in Seq(S), IsInjective(s), NEW e \in S, e \notin ToSet(s)
  PROVE  /\ Cons(e, s) \in Seq(S)
         /\ Len(Cons(e, s)) = Len(s) + 1
         /\ IsInjective(Cons(e, s))
         /\ ToSet(Cons(e, s)) = ToSet(s) \cup {e}
<1>. DEFINE n == Len(s)
            t == Cons(e, s)
<1>1. /\ n \in Nat /\ DOMAIN s = 1 .. n
      /\ ToSet(s) = {s[i] : i \in 1 .. n}
  BY IndicesOfSeq
<1>2. /\ t \in Seq(S) /\ Len(t) = n + 1
      /\ \A i \in 1 .. n + 1 : t[i] = IF i = 1 THEN e ELSE s[i - 1]
  BY ConsProperties
<1>3. DOMAIN t = 1 .. n + 1 /\ ToSet(t) = {t[i] : i \in 1 .. n + 1}
  BY <1>2, IndicesOfSeq
<1>4. t[1] = e /\ \A i \in 1 .. n : t[i + 1] = s[i]
  BY <1>1, <1>2
<1>. HIDE DEF n, t
<1>5. \A i \in 1 .. n + 1 : i = 1 \/ (i - 1 \in 1 .. n /\ i = (i - 1) + 1)
  BY <1>1
<1>6. IsInjective(t)
  <2>1. \A i, j \in 1 .. n : s[i] = s[j] => i = j
    BY <1>1 DEF IsInjective
  <2>2. \A i \in 1 .. n : s[i] # e
    BY <1>1
  <2>3. ASSUME NEW i \in 1 .. n + 1, NEW j \in 1 .. n + 1, t[i] = t[j]
        PROVE  i = j
    BY <1>2, <1>5, <2>1, <2>2, <2>3
  <2>. QED
    BY <1>3, <2>3 DEF IsInjective
<1>7. ToSet(t) = ToSet(s) \cup {e}
  <2>1. ASSUME NEW v \in ToSet(t) PROVE v \in ToSet(s) \cup {e}
    <3>1. PICK i \in 1 .. n + 1 : v = t[i]
      BY <1>3
    <3>2. CASE i = 1
      BY <1>4, <3>1, <3>2
    <3>3. CASE i # 1
      <4>1. i - 1 \in 1 .. n /\ t[i] = s[i - 1]
        BY <1>2, <1>5, <3>3
      <4>. QED
        BY <1>1, <3>1, <4>1
    <3>. QED
      BY <3>2, <3>3
  <2>2. ASSUME NEW i \in 1 .. n PROVE s[i] \in ToSet(t)
    <3>1. i + 1 \in 1 .. n + 1
      BY <1>1
    <3>. QED
      BY <1>3, <1>4, <3>1
  <2>3. e \in ToSet(t)
    BY <1>1, <1>3, <1>4
  <2>. QED
    BY <1>1, <2>1, <2>2, <2>3
<1>. QED
  BY <1>2, <1>6, <1>7 DEF n, t

\* A new element in front of a sequence without duplicates whose last one goes.
LEMMA PushFrontDropLast ==
  ASSUME NEW S, NEW s \in Seq(S), s # <<>>, IsInjective(s),
         NEW e \in S, e \notin ToSet(s)
  PROVE  /\ Front(Cons(e, s)) \in Seq(S)
         /\ Len(Front(Cons(e, s))) = Len(s)
         /\ IsInjective(Front(Cons(e, s)))
         /\ ToSet(Front(Cons(e, s))) = (ToSet(s) \ {Last(s)}) \cup {e}
         /\ Last(s) \in ToSet(s)
<1>. DEFINE n == Len(s)
            t == Cons(e, s)
            f == Front(t)
<1>1. /\ n \in Nat /\ n > 0 /\ DOMAIN s = 1 .. n
      /\ ToSet(s) = {s[i] : i \in 1 .. n}
  BY IndicesOfSeq, EmptySeq
<1>2. /\ t \in Seq(S) /\ Len(t) = n + 1
      /\ IsInjective(t) /\ ToSet(t) = ToSet(s) \cup {e}
  BY PushFront
<1>3. \A i \in 1 .. n + 1 : t[i] = IF i = 1 THEN e ELSE s[i - 1]
  BY ConsProperties
<1>4. t # <<>>
  BY <1>1, <1>2, EmptySeq
<1>5. /\ f \in Seq(S) /\ Len(f) = (n + 1) - 1
      /\ \A i \in 1 .. (n + 1) - 1 : f[i] = t[i]
  BY <1>2, <1>4, FrontProperties
<1>6. /\ DOMAIN t = 1 .. n + 1 /\ ToSet(t) = {t[i] : i \in 1 .. n + 1}
      /\ DOMAIN f = 1 .. Len(f) /\ ToSet(f) = {f[i] : i \in 1 .. Len(f)}
  BY <1>2, <1>5, IndicesOfSeq
<1>7. Last(s) = s[n]
  BY DEF Last
<1>. HIDE DEF n, t, f
<1>8. /\ (n + 1) - 1 = n
      /\ \A i \in 1 .. n : i \in 1 .. n + 1
      /\ \A i \in 1 .. n + 1 : i # n + 1 => i \in 1 .. n
      /\ n + 1 \in 1 .. n + 1 /\ n + 1 # 1 /\ (n + 1) - 1 = n /\ n \in 1 .. n
  BY <1>1
<1>9. Len(f) = n /\ \A i \in 1 .. n : f[i] = t[i]
  BY <1>5, <1>8
<1>10. t[n + 1] = s[n]
  BY <1>3, <1>8
<1>11. \A i, j \in 1 .. n + 1 : t[i] = t[j] => i = j
  BY <1>2, <1>6 DEF IsInjective
<1>12. IsInjective(f)
  BY <1>6, <1>8, <1>9, <1>11 DEF IsInjective
<1>13. ToSet(f) = ToSet(t) \ {s[n]}
  <2>1. ASSUME NEW i \in 1 .. n PROVE f[i] \in ToSet(t) \ {s[n]}
    <3>1. i # n + 1
      BY <1>1
    <3>. QED
      BY <1>6, <1>8, <1>9, <1>10, <1>11, <3>1
  <2>2. ASSUME NEW i \in 1 .. n + 1, t[i] # s[n] PROVE t[i] \in ToSet(f)
    <3>1. i \in 1 .. n
      BY <1>8, <1>10, <2>2
    <3>. QED
      BY <1>6, <1>9, <3>1
  <2>. QED
    BY <1>6, <1>9, <2>1, <2>2
<1>14. s[n] \in ToSet(s)
  BY <1>1, <1>8
<1>. QED
  BY <1>2, <1>5, <1>7, <1>9, <1>12, <1>13, <1>14 DEF n, t, f

\* Removing the only occurrence of an element.
LEMMA RemoveElement ==
  ASSUME NEW S, NEW s \in Seq(S), IsInjective(s), NEW e \in ToSet(s)
  PROVE  /\ RemoveFirst(s, e) \in Seq(S)
         /\ Len(RemoveFirst(s, e)) = Len(s) - 1
         /\ IsInjective(RemoveFirst(s, e))
         /\ ToSet(RemoveFirst(s, e)) = ToSet(s) \ {e}
<1>. DEFINE n == Len(s)
            r == RemoveFirst(s, e)
<1>1. /\ n \in Nat /\ DOMAIN s = 1 .. n
      /\ ToSet(s) = {s[i] : i \in 1 .. n}
  BY IndicesOfSeq
<1>2. PICK k \in 1 .. n : s[k] = e
  BY <1>1
<1>3. \A i, j \in 1 .. n : s[i] = s[j] => i = j
  BY <1>1 DEF IsInjective
<1>4. r = RemoveAt(s, k)
  BY <1>1, <1>2, <1>3, RemoveFirstOnly
<1>5. /\ r \in Seq(S) /\ Len(r) = n - 1
      /\ \A i \in 1 .. n - 1 : r[i] = IF i < k THEN s[i] ELSE s[i + 1]
  BY <1>4, RemoveAtProperties
<1>6. DOMAIN r = 1 .. n - 1 /\ ToSet(r) = {r[i] : i \in 1 .. n - 1}
  BY <1>5, IndicesOfSeq
<1>. HIDE DEF n, r
<1>7. IsInjective(r)
  <2>1. ASSUME NEW i \in 1 .. n - 1, NEW j \in 1 .. n - 1, r[i] = r[j]
        PROVE  i = j
    <3>1. /\ i \in 1 .. n /\ i + 1 \in 1 .. n
          /\ j \in 1 .. n /\ j + 1 \in 1 .. n
      BY <1>1
    <3>2. CASE i < k /\ j < k
      BY <1>3, <1>5, <2>1, <3>1, <3>2
    <3>3. CASE i < k /\ ~(j < k)
      <4>1. i = j + 1
        BY <1>3, <1>5, <2>1, <3>1, <3>3
      <4>. QED
        BY <1>1, <3>3, <4>1
    <3>4. CASE ~(i < k) /\ j < k
      <4>1. i + 1 = j
        BY <1>3, <1>5, <2>1, <3>1, <3>4
      <4>. QED
        BY <1>1, <3>4, <4>1
    <3>5. CASE ~(i < k) /\ ~(j < k)
      <4>1. i + 1 = j + 1
        BY <1>3, <1>5, <2>1, <3>1, <3>5
      <4>. QED
        BY <4>1
    <3>. QED
      BY <3>2, <3>3, <3>4, <3>5
  <2>. QED
    BY <1>6, <2>1 DEF IsInjective
<1>8. ToSet(r) = ToSet(s) \ {e}
  <2>1. ASSUME NEW i \in 1 .. n - 1 PROVE r[i] \in ToSet(s) \ {e}
    <3>1. i \in 1 .. n /\ i + 1 \in 1 .. n /\ (i < k => i # k)
          /\ (~(i < k) => i + 1 # k)
      BY <1>1
    <3>. QED
      BY <1>1, <1>2, <1>3, <1>5, <3>1
  <2>2. ASSUME NEW i \in 1 .. n, s[i] # e PROVE s[i] \in ToSet(r)
    <3>1. CASE i < k
      <4>1. i \in 1 .. n - 1
        BY <1>1, <3>1
      <4>. QED
        BY <1>5, <1>6, <3>1, <4>1
    <3>2. CASE ~(i < k)
      <4>1. i - 1 \in 1 .. n - 1 /\ ~(i - 1 < k) /\ (i - 1) + 1 = i
        BY <1>1, <1>2, <2>2, <3>2
      <4>2. r[i - 1] = s[i]
        BY <1>5, <4>1
      <4>. QED
        BY <1>6, <4>1, <4>2
    <3>. QED
      BY <3>1, <3>2
  <2>. QED
    BY <1>1, <1>6, <2>1, <2>2
<1>. QED
  BY <1>5, <1>7, <1>8 DEF n, r

\* Moving an element of a sequence without duplicates to its front.
LEMMA MoveToFront ==
  ASSUME NEW S, NEW s \in Seq(S), IsInjective(s), NEW e \in ToSet(s)
  PROVE  /\ Cons(e, RemoveFirst(s, e)) \in Seq(S)
         /\ Len(Cons(e, RemoveFirst(s, e))) = Len(s)
         /\ IsInjective(Cons(e, RemoveFirst(s, e)))
         /\ ToSet(Cons(e, RemoveFirst(s, e))) = ToSet(s)
<1>1. e \in S /\ Len(s) \in Nat
  BY IndicesOfSeq
<1>. DEFINE r == RemoveFirst(s, e)
<1>2. /\ r \in Seq(S) /\ Len(r) = Len(s) - 1 /\ IsInjective(r)
      /\ ToSet(r) = ToSet(s) \ {e}
  BY RemoveElement
<1>. HIDE DEF r
<1>3. /\ Cons(e, r) \in Seq(S) /\ Len(Cons(e, r)) = Len(r) + 1
      /\ IsInjective(Cons(e, r)) /\ ToSet(Cons(e, r)) = ToSet(r) \cup {e}
  BY <1>1, <1>2, PushFront
<1>. QED
  BY <1>1, <1>2, <1>3 DEF r

\* The function Keep recurs on exists, and so Keep is its value at the end.
LEMMA KeepFunction ==
  ASSUME NEW S, NEW s \in Seq(S), NEW T
  PROVE  \E K : /\ DOMAIN K = 0 .. Len(s)
                /\ K[0] = <<>>
                /\ \A i \in 1 .. Len(s) :
                     K[i] = IF s[i] \in T THEN Append(K[i - 1], s[i]) ELSE K[i - 1]
                /\ Keep(s, T) = K[Len(s)]
<1>. DEFINE n == Len(s)
            Val(K, i) == IF i = 0 THEN <<>>
                         ELSE IF s[i] \in T THEN Append(K[i - 1], s[i])
                         ELSE K[i - 1]
            Good(m, K) == /\ K = [i \in 0 .. m |-> K[i]]
                          /\ \A i \in 0 .. m : K[i] = Val(K, i)
            Bad == {m \in 0 .. n : ~ \E K : Good(m, K)}
<1>1. n \in Nat
  BY LenProperties
<1>2. Bad = {}
  <2>1. SUFFICES ASSUME Bad # {} PROVE FALSE
    OBVIOUS
  <2>2. Bad \in SUBSET Nat
    BY <1>1
  <2>3. PICK m \in Bad : \A k \in Bad : m <= k
    BY <2>1, <2>2, LeastExists
  <2>4. m \in 0 .. n /\ ~ \E K : Good(m, K)
    BY <2>3
  <2>5. CASE m = 0
    <3>. DEFINE K == [i \in 0 .. 0 |-> <<>>]
    <3>1. Good(0, K)
      OBVIOUS
    <3>. QED
      BY <2>4, <2>5, <3>1
  <2>6. CASE m # 0
    <3>1. m - 1 \in 0 .. n /\ ~(m <= m - 1) /\ m - 1 \in Nat
      BY <1>1, <2>4, <2>6
    <3>2. PICK K : Good(m - 1, K)
      BY <2>3, <3>1
    <3>. DEFINE L == [i \in 0 .. m |-> IF i = m THEN Val(K, m) ELSE K[i]]
    <3>3. ASSUME NEW i \in 0 .. m PROVE L[i] = Val(L, i)
      <4>1. i \in Int /\ i <= m /\ i >= 0 /\ m \in Int
        BY <2>4
      <4>2. CASE i = 0
        <5>1. L[0] = K[0] /\ K[0] = <<>>
          BY <2>6, <3>1, <3>2, <4>1, <4>2
        <5>. QED
          BY <4>2, <5>1
      <4>3. CASE i # 0
        <5>1. i - 1 \in 0 .. m /\ i - 1 # m /\ i - 1 \in 0 .. m - 1
          BY <4>1, <4>3
        <5>2. L[i - 1] = K[i - 1]
          BY <5>1
        <5>3. L[i] = Val(K, i)
          <6>1. CASE i = m
            BY <6>1
          <6>2. CASE i # m
            <7>1. i \in 0 .. m - 1
              BY <4>1, <6>2
            <7>. QED
              BY <3>2, <6>2, <7>1
          <6>. QED
            BY <6>1, <6>2
        <5>. HIDE DEF L
        <5>. QED
          BY <4>3, <5>2, <5>3
      <4>. QED
        BY <4>2, <4>3
    <3>4. Good(m, L)
      <4>. L = [i \in 0 .. m |-> L[i]]
        OBVIOUS
      <4>. HIDE DEF L
      <4>. QED
        BY <3>3
    <3>. QED
      BY <2>4, <3>4
  <2>. QED
    BY <2>5, <2>6
<1>3. PICK K : Good(n, K)
  BY <1>1, <1>2
<1>. DEFINE F == CHOOSE F : F = [i \in 0 .. n |-> Val(F, i)]
<1>4. \E G : G = [i \in 0 .. n |-> Val(G, i)]
  <2>1. [i \in 0 .. n |-> K[i]] = [i \in 0 .. n |-> Val(K, i)]
    BY <1>3
  <2>. QED
    BY <1>3, <2>1
<1>5. F = [i \in 0 .. n |-> Val(F, i)]
  BY <1>4
<1>6. Keep(s, T) = F[n]
  BY DEF Keep
<1>. HIDE DEF F
<1>7. DOMAIN F = 0 .. n /\ \A i \in 0 .. n : F[i] = Val(F, i)
  BY <1>5
<1>8. F[0] = <<>>
  <2>. 0 \in 0 .. n
    BY <1>1
  <2>. QED
    BY <1>7
<1>9. ASSUME NEW i \in 1 .. n
      PROVE  F[i] = IF s[i] \in T THEN Append(F[i - 1], s[i]) ELSE F[i - 1]
  <2>. i \in 0 .. n /\ i # 0
    BY <1>1
  <2>. QED
    BY <1>7
<1>. QED
  BY <1>6, <1>7, <1>8, <1>9

\* A new element behind a sequence.
LEMMA PushBack ==
  ASSUME NEW S, NEW s \in Seq(S), NEW e \in S
  PROVE  /\ Append(s, e) \in Seq(S)
         /\ ToSet(Append(s, e)) = ToSet(s) \cup {e}
         /\ IsInjective(s) /\ e \notin ToSet(s) => IsInjective(Append(s, e))
<1>. DEFINE n == Len(s)
            t == Append(s, e)
<1>1. /\ n \in Nat /\ DOMAIN s = 1 .. n
      /\ ToSet(s) = {s[i] : i \in 1 .. n}
  BY IndicesOfSeq
<1>2. /\ t \in Seq(S) /\ Len(t) = n + 1
      /\ \A i \in 1 .. n : t[i] = s[i]
      /\ t[n + 1] = e
  BY AppendProperties
<1>3. DOMAIN t = 1 .. n + 1 /\ ToSet(t) = {t[i] : i \in 1 .. n + 1}
  BY <1>2, IndicesOfSeq
<1>. HIDE DEF n, t
<1>4. 1 .. n + 1 = (1 .. n) \cup {n + 1} /\ n + 1 \notin 1 .. n
  BY <1>1
<1>5. ToSet(t) = ToSet(s) \cup {e}
  BY <1>1, <1>2, <1>3, <1>4
<1>6. ASSUME IsInjective(s), e \notin ToSet(s) PROVE IsInjective(t)
  <2>1. \A i, j \in 1 .. n : s[i] = s[j] => i = j
    BY <1>1, <1>6 DEF IsInjective
  <2>2. \A i \in 1 .. n : s[i] # e
    BY <1>1, <1>6
  <2>3. \A i, j \in 1 .. n + 1 : t[i] = t[j] => i = j
    BY <1>2, <1>4, <2>1, <2>2
  <2>. QED
    BY <1>3, <2>3 DEF IsInjective
<1>. QED
  BY <1>2, <1>5, <1>6 DEF t

\* Keep takes out the elements that are not in T and nothing else.
LEMMA KeepProperties ==
  ASSUME NEW S, NEW s \in Seq(S), NEW T
  PROVE  /\ Keep(s, T) \in Seq(S)
         /\ ToSet(Keep(s, T)) = ToSet(s) \cap T
         /\ IsInjective(s) => IsInjective(Keep(s, T))
<1>. DEFINE n == Len(s)
            Upto(i) == {s[j] : j \in 1 .. i}
<1>1. n \in Nat /\ ToSet(s) = Upto(n) /\ DOMAIN s = 1 .. n
  BY IndicesOfSeq
<1>2. PICK K : /\ K[0] = <<>>
               /\ \A i \in 1 .. n :
                    K[i] = IF s[i] \in T THEN Append(K[i - 1], s[i]) ELSE K[i - 1]
               /\ Keep(s, T) = K[n]
  BY KeepFunction
<1>. DEFINE Good(i) == /\ K[i] \in Seq(S)
                       /\ ToSet(K[i]) = Upto(i) \cap T
                       /\ IsInjective(s) => IsInjective(K[i])
            Bad == {i \in 0 .. n : ~Good(i)}
<1>3. Bad = {}
  <2>1. SUFFICES ASSUME Bad # {} PROVE FALSE
    OBVIOUS
  <2>2. Bad \in SUBSET Nat
    BY <1>1
  <2>3. PICK m \in Bad : \A k \in Bad : m <= k
    BY <2>1, <2>2, LeastExists
  <2>4. m \in 0 .. n /\ ~Good(m)
    BY <2>3
  <2>5. CASE m = 0
    <3>1. K[0] \in Seq(S) /\ ToSet(K[0]) = {} /\ IsInjective(K[0])
      BY <1>2 DEF ToSet, IsInjective
    <3>2. Upto(0) = {}
      OBVIOUS
    <3>. QED
      BY <2>4, <2>5, <3>1, <3>2
  <2>6. CASE m # 0
    <3>1. m - 1 \in 0 .. n /\ ~(m <= m - 1) /\ m \in 1 .. n
      BY <1>1, <2>4, <2>6
    <3>2. Good(m - 1)
      BY <2>3, <3>1
    <3>3. s[m] \in S
      BY <3>1, ElementOfSeq
    <3>4. Upto(m) = Upto(m - 1) \cup {s[m]}
      <4>1. 1 .. m = (1 .. m - 1) \cup {m}
        BY <3>1
      <4>. QED
        BY <4>1
    <3>5. CASE s[m] \notin T
      <4>1. K[m] = K[m - 1]
        BY <1>2, <3>1, <3>5
      <4>2. Upto(m) \cap T = Upto(m - 1) \cap T
        BY <3>4, <3>5
      <4>. HIDE DEF Upto
      <4>. QED
        BY <2>4, <3>2, <4>1, <4>2
    <3>6. CASE s[m] \in T
      <4>1. K[m] = Append(K[m - 1], s[m])
        BY <1>2, <3>1, <3>6
      <4>2. IsInjective(s) => s[m] \notin Upto(m - 1)
        <5>1. \A j \in 1 .. m - 1 : j \in 1 .. n /\ j # m
          BY <3>1
        <5>. QED
          BY <1>1, <3>1, <5>1 DEF IsInjective
      <4>3. /\ Append(K[m - 1], s[m]) \in Seq(S)
            /\ ToSet(Append(K[m - 1], s[m])) = ToSet(K[m - 1]) \cup {s[m]}
            /\ IsInjective(K[m - 1]) /\ s[m] \notin ToSet(K[m - 1]) =>
                 IsInjective(Append(K[m - 1], s[m]))
        BY <3>2, <3>3, PushBack
      <4>4. Upto(m) \cap T = (Upto(m - 1) \cap T) \cup {s[m]}
        BY <3>4, <3>6
      <4>. HIDE DEF Upto
      <4>. QED
        BY <2>4, <3>2, <4>1, <4>2, <4>3, <4>4
    <3>. QED
      BY <3>5, <3>6
  <2>. QED
    BY <2>5, <2>6
<1>4. Good(n)
  <2>. n \in 0 .. n
    BY <1>1
  <2>. QED
    BY <1>3
<1>. QED
  BY <1>1, <1>2, <1>4

\* Inserting an element at position k.
LEMMA InsertAtProperties ==
  ASSUME NEW S, NEW s \in Seq(S), NEW k \in 1 .. Len(s) + 1, NEW e \in S
  PROVE  /\ InsertAt(s, k, e) \in Seq(S)
         /\ Len(InsertAt(s, k, e)) = Len(s) + 1
         /\ \A i \in 1 .. Len(s) + 1 :
               InsertAt(s, k, e)[i] = IF i < k THEN s[i]
                                      ELSE IF i = k THEN e
                                      ELSE s[i - 1]
<1>. DEFINE a == SubSeq(s, 1, k - 1)
            b == SubSeq(s, k, Len(s))
            m == <<e>>
<1>1. Len(s) \in Nat /\ k \in Nat /\ k > 0 /\ k <= Len(s) + 1
  BY LenProperties
<1>2. /\ \A i \in 1 .. k - 1 : s[i] \in S
      /\ \A i \in k .. Len(s) : s[i] \in S
  BY <1>1, ElementOfSeq
<1>3. /\ a \in Seq(S) /\ Len(a) = k - 1
      /\ \A i \in 1 .. k - 1 : a[i] = s[i]
  <2>1. /\ a \in Seq(S)
        /\ Len(a) = IF 1 <= k - 1 THEN k - 1 - 1 + 1 ELSE 0
        /\ \A i \in 1 .. k - 1 - 1 + 1 : a[i] = s[1 + i - 1]
    <3>1. 1 \in Int /\ k - 1 \in Int
      BY <1>1
    <3>. QED
      BY <3>1, <1>2, SubSeqProperties
  <2>. QED
    BY <2>1, <1>1
<1>4. /\ b \in Seq(S) /\ Len(b) = Len(s) + 1 - k
      /\ \A i \in 1 .. Len(s) + 1 - k : b[i] = s[k + i - 1]
  <2>1. /\ b \in Seq(S)
        /\ Len(b) = IF k <= Len(s) THEN Len(s) - k + 1 ELSE 0
        /\ \A i \in 1 .. Len(s) - k + 1 : b[i] = s[k + i - 1]
    <3>1. k \in Int /\ Len(s) \in Int
      BY <1>1
    <3>. QED
      BY <3>1, <1>2, SubSeqProperties
  <2>. QED
    BY <2>1, <1>1
<1>5. m \in Seq(S) /\ Len(m) = 1 /\ m[1] = e
  OBVIOUS
<1>6. /\ a \o m \in Seq(S)
      /\ Len(a \o m) = Len(a) + Len(m)
      /\ \A i \in 1 .. Len(a) + Len(m) :
            (a \o m)[i] = IF i <= Len(a) THEN a[i] ELSE m[i - Len(a)]
  BY <1>3, <1>5, ConcatProperties
<1>. DEFINE c == a \o m
<1>7. /\ c \o b \in Seq(S)
      /\ Len(c \o b) = Len(c) + Len(b)
      /\ \A i \in 1 .. Len(c) + Len(b) :
            (c \o b)[i] = IF i <= Len(c) THEN c[i] ELSE b[i - Len(c)]
  <2>1. c \in Seq(S) /\ b \in Seq(S)
    BY <1>4, <1>6
  <2>. HIDE DEF b, c
  <2>. QED
    BY <2>1, ConcatProperties
<1>8. InsertAt(s, k, e) = c \o b
  BY DEF InsertAt
<1>9. /\ Len(c) = k
      /\ \A i \in 1 .. k : c[i] = IF i < k THEN s[i] ELSE e
  <2>1. Len(c) = k
    BY <1>1, <1>3, <1>5, <1>6
  <2>2. ASSUME NEW i \in 1 .. k PROVE c[i] = IF i < k THEN s[i] ELSE e
    <3>1. CASE i < k
      <4>1. i \in 1 .. k - 1 /\ i <= Len(a) /\ i \in 1 .. Len(a) + Len(m)
        BY <1>1, <1>3, <1>5, <3>1
      <4>. HIDE DEF a, m
      <4>. QED
        BY <1>3, <1>6, <3>1, <4>1
    <3>2. CASE ~(i < k)
      <4>1. i = k /\ ~(i <= Len(a)) /\ i \in 1 .. Len(a) + Len(m) /\ i - Len(a) = 1
        BY <1>1, <1>3, <1>5, <3>2
      <4>. HIDE DEF a, m
      <4>. QED
        BY <1>5, <1>6, <3>2, <4>1
    <3>. QED
      BY <3>1, <3>2
  <2>. QED
    BY <2>1, <2>2
<1>. HIDE DEF a, b, c, m
<1>10. ASSUME NEW i \in 1 .. Len(s) + 1
       PROVE  (c \o b)[i] = IF i < k THEN s[i] ELSE IF i = k THEN e ELSE s[i - 1]
  <2>1. i \in Int /\ i \in 1 .. Len(c) + Len(b)
    BY <1>1, <1>4, <1>9
  <2>2. (c \o b)[i] = IF i <= k THEN c[i] ELSE b[i - k]
    BY <1>7, <1>9, <2>1
  <2>3. CASE i <= k
    <3>1. i \in 1 .. k
      BY <2>3
    <3>2. c[i] = IF i < k THEN s[i] ELSE e
      BY <1>9, <3>1
    <3>. QED
      BY <1>1, <2>1, <2>2, <2>3, <3>2
  <2>4. CASE ~(i <= k)
    <3>1. i - k \in 1 .. Len(s) + 1 - k /\ k + (i - k) - 1 = i - 1 /\ ~(i < k) /\ i # k
      BY <1>1, <2>1, <2>4
    <3>. QED
      BY <1>4, <2>2, <2>4, <3>1
  <2>. QED
    BY <2>3, <2>4
<1>11. Len(c) + Len(b) = Len(s) + 1
  BY <1>1, <1>4, <1>9
<1>. QED
  BY <1>7, <1>8, <1>10, <1>11

\* Reversing a sequence keeps its elements.
LEMMA ReverseProperties ==
  ASSUME NEW S, NEW s \in Seq(S)
  PROVE  Reverse(s) \in Seq(S) /\ ToSet(Reverse(s)) = ToSet(s) /\ Len(Reverse(s)) = Len(s)
<1>. DEFINE n == Len(s)
            r == Reverse(s)
<1>1. /\ n \in Nat /\ DOMAIN s = 1 .. n
      /\ ToSet(s) = {s[i] : i \in 1 .. n}
  BY IndicesOfSeq
<1>2. r = [i \in 1 .. n |-> s[(n - i) + 1]]
  BY DEF Reverse
<1>3. \A i \in 1 .. n : (n - i) + 1 \in 1 .. n /\ (n - ((n - i) + 1)) + 1 = i
  BY <1>1
<1>4. r \in [1 .. n -> S]
  <2>1. \A i \in 1 .. n : s[i] \in S
    BY ElementOfSeq
  <2>. HIDE DEF r
  <2>. QED
    BY <1>2, <1>3, <2>1
<1>5. r \in Seq(S)
  BY <1>1, <1>4, SeqDef
<1>. HIDE DEF n, r
<1>6. DOMAIN r = 1 .. n /\ Len(r) = n
  BY <1>1, <1>4, <1>5
<1>7. \A i \in 1 .. n : r[i] = s[(n - i) + 1]
  BY <1>2
<1>8. \A i \in 1 .. n : s[i] = r[(n - i) + 1]
  BY <1>3, <1>7
<1>9. ToSet(r) = {r[i] : i \in 1 .. n}
  BY <1>5, <1>6, IndicesOfSeq
<1>10. ToSet(r) = ToSet(s)
  BY <1>1, <1>3, <1>7, <1>8, <1>9
<1>. QED
  BY <1>5, <1>6, <1>10 DEF r, n

\* The elements of a concatenation.
LEMMA ConcatElements ==
  ASSUME NEW S, NEW s \in Seq(S), NEW t \in Seq(S)
  PROVE  s \o t \in Seq(S) /\ ToSet(s \o t) = ToSet(s) \cup ToSet(t)
<1>. DEFINE m == Len(s)
            n == Len(t)
            c == s \o t
<1>1. /\ m \in Nat /\ DOMAIN s = 1 .. m /\ ToSet(s) = {s[i] : i \in 1 .. m}
      /\ n \in Nat /\ DOMAIN t = 1 .. n /\ ToSet(t) = {t[i] : i \in 1 .. n}
  BY IndicesOfSeq
<1>2. /\ c \in Seq(S) /\ Len(c) = m + n
      /\ \A i \in 1 .. m + n : c[i] = IF i <= m THEN s[i] ELSE t[i - m]
  BY ConcatProperties
<1>3. ToSet(c) = {c[i] : i \in 1 .. m + n}
  BY <1>2, IndicesOfSeq
<1>. HIDE DEF m, n, c
<1>4. \A i \in 1 .. m + n : c[i] \in ToSet(s) \cup ToSet(t)
  <2>1. \A i \in 1 .. m + n : IF i <= m THEN i \in 1 .. m ELSE i - m \in 1 .. n
    BY <1>1
  <2>. QED
    BY <1>1, <1>2, <2>1
<1>5. \A i \in 1 .. m : s[i] \in ToSet(c)
  <2>1. \A i \in 1 .. m : i \in 1 .. m + n /\ i <= m
    BY <1>1
  <2>. QED
    BY <1>2, <1>3, <2>1
<1>6. ASSUME NEW i \in 1 .. n PROVE t[i] \in ToSet(c)
  <2>1. m + i \in 1 .. m + n /\ ~(m + i <= m) /\ (m + i) - m = i
    BY <1>1
  <2>2. c[m + i] = t[i]
    BY <1>2, <2>1
  <2>. QED
    BY <1>3, <2>1, <2>2
<1>7. ToSet(c) \subseteq ToSet(s) \cup ToSet(t)
  BY <1>3, <1>4
<1>8. ToSet(s) \subseteq ToSet(c) /\ ToSet(t) \subseteq ToSet(c)
  BY <1>1, <1>5, <1>6
<1>. QED
  BY <1>2, <1>7, <1>8 DEF c

\* A sequence without duplicates has as many elements as positions.
LEMMA InjectiveLength ==
  ASSUME NEW S, NEW s \in Seq(S), IsInjective(s)
  PROVE  IsFiniteSet(ToSet(s)) /\ Cardinality(ToSet(s)) = Len(s)
<1>1. /\ Len(s) \in Nat /\ DOMAIN s = 1 .. Len(s)
      /\ ToSet(s) = {s[i] : i \in 1 .. Len(s)}
      /\ s \in [1 .. Len(s) -> S]
  BY IndicesOfSeq, LenProperties
<1>2. s \in Bijection(1 .. Len(s), ToSet(s))
  BY <1>1 DEF IsInjective, Bijection, Injection, Surjection
<1>3. ExistsBijection(1 .. Len(s), ToSet(s))
  BY <1>2 DEF ExistsBijection
<1>4. IsFiniteSet(1 .. Len(s)) /\ Cardinality(1 .. Len(s)) = Len(s)
  BY <1>1, FS_Interval
<1>. QED
  BY <1>3, <1>4, FS_Bijection

\* Sequence u is s behind a new element, or with its element k moved to the front.
PutFirst(u, s, e) ==
  /\ Len(u) = Len(s) + 1
  /\ \A i \in 1 .. Len(s) + 1 : u[i] = IF i = 1 THEN e ELSE s[i - 1]

MovedFirst(u, s, k) ==
  /\ Len(u) = Len(s)
  /\ \A i \in 1 .. Len(s) :
       u[i] = IF i = 1 THEN s[k] ELSE IF i <= k THEN s[i - 1] ELSE s[i]

\* Putting an element first and taking its former occurrence away.
LEMMA UsedFirst ==
  ASSUME NEW S, NEW s \in Seq(S), IsInjective(s), NEW e \in S,
         NEW u, u = Cons(e, RemoveFirst(s, e))
  PROVE  /\ u \in Seq(S) /\ IsInjective(u)
         /\ e \notin ToSet(s) => PutFirst(u, s, e)
         /\ \A k \in 1 .. Len(s) : s[k] = e => MovedFirst(u, s, k)
<1>. DEFINE n == Len(s)
            r == RemoveFirst(s, e)
<1>1. /\ n \in Nat /\ DOMAIN s = 1 .. n
      /\ ToSet(s) = {s[i] : i \in 1 .. n}
  BY IndicesOfSeq
<1>2. CASE e \notin ToSet(s)
  <2>1. r = s
    <3>1. ~\E i \in 1 .. Len(s) : s[i] = e
      BY <1>1, <1>2
    <3>. QED
      BY <3>1, Zenon DEF RemoveFirst
  <2>2. /\ Cons(e, s) \in Seq(S) /\ IsInjective(Cons(e, s))
    BY <1>2, PushFront
  <2>3. /\ Len(Cons(e, s)) = n + 1
        /\ \A i \in 1 .. n + 1 : Cons(e, s)[i] = IF i = 1 THEN e ELSE s[i - 1]
    BY ConsProperties
  <2>4. \A k \in 1 .. n : s[k] # e
    BY <1>1, <1>2
  <2>5. u = Cons(e, s)
    BY <2>1
  <2>. QED
    BY <1>2, <2>2, <2>3, <2>4, <2>5 DEF PutFirst
<1>3. CASE e \in ToSet(s)
  <2>1. u \in Seq(S) /\ IsInjective(u)
    BY <1>3, MoveToFront
  <2>2. ASSUME NEW k \in 1 .. n, s[k] = e
        PROVE  /\ Len(u) = n
               /\ \A i \in 1 .. n :
                    u[i] = IF i = 1 THEN e ELSE IF i <= k THEN s[i - 1] ELSE s[i]
    <3>1. r = RemoveAt(s, k)
      <4>1. \A i \in 1 .. n : s[i] = s[k] => i = k
        BY <1>1 DEF IsInjective
      <4>. QED
        BY <1>1, <2>2, <4>1, RemoveFirstOnly
    <3>2. /\ r \in Seq(S) /\ Len(r) = n - 1
          /\ \A i \in 1 .. n - 1 : r[i] = IF i < k THEN s[i] ELSE s[i + 1]
      BY <3>1, RemoveAtProperties
    <3>. HIDE DEF r
    <3>3. /\ Len(Cons(e, r)) = Len(r) + 1
          /\ \A i \in 1 .. Len(r) + 1 : Cons(e, r)[i] = IF i = 1 THEN e ELSE r[i - 1]
      <4>1. ASSUME NEW q \in Seq(S)
            PROVE  PutFirst(Cons(e, q), q, e)
        BY ConsProperties DEF PutFirst
      <4>. QED
        BY <3>2, <4>1 DEF PutFirst
    <3>4. u = Cons(e, r)
      BY DEF r
    <3>5. Len(r) + 1 = n
      BY <1>1, <3>2
    <3>. HIDE DEF n
    <3>6. ASSUME NEW i \in 1 .. n
          PROVE  u[i] = IF i = 1 THEN e ELSE IF i <= k THEN s[i - 1] ELSE s[i]
      <4>1. u[i] = IF i = 1 THEN e ELSE r[i - 1]
        BY <3>3, <3>4, <3>5
      <4>2. CASE i = 1
        BY <4>1, <4>2
      <4>3. CASE i # 1
        <5>1. i - 1 \in 1 .. n - 1 /\ (i - 1) + 1 = i /\ (i - 1 < k <=> i <= k)
          BY <1>1, <4>3
        <5>2. r[i - 1] = IF i - 1 < k THEN s[i - 1] ELSE s[(i - 1) + 1]
          BY <3>2, <5>1
        <5>. QED
          BY <4>1, <4>3, <5>1, <5>2
      <4>. QED
        BY <4>2, <4>3
    <3>. QED
      BY <3>3, <3>4, <3>5, <3>6
  <2>. QED
    BY <1>3, <2>1, <2>2 DEF MovedFirst
<1>. QED
  BY <1>2, <1>3

\* A sequence that starts like another one is a prefix of it.
LEMMA PrefixIs ==
  ASSUME NEW S, NEW s \in Seq(S), NEW t \in Seq(S), Len(s) <= Len(t),
         \A i \in 1 .. Len(s) : s[i] = t[i]
  PROVE  IsPrefix(s, t)
<1>. DEFINE n == Len(s)
            p == SubSeq(t, 1, n)
<1>1. n \in Nat /\ Len(t) \in Nat
  BY LenProperties
<1>2. \A i \in 1 .. n : t[i] \in S
  <2>1. \A i \in 1 .. n : i \in 1 .. Len(t)
    BY <1>1
  <2>. QED
    BY <2>1, ElementOfSeq
<1>3. /\ p \in Seq(S)
      /\ Len(p) = IF 1 <= n THEN n - 1 + 1 ELSE 0
      /\ \A i \in 1 .. n - 1 + 1 : p[i] = t[1 + i - 1]
  <2>1. 1 \in Int /\ n \in Int
    BY <1>1
  <2>. HIDE DEF n
  <2>. QED
    BY <1>2, <2>1, SubSeqProperties
<1>4. SubSeq(s, 1, n) = s
  BY SubSeqFull
<1>. HIDE DEF n, p
<1>5. Len(p) = n
  <2>1. CASE 1 <= n
    BY <1>1, <1>3, <2>1
  <2>2. CASE ~(1 <= n)
    BY <1>1, <1>3, <2>2
  <2>. QED
    BY <2>1, <2>2
<1>6. \A i \in 1 .. n : p[i] = s[i]
  <2>1. \A i \in 1 .. n : i \in 1 .. n - 1 + 1 /\ 1 + i - 1 = i
    BY <1>1
  <2>. QED
    BY <1>3, <2>1 DEF n
<1>7. p = s
  BY <1>3, <1>5, <1>6, SeqEqual DEF n
<1>. QED
  BY <1>4, <1>7 DEF IsPrefix, n, p

\* A function on the first n numbers is a sequence.
LEMMA FunctionIsSeq ==
  ASSUME NEW n \in Nat, NEW f, DOMAIN f = 1 .. n, f = [i \in 1 .. n |-> f[i]]
  PROVE  f \in Seq({f[i] : i \in 1 .. n}) /\ Len(f) = n
<1>. DEFINE S == {f[i] : i \in 1 .. n}
<1>1. f \in [1 .. n -> S]
  OBVIOUS
<1>2. f \in Seq(S)
  BY <1>1, SeqDef
<1>3. Len(f) = n
  BY <1>1, <1>2, LenProperties
<1>. QED
  BY <1>2, <1>3

-----------------------------------------------------------------------------
\* The sum of f over a finite set, taken as the folds of Folds take it: with the
\* partial sums over all subsets, each from an element chosen from it.
AnyOf(s) == CHOOSE x \in s : TRUE

PartialSums(F, f, S) ==
  F = [s \in SUBSET S |-> IF s = {} THEN 0 ELSE f[AnyOf(s)] + F[s \ {AnyOf(s)}]]

SumOver(f, S) == (CHOOSE F : PartialSums(F, f, S))[S]

\* A nonempty set has an element to choose.
LEMMA AnyOfIn ==
  ASSUME NEW s, s # {}
  PROVE  AnyOf(s) \in s
BY DEF AnyOf

\* A finite set without one of its elements has one element less.
LEMMA OneElementLess ==
  ASSUME NEW s, IsFiniteSet(s), NEW x \in s
  PROVE  /\ Cardinality(s) \in Nat /\ Cardinality(s) >= 1
         /\ IsFiniteSet(s \ {x})
         /\ Cardinality(s \ {x}) = Cardinality(s) - 1
<1>1. /\ IsFiniteSet(s \ {x}) /\ Cardinality(s \ {x}) = Cardinality(s) - 1
  BY FS_RemoveElement
<1>2. Cardinality(s) \in Nat /\ Cardinality(s \ {x}) \in Nat
  BY <1>1, FS_CardinalityType
<1>. QED
  BY <1>1, <1>2

\* Partial sums of functions that agree are equal.
LEMMA PartialSumsAgree ==
  ASSUME NEW S, NEW f, NEW F, PartialSums(F, f, S),
         NEW T, NEW g, NEW G, PartialSums(G, g, T),
         NEW s, IsFiniteSet(s), s \subseteq S, s \subseteq T,
         \A x \in s : f[x] = g[x]
  PROVE  F[s] = G[s]
<1>. DEFINE Bad == {n \in Nat : \E t \in SUBSET s : Cardinality(t) = n /\ F[t] # G[t]}
<1>1. \A t \in SUBSET s : IsFiniteSet(t) /\ Cardinality(t) \in Nat
  BY FS_Subset, FS_CardinalityType
<1>2. \A t \in SUBSET s :
        /\ F[t] = IF t = {} THEN 0 ELSE f[AnyOf(t)] + F[t \ {AnyOf(t)}]
        /\ G[t] = IF t = {} THEN 0 ELSE g[AnyOf(t)] + G[t \ {AnyOf(t)}]
  <2>. TAKE t \in SUBSET s
  <2>1. t \in SUBSET S /\ t \in SUBSET T
    OBVIOUS
  <2>. QED
    BY <2>1 DEF PartialSums
<1>3. SUFFICES ASSUME F[s] # G[s] PROVE FALSE
  OBVIOUS
<1>4. Bad \in SUBSET Nat /\ Bad # {}
  BY <1>1, <1>3
<1>5. PICK m \in Bad : \A n \in Bad : m <= n
  BY <1>4, LeastExists
<1>6. PICK t \in SUBSET s : Cardinality(t) = m /\ F[t] # G[t]
  BY <1>5
<1>7. t # {}
  BY <1>2, <1>6
<1>. DEFINE x == AnyOf(t)
            u == t \ {x}
<1>8. x \in t
  BY <1>7, AnyOfIn
<1>9. Cardinality(u) = m - 1 /\ m - 1 \in Nat /\ u \in SUBSET s
  BY <1>1, <1>6, <1>8, OneElementLess
<1>10. F[u] = G[u]
  <2>1. m - 1 \notin Bad
    BY <1>5, <1>9
  <2>. QED
    BY <1>9, <2>1
<1>11. f[x] = g[x]
  BY <1>8
<1>. QED
  BY <1>2, <1>6, <1>7, <1>10, <1>11

\* Partial sums exist.
LEMMA PartialSumsExist ==
  ASSUME NEW S, IsFiniteSet(S), NEW f
  PROVE  \E F : PartialSums(F, f, S)
<1>. DEFINE Val(F, s) == IF s = {} THEN 0 ELSE f[AnyOf(s)] + F[s \ {AnyOf(s)}]
            Upto(n, F) == /\ F = [s \in SUBSET S |-> F[s]]
                          /\ \A s \in SUBSET S : Cardinality(s) <= n => F[s] = Val(F, s)
            Bad == {n \in Nat : ~\E F : Upto(n, F)}
<1>1. \A s \in SUBSET S : IsFiniteSet(s) /\ Cardinality(s) \in Nat
  BY FS_Subset, FS_CardinalityType
<1>2. Bad = {}
  <2>1. SUFFICES ASSUME Bad # {} PROVE FALSE
    OBVIOUS
  <2>2. Bad \in SUBSET Nat
    OBVIOUS
  <2>3. PICK m \in Bad : \A n \in Bad : m <= n
    BY <2>1, <2>2, LeastExists
  <2>4. m \in Nat /\ ~\E F : Upto(m, F)
    BY <2>3
  <2>5. CASE m = 0
    <3>. DEFINE L == [s \in SUBSET S |-> 0]
    <3>1. ASSUME NEW s \in SUBSET S, Cardinality(s) <= 0
          PROVE  L[s] = Val(L, s)
      <4>1. s = {}
        BY <1>1, <3>1, FS_EmptySet
      <4>. QED
        BY <4>1
    <3>2. L = [s \in SUBSET S |-> L[s]]
      OBVIOUS
    <3>. HIDE DEF L, Val
    <3>3. Upto(0, L)
      BY <3>1, <3>2
    <3>. QED
      BY <2>4, <2>5, <3>3
  <2>6. CASE m # 0
    <3>1. m - 1 \in Nat /\ ~(m <= m - 1)
      BY <2>4, <2>6
    <3>2. PICK K : Upto(m - 1, K)
      BY <2>3, <3>1
    <3>. DEFINE L == [s \in SUBSET S |-> IF Cardinality(s) <= m - 1 THEN K[s] ELSE Val(K, s)]
    <3>3. ASSUME NEW s \in SUBSET S, Cardinality(s) <= m
          PROVE  L[s] = Val(L, s)
      <4>1. L[s] = Val(K, s)
        BY <3>2
      <4>2. CASE s = {}
        BY <4>1, <4>2
      <4>3. CASE s # {}
        <5>. DEFINE u == s \ {AnyOf(s)}
        <5>1. AnyOf(s) \in s /\ IsFiniteSet(s) /\ Cardinality(s) \in Nat
          BY <1>1, <4>3, AnyOfIn
        <5>2. Cardinality(u) = Cardinality(s) - 1
          BY <5>1, OneElementLess
        <5>3. Cardinality(u) <= m - 1 /\ u \in SUBSET S
          BY <2>4, <3>3, <5>1, <5>2
        <5>4. L[u] = K[u]
          BY <5>3
        <5>. HIDE DEF L, u
        <5>5. Val(L, s) = f[AnyOf(s)] + L[u] /\ Val(K, s) = f[AnyOf(s)] + K[u]
          BY <4>3 DEF u
        <5>. QED
          BY <4>1, <5>4, <5>5
      <4>. QED
        BY <4>2, <4>3
    <3>4. L = [s \in SUBSET S |-> L[s]]
      OBVIOUS
    <3>. HIDE DEF L, Val
    <3>5. Upto(m, L)
      BY <3>3, <3>4
    <3>. QED
      BY <2>4, <3>5
  <2>. QED
    BY <2>5, <2>6
<1>3. Cardinality(S) \in Nat
  BY <1>1
<1>4. PICK F : Upto(Cardinality(S), F)
  BY <1>2, <1>3
<1>5. \A s \in SUBSET S : Cardinality(s) <= Cardinality(S)
  BY FS_Subset
<1>6. F = [s \in SUBSET S |-> Val(F, s)]
  BY <1>4, <1>5
<1>. QED
  BY <1>6 DEF PartialSums

\* The sum is the last of the partial sums.
LEMMA SumOverIs ==
  ASSUME NEW S, IsFiniteSet(S), NEW f
  PROVE  \E F : PartialSums(F, f, S) /\ SumOver(f, S) = F[S]
<1>. DEFINE F == CHOOSE F : PartialSums(F, f, S)
<1>1. PartialSums(F, f, S)
  BY PartialSumsExist
<1>2. SumOver(f, S) = F[S]
  BY DEF SumOver
<1>. HIDE DEF F
<1>. QED
  BY <1>1, <1>2

\* The sum over a set without one of its elements, whichever it is.
LEMMA PartialSumsStep ==
  ASSUME NEW S, IsFiniteSet(S), NEW f, \A x \in S : f[x] \in Int,
         NEW F, PartialSums(F, f, S), NEW s \in SUBSET S
  PROVE  /\ F[s] \in Int
         /\ \A x \in s : F[s] = f[x] + F[s \ {x}]
<1>. DEFINE Good(t) == /\ F[t] \in Int
                       /\ \A x \in t : F[t] = f[x] + F[t \ {x}]
            Bad == {n \in Nat : \E t \in SUBSET S : Cardinality(t) = n /\ ~Good(t)}
<1>1. \A t \in SUBSET S : IsFiniteSet(t) /\ Cardinality(t) \in Nat
  BY FS_Subset, FS_CardinalityType
<1>2. \A t \in SUBSET S :
        F[t] = IF t = {} THEN 0 ELSE f[AnyOf(t)] + F[t \ {AnyOf(t)}]
  BY DEF PartialSums
<1>3. SUFFICES ASSUME ~Good(s) PROVE FALSE
  OBVIOUS
<1>4. Bad \in SUBSET Nat /\ Bad # {}
  BY <1>1, <1>3
<1>5. PICK m \in Bad : \A n \in Bad : m <= n
  BY <1>4, LeastExists
<1>6. PICK t \in SUBSET S : Cardinality(t) = m /\ ~Good(t)
  BY <1>5
<1>7. t # {}
  <2>1. SUFFICES ASSUME t = {} PROVE FALSE
    OBVIOUS
  <2>2. F[t] = 0
    BY <1>2, <2>1
  <2>3. F[t] \in Int
    BY <2>2
  <2>. QED
    BY <1>6, <2>1, <2>3
<1>8. ASSUME NEW u \in SUBSET S, Cardinality(u) \in Nat, Cardinality(u) < m
      PROVE  Good(u)
  <2>1. Cardinality(u) \notin Bad
    BY <1>5, <1>8
  <2>. QED
    BY <1>8, <2>1
<1>. DEFINE p == AnyOf(t)
<1>9. p \in t /\ F[t] = f[p] + F[t \ {p}]
  BY <1>2, <1>7, AnyOfIn
<1>. HIDE DEF p
<1>10. ASSUME NEW x \in t
       PROVE  /\ t \ {x} \in SUBSET S /\ f[x] \in Int
              /\ Good(t \ {x})
  <2>1. /\ Cardinality(t \ {x}) = m - 1 /\ m \in Nat /\ m >= 1
    BY <1>1, <1>6, OneElementLess
  <2>. HIDE DEF Good
  <2>2. t \ {x} \in SUBSET S /\ Cardinality(t \ {x}) \in Nat /\ Cardinality(t \ {x}) < m
    BY <2>1
  <2>. QED
    BY <1>8, <2>2
<1>11. F[t] \in Int
  <2>1. F[t \ {p}] \in Int /\ f[p] \in Int
    BY <1>9, <1>10
  <2>. QED
    BY <1>9, <2>1
<1>12. ASSUME NEW x \in t
       PROVE  F[t] = f[x] + F[t \ {x}]
  <2>1. CASE x = p
    BY <1>9, <2>1
  <2>2. CASE x # p
    <3>. DEFINE r == (t \ {x}) \ {p}
    <3>1. r = (t \ {p}) \ {x} /\ r \in SUBSET S
      OBVIOUS
    <3>2. /\ F[t \ {p}] = f[x] + F[(t \ {p}) \ {x}]
          /\ F[t \ {x}] = f[p] + F[(t \ {x}) \ {p}]
      <4>1. x \in t \ {p} /\ p \in t \ {x}
        BY <1>9, <2>2
      <4>. QED
        BY <1>9, <1>10, <4>1
    <3>3. F[r] \in Int
      <4>1. Cardinality(t \ {x}) = m - 1 /\ IsFiniteSet(t \ {x}) /\ m \in Nat
        BY <1>1, <1>6, OneElementLess
      <4>2. Cardinality(r) = (m - 1) - 1 /\ m - 1 >= 1
        <5>1. p \in t \ {x}
          BY <1>9, <2>2
        <5>. QED
          BY <4>1, <5>1, OneElementLess
      <4>. HIDE DEF r
      <4>. QED
        BY <1>8, <3>1, <4>1, <4>2
    <3>. HIDE DEF r
    <3>4. f[x] \in Int /\ f[p] \in Int
      BY <1>9, <1>10
    <3>5. F[t \ {p}] = f[x] + F[r] /\ F[t \ {x}] = f[p] + F[r]
      BY <3>1, <3>2 DEF r
    <3>. QED
      BY <1>9, <3>3, <3>4, <3>5
  <2>. QED
    BY <2>1, <2>2
<1>. QED
  BY <1>6, <1>11, <1>12

\* A sum of integers is an integer; the empty one is 0.
LEMMA SumOverType ==
  ASSUME NEW S, IsFiniteSet(S), NEW f, \A x \in S : f[x] \in Int
  PROVE  SumOver(f, S) \in Int
<1>1. PICK F : PartialSums(F, f, S) /\ SumOver(f, S) = F[S]
  BY SumOverIs
<1>. QED
  BY <1>1, PartialSumsStep

\* The sum over the empty set is 0.
LEMMA SumOverEmpty ==
  ASSUME NEW f
  PROVE  SumOver(f, {}) = 0
<1>1. PICK F : PartialSums(F, f, {}) /\ SumOver(f, {}) = F[{}]
  BY SumOverIs, FS_EmptySet
<1>. QED
  BY <1>1 DEF PartialSums

\* Functions that agree on a set have the same sum over it.
LEMMA SumOverSame ==
  ASSUME NEW S, IsFiniteSet(S), NEW f, NEW g, \A x \in S : f[x] = g[x]
  PROVE  SumOver(f, S) = SumOver(g, S)
<1>1. PICK F : PartialSums(F, f, S) /\ SumOver(f, S) = F[S]
  BY SumOverIs
<1>2. PICK G : PartialSums(G, g, S) /\ SumOver(g, S) = G[S]
  BY SumOverIs
<1>3. F[S] = G[S]
  BY <1>1, <1>2, PartialSumsAgree
<1>. QED
  BY <1>1, <1>2, <1>3

\* One more element adds its value.
LEMMA SumOverAdd ==
  ASSUME NEW S, IsFiniteSet(S), NEW e, e \notin S,
         NEW f, \A x \in S \cup {e} : f[x] \in Int
  PROVE  /\ IsFiniteSet(S \cup {e})
         /\ SumOver(f, S \cup {e}) = SumOver(f, S) + f[e]
<1>. DEFINE T == S \cup {e}
<1>1. IsFiniteSet(T) /\ T \ {e} = S /\ S \in SUBSET T
  BY FS_AddElement
<1>2. PICK F : PartialSums(F, f, S) /\ SumOver(f, S) = F[S]
  BY SumOverIs
<1>3. PICK G : PartialSums(G, f, T) /\ SumOver(f, T) = G[T]
  BY <1>1, SumOverIs
<1>4. F[S] = G[S]
  BY <1>1, <1>2, <1>3, PartialSumsAgree
<1>5. G[T] = f[e] + G[T \ {e}]
  BY <1>1, <1>3, PartialSumsStep
<1>6. f[e] \in Int /\ F[S] \in Int
  BY <1>2, SumOverType
<1>7. SumOver(f, T) = F[S] + f[e]
  <2>1. G[T \ {e}] = F[S]
    BY <1>1, <1>4
  <2>. HIDE DEF T
  <2>2. SumOver(f, T) = f[e] + F[S]
    BY <1>3, <1>5, <2>1
  <2>. QED
    BY <1>6, <2>2
<1>. QED
  BY <1>1, <1>2, <1>7

\* A sum of smaller numbers is not greater.
LEMMA SumOverAtMost ==
  ASSUME NEW S, IsFiniteSet(S), NEW f, NEW g,
         \A x \in S : f[x] \in Int /\ g[x] \in Int /\ f[x] <= g[x]
  PROVE  SumOver(f, S) <= SumOver(g, S)
<1>1. PICK F : PartialSums(F, f, S) /\ SumOver(f, S) = F[S]
  BY SumOverIs
<1>2. PICK G : PartialSums(G, g, S) /\ SumOver(g, S) = G[S]
  BY SumOverIs
<1>3. \A s \in SUBSET S :
        /\ F[s] \in Int /\ G[s] \in Int
        /\ \A x \in s : /\ F[s] = f[x] + F[s \ {x}]
                        /\ G[s] = g[x] + G[s \ {x}]
  <2>1. \A x \in S : f[x] \in Int /\ g[x] \in Int
    OBVIOUS
  <2>2. \A s \in SUBSET S : F[s] \in Int /\ \A x \in s : F[s] = f[x] + F[s \ {x}]
    BY <1>1, <2>1, PartialSumsStep
  <2>3. \A s \in SUBSET S : G[s] \in Int /\ \A x \in s : G[s] = g[x] + G[s \ {x}]
    BY <1>2, <2>1, PartialSumsStep
  <2>. QED
    BY <2>2, <2>3
<1>4. F[{}] = 0 /\ G[{}] = 0
  BY <1>1, <1>2 DEF PartialSums
<1>5. \A t \in SUBSET S : IsFiniteSet(t) /\ Cardinality(t) \in Nat
  BY FS_Subset, FS_CardinalityType
<1>. DEFINE Bad == {n \in Nat : \E t \in SUBSET S : Cardinality(t) = n /\ ~(F[t] <= G[t])}
<1>6. SUFFICES ASSUME ~(F[S] <= G[S]) PROVE FALSE
  BY <1>1, <1>2
<1>7. Bad \in SUBSET Nat /\ Bad # {}
  BY <1>5, <1>6
<1>8. PICK m \in Bad : \A n \in Bad : m <= n
  BY <1>7, LeastExists
<1>9. PICK t \in SUBSET S : Cardinality(t) = m /\ ~(F[t] <= G[t])
  BY <1>8
<1>10. t # {}
  <2>1. SUFFICES ASSUME t = {} PROVE FALSE
    OBVIOUS
  <2>2. F[t] = 0 /\ G[t] = 0
    BY <1>4, <2>1
  <2>. QED
    BY <1>9, <2>2
<1>11. PICK x \in t : TRUE
  BY <1>10
<1>. DEFINE u == t \ {x}
<1>12. Cardinality(u) = m - 1 /\ m \in Nat /\ m >= 1 /\ u \in SUBSET S
  BY <1>5, <1>9, OneElementLess
<1>13. F[u] <= G[u]
  <2>1. m - 1 \notin Bad /\ m - 1 \in Nat
    BY <1>8, <1>12
  <2>. QED
    BY <1>12, <2>1
<1>14. F[t] = f[x] + F[u] /\ G[t] = g[x] + G[u]
  BY <1>3
<1>. HIDE DEF u
<1>15. F[u] \in Int /\ G[u] \in Int
  BY <1>3, <1>12
<1>. QED
  BY <1>9, <1>13, <1>14, <1>15

\* A sum over places that were moved, none onto another.
LEMMA SumOverMoved ==
  ASSUME NEW S, IsFiniteSet(S), NEW f, NEW g, NEW m,
         \A x, y \in S : m[x] = m[y] => x = y,
         \A x \in S : f[x] \in Int /\ g[m[x]] = f[x]
  PROVE  /\ IsFiniteSet({m[x] : x \in S})
         /\ SumOver(g, {m[x] : x \in S}) = SumOver(f, S)
<1>. DEFINE Image(T) == {m[x] : x \in T}
            Good(T) == IsFiniteSet(Image(T)) /\ SumOver(g, Image(T)) = SumOver(f, T)
            Bad == {n \in Nat : \E T \in SUBSET S : Cardinality(T) = n /\ ~Good(T)}
<1>1. \A T \in SUBSET S : IsFiniteSet(T) /\ Cardinality(T) \in Nat
  BY FS_Subset, FS_CardinalityType
<1>2. SUFFICES ASSUME Bad # {} PROVE FALSE
  BY <1>1
<1>3. Bad \in SUBSET Nat
  OBVIOUS
<1>4. PICK n \in Bad : \A k \in Bad : n <= k
  BY <1>2, <1>3, LeastExists
<1>5. PICK T \in SUBSET S : Cardinality(T) = n /\ ~Good(T)
  BY <1>4
<1>6. n \in Nat /\ IsFiniteSet(T)
  BY <1>1, <1>3, <1>4
<1>7. CASE T = {}
  <2>1. Image(T) = {} /\ IsFiniteSet({})
    BY <1>7, FS_EmptySet
  <2>. QED
    BY <1>5, <1>7, <2>1, SumOverEmpty
<1>8. CASE T # {}
  <2>1. PICK e \in T : TRUE
    BY <1>8
  <2>. DEFINE U == T \ {e}
  <2>2. /\ Cardinality(U) = n - 1 /\ n >= 1 /\ IsFiniteSet(U)
    BY <1>5, <1>6, <2>1, OneElementLess
  <2>3. U \in SUBSET S /\ n - 1 \in Nat /\ ~(n <= n - 1)
    BY <1>6, <2>2
  <2>4. Good(U)
    <3>1. n - 1 \notin Bad
      BY <1>4, <2>3
    <3>. QED
      BY <2>2, <2>3, <3>1
  <2>5. /\ e \notin U /\ T = U \cup {e} /\ m[e] \notin Image(U)
        /\ Image(T) = Image(U) \cup {m[e]}
    BY <2>1
  <2>6. \A y \in Image(U) \cup {m[e]} : g[y] \in Int
    BY <2>1
  <2>7. \A x \in U \cup {e} : f[x] \in Int
    BY <2>1
  <2>8. g[m[e]] = f[e]
    BY <2>1
  <2>. DEFINE I == Image(U)
              v == m[e]
  <2>. HIDE DEF U
  <2>9. IsFiniteSet(I \cup {v}) /\ SumOver(g, I \cup {v}) = SumOver(g, I) + g[v]
    <3>1. IsFiniteSet(I) /\ v \notin I /\ \A y \in I \cup {v} : g[y] \in Int
      BY <2>4, <2>5, <2>6
    <3>. HIDE DEF I, v
    <3>. QED
      BY <3>1, SumOverAdd
  <2>10. SumOver(f, U \cup {e}) = SumOver(f, U) + f[e]
    <3>1. IsFiniteSet(U) /\ e \notin U
      BY <2>2, <2>5
    <3>. HIDE DEF Good, I, v
    <3>. QED
      BY <2>7, <3>1, SumOverAdd, SMTT(60)
  <2>11. Good(T)
    <3>1. Image(T) = I \cup {m[e]} /\ SumOver(g, I) = SumOver(f, U)
      BY <2>4, <2>5
    <3>. QED
      BY <2>5, <2>8, <2>9, <2>10, <3>1
  <2>. QED
    BY <1>5, <2>11
<1>. QED
  BY <1>7, <1>8

\* Numbers of which one changes.
DiffersAt(g, f, S, k) == /\ \A x \in S : f[x] \in Int /\ g[x] \in Int
                         /\ \A x \in S \ {k} : g[x] = f[x]

\* Such a sum changes as its element does.
LEMMA SumOverChanged ==
  ASSUME NEW S, IsFiniteSet(S), NEW k \in S, NEW f, NEW g, DiffersAt(g, f, S, k)
  PROVE  SumOver(g, S) = SumOver(f, S) - f[k] + g[k]
<1>. DEFINE T == S \ {k}
<1>. USE DEF DiffersAt
<1>1. IsFiniteSet(T) /\ k \notin T /\ S = T \cup {k}
  BY FS_Subset
<1>2. \A x \in T \cup {k} : f[x] \in Int /\ g[x] \in Int
  BY <1>1
<1>3. \A x \in T : g[x] = f[x]
  OBVIOUS
<1>. HIDE DEF T
<1>4. SumOver(f, T \cup {k}) = SumOver(f, T) + f[k]
  BY <1>1, <1>2, SumOverAdd
<1>5. SumOver(g, T \cup {k}) = SumOver(g, T) + g[k]
  BY <1>1, <1>2, SumOverAdd
<1>6. SumOver(g, T) = SumOver(f, T) /\ SumOver(f, T) \in Int
  BY <1>1, <1>2, <1>3, SumOverSame, SumOverType
<1>. QED
  BY <1>1, <1>2, <1>4, <1>5, <1>6

\* Numbers of a sequence into which one is inserted.
OneMore(g, f, n, p) ==
  /\ g[p] \in Int
  /\ \A i \in 1 .. n : f[i] \in Int /\ g[IF i < p THEN i ELSE i + 1] = f[i]

\* Such a sum grows by the new element.
LEMMA SumOverInserted ==
  ASSUME NEW n \in Nat, NEW p \in 1 .. n + 1, NEW f, NEW g, OneMore(g, f, n, p)
  PROVE  SumOver(g, 1 .. n + 1) = SumOver(f, 1 .. n) + g[p]
<1>. USE DEF OneMore
<1>. DEFINE m == [i \in 1 .. n |-> IF i < p THEN i ELSE i + 1]
            I == {m[i] : i \in 1 .. n}
<1>1. \A i, j \in 1 .. n : m[i] = m[j] => i = j
  OBVIOUS
<1>2. \A i \in 1 .. n : f[i] \in Int /\ g[m[i]] = f[i]
  OBVIOUS
<1>3. p \notin I
  <2>1. \A i \in 1 .. n : m[i] # p
    OBVIOUS
  <2>. QED
    BY <2>1
<1>4. 1 .. n + 1 = I \cup {p}
  <2>1. ASSUME NEW k \in 1 .. n + 1, k # p
        PROVE  k \in I
    <3>1. CASE k < p
      <4>1. k \in 1 .. n /\ m[k] = k
        BY <3>1
      <4>. QED
        BY <4>1
    <3>2. CASE k > p
      <4>1. k - 1 \in 1 .. n /\ m[k - 1] = k
        BY <3>2
      <4>. QED
        BY <4>1
    <3>. QED
      BY <2>1, <3>1, <3>2
  <2>2. \A i \in 1 .. n : m[i] \in 1 .. n + 1
    OBVIOUS
  <2>. QED
    BY <2>1, <2>2
<1>5. IsFiniteSet(1 .. n)
  BY FS_Interval
<1>. DEFINE S == 1 .. n
<1>6. IsFiniteSet(I) /\ SumOver(g, I) = SumOver(f, 1 .. n)
  <2>1. \A x, y \in S : m[x] = m[y] => x = y
    BY <1>1
  <2>2. \A x \in S : f[x] \in Int /\ g[m[x]] = f[x]
    BY <1>2
  <2>3. I = {m[x] : x \in S} /\ IsFiniteSet(S)
    BY <1>5
  <2>. HIDE DEF m, S, I
  <2>4. IsFiniteSet({m[x] : x \in S}) /\ SumOver(g, {m[x] : x \in S}) = SumOver(f, S)
    BY <2>1, <2>2, <2>3, SumOverMoved
  <2>. QED
    BY <2>3, <2>4 DEF S
<1>7. \A y \in I \cup {p} : g[y] \in Int
  BY <1>2
<1>. HIDE DEF I
<1>8. SumOver(g, I \cup {p}) = SumOver(g, I) + g[p]
  BY <1>3, <1>6, <1>7, SumOverAdd
<1>. QED
  BY <1>4, <1>6, <1>8

\* A sum of as many times the same number.
LEMMA SumOverConstant ==
  ASSUME NEW S, IsFiniteSet(S), NEW c \in Int, NEW f, \A x \in S : f[x] = c
  PROVE  Cardinality(S) \in Nat /\ SumOver(f, S) = c * Cardinality(S)
<1>. DEFINE Good(T) == SumOver(f, T) = c * Cardinality(T)
            Bad == {n \in Nat : \E T \in SUBSET S : Cardinality(T) = n /\ ~Good(T)}
<1>1. \A T \in SUBSET S : IsFiniteSet(T) /\ Cardinality(T) \in Nat
  BY FS_Subset, FS_CardinalityType
<1>2. SUFFICES ASSUME Bad # {} PROVE FALSE
  BY <1>1
<1>3. Bad \in SUBSET Nat
  OBVIOUS
<1>4. PICK n \in Bad : \A k \in Bad : n <= k
  BY <1>2, <1>3, LeastExists
<1>5. PICK T \in SUBSET S : Cardinality(T) = n /\ ~Good(T)
  BY <1>4
<1>6. n \in Nat /\ IsFiniteSet(T)
  BY <1>1, <1>3, <1>4
<1>7. CASE T = {}
  BY <1>5, <1>7, FS_EmptySet, SumOverEmpty
<1>8. CASE T # {}
  <2>1. PICK e \in T : TRUE
    BY <1>8
  <2>. DEFINE U == T \ {e}
  <2>2. /\ Cardinality(U) = n - 1 /\ n >= 1 /\ IsFiniteSet(U)
    BY <1>5, <1>6, <2>1, OneElementLess
  <2>3. U \in SUBSET S /\ n - 1 \in Nat /\ ~(n <= n - 1)
    BY <1>6, <2>2
  <2>4. Good(U)
    <3>1. n - 1 \notin Bad
      BY <1>4, <2>3
    <3>. QED
      BY <2>2, <2>3, <3>1
  <2>5. e \notin U /\ T = U \cup {e} /\ f[e] = c
    BY <2>1
  <2>7. \A x \in U \cup {e} : f[x] \in Int
    BY <2>1
  <2>. HIDE DEF U
  <2>8. SumOver(f, U \cup {e}) = SumOver(f, U) + f[e]
    BY <2>2, <2>5, <2>7, SumOverAdd
  <2>9. SumOver(f, T) = c * (n - 1) + c
    BY <2>2, <2>4, <2>5, <2>8
  <2>. QED
    BY <1>5, <1>6, <2>9
<1>. QED
  BY <1>7, <1>8

\* No element of a sum of natural numbers exceeds it, and no two together do.
LEMMA SumOverElement ==
  ASSUME NEW S, IsFiniteSet(S), NEW f, \A x \in S : f[x] \in Nat
  PROVE  /\ SumOver(f, S) \in Nat
         /\ \A k \in S : f[k] <= SumOver(f, S)
         /\ \A j, k \in S : j # k => f[j] + f[k] <= SumOver(f, S)
<1>1. ASSUME NEW T \in SUBSET S
      PROVE  IsFiniteSet(T) /\ SumOver(f, T) \in Nat
  <2>. DEFINE z == [x \in T |-> 0]
  <2>1. IsFiniteSet(T) /\ \A x \in T : z[x] = 0 /\ f[x] \in Int /\ z[x] \in Int /\ z[x] <= f[x]
    BY FS_Subset
  <2>. HIDE DEF z
  <2>2. SumOver(z, T) = 0 * Cardinality(T) /\ Cardinality(T) \in Nat
    BY <2>1, SumOverConstant
  <2>3. SumOver(z, T) <= SumOver(f, T)
    BY <2>1, SumOverAtMost
  <2>4. SumOver(f, T) \in Int
    BY <2>1, SumOverType
  <2>. QED
    BY <2>1, <2>2, <2>3, <2>4
<1>2. ASSUME NEW T \in SUBSET S, NEW k \in T
      PROVE  SumOver(f, T) = SumOver(f, T \ {k}) + f[k]
  <2>. DEFINE U == T \ {k}
  <2>1. IsFiniteSet(U) /\ k \notin U /\ T = U \cup {k} /\ \A x \in U \cup {k} : f[x] \in Int
    BY <1>1, FS_Subset
  <2>. HIDE DEF U
  <2>2. SumOver(f, U \cup {k}) = SumOver(f, U) + f[k]
    BY <2>1, SumOverAdd
  <2>. QED
    BY <2>1, <2>2 DEF U
<1>3. ASSUME NEW k \in S PROVE f[k] <= SumOver(f, S)
  <2>1. SumOver(f, S) = SumOver(f, S \ {k}) + f[k]
    BY <1>2
  <2>2. SumOver(f, S \ {k}) \in Nat /\ f[k] \in Nat
    BY <1>1
  <2>. QED
    BY <2>1, <2>2
<1>4. ASSUME NEW j \in S, NEW k \in S, j # k PROVE f[j] + f[k] <= SumOver(f, S)
  <2>1. SumOver(f, S) = SumOver(f, S \ {k}) + f[k]
    BY <1>2
  <2>2. SumOver(f, S \ {k}) = SumOver(f, (S \ {k}) \ {j}) + f[j]
    BY <1>2, <1>4
  <2>3. SumOver(f, (S \ {k}) \ {j}) \in Nat /\ f[j] \in Nat /\ f[k] \in Nat
    BY <1>1
  <2>. QED
    BY <2>1, <2>2, <2>3
<1>. QED
  BY <1>1, <1>3, <1>4

\* Counting some of a set is a sum of ones and zeros.
LEMMA CountIsSum ==
  ASSUME NEW S, IsFiniteSet(S), NEW Q \in SUBSET S, NEW f,
         \A x \in S : f[x] = IF x \in Q THEN 1 ELSE 0
  PROVE  Cardinality(Q) \in Nat /\ Cardinality(Q) = SumOver(f, S)
<1>. DEFINE R == S \ Q
            Good(T) == SumOver(f, Q \cup T) = Cardinality(Q)
            Bad == {n \in Nat : \E T \in SUBSET R : Cardinality(T) = n /\ ~Good(T)}
<1>1. \A T \in SUBSET S : IsFiniteSet(T) /\ Cardinality(T) \in Nat
  BY FS_Subset, FS_CardinalityType
<1>2. SUFFICES Bad = {}
  <2>1. ASSUME Bad = {} PROVE Good(R)
    BY <1>1, <2>1
  <2>2. Q \cup R = S
    OBVIOUS
  <2>. QED
    BY <1>1, <2>1, <2>2
<1>3. SUFFICES ASSUME Bad # {} PROVE FALSE
  OBVIOUS
<1>4. Bad \in SUBSET Nat
  OBVIOUS
<1>5. PICK n \in Bad : \A k \in Bad : n <= k
  BY <1>3, <1>4, LeastExists
<1>6. PICK T \in SUBSET R : Cardinality(T) = n /\ ~Good(T)
  BY <1>5
<1>7. n \in Nat /\ IsFiniteSet(T) /\ IsFiniteSet(Q) /\ Cardinality(Q) \in Nat
  BY <1>1, <1>4, <1>5
<1>8. CASE T = {}
  <2>1. \A x \in Q : f[x] = 1
    OBVIOUS
  <2>2. SumOver(f, Q) = 1 * Cardinality(Q)
    BY <1>7, <2>1, SumOverConstant
  <2>. QED
    BY <1>6, <1>7, <1>8, <2>2
<1>9. CASE T # {}
  <2>1. PICK e \in T : TRUE
    BY <1>9
  <2>. DEFINE U == T \ {e}
              V == Q \cup U
  <2>2. /\ Cardinality(U) = n - 1 /\ n >= 1 /\ IsFiniteSet(U)
    BY <1>6, <1>7, <2>1, OneElementLess
  <2>3. U \in SUBSET R /\ n - 1 \in Nat /\ ~(n <= n - 1)
    BY <1>7, <2>2
  <2>4. Good(U)
    <3>1. n - 1 \notin Bad
      BY <1>5, <2>3
    <3>. QED
      BY <2>2, <2>3, <3>1
  <2>5. e \notin V /\ Q \cup T = V \cup {e} /\ f[e] = 0 /\ V \in SUBSET S
    BY <2>1
  <2>6. \A x \in V \cup {e} : f[x] \in Int
    BY <2>1
  <2>7. IsFiniteSet(V)
    BY <1>1, <2>5
  <2>8. SumOver(f, V) = Cardinality(Q)
    BY <2>4
  <2>. HIDE DEF V
  <2>9. SumOver(f, V \cup {e}) = SumOver(f, V) + f[e]
    BY <2>5, <2>6, <2>7, SumOverAdd
  <2>. QED
    BY <1>6, <1>7, <2>5, <2>8, <2>9
<1>. QED
  BY <1>8, <1>9
\* The sum of a function, as Functions writes it.
LEMMA SumFunctionIs ==
  ASSUME NEW f
  PROVE  SumFunction(f) = SumOver(f, DOMAIN f)
BY DEF SumFunction, SumFunctionOnSet, FoldFunctionOnSet, MapThenFoldSet, SumOver, PartialSums, AnyOf

-----------------------------------------------------------------------------
\* The recursive function that FlattenSeq is made of.
LEMMA FlattenFunction ==
  ASSUME NEW ss, NEW n \in Nat, n # 0, Len(ss) = n
  PROVE  \E K : /\ DOMAIN K = 1 .. n
                /\ K[1] = ss[1]
                /\ \A i \in 2 .. n : K[i] = K[i - 1] \o ss[i]
                /\ FlattenSeq(ss) = K[n]
<1>. DEFINE Val(K, i) == IF i = 1 THEN ss[i] ELSE K[i - 1] \o ss[i]
            Good(m, K) == /\ K = [i \in 1 .. m |-> K[i]]
                          /\ \A i \in 1 .. m : K[i] = Val(K, i)
            Bad == {m \in 1 .. n : ~ \E K : Good(m, K)}
<1>2. Bad = {}
  <2>1. SUFFICES ASSUME Bad # {} PROVE FALSE
    OBVIOUS
  <2>2. Bad \in SUBSET Nat
    OBVIOUS
  <2>3. PICK m \in Bad : \A k \in Bad : m <= k
    BY <2>1, <2>2, LeastExists
  <2>4. m \in 1 .. n /\ ~ \E K : Good(m, K)
    BY <2>3
  <2>5. CASE m = 1
    <3>. DEFINE K == [i \in 1 .. 1 |-> ss[1]]
    <3>1. Good(1, K)
      OBVIOUS
    <3>. QED
      BY <2>4, <2>5, <3>1
  <2>6. CASE m # 1
    <3>1. m - 1 \in 1 .. n /\ ~(m <= m - 1) /\ m - 1 \in Nat
      BY <2>4, <2>6
    <3>2. PICK K : Good(m - 1, K)
      BY <2>3, <3>1
    <3>. DEFINE L == [i \in 1 .. m |-> IF i = m THEN Val(K, m) ELSE K[i]]
    <3>3. ASSUME NEW i \in 1 .. m PROVE L[i] = Val(L, i)
      <4>1. i \in Int /\ i <= m /\ i >= 1 /\ m \in Int
        BY <2>4
      <4>2. CASE i = 1
        <5>1. m \in Nat /\ m >= 2
          BY <2>4, <2>6
        <5>2. 1 \in 1 .. m - 1 /\ 1 \in 1 .. m /\ m # 1
          BY <5>1
        <5>3. L[1] = K[1]
          BY <5>2
        <5>4. K[1] = ss[1]
          BY <3>2, <5>2
        <5>. HIDE DEF L
        <5>. QED
          BY <4>2, <5>3, <5>4
      <4>3. CASE i # 1
        <5>1. i - 1 \in 1 .. m /\ i - 1 # m /\ i - 1 \in 1 .. m - 1
          BY <4>1, <4>3
        <5>2. L[i - 1] = K[i - 1]
          BY <5>1
        <5>3. L[i] = Val(K, i)
          <6>1. CASE i = m
            BY <6>1
          <6>2. CASE i # m
            <7>1. i \in 1 .. m - 1
              BY <4>1, <6>2
            <7>. QED
              BY <3>2, <6>2, <7>1
          <6>. QED
            BY <6>1, <6>2
        <5>. HIDE DEF L
        <5>. QED
          BY <4>3, <5>2, <5>3
      <4>. QED
        BY <4>2, <4>3
    <3>4. Good(m, L)
      <4>. L = [i \in 1 .. m |-> L[i]]
        OBVIOUS
      <4>. HIDE DEF L
      <4>. QED
        BY <3>3
    <3>. QED
      BY <2>4, <3>4
  <2>. QED
    BY <2>5, <2>6
<1>3. PICK K : Good(n, K)
  BY <1>2
<1>. DEFINE F == CHOOSE F : F = [i \in 1 .. n |-> Val(F, i)]
<1>4. \E G : G = [i \in 1 .. n |-> Val(G, i)]
  <2>1. [i \in 1 .. n |-> K[i]] = [i \in 1 .. n |-> Val(K, i)]
    BY <1>3
  <2>. QED
    BY <1>3, <2>1
<1>5. F = [i \in 1 .. n |-> Val(F, i)]
  BY <1>4
<1>6. FlattenSeq(ss) = F[n]
  BY DEF FlattenSeq
<1>. HIDE DEF F
<1>7. DOMAIN F = 1 .. n /\ \A i \in 1 .. n : F[i] = Val(F, i)
  BY <1>5
<1>8. F[1] = ss[1]
  <2>. 1 \in 1 .. n
    OBVIOUS
  <2>. QED
    BY <1>7
<1>9. ASSUME NEW i \in 2 .. n
      PROVE  F[i] = F[i - 1] \o ss[i]
  <2>. i \in 1 .. n /\ i # 1
    OBVIOUS
  <2>. QED
    BY <1>7
<1>. QED
  BY <1>6, <1>7, <1>8, <1>9

\* FlattenSeq puts sequences one after another.
LEMMA FlattenElements ==
  ASSUME NEW S, NEW ss, NEW n \in Nat, Len(ss) = n, n = 0 => ss = <<>>,
         \A i \in 1 .. n : ss[i] \in Seq(S)
  PROVE  /\ FlattenSeq(ss) \in Seq(S)
         /\ ToSet(FlattenSeq(ss)) = UNION {ToSet(ss[i]) : i \in 1 .. n}
<1>1. CASE n = 0
  <2>1. FlattenSeq(ss) = <<>> /\ ToSet(<<>>) = {} /\ <<>> \in Seq(S)
    BY <1>1, EmptySeq DEF FlattenSeq, ToSet
  <2>. QED
    BY <1>1, <2>1
<1>2. CASE n # 0
  <2>1. PICK K : /\ DOMAIN K = 1 .. n
                 /\ K[1] = ss[1]
                 /\ \A i \in 2 .. n : K[i] = K[i - 1] \o ss[i]
                 /\ FlattenSeq(ss) = K[n]
    BY <1>2, FlattenFunction
  <2>. DEFINE Is(m) == /\ K[m] \in Seq(S)
                       /\ ToSet(K[m]) = UNION {ToSet(ss[i]) : i \in 1 .. m}
              Bad == {m \in 1 .. n : ~Is(m)}
  <2>2. Bad = {}
    <3>1. SUFFICES ASSUME Bad # {} PROVE FALSE
      OBVIOUS
    <3>2. Bad \in SUBSET Nat
      OBVIOUS
    <3>3. PICK m \in Bad : \A k \in Bad : m <= k
      BY <3>1, <3>2, LeastExists
    <3>4. m \in 1 .. n /\ ~Is(m)
      BY <3>3
    <3>5. CASE m = 1
      <4>1. 1 .. 1 = {1}
        OBVIOUS
      <4>2. UNION {ToSet(ss[i]) : i \in {1}} = ToSet(ss[1])
        OBVIOUS
      <4>. QED
        BY <1>2, <2>1, <3>4, <3>5, <4>1, <4>2
    <3>6. CASE m # 1
      <4>1. m - 1 \in 1 .. n /\ ~(m <= m - 1) /\ m \in 2 .. n
        BY <3>4, <3>6
      <4>2. Is(m - 1)
        BY <3>3, <4>1
      <4>3. K[m] = K[m - 1] \o ss[m] /\ ss[m] \in Seq(S)
        BY <2>1, <3>4, <4>1
      <4>4. K[m] \in Seq(S) /\ ToSet(K[m]) = ToSet(K[m - 1]) \cup ToSet(ss[m])
        <5>. DEFINE a == K[m - 1]
                    b == ss[m]
        <5>1. a \in Seq(S) /\ b \in Seq(S)
          BY <4>2, <4>3
        <5>. HIDE DEF a, b
        <5>2. a \o b \in Seq(S) /\ ToSet(a \o b) = ToSet(a) \cup ToSet(b)
          BY <5>1, ConcatElements
        <5>. QED
          BY <4>3, <5>2 DEF a, b
      <4>5. 1 .. m = (1 .. m - 1) \cup {m}
        BY <3>4, <3>6
      <4>6. UNION {ToSet(ss[i]) : i \in (1 .. m - 1) \cup {m}}
              = (UNION {ToSet(ss[i]) : i \in 1 .. m - 1}) \cup ToSet(ss[m])
        OBVIOUS
      <4>. QED
        BY <3>4, <4>2, <4>4, <4>5, <4>6
    <3>. QED
      BY <3>5, <3>6
  <2>3. Is(n)
    <3>. n \in 1 .. n
      BY <1>2
    <3>. QED
      BY <2>2
  <2>. QED
    BY <2>1, <2>3
<1>. QED
  BY <1>1, <1>2

\* A step F of a fold, by the number of the element, keeps a set; and a fold G of n
\* elements from b by such steps.
FoldStep(F, n, S) == \A i \in 1 .. n : \A a \in S : F[<<i, a>>] \in S

FoldOf(G, F, n, b, S) ==
  /\ G = [T \in SUBSET (1 .. n) |-> IF T = {} THEN b ELSE F[<<Max(T), G[T \ {Max(T)}]>>]]
  /\ \A T \in SUBSET (1 .. n) : G[T] \in S

\* The function that a fold recurs on exists, if its values stay in a set.
LEMMA FoldExists ==
  ASSUME NEW n \in Nat, NEW S, NEW b \in S, NEW F, FoldStep(F, n, S)
  PROVE  \E G : FoldOf(G, F, n, b, S)
<1>. DEFINE Val(G, T) == IF T = {} THEN b ELSE F[<<Max(T), G[T \ {Max(T)}]>>]
            Good(m, G) == /\ G = [T \in SUBSET (1 .. m) |-> G[T]]
                          /\ \A T \in SUBSET (1 .. m) : G[T] = Val(G, T) /\ G[T] \in S
            Bad == {m \in 0 .. n : ~ \E G : Good(m, G)}
<1>1. Bad = {}
  <2>1. SUFFICES ASSUME Bad # {} PROVE FALSE
    OBVIOUS
  <2>2. Bad \in SUBSET Nat
    OBVIOUS
  <2>3. PICK m \in Bad : \A k \in Bad : m <= k
    BY <2>1, <2>2, LeastExists
  <2>4. m \in 0 .. n /\ ~ \E G : Good(m, G)
    BY <2>3
  <2>5. CASE m = 0
    <3>. DEFINE G == [T \in SUBSET (1 .. 0) |-> b]
    <3>1. \A T \in SUBSET (1 .. 0) : T = {}
      OBVIOUS
    <3>2. Good(0, G)
      BY <3>1
    <3>. HIDE DEF G, Good
    <3>. QED
      BY <2>4, <2>5, <3>2
  <2>6. CASE m # 0
    <3>1. m - 1 \in 0 .. n /\ ~(m <= m - 1) /\ m \in Nat /\ m >= 1
      BY <2>4, <2>6
    <3>2. PICK K : Good(m - 1, K)
      <4>. HIDE DEF Good
      <4>. QED
        BY <2>3, <3>1
    <3>. DEFINE G == [T \in SUBSET (1 .. m) |->
                        IF m \in T THEN F[<<m, K[T \ {m}]>>] ELSE K[T]]
    <3>3. \A T \in SUBSET (1 .. m) : T \ {m} \in SUBSET (1 .. m - 1) /\ T \ {m} \in SUBSET (1 .. m)
      <4>1. \A i \in 1 .. m : i # m => i \in 1 .. m - 1
        BY <3>1
      <4>. QED
        BY <4>1
    <3>4. ASSUME NEW T \in SUBSET (1 .. m) PROVE G[T] = Val(G, T) /\ G[T] \in S
      <4>1. CASE m \in T
        <5>1. Max(T) = m
          <6>1. T \in SUBSET Int /\ \A y \in T : m >= y
            BY <3>1
          <6>. QED
            BY <4>1, <6>1, MaxIs
        <5>2. G[T] = F[<<m, K[T \ {m}]>>]
          BY <4>1
        <5>3. G[T \ {m}] = K[T \ {m}]
          BY <3>3
        <5>4. G[T] \in S
          <6>1. K[T \ {m}] \in S
            <7>. HIDE DEF G
            <7>. QED
              BY <3>2, <3>3
          <6>2. m \in 1 .. n
            BY <2>4, <3>1
          <6>. HIDE DEF G
          <6>. QED
            BY <5>2, <6>1, <6>2 DEF FoldStep
        <5>. HIDE DEF G
        <5>. QED
          BY <4>1, <5>1, <5>2, <5>3, <5>4
      <4>2. CASE m \notin T
        <5>1. T \in SUBSET (1 .. m - 1) /\ T \ {m} = T
          BY <3>3, <4>2
        <5>2. G[T] = K[T]
          BY <4>2
        <5>3. K[T] = Val(K, T) /\ K[T] \in S
          BY <3>2, <5>1
        <5>4. CASE T = {}
          BY <5>2, <5>3, <5>4
        <5>5. CASE T # {}
          <6>. DEFINE R == T \ {Max(T)}
          <6>1. R \in SUBSET (1 .. m) /\ m \notin R
            BY <4>2
          <6>2. G[R] = K[R]
            BY <6>1
          <6>. HIDE DEF G
          <6>. QED
            BY <5>2, <5>3, <5>5, <6>2
        <5>. QED
          BY <5>4, <5>5
      <4>. QED
        BY <4>1, <4>2
    <3>5. Good(m, G)
      <4>. G = [T \in SUBSET (1 .. m) |-> G[T]]
        OBVIOUS
      <4>. HIDE DEF G
      <4>. QED
        BY <3>4
    <3>. HIDE DEF G, Good
    <3>. QED
      BY <2>4, <3>5
  <2>. QED
    BY <2>5, <2>6
<1>2. PICK G : Good(n, G)
  <2>1. n \in 0 .. n
    OBVIOUS
  <2>. HIDE DEF Good
  <2>. QED
    BY <1>1, <2>1
<1>3. G = [T \in SUBSET (1 .. n) |-> Val(G, T)]
  <2>1. [T \in SUBSET (1 .. n) |-> G[T]] = [T \in SUBSET (1 .. n) |-> Val(G, T)]
    BY <1>2
  <2>. QED
    BY <1>2, <2>1
<1>. QED
  BY <1>2, <1>3 DEF FoldOf

\* The greatest of some numbers, and the others.
LEMMA GreatestAndRest ==
  ASSUME NEW n \in Nat, NEW T \in SUBSET (1 .. n), T # {}
  PROVE  Max(T) \in 1 .. n /\ T \ {Max(T)} \in SUBSET (1 .. n)
<1>1. T \in SUBSET (0 .. n)
  OBVIOUS
<1>2. Max(T) \in T
  BY <1>1, MaxIsGreatest
<1>. QED
  BY <1>2

\* The greatest of the first numbers, and the others.
LEMMA FirstNumbers ==
  ASSUME NEW n \in Nat, NEW i \in 1 .. n
  PROVE  /\ 1 .. i \in SUBSET (1 .. n) /\ 1 .. i # {}
         /\ Max(1 .. i) = i /\ (1 .. i) \ {Max(1 .. i)} = 1 .. i - 1
<1>. DEFINE T == 1 .. i
<1>1. T \in SUBSET (1 .. n) /\ T # {} /\ i \in T /\ T \in SUBSET Int /\ \A y \in T : i >= y
  OBVIOUS
<1>2. T \ {i} = 1 .. i - 1
  OBVIOUS
<1>. HIDE DEF T
<1>3. Max(T) = i
  BY <1>1, MaxIs
<1>. QED
  BY <1>1, <1>2, <1>3 DEF T

\* The function that turns recur on exists, if its values stay in a set.
LEMMA TurnsExist ==
  ASSUME NEW n \in Nat, NEW S, NEW b \in S, NEW F, FoldStep(F, n, S)
  PROVE  \E g : /\ g = [i \in 0 .. n |-> IF i = 0 THEN b ELSE F[<<i, g[i - 1]>>]]
                /\ \A i \in 0 .. n : g[i] \in S
<1>1. PICK G : FoldOf(G, F, n, b, S)
  BY FoldExists
<1>. DEFINE P == SUBSET (1 .. n)
            g == [i \in 0 .. n |-> G[1 .. i]]
<1>2. /\ \A T \in P : G[T] = IF T = {} THEN b ELSE F[<<Max(T), G[T \ {Max(T)}]>>]
      /\ \A T \in P : G[T] \in S
  BY <1>1 DEF FoldOf
<1>3. \A i \in 0 .. n : 1 .. i \in P
  OBVIOUS
<1>4. g[0] = b
  <2>1. 1 .. 0 = {} /\ 0 \in 0 .. n
    OBVIOUS
  <2>. QED
    BY <1>2, <1>3, <2>1
<1>5. ASSUME NEW i \in 0 .. n, i # 0 PROVE g[i] = F[<<i, g[i - 1]>>]
  <2>1. i \in 1 .. n /\ i - 1 \in 0 .. n
    BY <1>5
  <2>2. 1 .. i \in P /\ 1 .. i # {} /\ Max(1 .. i) = i /\ (1 .. i) \ {Max(1 .. i)} = 1 .. i - 1
    BY <2>1, FirstNumbers
  <2>3. G[1 .. i] = F[<<i, G[1 .. i - 1]>>]
    BY <1>2, <2>2
  <2>. QED
    BY <2>1, <2>3
<1>6. \A i \in 0 .. n : g[i] \in S
  BY <1>2, <1>3
<1>7. g = [i \in 0 .. n |-> g[i]]
  OBVIOUS
<1>. HIDE DEF g
<1>8. g = [i \in 0 .. n |-> IF i = 0 THEN b ELSE F[<<i, g[i - 1]>>]]
  BY <1>4, <1>5, <1>7
<1>. QED
  BY <1>6, <1>8
=============================================================================
