------------------------- MODULE SocialMediaProofs -------------------------
(***************************************************************************)
(* The Facebook clone, for every number of users, of posts and of commands *)
(* of the kinds it has: friendship is mutual and its counters are right;   *)
(* the reposts of a post are a tree; the common repost found is the lowest *)
(* of them; the feed, the profiles and friends-repost agree; the distances *)
(* a search finds are those of the network; suggestions, common friends    *)
(* and the popular friend are what they should be; and the likes shown     *)
(* are those given, by users who like one of a post and its reposts.       *)
(***************************************************************************)
EXTENDS LikeHistory, SequenceLemmas

\* A list of friends: distinct users, none of them u.
FriendList(u, s) == s \in Seq(Users) /\ IsInjective(s) /\ u \notin ToSet(s)

\* The lists agree with each other and the counters with them.
Mutual ==
  /\ friendsOf = [u \in Users |-> friendsOf[u]]
  /\ friendsNumber = [u \in Users |-> Len(friendsOf[u])]
  /\ \A u \in Users : FriendList(u, friendsOf[u])
  /\ \A u, v \in Users : v \in ToSet(friendsOf[u]) <=> u \in ToSet(friendsOf[v])

\* The users that wait in the queue of a search have a distance.
Searching(q) ==
  /\ DOMAIN q = {"source", "queue", "elements"}
  /\ q.source \in Users
  /\ q.queue \in Seq(Users)
  /\ q.elements \in [Users -> Element]
  /\ \A u \in ToSet(q.queue) : q.elements[u].distance \in Nat

FriendsInv ==
  /\ Mutual
  /\ leftover \in Element
  /\ search = Nobody \/ Searching(search)
  /\ running \in BOOLEAN

\* There are fewer friends than users, and the counter does not wrap.
LEMMA FriendsFit ==
  ASSUME NEW u \in Users, NEW s, FriendList(u, s)
  PROVE  Len(s) \in Nat /\ Len(s) <= UsersNumber - 1 /\ UsersNumber - 1 < UintModulus
<1>1. UsersNumber \in Nat /\ UintModulus \in Nat /\ UsersNumber <= UintModulus
  BY UsersAssumption
<1>2. IsFiniteSet(Users) /\ Cardinality(Users) = UsersNumber
  <2>1. 0 \in Int /\ UsersNumber - 1 \in Int
    BY <1>1
  <2>2. /\ IsFiniteSet(0 .. UsersNumber - 1)
        /\ Cardinality(0 .. UsersNumber - 1)
             = IF 0 > UsersNumber - 1 THEN 0 ELSE (UsersNumber - 1) - 0 + 1
    BY <2>1, FS_Interval
  <2>. QED
    BY <1>1, <2>2 DEF Users
<1>3. IsFiniteSet(Users \ {u}) /\ Cardinality(Users \ {u}) = UsersNumber - 1
  BY <1>2, FS_RemoveElement
<1>4. /\ IsFiniteSet(ToSet(s)) /\ Cardinality(ToSet(s)) = Len(s) /\ Len(s) \in Nat
      /\ ToSet(s) \subseteq Users \ {u}
  BY InjectiveLength, IndicesOfSeq DEF FriendList
<1>5. Cardinality(ToSet(s)) <= Cardinality(Users \ {u})
  BY <1>3, <1>4, FS_Subset
<1>. QED
  BY <1>1, <1>3, <1>4, <1>5

\* A new friend at the end of a list.
LEMMA Befriended ==
  ASSUME NEW u \in Users, NEW s, FriendList(u, s), NEW v \in Users, v # u, v \notin ToSet(s)
  PROVE  /\ FriendList(u, Append(s, v)) /\ ToSet(Append(s, v)) = ToSet(s) \cup {v}
         /\ (Len(s) + 1) % UintModulus = Len(Append(s, v))
<1>1. FriendList(u, Append(s, v)) /\ ToSet(Append(s, v)) = ToSet(s) \cup {v}
  BY PushBack DEF FriendList
<1>2. Len(Append(s, v)) = Len(s) + 1
  BY AppendProperties DEF FriendList
<1>3. Len(Append(s, v)) \in 0 .. UintModulus - 1 /\ UintModulus \in Nat /\ UintModulus > 0
  <2>. DEFINE t == Append(s, v)
  <2>1. Len(t) \in Nat /\ Len(t) <= UsersNumber - 1 /\ UsersNumber - 1 < UintModulus
    BY <1>1, FriendsFit
  <2>. HIDE DEF t
  <2>2. UsersNumber \in Nat /\ UintModulus \in Nat /\ UintModulus > 0
    BY UsersAssumption
  <2>3. Len(t) \in 0 .. UintModulus - 1
    BY <2>1, <2>2
  <2>. QED
    BY <2>2, <2>3 DEF t
<1>. QED
  BY <1>1, <1>2, <1>3

\* A friend less.
LEMMA Parted ==
  ASSUME NEW u \in Users, NEW s, FriendList(u, s), NEW v \in ToSet(s)
  PROVE  /\ FriendList(u, RemoveFirst(s, v)) /\ ToSet(RemoveFirst(s, v)) = ToSet(s) \ {v}
         /\ (Len(s) - 1) % UintModulus = Len(RemoveFirst(s, v))
<1>1. /\ FriendList(u, RemoveFirst(s, v)) /\ ToSet(RemoveFirst(s, v)) = ToSet(s) \ {v}
      /\ Len(RemoveFirst(s, v)) = Len(s) - 1
  BY RemoveElement DEF FriendList
<1>2. Len(RemoveFirst(s, v)) \in 0 .. UintModulus - 1 /\ UintModulus \in Nat /\ UintModulus > 0
  BY <1>1, FriendsFit, UsersAssumption
<1>. QED
  BY <1>1, <1>2

\* The lists of two users change, and each gains or loses the other.
LEMMA BothChange ==
  ASSUME Mutual, NEW u \in Users, NEW v \in Users, u # v,
         NEW s, FriendList(u, s), NEW t, FriendList(v, t),
         v \in ToSet(s) <=> u \in ToSet(t),
         \A w \in Users \ {v} : w \in ToSet(s) <=> w \in ToSet(friendsOf[u]),
         \A w \in Users \ {u} : w \in ToSet(t) <=> w \in ToSet(friendsOf[v]),
         friendsOf' = [friendsOf EXCEPT ![u] = s, ![v] = t],
         friendsNumber' = [friendsNumber EXCEPT ![u] = Len(s), ![v] = Len(t)]
  PROVE  Mutual'
<1>1. /\ friendsOf' = [w \in Users |-> friendsOf'[w]]
      /\ friendsOf'[u] = s /\ friendsOf'[v] = t
      /\ \A w \in Users \ {u, v} : friendsOf'[w] = friendsOf[w]
  BY DEF Mutual
<1>2. friendsNumber' = [w \in Users |-> Len(friendsOf'[w])]
  BY <1>1 DEF Mutual
<1>3. \A w \in Users : FriendList(w, friendsOf'[w])
  BY <1>1 DEF Mutual
<1>4. ASSUME NEW w \in Users, NEW x \in Users
      PROVE  x \in ToSet(friendsOf'[w]) <=> w \in ToSet(friendsOf'[x])
  <2>1. \A y \in Users, z \in Users :
          z \in ToSet(friendsOf[y]) <=> y \in ToSet(friendsOf[z])
    BY DEF Mutual
  <2>2. u \notin ToSet(s) /\ v \notin ToSet(t)
        /\ u \notin ToSet(friendsOf[u]) /\ v \notin ToSet(friendsOf[v])
    BY DEF FriendList, Mutual
  <2>3. CASE w = u /\ x = v
    BY <1>1, <2>3
  <2>4. CASE w = v /\ x = u
    BY <1>1, <2>4
  <2>5. CASE w = x
    BY <2>5
  <2>6. CASE w = u /\ x \notin {u, v}
    BY <1>1, <2>1, <2>6
  <2>7. CASE w = v /\ x \notin {u, v}
    BY <1>1, <2>1, <2>7
  <2>8. CASE w \notin {u, v} /\ x \in {u, v}
    BY <1>1, <2>1, <2>8
  <2>9. CASE w \notin {u, v} /\ x \notin {u, v}
    BY <1>1, <2>1, <2>9
  <2>. QED
    BY <2>3, <2>4, <2>5, <2>6, <2>7, <2>8, <2>9
<1>. QED
  BY <1>1, <1>2, <1>3, <1>4 DEF Mutual

\* Two users befriend each other.
LEMMA AddKeepsMutual ==
  ASSUME Mutual, NEW u \in Users, NEW v \in Users, u # v, AddConnection(u, v)
  PROVE  Mutual'
<1>. DEFINE s == Append(friendsOf[u], v)
            t == Append(friendsOf[v], u)
<1>1. /\ FriendList(u, friendsOf[u]) /\ FriendList(v, friendsOf[v])
      /\ v \notin ToSet(friendsOf[u]) /\ u \notin ToSet(friendsOf[v])
  BY DEF Mutual, AddConnection, IsMyFriend
<1>2. /\ FriendList(u, s) /\ ToSet(s) = ToSet(friendsOf[u]) \cup {v}
      /\ (Len(friendsOf[u]) + 1) % UintModulus = Len(s)
  BY <1>1, Befriended
<1>3. /\ FriendList(v, t) /\ ToSet(t) = ToSet(friendsOf[v]) \cup {u}
      /\ (Len(friendsOf[v]) + 1) % UintModulus = Len(t)
  BY <1>1, Befriended
<1>4. friendsNumber[u] = Len(friendsOf[u]) /\ friendsNumber[v] = Len(friendsOf[v])
  BY DEF Mutual
<1>5. /\ friendsOf' = [friendsOf EXCEPT ![u] = s, ![v] = t]
      /\ friendsNumber' = [friendsNumber EXCEPT ![u] = Len(s), ![v] = Len(t)]
  <2>1. /\ friendsOf' = [friendsOf EXCEPT ![u] = Append(friendsOf[u], v),
                                          ![v] = Append(friendsOf[v], u)]
        /\ friendsNumber' = [friendsNumber EXCEPT
              ![u] = (friendsNumber[u] + 1) % UintModulus,
              ![v] = (friendsNumber[v] + 1) % UintModulus]
    BY DEF AddConnection, AddEntry, Mutual
  <2>. QED
    BY <1>2, <1>3, <1>4, <2>1
<1>. HIDE DEF s, t
<1>. QED
  BY <1>2, <1>3, <1>5, BothChange

\* Two friends part.
LEMMA RemoveKeepsMutual ==
  ASSUME Mutual, NEW u \in Users, NEW v \in Users, u # v, RemoveConnection(u, v)
  PROVE  Mutual'
<1>. DEFINE s == RemoveFirst(friendsOf[u], v)
            t == RemoveFirst(friendsOf[v], u)
<1>1. /\ FriendList(u, friendsOf[u]) /\ FriendList(v, friendsOf[v])
      /\ v \in ToSet(friendsOf[u]) /\ u \in ToSet(friendsOf[v])
  BY DEF Mutual, RemoveConnection, IsMyFriend
<1>2. /\ FriendList(u, s) /\ ToSet(s) = ToSet(friendsOf[u]) \ {v}
      /\ (Len(friendsOf[u]) - 1) % UintModulus = Len(s)
  BY <1>1, Parted
<1>3. /\ FriendList(v, t) /\ ToSet(t) = ToSet(friendsOf[v]) \ {u}
      /\ (Len(friendsOf[v]) - 1) % UintModulus = Len(t)
  BY <1>1, Parted
<1>4. friendsNumber[u] = Len(friendsOf[u]) /\ friendsNumber[v] = Len(friendsOf[v])
  BY DEF Mutual
<1>5. /\ friendsOf' = [friendsOf EXCEPT ![u] = s, ![v] = t]
      /\ friendsNumber' = [friendsNumber EXCEPT ![u] = Len(s), ![v] = Len(t)]
  <2>1. /\ friendsOf' = [friendsOf EXCEPT ![u] = RemoveFirst(friendsOf[u], v),
                                          ![v] = RemoveFirst(friendsOf[v], u)]
        /\ friendsNumber' = [friendsNumber EXCEPT
              ![u] = (friendsNumber[u] - 1) % UintModulus,
              ![v] = (friendsNumber[v] - 1) % UintModulus]
    BY DEF RemoveConnection, RemoveEntry, Mutual
  <2>. QED
    BY <1>2, <1>3, <1>4, <2>1
<1>. HIDE DEF s, t
<1>. QED
  BY <1>2, <1>3, <1>5, BothChange

\* A search begins at its source, which is at no distance from itself.
LEMMA BeginSearching ==
  ASSUME NEW s \in Users, leftover \in Element, BeginSearch(s)
  PROVE  Searching(search')
<1>. DEFINE fresh == [visited |-> FALSE, distance |-> Unreached]
            first == [visited |-> TRUE, distance |-> 0]
            e == [[u \in Users |-> Reset(u, leftover)] EXCEPT ![s] = first]
<1>1. search' = [source |-> s, queue |-> <<s>>, elements |-> e]
  BY DEF BeginSearch
<1>2. fresh \in Element /\ first \in Element
  BY DEF Element
<1>3. e \in [Users -> Element] /\ e[s] = first
  BY <1>2 DEF Reset
<1>4. <<s>> \in Seq(Users) /\ ToSet(<<s>>) = {s}
  BY DEF ToSet
<1>. HIDE DEF e
<1>. QED
  BY <1>1, <1>3, <1>4 DEF Searching

\* A turn of the loop: the users discovered are one further than the first of
\* the queue.
LEMMA ServeSearching ==
  ASSUME Mutual, NEW q, Searching(q), q.queue # <<>>
  PROVE  Searching(ServeFirst(q))
<1>. DEFINE first == q.queue[1]
            unseen == {v \in Users : ~q.elements[v].visited}
            new == Discovered(q)
            e == [visited |-> TRUE, distance |-> q.elements[first].distance + 1]
            es == [u \in Users |-> IF u \in ToSet(new) THEN e ELSE q.elements[u]]
            r == Tail(q.queue) \o new
<1>1. /\ q.queue \in Seq(Users) /\ first \in ToSet(q.queue) /\ first \in Users
      /\ Tail(q.queue) \in Seq(Users)
      /\ ToSet(Tail(q.queue)) \subseteq ToSet(q.queue)
  <2>. DEFINE s == q.queue
  <2>1. s \in Seq(Users) /\ s # <<>>
    BY DEF Searching
  <2>. HIDE DEF s
  <2>2. /\ Len(s) \in Nat /\ Len(s) >= 1 /\ ToSet(s) = {s[i] : i \in 1 .. Len(s)}
        /\ ToSet(s) \subseteq Users
    BY <2>1, IndicesOfSeq, EmptySeq
  <2>3. /\ Tail(s) \in Seq(Users) /\ Len(Tail(s)) = Len(s) - 1
        /\ \A i \in 1 .. Len(Tail(s)) : Tail(s)[i] = s[i + 1]
    BY <2>1, HeadTailProperties
  <2>4. ToSet(Tail(s)) = {Tail(s)[i] : i \in 1 .. Len(Tail(s))}
    BY <2>3, IndicesOfSeq
  <2>5. \A i \in 1 .. Len(Tail(s)) : i + 1 \in 1 .. Len(s)
    BY <2>2, <2>3
  <2>. QED
    BY <2>1, <2>2, <2>3, <2>4, <2>5 DEF s
<1>2. new \in Seq(Users)
  <2>1. friendsOf[first] \in Seq(Users)
    BY <1>1 DEF Mutual, FriendList
  <2>. QED
    BY <2>1, KeepProperties DEF Discovered
<1>3. e \in Element /\ e.distance \in Nat
  <2>1. q.elements[first].distance \in Nat
    BY <1>1 DEF Searching
  <2>. QED
    BY <2>1 DEF Element
<1>4. ServeFirst(q) = [q EXCEPT !.queue = r, !.elements = es]
  BY DEF ServeFirst
<1>5. r \in Seq(Users) /\ ToSet(r) = ToSet(Tail(q.queue)) \cup ToSet(new)
  <2>. DEFINE s == Tail(q.queue)
  <2>1. s \in Seq(Users) /\ r = s \o new
    BY <1>1
  <2>. HIDE DEF s, new, r
  <2>2. s \o new \in Seq(Users) /\ ToSet(s \o new) = ToSet(s) \cup ToSet(new)
    BY <1>2, <2>1, ConcatElements
  <2>. QED
    BY <2>1, <2>2 DEF s
<1>. HIDE DEF new, e, r, first
<1>6. /\ es \in [Users -> Element]
      /\ \A u \in Users : es[u] = IF u \in ToSet(new) THEN e ELSE q.elements[u]
  BY <1>3 DEF Searching
<1>. HIDE DEF es
<1>7. \A u \in ToSet(r) : es[u].distance \in Nat
  <2>. TAKE u \in ToSet(r)
  <2>1. u \in Users
    BY <1>5, IndicesOfSeq
  <2>2. CASE u \in ToSet(new)
    BY <1>3, <1>6, <2>1, <2>2
  <2>3. CASE u \notin ToSet(new)
    BY <1>1, <1>5, <1>6, <2>1, <2>3 DEF Searching
  <2>. QED
    BY <2>2, <2>3
<1>8. /\ DOMAIN ServeFirst(q) = {"source", "queue", "elements"}
      /\ ServeFirst(q).source = q.source
      /\ ServeFirst(q).queue = r /\ ServeFirst(q).elements = es
  BY <1>4 DEF Searching
<1>. QED
  BY <1>5, <1>6, <1>7, <1>8 DEF Searching

\* Nobody is a friend at first.
LEMMA FriendsInvInit ==
  ASSUME NetworkInit
  PROVE  FriendsInv
<1>1. \A u \in Users : friendsOf[u] = <<>> /\ friendsNumber[u] = 0
  BY DEF NetworkInit, FriendsInit
<1>2. <<>> \in Seq(Users) /\ ToSet(<<>>) = {} /\ IsInjective(<<>>) /\ Len(<<>>) = 0
  BY EmptySeq DEF ToSet, IsInjective
<1>3. Mutual
  BY <1>1, <1>2 DEF NetworkInit, FriendsInit, Mutual, FriendList
<1>. QED
  BY <1>3 DEF NetworkInit, FriendsInit, FriendsInv, Element

\* Every step keeps friendship mutual.
LEMMA FriendsInvNext ==
  ASSUME FriendsInv, [FriendsNext]_<<friendsVars, running>>
  PROVE  FriendsInv'
<1>1. ASSUME NEW p \in Pairs, AddConnection(p[1], p[2]) \/ RemoveConnection(p[1], p[2])
      PROVE  FriendsInv'
  <2>1. p[1] \in Users /\ p[2] \in Users /\ p[1] # p[2]
    BY FriendsAssumption
  <2>2. Mutual'
    BY <1>1, <2>1, AddKeepsMutual, RemoveKeepsMutual DEF FriendsInv
  <2>3. UNCHANGED <<search, leftover, running>>
    BY <1>1 DEF AddConnection, RemoveConnection
  <2>. QED
    BY <2>2, <2>3 DEF FriendsInv, Searching
<1>2. ASSUME NEW s \in Askers, BeginSearch(s)
      PROVE  FriendsInv'
  <2>1. s \in Users
    BY FriendsAssumption
  <2>2. Searching(search') /\ UNCHANGED <<friendsOf, friendsNumber, leftover, running>>
    BY <1>2, <2>1, BeginSearching DEF FriendsInv, BeginSearch
  <2>. QED
    BY <2>2 DEF FriendsInv, Mutual
<1>3. ASSUME NEW u \in Askers, PopularOfNobody(u)
      PROVE  FriendsInv'
  <2>1. UNCHANGED <<friendsOf, friendsNumber, search, leftover>> /\ running' = FALSE
    BY <1>3 DEF PopularOfNobody, Die, friendsVars
  <2>. QED
    BY <2>1 DEF FriendsInv, Mutual, Searching
<1>4. CASE Explore
  <2>1. /\ search' = ServeFirst(search) /\ search # Nobody /\ search.queue # <<>>
        /\ UNCHANGED <<friendsOf, friendsNumber, leftover, running>>
    BY <1>4 DEF Explore
  <2>2. Searching(search')
    BY <2>1, ServeSearching DEF FriendsInv
  <2>. QED
    BY <2>1, <2>2 DEF FriendsInv, Mutual
<1>5. CASE EndSearch
  <2>1. /\ leftover' = search.elements[LastUser] /\ search' = Nobody /\ search # Nobody
        /\ UNCHANGED <<friendsOf, friendsNumber, running>>
    BY <1>5 DEF EndSearch
  <2>2. LastUser \in Users
    BY UsersAssumption DEF LastUser, Users
  <2>3. leftover' \in Element
    BY <2>1, <2>2 DEF FriendsInv, Searching
  <2>. QED
    BY <2>1, <2>3 DEF FriendsInv, Mutual
<1>6. CASE UNCHANGED <<friendsVars, running>>
  BY <1>6 DEF friendsVars, FriendsInv, Mutual, Searching
<1>. QED
  BY <1>1, <1>2, <1>3, <1>4, <1>5, <1>6 DEF FriendsNext

\* A user is a friend of every friend, once, and the counters that "friends" and
\* "popular" read agree with the lists (add_connection, remove_connection).
THEOREM FriendshipStaysMutual == FriendsSpec => []FriendshipMutual
<1>1. FriendsInv => FriendshipMutual
  <2>. SUFFICES ASSUME FriendsInv PROVE FriendshipMutual
    OBVIOUS
  <2>1. ASSUME NEW u \in Users
        PROVE  /\ friendsOf[u] \in Seq(Users) /\ friendsNumber[u] = Len(friendsOf[u])
               /\ friendsNumber[u] \in 0 .. UintModulus - 1
               /\ IsInjective(friendsOf[u]) /\ u \notin ToSet(friendsOf[u])
    <3>1. FriendList(u, friendsOf[u]) /\ friendsNumber[u] = Len(friendsOf[u])
      BY DEF FriendsInv, Mutual
    <3>2. Len(friendsOf[u]) \in Nat /\ Len(friendsOf[u]) <= UsersNumber - 1
          /\ UsersNumber - 1 < UintModulus
      BY <3>1, FriendsFit
    <3>3. UsersNumber \in Nat /\ UintModulus \in Nat
      BY UsersAssumption
    <3>. QED
      BY <3>1, <3>2, <3>3 DEF FriendList
  <2>2. friendsOf \in [Users -> Seq(Users)] /\ friendsNumber \in [Users -> 0 .. UintModulus - 1]
    BY <2>1 DEF FriendsInv, Mutual
  <2>3. FriendsTypeOK
    BY <2>2 DEF FriendsTypeOK, FriendsInv, Searching
  <2>. QED
    BY <2>1, <2>3 DEF FriendshipMutual, IsMyFriend, FriendsInv, Mutual
<1>. QED
  BY <1>1, FriendsInvInit, FriendsInvNext, PTL DEF FriendsSpec

-----------------------------------------------------------------------------
\* The children of a node.
Kids(n) == ToSet(children[n])

\* Identifiers are given in ascending order, so that a child has a greater one
\* than its parent and no walk of a tree goes in circles.
KidsAbove ==
  /\ children \in [Ids -> Seq(Ids)]
  /\ \A n \in Ids : \A c \in Kids(n) : c > n

\* What the walk K visits below n.
Below(K, n) == [i \in DOMAIN children[n] |-> K[children[n][i]]]

\* Identifiers are natural numbers below MaxPosts.
LEMMA IdsAreNumbers ==
  /\ MaxPosts \in Nat /\ MaxPosts >= 1
  /\ Ids \in SUBSET Nat
  /\ \A n \in Ids : n >= 1 /\ n <= MaxPosts - 1
  /\ \A n \in Nat : n >= 1 /\ n < MaxPosts => n \in Ids
BY PostsAssumption DEF Ids

\* A set of identifiers has a least and a greatest element.
LEMMA ExtremeIds ==
  ASSUME NEW T \in SUBSET Ids, T # {}
  PROVE  /\ \E x \in T : \A y \in T : x <= y
         /\ \E x \in T : \A y \in T : x >= y
<1>1. T \in SUBSET Nat /\ T \in SUBSET (0 .. MaxPosts) /\ MaxPosts \in Nat
  BY IdsAreNumbers
<1>. QED
  BY <1>1, LeastExists, GreatestExists

\* Children are identifiers greater than their parent's.
LEMMA KidsAreIds ==
  ASSUME KidsAbove, NEW n \in Ids
  PROVE  /\ children[n] \in Seq(Ids) /\ Len(children[n]) \in Nat
         /\ DOMAIN children[n] = 1 .. Len(children[n])
         /\ Kids(n) = {children[n][i] : i \in 1 .. Len(children[n])}
         /\ Kids(n) \subseteq Ids
         /\ \A c \in Kids(n) : c > n
<1>1. children[n] \in Seq(Ids)
  BY DEF KidsAbove
<1>. QED
  BY <1>1, IndicesOfSeq DEF Kids, KidsAbove

\* What is visited below n depends on the walks of its children only.
LEMMA BelowSame ==
  ASSUME KidsAbove, NEW n \in Ids, NEW K, NEW L, \A c \in Kids(n) : K[c] = L[c]
  PROVE  Below(K, n) = Below(L, n)
BY KidsAreIds DEF Below

\* The walk of tree.c exists, and visits a node and then what is below its children.
LEMMA WalkExists ==
  ASSUME KidsAbove
  PROVE  \E K : K = [m \in Ids |-> <<m>> \o FlattenSeq(Below(K, m))]
<1>. DEFINE Step(K, m) == <<m>> \o FlattenSeq(Below(K, m))
            From(k, K) == /\ K = [m \in Ids |-> K[m]]
                          /\ \A m \in Ids : m >= MaxPosts - k => K[m] = Step(K, m)
            Bad == {k \in 0 .. MaxPosts : ~\E K : From(k, K)}
<1>1. Bad = {}
  <2>1. SUFFICES ASSUME Bad # {} PROVE FALSE
    OBVIOUS
  <2>2. Bad \in SUBSET Nat
    OBVIOUS
  <2>3. PICK k \in Bad : \A j \in Bad : k <= j
    BY <2>1, <2>2, LeastExists
  <2>4. k \in 0 .. MaxPosts /\ MaxPosts \in Nat /\ ~\E K : From(k, K)
    BY <2>3, IdsAreNumbers
  <2>5. CASE k = 0
    <3>. DEFINE K == [m \in Ids |-> 0]
    <3>1. \A m \in Ids : ~(m >= MaxPosts - 0)
      BY IdsAreNumbers
    <3>2. K = [m \in Ids |-> K[m]]
      OBVIOUS
    <3>. HIDE DEF K
    <3>3. From(0, K)
      BY <3>1, <3>2
    <3>. QED
      BY <2>4, <2>5, <3>3
  <2>6. CASE k # 0
    <3>. DEFINE n == MaxPosts - k
    <3>1. k - 1 \in 0 .. MaxPosts /\ ~(k <= k - 1) /\ n \in Int
      BY <2>4, <2>6
    <3>2. PICK K : From(k - 1, K)
      BY <2>3, <3>1
    <3>. DEFINE L == [m \in Ids |-> IF m = n THEN Step(K, m) ELSE K[m]]
    <3>3. ASSUME NEW m \in Ids, m >= n
          PROVE  L[m] = Step(L, m)
      <4>1. m \in Int /\ n \in Int /\ MaxPosts - (k - 1) = n + 1
        BY <2>4, <3>1, IdsAreNumbers
      <4>2. L[m] = Step(K, m)
        <5>1. CASE m = n
          BY <5>1
        <5>2. CASE m # n
          <6>. HIDE DEF n, Step
          <6>1. m >= MaxPosts - (k - 1)
            BY <3>3, <4>1, <5>2
          <6>. QED
            BY <3>2, <5>2, <6>1
        <5>. QED
          BY <5>1, <5>2
      <4>3. \A c \in Kids(m) : K[c] = L[c]
        <5>. TAKE c \in Kids(m)
        <5>1. c \in Ids /\ c > m /\ c \in Int
          BY KidsAreIds, IdsAreNumbers
        <5>2. c # n
          BY <3>3, <4>1, <5>1
        <5>. QED
          BY <5>1, <5>2
      <4>. HIDE DEF L, n
      <4>4. Below(K, m) = Below(L, m)
        BY <4>3, BelowSame
      <4>. QED
        BY <4>2, <4>4
    <3>4. L = [m \in Ids |-> L[m]]
      OBVIOUS
    <3>. HIDE DEF L, Step
    <3>5. From(k, L)
      BY <3>3, <3>4
    <3>. QED
      BY <2>4, <3>5
  <2>. QED
    BY <2>5, <2>6
<1>2. MaxPosts \in 0 .. MaxPosts /\ \A m \in Ids : m >= MaxPosts - MaxPosts
  BY IdsAreNumbers
<1>3. PICK K : From(MaxPosts, K)
  BY <1>1, <1>2
<1>. HIDE DEF Step
<1>4. K = [m \in Ids |-> Step(K, m)]
  BY <1>2, <1>3
<1>. QED
  BY <1>4 DEF Step

\* A node stands before what is below its children, in their order.
LEMMA PreorderIs ==
  ASSUME KidsAbove, NEW n \in Ids
  PROVE  Preorder(n) = <<n>> \o FlattenSeq([i \in DOMAIN children[n] |-> Preorder(children[n][i])])
<1>. DEFINE F == CHOOSE F : F = [m \in Ids |-> <<m>> \o FlattenSeq(Below(F, m))]
<1>1. F = [m \in Ids |-> <<m>> \o FlattenSeq(Below(F, m))]
  BY WalkExists
<1>2. \A m \in Ids : Preorder(m) = F[m]
  BY DEF Preorder, Below
<1>. HIDE DEF F
<1>3. F[n] = <<n>> \o FlattenSeq(Below(F, n))
  BY <1>1
<1>4. Below(F, n) = [i \in DOMAIN children[n] |-> Preorder(children[n][i])]
  <2>1. \A i \in DOMAIN children[n] : children[n][i] \in Ids
    BY KidsAreIds
  <2>. QED
    BY <1>2, <2>1 DEF Below
<1>. QED
  BY <1>2, <1>3, <1>4

\* The nodes below and including n are n and those below its children.
LEMMA DescendantsAre ==
  ASSUME KidsAbove, NEW n \in Ids
  PROVE  /\ Preorder(n) \in Seq(Ids)
         /\ Descendants(n) = {n} \cup UNION {Descendants(c) : c \in Kids(n)}
<1>. DEFINE Is(m) == /\ Preorder(m) \in Seq(Ids)
                     /\ Descendants(m) = {m} \cup UNION {Descendants(c) : c \in Kids(m)}
            Bad == {m \in Ids : ~Is(m)}
<1>1. SUFFICES ASSUME Bad # {} PROVE FALSE
  OBVIOUS
<1>2. PICK m \in Bad : \A k \in Bad : m >= k
  BY <1>1, ExtremeIds
<1>3. m \in Ids
  OBVIOUS
<1>. DEFINE ss == [i \in DOMAIN children[m] |-> Preorder(children[m][i])]
            k == Len(children[m])
<1>4. /\ k \in Nat /\ DOMAIN children[m] = 1 .. k
      /\ Kids(m) = {children[m][i] : i \in 1 .. k}
      /\ \A i \in 1 .. k : children[m][i] \in Kids(m)
      /\ Kids(m) \subseteq Ids /\ \A c \in Kids(m) : c > m
  BY <1>3, KidsAreIds
<1>5. \A i \in 1 .. k : ss[i] = Preorder(children[m][i]) /\ ss[i] \in Seq(Ids)
  <2>. TAKE i \in 1 .. k
  <2>1. children[m][i] \in Ids /\ children[m][i] > m
    BY <1>4
  <2>2. children[m][i] \notin Bad
    <3>. DEFINE c == children[m][i]
    <3>1. c \in Ids /\ c > m
      BY <2>1
    <3>. HIDE DEF c, Bad
    <3>2. c \notin Bad
      BY <1>2, <1>3, <3>1, IdsAreNumbers
    <3>. QED
      BY <3>2 DEF c
  <2>. QED
    BY <1>4, <2>1, <2>2
<1>6. DOMAIN ss = 1 .. k /\ ss = [i \in 1 .. k |-> ss[i]]
  BY <1>4
<1>7. Len(ss) = k
  <2>. HIDE DEF ss, k
  <2>. QED
    BY <1>4, <1>6, FunctionIsSeq
<1>8. k = 0 => ss = <<>>
  <2>. SUFFICES ASSUME k = 0 PROVE ss = <<>>
    OBVIOUS
  <2>. HIDE DEF ss, k
  <2>1. ss \in Seq({ss[i] : i \in 1 .. k})
    BY <1>4, <1>6, FunctionIsSeq
  <2>. QED
    BY <1>7, <2>1, EmptySeq
<1>9. Preorder(m) = <<m>> \o FlattenSeq(ss)
  BY <1>3, PreorderIs
<1>. HIDE DEF ss, k
<1>10. /\ FlattenSeq(ss) \in Seq(Ids)
       /\ ToSet(FlattenSeq(ss)) = UNION {ToSet(ss[i]) : i \in 1 .. k}
  BY <1>4, <1>5, <1>7, <1>8, FlattenElements
<1>11. <<m>> \in Seq(Ids) /\ ToSet(<<m>>) = {m}
  BY <1>3 DEF ToSet
<1>12. Preorder(m) \in Seq(Ids) /\ ToSet(Preorder(m)) = {m} \cup ToSet(FlattenSeq(ss))
  <2>. DEFINE a == <<m>>
              b == FlattenSeq(ss)
  <2>1. a \in Seq(Ids) /\ b \in Seq(Ids) /\ ToSet(a) = {m}
    BY <1>10, <1>11
  <2>. HIDE DEF a, b
  <2>2. a \o b \in Seq(Ids) /\ ToSet(a \o b) = ToSet(a) \cup ToSet(b)
    BY <2>1, ConcatElements
  <2>. QED
    BY <1>9, <2>1, <2>2 DEF a, b
<1>13. UNION {ToSet(ss[i]) : i \in 1 .. k} = UNION {Descendants(c) : c \in Kids(m)}
  BY <1>4, <1>5 DEF Descendants
<1>14. Descendants(m) = {m} \cup UNION {Descendants(c) : c \in Kids(m)}
  BY <1>10, <1>12, <1>13 DEF Descendants
<1>. QED
  BY <1>2, <1>12, <1>14

\* A node has one parent at most.
OneParent == \A m, n \in Ids : \A c \in Kids(m) \cap Kids(n) : m = n

\* One level of a tree.
LEMMA DescendantsLevel ==
  ASSUME KidsAbove, NEW n \in Ids
  PROVE  /\ n \in Descendants(n) /\ Descendants(n) \subseteq Ids
         /\ \A c \in Kids(n) : Descendants(c) \subseteq Descendants(n)
         /\ \A r \in Descendants(n) : r # n => \E c \in Kids(n) : r \in Descendants(c)
<1>1. /\ Preorder(n) \in Seq(Ids)
      /\ Descendants(n) = {n} \cup UNION {Descendants(c) : c \in Kids(n)}
  BY DescendantsAre
<1>2. Descendants(n) \subseteq Ids
  BY <1>1, IndicesOfSeq DEF Descendants
<1>. HIDE DEF Descendants
<1>. QED
  BY <1>1, <1>2

\* Nothing below n has a smaller number.
LEMMA DescendantsAbove ==
  ASSUME KidsAbove, NEW n \in Ids, NEW r \in Descendants(n)
  PROVE  r \in Nat /\ n \in Nat /\ r >= n
<1>. DEFINE Bad == {m \in Ids : \E x \in Descendants(m) : ~(x >= m)}
<1>1. Bad = {}
  <2>1. SUFFICES ASSUME Bad # {} PROVE FALSE
    OBVIOUS
  <2>2. PICK m \in Bad : \A k \in Bad : m >= k
    BY <2>1, ExtremeIds
  <2>3. PICK x \in Descendants(m) : ~(x >= m)
    OBVIOUS
  <2>4. m \in Ids /\ m \in Nat
    BY IdsAreNumbers
  <2>5. x # m
    BY <2>3, <2>4
  <2>6. PICK c \in Kids(m) : x \in Descendants(c)
    BY <2>4, <2>5, DescendantsLevel
  <2>7. c \in Ids /\ c > m /\ c \in Nat
    BY <2>4, KidsAreIds, IdsAreNumbers
  <2>8. c \notin Bad
    <3>. HIDE DEF Bad
    <3>. QED
      BY <2>2, <2>4, <2>7
  <2>9. x >= c /\ x \in Nat
    BY <2>6, <2>7, <2>8, DescendantsLevel, IdsAreNumbers
  <2>. QED
    BY <2>3, <2>4, <2>7, <2>9
<1>2. r \in Ids
  BY DescendantsLevel
<1>. QED
  BY <1>1, <1>2, IdsAreNumbers

\* What is below m is below everything m is below.
LEMMA DescendantsBelow ==
  ASSUME KidsAbove, NEW n \in Ids, NEW m \in Descendants(n)
  PROVE  Descendants(m) \subseteq Descendants(n)
<1>. DEFINE Bad == {k \in Ids : \E x \in Descendants(k) : ~(Descendants(x) \subseteq Descendants(k))}
<1>1. Bad = {}
  <2>1. SUFFICES ASSUME Bad # {} PROVE FALSE
    OBVIOUS
  <2>2. PICK k \in Bad : \A j \in Bad : k >= j
    BY <2>1, ExtremeIds
  <2>3. PICK x \in Descendants(k) : ~(Descendants(x) \subseteq Descendants(k))
    OBVIOUS
  <2>4. k \in Ids /\ k \in Nat
    BY IdsAreNumbers
  <2>5. x # k
    BY <2>3
  <2>6. PICK c \in Kids(k) : x \in Descendants(c)
    BY <2>4, <2>5, DescendantsLevel
  <2>7. c \in Ids /\ c > k /\ c \in Nat
    BY <2>4, KidsAreIds, IdsAreNumbers
  <2>8. c \notin Bad
    <3>. HIDE DEF Bad
    <3>. QED
      BY <2>2, <2>4, <2>7
  <2>9. Descendants(x) \subseteq Descendants(c)
    BY <2>6, <2>7, <2>8
  <2>10. Descendants(c) \subseteq Descendants(k)
    BY <2>4, <2>6, DescendantsLevel
  <2>. QED
    BY <2>3, <2>9, <2>10
<1>. QED
  BY <1>1

\* The children of a node below n are below n.
LEMMA KidsAmong ==
  ASSUME KidsAbove, NEW n \in Ids, NEW m \in Descendants(n), NEW c \in Kids(m)
  PROVE  c \in Descendants(n) /\ c # n /\ m \in Ids /\ c \in Ids
<1>1. m \in Ids
  BY DescendantsLevel
<1>2. c \in Ids /\ c > m /\ c \in Nat /\ m >= n /\ m \in Nat /\ n \in Nat
  BY <1>1, KidsAreIds, IdsAreNumbers, DescendantsAbove
<1>3. c \in Descendants(m)
  BY <1>1, <1>2, DescendantsLevel
<1>. QED
  BY <1>1, <1>2, <1>3, DescendantsBelow

\* A node below n, other than n, has its parent below n.
LEMMA ParentAmong ==
  ASSUME KidsAbove, NEW n \in Ids, NEW r \in Descendants(n), r # n
  PROVE  \E m \in Descendants(n) : r \in Kids(m)
<1>. DEFINE Bad == {k \in Ids : \E x \in Descendants(k) \ {k} :
                                   \A m \in Descendants(k) : x \notin Kids(m)}
<1>1. Bad = {}
  <2>1. SUFFICES ASSUME Bad # {} PROVE FALSE
    OBVIOUS
  <2>2. PICK k \in Bad : \A j \in Bad : k >= j
    BY <2>1, ExtremeIds
  <2>3. PICK x \in Descendants(k) \ {k} : \A m \in Descendants(k) : x \notin Kids(m)
    OBVIOUS
  <2>4. k \in Ids /\ k \in Nat
    BY IdsAreNumbers
  <2>6. PICK c \in Kids(k) : x \in Descendants(c)
    BY <2>3, <2>4, DescendantsLevel
  <2>7. c \in Ids /\ c > k /\ c \in Nat
    BY <2>4, KidsAreIds, IdsAreNumbers
  <2>8. c \notin Bad
    <3>. HIDE DEF Bad
    <3>. QED
      BY <2>2, <2>4, <2>7
  <2>9. k \in Descendants(k) /\ Descendants(c) \subseteq Descendants(k)
    BY <2>4, <2>6, DescendantsLevel
  <2>10. x # c
    BY <2>3, <2>6, <2>9
  <2>11. \E m \in Descendants(c) : x \in Kids(m)
    BY <2>6, <2>7, <2>8, <2>10
  <2>. QED
    BY <2>3, <2>9, <2>11
<1>. QED
  BY <1>1

\* Of two nodes above a third one is above the other.
LEMMA AncestorsAreChain ==
  ASSUME KidsAbove, OneParent, NEW p \in Ids, NEW q \in Ids,
         NEW r \in Descendants(p), r \in Descendants(q)
  PROVE  p \in Descendants(q) \/ q \in Descendants(p)
<1>. DEFINE Both == Descendants(p) \cap Descendants(q)
<1>1. SUFFICES ASSUME p \notin Descendants(q), q \notin Descendants(p) PROVE FALSE
  OBVIOUS
<1>2. Both \in SUBSET Ids /\ Both # {}
  BY DescendantsLevel
<1>3. PICK x \in Both : \A y \in Both : x <= y
  BY <1>2, ExtremeIds
<1>4. x \in Ids /\ x # p /\ x # q
  BY <1>1, <1>2
<1>5. PICK m \in Descendants(p) : x \in Kids(m)
  BY <1>4, ParentAmong
<1>6. PICK n \in Descendants(q) : x \in Kids(n)
  BY <1>4, ParentAmong
<1>7. m \in Ids /\ n \in Ids
  BY DescendantsLevel
<1>8. m = n
  BY <1>5, <1>6, <1>7 DEF OneParent
<1>9. m \in Both /\ m < x /\ x \in Nat /\ m \in Nat
  BY <1>4, <1>5, <1>7, <1>8, KidsAreIds, IdsAreNumbers
<1>. QED
  BY <1>3, <1>9

-----------------------------------------------------------------------------
\* The data of a post, and of a repost.
PostData == [postId : Ids, owner : Users, likes : Uint, rootId : {0} \cup Ids]

RepostData == [user : Users, likes : Uint]

\* The reposts there are.
Living == {r \in Ids : reposts[r] # NoRepost}

Ascending(s) == \A i, j \in DOMAIN s : i < j => s[i] < s[j]

\* Posts stand in the order of their numbers, which were given before.
PostsListed ==
  /\ postList \in Seq(PostData)
  /\ pendingPostId \in 1 .. MaxPosts
  /\ \A i, j \in DOMAIN postList : i < j => postList[i].postId < postList[j].postId
  /\ \A p \in Posted : p < pendingPostId /\ p \notin Living

\* Every repost hangs below one post or repost, and nothing else does.
RepostsHang ==
  /\ reposts \in [Ids -> RepostData \cup {NoRepost}]
  /\ KidsAbove /\ OneParent
  /\ \A n \in Ids : Ascending(children[n])
  /\ \A r \in Living : r < pendingPostId /\ \E n \in Ids : r \in Kids(n)
  /\ \A n \in Ids : \A c \in Kids(n) : c \in Living /\ n \in Posted \cup Living

PostsInv == PostsListed /\ RepostsHang /\ liked \in [Ids -> SUBSET Users]

\* A repost is not the absence of one.
LEMMA RepostDataIs ==
  /\ NoRepost \notin RepostData
  /\ \A u \in Users, k \in Uint : [user |-> u, likes |-> k] \in RepostData
  /\ 0 \in Uint /\ UintModulus \in Nat /\ UintModulus > 0
  /\ \A k \in Int : k % UintModulus \in Uint
<1>1. UintModulus \in Nat /\ UintModulus > 0
  BY UsersAssumption
<1>2. \A k \in Int : k % UintModulus \in Uint
  BY <1>1 DEF Uint
<1>3. ASSUME NEW d \in RepostData PROVE d # NoRepost
  <2>1. d = [user |-> d.user, likes |-> d.likes] /\ d.user \in Users /\ d.likes \in Uint
    BY DEF RepostData
  <2>. QED
    BY <2>1, PostsAssumption DEF Uint
<1>. QED
  BY <1>1, <1>2, <1>3 DEF Uint, RepostData

\* The posts by their positions.
LEMMA PostedAre ==
  ASSUME PostsListed
  PROVE  /\ Len(postList) \in Nat /\ DOMAIN postList = 1 .. Len(postList)
         /\ Posted \subseteq Ids
         /\ \A i \in DOMAIN postList : /\ postList[i] \in PostData
                                       /\ postList[i].postId \in Posted
         /\ \A i, j \in DOMAIN postList : postList[i].postId = postList[j].postId => i = j
<1>1. /\ Len(postList) \in Nat /\ DOMAIN postList = 1 .. Len(postList)
      /\ \A i \in DOMAIN postList : postList[i] \in PostData
  BY LenProperties, ElementOfSeq DEF PostsListed
<1>2. \A i \in DOMAIN postList : postList[i].postId \in Ids
  BY <1>1 DEF PostData
<1>3. ASSUME NEW i \in DOMAIN postList, NEW j \in DOMAIN postList,
             postList[i].postId = postList[j].postId
      PROVE  i = j
  <2>. DEFINE a == postList[i].postId
              b == postList[j].postId
  <2>1. a \in Nat /\ b \in Nat /\ a = b
    BY <1>2, <1>3, IdsAreNumbers
  <2>. i \in Nat /\ j \in Nat
    BY <1>1
  <2>2. (i < j => a < b) /\ (j < i => b < a)
    BY DEF PostsListed
  <2>. HIDE DEF a, b
  <2>. QED
    BY <2>1, <2>2
<1>. QED
  BY <1>1, <1>2, <1>3 DEF Posted

\* The loop over the posts finds the one of a number.
LEMMA PositionIs ==
  ASSUME PostsListed, NEW p \in Posted
  PROVE  Position(p) \in DOMAIN postList /\ postList[Position(p)].postId = p
<1>. DEFINE I == {i \in 1 .. Len(postList) : postList[i].postId = p}
<1>1. Len(postList) \in Nat /\ DOMAIN postList = 1 .. Len(postList)
  BY PostedAre
<1>2. I \in SUBSET Nat /\ I # {}
  BY <1>1 DEF Posted
<1>3. Position(p) = Min(I)
  BY <1>2 DEF Position, SelectInSeq
<1>4. Min(I) \in I
  <2>. HIDE DEF I
  <2>. QED
    BY <1>2, MinIsLeast
<1>. QED
  BY <1>1, <1>3, <1>4

\* The data of a post change, but not its number.
LEMMA EntryChanges ==
  ASSUME PostsListed, NEW k \in DOMAIN postList, NEW e \in PostData,
         e.postId = postList[k].postId,
         postList' = [postList EXCEPT ![k] = e]
  PROVE  /\ postList' \in Seq(PostData) /\ DOMAIN postList' = DOMAIN postList
         /\ Len(postList') = Len(postList)
         /\ \A i \in DOMAIN postList : postList'[i].postId = postList[i].postId
         /\ postList'[k] = e
         /\ \A i \in DOMAIN postList : i # k => postList'[i] = postList[i]
         /\ Posted' = Posted
<1>1. /\ Len(postList) \in Nat /\ DOMAIN postList = 1 .. Len(postList)
      /\ postList \in Seq(PostData)
  BY PostedAre DEF PostsListed
<1>2. /\ postList' \in Seq(PostData) /\ Len(postList') = Len(postList)
      /\ \A i \in 1 .. Len(postList) : postList'[i] = IF i = k THEN e ELSE postList[i]
  BY <1>1, ExceptSeq
<1>3. DOMAIN postList' = 1 .. Len(postList)
  BY <1>2, LenProperties
<1>4. \A i \in DOMAIN postList : postList'[i].postId = postList[i].postId
  BY <1>1, <1>2
<1>5. Posted' = Posted
  BY <1>1, <1>3, <1>4 DEF Posted
<1>. QED
  BY <1>1, <1>2, <1>3, <1>4, <1>5

\* Nothing is posted at first.
LEMMA PostsInvInit ==
  ASSUME PostsInit
  PROVE  PostsInv
<1>1. /\ postList = <<>> /\ pendingPostId = 1
      /\ \A n \in Ids : reposts[n] = NoRepost /\ children[n] = <<>> /\ liked[n] = {}
  BY DEF PostsInit
<1>2. Posted = {} /\ Living = {} /\ \A n \in Ids : Kids(n) = {}
  BY <1>1 DEF Posted, Living, Kids, ToSet
<1>3. PostsListed
  BY <1>1, <1>2, IdsAreNumbers DEF PostsListed
<1>4. children \in [Ids -> Seq(Ids)]
  BY DEF PostsInit
<1>5. RepostsHang
  <2>1. \A n \in Ids : Ascending(children[n])
    BY <1>1 DEF Ascending
  <2>. QED
    BY <1>2, <1>4, <2>1 DEF RepostsHang, KidsAbove, OneParent, PostsInit
<1>. QED
  BY <1>3, <1>5 DEF PostsInv, PostsInit

\* Steps that change no tree.
LEMMA SameTrees ==
  ASSUME PostsInv, children' = children, Living' = Living, Posted \subseteq Posted',
         pendingPostId' \in Nat, pendingPostId' >= pendingPostId,
         reposts' \in [Ids -> RepostData \cup {NoRepost}]
  PROVE  RepostsHang'
<1>. USE DEF PostsInv
<1>1. KidsAbove' /\ OneParent' /\ \A n \in Ids : Ascending(children'[n])
  BY DEF RepostsHang, KidsAbove, OneParent, Kids
<1>2. \A n \in Ids : Kids(n)' = Kids(n)
  BY DEF Kids
<1>3. ASSUME NEW r \in Living' PROVE r < pendingPostId' /\ \E n \in Ids : r \in Kids(n)'
  <2>1. r \in Nat /\ pendingPostId \in Nat
    BY IdsAreNumbers DEF Living, PostsListed
  <2>2. r < pendingPostId /\ \E n \in Ids : r \in Kids(n)
    BY <1>3 DEF RepostsHang
  <2>. QED
    BY <1>2, <2>1, <2>2
<1>4. \A n \in Ids : \A c \in Kids(n)' : c \in Living' /\ n \in Posted' \cup Living'
  BY <1>2 DEF RepostsHang
<1>. QED
  BY <1>1, <1>3, <1>4 DEF RepostsHang

\* A new post.
LEMMA CreatePostKeeps ==
  ASSUME PostsInv, NEW u \in Members, CreatePost(u)
  PROVE  PostsInv' /\ Posted' = Posted \cup {pendingPostId}
<1>. DEFINE d == [postId |-> pendingPostId, owner |-> u, likes |-> 0, rootId |-> 0]
            n == Len(postList)
<1>1. /\ postList' = Append(postList, d) /\ pendingPostId' = pendingPostId + 1
      /\ UNCHANGED <<reposts, children, liked>>
      /\ pendingPostId < MaxPosts
  BY DEF CreatePost, IdLeft
<1>2. /\ pendingPostId \in Nat /\ pendingPostId \in Ids /\ MaxPosts \in Nat
      /\ pendingPostId' \in 1 .. MaxPosts
  BY <1>1, IdsAreNumbers DEF PostsInv, PostsListed
<1>3. d \in PostData
  BY <1>2, PostsAssumption, RepostDataIs DEF PostData
<1>4. /\ n \in Nat /\ DOMAIN postList = 1 .. n /\ postList \in Seq(PostData)
      /\ Posted \subseteq Ids
  BY PostedAre DEF PostsInv, PostsListed
<1>. HIDE DEF d, n
<1>5. /\ postList' \in Seq(PostData) /\ Len(postList') = n + 1
      /\ \A i \in 1 .. n : postList'[i] = postList[i]
      /\ postList'[n + 1] = d
  BY <1>1, <1>3, <1>4, AppendProperties DEF n
<1>6. DOMAIN postList' = 1 .. n + 1
  BY <1>5, LenProperties
<1>7. 1 .. n + 1 = (1 .. n) \cup {n + 1}
  BY <1>4
<1>8. d.postId = pendingPostId
  BY DEF d
<1>9. Posted' = Posted \cup {pendingPostId}
  <2>1. Posted = {postList[i].postId : i \in 1 .. n}
    BY <1>4 DEF Posted
  <2>2. Posted' = {postList'[i].postId : i \in (1 .. n) \cup {n + 1}}
    BY <1>6, <1>7 DEF Posted
  <2>. QED
    BY <1>5, <1>8, <2>1, <2>2
<1>10. Living' = Living /\ pendingPostId \notin Living /\ \A p \in Posted : p < pendingPostId
  <2>1. \A r \in Living : r < pendingPostId
    BY DEF PostsInv, RepostsHang
  <2>. QED
    BY <1>1, <1>2, <2>1 DEF Living, PostsInv, PostsListed
<1>11. ASSUME NEW i \in DOMAIN postList', NEW j \in DOMAIN postList', i < j
       PROVE  postList'[i].postId < postList'[j].postId
  <2>1. i \in 1 .. n /\ (j \in 1 .. n \/ j = n + 1)
    BY <1>4, <1>6, <1>11
  <2>2. CASE j \in 1 .. n
    BY <1>4, <1>5, <1>11, <2>1, <2>2 DEF PostsInv, PostsListed
  <2>3. CASE j = n + 1
    <3>1. postList'[i].postId \in Posted
      BY <1>4, <1>5, <2>1 DEF Posted
    <3>. QED
      BY <1>5, <1>8, <1>10, <2>3, <3>1
  <2>. QED
    BY <2>1, <2>2, <2>3
<1>12. \A p \in Posted' : p < pendingPostId' /\ p \notin Living'
  <2>1. \A p \in Posted : p \in Nat /\ p \notin Living
    BY <1>4, IdsAreNumbers DEF PostsInv, PostsListed
  <2>. QED
    BY <1>1, <1>2, <1>9, <1>10, <2>1
<1>13. RepostsHang'
  BY <1>1, <1>2, <1>9, <1>10, SameTrees DEF PostsInv, RepostsHang
<1>. QED
  BY <1>1, <1>2, <1>5, <1>9, <1>11, <1>12, <1>13 DEF PostsInv, PostsListed

\* What a repost may be attached to exists.
LEMMA FoundIsLiving ==
  ASSUME PostsInv, NEW p \in Posted, NEW r \in Descendants(p), r # p
  PROVE  r \in Living /\ p \in Ids /\ r \in Ids
<1>1. p \in Ids
  BY PostedAre DEF PostsInv
<1>2. PICK m \in Descendants(p) : r \in Kids(m)
  BY <1>1, ParentAmong DEF PostsInv, RepostsHang
<1>3. m \in Ids
  BY <1>1, DescendantsLevel DEF PostsInv, RepostsHang
<1>. QED
  BY <1>1, <1>2, <1>3 DEF PostsInv, RepostsHang, Living

\* A new repost hangs behind the others of the post or repost it is of.
LEMMA AttachKeeps ==
  ASSUME PostsInv, NEW n \in Posted \cup Living, NEW d \in RepostData,
         pendingPostId < MaxPosts,
         reposts' = [reposts EXCEPT ![pendingPostId] = d],
         children' = [children EXCEPT ![n] = Append(children[n], pendingPostId)],
         pendingPostId' = pendingPostId + 1, UNCHANGED <<postList, liked>>
  PROVE  PostsInv'
<1>. DEFINE c == pendingPostId
<1>1. c \in Ids /\ c \in Nat /\ c' = c + 1 /\ c' \in 1 .. MaxPosts /\ c' \in Nat
  BY IdsAreNumbers DEF PostsInv, PostsListed
<1>2. /\ KidsAbove /\ OneParent /\ \A m \in Ids : Ascending(children[m])
      /\ children \in [Ids -> Seq(Ids)] /\ reposts \in [Ids -> RepostData \cup {NoRepost}]
  BY DEF PostsInv, RepostsHang, KidsAbove
<1>3. /\ \A p \in Posted : p \in Ids /\ p < c /\ p \notin Living
      /\ \A r \in Living : r \in Ids /\ r < c
  BY PostedAre DEF PostsInv, PostsListed, RepostsHang, Living
<1>4. n \in Ids /\ n < c /\ c \notin Posted \cup Living
  BY <1>1, <1>3
<1>5. Living' = Living \cup {c} /\ Posted' = Posted
  BY <1>1, <1>2, RepostDataIs DEF Living, Posted
<1>6. \A m \in Ids : \A k \in Kids(m) : k \in Living /\ k # c /\ k < c /\ k \in Nat
                                       /\ m \in Posted \cup Living
  <2>. TAKE m \in Ids
  <2>. TAKE k \in Kids(m)
  <2>1. k \in Living /\ m \in Posted \cup Living
    BY DEF PostsInv, RepostsHang
  <2>. QED
    BY <1>3, <1>4, <2>1, IdsAreNumbers
<1>7. children[n] \in Seq(Ids) /\ children'[n] = Append(children[n], c)
      /\ \A m \in Ids : m # n => children'[m] = children[m]
  BY <1>2, <1>4
<1>. HIDE DEF c
<1>8. Append(children[n], c) \in Seq(Ids) /\ Kids(n)' = Kids(n) \cup {c}
  <2>. DEFINE s == children[n]
  <2>1. s \in Seq(Ids)
    BY <1>7
  <2>. HIDE DEF s
  <2>2. Append(s, c) \in Seq(Ids) /\ ToSet(Append(s, c)) = ToSet(s) \cup {c}
    BY <1>1, <2>1, PushBack
  <2>. QED
    BY <1>7, <2>2 DEF s, Kids
<1>9. \A m \in Ids : m # n => Kids(m)' = Kids(m)
  BY <1>7 DEF Kids
<1>10. children' \in [Ids -> Seq(Ids)]
  BY <1>2, <1>8 DEF c
<1>11. KidsAbove'
  <2>1. \A m \in Ids : \A k \in Kids(m) : k > m
    BY <1>2 DEF KidsAbove
  <2>2. \A m \in Ids : \A k \in Kids(m)' : k > m
    BY <1>1, <1>4, <1>8, <1>9, <2>1, IdsAreNumbers
  <2>. QED
    BY <1>10, <2>2 DEF KidsAbove
<1>12. OneParent'
  <2>1. ASSUME NEW a \in Ids, NEW b \in Ids, NEW k \in Kids(a)' \cap Kids(b)'
        PROVE  a = b
    <3>1. k = c => a = n /\ b = n
      BY <1>6, <1>8, <1>9, <2>1
    <3>2. k # c => k \in Kids(a) \cap Kids(b)
      BY <1>8, <1>9, <2>1
    <3>. QED
      BY <1>2, <2>1, <3>1, <3>2 DEF OneParent
  <2>. QED
    BY <2>1 DEF OneParent
<1>13. Ascending(children'[n])
  <2>. DEFINE s == children[n]
              l == Len(s)
  <2>1. s \in Seq(Ids) /\ l \in Nat /\ DOMAIN s = 1 .. l
    BY <1>7, IndicesOfSeq
  <2>2. \A i \in 1 .. l : s[i] < c
    <3>1. \A i \in 1 .. l : s[i] \in Kids(n)
      BY <2>1 DEF Kids, ToSet
    <3>. QED
      BY <1>4, <1>6, <3>1
  <2>3. \A i, j \in 1 .. l : i < j => s[i] < s[j]
    BY <1>2, <1>4, <2>1 DEF Ascending
  <2>4. children'[n] = Append(s, c)
    BY <1>7
  <2>. HIDE DEF s
  <2>5. /\ Append(s, c) \in Seq(Ids) /\ Len(Append(s, c)) = l + 1
        /\ \A i \in 1 .. l : Append(s, c)[i] = s[i]
        /\ Append(s, c)[l + 1] = c
    BY <1>1, <2>1, AppendProperties
  <2>6. DOMAIN Append(s, c) = 1 .. l + 1
    BY <2>5, LenProperties
  <2>. HIDE DEF l
  <2>7. ASSUME NEW i \in 1 .. l + 1, NEW j \in 1 .. l + 1, i < j
        PROVE  Append(s, c)[i] < Append(s, c)[j]
    <3>1. i \in 1 .. l /\ (j \in 1 .. l \/ j = l + 1)
      BY <2>1, <2>7
    <3>. QED
      BY <2>2, <2>3, <2>5, <2>7, <3>1
  <2>. QED
    BY <2>4, <2>6, <2>7 DEF Ascending
<1>14. \A m \in Ids : Ascending(children'[m])
  BY <1>2, <1>7, <1>13
<1>15. \A r \in Living' : r < c' /\ \E m \in Ids : r \in Kids(m)'
  <2>. TAKE r \in Living'
  <2>1. CASE r = c
    BY <1>1, <1>4, <1>8, <2>1
  <2>2. CASE r # c
    <3>1. r \in Living
      BY <1>5, <2>2
    <3>2. r < c /\ r \in Nat
      BY <1>3, <3>1, IdsAreNumbers
    <3>3. \E m \in Ids : r \in Kids(m)
      BY <3>1 DEF PostsInv, RepostsHang
    <3>4. \E m \in Ids : r \in Kids(m)'
      BY <1>8, <1>9, <3>3
    <3>. QED
      BY <1>1, <3>2, <3>4
  <2>. QED
    BY <2>1, <2>2
<1>16. \A m \in Ids : \A k \in Kids(m)' : k \in Living' /\ m \in Posted' \cup Living'
  BY <1>5, <1>6, <1>8, <1>9
<1>17. reposts' \in [Ids -> RepostData \cup {NoRepost}]
  BY <1>2
<1>18. RepostsHang'
  BY <1>11, <1>12, <1>14, <1>15, <1>16, <1>17 DEF RepostsHang, c
<1>19. \A p \in Posted' : p < c' /\ p \notin Living'
  BY <1>1, <1>3, <1>4, <1>5, IdsAreNumbers
<1>. QED
  BY <1>1, <1>18, <1>19 DEF PostsInv, PostsListed, c

\* A repost, or an attempt at one that costs a number.
LEMMA CreateRepostKeeps ==
  ASSUME PostsInv, NEW u \in Members, NEW p \in Ids, NEW r \in {0} \cup Ids,
         CreateRepost(u, p, r)
  PROVE  PostsInv'
<1>. DEFINE d == [user |-> u, likes |-> 0]
            n == IF r = 0 THEN p ELSE r
<1>1. /\ UNCHANGED <<postList, liked>> /\ pendingPostId < MaxPosts
      /\ r # p
  BY DEF CreateRepost, IdLeft
<1>2. pendingPostId \in Nat /\ pendingPostId + 1 \in 1 .. MaxPosts
      /\ pendingPostId \in 1 .. MaxPosts
  BY <1>1, IdsAreNumbers DEF PostsInv, PostsListed
<1>3. CASE p \in Posted /\ (r = 0 \/ Found(p, r))
  <2>1. d \in RepostData
    BY RepostDataIs, PostsAssumption
  <2>2. n \in Posted \cup Living
    BY <1>1, <1>3, FoundIsLiving DEF Found
  <2>3. /\ reposts' = [reposts EXCEPT ![pendingPostId] = d]
        /\ children' = [children EXCEPT ![n] = Append(children[n], pendingPostId)]
        /\ pendingPostId' = pendingPostId + 1
    BY <1>3 DEF CreateRepost
  <2>. HIDE DEF d, n
  <2>. QED
    BY <1>1, <2>1, <2>2, <2>3, AttachKeeps
<1>4. CASE ~(p \in Posted /\ (r = 0 \/ Found(p, r)))
  <2>1. /\ UNCHANGED <<reposts, children>>
        /\ pendingPostId' = pendingPostId \/ pendingPostId' = pendingPostId + 1
    BY <1>4 DEF CreateRepost
  <2>2. Living' = Living /\ Posted' = Posted
    BY <1>1, <2>1 DEF Living, Posted
  <2>3. pendingPostId' \in Nat /\ pendingPostId' >= pendingPostId
        /\ pendingPostId' \in 1 .. MaxPosts
    BY <1>2, <2>1
  <2>4. RepostsHang'
    BY <2>1, <2>2, <2>3, SameTrees DEF PostsInv, RepostsHang
  <2>5. \A q \in Posted' : q < pendingPostId' /\ q \notin Living'
    <3>. TAKE q \in Posted'
    <3>1. q \in Nat /\ q < pendingPostId /\ q \notin Living
      BY <2>2, PostedAre, IdsAreNumbers DEF PostsInv, PostsListed
    <3>. QED
      BY <1>2, <2>1, <2>2, <3>1
  <2>. QED
    BY <1>1, <2>3, <2>4, <2>5 DEF PostsInv, PostsListed
<1>. QED
  BY <1>3, <1>4

\* Changes of the data of a post, or of a repost, that keep the trees.
LEMMA DataChangeKeeps ==
  ASSUME PostsInv, UNCHANGED <<children, pendingPostId>>,
         liked' \in [Ids -> SUBSET Users],
         Living' = Living, reposts' \in [Ids -> RepostData \cup {NoRepost}],
         \/ postList' = postList
         \/ \E k \in DOMAIN postList, e \in PostData :
              e.postId = postList[k].postId /\ postList' = [postList EXCEPT ![k] = e]
  PROVE  PostsInv' /\ Posted' = Posted
<1>1. /\ postList' \in Seq(PostData) /\ DOMAIN postList' = DOMAIN postList
      /\ \A i \in DOMAIN postList : postList'[i].postId = postList[i].postId
      /\ Posted' = Posted
  <2>1. CASE postList' = postList
    BY <2>1 DEF Posted, PostsInv, PostsListed
  <2>2. CASE postList' # postList
    <3>1. PICK k \in DOMAIN postList, e \in PostData :
              e.postId = postList[k].postId /\ postList' = [postList EXCEPT ![k] = e]
      BY <2>2
    <3>. QED
      BY <3>1, EntryChanges DEF PostsInv
  <2>. QED
    BY <2>1, <2>2
<1>2. pendingPostId' \in Nat /\ pendingPostId' >= pendingPostId
  BY DEF PostsInv, PostsListed
<1>3. RepostsHang'
  BY <1>1, <1>2, SameTrees
<1>. QED
  BY <1>1, <1>3 DEF PostsInv, PostsListed

\* A like, or one taken back, of a post or of a repost.
LEMMA LikeKeeps ==
  ASSUME PostsInv, NEW u \in Likers, NEW p \in Ids, NEW r \in {0} \cup Ids, Like(u, p, r)
  PROVE  PostsInv' /\ Posted' = Posted /\ UNCHANGED children
<1>1. u \in Users /\ r # p /\ UNCHANGED <<children, pendingPostId>>
  BY PostsAssumption DEF Like
<1>2. liked' \in [Ids -> SUBSET Users]
  <2>1. Marked(liked[p], u) \in SUBSET Users
    BY <1>1 DEF Marked, SymDiff, PostsInv
  <2>2. liked' = liked \/ liked' = [liked EXCEPT ![p] = Marked(liked[p], u)]
    BY DEF Like
  <2>. QED
    BY <2>1, <2>2 DEF PostsInv
<1>3. \A k \in Uint : Counted(k, u \in liked[p]) \in Uint
  <2>. TAKE k \in Uint
  <2>1. k \in Int /\ k - 1 \in Int /\ k + 1 \in Int
    BY RepostDataIs DEF Uint
  <2>. QED
    BY <2>1, RepostDataIs DEF Counted
<1>4. CASE r = 0 /\ p \in Posted
  <2>. DEFINE k == Position(p)
              c == Counted(postList[k].likes, u \in liked[p])
              e == [postList[k] EXCEPT !.likes = c]
  <2>1. postList' = [postList EXCEPT ![k] = e] /\ UNCHANGED reposts
    BY <1>4 DEF Like
  <2>2. k \in DOMAIN postList
    BY <1>4, PositionIs DEF PostsInv
  <2>3. postList[k] \in PostData
    BY <2>2, PostedAre DEF PostsInv
  <2>4. c \in Uint
    BY <1>3, <2>3 DEF PostData
  <2>5. e \in PostData /\ e.postId = postList[k].postId
    <3>. HIDE DEF c, k
    <3>. QED
      BY <2>3, <2>4 DEF PostData
  <2>6. Living' = Living /\ reposts' \in [Ids -> RepostData \cup {NoRepost}]
    BY <2>1 DEF Living, PostsInv, RepostsHang
  <2>. HIDE DEF e, k
  <2>. QED
    BY <1>1, <1>2, <2>1, <2>2, <2>5, <2>6, DataChangeKeeps
<1>5. CASE ~(r = 0 /\ p \in Posted)
  <2>1. postList' = postList
    BY <1>5 DEF Like
  <2>2. Living' = Living /\ reposts' \in [Ids -> RepostData \cup {NoRepost}]
    <3>1. reposts \in [Ids -> RepostData \cup {NoRepost}]
      BY DEF PostsInv, RepostsHang
    <3>2. CASE Found(p, r)
      <4>1. r \in Living /\ r \in Ids
        BY <1>1, <3>2, FoundIsLiving DEF Found
      <4>. DEFINE c == Counted(reposts[r].likes, u \in liked[p])
                  d == [reposts[r] EXCEPT !.likes = c]
      <4>2. reposts' = [reposts EXCEPT ![r] = d]
        BY <1>5, <3>2 DEF Like
      <4>3. reposts[r] \in RepostData
        BY <3>1, <4>1 DEF Living
      <4>4. c \in Uint
        BY <1>3, <4>3 DEF RepostData
      <4>5. d \in RepostData
        <5>. HIDE DEF c
        <5>. QED
          BY <4>3, <4>4 DEF RepostData
      <4>. HIDE DEF d
      <4>6. d # NoRepost
        BY <4>5, RepostDataIs
      <4>. QED
        BY <3>1, <4>1, <4>2, <4>5, <4>6 DEF Living
    <3>3. CASE ~Found(p, r)
      BY <1>5, <3>1, <3>3 DEF Like, Living
    <3>. QED
      BY <3>2, <3>3
  <2>. QED
    BY <1>1, <1>2, <2>1, <2>2, DataChangeKeeps
<1>. QED
  BY <1>1, <1>4, <1>5

\* common-repost numbers a root.
LEMMA CommonRepostKeeps ==
  ASSUME PostsInv, NEW p \in Ids, NEW a, NEW b, CommonRepost(p, a, b)
  PROVE  PostsInv' /\ Posted' = Posted /\ UNCHANGED <<children, reposts, liked>>
<1>1. p \in Posted /\ UNCHANGED <<reposts, children, liked, pendingPostId>>
  BY DEF CommonRepost
<1>. DEFINE k == Position(p)
            e == [postList[k] EXCEPT !.rootId = p]
<1>2. postList' = postList \/ postList' = [postList EXCEPT ![k] = e]
  BY DEF CommonRepost
<1>3. k \in DOMAIN postList
  BY <1>1, PositionIs DEF PostsInv
<1>4. postList[k] \in PostData
  BY <1>3, PostedAre DEF PostsInv
<1>5. e \in PostData /\ e.postId = postList[k].postId
  <2>. HIDE DEF k
  <2>. QED
    BY <1>4 DEF PostData
<1>6. Living' = Living /\ reposts' \in [Ids -> RepostData \cup {NoRepost}]
      /\ liked' \in [Ids -> SUBSET Users]
  BY <1>1 DEF Living, PostsInv, RepostsHang
<1>. HIDE DEF e, k
<1>. QED
  BY <1>1, <1>2, <1>3, <1>5, <1>6, DataChangeKeeps

\* The parent of a repost is the node whose list it is in, and there is one.
LEMMA ParentIs ==
  ASSUME OneParent, NEW n \in Ids, NEW r \in Kids(n)
  PROVE  Parent(r) = n
<1>1. \A m \in Ids : r \in ToSet(children[m]) => m = n
  BY DEF OneParent, Kids
<1>2. r \in ToSet(children[n])
  BY DEF Kids
<1>. QED
  BY <1>1, <1>2 DEF Parent

\* What a delete of repost r loses: the nodes below its parent.
Lost(r) == Descendants(Parent(r)) \ {Parent(r)}

\* They are reposts, and what hangs below one of them, or below the parent, is
\* one of them; everything else hangs elsewhere.
LEMMA LostAre ==
  ASSUME PostsInv, NEW p \in Posted, NEW r \in Descendants(p), r # p
  PROVE  /\ Parent(r) \in Ids /\ Parent(r) \in Descendants(p) /\ r \in Kids(Parent(r))
         /\ Lost(r) \subseteq Living /\ r \in Lost(r) /\ Parent(r) \notin Lost(r)
         /\ \A n \in Ids : \A c \in Kids(n) :
              c \in Lost(r) <=> n \in Lost(r) \cup {Parent(r)}
<1>. DEFINE q == Parent(r)
<1>1. KidsAbove /\ OneParent /\ p \in Ids
  BY PostedAre DEF PostsInv, RepostsHang
<1>2. PICK m \in Descendants(p) : r \in Kids(m)
  BY <1>1, ParentAmong
<1>3. m \in Ids
  BY <1>1, DescendantsLevel
<1>4. q = m
  BY <1>1, <1>2, <1>3, ParentIs
<1>. HIDE DEF q
<1>5. q \in Ids /\ q \in Descendants(p) /\ r \in Kids(q)
  BY <1>2, <1>3, <1>4
<1>. DEFINE L == Descendants(q) \ {q}
<1>6. q \in Descendants(q) /\ Descendants(q) \subseteq Ids
  BY <1>1, <1>5, DescendantsLevel
<1>7. \A n \in Descendants(q) : \A c \in Kids(n) : c \in L
  <2>. TAKE n \in Descendants(q)
  <2>. TAKE c \in Kids(n)
  <2>. QED
    BY <1>1, <1>5, KidsAmong
<1>8. \A c \in L : \E n \in Descendants(q) : c \in Kids(n)
  <2>. TAKE c \in L
  <2>. QED
    BY <1>1, <1>5, ParentAmong
<1>9. \A n \in Ids : \A c \in Kids(n) : c \in L => n \in Descendants(q)
  BY <1>1, <1>6, <1>8 DEF OneParent
<1>10. L \subseteq Living
  BY <1>6, <1>8 DEF PostsInv, RepostsHang
<1>11. r \in L
  BY <1>5, <1>6, <1>7
<1>. QED
  BY <1>5, <1>6, <1>7, <1>9, <1>10, <1>11 DEF q, Lost

\* A repost is deleted with its siblings and all below them.
LEMMA DeleteRepostKeeps ==
  ASSUME PostsInv, NEW p \in Ids, NEW r \in Ids, DeleteRepost(p, r)
  PROVE  /\ PostsInv' /\ Posted' = Posted
         /\ UNCHANGED <<postList, liked>>
         /\ Living' = Living \ Lost(r)
         /\ \A n \in Ids : n \notin Lost(r) => reposts'[n] = reposts[n]
         /\ \A n \in Ids :
              children'[n] = IF n \in Lost(r) \cup {Parent(r)} THEN <<>> ELSE children[n]
<1>. DEFINE L == Lost(r)
            q == Parent(r)
<1>1. /\ p \in Posted /\ r \in Descendants(p) /\ r # p
      /\ UNCHANGED <<postList, liked, pendingPostId>>
      /\ reposts' = [n \in Ids |-> IF n \in L THEN NoRepost ELSE reposts[n]]
      /\ children' = [n \in Ids |-> IF n \in L \cup {q} THEN <<>> ELSE children[n]]
  BY DEF DeleteRepost, Found, Lost
<1>2. /\ q \in Ids /\ L \subseteq Living /\ q \notin L
      /\ \A n \in Ids : \A c \in Kids(n) : c \in L <=> n \in L \cup {q}
  BY <1>1, LostAre
<1>. HIDE DEF L, q
<1>3. /\ KidsAbove /\ OneParent /\ \A m \in Ids : Ascending(children[m])
      /\ children \in [Ids -> Seq(Ids)] /\ reposts \in [Ids -> RepostData \cup {NoRepost}]
  BY DEF PostsInv, RepostsHang, KidsAbove
<1>4. /\ \A n \in Ids : n \notin L => reposts'[n] = reposts[n]
      /\ \A n \in Ids : children'[n] = IF n \in L \cup {q} THEN <<>> ELSE children[n]
      /\ reposts' \in [Ids -> RepostData \cup {NoRepost}]
  BY <1>1, <1>3
<1>5. Living' = Living \ L /\ Posted' = Posted
  BY <1>1 DEF Living, Posted
<1>6. \A n \in Ids : Kids(n)' = IF n \in L \cup {q} THEN {} ELSE Kids(n)
  BY <1>4 DEF Kids, ToSet
<1>7. children' \in [Ids -> Seq(Ids)]
  BY <1>1, <1>3
<1>8. KidsAbove' /\ OneParent'
  <2>1. \A n \in Ids : Kids(n)' \subseteq Kids(n)
    BY <1>6
  <2>2. KidsAbove'
    BY <1>3, <1>7, <2>1 DEF KidsAbove
  <2>3. ASSUME NEW m \in Ids, NEW n \in Ids, NEW c \in Kids(m)' \cap Kids(n)'
        PROVE  m = n
    <3>1. c \in Kids(m) \cap Kids(n)
      BY <2>1
    <3>. QED
      BY <1>3, <3>1 DEF OneParent
  <2>4. OneParent'
    BY <2>3 DEF OneParent
  <2>. QED
    BY <2>2, <2>4
<1>9. \A m \in Ids : Ascending(children'[m])
  <2>. TAKE m \in Ids
  <2>1. CASE m \in L \cup {q}
    BY <1>4, <2>1 DEF Ascending
  <2>2. CASE m \notin L \cup {q}
    BY <1>3, <1>4, <2>2
  <2>. QED
    BY <2>1, <2>2
<1>10. \A k \in Living' : k < pendingPostId' /\ \E n \in Ids : k \in Kids(n)'
  <2>. TAKE k \in Living'
  <2>1. k \in Living /\ k \notin L
    BY <1>5
  <2>2. k < pendingPostId /\ \E n \in Ids : k \in Kids(n)
    BY <2>1 DEF PostsInv, RepostsHang
  <2>. QED
    BY <1>1, <1>2, <1>6, <2>1, <2>2
<1>11. \A n \in Ids : \A c \in Kids(n)' : c \in Living' /\ n \in Posted' \cup Living'
  <2>. TAKE n \in Ids
  <2>. TAKE c \in Kids(n)'
  <2>1. n \notin L \cup {q} /\ c \in Kids(n)
    BY <1>6
  <2>2. c \in Living /\ n \in Posted \cup Living
    BY <2>1 DEF PostsInv, RepostsHang
  <2>. QED
    BY <1>2, <1>5, <2>1, <2>2
<1>12. RepostsHang'
  BY <1>4, <1>8, <1>9, <1>10, <1>11 DEF RepostsHang
<1>13. PostsListed'
  BY <1>1, <1>5 DEF PostsInv, PostsListed
<1>14. PostsInv'
  BY <1>1, <1>12, <1>13 DEF PostsInv
<1>. QED
  BY <1>1, <1>4, <1>5, <1>14 DEF L, q

\* Every command keeps the posts and their trees in order.
LEMMA PostsInvNext ==
  ASSUME PostsInv, PostsNext \/ UNCHANGED postsVars
  PROVE  PostsInv'
<1>1. CASE UNCHANGED postsVars
  BY <1>1 DEF postsVars, PostsInv, PostsListed, RepostsHang, Posted, Living, KidsAbove,
              OneParent, Kids
<1>2. ASSUME NEW u \in Members, CreatePost(u) PROVE PostsInv'
  BY <1>2, CreatePostKeeps
<1>3. ASSUME NEW p \in Ids, NEW r \in {0} \cup Ids, NEW u \in Members, CreateRepost(u, p, r)
      PROVE  PostsInv'
  BY <1>3, CreateRepostKeeps
<1>4. ASSUME NEW p \in Ids, NEW r \in {0} \cup Ids, NEW u \in Likers, Like(u, p, r)
      PROVE  PostsInv'
  BY <1>4, LikeKeeps
<1>5. ASSUME NEW p \in Ids, NEW a \in Ids, NEW b \in Ids, CommonRepost(p, a, b)
      PROVE  PostsInv'
  BY <1>5, CommonRepostKeeps
<1>6. ASSUME NEW p \in Ids, NEW r \in Ids, DeleteRepost(p, r) PROVE PostsInv'
  BY <1>6, DeleteRepostKeeps
<1>7. ASSUME NEW p \in Ids, DeletePost(p) PROVE PostsInv'
  BY <1>1, <1>7 DEF DeletePost
<1>. QED
  BY <1>1, <1>2, <1>3, <1>4, <1>5, <1>6, <1>7 DEF PostsNext

\* Every repost is in the tree of a post.
LEMMA RootExists ==
  ASSUME PostsInv, NEW r \in Living
  PROVE  \E p \in Posted : r \in Descendants(p)
<1>. DEFINE Bad == {k \in Living : \A p \in Posted : k \notin Descendants(p)}
<1>1. KidsAbove /\ Posted \subseteq Ids /\ Living \subseteq Ids
  BY PostedAre DEF PostsInv, RepostsHang, Living
<1>2. SUFFICES ASSUME Bad # {} PROVE FALSE
  OBVIOUS
<1>3. Bad \in SUBSET Ids
  BY <1>1
<1>4. PICK k \in Bad : \A j \in Bad : k <= j
  BY <1>2, <1>3, ExtremeIds
<1>5. PICK n \in Ids : k \in Kids(n)
  BY DEF PostsInv, RepostsHang
<1>6. n \in Posted \cup Living /\ k > n /\ k \in Ids /\ k \in Nat /\ n \in Nat
  <2>1. k \in Ids /\ k > n
    BY <1>1, <1>5, KidsAreIds
  <2>. QED
    BY <1>5, <2>1, IdsAreNumbers DEF PostsInv, RepostsHang
<1>7. PICK p \in Posted : n \in Descendants(p)
  <2>1. CASE n \in Posted
    BY <1>1, <2>1, DescendantsLevel
  <2>2. CASE n \in Living
    BY <1>4, <1>6, <2>2
  <2>. QED
    BY <1>6, <2>1, <2>2
<1>8. k \in Descendants(p)
  BY <1>1, <1>5, <1>7, KidsAmong
<1>. QED
  BY <1>8

\* And in no other.
LEMMA OneRoot ==
  ASSUME PostsInv, NEW p \in Posted, NEW q \in Posted,
         NEW r \in Descendants(p), r \in Descendants(q)
  PROVE  p = q
<1>1. KidsAbove /\ OneParent /\ p \in Ids /\ q \in Ids
  BY PostedAre DEF PostsInv, RepostsHang
<1>2. p \notin Living /\ q \notin Living
  BY DEF PostsInv, PostsListed
<1>3. p \in Descendants(q) \/ q \in Descendants(p)
  BY <1>1, AncestorsAreChain
<1>. QED
  BY <1>2, <1>3, FoundIsLiving

\* The invariant says that the trees are in order.
LEMMA TreesAreInOrder ==
  ASSUME PostsInv
  PROVE  TreesInOrder
<1>1. PostsTypeOK
  BY DEF PostsInv, PostsListed, RepostsHang, KidsAbove, PostsTypeOK, PostData, RepostData
<1>2. \A n \in Ids : \A i, j \in DOMAIN children[n] : i < j => children[n][i] < children[n][j]
  BY DEF PostsInv, RepostsHang, Ascending
<1>3. ASSUME NEW r \in Ids, reposts[r] = NoRepost, NEW n \in Ids
      PROVE  r \notin ToSet(children[n])
  BY <1>3 DEF PostsInv, RepostsHang, Living, Kids
<1>4. ASSUME NEW r \in Ids, reposts[r] # NoRepost
      PROVE  /\ r < pendingPostId /\ r \notin Posted
             /\ Cardinality({p \in Posted : r \in Reposts(p)}) = 1
             /\ Cardinality({n \in Ids : r \in ToSet(children[n])}) = 1
  <2>1. r \in Living
    BY <1>4 DEF Living
  <2>2. r < pendingPostId /\ r \notin Posted
    BY <2>1 DEF PostsInv, PostsListed, RepostsHang
  <2>3. PICK p \in Posted : r \in Descendants(p)
    BY <2>1, RootExists
  <2>4. {q \in Posted : r \in Reposts(q)} = {p}
    <3>1. \A q \in Posted : r \in Reposts(q) => q = p
      BY <2>3, OneRoot DEF Reposts
    <3>. QED
      BY <2>2, <2>3, <3>1 DEF Reposts
  <2>5. PICK n \in Ids : r \in Kids(n)
    BY <2>1 DEF PostsInv, RepostsHang
  <2>6. {m \in Ids : r \in ToSet(children[m])} = {n}
    BY <2>5 DEF PostsInv, RepostsHang, OneParent, Kids
  <2>. QED
    BY <2>2, <2>4, <2>6, FS_Singleton
<1>. QED
  BY <1>1, <1>2, <1>3, <1>4 DEF TreesInOrder, PostsInv, PostsListed

\* Next of the whole program is, for the posts, one of their commands or nothing.
LEMMA PostsStep ==
  ASSUME [Next]_vars
  PROVE  PostsNext \/ UNCHANGED postsVars
BY DEF Next, vars, FriendsRepostsOfNothing

\* Every repost that exists is below one node, in the tree of one post, and lists
\* are in the order of the numbers (create_repost, delete_repost, handle_input_posts).
THEOREM TreesStayInOrder == Spec => []TreesInOrder
<1>1. Init => PostsInv
  BY PostsInvInit DEF Init
<1>2. PostsInv /\ [Next]_vars => PostsInv'
  BY PostsStep, PostsInvNext
<1>. QED
  BY <1>1, <1>2, TreesAreInOrder, PTL DEF Spec

-----------------------------------------------------------------------------
\* The children of n below which the search K of compute_lca has found something.
Hits(K, n) == Keep(children[n], {c \in ToSet(children[n]) : K[c] # None})

\* What the search answers at n, from what K answers at its children.
Answers(K, n, a, b) ==
  IF n \in {a, b} THEN n
  ELSE IF Hits(K, n) = <<>> THEN None
       ELSE IF Len(Hits(K, n)) > 1 THEN n ELSE K[Hits(K, n)[1]]

\* The children with a hit, each once.
LEMMA HitsAre ==
  ASSUME KidsAbove, NEW n \in Ids, Ascending(children[n]), NEW K
  PROVE  /\ Hits(K, n) \in Seq(Ids)
         /\ ToSet(Hits(K, n)) = {c \in Kids(n) : K[c] # None}
         /\ Hits(K, n) = <<>> => \A c \in Kids(n) : K[c] = None
         /\ Hits(K, n) # <<>> => /\ Hits(K, n)[1] \in Kids(n)
                                 /\ K[Hits(K, n)[1]] # None
                                 /\ Len(Hits(K, n)) \in Nat /\ Len(Hits(K, n)) >= 1
         /\ Len(Hits(K, n)) = 1 => \A c \in Kids(n) : K[c] # None => c = Hits(K, n)[1]
         /\ Len(Hits(K, n)) > 1 => \E c, d \in Kids(n) : c # d /\ K[c] # None /\ K[d] # None
<1>. DEFINE s == children[n]
            T == {c \in ToSet(s) : K[c] # None}
            h == Hits(K, n)
<1>1. s \in Seq(Ids) /\ Kids(n) = ToSet(s)
  BY KidsAreIds DEF Kids
<1>2. IsInjective(s)
  <2>1. /\ Len(s) \in Nat /\ DOMAIN s = 1 .. Len(s)
        /\ \A i \in 1 .. Len(s) : s[i] \in Nat
    BY KidsAreIds, IdsAreNumbers
  <2>2. \A i, j \in 1 .. Len(s) : i < j => s[i] < s[j]
    BY <2>1 DEF Ascending
  <2>. HIDE DEF s
  <2>3. \A i, j \in 1 .. Len(s) : s[i] = s[j] => i = j
    BY <2>1, <2>2
  <2>. QED
    BY <2>1, <2>3 DEF IsInjective
<1>3. h = Keep(s, T)
  BY DEF Hits
<1>. HIDE DEF h
<1>4. h \in Seq(Ids) /\ ToSet(h) = T /\ IsInjective(h)
  <2>1. T \subseteq ToSet(s)
    OBVIOUS
  <2>. HIDE DEF s, T
  <2>2. Keep(s, T) \in Seq(Ids) /\ ToSet(Keep(s, T)) = ToSet(s) \cap T
        /\ IsInjective(Keep(s, T))
    BY <1>1, <1>2, KeepProperties
  <2>. QED
    BY <1>3, <2>1, <2>2
<1>5. Len(h) \in Nat /\ DOMAIN h = 1 .. Len(h) /\ ToSet(h) = {h[i] : i \in 1 .. Len(h)}
  BY <1>4, IndicesOfSeq
<1>6. ToSet(h) = {c \in Kids(n) : K[c] # None}
  BY <1>1, <1>4
<1>7. ASSUME h = <<>> PROVE \A c \in Kids(n) : K[c] = None
  <2>1. ToSet(h) = {}
    BY <1>7 DEF ToSet
  <2>. QED
    BY <1>6, <2>1
<1>8. ASSUME h # <<>> PROVE h[1] \in Kids(n) /\ K[h[1]] # None /\ Len(h) >= 1
  <2>1. Len(h) >= 1
    BY <1>4, <1>5, <1>8, EmptySeq
  <2>2. h[1] \in ToSet(h)
    BY <1>5, <2>1
  <2>. QED
    BY <1>6, <2>1, <2>2
<1>9. ASSUME Len(h) = 1, NEW c \in Kids(n), K[c] # None PROVE c = h[1]
  <2>1. c \in ToSet(h)
    BY <1>6, <1>9
  <2>. QED
    BY <1>5, <1>9, <2>1
<1>10. ASSUME Len(h) > 1
       PROVE  \E c, d \in Kids(n) : c # d /\ K[c] # None /\ K[d] # None
  <2>1. 1 \in DOMAIN h /\ 2 \in DOMAIN h
    BY <1>5, <1>10
  <2>2. h[1] # h[2] /\ h[1] \in ToSet(h) /\ h[2] \in ToSet(h)
    BY <1>4, <1>5, <2>1 DEF IsInjective
  <2>. QED
    BY <1>6, <2>2
<1>. QED
  BY <1>4, <1>5, <1>6, <1>7, <1>8, <1>9, <1>10 DEF h

\* The search depends on its answers at the children only.
LEMMA AnswersSame ==
  ASSUME KidsAbove, NEW n \in Ids, Ascending(children[n]), NEW a, NEW b,
         NEW K, NEW L, \A c \in Kids(n) : K[c] = L[c]
  PROVE  Answers(K, n, a, b) = Answers(L, n, a, b)
<1>1. {c \in ToSet(children[n]) : K[c] # None} = {c \in ToSet(children[n]) : L[c] # None}
  BY DEF Kids
<1>2. Hits(K, n) = Hits(L, n)
  BY <1>1 DEF Hits
<1>3. Hits(K, n) # <<>> => Hits(K, n)[1] \in Kids(n)
  BY HitsAre
<1>. QED
  BY <1>2, <1>3 DEF Answers

\* The search of compute_lca exists, because it goes to greater identifiers.
LEMMA SearchExists ==
  ASSUME KidsAbove, \A n \in Ids : Ascending(children[n]), NEW a, NEW b
  PROVE  \E K : K = [m \in Ids |-> Answers(K, m, a, b)]
<1>. DEFINE From(k, K) == /\ K = [m \in Ids |-> K[m]]
                          /\ \A m \in Ids : m >= MaxPosts - k => K[m] = Answers(K, m, a, b)
            Bad == {k \in 0 .. MaxPosts : ~\E K : From(k, K)}
<1>1. Bad = {}
  <2>1. SUFFICES ASSUME Bad # {} PROVE FALSE
    OBVIOUS
  <2>2. Bad \in SUBSET Nat
    OBVIOUS
  <2>3. PICK k \in Bad : \A j \in Bad : k <= j
    BY <2>1, <2>2, LeastExists
  <2>4. k \in 0 .. MaxPosts /\ MaxPosts \in Nat /\ ~\E K : From(k, K)
    BY <2>3, IdsAreNumbers
  <2>5. CASE k = 0
    <3>. DEFINE K == [m \in Ids |-> 0]
    <3>1. \A m \in Ids : ~(m >= MaxPosts - 0)
      BY IdsAreNumbers
    <3>2. K = [m \in Ids |-> K[m]]
      OBVIOUS
    <3>. HIDE DEF K
    <3>3. From(0, K)
      BY <3>1, <3>2
    <3>. QED
      BY <2>4, <2>5, <3>3
  <2>6. CASE k # 0
    <3>. DEFINE n == MaxPosts - k
    <3>1. k - 1 \in 0 .. MaxPosts /\ ~(k <= k - 1) /\ n \in Int
      BY <2>4, <2>6
    <3>2. PICK K : From(k - 1, K)
      BY <2>3, <3>1
    <3>. DEFINE L == [m \in Ids |-> IF m = n THEN Answers(K, m, a, b) ELSE K[m]]
    <3>3. ASSUME NEW m \in Ids, m >= n
          PROVE  L[m] = Answers(L, m, a, b)
      <4>1. m \in Int /\ n \in Int /\ MaxPosts - (k - 1) = n + 1
        BY <2>4, <3>1, IdsAreNumbers
      <4>2. L[m] = Answers(K, m, a, b)
        <5>1. CASE m = n
          BY <5>1
        <5>2. CASE m # n
          <6>. HIDE DEF n
          <6>1. m >= MaxPosts - (k - 1)
            BY <3>3, <4>1, <5>2
          <6>. QED
            BY <3>2, <5>2, <6>1
        <5>. QED
          BY <5>1, <5>2
      <4>3. \A c \in Kids(m) : K[c] = L[c]
        <5>. TAKE c \in Kids(m)
        <5>1. c \in Ids /\ c > m /\ c \in Int
          BY KidsAreIds, IdsAreNumbers
        <5>2. c # n
          BY <3>3, <4>1, <5>1
        <5>. QED
          BY <5>1, <5>2
      <4>. HIDE DEF L, n
      <4>4. Answers(K, m, a, b) = Answers(L, m, a, b)
        BY <4>3, AnswersSame
      <4>. QED
        BY <4>2, <4>4
    <3>4. L = [m \in Ids |-> L[m]]
      OBVIOUS
    <3>. HIDE DEF L
    <3>5. From(k, L)
      BY <3>3, <3>4
    <3>. QED
      BY <2>4, <3>5
  <2>. QED
    BY <2>5, <2>6
<1>2. MaxPosts \in 0 .. MaxPosts /\ \A m \in Ids : m >= MaxPosts - MaxPosts
  BY IdsAreNumbers
<1>3. PICK K : From(MaxPosts, K)
  BY <1>1, <1>2
<1>4. K = [m \in Ids |-> Answers(K, m, a, b)]
  BY <1>2, <1>3
<1>. QED
  BY <1>4

\* compute_lca at n, from its answers at the children.
LEMMA ComputeLcaIs ==
  ASSUME KidsAbove, \A n \in Ids : Ascending(children[n]), NEW a, NEW b
  PROVE  \E K : \A n \in Ids : K[n] = Answers(K, n, a, b) /\ ComputeLca(n, a, b) = K[n]
<1>. DEFINE F == CHOOSE F : F = [n \in Ids |-> Answers(F, n, a, b)]
<1>1. F = [n \in Ids |-> Answers(F, n, a, b)]
  BY SearchExists
<1>2. \A n \in Ids : ComputeLca(n, a, b) = F[n]
  BY DEF ComputeLca, Answers, Hits
<1>. HIDE DEF F
<1>. QED
  BY <1>1, <1>2

-----------------------------------------------------------------------------
\* Nothing is below two children of a node.
LEMMA KidsApart ==
  ASSUME KidsAbove, OneParent, NEW n \in Ids, NEW c \in Kids(n), NEW d \in Kids(n),
         NEW r \in Descendants(c), r \in Descendants(d)
  PROVE  c = d
<1>1. c \in Ids /\ d \in Ids /\ c > n /\ d > n /\ n \in Nat
  BY KidsAreIds, IdsAreNumbers
<1>2. \A x, y \in Kids(n) : x \in Descendants(y) => x = y
  <2>. TAKE x, y \in Kids(n)
  <2>1. SUFFICES ASSUME x \in Descendants(y), x # y PROVE FALSE
    OBVIOUS
  <2>2. y \in Ids /\ y > n /\ y \in Nat
    BY KidsAreIds, IdsAreNumbers
  <2>3. PICK m \in Descendants(y) : x \in Kids(m)
    BY <2>1, <2>2, ParentAmong
  <2>4. m \in Ids /\ m >= y /\ m \in Nat
    BY <2>2, DescendantsLevel, DescendantsAbove
  <2>5. m = n
    BY <2>3, <2>4 DEF OneParent
  <2>. QED
    BY <1>1, <2>2, <2>4, <2>5
<1>3. c \in Descendants(d) \/ d \in Descendants(c)
  BY <1>1, AncestorsAreChain
<1>. QED
  BY <1>2, <1>3

\* c is the lowest node of the tree below n with all of S below it that is below n.
Lowest(n, S, c) ==
  /\ c \in Descendants(n)
  /\ S \cap Descendants(n) \subseteq Descendants(c)
  /\ \A m \in Descendants(n) :
       S \cap Descendants(n) \subseteq Descendants(m) => c \in Descendants(m)

\* A search answers nothing if it has nothing to find, and else the lowest node.
AnswersLowest(K, n, a, b) ==
  IF {a, b} \cap Descendants(n) = {} THEN K[n] = None
  ELSE K[n] # None /\ Lowest(n, {a, b}, K[n])

\* One node of the search, by its number of hits.
LEMMA AnswerIsLowest ==
  ASSUME KidsAbove, OneParent, NEW n \in Ids, Ascending(children[n]),
         NEW a \in Ids, NEW b \in Ids, NEW K, K[n] = Answers(K, n, a, b),
         \A c \in Kids(n) : AnswersLowest(K, c, a, b)
  PROVE  AnswersLowest(K, n, a, b)
<1>. DEFINE S == {a, b}
<1>1. /\ n \in Descendants(n) /\ Descendants(n) \subseteq Ids
      /\ \A c \in Kids(n) : Descendants(c) \subseteq Descendants(n)
      /\ \A r \in Descendants(n) : r # n => \E c \in Kids(n) : r \in Descendants(c)
  BY DescendantsLevel
<1>2. n # None
  BY IdsAreNumbers, PostsAssumption
<1>3. CASE n \in S
  <2>1. K[n] = n
    BY <1>3 DEF Answers
  <2>2. Lowest(n, S, n)
    BY <1>1, <1>3 DEF Lowest
  <2>. QED
    BY <1>1, <1>2, <1>3, <2>1, <2>2 DEF AnswersLowest
<1>4. CASE n \notin S
  <2>. DEFINE h == Hits(K, n)
  <2>1. \A r \in S \cap Descendants(n) : \E c \in Kids(n) : r \in S \cap Descendants(c)
    BY <1>1, <1>4
  <2>2. \A c \in Kids(n) : K[c] # None <=> S \cap Descendants(c) # {}
    BY DEF AnswersLowest
  <2>3. ASSUME NEW c \in Kids(n), NEW d \in Kids(n), NEW r \in Descendants(c),
               r \in Descendants(d)
        PROVE  c = d
    BY <2>3, KidsApart
  <2>4. ASSUME NEW m \in Descendants(n), m # n
        PROVE  \E c \in Kids(n) : m \in Descendants(c) /\ Descendants(m) \subseteq Descendants(c)
    <3>1. PICK c \in Kids(n) : m \in Descendants(c)
      BY <1>1, <2>4
    <3>2. c \in Ids
      BY KidsAreIds
    <3>. QED
      BY <3>1, <3>2, DescendantsBelow
  <2>5. CASE h = <<>>
    <3>1. K[n] = None
      BY <1>4, <2>5 DEF Answers
    <3>2. \A c \in Kids(n) : K[c] = None
      BY <2>5, HitsAre
    <3>3. S \cap Descendants(n) = {}
      BY <2>1, <2>2, <3>2
    <3>. QED
      BY <3>1, <3>3 DEF AnswersLowest
  <2>6. CASE h # <<>> /\ Len(h) = 1
    <3>. DEFINE c == h[1]
    <3>1. /\ K[n] = K[c] /\ c \in Kids(n) /\ K[c] # None
          /\ \A d \in Kids(n) : K[d] # None => d = c
      BY <1>4, <2>6, HitsAre DEF Answers
    <3>. HIDE DEF c
    <3>2. S \cap Descendants(n) = S \cap Descendants(c) /\ S \cap Descendants(c) # {}
      BY <1>1, <2>1, <2>2, <3>1
    <3>3. Lowest(c, S, K[c])
      BY <3>1, <3>2 DEF AnswersLowest
    <3>4. ASSUME NEW m \in Descendants(n), S \cap Descendants(n) \subseteq Descendants(m)
          PROVE  K[c] \in Descendants(m)
      <4>1. CASE m = n
        BY <1>1, <3>1, <3>3, <4>1 DEF Lowest
      <4>2. CASE m # n
        <5>1. PICK d \in Kids(n) : m \in Descendants(d) /\ Descendants(m) \subseteq Descendants(d)
          BY <2>4, <4>2
        <5>2. PICK r \in S : r \in Descendants(c)
          BY <3>2
        <5>3. r \in Descendants(d)
          BY <3>2, <3>4, <5>1, <5>2
        <5>4. d = c
          BY <2>3, <3>1, <5>2, <5>3
        <5>. QED
          BY <3>2, <3>3, <3>4, <5>1, <5>4 DEF Lowest
      <4>. QED
        BY <4>1, <4>2
    <3>5. Lowest(n, S, K[n])
      BY <1>1, <3>1, <3>2, <3>3, <3>4 DEF Lowest
    <3>. QED
      BY <3>1, <3>2, <3>5 DEF AnswersLowest
  <2>7. CASE h # <<>> /\ Len(h) # 1
    <3>1. Len(h) \in Nat /\ Len(h) >= 1
      BY <2>7, HitsAre
    <3>2. Len(h) > 1
      BY <2>7, <3>1
    <3>3. K[n] = n
      BY <1>4, <2>7, <3>2 DEF Answers
    <3>4. PICK c \in Kids(n), d \in Kids(n) : c # d /\ K[c] # None /\ K[d] # None
      BY <3>2, HitsAre
    <3>5. PICK r \in S : r \in Descendants(c)
      BY <2>2, <3>4
    <3>6. PICK t \in S : t \in Descendants(d)
      BY <2>2, <3>4
    <3>7. {r, t} \subseteq S \cap Descendants(n)
      BY <1>1, <3>5, <3>6
    <3>8. ASSUME NEW m \in Descendants(n), S \cap Descendants(n) \subseteq Descendants(m)
          PROVE  n \in Descendants(m)
      <4>1. SUFFICES ASSUME m # n PROVE FALSE
        BY <1>1
      <4>2. PICK e \in Kids(n) : m \in Descendants(e) /\ Descendants(m) \subseteq Descendants(e)
        BY <2>4, <4>1
      <4>3. r \in Descendants(e) /\ t \in Descendants(e)
        BY <3>7, <3>8, <4>2
      <4>4. e = c
        BY <2>3, <3>5, <4>3
      <4>5. e = d
        BY <2>3, <3>6, <4>3
      <4>. QED
        BY <3>4, <4>4, <4>5
    <3>9. Lowest(n, S, n)
      BY <1>1, <3>8 DEF Lowest
    <3>. QED
      BY <1>2, <3>3, <3>7, <3>9 DEF AnswersLowest
  <2>. QED
    BY <2>5, <2>6, <2>7
<1>. QED
  BY <1>3, <1>4

\* compute_lca answers nothing if it has nothing to find, and else the lowest node.
LEMMA ComputeLcaIsLowest ==
  ASSUME KidsAbove, OneParent, \A n \in Ids : Ascending(children[n]),
         NEW p \in Ids, NEW a \in Ids, NEW b \in Ids, {a, b} \cap Descendants(p) # {}
  PROVE  Lowest(p, {a, b}, ComputeLca(p, a, b))
<1>1. PICK K : \A n \in Ids : K[n] = Answers(K, n, a, b) /\ ComputeLca(n, a, b) = K[n]
  BY ComputeLcaIs
<1>. DEFINE Bad == {n \in Ids : ~AnswersLowest(K, n, a, b)}
<1>2. Bad = {}
  <2>1. SUFFICES ASSUME Bad # {} PROVE FALSE
    OBVIOUS
  <2>2. PICK n \in Bad : \A k \in Bad : n >= k
    BY <2>1, ExtremeIds
  <2>3. n \in Ids /\ n \in Nat
    BY IdsAreNumbers
  <2>4. \A c \in Kids(n) : AnswersLowest(K, c, a, b)
    <3>. TAKE c \in Kids(n)
    <3>1. c \in Ids /\ c > n /\ c \in Nat
      BY <2>3, KidsAreIds, IdsAreNumbers
    <3>2. c \notin Bad
      <4>. HIDE DEF Bad
      <4>. QED
        BY <2>2, <2>3, <3>1
    <3>. QED
      BY <3>1, <3>2
  <2>. QED
    BY <1>1, <2>3, <2>4, AnswerIsLowest
<1>. QED
  BY <1>1, <1>2 DEF AnswersLowest

\* common-repost answers, for two reposts of a post, the lowest node of the tree
\* that has both below it or is one of them (compute_lca, get_common_repost).
THEOREM CommonRepostAlwaysLowest == Spec => []CommonRepostIsLowest
<1>1. PostsInv => CommonRepostIsLowest
  <2>1. SUFFICES ASSUME PostsInv, NEW p \in Posted, NEW a \in Reposts(p), NEW b \in Reposts(p)
                 PROVE  LET c == ComputeLca(p, a, b)
                        IN  /\ {a, b} \subseteq Descendants(c)
                            /\ \A n \in Descendants(p) :
                                 {a, b} \subseteq Descendants(n) => c \in Descendants(n)
    BY Zenon DEF CommonRepostIsLowest
  <2>2. KidsAbove /\ OneParent /\ \A n \in Ids : Ascending(children[n])
    BY <2>1 DEF PostsInv, RepostsHang
  <2>3. p \in Ids
    BY <2>1, PostedAre DEF PostsInv
  <2>4. {a, b} \subseteq Descendants(p) /\ a \in Ids /\ b \in Ids
    BY <2>2, <2>3, DescendantsLevel DEF Reposts
  <2>5. Lowest(p, {a, b}, ComputeLca(p, a, b))
    BY <2>2, <2>3, <2>4, ComputeLcaIsLowest
  <2>. QED
    BY <2>4, <2>5 DEF Lowest
<1>2. Init => PostsInv
  BY PostsInvInit DEF Init
<1>3. PostsInv /\ [Next]_vars => PostsInv'
  BY PostsStep, PostsInvNext
<1>. QED
  BY <1>1, <1>2, <1>3, PTL DEF Spec

-----------------------------------------------------------------------------
\* The likes of the post itself.
OwnLikes(p) == postList[Position(p)].likes

\* The post of a number is where that number is.
LEMMA OwnLikesAre ==
  PostsInv => \A p \in Ids : \A k \in DOMAIN postList :
                 postList[k].postId = p => OwnLikes(p) = postList[k].likes
<1>. SUFFICES ASSUME PostsInv, NEW p \in Ids, NEW k \in DOMAIN postList, postList[k].postId = p
              PROVE  Position(p) = k
  BY DEF OwnLikes
<1>1. p \in Posted
  BY DEF Posted
<1>2. Position(p) \in DOMAIN postList /\ postList[Position(p)].postId = p
  BY <1>1, PositionIs DEF PostsInv
<1>. QED
  BY <1>2, PostedAre DEF PostsInv

\* The same of the next state.
LEMMA OwnLikesAreThen ==
  PostsInv' => (\A p \in Ids : \A k \in DOMAIN postList :
                  postList[k].postId = p => OwnLikes(p) = postList[k].likes)'
BY OwnLikesAre, PTL

\* The nodes of a tree, in the next state.
LEMMA LevelThen ==
  KidsAbove' => (\A n \in Ids :
     /\ n \in Descendants(n) /\ Descendants(n) \subseteq Ids
     /\ \A c \in Kids(n) : c \in Ids /\ c > n
     /\ \A r \in Descendants(n) : r # n => \E c \in Kids(n) : r \in Descendants(c))'
<1>1. KidsAbove => (\A n \in Ids :
     /\ n \in Descendants(n) /\ Descendants(n) \subseteq Ids
     /\ \A c \in Kids(n) : c \in Ids /\ c > n
     /\ \A r \in Descendants(n) : r # n => \E c \in Kids(n) : r \in Descendants(c))
  <2>. SUFFICES ASSUME KidsAbove, NEW n \in Ids
                PROVE  /\ n \in Descendants(n) /\ Descendants(n) \subseteq Ids
                       /\ \A c \in Kids(n) : c \in Ids /\ c > n
                       /\ \A r \in Descendants(n) : r # n => \E c \in Kids(n) : r \in Descendants(c)
    OBVIOUS
  <2>. QED
    BY DescendantsLevel, KidsAreIds
<1>. QED
  BY <1>1, PTL

\* If the lists gain nothing but some nodes without children, so do the trees.
LEMMA TreesGain ==
  ASSUME KidsAbove, KidsAbove', NEW C,
         \A n \in Ids : Kids(n)' \subseteq Kids(n) \cup C,
         \A n \in Ids \cap C : Kids(n)' = {},
         NEW n \in Ids
  PROVE  Descendants(n)' \subseteq Descendants(n) \cup C
<1>. DEFINE Bad == {m \in Ids : ~(Descendants(m)' \subseteq Descendants(m) \cup C)}
<1>1. SUFFICES ASSUME Bad # {} PROVE FALSE
  OBVIOUS
<1>2. PICK m \in Bad : \A k \in Bad : m >= k
  BY <1>1, ExtremeIds
<1>3. m \in Ids /\ m \in Nat /\ ~(Descendants(m)' \subseteq Descendants(m) \cup C)
  BY IdsAreNumbers
<1>4. PICK r \in Descendants(m)' : r \notin Descendants(m) \cup C
  BY <1>3
<1>5. m \in Descendants(m) /\ r # m
  BY <1>3, <1>4, DescendantsLevel
<1>6. PICK c \in Kids(m)' : r \in Descendants(c)' /\ c \in Ids /\ c > m
  BY <1>3, <1>4, <1>5, LevelThen
<1>7. CASE c \in C
  <2>1. Kids(c)' = {}
    BY <1>6, <1>7
  <2>2. r = c
    BY <1>6, <2>1, LevelThen
  <2>. QED
    BY <1>4, <1>7, <2>2
<1>8. CASE c \notin C
  <2>1. c \in Kids(m)
    BY <1>3, <1>6, <1>8
  <2>2. c \notin Bad
    <3>. HIDE DEF Bad
    <3>. QED
      BY <1>2, <1>3, <1>6, IdsAreNumbers
  <2>3. r \in Descendants(c) \cup C
    BY <1>6, <2>2
  <2>4. Descendants(c) \subseteq Descendants(m)
    BY <1>3, <2>1, DescendantsLevel
  <2>. QED
    BY <1>4, <2>3, <2>4
<1>. QED
  BY <1>7, <1>8

\* The reposts of a post exist.
LEMMA RepostsAre ==
  PostsInv => \A p \in Ids : p \in Posted =>
     /\ IsFiniteSet(Reposts(p)) /\ Reposts(p) \subseteq Living
     /\ \A r \in Reposts(p) : reposts[r] \in RepostData /\ reposts[r].likes \in Uint
<1>. SUFFICES ASSUME PostsInv, NEW p \in Posted
              PROVE  /\ IsFiniteSet(Reposts(p)) /\ Reposts(p) \subseteq Living
                     /\ \A r \in Reposts(p) : reposts[r] \in RepostData /\ reposts[r].likes \in Uint
  OBVIOUS
<1>1. Reposts(p) \subseteq Living
  BY FoundIsLiving DEF Reposts
<1>2. Living \subseteq 1 .. MaxPosts - 1 /\ IsFiniteSet(1 .. MaxPosts - 1)
  BY IdsAreNumbers, FS_Interval DEF Living, Ids
<1>3. \A r \in Living : reposts[r] \in RepostData
  BY DEF Living, PostsInv, RepostsHang
<1>4. \A d \in RepostData : d.likes \in Uint
  BY DEF RepostData
<1>5. IsFiniteSet(Reposts(p))
  BY <1>1, <1>2, FS_Subset
<1>. QED
  BY <1>1, <1>3, <1>4, <1>5

\* The same of the next state.
LEMMA RepostsAreThen ==
  PostsInv' => (\A p \in Ids : p \in Posted =>
     /\ IsFiniteSet(Reposts(p)) /\ Reposts(p) \subseteq Living
     /\ \A r \in Reposts(p) : reposts[r] \in RepostData /\ reposts[r].likes \in Uint)'
BY RepostsAre, PTL

\* The same lists make the same trees.
LEMMA SameLists ==
  ASSUME children' = children
  PROVE  \A n \in Ids : Descendants(n)' = Descendants(n) /\ Reposts(n)' = Reposts(n)
BY DEF Reposts, Descendants, Preorder

\* A post that stands where it stood has the likes that stand there.
LEMMA OwnLikesKept ==
  ASSUME PostsInv, PostsInv', NEW k \in DOMAIN postList, k \in DOMAIN postList',
         NEW p \in Posted, postList[k].postId = p, postList'[k].postId = p
  PROVE  OwnLikes(p) = postList[k].likes /\ OwnLikes(p)' = postList'[k].likes
<1>1. p \in Ids
  BY PostedAre DEF PostsInv
<1>. QED
  BY <1>1, OwnLikesAre, OwnLikesAreThen

\* Where every post of before keeps its place and its likes.
LEMMA AllOwnLikesKept ==
  ASSUME PostsInv, PostsInv', DOMAIN postList \subseteq DOMAIN postList',
         \A k \in DOMAIN postList : /\ postList'[k].postId = postList[k].postId
                                    /\ postList'[k].likes = postList[k].likes
  PROVE  \A p \in Posted : p \in Posted' /\ OwnLikes(p)' = OwnLikes(p)
<1>. TAKE p \in Posted
<1>1. PICK k \in DOMAIN postList : postList[k].postId = p
  BY DEF Posted
<1>2. k \in DOMAIN postList' /\ postList'[k].postId = p
  BY <1>1
<1>3. p \in Posted'
  BY <1>2 DEF Posted
<1>. QED
  BY <1>1, <1>2, <1>3, OwnLikesKept

-----------------------------------------------------------------------------
\* The turns of a feed, as a function from 0.
FeedStart == [last |-> Unseen, posts |-> <<>>]

LEMMA FeedTurnsExist ==
  ASSUME NEW u, NEW n \in Nat
  PROVE  \E K : /\ K[0] = FeedStart
                /\ \A i \in 1 .. n : K[i] = FeedTurn(u, K[i - 1])
                /\ Feed(u, n) = K[n].posts
<1>. DEFINE Val(K, i) == IF i = 0 THEN FeedStart ELSE FeedTurn(u, K[i - 1])
            Good(m, K) == /\ K = [i \in 0 .. m |-> K[i]]
                          /\ \A i \in 0 .. m : K[i] = Val(K, i)
            Bad == {m \in 0 .. n : ~ \E K : Good(m, K)}
<1>2. Bad = {}
  <2>1. SUFFICES ASSUME Bad # {} PROVE FALSE
    OBVIOUS
  <2>2. Bad \in SUBSET Nat
    OBVIOUS
  <2>3. PICK m \in Bad : \A k \in Bad : m <= k
    BY <2>1, <2>2, LeastExists
  <2>4. m \in 0 .. n /\ ~ \E K : Good(m, K)
    BY <2>3
  <2>5. CASE m = 0
    <3>. DEFINE K == [i \in 0 .. 0 |-> FeedStart]
    <3>1. Good(0, K)
      OBVIOUS
    <3>. QED
      BY <2>4, <2>5, <3>1
  <2>6. CASE m # 0
    <3>1. m - 1 \in 0 .. n /\ ~(m <= m - 1) /\ m - 1 \in Nat
      BY <2>4, <2>6
    <3>2. PICK K : Good(m - 1, K)
      BY <2>3, <3>1
    <3>. DEFINE L == [i \in 0 .. m |-> IF i = m THEN Val(K, m) ELSE K[i]]
    <3>3. ASSUME NEW i \in 0 .. m PROVE L[i] = Val(L, i)
      <4>1. i \in Int /\ i <= m /\ i >= 0 /\ m \in Int
        BY <2>4
      <4>2. CASE i = 0
        <5>1. 0 \in 0 .. m - 1 /\ 0 \in 0 .. m /\ m # 0
          BY <2>6, <3>1
        <5>2. L[0] = K[0]
          BY <5>1
        <5>3. K[0] = FeedStart
          BY <3>2, <5>1
        <5>. HIDE DEF L
        <5>. QED
          BY <4>2, <5>2, <5>3
      <4>3. CASE i # 0
        <5>1. i - 1 \in 0 .. m /\ i - 1 # m /\ i - 1 \in 0 .. m - 1
          BY <4>1, <4>3
        <5>2. L[i - 1] = K[i - 1]
          BY <5>1
        <5>3. L[i] = Val(K, i)
          <6>1. CASE i = m
            BY <6>1
          <6>2. CASE i # m
            <7>1. i \in 0 .. m - 1
              BY <4>1, <6>2
            <7>. QED
              BY <3>2, <6>2, <7>1
          <6>. QED
            BY <6>1, <6>2
        <5>. HIDE DEF L
        <5>. QED
          BY <4>3, <5>2, <5>3
      <4>. QED
        BY <4>2, <4>3
    <3>4. Good(m, L)
      <4>. L = [i \in 0 .. m |-> L[i]]
        OBVIOUS
      <4>. HIDE DEF L
      <4>. QED
        BY <3>3
    <3>. QED
      BY <2>4, <3>4
  <2>. QED
    BY <2>5, <2>6
<1>3. PICK K : Good(n, K)
  BY <1>2
<1>. DEFINE F == CHOOSE F : F = [i \in 0 .. n |-> Val(F, i)]
<1>4. \E G : G = [i \in 0 .. n |-> Val(G, i)]
  <2>1. [i \in 0 .. n |-> K[i]] = [i \in 0 .. n |-> Val(K, i)]
    BY <1>3
  <2>. QED
    BY <1>3, <2>1
<1>5. F = [i \in 0 .. n |-> Val(F, i)]
  BY <1>4
<1>6. Feed(u, n) = F[n].posts
  BY DEF Feed, FeedStart
<1>. HIDE DEF F
<1>7. \A i \in 0 .. n : F[i] = Val(F, i)
  BY <1>5
<1>8. F[0] = FeedStart
  <2>. 0 \in 0 .. n
    OBVIOUS
  <2>. QED
    BY <1>7
<1>9. ASSUME NEW i \in 1 .. n
      PROVE  F[i] = FeedTurn(u, F[i - 1])
  <2>. i \in 0 .. n /\ i # 0
    OBVIOUS
  <2>. QED
    BY <1>7
<1>. QED
  BY <1>6, <1>8, <1>9

\* What a feed shows after k turns, of the posts D: the newest, in descending order.
ShownBy(t, D, k) ==
  /\ t.last \in Nat
  /\ t.posts \in Seq(D)
  /\ \A i, j \in DOMAIN t.posts : i < j => t.posts[i] > t.posts[j]
  /\ \A p \in D : p \in ToSet(t.posts) <=> p >= t.last
  /\ Len(t.posts) = IF k < Cardinality(D) THEN k ELSE Cardinality(D)

\* A sequence in descending order has as many elements as it shows.
LEMMA DescendingLength ==
  ASSUME NEW D \in SUBSET Nat, NEW s \in Seq(D), \A i, j \in DOMAIN s : i < j => s[i] > s[j]
  PROVE  IsFiniteSet(ToSet(s)) /\ Cardinality(ToSet(s)) = Len(s)
<1>1. Len(s) \in Nat /\ DOMAIN s = 1 .. Len(s) /\ \A i \in 1 .. Len(s) : s[i] \in Nat
  BY IndicesOfSeq, ElementOfSeq
<1>2. \A i, j \in 1 .. Len(s) : s[i] = s[j] => i = j
  BY <1>1
<1>3. IsInjective(s)
  BY <1>1, <1>2 DEF IsInjective
<1>. QED
  BY <1>3, InjectiveLength

\* A turn shows the next one, if there is one.
LEMMA FeedTurnShows ==
  ASSUME NEW u, NEW n \in Nat, Shown(u) \subseteq 1 .. n, NEW t, NEW k \in Nat,
         ShownBy(t, Shown(u), k)
  PROVE  ShownBy(FeedTurn(u, t), Shown(u), k + 1)
<1>. DEFINE D == Shown(u)
            s == t.posts
            older == {p \in D : p < t.last}
            newest == Max({0} \cup older)
            c == Cardinality(D)
<1>1. /\ t.last \in Nat /\ s \in Seq(D)
      /\ \A i, j \in DOMAIN s : i < j => s[i] > s[j]
      /\ \A p \in D : p \in ToSet(s) <=> p >= t.last
      /\ Len(s) = IF k < c THEN k ELSE c
      /\ D \in SUBSET (1 .. n) /\ D \in SUBSET Nat
  BY DEF ShownBy
<1>2. newest \in {0} \cup older /\ \A p \in older : newest >= p
  <2>. DEFINE T == {0} \cup older
  <2>1. T \in SUBSET (0 .. n) /\ T # {}
    BY <1>1
  <2>. HIDE DEF T, older
  <2>2. Max(T) \in T /\ \A p \in T : Max(T) >= p
    BY <2>1, MaxIsGreatest
  <2>. QED
    BY <2>2 DEF T
<1>3. FeedTurn(u, t) = [last |-> newest, posts |-> IF newest = 0 THEN s ELSE Append(s, newest)]
  BY DEF FeedTurn
<1>4. IsFiniteSet(D) /\ c \in Nat
  <2>1. IsFiniteSet(1 .. n)
    BY FS_Interval
  <2>2. IsFiniteSet(D)
    BY <1>1, <2>1, FS_Subset
  <2>. QED
    BY <2>2, FS_CardinalityType
<1>5. /\ IsFiniteSet(ToSet(s)) /\ Cardinality(ToSet(s)) = Len(s) /\ ToSet(s) \subseteq D
      /\ Len(s) \in Nat /\ DOMAIN s = 1 .. Len(s) /\ ToSet(s) = {s[i] : i \in 1 .. Len(s)}
  BY <1>1, DescendingLength, IndicesOfSeq
<1>. HIDE DEF D, c, s, newest
<1>6. CASE newest = 0
  <2>1. \A p \in D : p >= t.last
    <3>. TAKE p \in D
    <3>1. p \in Nat /\ p >= 1
      BY <1>1
    <3>. QED
      BY <1>1, <1>2, <1>6, <3>1
  <2>2. ToSet(s) = D
    BY <1>1, <1>5, <2>1
  <2>3. Len(s) = c
    BY <1>5, <2>2 DEF c
  <2>4. Len(s) = IF k + 1 < c THEN k + 1 ELSE c
    BY <1>1, <1>4, <2>3
  <2>5. \A p \in D : p \in ToSet(s) <=> p >= newest
    BY <1>1, <1>6, <2>2
  <2>. QED
    BY <1>1, <1>3, <1>6, <2>4, <2>5 DEF ShownBy, D, c
<1>7. CASE newest # 0
  <2>1. newest \in D /\ newest < t.last /\ newest \in Nat
    BY <1>1, <1>2, <1>7
  <2>2. newest \notin ToSet(s)
    BY <1>1, <2>1
  <2>3. /\ Append(s, newest) \in Seq(D) /\ ToSet(Append(s, newest)) = ToSet(s) \cup {newest}
        /\ Len(Append(s, newest)) = Len(s) + 1
        /\ \A i \in 1 .. Len(s) : Append(s, newest)[i] = s[i]
        /\ Append(s, newest)[Len(s) + 1] = newest
    BY <1>1, <2>1, PushBack, AppendProperties
  <2>. DEFINE r == Append(s, newest)
              l == Len(s)
  <2>4. DOMAIN r = 1 .. l + 1
    BY <2>3, LenProperties
  <2>. HIDE DEF r, l
  <2>5. ASSUME NEW i \in DOMAIN r, NEW j \in DOMAIN r, i < j PROVE r[i] > r[j]
    <3>1. l \in Nat /\ i \in 1 .. l /\ (j \in 1 .. l \/ j = l + 1)
      <4>1. l \in Nat
        BY <1>5 DEF l
      <4>2. i \in 1 .. l + 1 /\ j \in 1 .. l + 1
        BY <2>4
      <4>. QED
        BY <2>5, <4>1, <4>2
    <3>2. s[i] \in ToSet(s) /\ s[i] \in D
      BY <1>5, <3>1 DEF l
    <3>3. s[i] >= t.last /\ s[i] \in Nat
      BY <1>1, <3>2
    <3>4. r[i] = s[i]
      BY <2>3, <3>1 DEF r, l
    <3>5. CASE j \in 1 .. l
      BY <1>1, <1>5, <2>3, <2>5, <3>1, <3>5 DEF r, l
    <3>6. CASE j = l + 1
      <4>1. r[j] = newest
        BY <2>3, <3>6 DEF r, l
      <4>. QED
        BY <1>1, <2>1, <3>3, <3>4, <4>1
    <3>. QED
      BY <3>1, <3>5, <3>6
  <2>6. \A p \in D : p \in ToSet(r) <=> p >= newest
    <3>. TAKE p \in D
    <3>1. p \in Nat /\ (p \in ToSet(s) <=> p >= t.last)
      BY <1>1
    <3>2. p < t.last => p <= newest
      BY <1>2, <2>1
    <3>3. p \in ToSet(r) <=> p >= t.last \/ p = newest
      BY <2>3, <3>1 DEF r
    <3>. QED
      BY <1>1, <2>1, <3>1, <3>2, <3>3
  <2>7. l = k /\ k < c
    <3>1. ToSet(s) \subseteq D \ {newest}
      BY <1>5, <2>2
    <3>2. IsFiniteSet(D \ {newest}) /\ Cardinality(D \ {newest}) = c - 1
      BY <1>4, <2>1, OneElementLess DEF c
    <3>3. Cardinality(ToSet(s)) <= c - 1
      BY <3>1, <3>2, FS_Subset
    <3>. QED
      BY <1>1, <1>4, <1>5, <3>3 DEF l
  <2>8. Len(r) = IF k + 1 < c THEN k + 1 ELSE c
    BY <1>4, <2>3, <2>7 DEF r, l
  <2>9. FeedTurn(u, t) = [last |-> newest, posts |-> r]
    BY <1>3, <1>7 DEF r
  <2>. QED
    BY <2>1, <2>3, <2>5, <2>6, <2>8, <2>9 DEF ShownBy, D, c, r
<1>. QED
  BY <1>6, <1>7

\* A feed shows the newest posts that there are to show.
LEMMA FeedShows ==
  ASSUME PostsInv, NEW u, NEW n \in Nat
  PROVE  \E t : ShownBy(t, Shown(u), n) /\ Feed(u, n) = t.posts
<1>. DEFINE D == Shown(u)
<1>1. D \subseteq Ids /\ D \subseteq 1 .. MaxPosts - 1 /\ MaxPosts - 1 \in Nat
  BY PostedAre, IdsAreNumbers DEF PostsInv, Shown, Posted, Ids
<1>2. PICK K : /\ K[0] = FeedStart
               /\ \A i \in 1 .. n : K[i] = FeedTurn(u, K[i - 1])
               /\ Feed(u, n) = K[n].posts
  BY FeedTurnsExist
<1>3. ShownBy(FeedStart, D, 0)
  <2>1. IsFiniteSet(D) /\ Cardinality(D) \in Nat
    <3>1. IsFiniteSet(1 .. MaxPosts - 1)
      BY <1>1, FS_Interval
    <3>2. IsFiniteSet(D)
      BY <1>1, <3>1, FS_Subset
    <3>. QED
      BY <3>2, FS_CardinalityType
  <2>2. \A p \in D : ~(p >= Unseen)
    BY <1>1, IdsAreNumbers, SocialMediaAssumption DEF Unseen
  <2>3. <<>> \in Seq(D) /\ Len(<<>>) = 0 /\ ToSet(<<>>) = {}
    BY EmptySeq DEF ToSet
  <2>4. FeedStart.last = Unseen /\ FeedStart.posts = <<>> /\ Unseen \in Nat
    BY DEF FeedStart, Unseen
  <2>. HIDE DEF D
  <2>5. Len(<<>>) = IF 0 < Cardinality(D) THEN 0 ELSE Cardinality(D)
    BY <2>1, <2>3
  <2>. QED
    BY <2>2, <2>3, <2>4, <2>5 DEF ShownBy
<1>. DEFINE Bad == {k \in 0 .. n : ~ShownBy(K[k], D, k)}
<1>4. Bad = {}
  <2>1. SUFFICES ASSUME Bad # {} PROVE FALSE
    OBVIOUS
  <2>2. Bad \in SUBSET Nat
    OBVIOUS
  <2>3. PICK k \in Bad : \A j \in Bad : k <= j
    BY <2>1, <2>2, LeastExists
  <2>4. k \in 0 .. n /\ ~ShownBy(K[k], D, k)
    BY <2>3
  <2>5. k # 0
    BY <1>2, <1>3, <2>4
  <2>6. k - 1 \in 0 .. n /\ ~(k <= k - 1) /\ k - 1 \in Nat /\ k \in 1 .. n /\ k - 1 + 1 = k
    BY <2>4, <2>5
  <2>7. ShownBy(K[k - 1], D, k - 1)
    BY <2>3, <2>6
  <2>8. K[k] = FeedTurn(u, K[k - 1])
    BY <1>2, <2>6
  <2>9. ShownBy(FeedTurn(u, K[k - 1]), D, k - 1 + 1)
    BY <1>1, <2>6, <2>7, FeedTurnShows
  <2>. QED
    BY <2>4, <2>6, <2>8, <2>9
<1>5. ShownBy(K[n], D, n)
  <2>. n \in 0 .. n
    OBVIOUS
  <2>. QED
    BY <1>4
<1>. QED
  BY <1>2, <1>5

\* The lines of a profile.
Entry(how, p) == [kind |-> how, post |-> p]

Entries == {Entry(how, p) : how \in {"Posted", "Reposted"}, p \in Ids}

\* What the profile of u says of the post at position i.
ProfileOf(u, i) ==
  (IF postList[i].owner = u THEN <<Entry("Posted", postList[i].postId)>> ELSE <<>>)
  \o [k \in 1 .. Cardinality({r \in Reposts(postList[i].postId) : reposts[r].user = u}) |->
        Entry("Reposted", postList[i].postId)]

\* A sequence of one element that is repeated.
LEMMA Repeated ==
  ASSUME NEW S, NEW e \in S, NEW n \in Nat
  PROVE  /\ [k \in 1 .. n |-> e] \in Seq(S)
         /\ \A x : x \in ToSet([k \in 1 .. n |-> e]) <=> x = e /\ n # 0
<1>. DEFINE s == [k \in 1 .. n |-> e]
<1>1. s \in [1 .. n -> S]
  OBVIOUS
<1>2. s \in Seq(S)
  BY <1>1, SeqDef
<1>3. ToSet(s) = {s[i] : i \in 1 .. n}
  BY DEF ToSet
<1>4. n # 0 => 1 \in 1 .. n
  OBVIOUS
<1>. QED
  BY <1>2, <1>3, <1>4

\* It names the post if u wrote it and if u reposted it.
LEMMA ProfileOfIs ==
  ASSUME PostsInv, NEW u, NEW i \in DOMAIN postList
  PROVE  /\ ProfileOf(u, i) \in Seq(Entries)
         /\ \A e : e \in ToSet(ProfileOf(u, i)) <=>
              \/ e = Entry("Posted", postList[i].postId) /\ postList[i].owner = u
              \/ /\ e = Entry("Reposted", postList[i].postId)
                 /\ HasReposted(postList[i].postId, u)
<1>. DEFINE p == postList[i].postId
            R == {r \in Reposts(p) : reposts[r].user = u}
            a == IF postList[i].owner = u THEN <<Entry("Posted", p)>> ELSE <<>>
            b == [k \in 1 .. Cardinality(R) |-> Entry("Reposted", p)]
<1>1. p \in Posted /\ p \in Ids
  BY PostedAre DEF PostsInv
<1>2. Entry("Posted", p) \in Entries /\ Entry("Reposted", p) \in Entries
  BY <1>1 DEF Entries
<1>3. Cardinality(R) \in Nat /\ (Cardinality(R) # 0 <=> HasReposted(p, u))
  <2>1. IsFiniteSet(R)
    BY <1>1, RepostsAre, FS_Subset
  <2>2. Cardinality(R) \in Nat /\ (Cardinality(R) = 0 <=> R = {})
    BY <2>1, FS_CardinalityType, FS_EmptySet
  <2>. QED
    BY <2>2 DEF HasReposted
<1>. HIDE DEF R
<1>4. a \in Seq(Entries) /\ \A e : e \in ToSet(a) <=> e = Entry("Posted", p) /\ postList[i].owner = u
  <2>1. <<Entry("Posted", p)>> \in Seq(Entries) /\ <<>> \in Seq(Entries)
    BY <1>2
  <2>2. ToSet(<<Entry("Posted", p)>>) = {Entry("Posted", p)} /\ ToSet(<<>>) = {}
    BY DEF ToSet
  <2>. QED
    BY <2>1, <2>2
<1>5. b \in Seq(Entries) /\ \A e : e \in ToSet(b) <=> e = Entry("Reposted", p) /\ HasReposted(p, u)
  <2>. DEFINE d == Entry("Reposted", p)
              n == Cardinality(R)
  <2>1. d \in Entries /\ n \in Nat
    BY <1>2, <1>3
  <2>. HIDE DEF d, n
  <2>2. /\ [k \in 1 .. n |-> d] \in Seq(Entries)
        /\ \A e : e \in ToSet([k \in 1 .. n |-> d]) <=> e = d /\ n # 0
    BY <2>1, Repeated
  <2>. QED
    BY <1>3, <2>2 DEF d, n
<1>6. ProfileOf(u, i) = a \o b
  BY DEF ProfileOf, R
<1>. HIDE DEF a, b
<1>7. a \o b \in Seq(Entries) /\ ToSet(a \o b) = ToSet(a) \cup ToSet(b)
  BY <1>4, <1>5, ConcatElements
<1>. QED
  BY <1>4, <1>5, <1>6, <1>7

\* A profile names the posts that u wrote and those that u reposted.
LEMMA UserProfileIs ==
  ASSUME PostsInv, NEW u, NEW p
  PROVE  /\ Entry("Posted", p) \in ToSet(UserProfile(u)) <=>
              \E i \in DOMAIN postList : postList[i].postId = p /\ postList[i].owner = u
         /\ Entry("Reposted", p) \in ToSet(UserProfile(u)) <=>
              p \in Posted /\ HasReposted(p, u)
<1>. DEFINE n == Len(postList)
            ss == [i \in DOMAIN postList |-> ProfileOf(u, i)]
<1>1. n \in Nat /\ DOMAIN postList = 1 .. n
  BY PostedAre DEF PostsInv
<1>2. UserProfile(u) = FlattenSeq(ss)
  BY DEF UserProfile, ProfileOf, Entry
<1>3. /\ DOMAIN ss = 1 .. n /\ ss = [i \in 1 .. n |-> ss[i]]
      /\ \A i \in 1 .. n : ss[i] = ProfileOf(u, i)
  BY <1>1
<1>4. \A i \in 1 .. n : /\ ss[i] \in Seq(Entries)
        /\ \A e : e \in ToSet(ss[i]) <=>
             \/ e = Entry("Posted", postList[i].postId) /\ postList[i].owner = u
             \/ /\ e = Entry("Reposted", postList[i].postId)
                /\ HasReposted(postList[i].postId, u)
  <2>. TAKE i \in 1 .. n
  <2>1. i \in DOMAIN postList
    BY <1>1
  <2>2. ss[i] = ProfileOf(u, i)
    BY <1>3
  <2>. HIDE DEF ss, n
  <2>. QED
    BY <2>1, <2>2, ProfileOfIs
<1>. HIDE DEF ss, n
<1>5. ss \in Seq({ss[i] : i \in 1 .. n}) /\ Len(ss) = n
  BY <1>1, <1>3, FunctionIsSeq
<1>6. n = 0 => ss = <<>>
  BY <1>5, EmptySeq
<1>7. ToSet(FlattenSeq(ss)) = UNION {ToSet(ss[i]) : i \in 1 .. n}
  BY <1>1, <1>4, <1>5, <1>6, FlattenElements
<1>8. \A e : e \in ToSet(UserProfile(u)) <=> \E i \in DOMAIN postList :
             \/ e = Entry("Posted", postList[i].postId) /\ postList[i].owner = u
             \/ /\ e = Entry("Reposted", postList[i].postId)
                /\ HasReposted(postList[i].postId, u)
  <2>. TAKE e
  <2>1. e \in ToSet(UserProfile(u)) <=> \E i \in 1 .. n : e \in ToSet(ss[i])
    BY <1>2, <1>7
  <2>. QED
    BY <1>1, <1>4, <2>1, Zenon
<1>9. \A q, r : /\ Entry("Posted", q) # Entry("Reposted", r)
                /\ Entry("Posted", q) = Entry("Posted", r) => q = r
                /\ Entry("Reposted", q) = Entry("Reposted", r) => q = r
  BY DEF Entry
<1>. QED
  BY <1>8, <1>9 DEF Posted

\* A feed may show what the profiles of u and of the friends say they posted.
LEMMA ShownIs ==
  ASSUME PostsInv, NEW u, NEW p
  PROVE  p \in Shown(u) <=> \E v \in {u} \cup ToSet(friendsOf[u]) :
                              Entry("Posted", p) \in ToSet(UserProfile(v))
<1>1. p \in Shown(u) <=> \E i \in DOMAIN postList : /\ postList[i].postId = p
         /\ postList[i].owner \in {u} \cup ToSet(friendsOf[u])
  BY DEF Shown, IsMyFriend
<1>2. \A v : Entry("Posted", p) \in ToSet(UserProfile(v)) <=>
         \E i \in DOMAIN postList : postList[i].postId = p /\ postList[i].owner = v
  BY UserProfileIs
<1>. QED
  BY <1>1, <1>2

\* A feed of n posts is what the profiles allow.
FeedAgrees(u, n) ==
  LET shown == Feed(u, n)
  IN  /\ \A i, j \in DOMAIN shown : i < j => shown[i] > shown[j]
      /\ Len(shown) = IF n < Cardinality(Shown(u)) THEN n ELSE Cardinality(Shown(u))
      /\ \A p \in Posted : \A i \in DOMAIN shown :
           \/ p \in ToSet(shown) \/ p < shown[i]
           \/ \A v \in {u} \cup ToSet(friendsOf[u]) :
                Entry("Posted", p) \notin ToSet(UserProfile(v))
      /\ \A i \in DOMAIN shown : \E v \in {u} \cup ToSet(friendsOf[u]) :
           Entry("Posted", shown[i]) \in ToSet(UserProfile(v))

LEMMA FeedAgreesWithProfiles ==
  ASSUME PostsInv, NEW u, NEW n \in Nat
  PROVE  FeedAgrees(u, n)
<1>1. PICK t : ShownBy(t, Shown(u), n) /\ Feed(u, n) = t.posts
  BY FeedShows
<1>. DEFINE D == Shown(u)
            s == t.posts
<1>2. /\ t.last \in Nat /\ s \in Seq(D)
      /\ \A i, j \in DOMAIN s : i < j => s[i] > s[j]
      /\ \A p \in D : p \in ToSet(s) <=> p >= t.last
      /\ Len(s) = IF n < Cardinality(D) THEN n ELSE Cardinality(D)
  BY <1>1 DEF ShownBy
<1>3. \A i \in DOMAIN s : s[i] \in D /\ s[i] \in ToSet(s)
  BY <1>2, ElementOfSeq DEF ToSet
<1>4. D \subseteq Nat /\ Posted \subseteq Nat
  BY PostedAre, IdsAreNumbers DEF PostsInv, Shown, Posted
<1>5. \A p : p \in D <=> \E v \in {u} \cup ToSet(friendsOf[u]) :
                           Entry("Posted", p) \in ToSet(UserProfile(v))
  BY ShownIs
<1>. HIDE DEF D, s
<1>6. ASSUME NEW p \in Posted, NEW i \in DOMAIN s
      PROVE  p \in ToSet(s) \/ p < s[i] \/ p \notin D
  <2>1. s[i] >= t.last /\ s[i] \in Nat /\ p \in Nat /\ t.last \in Nat
    BY <1>2, <1>3, <1>4
  <2>2. p >= s[i] => p >= t.last
    BY <2>1
  <2>. QED
    BY <1>2, <2>1, <2>2
<1>7. Feed(u, n) = s
  BY <1>1 DEF s
<1>8. Len(s) = IF n < Cardinality(Shown(u)) THEN n ELSE Cardinality(Shown(u))
  BY <1>2 DEF D
<1>. QED
  BY <1>2, <1>3, <1>5, <1>6, <1>7, <1>8 DEF FeedAgrees

\* "friends-repost" names the friends who reposted.
LEMMA FriendsRepostsAre ==
  ASSUME FriendsInv, NEW u \in Users, NEW p
  PROVE  \A f \in Users : f \in ToSet(FriendsReposts(u, p)) <=>
                            IsMyFriend(u, f) /\ HasReposted(p, f)
<1>1. friendsOf[u] \in Seq(Users)
  BY DEF FriendsInv, Mutual, FriendList
<1>. DEFINE T == {f \in Users : HasReposted(p, f)}
<1>2. ToSet(Keep(friendsOf[u], T)) = ToSet(friendsOf[u]) \cap T
  <2>. HIDE DEF T
  <2>. QED
    BY <1>1, KeepProperties
<1>. QED
  BY <1>2 DEF FriendsReposts, IsMyFriend

LEMMA FeedsDoAgree ==
  ASSUME FriendsInv, PostsInv
  PROVE  FeedsAgree
<1>1. ASSUME NEW u \in Users, NEW n \in FeedSizes
      PROVE  FeedAgrees(u, n)
  BY FeedAgreesWithProfiles, SocialMediaAssumption
<1>2. ASSUME NEW u \in Users, NEW p \in Posted, NEW f \in Users
      PROVE  f \in ToSet(FriendsReposts(u, p)) <=>
               IsMyFriend(u, f) /\ Entry("Reposted", p) \in ToSet(UserProfile(f))
  BY <1>2, FriendsRepostsAre, UserProfileIs
<1>. QED
  BY <1>1, <1>2, Zenon DEF FeedsAgree, FeedAgrees, Entry

\* Every step keeps the network in order, also those of the other commands.
LEMMA FriendsStep ==
  ASSUME FriendsInv, [Next]_vars
  PROVE  FriendsInv'
<1>1. CASE FriendsNext
  BY <1>1, FriendsInvNext
<1>2. ASSUME UNCHANGED friendsVars, running' \in BOOLEAN
      PROVE  FriendsInv'
  BY <1>2 DEF friendsVars, FriendsInv, Mutual, Searching
<1>3. CASE PostsNext /\ UNCHANGED friendsVars
  <2>1. running \in BOOLEAN /\ running' \in {running, FALSE}
    BY <1>3 DEF FriendsInv, PostsNext, CreatePost, CreateRepost, Like, CommonRepost,
                DeleteRepost, DeletePost, Die
  <2>. QED
    BY <1>2, <1>3, <2>1
<1>4. ASSUME NEW p \in Ids, FriendsRepostsOfNothing(p)
      PROVE  FriendsInv'
  BY <1>2, <1>4 DEF FriendsRepostsOfNothing, Die
<1>5. CASE UNCHANGED vars
  BY <1>2, <1>5 DEF vars, FriendsInv
<1>. QED
  BY <1>1, <1>3, <1>4, <1>5 DEF Next

\* A feed shows the newest posts of the user and of friends, and names what their
\* profiles name, as friends-repost does (compute_user_feed, compute_user_profile,
\* compute_friends_reposts).
THEOREM FeedsAlwaysAgree == Spec => []FeedsAgree
<1>1. Init => FriendsInv /\ PostsInv
  BY FriendsInvInit, PostsInvInit DEF Init, NetworkInit
<1>2. FriendsInv /\ [Next]_vars => FriendsInv'
  BY FriendsStep
<1>3. PostsInv /\ [Next]_vars => PostsInv'
  BY PostsStep, PostsInvNext
<1>4. FriendsInv /\ PostsInv => FeedsAgree
  BY FeedsDoAgree
<1>. QED
  BY <1>1, <1>2, <1>3, <1>4, PTL DEF Spec

-----------------------------------------------------------------------------
\* The users among U that a search has seen, and how far it takes one to be.
Seen(U, q) == {v \in U : q.elements[v].visited}

Far(q, v) == q.elements[v].distance

\* The distances of those seen are levels of the search; the others have none,
\* but for the last user, who has what was left over.
Levelled(U, q) ==
  /\ \A v \in Seen(U, q) :
       /\ Far(q, v) \in 0 .. UsersNumber - 1
       /\ \A n \in 0 .. UsersNumber : v \in Within(U, q.source)[n] <=> Far(q, v) <= n
  /\ \A v \in U \ Seen(U, q) : v = LastUser \/ Far(q, v) = Unreached
  /\ \A v \in Users \ U : q.elements[v].visited

\* The queue is in the order of the distances, which differ by 1 at most.
InQueue(q) ==
  \A i, j \in DOMAIN q.queue :
    /\ i < j => Far(q, q.queue[i]) <= Far(q, q.queue[j])
    /\ Far(q, q.queue[j]) <= Far(q, q.queue[1]) + 1

\* Of the users served, all friends were seen, and of the level of the first user
\* of the queue everybody.
Served(U, q) ==
  /\ \A v \in Seen(U, q) \ ToSet(q.queue) : \A w \in U : IsMyFriend(v, w) => w \in Seen(U, q)
  /\ q.queue # <<>> => Within(U, q.source)[Far(q, q.queue[1])] \subseteq Seen(U, q)

Breadth(U, q) ==
  /\ q.source \in Seen(U, q) /\ ToSet(q.queue) \subseteq Seen(U, q)
  /\ Levelled(U, q) /\ InQueue(q) /\ Served(U, q)

\* A search goes over all users, or overlooks the last one.
SearchInv == search # Nobody => \E U \in {Users, Users \ {LastUser}} : Breadth(U, search)


\* The users at most n friendships from s, as a function of n.
Levels(U, s, L) ==
  /\ L[0] = {s}
  /\ \A n \in 1 .. UsersNumber :
       L[n] = L[n - 1] \cup {v \in U : \E u \in L[n - 1] : IsMyFriend(u, v)}

\* The function that Within recurs on exists.
LEMMA WithinIs ==
  ASSUME NEW U, NEW s
  PROVE  Levels(U, s, Within(U, s))
<1>. DEFINE N == UsersNumber
            Val(K, i) == IF i = 0 THEN {s} ELSE K[i - 1] \cup {v \in U : \E u \in K[i - 1] : IsMyFriend(u, v)}
            Good(m, K) == /\ K = [i \in 0 .. m |-> K[i]]
                          /\ \A i \in 0 .. m : K[i] = Val(K, i)
            Bad == {m \in 0 .. N : ~ \E K : Good(m, K)}
<1>1. N \in Nat
  BY UsersAssumption
<1>2. Bad = {}
  <2>1. SUFFICES ASSUME Bad # {} PROVE FALSE
    OBVIOUS
  <2>2. Bad \in SUBSET Nat
    BY <1>1
  <2>3. PICK m \in Bad : \A k \in Bad : m <= k
    BY <2>1, <2>2, LeastExists
  <2>4. m \in 0 .. N /\ ~ \E K : Good(m, K)
    BY <2>3
  <2>5. CASE m = 0
    <3>. DEFINE K == [i \in 0 .. 0 |-> {s}]
    <3>1. Good(0, K)
      OBVIOUS
    <3>. HIDE DEF K, Good
    <3>. QED
      BY <2>4, <2>5, <3>1
  <2>6. CASE m # 0
    <3>1. m - 1 \in 0 .. N /\ ~(m <= m - 1) /\ m - 1 \in Nat
      BY <1>1, <2>4, <2>6
    <3>2. PICK K : Good(m - 1, K)
      BY <2>3, <3>1
    <3>. DEFINE L == [i \in 0 .. m |-> IF i = m THEN Val(K, m) ELSE K[i]]
    <3>3. ASSUME NEW i \in 0 .. m PROVE L[i] = Val(L, i)
      <4>1. i \in Int /\ i <= m /\ i >= 0 /\ m \in Int
        BY <1>1, <2>4
      <4>2. CASE i = 0
        <5>1. 0 \in 0 .. m - 1 /\ 0 \in 0 .. m /\ m # 0
          BY <1>1, <2>4, <2>6
        <5>2. L[0] = K[0]
          BY <5>1
        <5>3. K[0] = {s}
          BY <3>2, <5>1
        <5>. HIDE DEF L
        <5>. QED
          BY <4>2, <5>2, <5>3
      <4>3. CASE i # 0
        <5>1. i - 1 \in 0 .. m /\ i - 1 # m /\ i - 1 \in 0 .. m - 1
          BY <4>1, <4>3
        <5>2. L[i - 1] = K[i - 1]
          BY <5>1
        <5>3. L[i] = Val(K, i)
          <6>1. CASE i = m
            BY <6>1
          <6>2. CASE i # m
            <7>1. i \in 0 .. m - 1
              BY <4>1, <6>2
            <7>. QED
              BY <3>2, <6>2, <7>1
          <6>. QED
            BY <6>1, <6>2
        <5>. HIDE DEF L
        <5>. QED
          BY <4>3, <5>2, <5>3
      <4>. QED
        BY <4>2, <4>3
    <3>4. Good(m, L)
      <4>. L = [i \in 0 .. m |-> L[i]]
        OBVIOUS
      <4>. HIDE DEF L
      <4>. QED
        BY <3>3
    <3>. QED
      BY <2>4, <3>4
  <2>. QED
    BY <2>5, <2>6
<1>3. PICK K : Good(N, K)
  <2>1. N \in 0 .. N
    BY <1>1
  <2>. HIDE DEF Good
  <2>. QED
    BY <1>2, <2>1
<1>. DEFINE F == CHOOSE F : F = [i \in 0 .. N |-> Val(F, i)]
<1>4. \E G : G = [i \in 0 .. N |-> Val(G, i)]
  <2>1. [i \in 0 .. N |-> K[i]] = [i \in 0 .. N |-> Val(K, i)]
    BY <1>3
  <2>. QED
    BY <1>3, <2>1
<1>5. F = [i \in 0 .. N |-> Val(F, i)]
  BY <1>4
<1>6. Within(U, s) = F
  BY DEF Within
<1>. HIDE DEF F
<1>7. \A i \in 0 .. N : F[i] = Val(F, i)
  BY <1>5
<1>8. F[0] = {s}
  <2>. 0 \in 0 .. N
    BY <1>1
  <2>. QED
    BY <1>7
<1>9. ASSUME NEW i \in 1 .. N
      PROVE  F[i] = F[i - 1] \cup {v \in U : \E u \in F[i - 1] : IsMyFriend(u, v)}
  <2>. i \in 0 .. N /\ i # 0
    BY <1>1
  <2>. QED
    BY <1>7
<1>. QED
  BY <1>6, <1>8, <1>9 DEF Levels

\* What is in a level stays in the next ones.
LEMMA LevelsGrow ==
  ASSUME NEW U \in SUBSET Users, NEW s \in Users, NEW L, Levels(U, s, L)
  PROVE  /\ \A n \in 0 .. UsersNumber : L[n] \subseteq Users
         /\ \A m, n \in 0 .. UsersNumber : m <= n => L[m] \subseteq L[n]
<1>. DEFINE N == UsersNumber
            Bad == {n \in 0 .. N : ~ (L[n] \subseteq Users /\ \A m \in 0 .. n : L[m] \subseteq L[n])}
<1>1. N \in Nat
  BY UsersAssumption
<1>2. Bad = {}
  <2>1. SUFFICES ASSUME Bad # {} PROVE FALSE
    OBVIOUS
  <2>2. Bad \in SUBSET Nat
    BY <1>1
  <2>3. PICK n \in Bad : \A k \in Bad : n <= k
    BY <2>1, <2>2, LeastExists
  <2>4. n \in 0 .. N /\ n \in Bad
    BY <2>3
  <2>5. n # 0
    <3>1. L[0] \subseteq Users /\ \A m \in 0 .. 0 : L[m] \subseteq L[0]
      BY DEF Levels
    <3>. QED
      BY <2>4, <3>1
  <2>6. n - 1 \in 0 .. N /\ ~(n <= n - 1) /\ n \in 1 .. N
    BY <1>1, <2>4, <2>5
  <2>7. L[n - 1] \subseteq Users /\ \A m \in 0 .. n - 1 : L[m] \subseteq L[n - 1]
    BY <2>3, <2>6
  <2>8. L[n - 1] \subseteq L[n] /\ L[n] \subseteq Users
    BY <2>6, <2>7 DEF Levels
  <2>9. \A m \in 0 .. n : m = n \/ m \in 0 .. n - 1
    BY <1>1, <2>4
  <2>. QED
    BY <2>4, <2>7, <2>8, <2>9
<1>. QED
  BY <1>1, <1>2

\* There are no more levels than users: each has somebody new.
LEMMA LevelsAreFew ==
  ASSUME NEW U \in SUBSET Users, NEW s \in Users, NEW L, Levels(U, s, L),
         NEW n \in 1 .. UsersNumber, NEW v \in L[n], v \notin L[n - 1]
  PROVE  n <= UsersNumber - 1
<1>. DEFINE N == UsersNumber
            Grows(k) == Cardinality(L[k]) >= k + 1
            Bad == {k \in 1 .. N : L[k] # L[k - 1] /\ ~Grows(k)}
<1>1. N \in Nat /\ IsFiniteSet(Users) /\ Cardinality(Users) = N
  <2>1. N \in Nat /\ 0 \in Int /\ N - 1 \in Int
    BY UsersAssumption
  <2>2. /\ IsFiniteSet(0 .. N - 1)
        /\ Cardinality(0 .. N - 1) = IF 0 > N - 1 THEN 0 ELSE (N - 1) - 0 + 1
    BY <2>1, FS_Interval
  <2>. QED
    BY <2>1, <2>2 DEF Users
<1>2. \A k \in 0 .. N : L[k] \subseteq Users
  BY LevelsGrow
<1>3. \A k \in 0 .. N : IsFiniteSet(L[k]) /\ Cardinality(L[k]) \in Nat /\ Cardinality(L[k]) <= N
  BY <1>1, <1>2, FS_Subset, FS_CardinalityType
<1>4. Bad = {}
  <2>1. SUFFICES ASSUME Bad # {} PROVE FALSE
    OBVIOUS
  <2>2. Bad \in SUBSET Nat
    BY <1>1
  <2>3. PICK k \in Bad : \A j \in Bad : k <= j
    BY <2>1, <2>2, LeastExists
  <2>4. k \in 1 .. N /\ L[k] # L[k - 1] /\ ~Grows(k) /\ k - 1 \in 0 .. N
    BY <1>1, <2>3
  <2>5. Cardinality(L[k - 1]) >= k
    <3>1. CASE k = 1
      <4>1. L[0] = {s} /\ Cardinality({s}) = 1
        BY FS_Singleton DEF Levels
      <4>. QED
        BY <3>1, <4>1
    <3>2. CASE k # 1
      <4>1. k - 1 \in 1 .. N /\ ~(k <= k - 1) /\ k - 1 \in Nat /\ k - 1 + 1 = k
        BY <1>1, <2>4, <3>2
      <4>2. L[k - 1] # L[k - 1 - 1]
        <5>1. SUFFICES ASSUME L[k - 1] = L[k - 1 - 1] PROVE FALSE
          OBVIOUS
        <5>2. /\ L[k] = L[k - 1] \cup {w \in U : \E u \in L[k - 1] : IsMyFriend(u, w)}
              /\ L[k - 1] = L[k - 1 - 1] \cup {w \in U : \E u \in L[k - 1 - 1] : IsMyFriend(u, w)}
          BY <2>4, <4>1 DEF Levels
        <5>. QED
          BY <2>4, <5>1, <5>2
      <4>3. Grows(k - 1)
        BY <2>3, <4>1, <4>2
      <4>. QED
        BY <4>1, <4>3
    <3>. QED
      BY <3>1, <3>2
  <2>6. L[k - 1] \subseteq L[k]
    BY <2>4 DEF Levels
  <2>7. Cardinality(L[k - 1]) < Cardinality(L[k])
    <3>1. PICK w : w \in L[k] /\ w \notin L[k - 1]
      BY <2>4, <2>6
    <3>2. IsFiniteSet(L[k]) /\ IsFiniteSet(L[k] \ {w}) /\ Cardinality(L[k] \ {w}) = Cardinality(L[k]) - 1
      <4>1. k \in 0 .. N
        BY <1>1, <2>4
      <4>. QED
        BY <1>3, <3>1, <4>1, OneElementLess
    <3>3. L[k - 1] \subseteq L[k] \ {w}
      BY <2>6, <3>1
    <3>4. Cardinality(L[k - 1]) <= Cardinality(L[k] \ {w})
      BY <3>2, <3>3, FS_Subset
    <3>. QED
      <4>1. k \in 0 .. N
        BY <1>1, <2>4
      <4>2. Cardinality(L[k]) \in Nat /\ Cardinality(L[k - 1]) \in Nat
        BY <1>3, <2>4, <4>1
      <4>. QED
        BY <3>2, <3>4, <4>2
  <2>. QED
    <3>1. k \in 0 .. N
      BY <1>1, <2>4
    <3>2. Cardinality(L[k]) \in Nat /\ Cardinality(L[k - 1]) \in Nat /\ k \in Nat
      BY <1>3, <2>4, <3>1
    <3>. QED
      BY <2>4, <2>5, <2>7, <3>2
<1>5. n \in 0 .. N /\ n \in Nat /\ L[n] # L[n - 1]
  BY <1>1
<1>6. Grows(n)
  BY <1>4, <1>5
<1>7. Cardinality(L[n]) \in Nat /\ Cardinality(L[n]) <= N
  BY <1>3, <1>5
<1>. QED
  BY <1>1, <1>5, <1>6, <1>7


\* The first element of a sequence and the others.
LEMMA FirstAndRest ==
  ASSUME NEW S, NEW s \in Seq(S), s # <<>>
  PROVE  /\ 1 \in DOMAIN s /\ s[1] \in S /\ Tail(s) \in Seq(S)
         /\ ToSet(s) = {s[1]} \cup ToSet(Tail(s))
         /\ Len(Tail(s)) \in Nat
         /\ \A i \in 1 .. Len(Tail(s)) :
              i + 1 \in DOMAIN s /\ i \in DOMAIN Tail(s) /\ Tail(s)[i] = s[i + 1]
<1>. DEFINE t == Tail(s)
            m == Len(s)
            n == Len(t)
<1>1. m \in Nat /\ m >= 1 /\ DOMAIN s = 1 .. m /\ ToSet(s) = {s[i] : i \in 1 .. m}
      /\ ToSet(s) \subseteq S
  BY IndicesOfSeq, EmptySeq
<1>2. t \in Seq(S) /\ n = m - 1 /\ \A i \in 1 .. n : t[i] = s[i + 1]
  BY HeadTailProperties
<1>3. n \in Nat /\ DOMAIN t = 1 .. n /\ ToSet(t) = {t[i] : i \in 1 .. n}
  BY <1>2, IndicesOfSeq
<1>. HIDE DEF t, m, n
<1>4. /\ 1 \in 1 .. m /\ \A i \in 1 .. n : i + 1 \in 1 .. m
      /\ \A i \in 1 .. m : i = 1 \/ (i - 1 \in 1 .. n /\ (i - 1) + 1 = i)
  BY <1>1, <1>2, <1>3
<1>5. s[1] \in ToSet(s) /\ s[1] \in S
  BY <1>1, <1>4
<1>6. ToSet(s) = {s[1]} \cup ToSet(t)
  <2>1. \A i \in 1 .. m : s[i] \in {s[1]} \cup ToSet(t)
    <3>. TAKE i \in 1 .. m
    <3>1. CASE i - 1 \in 1 .. n /\ (i - 1) + 1 = i
      <4>1. t[i - 1] = s[i]
        BY <1>2, <3>1
      <4>. QED
        BY <1>3, <3>1, <4>1
    <3>. QED
      BY <1>4, <3>1
  <2>2. \A i \in 1 .. n : t[i] \in ToSet(s)
    BY <1>1, <1>2, <1>4
  <2>. QED
    BY <1>1, <1>3, <1>5, <2>1, <2>2
<1>. QED
  BY <1>1, <1>2, <1>3, <1>4, <1>5, <1>6 DEF t, n

\* A queue whose elements are in the order of F, which they differ in by 1 at most.
Orderly(F, s) ==
  \A i, j \in DOMAIN s : (i < j => F[s[i]] <= F[s[j]]) /\ F[s[j]] <= F[s[1]] + 1

\* It stays so when the first element leaves and others that are 1 more enter.
LEMMA QueueGoesOn ==
  ASSUME NEW S, NEW s \in Seq(S), s # <<>>, NEW n \in Seq(S), NEW F, NEW G,
         \A x \in ToSet(s) : F[x] \in Nat, Orderly(F, s),
         \A x \in ToSet(Tail(s)) : G[x] = F[x],
         \A x \in ToSet(n) : G[x] = F[s[1]] + 1
  PROVE  /\ Orderly(G, Tail(s) \o n)
         /\ \A x \in ToSet(Tail(s) \o n) :
              /\ G[x] = F[s[1]] \/ G[x] = F[s[1]] + 1
              /\ Tail(s) \o n # <<>> /\ G[(Tail(s) \o n)[1]] <= G[x]
<1>. DEFINE t == Tail(s)
            r == t \o n
            d == F[s[1]]
            k == Len(t)
            l == Len(n)
<1>1. /\ 1 \in DOMAIN s /\ t \in Seq(S) /\ ToSet(s) = {s[1]} \cup ToSet(t) /\ k \in Nat
      /\ \A i \in 1 .. k : i + 1 \in DOMAIN s /\ t[i] = s[i + 1] /\ i \in DOMAIN t
  BY FirstAndRest
<1>2. l \in Nat /\ \A i \in 1 .. l : n[i] \in ToSet(n)
  BY IndicesOfSeq
<1>3. \A i \in 1 .. k : t[i] \in ToSet(t)
  <2>. HIDE DEF t, k
  <2>. QED
    BY <1>1 DEF ToSet
<1>4. /\ r \in Seq(S) /\ Len(r) = k + l /\ DOMAIN r = 1 .. k + l
      /\ \A i \in 1 .. k + l : r[i] = IF i <= k THEN t[i] ELSE n[i - k]
  <2>1. t \in Seq(S) /\ n \in Seq(S)
    BY <1>1
  <2>. HIDE DEF t
  <2>. QED
    BY <2>1, ConcatProperties, LenProperties
<1>5. ToSet(r) = {r[i] : i \in 1 .. k + l}
  BY <1>4 DEF ToSet
<1>6. d \in Nat /\ s[1] \in ToSet(s)
  BY <1>1
<1>7. \A i \in DOMAIN s : F[s[i]] \in Nat /\ (F[s[i]] = d \/ F[s[i]] = d + 1)
  <2>. TAKE i \in DOMAIN s
  <2>1. F[s[i]] \in Nat
    BY DEF ToSet
  <2>2. F[s[i]] <= d + 1
    BY <1>1 DEF Orderly
  <2>3. i = 1 \/ 1 < i
    <3>1. DOMAIN s = 1 .. Len(s) /\ Len(s) \in Nat
      BY LenProperties
    <3>. QED
      BY <3>1
  <2>4. d <= F[s[i]]
    <3>1. CASE 1 < i
      BY <1>1, <3>1 DEF Orderly
    <3>2. CASE i = 1
      BY <1>6, <3>2
    <3>. QED
      BY <2>3, <3>1, <3>2
  <2>. HIDE DEF d
  <2>. QED
    BY <1>6, <2>1, <2>2, <2>4
<1>. HIDE DEF r, d, k, l
<1>8. \A i \in 1 .. k : G[t[i]] = F[s[i + 1]] /\ i + 1 \in DOMAIN s
  BY <1>1, <1>3
<1>9. \A i \in 1 .. l : G[n[i]] = d + 1
  BY <1>2 DEF d
<1>10. ASSUME NEW i \in 1 .. k + l
       PROVE  /\ i <= k => i \in 1 .. k /\ G[r[i]] = F[s[i + 1]] /\ i + 1 \in DOMAIN s
              /\ ~(i <= k) => G[r[i]] = d + 1
              /\ G[r[i]] = d \/ G[r[i]] = d + 1
  <2>1. CASE i <= k
    <3>1. i \in 1 .. k
      BY <1>1, <2>1
    <3>2. r[i] = t[i]
      BY <1>4, <2>1
    <3>. HIDE DEF t
    <3>. QED
      BY <1>7, <1>8, <2>1, <3>1, <3>2
  <2>2. CASE ~(i <= k)
    <3>1. i - k \in 1 .. l
      BY <1>1, <1>2, <2>2
    <3>2. r[i] = n[i - k]
      BY <1>4, <2>2
    <3>. QED
      BY <1>9, <2>2, <3>1, <3>2
  <2>. QED
    BY <2>1, <2>2
<1>11. ASSUME NEW i \in 1 .. k + l, NEW j \in 1 .. k + l, i < j
       PROVE  G[r[i]] <= G[r[j]]
  <2>1. CASE j <= k
    <3>1. i <= k /\ i + 1 < j + 1
      BY <1>1, <1>2, <1>11, <2>1
    <3>2. /\ G[r[i]] = F[s[i + 1]] /\ i + 1 \in DOMAIN s
          /\ G[r[j]] = F[s[j + 1]] /\ j + 1 \in DOMAIN s
      BY <1>10, <2>1, <3>1
    <3>3. F[s[i + 1]] <= F[s[j + 1]]
      BY <3>1, <3>2 DEF Orderly
    <3>. QED
      BY <3>2, <3>3
  <2>2. CASE ~(j <= k)
    <3>1. G[r[j]] = d + 1 /\ (G[r[i]] = d \/ G[r[i]] = d + 1)
      BY <1>10, <2>2
    <3>. QED
      BY <1>6, <3>1
  <2>. QED
    BY <2>1, <2>2
<1>12. \A i \in 1 .. k + l : 1 \in 1 .. k + l /\ (i = 1 \/ 1 < i)
  BY <1>1, <1>2
<1>13. \A i \in 1 .. k + l : G[r[1]] <= G[r[i]] /\ G[r[i]] <= G[r[1]] + 1
  <2>. TAKE i \in 1 .. k + l
  <2>1. /\ G[r[i]] = d \/ G[r[i]] = d + 1
        /\ G[r[1]] = d \/ G[r[1]] = d + 1
    BY <1>10, <1>12
  <2>2. i # 1 => G[r[1]] <= G[r[i]]
    BY <1>11, <1>12
  <2>. QED
    BY <1>6, <2>1, <2>2
<1>14. Orderly(G, r)
  BY <1>4, <1>11, <1>13 DEF Orderly
<1>15. ToSet(r) # {} => r # <<>>
  BY <1>4, <1>5, EmptySeq
<1>16. ASSUME NEW x \in ToSet(r)
       PROVE  (G[x] = d \/ G[x] = d + 1) /\ r # <<>> /\ G[r[1]] <= G[x]
  <2>1. PICK i \in 1 .. k + l : x = r[i]
    BY <1>5
  <2>. QED
    BY <1>10, <1>13, <1>15, <2>1
<1>. QED
  BY <1>14, <1>16 DEF r, d

\* A turn of the search, part by part.
LEMMA ServeFirstIs ==
  ASSUME Mutual, NEW q, Searching(q), q.queue # <<>>
  PROVE  /\ ServeFirst(q).source = q.source
         /\ ServeFirst(q).queue = Tail(q.queue) \o Discovered(q)
         /\ Discovered(q) \in Seq(Users)
         /\ q.queue[1] \in Users /\ q.queue \in Seq(Users) /\ q.source \in Users
         /\ ToSet(Discovered(q)) =
              {v \in Users : IsMyFriend(q.queue[1], v) /\ ~q.elements[v].visited}
         /\ \A v \in Users : ServeFirst(q).elements[v] =
              IF v \in ToSet(Discovered(q))
              THEN [visited |-> TRUE, distance |-> Far(q, q.queue[1]) + 1] ELSE q.elements[v]
<1>1. q.queue \in Seq(Users) /\ q.source \in Users
      /\ DOMAIN q = {"source", "queue", "elements"} /\ q.elements \in [Users -> Element]
  BY DEF Searching
<1>. DEFINE s == q.queue
            T == {v \in Users : ~q.elements[v].visited}
            new == Discovered(q)
            es == [v \in Users |->
                     IF v \in ToSet(new)
                     THEN [visited |-> TRUE, distance |-> Far(q, q.queue[1]) + 1]
                     ELSE q.elements[v]]
<1>2. s[1] \in Users
  <2>1. s \in Seq(Users) /\ s # <<>>
    BY <1>1
  <2>. HIDE DEF s
  <2>. QED
    BY <2>1, FirstAndRest
<1>3. friendsOf[s[1]] \in Seq(Users)
  BY <1>2 DEF Mutual, FriendList
<1>4. new = Keep(friendsOf[s[1]], T)
  BY DEF Discovered
<1>5. ServeFirst(q) = [q EXCEPT !.queue = Tail(s) \o new, !.elements = es]
  BY DEF ServeFirst, Far
<1>. HIDE DEF T
<1>6. new \in Seq(Users) /\ ToSet(new) = ToSet(friendsOf[s[1]]) \cap T
  BY <1>3, <1>4, KeepProperties
<1>7. ToSet(new) = {v \in Users : IsMyFriend(s[1], v) /\ ~q.elements[v].visited}
  BY <1>6 DEF T, IsMyFriend
<1>. HIDE DEF new
<1>8. \A v \in Users : es[v] = IF v \in ToSet(new)
         THEN [visited |-> TRUE, distance |-> Far(q, q.queue[1]) + 1] ELSE q.elements[v]
  OBVIOUS
<1>. HIDE DEF es
<1>9. /\ ServeFirst(q).source = q.source
      /\ ServeFirst(q).queue = Tail(s) \o new /\ ServeFirst(q).elements = es
  BY <1>1, <1>5
<1>. QED
  BY <1>1, <1>2, <1>6, <1>7, <1>8, <1>9 DEF new

\* A turn of the search keeps it in order.
LEMMA ServeKeepsBreadth ==
  ASSUME Mutual, NEW q, Searching(q), q.queue # <<>>, NEW U \in SUBSET Users, Breadth(U, q)
  PROVE  Breadth(U, ServeFirst(q))
<1>. DEFINE s == q.queue
            h == s[1]
            d == Far(q, h)
            new == Discovered(q)
            D == ToSet(new)
            r == ServeFirst(q)
            N == UsersNumber
            L == Within(U, q.source)
            V == Seen(U, q)
            W == Seen(U, r)
            Q == ToSet(s)
            R == ToSet(r.queue)
<1>1. /\ r.source = q.source /\ r.queue = Tail(s) \o new /\ new \in Seq(Users)
      /\ h \in Users /\ s \in Seq(Users) /\ q.source \in Users /\ s # <<>>
      /\ D = {v \in Users : IsMyFriend(h, v) /\ ~q.elements[v].visited}
      /\ \A v \in Users : r.elements[v] =
           IF v \in D THEN [visited |-> TRUE, distance |-> d + 1] ELSE q.elements[v]
  BY ServeFirstIs
<1>2. /\ q.source \in V /\ Q \subseteq V /\ V \subseteq U
      /\ \A v \in V : Far(q, v) \in 0 .. N - 1
                      /\ \A n \in 0 .. N : v \in L[n] <=> Far(q, v) <= n
      /\ \A v \in U \ V : v = LastUser \/ Far(q, v) = Unreached
      /\ \A v \in Users \ U : q.elements[v].visited
      /\ \A v \in V \ Q : \A w \in U : IsMyFriend(v, w) => w \in V
      /\ L[d] \subseteq V
  BY <1>1 DEF Breadth, Levelled, Served, Seen
<1>3. Levels(U, q.source, L)
  BY WithinIs
<1>4. N \in Nat
  BY UsersAssumption
<1>5. /\ Q = {h} \cup ToSet(Tail(s)) /\ Tail(s) \in Seq(Users)
      /\ R = ToSet(Tail(s)) \cup D
  <2>1. /\ Q = {h} \cup ToSet(Tail(s)) /\ Tail(s) \in Seq(Users)
    <3>. HIDE DEF s
    <3>. QED
      BY <1>1, FirstAndRest DEF h
  <2>. DEFINE t == Tail(s)
  <2>2. t \in Seq(Users) /\ r.queue = t \o new
    BY <1>1, <2>1
  <2>. HIDE DEF t, new, r
  <2>3. ToSet(t \o new) = ToSet(t) \cup ToSet(new)
    BY <1>1, <2>2, ConcatElements
  <2>. QED
    BY <2>1, <2>2, <2>3 DEF t
<1>6. /\ \A v \in Users : Far(r, v) = IF v \in D THEN d + 1 ELSE Far(q, v)
      /\ W = V \cup D /\ D \cap V = {} /\ D \subseteq U
      /\ \A v \in Users \ U : r.elements[v].visited
  <2>1. D \subseteq U /\ D \cap V = {} /\ D \subseteq Users
    BY <1>1, <1>2 DEF Seen
  <2>2. \A v \in Users : /\ v \in D => r.elements[v].visited /\ r.elements[v].distance = d + 1
                         /\ v \notin D => r.elements[v] = q.elements[v]
    BY <1>1
  <2>. HIDE DEF D, r, d
  <2>. QED
    BY <1>2, <2>1, <2>2 DEF Far, Seen
<1>7. /\ \A m, n \in 0 .. N : m <= n => L[m] \subseteq L[n]
      /\ \A n \in 0 .. N : L[n] \subseteq Users
  <2>1. q.source \in Users
    BY <1>1
  <2>. QED
    BY <1>3, <2>1, LevelsGrow
<1>8. h \in V /\ d \in 0 .. N - 1 /\ d \in 0 .. N /\ d + 1 \in 1 .. N /\ d + 1 \in 0 .. N
      /\ d \in Nat /\ (d + 1) - 1 = d
  <2>1. h \in V /\ d \in 0 .. N - 1
    BY <1>2, <1>5
  <2>. HIDE DEF d, h
  <2>. QED
    BY <1>4, <2>1
<1>9. L[d + 1] = L[d] \cup {v \in U : \E u \in L[d] : IsMyFriend(u, v)}
  <2>. HIDE DEF L, d
  <2>. QED
    BY <1>3, <1>8 DEF Levels
<1>. HIDE DEF L, V, W, D, Q, R
<1>10. ASSUME NEW v \in D
       PROVE  /\ d + 1 \in 0 .. N - 1
              /\ \A n \in 0 .. N : v \in L[n] <=> d + 1 <= n
  <2>1. h \in L[d]
    BY <1>2, <1>8
  <2>2. v \in L[d + 1]
    BY <1>1, <1>6, <1>9, <2>1
  <2>3. v \notin L[d]
    BY <1>2, <1>6
  <2>. HIDE DEF d, h
  <2>4. d + 1 <= N - 1
    BY <1>1, <1>3, <1>8, <2>2, <2>3, LevelsAreFew
  <2>5. ASSUME NEW n \in 0 .. N PROVE v \in L[n] <=> d + 1 <= n
    <3>1. CASE d + 1 <= n
      BY <1>7, <1>8, <2>2, <3>1
    <3>2. CASE ~(d + 1 <= n)
      <4>1. n <= d
        BY <1>8, <3>2
      <4>. QED
        BY <1>7, <1>8, <2>3, <3>2, <4>1
    <3>. QED
      BY <3>1, <3>2
  <2>. QED
    BY <1>4, <1>8, <2>4, <2>5
<1>11. Levelled(U, r)
  <2>1. ASSUME NEW v \in W
        PROVE  Far(r, v) \in 0 .. N - 1 /\ \A n \in 0 .. N : v \in L[n] <=> Far(r, v) <= n
    <3>1. CASE v \in D
      <4>1. v \in Users /\ Far(r, v) = d + 1
        BY <1>1, <1>6, <3>1
      <4>. HIDE DEF d, r
      <4>. QED
        BY <1>10, <3>1, <4>1
    <3>2. CASE v \notin D
      <4>1. v \in V /\ v \in Users
        BY <1>2, <1>6, <3>2
      <4>2. Far(r, v) = Far(q, v)
        BY <1>6, <3>2, <4>1
      <4>. HIDE DEF d, r
      <4>. QED
        BY <1>2, <4>1, <4>2
    <3>. QED
      BY <3>1, <3>2
  <2>2. ASSUME NEW v \in U \ W PROVE v = LastUser \/ Far(r, v) = Unreached
    <3>1. v \in U \ V /\ v \notin D /\ v \in Users
      BY <1>6
    <3>2. Far(r, v) = Far(q, v)
      BY <1>6, <3>1
    <3>. HIDE DEF d, r
    <3>. QED
      BY <1>2, <3>1, <3>2
  <2>3. Within(U, r.source) = L
    BY <1>1 DEF L
  <2>. HIDE DEF r
  <2>. QED
    BY <1>6, <2>1, <2>2, <2>3 DEF Levelled, W
<1>. DEFINE F == [v \in Users |-> Far(q, v)]
            G == [v \in Users |-> Far(r, v)]
<1>12. /\ Orderly(G, r.queue)
       /\ \A x \in R : (G[x] = d \/ G[x] = d + 1) /\ r.queue # <<>> /\ G[r.queue[1]] <= G[x]
  <2>1. Q \subseteq Users /\ R \subseteq Users /\ V \subseteq Users /\ D \subseteq Users
    BY <1>1, <1>2, <1>5, <1>6
  <2>2. \A x \in Q : F[x] \in Nat
    <3>1. \A x \in Q : F[x] = Far(q, x) /\ Far(q, x) \in 0 .. N - 1
      BY <1>2, <2>1
    <3>2. N - 1 \in Int
      BY <1>4
    <3>3. \A x \in Q : F[x] \in 0 .. N - 1
      BY <3>1, Zenon
    <3>. HIDE DEF F, N, Q
    <3>. QED
      BY <3>2, <3>3
  <2>3. \A i \in DOMAIN s : s[i] \in Users /\ F[s[i]] = Far(q, s[i])
    BY <1>1, ElementOfSeq
  <2>4. InQueue(q)
    BY DEF Breadth
  <2>5. 1 \in DOMAIN s
    <3>. HIDE DEF s
    <3>. QED
      BY <1>1, FirstAndRest
  <2>6. Orderly(F, s)
    BY <2>3, <2>4, <2>5 DEF Orderly, InQueue
  <2>7. F[h] = d
    BY <1>1
  <2>8. \A x \in ToSet(Tail(s)) : G[x] = F[x]
    <3>1. \A x \in ToSet(Tail(s)) : x \in V /\ x \in Users /\ x \notin D
      BY <1>2, <1>5, <1>6, <2>1
    <3>. QED
      BY <1>6, <3>1
  <2>9. \A x \in D : G[x] = d + 1
    BY <1>6, <2>1
  <2>. HIDE DEF F, G, s, d, r, new
  <2>10. \A x \in ToSet(s) : F[x] \in Nat
    BY <2>2 DEF Q
  <2>11. \A x \in ToSet(new) : G[x] = F[s[1]] + 1
    BY <2>7, <2>9 DEF D, h
  <2>12. /\ Orderly(G, Tail(s) \o new)
         /\ \A x \in ToSet(Tail(s) \o new) :
              /\ G[x] = F[s[1]] \/ G[x] = F[s[1]] + 1
              /\ Tail(s) \o new # <<>> /\ G[(Tail(s) \o new)[1]] <= G[x]
    BY <1>1, <2>6, <2>8, <2>10, <2>11, QueueGoesOn
  <2>. QED
    BY <1>1, <2>7, <2>12 DEF R, h
<1>13. r.queue \in Seq(Users) /\ (r.queue # <<>> => r.queue[1] \in R /\ r.queue[1] \in Users)
  <2>1. Tail(s) \o new \in Seq(Users)
    <3>. DEFINE t == Tail(s)
    <3>1. t \in Seq(Users)
      BY <1>5
    <3>. HIDE DEF t
    <3>. QED
      BY <1>1, <3>1, ConcatElements DEF t
  <2>2. r.queue \in Seq(Users)
    BY <1>1, <2>1
  <2>. DEFINE t == r.queue
  <2>3. t \in Seq(Users)
    BY <2>2
  <2>. HIDE DEF t, r
  <2>4. t # <<>> => t[1] \in ToSet(t) /\ t[1] \in Users
    BY <2>3, FirstAndRest
  <2>. QED
    BY <2>2, <2>4 DEF R, t
<1>14. InQueue(r)
  <2>1. \A i \in DOMAIN r.queue : r.queue[i] \in Users
    BY <1>13, ElementOfSeq
  <2>2. \A i \in DOMAIN r.queue : G[r.queue[i]] = Far(r, r.queue[i])
    BY <2>1
  <2>3. \A i \in DOMAIN r.queue : r.queue # <<>>
    BY <1>13, EmptySeq
  <2>4. \A i \in DOMAIN r.queue : G[r.queue[1]] = Far(r, r.queue[1])
    BY <1>13, <2>3
  <2>. HIDE DEF G, r
  <2>. QED
    BY <1>12, <2>2, <2>4 DEF Orderly, InQueue
<1>15. ASSUME NEW v \in W \ R, NEW w \in U, IsMyFriend(v, w)
       PROVE  w \in W
  <2>1. v \in V /\ v \notin D
    BY <1>5, <1>6
  <2>2. CASE v = h
    <3>1. w \in Users
      OBVIOUS
    <3>2. w \in D \/ q.elements[w].visited
      BY <1>1, <1>15, <2>2, <3>1
    <3>. QED
      BY <1>6, <3>2 DEF V, Seen
  <2>3. CASE v # h
    <3>1. v \in V \ Q
      BY <1>5, <2>1, <2>3
    <3>. QED
      BY <1>2, <1>6, <1>15, <3>1
  <2>. QED
    BY <2>2, <2>3
<1>16. r.queue # <<>> => L[Far(r, r.queue[1])] \subseteq W
  <2>. SUFFICES ASSUME r.queue # <<>> PROVE L[Far(r, r.queue[1])] \subseteq W
    OBVIOUS
  <2>1. r.queue[1] \in R /\ r.queue[1] \in Users
    BY <1>13
  <2>2. G[r.queue[1]] = Far(r, r.queue[1])
    BY <2>1
  <2>3. CASE G[r.queue[1]] = d
    BY <1>2, <1>6, <2>2, <2>3
  <2>4. CASE G[r.queue[1]] = d + 1
    <3>1. ASSUME NEW u \in L[d] PROVE u \in W \ R
      <4>1. u \in V /\ u \notin D /\ u \in Users
        BY <1>2, <1>6, <1>7, <1>8
      <4>2. Far(q, u) <= d /\ G[u] = Far(q, u) /\ Far(q, u) \in 0 .. N - 1
        BY <1>2, <1>6, <1>8, <4>1
      <4>. HIDE DEF d, G
      <4>3. ~(d + 1 <= G[u])
        BY <1>4, <1>8, <4>2
      <4>. QED
        BY <1>6, <1>12, <2>4, <4>1, <4>3
    <3>2. \A v \in L[d + 1] : v \in W
      BY <1>9, <1>15, <3>1
    <3>. QED
      BY <2>2, <2>4, <3>2
  <2>. QED
    BY <1>12, <2>1, <2>3, <2>4
<1>17. Served(U, r)
  <2>1. Within(U, r.source) = L
    BY <1>1 DEF L
  <2>. HIDE DEF r
  <2>. QED
    BY <1>15, <1>16, <2>1 DEF Served, W, R
<1>18. r.source \in W /\ R \subseteq W
  BY <1>1, <1>2, <1>5, <1>6
<1>. HIDE DEF r
<1>. QED
  BY <1>11, <1>14, <1>17, <1>18 DEF Breadth, W, R, r

\* A search begins in order, among all users if what was left over is unseen.
LEMMA BeginKeepsBreadth ==
  ASSUME NEW s \in Users, leftover \in Element, BeginSearch(s)
  PROVE  \E U \in {Users, Users \ {LastUser}} : Breadth(U, search')
<1>. DEFINE U == IF s # LastUser /\ leftover.visited THEN Users \ {LastUser} ELSE Users
            q == search'
            N == UsersNumber
            L == Within(U, s)
            first == [visited |-> TRUE, distance |-> 0]
            e == [[u \in Users |-> Reset(u, leftover)] EXCEPT ![s] = first]
<1>1. /\ q = [source |-> s, queue |-> <<s>>, elements |-> e]
      /\ \A v \in Users : e[v] = IF v = s THEN first ELSE Reset(v, leftover)
  BY DEF BeginSearch
<1>2. /\ q.source = s /\ q.queue = <<s>>
      /\ \A v \in Users : q.elements[v] = IF v = s THEN first ELSE Reset(v, leftover)
  <2>. HIDE DEF q, e, first
  <2>. QED
    BY <1>1
<1>3. N \in Nat /\ N >= 1
  BY UsersAssumption
<1>4. U \in SUBSET Users /\ s \in U /\ U \in {Users, Users \ {LastUser}}
  OBVIOUS
<1>5. /\ \A v \in Users : v # s /\ v # LastUser =>
           ~q.elements[v].visited /\ Far(q, v) = Unreached
      /\ q.elements[s].visited /\ Far(q, s) = 0
      /\ LastUser # s => q.elements[LastUser] = leftover
  <2>1. LastUser \in Users
    BY <1>3 DEF LastUser, Users
  <2>. QED
    BY <1>2, <2>1 DEF Reset, Far
<1>6. /\ \A v \in U : v # s => ~q.elements[v].visited
      /\ \A v \in Users \ U : q.elements[v].visited
  <2>1. leftover.visited \in BOOLEAN
    BY DEF Element
  <2>2. CASE s # LastUser /\ leftover.visited
    BY <1>5, <2>2
  <2>3. CASE ~(s # LastUser /\ leftover.visited)
    BY <1>5, <2>3
  <2>. QED
    BY <2>2, <2>3
<1>. HIDE DEF q, U
<1>7. Seen(U, q) = {s}
  BY <1>4, <1>5, <1>6 DEF Seen
<1>8. Levels(U, s, L)
  BY WithinIs
<1>9. L[0] = {s}
  BY <1>8 DEF Levels
<1>10. \A n \in 0 .. N : s \in L[n]
  <2>1. \A m, n \in 0 .. N : m <= n => L[m] \subseteq L[n]
    <3>. HIDE DEF L
    <3>. QED
      BY <1>4, <1>8, LevelsGrow
  <2>2. \A n \in 0 .. N : 0 \in 0 .. N /\ 0 <= n
    BY <1>3
  <2>. HIDE DEF L
  <2>. QED
    BY <1>9, <2>1, <2>2
<1>11. Levelled(U, q)
  <2>1. 0 \in 0 .. N - 1 /\ \A n \in 0 .. N : 0 <= n
    BY <1>3
  <2>2. Within(U, q.source) = L
    BY <1>2
  <2>. HIDE DEF L
  <2>. QED
    BY <1>4, <1>5, <1>6, <1>7, <1>10, <2>1, <2>2 DEF Levelled
<1>12. InQueue(q)
  <2>1. DOMAIN q.queue = {1} /\ q.queue[1] = s
    BY <1>2
  <2>. QED
    BY <1>5, <2>1 DEF InQueue
<1>13. ToSet(q.queue) = {s}
  BY <1>2 DEF ToSet
<1>14. Served(U, q)
  <2>1. q.queue[1] = s /\ q.source = s
    BY <1>2
  <2>. HIDE DEF L
  <2>. QED
    BY <1>5, <1>7, <1>9, <1>13, <2>1 DEF Served, L
<1>. QED
  BY <1>2, <1>4, <1>7, <1>11, <1>12, <1>13, <1>14 DEF Breadth, q

\* A search that is over answers with the length of a shortest path among U.
LEMMA BreadthAnswers ==
  ASSUME NEW q, NEW U \in SUBSET Users, Breadth(U, q), q.queue = <<>>, NEW t \in U, t # LastUser
  PROVE  q.elements[t].distance = DistanceAmong(U, q.source, t)
<1>. DEFINE N == UsersNumber
            L == Within(U, q.source)
            V == Seen(U, q)
            Bad == {n \in 0 .. N : ~(L[n] \subseteq V)}
<1>1. N \in Nat
  BY UsersAssumption
<1>2. Levels(U, q.source, L)
  BY WithinIs
<1>3. /\ q.source \in V
      /\ \A v \in V : Far(q, v) \in 0 .. N - 1
                      /\ \A n \in 0 .. N : v \in L[n] <=> Far(q, v) <= n
      /\ \A v \in U \ V : v = LastUser \/ Far(q, v) = Unreached
      /\ \A v \in V : \A w \in U : IsMyFriend(v, w) => w \in V
  <2>1. ToSet(q.queue) = {}
    BY DEF ToSet
  <2>. QED
    BY <2>1 DEF Breadth, Levelled, Served
<1>. HIDE DEF L, V
<1>4. Bad = {}
  <2>1. SUFFICES ASSUME Bad # {} PROVE FALSE
    OBVIOUS
  <2>2. Bad \in SUBSET Nat
    BY <1>1
  <2>3. PICK n \in Bad : \A k \in Bad : n <= k
    BY <2>1, <2>2, LeastExists
  <2>4. n \in 0 .. N /\ ~(L[n] \subseteq V)
    BY <2>3
  <2>5. n # 0
    BY <1>2, <1>3, <2>4 DEF Levels
  <2>6. n - 1 \in 0 .. N /\ ~(n <= n - 1) /\ n \in 1 .. N
    BY <1>1, <2>4, <2>5
  <2>7. L[n - 1] \subseteq V
    BY <2>3, <2>6
  <2>8. L[n] = L[n - 1] \cup {v \in U : \E u \in L[n - 1] : IsMyFriend(u, v)}
    BY <1>2, <2>6 DEF Levels
  <2>. QED
    BY <1>3, <2>4, <2>7, <2>8
<1>5. N \in 0 .. N
  BY <1>1
<1>6. DistanceAmong(U, q.source, t) =
        IF t \notin L[N] THEN Unreached
        ELSE CHOOSE n \in 0 .. N : t \in L[n] /\ (n > 0 => t \notin L[n - 1])
  BY DEF DistanceAmong, L
<1>7. CASE t \in V
  <2>. DEFINE d == Far(q, t)
  <2>1. d \in 0 .. N - 1 /\ \A n \in 0 .. N : t \in L[n] <=> d <= n
    BY <1>3, <1>7
  <2>. HIDE DEF d
  <2>2. t \in L[N]
    BY <1>1, <1>5, <2>1
  <2>3. d \in 0 .. N /\ t \in L[d] /\ (d > 0 => t \notin L[d - 1])
    <3>1. d \in 0 .. N /\ d <= d /\ (d > 0 => d - 1 \in 0 .. N /\ ~(d <= d - 1))
      BY <1>1, <2>1
    <3>. QED
      BY <2>1, <3>1
  <2>4. ASSUME NEW n \in 0 .. N, t \in L[n], n > 0 => t \notin L[n - 1]
        PROVE  n = d
    <3>1. d <= n
      BY <2>1, <2>4
    <3>2. n > 0 => n - 1 \in 0 .. N /\ ~(d <= n - 1)
      <4>1. n > 0 => n - 1 \in 0 .. N
        BY <1>1
      <4>. QED
        BY <2>1, <2>4, <4>1
    <3>. QED
      BY <1>1, <2>1, <3>1, <3>2
  <2>5. (CHOOSE n \in 0 .. N : t \in L[n] /\ (n > 0 => t \notin L[n - 1])) = d
    BY <2>3, <2>4
  <2>. QED
    BY <1>6, <2>2, <2>5 DEF d, Far
<1>8. CASE t \notin V
  <2>1. t \notin L[N]
    BY <1>4, <1>5, <1>8
  <2>2. q.elements[t].distance = Unreached
    BY <1>3, <1>8 DEF Far
  <2>. QED
    BY <1>6, <2>1, <2>2
<1>. QED
  BY <1>7, <1>8

\* Every step of the network keeps the search in order.
LEMMA SearchInvNext ==
  ASSUME FriendsInv, SearchInv, [FriendsNext]_<<friendsVars, running>>
  PROVE  SearchInv'
<1>1. ASSUME search' = Nobody
      PROVE  SearchInv'
  BY <1>1 DEF SearchInv
<1>2. ASSUME friendsOf' = friendsOf,
             search' # Nobody => \E U \in {Users, Users \ {LastUser}} : Breadth(U, search')
      PROVE  SearchInv'
  <2>1. \A U, s : Within(U, s)' = Within(U, s)
    BY <1>2, ZenonT(60) DEF Within, IsMyFriend
  <2>2. \A u, v : IsMyFriend(u, v)' <=> IsMyFriend(u, v)
    BY <1>2 DEF IsMyFriend
  <2>3. \A U, q : Breadth(U, q)' <=> Breadth(U, q)
    BY <2>1, <2>2 DEF Breadth, Levelled, Served, InQueue, Seen, Far
  <2>. QED
    BY <1>2, <2>3 DEF SearchInv
<1>3. ASSUME NEW p \in Pairs, AddConnection(p[1], p[2]) \/ RemoveConnection(p[1], p[2])
      PROVE  SearchInv'
  BY <1>1, <1>3 DEF AddConnection, RemoveConnection, Serving
<1>4. ASSUME NEW s \in Askers, BeginSearch(s)
      PROVE  SearchInv'
  <2>1. s \in Users /\ leftover \in Element /\ friendsOf' = friendsOf
    BY <1>4, FriendsAssumption DEF FriendsInv, BeginSearch
  <2>. QED
    BY <1>2, <1>4, <2>1, BeginKeepsBreadth
<1>5. ASSUME NEW u \in Askers, PopularOfNobody(u)
      PROVE  SearchInv'
  BY <1>1, <1>5 DEF PopularOfNobody, Serving, friendsVars
<1>6. CASE Explore
  <2>1. /\ search' = ServeFirst(search) /\ search # Nobody /\ search.queue # <<>>
        /\ friendsOf' = friendsOf
    BY <1>6 DEF Explore
  <2>2. PICK U \in {Users, Users \ {LastUser}} : Breadth(U, search)
    BY <2>1 DEF SearchInv
  <2>3. Breadth(U, ServeFirst(search))
    BY <2>1, <2>2, ServeKeepsBreadth DEF FriendsInv
  <2>. QED
    BY <1>2, <2>1, <2>3
<1>7. CASE EndSearch
  BY <1>1, <1>7 DEF EndSearch
<1>8. CASE UNCHANGED <<friendsVars, running>>
  BY <1>2, <1>8 DEF friendsVars, SearchInv
<1>. QED
  BY <1>3, <1>4, <1>5, <1>6, <1>7, <1>8 DEF FriendsNext

\* The answer to "distance" is the length of a shortest path, at most through the
\* last user excepted (compute_distance).
THEOREM DistancesAreShortest == FriendsSpec => []DistanceOfOthers
<1>1. NetworkInit => FriendsInv /\ SearchInv
  BY FriendsInvInit DEF NetworkInit, FriendsInit, SearchInv
<1>2. FriendsInv /\ [FriendsNext]_<<friendsVars, running>> => FriendsInv'
  BY FriendsInvNext
<1>3. FriendsInv /\ SearchInv /\ [FriendsNext]_<<friendsVars, running>> => SearchInv'
  BY SearchInvNext
<1>4. SearchInv => DistanceOfOthers
  <2>. SUFFICES ASSUME SearchInv, Answering, NEW t \in Users \ {LastUser}
                PROVE  \/ Answer(t) = DistanceAmong(Users, search.source, t)
                       \/ /\ search.source # LastUser
                          /\ Answer(t) = DistanceAmong(Users \ {LastUser}, search.source, t)
    BY DEF DistanceOfOthers
  <2>1. search # Nobody /\ search.queue = <<>>
    BY DEF Answering
  <2>2. PICK U \in {Users, Users \ {LastUser}} : Breadth(U, search)
    BY <2>1 DEF SearchInv
  <2>3. Answer(t) = DistanceAmong(U, search.source, t)
    <3>1. t \in U /\ U \in SUBSET Users /\ t # LastUser
      BY <2>2
    <3>. QED
      BY <2>1, <2>2, <3>1, BreadthAnswers DEF Answer
  <2>4. search.source \in U
    BY <2>2 DEF Breadth, Seen
  <2>. QED
    BY <2>2, <2>3, <2>4
<1>. QED
  BY <1>1, <1>2, <1>3, <1>4, PTL DEF FriendsSpec

-----------------------------------------------------------------------------
\* Where InsertById puts a number: behind all that are less.
LEMMA InsertByIdAt ==
  ASSUME NEW s \in Seq(Users), NEW v \in Users
  PROVE  \E k \in 1 .. Len(s) + 1 :
           /\ InsertById(s, v) = InsertAt(s, k, v)
           /\ \A i \in 1 .. Len(s) : i < k => s[i] < v
           /\ k <= Len(s) => s[k] >= v
<1>. DEFINE n == Len(s)
            J == {i \in 1 .. n : s[i] >= v}
            p == IF J # {} THEN Min(J) ELSE 0
            k == IF p = 0 THEN n + 1 ELSE p
<1>1. n \in Nat /\ v \in Int /\ \A i \in 1 .. n : s[i] \in Int
  <2>1. Users \subseteq Int
    BY UsersAssumption DEF Users
  <2>. QED
    BY <2>1, LenProperties, ElementOfSeq
<1>2. InsertById(s, v) = InsertAt(s, k, v)
  BY DEF InsertById, SelectInSeq
<1>3. CASE J # {}
  <2>1. J \in SUBSET Nat
    BY <1>1
  <2>2. p \in J /\ \A y \in J : p <= y
    BY <1>3, <2>1, MinIsLeast
  <2>3. p \in 1 .. n /\ s[p] >= v
    <3>. HIDE DEF p, n
    <3>. QED
      BY <2>2
  <2>. HIDE DEF p, n
  <2>4. k = p
    <3>1. p # 0
      BY <1>1, <2>3
    <3>. QED
      BY <3>1
  <2>5. p \in 1 .. n + 1 /\ p \in Int
    BY <1>1, <2>3
  <2>. HIDE DEF k
  <2>6. ASSUME NEW i \in 1 .. n, i < p PROVE s[i] < v
    <3>1. ~(p <= i)
      BY <1>1, <2>5, <2>6
    <3>2. i \notin J
      BY <2>2, <3>1
    <3>. QED
      BY <1>1, <3>2
  <2>. HIDE DEF J
  <2>7. /\ InsertById(s, v) = InsertAt(s, p, v)
        /\ \A i \in 1 .. n : i < p => s[i] < v
        /\ p <= n => s[p] >= v
    BY <1>2, <2>3, <2>4, <2>6
  <2>. USE DEF n
  <2>. QED
    BY <2>5, <2>7, Zenon
<1>4. CASE J = {}
  <2>1. k = n + 1 /\ \A i \in 1 .. n : s[i] < v
    <3>1. p = 0
      BY <1>4
    <3>2. k = n + 1
      BY <3>1
    <3>. HIDE DEF k, p, n
    <3>3. \A i \in 1 .. n : ~(s[i] >= v)
      BY <1>4
    <3>. QED
      BY <1>1, <3>2, <3>3
  <2>2. k \in 1 .. n + 1 /\ ~(k <= n)
    BY <1>1, <2>1
  <2>. HIDE DEF k, n
  <2>. QED
    BY <1>2, <2>1, <2>2 DEF n
<1>. QED
  BY <1>3, <1>4

\* InsertAtProperties, for lists of users.
LEMMA InsertUserAt ==
  ASSUME NEW s \in Seq(Users), NEW k \in 1 .. Len(s) + 1, NEW v \in Users
  PROVE  /\ InsertAt(s, k, v) \in Seq(Users)
         /\ Len(InsertAt(s, k, v)) = Len(s) + 1
         /\ \A i \in 1 .. Len(s) + 1 :
               InsertAt(s, k, v)[i] = IF i < k THEN s[i] ELSE IF i = k THEN v ELSE s[i - 1]
<1>1. InsertAt(s, k, v) \in Seq(Users) /\ Len(InsertAt(s, k, v)) = Len(s) + 1
  BY InsertAtProperties
<1>2. ASSUME NEW i \in 1 .. Len(s) + 1
      PROVE  InsertAt(s, k, v)[i] = IF i < k THEN s[i] ELSE IF i = k THEN v ELSE s[i - 1]
  BY InsertAtProperties
<1>. QED
  BY <1>1, <1>2

LEMMA InsertByIdType ==
  ASSUME NEW s \in Seq(Users), NEW v \in Users
  PROVE  InsertById(s, v) \in Seq(Users)
BY InsertByIdAt, InsertUserAt

\* It keeps a list of numbers in order.
LEMMA InsertByIdIs ==
  ASSUME NEW s \in Seq(Users), Ascending(s), NEW v \in Users, v \notin ToSet(s)
  PROVE  /\ Ascending(InsertById(s, v))
         /\ ToSet(InsertById(s, v)) = ToSet(s) \cup {v}
<1>. DEFINE n == Len(s)
<1>1. PICK k \in 1 .. n + 1 : /\ InsertById(s, v) = InsertAt(s, k, v)
                              /\ \A i \in 1 .. n : i < k => s[i] < v
                              /\ k <= n => s[k] >= v
  BY InsertByIdAt
<1>. DEFINE r == InsertAt(s, k, v)
<1>2. /\ n \in Nat /\ DOMAIN s = 1 .. n /\ ToSet(s) = {s[i] : i \in 1 .. n}
      /\ v \in Int /\ \A i \in 1 .. n : s[i] \in Int
  <2>1. Users \subseteq Int
    BY UsersAssumption DEF Users
  <2>. QED
    BY <2>1, IndicesOfSeq, ElementOfSeq
<1>3. /\ r \in Seq(Users) /\ Len(r) = n + 1
      /\ \A i \in 1 .. n + 1 : r[i] = IF i < k THEN s[i] ELSE IF i = k THEN v ELSE s[i - 1]
  BY InsertUserAt
<1>4. DOMAIN r = 1 .. n + 1 /\ ToSet(r) = {r[i] : i \in 1 .. n + 1}
  BY <1>3, IndicesOfSeq
<1>. HIDE DEF r, n
<1>5. \A i, j \in 1 .. n : i < j => s[i] < s[j]
  BY <1>2 DEF Ascending
<1>6. \A i \in 1 .. n : i >= k => v < s[i]
  <2>. TAKE i \in 1 .. n
  <2>1. k <= n /\ k \in 1 .. n => s[k] > v
    BY <1>1, <1>2
  <2>2. i > k => k \in 1 .. n
    BY <1>2
  <2>3. i > k => s[k] < s[i]
    BY <1>5, <2>2
  <2>. QED
    BY <1>2, <2>1, <2>2, <2>3
<1>7. ASSUME NEW i \in 1 .. n + 1, NEW j \in 1 .. n + 1, i < j
      PROVE  r[i] < r[j]
  <2>1. CASE j < k
    <3>1. i < k /\ i \in 1 .. n /\ j \in 1 .. n
      BY <1>2, <1>7, <2>1
    <3>. QED
      BY <1>3, <1>5, <1>7, <2>1, <3>1
  <2>2. CASE j = k
    <3>1. i < k /\ i \in 1 .. n /\ ~(j < k)
      BY <1>2, <1>7, <2>2
    <3>2. r[i] = s[i] /\ r[j] = v
      BY <1>3, <2>2, <3>1
    <3>. QED
      BY <1>1, <3>1, <3>2
  <2>3. CASE j > k
    <3>1. j - 1 \in 1 .. n /\ j - 1 >= k /\ ~(j < k) /\ j # k
      BY <1>2, <1>7, <2>3
    <3>2. r[j] = s[j - 1]
      BY <1>3, <3>1
    <3>3. CASE i < k
      <4>1. i \in 1 .. n /\ i < j - 1
        BY <1>2, <1>7, <2>3, <3>3
      <4>2. r[i] = s[i]
        BY <1>3, <3>3
      <4>. QED
        BY <1>5, <3>1, <3>2, <4>1, <4>2
    <3>4. CASE i = k
      <4>1. r[i] = v
        BY <1>3, <3>4
      <4>. QED
        BY <1>6, <3>1, <3>2, <4>1
    <3>5. CASE i > k
      <4>1. i - 1 \in 1 .. n /\ i - 1 < j - 1 /\ ~(i < k) /\ i # k
        BY <1>2, <1>7, <2>3, <3>5
      <4>2. r[i] = s[i - 1]
        BY <1>3, <4>1
      <4>. QED
        BY <1>5, <3>1, <3>2, <4>1, <4>2
    <3>. QED
      BY <3>3, <3>4, <3>5
  <2>. QED
    BY <2>1, <2>2, <2>3
<1>8. Ascending(r)
  BY <1>4, <1>7 DEF Ascending
<1>9. \A i \in 1 .. n + 1 : r[i] \in ToSet(s) \cup {v}
  <2>. TAKE i \in 1 .. n + 1
  <2>1. /\ i < k => i \in 1 .. n
        /\ ~(i < k) /\ i # k => i - 1 \in 1 .. n
    BY <1>2
  <2>. QED
    BY <1>2, <1>3, <2>1
<1>10. v \in ToSet(r)
  BY <1>3, <1>4
<1>11. ASSUME NEW i \in 1 .. n PROVE s[i] \in ToSet(r)
  <2>1. CASE i < k
    <3>1. i \in 1 .. n + 1
      BY <1>2
    <3>2. r[i] = s[i]
      BY <1>3, <2>1, <3>1
    <3>. QED
      BY <1>4, <3>1, <3>2
  <2>2. CASE ~(i < k)
    <3>1. i + 1 \in 1 .. n + 1 /\ ~(i + 1 < k) /\ i + 1 # k /\ (i + 1) - 1 = i
      BY <1>2, <2>2
    <3>2. r[i + 1] = s[i]
      BY <1>3, <3>1
    <3>. QED
      BY <1>4, <3>1, <3>2
  <2>. QED
    BY <2>1, <2>2
<1>12. ToSet(r) = ToSet(s) \cup {v}
  BY <1>2, <1>4, <1>9, <1>10, <1>11
<1>. QED
  BY <1>1, <1>8, <1>12 DEF r

\* The user and the friends, who are not suggested.
Circle(u) == {u} \cup ToSet(friendsOf[u])

LEMMA SuggestType ==
  ASSUME NEW u, NEW s \in Seq(Users), NEW v \in Users
  PROVE  Suggest(u, s, v) \in Seq(Users)
BY InsertByIdType DEF Suggest

LEMMA SuggestIs ==
  ASSUME NEW u, NEW s \in Seq(Users), Ascending(s), NEW v \in Users
  PROVE  /\ Ascending(Suggest(u, s, v))
         /\ ToSet(Suggest(u, s, v)) = ToSet(s) \cup ({v} \ Circle(u))
<1>1. CASE v \in Circle(u) \/ v \in ToSet(s)
  BY <1>1 DEF Suggest, Circle, IsMyFriend
<1>2. CASE v \notin Circle(u) /\ v \notin ToSet(s)
  <2>1. Suggest(u, s, v) = InsertById(s, v)
    BY <1>2 DEF Suggest, Circle, IsMyFriend
  <2>. QED
    BY <1>2, <2>1, InsertByIdIs
<1>. QED
  BY <1>1, <1>2

\* The loop of compute_suggestions over friends of friends s, turn by turn.
SuggestedFrom(u, s) == FoldLeft(LAMBDA found, v : Suggest(u, found, v), <<>>, s)

LEMMA SuggestTurns ==
  ASSUME NEW u, NEW s \in Seq(Users)
  PROVE  \E K : /\ K[0] = <<>>
                /\ \A i \in 1 .. Len(s) : K[i] = Suggest(u, K[i - 1], s[i])
                /\ SuggestedFrom(u, s) = K[Len(s)]
<1>. DEFINE n == Len(s)
            S == Seq(Users)
            F == [x \in (1 .. n) \X S |-> Suggest(u, x[2], s[x[1]])]
            Val(g, T) == IF T = {} THEN <<>> ELSE Suggest(u, g[T \ {Max(T)}], s[Max(T)])
            P == SUBSET (1 .. n)
<1>1. n \in Nat /\ DOMAIN s = 1 .. n /\ \A i \in 1 .. n : s[i] \in Users
  BY IndicesOfSeq, ElementOfSeq
<1>2. <<>> \in S
  BY EmptySeq
<1>3. ASSUME NEW i \in 1 .. n, NEW a \in S
      PROVE  F[<<i, a>>] = Suggest(u, a, s[i]) /\ F[<<i, a>>] \in S
  <2>1. F[<<i, a>>] = Suggest(u, a, s[i])
    OBVIOUS
  <2>. QED
    BY <1>1, <2>1, SuggestType
<1>. HIDE DEF F
<1>4. PICK G : FoldOf(G, F, n, <<>>, S)
  <2>1. FoldStep(F, n, S)
    BY <1>3 DEF FoldStep
  <2>. HIDE DEF n, S
  <2>. QED
    BY <1>1, <1>2, <2>1, FoldExists
<1>5. \A T \in P : T # {} => Max(T) \in 1 .. n /\ T \ {Max(T)} \in P
  BY <1>1, GreatestAndRest
<1>6. G = [T \in P |-> Val(G, T)]
  <2>. HIDE DEF P
  <2>3. /\ G = [T \in P |-> IF T = {} THEN <<>> ELSE F[<<Max(T), G[T \ {Max(T)}]>>]]
        /\ \A T \in P : G[T] \in S
    BY <1>4 DEF FoldOf, P
  <2>1. \A T \in P : G[T] = Val(G, T)
    BY <1>3, <1>5, <2>3
  <2>2. G = [T \in P |-> G[T]]
    BY <2>3
  <2>. QED
    BY <2>1, <2>2
<1>. DEFINE g == CHOOSE f : f = [T \in P |-> Val(f, T)]
<1>7. g = [T \in P |-> Val(g, T)]
  BY <1>6
<1>8. SuggestedFrom(u, s) = g[1 .. n]
  BY <1>1 DEF SuggestedFrom, FoldLeft, MapThenFoldSet
<1>. HIDE DEF g
<1>9. \A T \in P : g[T] = Val(g, T)
  BY <1>7
<1>. DEFINE K == [i \in 0 .. n |-> g[1 .. i]]
<1>10. 1 .. 0 = {} /\ 1 .. 0 \in P /\ 0 \in 0 .. n /\ n \in 0 .. n
  BY <1>1
<1>11. K[0] = <<>> /\ K[n] = g[1 .. n]
  BY <1>9, <1>10
<1>12. ASSUME NEW i \in 1 .. n PROVE K[i] = Suggest(u, K[i - 1], s[i])
  <2>1. i \in 0 .. n /\ i - 1 \in 0 .. n
    BY <1>1
  <2>2. 1 .. i \in P /\ 1 .. i # {} /\ Max(1 .. i) = i /\ (1 .. i) \ {Max(1 .. i)} = 1 .. i - 1
    BY <1>1, FirstNumbers
  <2>3. g[1 .. i] = Suggest(u, g[1 .. i - 1], s[i])
    BY <1>9, <2>2
  <2>. QED
    BY <2>1, <2>3
<1>. HIDE DEF K
<1>. QED
  BY <1>8, <1>11, <1>12

\* The loop of compute_common_friends over common friends s.
LEMMA InsertTurns ==
  ASSUME NEW s \in Seq(Users)
  PROVE  \E K : /\ K[0] = <<>>
                /\ \A i \in 1 .. Len(s) : K[i] = InsertById(K[i - 1], s[i])
                /\ FoldLeft(InsertById, <<>>, s) = K[Len(s)]
<1>. DEFINE n == Len(s)
            S == Seq(Users)
            F == [x \in (1 .. n) \X S |-> InsertById(x[2], s[x[1]])]
            Val(g, T) == IF T = {} THEN <<>> ELSE InsertById(g[T \ {Max(T)}], s[Max(T)])
            P == SUBSET (1 .. n)
<1>1. n \in Nat /\ DOMAIN s = 1 .. n /\ \A i \in 1 .. n : s[i] \in Users
  BY IndicesOfSeq, ElementOfSeq
<1>2. <<>> \in S
  BY EmptySeq
<1>3. ASSUME NEW i \in 1 .. n, NEW a \in S
      PROVE  F[<<i, a>>] = InsertById(a, s[i]) /\ F[<<i, a>>] \in S
  <2>1. F[<<i, a>>] = InsertById(a, s[i])
    OBVIOUS
  <2>. QED
    BY <1>1, <2>1, InsertByIdType
<1>. HIDE DEF F
<1>4. PICK G : FoldOf(G, F, n, <<>>, S)
  <2>1. FoldStep(F, n, S)
    BY <1>3 DEF FoldStep
  <2>. HIDE DEF n, S
  <2>. QED
    BY <1>1, <1>2, <2>1, FoldExists
<1>5. \A T \in P : T # {} => Max(T) \in 1 .. n /\ T \ {Max(T)} \in P
  BY <1>1, GreatestAndRest
<1>6. G = [T \in P |-> Val(G, T)]
  <2>. HIDE DEF P
  <2>3. /\ G = [T \in P |-> IF T = {} THEN <<>> ELSE F[<<Max(T), G[T \ {Max(T)}]>>]]
        /\ \A T \in P : G[T] \in S
    BY <1>4 DEF FoldOf, P
  <2>1. \A T \in P : G[T] = Val(G, T)
    BY <1>3, <1>5, <2>3
  <2>2. G = [T \in P |-> G[T]]
    BY <2>3
  <2>. QED
    BY <2>1, <2>2
<1>. DEFINE g == CHOOSE f : f = [T \in P |-> Val(f, T)]
<1>7. g = [T \in P |-> Val(g, T)]
  BY <1>6
<1>8. FoldLeft(InsertById, <<>>, s) = g[1 .. n]
  BY <1>1 DEF FoldLeft, MapThenFoldSet
<1>. HIDE DEF g
<1>9. \A T \in P : g[T] = Val(g, T)
  BY <1>7
<1>. DEFINE K == [i \in 0 .. n |-> g[1 .. i]]
<1>10. 1 .. 0 = {} /\ 1 .. 0 \in P /\ 0 \in 0 .. n /\ n \in 0 .. n
  BY <1>1
<1>11. K[0] = <<>> /\ K[n] = g[1 .. n]
  BY <1>9, <1>10
<1>12. ASSUME NEW i \in 1 .. n PROVE K[i] = InsertById(K[i - 1], s[i])
  <2>1. i \in 0 .. n /\ i - 1 \in 0 .. n
    BY <1>1
  <2>2. 1 .. i \in P /\ 1 .. i # {} /\ Max(1 .. i) = i /\ (1 .. i) \ {Max(1 .. i)} = 1 .. i - 1
    BY <1>1, FirstNumbers
  <2>3. g[1 .. i] = InsertById(g[1 .. i - 1], s[i])
    BY <1>9, <2>2
  <2>. QED
    BY <2>1, <2>3
<1>. HIDE DEF K
<1>. QED
  BY <1>8, <1>11, <1>12

\* What compute_popular remembers.
Best == [user : Users, number : Nat]

LEMMA MorePopularType ==
  ASSUME \A f \in Users : friendsNumber[f] \in Nat, NEW b \in Best, NEW f \in Users
  PROVE  MorePopular(b, f) \in Best
BY DEF MorePopular, Best

\* The loop of compute_popular over friends s.
LEMMA PopularTurns ==
  ASSUME NEW s \in Seq(Users), NEW b \in Best, \A f \in Users : friendsNumber[f] \in Nat
  PROVE  \E K : /\ K[0] = b
                /\ \A i \in 1 .. Len(s) : K[i] = MorePopular(K[i - 1], s[i])
                /\ FoldLeft(MorePopular, b, s) = K[Len(s)]
<1>. DEFINE n == Len(s)
            S == Best
            F == [x \in (1 .. n) \X S |-> MorePopular(x[2], s[x[1]])]
            Val(g, T) == IF T = {} THEN b ELSE MorePopular(g[T \ {Max(T)}], s[Max(T)])
            P == SUBSET (1 .. n)
<1>1. n \in Nat /\ DOMAIN s = 1 .. n /\ \A i \in 1 .. n : s[i] \in Users
  BY IndicesOfSeq, ElementOfSeq
<1>2. b \in S
  OBVIOUS
<1>3. ASSUME NEW i \in 1 .. n, NEW a \in S
      PROVE  F[<<i, a>>] = MorePopular(a, s[i]) /\ F[<<i, a>>] \in S
  <2>1. F[<<i, a>>] = MorePopular(a, s[i])
    OBVIOUS
  <2>. QED
    BY <1>1, <2>1, MorePopularType
<1>. HIDE DEF F
<1>4. PICK G : FoldOf(G, F, n, b, S)
  <2>1. FoldStep(F, n, S)
    BY <1>3 DEF FoldStep
  <2>. HIDE DEF n, S
  <2>. QED
    BY <1>1, <1>2, <2>1, FoldExists
<1>5. \A T \in P : T # {} => Max(T) \in 1 .. n /\ T \ {Max(T)} \in P
  BY <1>1, GreatestAndRest
<1>6. G = [T \in P |-> Val(G, T)]
  <2>. HIDE DEF P
  <2>3. /\ G = [T \in P |-> IF T = {} THEN b ELSE F[<<Max(T), G[T \ {Max(T)}]>>]]
        /\ \A T \in P : G[T] \in S
    BY <1>4 DEF FoldOf, P
  <2>1. \A T \in P : G[T] = Val(G, T)
    BY <1>3, <1>5, <2>3
  <2>2. G = [T \in P |-> G[T]]
    BY <2>3
  <2>. QED
    BY <2>1, <2>2
<1>. DEFINE g == CHOOSE f : f = [T \in P |-> Val(f, T)]
<1>7. g = [T \in P |-> Val(g, T)]
  BY <1>6
<1>8. FoldLeft(MorePopular, b, s) = g[1 .. n]
  BY <1>1 DEF FoldLeft, MapThenFoldSet
<1>. HIDE DEF g
<1>9. \A T \in P : g[T] = Val(g, T)
  BY <1>7
<1>. DEFINE K == [i \in 0 .. n |-> g[1 .. i]]
<1>10. 1 .. 0 = {} /\ 1 .. 0 \in P /\ 0 \in 0 .. n /\ n \in 0 .. n
  BY <1>1
<1>11. K[0] = b /\ K[n] = g[1 .. n]
  BY <1>9, <1>10
<1>12. ASSUME NEW i \in 1 .. n PROVE K[i] = MorePopular(K[i - 1], s[i])
  <2>1. i \in 0 .. n /\ i - 1 \in 0 .. n
    BY <1>1
  <2>2. 1 .. i \in P /\ 1 .. i # {} /\ Max(1 .. i) = i /\ (1 .. i) \ {Max(1 .. i)} = 1 .. i - 1
    BY <1>1, FirstNumbers
  <2>3. g[1 .. i] = MorePopular(g[1 .. i - 1], s[i])
    BY <1>9, <2>2
  <2>. QED
    BY <2>1, <2>3
<1>. HIDE DEF K
<1>. QED
  BY <1>8, <1>11, <1>12

\* Elements of the beginning of a sequence.
Among(s, i) == {s[j] : j \in 1 .. i}

LEMMA AmongIs ==
  ASSUME NEW S, NEW s \in Seq(S)
  PROVE  /\ Among(s, 0) = {} /\ Among(s, Len(s)) = ToSet(s)
         /\ \A i \in 1 .. Len(s) : /\ i - 1 \in 0 .. Len(s) /\ s[i] \in S
                                   /\ Among(s, i) = Among(s, i - 1) \cup {s[i]}
<1>1. Len(s) \in Nat /\ ToSet(s) = {s[i] : i \in 1 .. Len(s)} /\ \A i \in 1 .. Len(s) : s[i] \in S
  BY IndicesOfSeq, ElementOfSeq
<1>2. ASSUME NEW i \in 1 .. Len(s)
      PROVE  Among(s, i) = Among(s, i - 1) \cup {s[i]}
  <2>1. 1 .. i = (1 .. i - 1) \cup {i}
    BY <1>1
  <2>. QED
    BY <2>1 DEF Among
<1>3. Among(s, 0) = {}
  BY DEF Among
<1>4. Among(s, Len(s)) = ToSet(s)
  BY <1>1 DEF Among
<1>. QED
  BY <1>1, <1>2, <1>3, <1>4

\* All turns of compute_suggestions together.
LEMMA SuggestAll ==
  ASSUME NEW u, NEW s \in Seq(Users), NEW K, K[0] = <<>>,
         \A i \in 1 .. Len(s) : K[i] = Suggest(u, K[i - 1], s[i])
  PROVE  IsInOrder(K[Len(s)], ToSet(s) \ Circle(u))
<1>. DEFINE n == Len(s)
            OK(i) == /\ K[i] \in Seq(Users) /\ Ascending(K[i])
                     /\ ToSet(K[i]) = Among(s, i) \ Circle(u)
            Bad == {i \in 0 .. n : ~OK(i)}
<1>1. n \in Nat
  BY IndicesOfSeq
<1>2. OK(0)
  BY AmongIs, EmptySeq DEF Ascending, ToSet
<1>3. ASSUME NEW i \in 1 .. n, OK(i - 1) PROVE OK(i)
  <2>1. s[i] \in Users /\ Among(s, i) = Among(s, i - 1) \cup {s[i]}
    BY AmongIs
  <2>2. /\ Suggest(u, K[i - 1], s[i]) \in Seq(Users)
        /\ Ascending(Suggest(u, K[i - 1], s[i]))
        /\ ToSet(Suggest(u, K[i - 1], s[i])) = ToSet(K[i - 1]) \cup ({s[i]} \ Circle(u))
    BY <1>3, <2>1, SuggestType, SuggestIs
  <2>3. K[i] = Suggest(u, K[i - 1], s[i])
    OBVIOUS
  <2>. QED
    BY <1>3, <2>1, <2>2, <2>3
<1>. HIDE DEF OK
<1>4. Bad = {}
  <2>1. SUFFICES ASSUME Bad # {} PROVE FALSE
    OBVIOUS
  <2>2. Bad \in SUBSET Nat
    BY <1>1
  <2>3. PICK i \in Bad : \A j \in Bad : i <= j
    BY <2>1, <2>2, LeastExists
  <2>4. i \in 0 .. n /\ ~OK(i) /\ i # 0
    BY <1>2, <2>3
  <2>5. i \in 1 .. n /\ i - 1 \in 0 .. n /\ ~(i <= i - 1)
    BY <1>1, <2>4
  <2>6. OK(i - 1)
    BY <2>3, <2>5
  <2>. QED
    BY <1>3, <2>4, <2>5, <2>6
<1>5. OK(n)
  BY <1>1, <1>4
<1>. QED
  BY <1>5, AmongIs DEF OK, IsInOrder, Ascending

\* All turns of compute_common_friends together, for friends without repetition.
LEMMA InsertAll ==
  ASSUME NEW s \in Seq(Users), IsInjective(s), NEW K, K[0] = <<>>,
         \A i \in 1 .. Len(s) : K[i] = InsertById(K[i - 1], s[i])
  PROVE  IsInOrder(K[Len(s)], ToSet(s))
<1>. DEFINE n == Len(s)
            OK(i) == K[i] \in Seq(Users) /\ Ascending(K[i]) /\ ToSet(K[i]) = Among(s, i)
            Bad == {i \in 0 .. n : ~OK(i)}
<1>1. n \in Nat /\ DOMAIN s = 1 .. n
  BY IndicesOfSeq
<1>2. OK(0)
  BY AmongIs, EmptySeq DEF Ascending, ToSet
<1>3. ASSUME NEW i \in 1 .. n, OK(i - 1) PROVE OK(i)
  <2>1. s[i] \in Users /\ Among(s, i) = Among(s, i - 1) \cup {s[i]}
    BY AmongIs
  <2>2. s[i] \notin Among(s, i - 1)
    <3>1. \A j \in 1 .. i - 1 : j \in 1 .. n /\ j # i
      BY <1>1
    <3>2. \A j \in 1 .. i - 1 : s[j] # s[i]
      BY <1>1, <3>1 DEF IsInjective
    <3>. QED
      BY <3>2 DEF Among
  <2>3. /\ InsertById(K[i - 1], s[i]) \in Seq(Users)
        /\ Ascending(InsertById(K[i - 1], s[i]))
        /\ ToSet(InsertById(K[i - 1], s[i])) = ToSet(K[i - 1]) \cup {s[i]}
    BY <1>3, <2>1, <2>2, InsertByIdType, InsertByIdIs
  <2>4. K[i] = InsertById(K[i - 1], s[i])
    OBVIOUS
  <2>. QED
    BY <1>3, <2>1, <2>3, <2>4
<1>. HIDE DEF OK
<1>4. Bad = {}
  <2>1. SUFFICES ASSUME Bad # {} PROVE FALSE
    OBVIOUS
  <2>2. Bad \in SUBSET Nat
    BY <1>1
  <2>3. PICK i \in Bad : \A j \in Bad : i <= j
    BY <2>1, <2>2, LeastExists
  <2>4. i \in 0 .. n /\ ~OK(i) /\ i # 0
    BY <1>2, <2>3
  <2>5. i \in 1 .. n /\ i - 1 \in 0 .. n /\ ~(i <= i - 1)
    BY <1>1, <2>4
  <2>6. OK(i - 1)
    BY <2>3, <2>5
  <2>. QED
    BY <1>3, <2>4, <2>5, <2>6
<1>5. OK(n)
  BY <1>1, <1>4
<1>. QED
  BY <1>5, AmongIs DEF OK, IsInOrder, Ascending

\* The best of users F has the most friends, and of those the least number.
BestOf(b, F) ==
  /\ b.user \in F /\ b.number = friendsNumber[b.user]
  /\ \A f \in F : \/ friendsNumber[f] < b.number
                  \/ friendsNumber[f] = b.number /\ b.user <= f

LEMMA MorePopularIs ==
  ASSUME \A f \in Users : friendsNumber[f] \in Nat, NEW F \in SUBSET Users, NEW b \in Best,
         BestOf(b, F), NEW v \in Users
  PROVE  BestOf(MorePopular(b, v), F \cup {v})
<1>1. Users \subseteq Int
  BY UsersAssumption DEF Users
<1>2. b.user \in Int /\ b.number \in Nat /\ v \in Int /\ friendsNumber[v] \in Nat
  BY <1>1 DEF Best
<1>3. \A f \in F : f \in Int /\ friendsNumber[f] \in Nat
  BY <1>1
<1>4. CASE friendsNumber[v] > b.number \/ (friendsNumber[v] = b.number /\ v < b.user)
  <2>1. /\ MorePopular(b, v).user = v /\ MorePopular(b, v).number = friendsNumber[v]
    BY <1>4 DEF MorePopular
  <2>2. \A f \in F : friendsNumber[f] < friendsNumber[v] \/ (friendsNumber[f] = friendsNumber[v] /\ v <= f)
    BY <1>2, <1>3, <1>4 DEF BestOf
  <2>. QED
    BY <1>2, <2>1, <2>2 DEF BestOf
<1>5. CASE ~(friendsNumber[v] > b.number \/ (friendsNumber[v] = b.number /\ v < b.user))
  <2>1. MorePopular(b, v) = b
    BY <1>5 DEF MorePopular
  <2>2. friendsNumber[v] < b.number \/ (friendsNumber[v] = b.number /\ b.user <= v)
    BY <1>2, <1>5
  <2>. QED
    BY <2>1, <2>2 DEF BestOf
<1>. QED
  BY <1>4, <1>5

\* All turns of compute_popular together; every friend of somebody has a friend.
LEMMA PopularAll ==
  ASSUME \A f \in Users : friendsNumber[f] \in Nat,
         NEW s \in Seq(Users), s # <<>>, friendsNumber[s[1]] > 0,
         NEW K, K[0] = [user |-> s[1], number |-> 0],
         \A i \in 1 .. Len(s) : K[i] = MorePopular(K[i - 1], s[i])
  PROVE  BestOf(K[Len(s)], ToSet(s))
<1>. DEFINE n == Len(s)
            OK(i) == K[i] \in Best /\ BestOf(K[i], Among(s, i))
            Bad == {i \in 1 .. n : ~OK(i)}
<1>1. n \in Nat /\ n >= 1
  BY IndicesOfSeq, EmptySeq
<1>2. OK(1)
  <2>1. 1 \in 1 .. n /\ 1 - 1 = 0
    BY <1>1
  <2>2. s[1] \in Users /\ friendsNumber[s[1]] \in Nat
    BY <2>1, AmongIs
  <2>3. Among(s, 1) = {s[1]}
    BY <2>1, AmongIs
  <2>4. K[1] = MorePopular(K[0], s[1])
    BY <2>1
  <2>5. K[1] = [user |-> s[1], number |-> friendsNumber[s[1]]]
    BY <2>2, <2>4 DEF MorePopular
  <2>6. s[1] \in Int
    BY <2>2, UsersAssumption DEF Users
  <2>. QED
    BY <2>2, <2>3, <2>5, <2>6 DEF BestOf, Best
<1>3. ASSUME NEW i \in 1 .. n, i # 1, OK(i - 1) PROVE OK(i)
  <2>1. s[i] \in Users /\ Among(s, i) = Among(s, i - 1) \cup {s[i]}
    BY AmongIs
  <2>2. Among(s, i - 1) \in SUBSET Users
    <3>1. \A j \in 1 .. i - 1 : j \in 1 .. n
      BY <1>1
    <3>. QED
      BY <3>1, AmongIs DEF Among
  <2>3. K[i] = MorePopular(K[i - 1], s[i])
    OBVIOUS
  <2>. QED
    BY <1>3, <2>1, <2>2, <2>3, MorePopularType, MorePopularIs
<1>. HIDE DEF OK
<1>4. Bad = {}
  <2>1. SUFFICES ASSUME Bad # {} PROVE FALSE
    OBVIOUS
  <2>2. Bad \in SUBSET Nat
    BY <1>1
  <2>3. PICK i \in Bad : \A j \in Bad : i <= j
    BY <2>1, <2>2, LeastExists
  <2>4. i \in 1 .. n /\ ~OK(i) /\ i # 1
    BY <1>2, <2>3
  <2>5. i - 1 \in 1 .. n /\ ~(i <= i - 1)
    BY <1>1, <2>4
  <2>6. OK(i - 1)
    BY <2>3, <2>5
  <2>. QED
    BY <1>3, <2>4, <2>6
<1>5. OK(n)
  BY <1>1, <1>4
<1>. QED
  BY <1>5, AmongIs DEF OK

\* "suggestions" lists the friends of friends.
LEMMA SuggestionsAre ==
  ASSUME Mutual, NEW u \in Users
  PROVE  IsInOrder(Suggestions(u),
                   {v \in Users : \E f \in ToSet(friendsOf[u]) : IsMyFriend(f, v)} \ Circle(u))
<1>. DEFINE a == friendsOf[u]
            n == Len(a)
            ss == [i \in DOMAIN a |-> friendsOf[a[i]]]
            s == FlattenSeq(ss)
            Two == {v \in Users : \E f \in ToSet(a) : IsMyFriend(f, v)}
<1>1. \A f \in Users : friendsOf[f] \in Seq(Users)
  BY DEF Mutual, FriendList
<1>2. /\ n \in Nat /\ DOMAIN a = 1 .. n /\ ToSet(a) = {a[i] : i \in 1 .. n}
      /\ \A i \in 1 .. n : a[i] \in Users
  BY <1>1, IndicesOfSeq, ElementOfSeq
<1>3. ss = [i \in 1 .. n |-> ss[i]] /\ \A i \in 1 .. n : ss[i] = friendsOf[a[i]]
  BY <1>2
<1>4. Suggestions(u) = SuggestedFrom(u, s)
  BY DEF Suggestions, SuggestedFrom
<1>. HIDE DEF ss, n, a
<1>5. ss \in Seq({ss[i] : i \in 1 .. n}) /\ Len(ss) = n
  BY <1>2, <1>3, FunctionIsSeq
<1>6. n = 0 => ss = <<>>
  BY <1>5, EmptySeq
<1>7. \A i \in 1 .. n : ss[i] \in Seq(Users)
  BY <1>1, <1>2, <1>3
<1>8. s \in Seq(Users) /\ ToSet(s) = UNION {ToSet(ss[i]) : i \in 1 .. n}
  BY <1>2, <1>5, <1>6, <1>7, FlattenElements
<1>9. \A i \in 1 .. n : ToSet(ss[i]) \subseteq Users
  BY <1>7, IndicesOfSeq
<1>10. ToSet(s) = Two
  <2>1. \A v : v \in ToSet(s) <=> \E i \in 1 .. n : v \in ToSet(ss[i])
    BY <1>8
  <2>2. \A v : v \in Two <=> v \in Users /\ \E i \in 1 .. n : v \in ToSet(friendsOf[a[i]])
    BY <1>2 DEF IsMyFriend
  <2>3. \A v : v \in Two <=> \E i \in 1 .. n : v \in ToSet(ss[i])
    BY <1>3, <1>9, <2>2
  <2>. HIDE DEF s, Two
  <2>. QED
    BY <2>1, <2>3
<1>. HIDE DEF s
<1>11. PICK K : /\ K[0] = <<>>
                /\ \A i \in 1 .. Len(s) : K[i] = Suggest(u, K[i - 1], s[i])
                /\ SuggestedFrom(u, s) = K[Len(s)]
  BY <1>8, SuggestTurns
<1>12. IsInOrder(K[Len(s)], ToSet(s) \ Circle(u))
  BY <1>8, <1>11, SuggestAll
<1>. QED
  BY <1>4, <1>10, <1>11, <1>12 DEF a

\* "common" lists the common friends.
LEMMA CommonFriendsAre ==
  ASSUME Mutual, NEW u \in Users, NEW v \in Users
  PROVE  IsInOrder(CommonFriends(u, v), ToSet(friendsOf[u]) \cap ToSet(friendsOf[v]))
<1>. DEFINE T == {f \in Users : IsMyFriend(v, f)}
            s == Keep(friendsOf[u], T)
<1>1. /\ friendsOf[u] \in Seq(Users) /\ IsInjective(friendsOf[u])
      /\ friendsOf[v] \in Seq(Users)
  BY DEF Mutual, FriendList
<1>2. T = ToSet(friendsOf[v])
  BY <1>1, IndicesOfSeq DEF IsMyFriend
<1>3. CommonFriends(u, v) = FoldLeft(InsertById, <<>>, s)
  BY DEF CommonFriends
<1>. HIDE DEF T
<1>4. s \in Seq(Users) /\ ToSet(s) = ToSet(friendsOf[u]) \cap T /\ IsInjective(s)
  BY <1>1, KeepProperties
<1>. HIDE DEF s
<1>5. PICK K : /\ K[0] = <<>>
               /\ \A i \in 1 .. Len(s) : K[i] = InsertById(K[i - 1], s[i])
               /\ FoldLeft(InsertById, <<>>, s) = K[Len(s)]
  BY <1>4, InsertTurns
<1>6. IsInOrder(K[Len(s)], ToSet(s))
  BY <1>4, <1>5, InsertAll
<1>. QED
  BY <1>2, <1>3, <1>4, <1>5, <1>6

\* "popular" names a user with the most friends.
PopularIs(u, w) ==
  /\ w \in Circle(u)
  /\ \A v \in Circle(u) \ {w} :
       \/ Len(friendsOf[v]) < Len(friendsOf[w])
       \/ Len(friendsOf[v]) = Len(friendsOf[w]) /\ (w = u \/ (v # u /\ w < v))

LEMMA PopularIsRight ==
  ASSUME Mutual, NEW u \in Users, friendsOf[u] # <<>>
  PROVE  PopularIs(u, Popular(u))
<1>. DEFINE s == friendsOf[u]
            b == [user |-> s[1], number |-> 0]
            best == FoldLeft(MorePopular, b, s)
<1>1. s \in Seq(Users) /\ s # <<>> /\ u \notin ToSet(s) /\ ToSet(s) \subseteq Users
  BY IndicesOfSeq DEF Mutual, FriendList
<1>2. \A f \in Users : friendsNumber[f] = Len(friendsOf[f]) /\ friendsNumber[f] \in Nat
  BY IndicesOfSeq DEF Mutual, FriendList
<1>3. s[1] \in ToSet(s) /\ s[1] \in Users
  <2>. HIDE DEF s
  <2>. QED
    BY <1>1, FirstAndRest
<1>4. friendsNumber[s[1]] > 0
  <2>. DEFINE t == friendsOf[s[1]]
  <2>1. u \in ToSet(t) /\ t \in Seq(Users)
    BY <1>3 DEF Mutual, FriendList
  <2>. HIDE DEF t
  <2>2. Len(t) \in Nat /\ Len(t) # 0
    BY <2>1, IndicesOfSeq
  <2>. QED
    BY <1>2, <1>3, <2>2 DEF t
<1>5. b \in Best
  BY <1>3 DEF Best
<1>6. Popular(u) = IF best.number <= friendsNumber[u] THEN u ELSE best.user
  BY DEF Popular
<1>. HIDE DEF s
<1>7. PICK K : /\ K[0] = b
               /\ \A i \in 1 .. Len(s) : K[i] = MorePopular(K[i - 1], s[i])
               /\ FoldLeft(MorePopular, b, s) = K[Len(s)]
  <2>. HIDE DEF b
  <2>. QED
    BY <1>1, <1>2, <1>5, PopularTurns
<1>8. BestOf(best, ToSet(s))
  <2>1. \A f \in Users : friendsNumber[f] \in Nat
    BY <1>2
  <2>2. BestOf(K[Len(s)], ToSet(s))
    BY <1>1, <1>4, <1>7, <2>1, PopularAll
  <2>. QED
    BY <1>7, <2>2
<1>. HIDE DEF best, b
<1>9. /\ best.user \in ToSet(s) /\ best.number = friendsNumber[best.user]
      /\ \A f \in ToSet(s) : \/ friendsNumber[f] < best.number
                             \/ friendsNumber[f] = best.number /\ best.user <= f
  BY <1>8 DEF BestOf
<1>10. Circle(u) = {u} \cup ToSet(s)
  BY DEF Circle, s
<1>11. Users \subseteq Int
  BY UsersAssumption DEF Users
<1>12. CASE best.number <= friendsNumber[u]
  <2>1. Popular(u) = u
    BY <1>6, <1>12
  <2>2. ASSUME NEW v \in ToSet(s)
        PROVE  Len(friendsOf[v]) < Len(friendsOf[u]) \/ Len(friendsOf[v]) = Len(friendsOf[u])
    <3>1. friendsNumber[v] <= best.number /\ best.number \in Nat
      BY <1>1, <1>2, <1>9
    <3>. QED
      BY <1>1, <1>2, <1>12, <3>1
  <2>. QED
    BY <1>10, <2>1, <2>2 DEF PopularIs
<1>13. CASE ~(best.number <= friendsNumber[u])
  <2>. DEFINE w == best.user
  <2>1. Popular(u) = w /\ w \in ToSet(s) /\ w \in Users
    BY <1>1, <1>6, <1>9, <1>13
  <2>2. Len(friendsOf[u]) < Len(friendsOf[w])
    BY <1>2, <1>9, <1>13, <2>1
  <2>3. ASSUME NEW v \in ToSet(s), v # w
        PROVE  \/ Len(friendsOf[v]) < Len(friendsOf[w])
               \/ Len(friendsOf[v]) = Len(friendsOf[w]) /\ v # u /\ w < v
    <3>1. v \in Users /\ v # u /\ v \in Int /\ w \in Int
      BY <1>1, <1>11, <2>1
    <3>. QED
      BY <1>2, <1>9, <2>1, <2>3, <3>1
  <2>. QED
    BY <1>10, <2>1, <2>2, <2>3 DEF PopularIs
<1>. QED
  BY <1>12, <1>13

\* "suggestions" and "common" list whom they should in the order of their numbers, and
\* "popular" names a user with the most friends (compute_suggestions,
\* compute_common_friends, compute_popular).
THEOREM FriendListsAlwaysAnswered == FriendsSpec => []FriendListsAnswered
<1>1. FriendsInv => FriendListsAnswered
  <2>. SUFFICES ASSUME FriendsInv PROVE FriendListsAnswered
    OBVIOUS
  <2>1. Mutual
    BY DEF FriendsInv
  <2>. QED
    BY <2>1, SuggestionsAre, CommonFriendsAre, PopularIsRight, Zenon
    DEF FriendListsAnswered, PopularIs, Circle
<1>. QED
  BY <1>1, FriendsInvInit, FriendsInvNext, PTL DEF FriendsSpec

-----------------------------------------------------------------------------
\* A number is its own remainder up to a multiple of the modulus.
LEMMA RemainderOf ==
  ASSUME NEW m \in Nat, m > 0, NEW a \in Int, NEW r \in 0 .. m - 1,
         \E q \in Int : a = m * q + r
  PROVE  a % m = r
<1>. PICK q \in Int : a = m * q + r
  OBVIOUS
<1>. DEFINE p == a \div m
            t == a % m
            u == m * p
            v == m * q
            d == p - q
            e == m * d
<1>1. p \in Int /\ q \in Int /\ t \in 0 .. m - 1 /\ a = u + t /\ a = v + r
  <2>1. \A b \in Int : b \div m \in Int /\ b % m \in 0 .. m - 1 /\ b = m * (b \div m) + (b % m)
    OBVIOUS
  <2>. QED
    BY <2>1
<1>. HIDE DEF p, t
<1>2. d \in Int /\ u \in Int /\ v \in Int /\ e = u - v
  BY <1>1
<1>3. (d >= 1 => e >= m) /\ (d <= -1 => e <= -m) /\ (d = 0 => e = 0)
  <2>. HIDE DEF d
  <2>. QED
    BY <1>2
<1>. HIDE DEF d, e, u, v
<1>4. e \in Int /\ e = r - t /\ e < m /\ e > -m
  BY <1>1, <1>2
<1>5. e = 0
  BY <1>2, <1>3, <1>4
<1>. QED
  BY <1>1, <1>4, <1>5 DEF t

\* A counter that wraps counts up to its width what one that does not would count.
LEMMA CountedWraps ==
  ASSUME NEW k \in Nat
  PROVE  /\ Counted(k % UintModulus, FALSE) = (k + 1) % UintModulus
         /\ Counted(k % UintModulus, TRUE) = (k - 1) % UintModulus
<1>. DEFINE m == UintModulus
            q == k \div m
            r == k % m
<1>1. m \in Nat /\ m > 0
  BY RepostDataIs
<1>2. q \in Int /\ r \in 0 .. m - 1 /\ k = m * q + r
  <2>. HIDE DEF m
  <2>1. \A b \in Int : b \div m \in Int /\ b % m \in 0 .. m - 1 /\ b = m * (b \div m) + (b % m)
    BY <1>1
  <2>. QED
    BY <2>1
<1>3. Counted(k % m, FALSE) = (r + 1) % m /\ Counted(k % m, TRUE) = (r - 1) % m
  BY DEF Counted
<1>. HIDE DEF m, q, r
<1>4. (r + 1) % m = (k + 1) % m
  <2>1. CASE r + 1 < m
    <3>1. /\ r + 1 \in 0 .. m - 1 /\ r + 1 \in Int /\ k + 1 \in Int
          /\ r + 1 = m * 0 + (r + 1) /\ k + 1 = m * q + (r + 1)
      BY <1>1, <1>2, <2>1
    <3>2. (r + 1) % m = r + 1
      <4>1. \E j \in Int : r + 1 = m * j + (r + 1)
        BY <3>1
      <4>. QED
        BY <1>1, <3>1, <4>1, RemainderOf
    <3>3. (k + 1) % m = r + 1
      <4>1. \E j \in Int : k + 1 = m * j + (r + 1)
        BY <1>2, <3>1
      <4>. QED
        BY <1>1, <3>1, <4>1, RemainderOf
    <3>. QED
      BY <3>2, <3>3
  <2>2. CASE r + 1 = m
    <3>1. /\ 0 \in 0 .. m - 1 /\ r + 1 \in Int /\ k + 1 \in Int
          /\ r + 1 = m * 1 + 0 /\ k + 1 = m * (q + 1) + 0 /\ q + 1 \in Int
      BY <1>1, <1>2, <2>2
    <3>2. (r + 1) % m = 0
      <4>1. \E j \in Int : r + 1 = m * j + 0
        BY <3>1
      <4>. QED
        BY <1>1, <3>1, <4>1, RemainderOf
    <3>3. (k + 1) % m = 0
      <4>1. \E j \in Int : k + 1 = m * j + 0
        BY <3>1
      <4>. QED
        BY <1>1, <3>1, <4>1, RemainderOf
    <3>. QED
      BY <3>2, <3>3
  <2>. QED
    BY <1>1, <1>2, <2>1, <2>2
<1>5. (r - 1) % m = (k - 1) % m
  <2>1. CASE r >= 1
    <3>1. /\ r - 1 \in 0 .. m - 1 /\ r - 1 \in Int /\ k - 1 \in Int
          /\ r - 1 = m * 0 + (r - 1) /\ k - 1 = m * q + (r - 1)
      BY <1>1, <1>2, <2>1
    <3>2. (r - 1) % m = r - 1
      <4>1. \E j \in Int : r - 1 = m * j + (r - 1)
        BY <3>1
      <4>. QED
        BY <1>1, <3>1, <4>1, RemainderOf
    <3>3. (k - 1) % m = r - 1
      <4>1. \E j \in Int : k - 1 = m * j + (r - 1)
        BY <1>2, <3>1
      <4>. QED
        BY <1>1, <3>1, <4>1, RemainderOf
    <3>. QED
      BY <3>2, <3>3
  <2>2. CASE r = 0
    <3>1. /\ m - 1 \in 0 .. m - 1 /\ r - 1 \in Int /\ k - 1 \in Int
          /\ r - 1 = m * (-1) + (m - 1) /\ k - 1 = m * (q - 1) + (m - 1) /\ q - 1 \in Int
      BY <1>1, <1>2, <2>2
    <3>2. (r - 1) % m = m - 1
      <4>1. \E j \in Int : r - 1 = m * j + (m - 1)
        BY <3>1
      <4>. QED
        BY <1>1, <3>1, <4>1, RemainderOf
    <3>3. (k - 1) % m = m - 1
      <4>1. \E j \in Int : k - 1 = m * j + (m - 1)
        BY <1>2, <3>1
      <4>. QED
        BY <1>1, <3>1, <4>1, RemainderOf
    <3>. QED
      BY <3>2, <3>3
  <2>. QED
    BY <1>1, <1>2, <2>1, <2>2
<1>. QED
  BY <1>3, <1>4, <1>5 DEF m

\* Every like recorded is of a node of the tree of the post it was for, or of one
\* deleted; who likes something, or has the mark of a post, gave a like for it; and
\* a user who likes one node only has the mark of the post if and only if the like
\* was not taken back.
LikesRecorded ==
  /\ likesOf \in [Ids -> SUBSET Users] /\ named \in [Ids -> SUBSET (Users \X Ids)]
  /\ \A p \in Ids : \A a \in named[p] : a[2] < pendingPostId
  /\ \A p \in Posted : \A n \in Descendants(p) : \A q \in Ids, u \in Users :
       <<u, n>> \in named[q] => q = p
  /\ \A n \in Ids : \A u \in likesOf[n] : \E p \in Ids : <<u, n>> \in named[p]
  /\ \A p \in Ids : \A u \in liked[p] : \E n \in Ids : <<u, n>> \in named[p]
  /\ \A p \in Ids : LikedApart(p) =>
       \A a \in named[p] : a[1] \in likesOf[a[2]] <=> a[1] \in liked[p]

HistoryInv == PostsInv /\ LikesRecorded /\ LikesCounted

\* Nothing is liked at first.
LEMMA HistoryInvInit ==
  ASSUME HistoryInit
  PROVE  HistoryInv
<1>1. PostsInv /\ Posted = {}
  BY PostsInvInit DEF HistoryInit, Init, PostsInit, Posted
<1>2. /\ \A n \in Ids : likesOf[n] = {} /\ named[n] = {} /\ liked[n] = {}
      /\ likesOf \in [Ids -> SUBSET Users] /\ named \in [Ids -> SUBSET (Users \X Ids)]
  BY DEF HistoryInit, Init, PostsInit
<1>. QED
  BY <1>1, <1>2 DEF HistoryInv, LikesRecorded, LikesCounted

\* Posts have identifiers, in the next state.
LEMMA PostedThen ==
  PostsInv' => (Posted \subseteq Ids /\ KidsAbove)'
<1>1. PostsInv => Posted \subseteq Ids /\ KidsAbove
  BY PostedAre DEF PostsInv, RepostsHang
<1>. QED
  BY <1>1, PTL

\* A step that gives no like: the nodes there are then were there and show the same
\* likes, or have a new number and show none.
Quiet ==
  /\ UNCHANGED <<liked, likesOf, named>> /\ pendingPostId' >= pendingPostId
  /\ \A p \in Posted' : \A n \in Descendants(p)' :
       \/ p \in Posted /\ n \in Descendants(p) /\ LikesShown(p, n)' = LikesShown(p, n)
       \/ n = pendingPostId /\ LikesShown(p, n)' = 0

LEMMA QuietKeeps ==
  ASSUME HistoryInv, PostsInv', Quiet
  PROVE  HistoryInv'
<1>1. /\ UNCHANGED <<liked, likesOf, named>>
      /\ pendingPostId \in Nat /\ pendingPostId' \in Nat /\ pendingPostId' >= pendingPostId
      /\ \A n \in Ids : n \in Nat
  BY IdsAreNumbers DEF Quiet, HistoryInv, PostsInv, PostsListed
<1>2. ASSUME NEW p \in Ids, NEW a \in named[p] PROVE a[2] < pendingPostId /\ a[2] < pendingPostId'
  <2>1. a[2] \in Nat /\ a[2] < pendingPostId
    BY <1>1 DEF HistoryInv, LikesRecorded
  <2>. QED
    BY <1>1, <2>1
<1>3. \A p \in Ids, u \in Users : <<u, pendingPostId>> \notin named[p]
  <2>. SUFFICES ASSUME NEW p \in Ids, NEW u \in Users, <<u, pendingPostId>> \in named[p]
                PROVE  FALSE
    OBVIOUS
  <2>1. <<u, pendingPostId>>[2] < pendingPostId
    BY <1>2
  <2>. QED
    BY <1>1, <2>1
<1>5. ASSUME NEW p \in Posted', NEW n \in Descendants(p)', NEW q \in Ids, NEW u \in Users,
             <<u, n>> \in named'[q]
      PROVE  q = p
  <2>1. n # pendingPostId
    BY <1>1, <1>3, <1>5
  <2>2. p \in Posted /\ n \in Descendants(p)
    BY <1>5, <2>1 DEF Quiet
  <2>. QED
    BY <1>1, <1>5, <2>2 DEF HistoryInv, LikesRecorded
<1>6. LikesRecorded'
  <2>1. \A p \in Ids : LikedApart(p)' <=> LikedApart(p)
    BY <1>1 DEF LikedApart
  <2>. QED
    BY <1>1, <1>2, <1>5, <2>1 DEF HistoryInv, LikesRecorded
<1>7. ASSUME NEW p \in Posted', LikedApart(p)', NEW n \in Descendants(p)'
      PROVE  LikesShown(p, n)' = Cardinality(likesOf'[n]) % UintModulus
  <2>1. CASE p \in Posted /\ n \in Descendants(p) /\ LikesShown(p, n)' = LikesShown(p, n)
    BY <1>1, <1>7, <2>1 DEF LikedApart, HistoryInv, LikesCounted
  <2>2. CASE n = pendingPostId /\ LikesShown(p, n)' = 0
    <3>1. n \in Ids
      <4>1. p \in Ids /\ KidsAbove'
        BY PostedThen
      <4>. QED
        BY <4>1, LevelThen
    <3>2. likesOf[n] = {}
      <4>1. likesOf[n] \subseteq Users
            /\ \A u \in likesOf[n] : \E q \in Ids : <<u, n>> \in named[q]
        BY <3>1 DEF HistoryInv, LikesRecorded
      <4>. QED
        BY <1>3, <2>2, <4>1
    <3>3. 0 % UintModulus = 0
      <4>1. UintModulus \in Nat /\ UintModulus > 0
        BY RepostDataIs
      <4>. QED
        BY <4>1
    <3>. QED
      BY <1>1, <2>2, <3>2, <3>3, FS_EmptySet
  <2>. QED
    BY <1>7, <2>1, <2>2 DEF Quiet
<1>. QED
  BY <1>6, <1>7 DEF HistoryInv, LikesCounted

\* What is shown of the nodes of a tree, in the next state too.
LEMMA ShownOfNodes ==
  /\ \A p, n : LikesShown(p, n) = IF n = p THEN OwnLikes(p) ELSE reposts[n].likes
  /\ \A p, n : LikesShown(p, n)' = IF n = p THEN OwnLikes(p)' ELSE reposts'[n].likes
BY DEF LikesShown, OwnLikes

\* A new post shows no likes.
LEMMA CreatePostQuiet ==
  ASSUME PostsInv, NEW u \in Members, CreatePost(u), UNCHANGED <<likesOf, named>>
  PROVE  Quiet
<1>0. PICK c : c = pendingPostId
  OBVIOUS
<1>. DEFINE d == [postId |-> c, owner |-> u, likes |-> 0, rootId |-> 0]
            n == Len(postList)
<1>1. /\ PostsInv' /\ Posted' = Posted \cup {c}
      /\ postList' = Append(postList, d) /\ UNCHANGED <<reposts, children, liked>>
      /\ c \in Ids /\ c \in Nat /\ pendingPostId' = c + 1
  BY <1>0, CreatePostKeeps, IdsAreNumbers DEF CreatePost, IdLeft, PostsInv, PostsListed
<1>2. /\ n \in Nat /\ DOMAIN postList = 1 .. n /\ postList \in Seq(PostData)
      /\ Posted \subseteq Ids /\ KidsAbove
  BY PostedAre DEF PostsInv, PostsListed, RepostsHang
<1>3. /\ DOMAIN postList' = 1 .. n + 1 /\ \A i \in 1 .. n : postList'[i] = postList[i]
      /\ postList'[n + 1] = d
  <2>1. d \in PostData
    BY <1>1, PostsAssumption, RepostDataIs DEF PostData
  <2>. HIDE DEF d
  <2>2. /\ Len(postList') = n + 1 /\ \A i \in 1 .. n : postList'[i] = postList[i]
        /\ postList' \in Seq(PostData) /\ postList'[n + 1] = d
    BY <1>1, <1>2, <2>1, AppendProperties
  <2>. QED
    BY <2>2, LenProperties
<1>4. \A p \in Posted : OwnLikes(p)' = OwnLikes(p)
  <2>1. 1 .. n \subseteq 1 .. n + 1
    BY <1>2
  <2>. HIDE DEF n
  <2>. QED
    BY <1>1, <1>2, <1>3, <2>1, AllOwnLikesKept
<1>5. OwnLikes(c)' = 0
  <2>1. n + 1 \in DOMAIN postList' /\ postList'[n + 1].postId = c /\ postList'[n + 1].likes = 0
    BY <1>2, <1>3
  <2>. HIDE DEF n, d
  <2>. QED
    BY <1>1, <2>1, OwnLikesAreThen
<1>6. Descendants(c)' = {c}
  <2>1. Kids(c) = {}
    <3>1. c \notin Posted \cup Living
      BY <1>0, <1>1, <1>2, IdsAreNumbers DEF PostsInv, PostsListed, RepostsHang
    <3>. QED
      BY <1>1, <3>1 DEF PostsInv, RepostsHang
  <2>2. Descendants(c) = {c}
    BY <1>1, <1>2, <2>1, DescendantsLevel
  <2>. QED
    BY <1>1, <2>2, SameLists
<1>. HIDE DEF n, d
<1>7. ASSUME NEW p \in Posted', NEW m \in Descendants(p)'
      PROVE  \/ p \in Posted /\ m \in Descendants(p) /\ LikesShown(p, m)' = LikesShown(p, m)
             \/ m = c /\ LikesShown(p, m)' = 0
  <2>1. CASE p \in Posted
    <3>1. m \in Descendants(p)
      BY <1>1, <1>2, <1>7, <2>1, SameLists
    <3>. QED
      BY <1>1, <1>4, <2>1, <3>1, ShownOfNodes
  <2>2. CASE p = c
    BY <1>5, <1>6, <1>7, <2>2, ShownOfNodes
  <2>. QED
    BY <1>1, <2>1, <2>2
<1>8. pendingPostId' >= pendingPostId
  BY <1>0, <1>1
<1>. QED
  BY <1>0, <1>1, <1>7, <1>8 DEF Quiet

\* Where the trees are the same, and what they show.
LEMMA SameLikesQuiet ==
  ASSUME PostsInv, PostsInv', UNCHANGED <<children, reposts, liked, likesOf, named>>,
         pendingPostId' >= pendingPostId, DOMAIN postList' = DOMAIN postList,
         \A k \in DOMAIN postList : /\ postList'[k].postId = postList[k].postId
                                    /\ postList'[k].likes = postList[k].likes
  PROVE  Quiet
<1>1. \A p \in Posted : OwnLikes(p)' = OwnLikes(p)
  BY AllOwnLikesKept
<1>2. Posted' = Posted /\ Posted \subseteq Ids
  BY PostedAre DEF Posted, PostsInv
<1>3. ASSUME NEW p \in Posted', NEW n \in Descendants(p)'
      PROVE  p \in Posted /\ n \in Descendants(p) /\ LikesShown(p, n)' = LikesShown(p, n)
  <2>1. p \in Posted /\ n \in Descendants(p)
    BY <1>2, <1>3, SameLists
  <2>. QED
    BY <1>1, <2>1, ShownOfNodes
<1>. QED
  BY <1>3 DEF Quiet

\* common-repost likes nothing.
LEMMA CommonRepostQuiet ==
  ASSUME PostsInv, NEW p \in Ids, NEW a, NEW b, CommonRepost(p, a, b),
         UNCHANGED <<likesOf, named>>
  PROVE  Quiet
<1>1. PostsInv' /\ UNCHANGED <<children, reposts, liked>>
  BY CommonRepostKeeps
<1>. DEFINE k == Position(p)
            e == [postList[k] EXCEPT !.rootId = p]
<1>2. postList' = postList \/ postList' = [postList EXCEPT ![k] = e]
  BY DEF CommonRepost
<1>3. k \in DOMAIN postList
  BY PositionIs DEF PostsInv, CommonRepost
<1>4. postList[k] \in PostData
  BY <1>3, PostedAre DEF PostsInv
<1>5. e.postId = postList[k].postId /\ e.likes = postList[k].likes
  <2>. HIDE DEF k
  <2>. QED
    BY <1>4 DEF PostData
<1>. HIDE DEF e, k
<1>6. /\ DOMAIN postList' = DOMAIN postList
      /\ \A i \in DOMAIN postList : /\ postList'[i].postId = postList[i].postId
                                    /\ postList'[i].likes = postList[i].likes
  BY <1>2, <1>3, <1>5
<1>7. pendingPostId' >= pendingPostId
  <2>1. pendingPostId' = pendingPostId /\ pendingPostId \in 1 .. MaxPosts
    BY DEF CommonRepost, PostsInv, PostsListed
  <2>. QED
    BY <2>1, IdsAreNumbers
<1>. QED
  BY <1>1, <1>6, <1>7, SameLikesQuiet

\* A delete of reposts leaves the others as they are.
LEMMA DeleteRepostQuiet ==
  ASSUME PostsInv, NEW q \in Ids, NEW r \in Ids, DeleteRepost(q, r), UNCHANGED <<likesOf, named>>
  PROVE  Quiet
<1>1. /\ PostsInv' /\ Posted' = Posted /\ UNCHANGED <<postList, liked>>
      /\ Living' = Living \ Lost(r)
      /\ \A n \in Ids : n \notin Lost(r) => reposts'[n] = reposts[n]
      /\ \A n \in Ids :
           children'[n] = IF n \in Lost(r) \cup {Parent(r)} THEN <<>> ELSE children[n]
  BY DeleteRepostKeeps
<1>2. Posted \subseteq Ids /\ KidsAbove /\ KidsAbove'
  BY <1>1, PostedAre, PostedThen DEF PostsInv, RepostsHang
<1>3. \A n \in Ids : Kids(n)' \subseteq Kids(n)
  BY <1>1 DEF Kids, ToSet
<1>4. \A p \in Posted : OwnLikes(p)' = OwnLikes(p)
  BY <1>1, AllOwnLikesKept
<1>5. ASSUME NEW p \in Posted', NEW n \in Descendants(p)'
      PROVE  p \in Posted /\ n \in Descendants(p) /\ LikesShown(p, n)' = LikesShown(p, n)
  <2>1. p \in Posted /\ p \in Ids
    BY <1>1, <1>2
  <2>2. n \in Descendants(p)
    <3>1. Descendants(p)' \subseteq Descendants(p) \cup {}
      BY <1>2, <1>3, <2>1, TreesGain
    <3>. QED
      BY <1>5, <3>1
  <2>3. n # p => n \in Living' /\ n \in Ids
    BY <1>1, <1>5, <2>1, RepostsAreThen DEF Reposts, Living
  <2>4. n # p => reposts'[n] = reposts[n]
    BY <1>1, <2>3
  <2>. QED
    BY <1>4, <2>1, <2>2, <2>4, ShownOfNodes
<1>6. pendingPostId' \in Nat /\ pendingPostId' = pendingPostId
  BY DEF DeleteRepost, PostsInv, PostsListed
<1>7. pendingPostId' >= pendingPostId
  BY <1>6
<1>. QED
  BY <1>1, <1>5, <1>7 DEF Quiet

\* A new repost shows no likes.
LEMMA AttachQuiet ==
  ASSUME PostsInv, PostsInv', NEW n \in Posted \cup Living, NEW d \in RepostData, d.likes = 0,
         reposts' = [reposts EXCEPT ![pendingPostId] = d],
         children' = [children EXCEPT ![n] = Append(children[n], pendingPostId)],
         pendingPostId < MaxPosts, pendingPostId' = pendingPostId + 1,
         UNCHANGED <<postList, liked, likesOf, named>>
  PROVE  Quiet
<1>0. PICK c : c = pendingPostId
  OBVIOUS
<1>1. /\ c \in Ids /\ c \in Nat /\ n \in Ids /\ Posted' = Posted /\ Posted \subseteq Ids
      /\ c \notin Posted \cup Living /\ KidsAbove /\ KidsAbove'
  <2>1. c \in Ids /\ c \in Nat
    BY <1>0, IdsAreNumbers DEF PostsInv, PostsListed
  <2>2. Posted \subseteq Ids /\ Living \subseteq Ids
    BY PostedAre DEF PostsInv, Living
  <2>3. \A q \in Posted \cup Living : q < c
    BY <1>0 DEF PostsInv, PostsListed, RepostsHang
  <2>4. c \notin Posted \cup Living
    BY <2>1, <2>3
  <2>5. Posted' = Posted /\ KidsAbove /\ KidsAbove'
    BY PostedThen DEF Posted, PostsInv, RepostsHang
  <2>. QED
    BY <2>1, <2>2, <2>4, <2>5
<1>2. c # n
  BY <1>1
<1>3. Kids(c)' = {} /\ \A m \in Ids : Kids(m)' \subseteq Kids(m) \cup {c}
  <2>1. Kids(c) = {}
    BY <1>1 DEF PostsInv, RepostsHang
  <2>. DEFINE s == children[n]
  <2>2. s \in Seq(Ids) /\ children'[n] = Append(s, c)
        /\ \A m \in Ids : m # n => children'[m] = children[m]
    BY <1>0, <1>1 DEF KidsAbove
  <2>. HIDE DEF s
  <2>3. ToSet(Append(s, c)) = ToSet(s) \cup {c}
    BY <1>1, <2>2, PushBack
  <2>4. Kids(n)' = Kids(n) \cup {c}
    BY <2>2, <2>3 DEF Kids, s
  <2>. QED
    BY <1>1, <1>2, <2>1, <2>2, <2>4 DEF Kids
<1>4. reposts'[c] = d /\ \A m \in Ids : m # c => reposts'[m] = reposts[m]
  BY <1>0, <1>1 DEF PostsInv, RepostsHang
<1>5. \A p \in Posted : OwnLikes(p)' = OwnLikes(p)
  BY AllOwnLikesKept
<1>6. ASSUME NEW p \in Posted', NEW m \in Descendants(p)'
      PROVE  \/ p \in Posted /\ m \in Descendants(p) /\ LikesShown(p, m)' = LikesShown(p, m)
             \/ m = c /\ LikesShown(p, m)' = 0
  <2>1. p \in Posted /\ p \in Ids /\ c # p
    BY <1>1
  <2>2. Descendants(p)' \subseteq Descendants(p) \cup {c}
    BY <1>1, <1>3, <2>1, TreesGain
  <2>3. CASE m = c
    BY <1>4, <2>1, <2>3, ShownOfNodes
  <2>4. CASE m # c
    <3>1. m \in Descendants(p) /\ m \in Ids
      BY <1>1, <1>6, <2>1, <2>2, <2>4, LevelThen
    <3>. QED
      BY <1>4, <1>5, <2>1, <2>4, <3>1, ShownOfNodes
  <2>. QED
    BY <2>3, <2>4
<1>7. pendingPostId' >= pendingPostId
  BY <1>0, <1>1
<1>. QED
  BY <1>0, <1>6, <1>7 DEF Quiet

\* A repost, or an attempt at one.
LEMMA CreateRepostQuiet ==
  ASSUME PostsInv, NEW u \in Members, NEW q \in Ids, NEW r \in {0} \cup Ids,
         CreateRepost(u, q, r), UNCHANGED <<likesOf, named>>
  PROVE  Quiet
<1>. DEFINE d == [user |-> u, likes |-> 0]
            n == IF r = 0 THEN q ELSE r
<1>1. /\ PostsInv' /\ UNCHANGED <<postList, liked>> /\ pendingPostId < MaxPosts /\ r # q
      /\ pendingPostId \in Nat
  BY CreateRepostKeeps DEF CreateRepost, IdLeft, PostsInv, PostsListed
<1>2. CASE q \in Posted /\ (r = 0 \/ Found(q, r))
  <2>1. d \in RepostData /\ d.likes = 0
    BY RepostDataIs, PostsAssumption
  <2>2. n \in Posted \cup Living
    BY <1>1, <1>2, FoundIsLiving DEF Found
  <2>3. /\ reposts' = [reposts EXCEPT ![pendingPostId] = d]
        /\ children' = [children EXCEPT ![n] = Append(children[n], pendingPostId)]
        /\ pendingPostId' = pendingPostId + 1
    BY <1>2 DEF CreateRepost
  <2>. HIDE DEF d, n
  <2>. QED
    BY <1>1, <2>1, <2>2, <2>3, AttachQuiet
<1>3. CASE ~(q \in Posted /\ (r = 0 \/ Found(q, r)))
  <2>1. /\ UNCHANGED <<reposts, children>>
        /\ pendingPostId' = pendingPostId \/ pendingPostId' = pendingPostId + 1
    BY <1>3 DEF CreateRepost
  <2>2. pendingPostId' >= pendingPostId
    BY <1>1, <2>1
  <2>. QED
    BY <1>1, <2>1, <2>2, SameLikesQuiet
<1>. QED
  BY <1>2, <1>3

\* A counter changes by a like as the number of those who like does.
LEMMA LikeCounts ==
  ASSUME NEW S, IsFiniteSet(S), NEW u
  PROVE  Counted(Cardinality(S) % UintModulus, u \in S)
           = Cardinality(SymDiff(S, {u})) % UintModulus
<1>. DEFINE k == Cardinality(S)
<1>1. k \in Nat
  BY FS_CardinalityType
<1>2. CASE u \in S
  <2>1. SymDiff(S, {u}) = S \ {u}
    BY <1>2 DEF SymDiff
  <2>2. Cardinality(S \ {u}) = k - 1
    BY <1>2, OneElementLess
  <2>3. (u \in S) = TRUE
    BY <1>2
  <2>. HIDE DEF k
  <2>4. Counted(k % UintModulus, TRUE) = (k - 1) % UintModulus
    BY <1>1, CountedWraps
  <2>. QED
    BY <2>1, <2>2, <2>3, <2>4 DEF k
<1>3. CASE u \notin S
  <2>1. SymDiff(S, {u}) = S \cup {u}
    BY <1>3 DEF SymDiff
  <2>2. Cardinality(S \cup {u}) = k + 1
    BY <1>3, FS_AddElement
  <2>3. (u \in S) = FALSE
    BY <1>3
  <2>. HIDE DEF k
  <2>4. Counted(k % UintModulus, FALSE) = (k + 1) % UintModulus
    BY <1>1, CountedWraps
  <2>. QED
    BY <2>1, <2>2, <2>3, <2>4 DEF k
<1>. QED
  BY <1>2, <1>3

\* A like counts where it was given, and nowhere else.
LEMMA LikeShows ==
  ASSUME PostsInv, NEW u \in Likers, NEW p \in Posted, NEW r \in {0} \cup Ids, Like(u, p, r),
         r = 0 \/ Found(p, r)
  PROVE  /\ Target(p, r) \in Descendants(p) /\ Target(p, r) \in Ids
         /\ LikesShown(p, Target(p, r))' = Counted(LikesShown(p, Target(p, r)), u \in liked[p])
         /\ \A q \in Posted : \A n \in Descendants(q) :
              n # Target(p, r) => LikesShown(q, n)' = LikesShown(q, n)
<1>1. /\ PostsInv' /\ Posted' = Posted /\ p \in Ids /\ p \in Nat /\ u \in Users /\ r # p
      /\ p \in Descendants(p) /\ KidsAbove /\ Posted \subseteq Ids
  <2>1. Posted \subseteq Ids /\ KidsAbove
    BY PostedAre DEF PostsInv, RepostsHang
  <2>. QED
    BY <2>1, LikeKeeps, PostsAssumption, DescendantsLevel, IdsAreNumbers DEF Like
<1>2. CASE r = 0
  <2>. DEFINE k == Position(p)
              l == postList[k].likes
              x == Counted(l, u \in liked[p])
              e == [postList[k] EXCEPT !.likes = x]
  <2>1. postList' = [postList EXCEPT ![k] = e] /\ UNCHANGED reposts
    BY <1>2 DEF Like
  <2>2. k \in DOMAIN postList /\ postList[k].postId = p
    BY PositionIs DEF PostsInv
  <2>3. postList[k] \in PostData
    BY <2>2, PostedAre DEF PostsInv
  <2>4. e.postId = p /\ e.likes = x
    <3>. HIDE DEF k, x
    <3>. QED
      BY <2>2, <2>3 DEF PostData
  <2>. HIDE DEF k, e, l, x
  <2>5. /\ DOMAIN postList' = DOMAIN postList /\ postList'[k] = e
        /\ \A i \in DOMAIN postList : i # k => postList'[i] = postList[i]
    BY <2>1, <2>2
  <2>6. OwnLikes(p)' = x /\ OwnLikes(p) = l
    BY <1>1, <2>2, <2>4, <2>5, OwnLikesKept DEF l
  <2>7. ASSUME NEW q \in Posted, q # p PROVE OwnLikes(q)' = OwnLikes(q)
    <3>1. PICK i \in DOMAIN postList : postList[i].postId = q
      BY DEF Posted
    <3>2. i # k /\ postList'[i] = postList[i]
      BY <2>2, <2>5, <2>7, <3>1
    <3>. QED
      BY <1>1, <2>5, <3>1, <3>2, OwnLikesKept
  <2>8. Target(p, r) = p
    BY <1>2 DEF Target
  <2>. QED
    BY <1>1, <2>1, <2>6, <2>7, <2>8, ShownOfNodes DEF x
<1>3. CASE r # 0
  <2>. DEFINE x == Counted(reposts[r].likes, u \in liked[p])
              d == [reposts[r] EXCEPT !.likes = x]
  <2>1. r \in Descendants(p) /\ r \in Living /\ r \in Ids
    BY <1>1, <1>3, FoundIsLiving DEF Found
  <2>2. postList' = postList /\ reposts' = [reposts EXCEPT ![r] = d]
    BY <1>3 DEF Like
  <2>3. reposts[r] \in RepostData
    BY <2>1 DEF Living, PostsInv, RepostsHang
  <2>4. d.likes = x
    <3>. HIDE DEF x
    <3>. QED
      BY <2>3 DEF RepostData
  <2>. HIDE DEF x, d
  <2>5. reposts'[r] = d /\ \A n \in Ids : n # r => reposts'[n] = reposts[n]
    BY <2>1, <2>2 DEF PostsInv, RepostsHang
  <2>6. \A q \in Posted : OwnLikes(q)' = OwnLikes(q)
    BY <1>1, <2>2, AllOwnLikesKept
  <2>7. \A q \in Posted : \A n \in Descendants(q) : n \in Ids
    BY <1>1, DescendantsLevel
  <2>8. Target(p, r) = r
    BY <1>3 DEF Target
  <2>. QED
    BY <1>1, <2>1, <2>4, <2>5, <2>6, <2>7, <2>8, ShownOfNodes DEF x
<1>. QED
  BY <1>2, <1>3

\* A like of a user who likes no other node of the tree finds the mark of the post as
\* the history says it is.
LEMMA MarkIsLike ==
  ASSUME HistoryInv, NEW p \in Posted, NEW t \in Descendants(p), NEW u \in Users,
         \A a \in named[p] : a[1] = u => a = <<u, t>>, LikedApart(p)
  PROVE  u \in likesOf[t] <=> u \in liked[p]
<1>1. p \in Ids /\ t \in Ids
  <2>1. Posted \subseteq Ids /\ KidsAbove
    BY PostedAre DEF HistoryInv, PostsInv, RepostsHang
  <2>. QED
    BY <2>1, DescendantsLevel
<1>2. CASE <<u, t>> \in named[p]
  <2>1. <<u, t>>[1] \in likesOf[<<u, t>>[2]] <=> <<u, t>>[1] \in liked[p]
    BY <1>1, <1>2 DEF HistoryInv, LikesRecorded
  <2>. QED
    BY <2>1
<1>3. CASE <<u, t>> \notin named[p]
  <2>1. u \notin likesOf[t]
    <3>. SUFFICES ASSUME u \in likesOf[t] PROVE FALSE
      OBVIOUS
    <3>1. PICK q \in Ids : <<u, t>> \in named[q]
      BY <1>1 DEF HistoryInv, LikesRecorded
    <3>2. q = p
      BY <3>1 DEF HistoryInv, LikesRecorded
    <3>. QED
      BY <1>3, <3>1, <3>2
  <2>2. u \notin liked[p]
    <3>. SUFFICES ASSUME u \in liked[p] PROVE FALSE
      OBVIOUS
    <3>1. PICK n \in Ids : <<u, n>> \in named[p]
      BY <1>1 DEF HistoryInv, LikesRecorded
    <3>2. <<u, n>> = <<u, t>>
      BY <3>1
    <3>. QED
      BY <1>3, <3>1, <3>2
  <2>. QED
    BY <2>1, <2>2
<1>. QED
  BY <1>2, <1>3

\* A like keeps what the history says, and the counters right.
LEMMA LikeRecordedKeeps ==
  ASSUME HistoryInv, NEW u \in Likers, NEW p \in Ids, NEW r \in {0} \cup Ids,
         LikeRecorded(u, p, r)
  PROVE  HistoryInv'
<1>. DEFINE t == Target(p, r)
<1>1. /\ PostsInv /\ p \in Posted /\ (r = 0 \/ Found(p, r)) /\ Like(u, p, r)
      /\ likesOf' = [likesOf EXCEPT ![t] = SymDiff(@, {u})]
      /\ named' = [named EXCEPT ![p] = @ \cup {<<u, t>>}]
      /\ liked' = [liked EXCEPT ![p] = SymDiff(@, {u})]
      /\ u \in Users
  BY PostsAssumption DEF HistoryInv, LikeRecorded, Like, Marked
<1>2. /\ PostsInv' /\ Posted' = Posted /\ UNCHANGED <<children, pendingPostId>>
      /\ \A n \in Ids : Descendants(n)' = Descendants(n)
      /\ Posted \subseteq Ids /\ KidsAbove
  <2>1. UNCHANGED <<children, pendingPostId>>
    BY <1>1 DEF Like
  <2>. QED
    BY <1>1, <2>1, LikeKeeps, SameLists, PostedAre DEF PostsInv, RepostsHang
<1>3. /\ t \in Descendants(p) /\ t \in Ids
      /\ LikesShown(p, t)' = Counted(LikesShown(p, t), u \in liked[p])
      /\ \A q \in Posted : \A n \in Descendants(q) :
           n # t => LikesShown(q, n)' = LikesShown(q, n)
  BY <1>1, LikeShows
<1>4. t < pendingPostId
  <2>1. t \in Posted \cup Living
    <3>1. t # p => t \in Living
      BY <1>1, <1>3, FoundIsLiving
    <3>. QED
      BY <1>1, <3>1
  <2>. QED
    BY <1>1, <2>1 DEF PostsInv, PostsListed, RepostsHang
<1>. HIDE DEF t
<1>5. /\ likesOf \in [Ids -> SUBSET Users] /\ named \in [Ids -> SUBSET (Users \X Ids)]
      /\ liked \in [Ids -> SUBSET Users]
  BY <1>1 DEF HistoryInv, LikesRecorded, PostsInv
<1>6. /\ likesOf'[t] = SymDiff(likesOf[t], {u})
      /\ \A n \in Ids : n # t => likesOf'[n] = likesOf[n]
      /\ named'[p] = named[p] \cup {<<u, t>>}
      /\ \A q \in Ids : q # p => named'[q] = named[q] /\ liked'[q] = liked[q]
      /\ liked'[p] = SymDiff(liked[p], {u})
  BY <1>1, <1>3, <1>5
<1>7. \A S, v : v \in SymDiff(S, {u}) <=> (v \in S /\ v # u) \/ (v = u /\ u \notin S)
  BY DEF SymDiff
<1>8. likesOf' \in [Ids -> SUBSET Users] /\ named' \in [Ids -> SUBSET (Users \X Ids)]
  <2>1. SymDiff(likesOf[t], {u}) \in SUBSET Users
    BY <1>1, <1>3, <1>5 DEF SymDiff
  <2>2. named[p] \cup {<<u, t>>} \in SUBSET (Users \X Ids)
    BY <1>1, <1>3, <1>5
  <2>. QED
    BY <1>1, <1>3, <1>5, <2>1, <2>2
<1>9. ASSUME NEW q \in Ids, NEW a \in named'[q] PROVE a[2] < pendingPostId'
  <2>1. a \in named[q] \/ (q = p /\ a = <<u, t>>)
    BY <1>6, <1>9
  <2>2. CASE a \in named[q]
    BY <1>2, <2>2 DEF HistoryInv, LikesRecorded
  <2>3. CASE a = <<u, t>>
    BY <1>2, <1>4, <2>3
  <2>. QED
    BY <2>1, <2>2, <2>3
<1>10. ASSUME NEW q \in Posted, NEW n \in Descendants(q), NEW o \in Ids, NEW v \in Users,
              <<v, n>> \in named'[o]
       PROVE  o = q
  <2>1. CASE <<v, n>> \in named[o]
    BY <2>1 DEF HistoryInv, LikesRecorded
  <2>2. CASE o = p /\ <<v, n>> = <<u, t>>
    <3>1. n = t
      BY <2>2
    <3>. QED
      BY <1>1, <1>3, <2>2, <3>1, OneRoot
  <2>. QED
    BY <1>6, <1>10, <2>1, <2>2
<1>11. ASSUME NEW n \in Ids, NEW v \in likesOf'[n] PROVE \E q \in Ids : <<v, n>> \in named'[q]
  <2>1. CASE v \in likesOf[n]
    <3>1. PICK q \in Ids : <<v, n>> \in named[q]
      BY <2>1 DEF HistoryInv, LikesRecorded
    <3>. QED
      BY <1>6, <3>1
  <2>2. CASE v \notin likesOf[n]
    <3>1. n = t /\ v = u
      BY <1>6, <1>7, <1>11, <2>2
    <3>. QED
      BY <1>6, <3>1
  <2>. QED
    BY <2>1, <2>2
<1>12. ASSUME NEW q \in Ids, NEW v \in liked'[q] PROVE \E n \in Ids : <<v, n>> \in named'[q]
  <2>1. CASE v \in liked[q]
    <3>1. PICK n \in Ids : <<v, n>> \in named[q]
      BY <2>1 DEF HistoryInv, LikesRecorded
    <3>. QED
      BY <1>6, <3>1
  <2>2. CASE v \notin liked[q]
    <3>1. q = p /\ v = u
      BY <1>6, <1>7, <1>12, <2>2
    <3>. QED
      BY <1>3, <1>6, <3>1
  <2>. QED
    BY <2>1, <2>2
<1>13. \A q \in Ids : LikedApart(q)' => LikedApart(q)
  BY <1>6 DEF LikedApart
<1>14. LikedApart(p)' => (u \in likesOf[t] <=> u \in liked[p])
  <2>. SUFFICES ASSUME LikedApart(p)'
                PROVE  u \in likesOf[t] <=> u \in liked[p]
    OBVIOUS
  <2>1. ASSUME NEW a \in named[p], a[1] = u PROVE a = <<u, t>>
    <3>1. a \in named'[p] /\ <<u, t>> \in named'[p] /\ <<u, t>>[1] = a[1]
      BY <1>6, <2>1
    <3>. QED
      BY <3>1 DEF LikedApart
  <2>2. LikedApart(p)
    BY <1>13
  <2>. QED
    BY <1>1, <1>3, <2>1, <2>2, MarkIsLike
<1>15. ASSUME NEW q \in Ids, LikedApart(q)', NEW a \in named'[q]
       PROVE  a[1] \in likesOf'[a[2]] <=> a[1] \in liked'[q]
  <2>1. a \in Users \X Ids /\ LikedApart(q)
    BY <1>8, <1>13, <1>15
  <2>2. CASE a = <<u, t>>
    <3>1. a[1] = u /\ a[2] = t
      BY <2>2
    <3>2. q = p
      <4>1. <<u, t>> \in named'[q]
        BY <1>15, <2>2
      <4>. QED
        BY <1>1, <1>3, <1>10, <4>1
    <3>3. u \in likesOf[t] <=> u \in liked[p]
      BY <1>14, <1>15, <3>2
    <3>. QED
      BY <1>6, <1>7, <3>1, <3>2, <3>3
  <2>3. CASE a # <<u, t>>
    <3>1. a \in named[q]
      BY <1>6, <1>15, <2>3
    <3>2. a[1] \in likesOf[a[2]] <=> a[1] \in liked[q]
      BY <2>1, <3>1 DEF HistoryInv, LikesRecorded
    <3>3. CASE a[1] # u
      <4>1. a[1] \in likesOf'[a[2]] <=> a[1] \in likesOf[a[2]]
        <5>1. CASE a[2] = t
          BY <1>6, <1>7, <3>3, <5>1
        <5>2. CASE a[2] # t
          BY <1>6, <2>1, <5>2
        <5>. QED
          BY <5>1, <5>2
      <4>2. a[1] \in liked'[q] <=> a[1] \in liked[q]
        <5>1. CASE q = p
          BY <1>6, <1>7, <3>3, <5>1
        <5>2. CASE q # p
          BY <1>6, <5>2
        <5>. QED
          BY <5>1, <5>2
      <4>. QED
        BY <3>2, <4>1, <4>2
    <3>4. CASE a[1] = u
      <4>1. a[2] # t
        BY <2>1, <2>3, <3>4
      <4>2. q # p
        <5>1. q = p => <<u, t>> \in named'[q]
          BY <1>6
        <5>2. <<u, t>>[1] = a[1]
          BY <3>4
        <5>. QED
          BY <1>15, <2>3, <5>1, <5>2 DEF LikedApart
      <4>3. a[2] \in Ids
        BY <2>1
      <4>. QED
        BY <1>6, <3>2, <4>1, <4>2, <4>3
    <3>. QED
      BY <3>3, <3>4
  <2>. QED
    BY <2>2, <2>3
<1>16. LikesRecorded'
  <2>1. \A q \in Posted' : \A n \in Descendants(q)' : \A o \in Ids, v \in Users :
          <<v, n>> \in named'[o] => o = q
    BY <1>2, <1>10
  <2>2. \A q \in Ids : LikedApart(q)' =>
          \A a \in named'[q] : a[1] \in likesOf'[a[2]] <=> a[1] \in liked'[q]
    BY <1>15
  <2>. QED
    BY <1>8, <1>9, <1>11, <1>12, <2>1, <2>2 DEF LikesRecorded
<1>17. ASSUME NEW q \in Posted, LikedApart(q)', NEW n \in Descendants(q)
       PROVE  LikesShown(q, n)' = Cardinality(likesOf'[n]) % UintModulus
  <2>1. /\ q \in Ids /\ n \in Ids /\ LikedApart(q)
        /\ LikesShown(q, n) = Cardinality(likesOf[n]) % UintModulus
    <3>1. q \in Ids /\ n \in Ids
      BY <1>2, <1>17, DescendantsLevel
    <3>. QED
      BY <1>13, <1>17, <3>1 DEF HistoryInv, LikesCounted
  <2>2. CASE n # t
    BY <1>3, <1>6, <2>1, <2>2
  <2>3. CASE n = t
    <3>1. q = p
      BY <1>1, <1>3, <2>3, OneRoot
    <3>2. (u \in liked[p]) = (u \in likesOf[t])
      BY <1>14, <1>17, <3>1
    <3>3. IsFiniteSet(likesOf[t])
      <4>1. IsFiniteSet(0 .. UsersNumber - 1)
        BY UsersAssumption, FS_Interval
      <4>2. likesOf[t] \subseteq 0 .. UsersNumber - 1
        BY <1>3, <1>5 DEF Users
      <4>. QED
        BY <4>1, <4>2, FS_Subset
    <3>4. Counted(Cardinality(likesOf[t]) % UintModulus, u \in likesOf[t])
            = Cardinality(SymDiff(likesOf[t], {u})) % UintModulus
      BY <3>3, LikeCounts
    <3>. QED
      BY <1>3, <1>6, <2>1, <2>3, <3>1, <3>2, <3>4
  <2>. QED
    BY <2>2, <2>3
<1>18. LikesCounted'
  <2>1. \A q \in Posted' : LikedApart(q)' => \A n \in Descendants(q)' :
          LikesShown(q, n)' = Cardinality(likesOf'[n]) % UintModulus
    BY <1>2, <1>17
  <2>. QED
    BY <2>1 DEF LikesCounted
<1>. QED
  BY <1>2, <1>16, <1>18 DEF HistoryInv

\* A like that finds what it names changes the mark of the post.
LEMMA LikeNotFound ==
  ASSUME PostsInv, NEW u \in Likers, NEW p \in Ids, NEW r \in {0} \cup Ids, Like(u, p, r),
         liked' = liked, UNCHANGED <<likesOf, named>>
  PROVE  Quiet
<1>1. ~(p \in Posted /\ (r = 0 \/ Found(p, r)))
  <2>. SUFFICES ASSUME p \in Posted, r = 0 \/ Found(p, r) PROVE FALSE
    OBVIOUS
  <2>1. liked' = [liked EXCEPT ![p] = SymDiff(@, {u})]
    BY DEF Like, Marked
  <2>2. liked[p] = SymDiff(liked[p], {u})
    BY <2>1 DEF PostsInv
  <2>. QED
    BY <2>2 DEF SymDiff
<1>2. UNCHANGED <<postList, reposts, liked, children, pendingPostId>>
  BY <1>1 DEF Like, Found
<1>3. PostsInv' /\ pendingPostId' \in Nat
  BY <1>2, LikeKeeps DEF PostsInv, PostsListed
<1>4. pendingPostId' >= pendingPostId
  BY <1>2, <1>3
<1>. QED
  BY <1>2, <1>3, <1>4, SameLikesQuiet

\* A step of the program, watched by its users, keeps the invariant.
LEMMA HistoryInvNext ==
  ASSUME HistoryInv, [HistoryNext]_historyVars
  PROVE  HistoryInv'
<1>1. ASSUME NEW u \in Likers, NEW p \in Ids, NEW r \in {0} \cup Ids, LikeRecorded(u, p, r)
      PROVE  HistoryInv'
  BY <1>1, LikeRecordedKeeps
<1>2. ASSUME [Next]_vars, liked' = liked, UNCHANGED <<likesOf, named>>
      PROVE  HistoryInv'
  <2>1. PostsNext \/ UNCHANGED postsVars
    BY <1>2, PostsStep
  <2>2. PostsInv /\ PostsInv'
    BY <2>1, PostsInvNext DEF HistoryInv
  <2>3. Quiet
    <3>1. CASE UNCHANGED postsVars
      <4>1. /\ UNCHANGED <<postList, children, reposts>> /\ pendingPostId' = pendingPostId
            /\ pendingPostId \in Nat
        BY <2>2, <3>1 DEF postsVars, PostsInv, PostsListed
      <4>2. pendingPostId' >= pendingPostId
        BY <4>1
      <4>. QED
        BY <1>2, <2>2, <4>1, <4>2, SameLikesQuiet
    <3>2. CASE PostsNext
      <4>1. ASSUME NEW u \in Members, CreatePost(u) PROVE Quiet
        BY <1>2, <2>2, <4>1, CreatePostQuiet
      <4>2. ASSUME NEW p \in Ids, NEW r \in {0} \cup Ids, NEW u \in Members, CreateRepost(u, p, r)
            PROVE  Quiet
        BY <1>2, <2>2, <4>2, CreateRepostQuiet
      <4>3. ASSUME NEW p \in Ids, NEW r \in {0} \cup Ids, NEW u \in Likers, Like(u, p, r)
            PROVE  Quiet
        BY <1>2, <2>2, <4>3, LikeNotFound
      <4>4. ASSUME NEW p \in Ids, NEW a \in Ids, NEW b \in Ids, CommonRepost(p, a, b) PROVE Quiet
        BY <1>2, <2>2, <4>4, CommonRepostQuiet
      <4>5. ASSUME NEW p \in Ids, NEW r \in Ids, DeleteRepost(p, r) PROVE Quiet
        BY <1>2, <2>2, <4>5, DeleteRepostQuiet
      <4>6. ASSUME NEW p \in Ids, DeletePost(p) PROVE Quiet
        BY <3>1, <4>6 DEF DeletePost
      <4>. QED
        BY <3>2, <4>1, <4>2, <4>3, <4>4, <4>5, <4>6 DEF PostsNext
    <3>. QED
      BY <2>1, <3>1, <3>2
  <2>. QED
    BY <2>2, <2>3, QuietKeeps
<1>3. CASE UNCHANGED historyVars
  <2>1. UNCHANGED vars /\ UNCHANGED <<likesOf, named>>
    BY <1>3 DEF historyVars
  <2>2. liked' = liked
    BY <2>1 DEF vars, postsVars
  <2>. QED
    BY <1>2, <2>1, <2>2
<1>4. CASE Next /\ liked' = liked /\ UNCHANGED <<likesOf, named>>
  BY <1>2, <1>4
<1>. QED
  BY <1>1, <1>3, <1>4 DEF HistoryNext

\* As long as every user likes at most one of a post and its reposts, each of them
\* shows, up to the width of its counter, as many likes as there are users who like
\* it (like, create_post, create_repost, delete_entity).
THEOREM LikesAlwaysCounted == HistorySpec => []LikesCounted
<1>1. HistoryInit => HistoryInv
  BY HistoryInvInit
<1>2. HistoryInv /\ [HistoryNext]_historyVars => HistoryInv'
  BY HistoryInvNext
<1>3. HistoryInv => LikesCounted
  BY DEF HistoryInv
<1>. QED
  BY <1>1, <1>2, <1>3, PTL DEF HistorySpec
=============================================================================
