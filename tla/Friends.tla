------------------------------ MODULE Friends ------------------------------
(***************************************************************************)
(* The network of friends (friends.c, graph.c): for every user the list of *)
(* friends in the order of their arrival and a counter kept beside it, and *)
(* the breadth-first search that answers "distance".                       *)
(*                                                                         *)
(* The input is valid, as the repository's README promises: it befriends   *)
(* two users who are not friends and parts two who are.                    *)
(*                                                                         *)
(* init_friends_network sizes the arrays of the search by the number of    *)
(* the last user instead of by the number of users, and the search resets  *)
(* as many elements.  The elements of the last user lie behind the arrays, *)
(* in memory that is zero at first and keeps what it is given.             *)
(***************************************************************************)
EXTENDS Users, FiniteSets, SequencesExt, Sublists

CONSTANTS Pairs,         \* the pairs of users that the input befriends and parts
          Askers,        \* the users from whom it asks distances
          Unreached,     \* INT_LEAST32_MAX - 1
          Nobody         \* no distance is being computed

ASSUME FriendsAssumption ==
  /\ Pairs \subseteq {p \in Users \X Users : p[1] # p[2]}
  /\ Askers \subseteq Users
  /\ Unreached \notin Nat

VARIABLES friendsOf,     \* the adjacency lists
          friendsNumber, \* their sizes
          search,        \* the distances being computed
          leftover       \* what the elements of the last user hold

friendsVars == <<friendsOf, friendsNumber, search, leftover>>

LastUser == UsersNumber - 1

Element == [visited : BOOLEAN, distance : Nat \cup {Unreached}]

FriendsTypeOK ==
  /\ friendsOf \in [Users -> Seq(Users)]
  /\ friendsNumber \in [Users -> 0 .. UintModulus - 1]
  /\ leftover \in Element
  /\ search = Nobody \/
       /\ DOMAIN search = {"source", "queue", "elements"}
       /\ search.source \in Users
       /\ search.queue \in Seq(Users)
       /\ search.elements \in [Users -> Element]
  /\ running \in BOOLEAN

FriendsInit == /\ friendsOf = [u \in Users |-> <<>>]
               /\ friendsNumber = [u \in Users |-> 0]
               /\ search = Nobody
               /\ leftover = [visited |-> FALSE, distance |-> 0]

Serving == running /\ search = Nobody
-----------------------------------------------------------------------------
\* add_connection and remove_connection.

\* is_my_friend
IsMyFriend(u, v) == v \in ToSet(friendsOf[u])

\* graph.c changes the counter whether or not it finds the entry.
AddEntry(u, v) ==
  /\ friendsOf'     = [friendsOf EXCEPT ![u] = Append(@, v), ![v] = Append(@, u)]
  /\ friendsNumber' = [friendsNumber EXCEPT ![u] = (@ + 1) % UintModulus,
                                            ![v] = (@ + 1) % UintModulus]

\* Faulty variant: the second user keeps the first as a friend.
RemoveEntryOneSided(u, v) ==
  /\ friendsOf'     = [friendsOf EXCEPT ![u] = RemoveFirst(@, v)]
  /\ friendsNumber' = [friendsNumber EXCEPT ![u] = (@ - 1) % UintModulus]

RemoveEntry(u, v) ==
  /\ friendsOf'     = [friendsOf EXCEPT ![u] = RemoveFirst(@, v), ![v] = RemoveFirst(@, u)]
  /\ friendsNumber' = [friendsNumber EXCEPT ![u] = (@ - 1) % UintModulus,
                                            ![v] = (@ - 1) % UintModulus]

AddConnection(u, v) ==
  /\ Serving /\ ~IsMyFriend(u, v)
  /\ AddEntry(u, v)
  /\ UNCHANGED <<search, leftover, running>>

RemoveConnection(u, v) ==
  /\ Serving /\ IsMyFriend(u, v)
  /\ RemoveEntry(u, v)
  /\ UNCHANGED <<search, leftover, running>>
-----------------------------------------------------------------------------
\* compute_distance: breadth first from one user, one turn of the loop a step.

\* Faulty variant: the reset also misses the user before the last.
ResetFewer(u, old) ==
  IF u >= LastUser - 1 THEN old ELSE [visited |-> FALSE, distance |-> Unreached]

\* The reset loop ends before the last user, whose element is left over.
Reset(u, old) ==
  IF u = LastUser THEN old ELSE [visited |-> FALSE, distance |-> Unreached]

BeginSearch(s) ==
  /\ Serving
  /\ search' = [source   |-> s,
                queue    |-> <<s>>,
                elements |-> [[u \in Users |-> Reset(u, leftover)] EXCEPT
                                ![s] = [visited |-> TRUE, distance |-> 0]]]
  /\ UNCHANGED <<friendsOf, friendsNumber, leftover, running>>

\* The friends of the first user of the queue that are seen for the first time.
Discovered(q) ==
  Keep(friendsOf[q.queue[1]], {v \in Users : ~q.elements[v].visited})

\* Faulty variant: the user served stays in the queue.
ServeFirstKeeping(q) ==
  LET new == Discovered(q)
  IN  [q EXCEPT
        !.queue    = @ \o new,
        !.elements = [u \in Users |->
          IF u \in ToSet(new)
          THEN [visited |-> TRUE, distance |-> q.elements[q.queue[1]].distance + 1]
          ELSE @[u]]]

ServeFirst(q) ==
  LET new == Discovered(q)
  IN  [q EXCEPT
        !.queue    = Tail(@) \o new,
        !.elements = [u \in Users |->
          IF u \in ToSet(new)
          THEN [visited |-> TRUE, distance |-> q.elements[q.queue[1]].distance + 1]
          ELSE @[u]]]

Explore ==
  /\ running /\ search # Nobody /\ search.queue # <<>>
  /\ search' = ServeFirst(search)
  /\ UNCHANGED <<friendsOf, friendsNumber, leftover, running>>

\* The answer is printed.  Of the elements, only that of the last user outlives
\* the next reset.
EndSearch ==
  /\ running /\ search # Nobody /\ search.queue = <<>>
  /\ leftover' = search.elements[LastUser]
  /\ search' = Nobody
  /\ UNCHANGED <<friendsOf, friendsNumber, running>>
-----------------------------------------------------------------------------
\* Commands that change nothing, as what they print.

InsertById(s, v) ==
  LET i == SelectInSeq(s, LAMBDA w : w >= v)
  IN  InsertAt(s, IF i = 0 THEN Len(s) + 1 ELSE i, v)

\* Faulty variant: a user suggested by two friends is listed twice.
SuggestRepeating(u, found, v) ==
  IF IsMyFriend(u, v) \/ v = u THEN found ELSE InsertById(found, v)

\* compute_suggestions looks at one friend of a friend of u.
Suggest(u, found, v) ==
  IF IsMyFriend(u, v) \/ v = u \/ v \in ToSet(found)
  THEN found ELSE InsertById(found, v)

Suggestions(u) ==
  FoldLeft(LAMBDA found, v : Suggest(u, found, v), <<>>,
           FlattenSeq([i \in DOMAIN friendsOf[u] |-> friendsOf[friendsOf[u][i]]]))

\* compute_common_friends
CommonFriends(u, v) ==
  FoldLeft(InsertById, <<>>, Keep(friendsOf[u], {f \in Users : IsMyFriend(v, f)}))

\* compute_popular looks at one friend of a user.
MorePopular(best, f) ==
  IF \/ friendsNumber[f] > best.number
     \/ friendsNumber[f] = best.number /\ f < best.user
  THEN [user |-> f, number |-> friendsNumber[f]] ELSE best

Popular(u) ==
  LET best == FoldLeft(MorePopular, [user |-> friendsOf[u][1], number |-> 0], friendsOf[u])
  IN  IF best.number <= friendsNumber[u] THEN u ELSE best.user

\* "popular" reads the first friend of a user before it knows there is one.
PopularOfNobody(u) == /\ Serving /\ friendsOf[u] = <<>>
                      /\ Die
                      /\ UNCHANGED friendsVars
-----------------------------------------------------------------------------
FriendsNext == \/ \E p \in Pairs : \/ AddConnection(p[1], p[2])
                                   \/ RemoveConnection(p[1], p[2])
               \/ \E u \in Askers : BeginSearch(u) \/ PopularOfNobody(u)
               \/ Explore
               \/ EndSearch

NetworkInit == running = TRUE /\ FriendsInit

(***************************************************************************)
(* Fairness: a search that has begun goes on, being a loop of the only     *)
(* thread; nothing forces a command to arrive.                             *)
(***************************************************************************)
FriendsSpec == /\ NetworkInit
               /\ [][FriendsNext]_<<friendsVars, running>>
               /\ WF_<<friendsVars, running>>(Explore \/ EndSearch)
-----------------------------------------------------------------------------
\* Properties.

\* Every variable has its type, a user is a friend of every friend, once, and the
\* counter that "friends" and "popular" read is the number of entries in the list
\* kept apart from it.
FriendshipMutual ==
  /\ FriendsTypeOK
  /\ \A u \in Users :
    /\ \A v \in Users : IsMyFriend(u, v) <=> IsMyFriend(v, u)
    /\ IsInjective(friendsOf[u]) /\ ~IsMyFriend(u, u)
    /\ friendsNumber[u] = Len(friendsOf[u])

\* Users at most n friendships away from s, by friendships among users U.
Within(U, s) ==
  LET W[n \in 0 .. UsersNumber] ==
        IF n = 0 THEN {s}
        ELSE W[n - 1] \cup {v \in U : \E u \in W[n - 1] : IsMyFriend(u, v)}
  IN  W

DistanceAmong(U, s, t) ==
  IF t \notin Within(U, s)[UsersNumber] THEN Unreached
  ELSE CHOOSE n \in 0 .. UsersNumber :
         /\ t \in Within(U, s)[n]
         /\ n > 0 => t \notin Within(U, s)[n - 1]

Answer(t) == search.elements[t].distance

Answering == search # Nobody /\ search.queue = <<>>

\* The answer to "distance" for any user but the last is the length of a
\* shortest path, though a search may overlook the paths through the last user.
DistanceOfOthers ==
  Answering =>
    \A t \in Users \ {LastUser} :
      \/ Answer(t) = DistanceAmong(Users, search.source, t)
      \/ /\ search.source # LastUser
         /\ Answer(t) = DistanceAmong(Users \ {LastUser}, search.source, t)

\* Every search comes to an end: a user enters the queue once.
SearchEnds == search # Nobody ~> search = Nobody

\* The numbers S, each once and in their order.
IsInOrder(s, S) == ToSet(s) = S /\ \A i, j \in DOMAIN s : i < j => s[i] < s[j]

\* "suggestions" lists the friends of friends who are not friends, "common" the
\* common friends, both by number and each once, and "popular" names a user with
\* the most friends: preferably the one asked about, then the one numbered first.
FriendListsAnswered ==
  \A u \in Users :
    LET Two == {v \in Users : \E f \in ToSet(friendsOf[u]) : IsMyFriend(f, v)}
        Circle == {u} \cup ToSet(friendsOf[u])
        Number(v) == Len(friendsOf[v])
    IN  /\ IsInOrder(Suggestions(u), Two \ Circle)
        /\ \A v \in Users :
             IsInOrder(CommonFriends(u, v), ToSet(friendsOf[u]) \cap ToSet(friendsOf[v]))
        /\ friendsOf[u] # <<>> =>
             /\ Popular(u) \in Circle
             /\ \A v \in Circle \ {Popular(u)} :
                  \/ Number(v) < Number(Popular(u))
                  \/ Number(v) = Number(Popular(u)) /\ (Popular(u) = u \/ (v # u /\ Popular(u) < v))
=============================================================================
