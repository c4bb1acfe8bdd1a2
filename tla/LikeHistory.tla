---------------------------- MODULE LikeHistory ----------------------------
(***************************************************************************)
(* The Facebook clone, watched by its users: two history variables record  *)
(* what the likes in the input asked for, to be held against the counters  *)
(* that "get-likes" and "get-reposts" print.  They add nothing to what the *)
(* program does.                                                           *)
(***************************************************************************)
EXTENDS SocialMedia

VARIABLES likesOf,       \* of a post or repost: who likes it, the likes taken back left out
          named          \* of a post: <<u, n>> if u ever gave a like for n, it or one of its reposts

historyVars == <<vars, likesOf, named>>

\* The post or repost that like names.
Target(p, r) == IF r = 0 THEN p ELSE r

HistoryInit == /\ Init
               /\ likesOf = [n \in Ids |-> {}]
               /\ named = [p \in Ids |-> {}]

\* A like that finds what it names: the first one for it by u likes it, the next
\* takes that back.
LikeRecorded(u, p, r) ==
  /\ Serving /\ Like(u, p, r) /\ UNCHANGED friendsVars
  /\ p \in Posted /\ (r = 0 \/ Found(p, r))
  /\ likesOf' = [likesOf EXCEPT ![Target(p, r)] = SymDiff(@, {u})]
  /\ named' = [named EXCEPT ![p] = @ \cup {<<u, Target(p, r)>>}]

HistoryNext ==
  \/ \E u \in Likers, p \in Ids, r \in {0} \cup Ids : LikeRecorded(u, p, r)
  \/ Next /\ liked' = liked /\ UNCHANGED <<likesOf, named>>

HistorySpec == HistoryInit /\ [][HistoryNext]_historyVars
-----------------------------------------------------------------------------
\* The number of likes printed for node n of the tree of post p.
LikesShown(p, n) == IF n = p THEN postList[Position(p)].likes ELSE reposts[n].likes

\* No user gave likes for two of the post and its reposts.
LikedApart(p) == \A a, b \in named[p] : a[1] = b[1] => a = b

\* As long as every user likes at most one of a post and its reposts, all their
\* counters are right, however often likes are given and taken back, reposts come
\* and go around them: up to the width of the counter, as many likes are shown as
\* there are users who like the post or the repost.
LikesCounted ==
  \A p \in Posted : LikedApart(p) =>
    \A n \in Descendants(p) : LikesShown(p, n) = Cardinality(likesOf[n]) % UintModulus
=============================================================================
