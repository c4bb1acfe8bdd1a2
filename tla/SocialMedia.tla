---------------------------- MODULE SocialMedia ----------------------------
(***************************************************************************)
(* The whole Facebook clone (social_media.c, feed.c): the network of       *)
(* friends, the posts, and the commands that read both.  Every line of the *)
(* input goes to the three handlers, one of which knows the command.       *)
(***************************************************************************)
EXTENDS Friends, Posts

CONSTANTS FeedSizes      \* lengths of the feeds the input asks for

\* A feed begins with an identifier above all there are.
Unseen == 10000000

ASSUME SocialMediaAssumption == FeedSizes \subseteq Nat /\ MaxPosts <= Unseen

vars == <<friendsVars, postsVars, running>>

\* Posts that the feed of u may show.
Shown(u) ==
  {postList[i].postId : i \in {j \in DOMAIN postList :
     postList[j].owner = u \/ IsMyFriend(u, postList[j].owner)}}

\* Faulty variant: a turn does not remember what it showed.
FeedTurnForgetting(u, seen) ==
  LET newest == Max({0} \cup Shown(u))
  IN  [last  |-> newest,
       posts |-> IF newest = 0 THEN seen.posts ELSE Append(seen.posts, newest)]

\* One turn of compute_user_feed: the greatest identifier below the last one.
FeedTurn(u, seen) ==
  LET newest == Max({0} \cup {p \in Shown(u) : p < seen.last})
  IN  [last  |-> newest,
       posts |-> IF newest = 0 THEN seen.posts ELSE Append(seen.posts, newest)]

\* What "feed" prints; a turn that finds nothing is followed by no other.
Feed(u, size) ==
  LET turn[k \in 0 .. size] ==
        IF k = 0 THEN [last |-> Unseen, posts |-> <<>>] ELSE FeedTurn(u, turn[k - 1])
  IN  turn[size].posts

\* return_friend_reposting_statement
HasReposted(p, u) == \E r \in Reposts(p) : reposts[r].user = u

\* friends-repost for a post that exists.
FriendsReposts(u, p) == Keep(friendsOf[u], {f \in Users : HasReposted(p, f)})

\* view-profile: for every post, whether u wrote it, then the reposts of it by u.
UserProfile(u) ==
  FlattenSeq([i \in DOMAIN postList |->
    LET p == postList[i].postId
    IN  (IF postList[i].owner = u THEN <<[kind |-> "Posted", post |-> p]>> ELSE <<>>)
        \o [k \in 1 .. Cardinality({r \in Reposts(p) : reposts[r].user = u}) |->
              [kind |-> "Reposted", post |-> p]]])

\* friends-repost looks into the post before it knows there is one.
FriendsRepostsOfNothing(p) == p \notin Posted /\ Die /\ UNCHANGED <<friendsVars, postsVars>>

Init == running = TRUE /\ FriendsInit /\ PostsInit

Next == \/ FriendsNext /\ UNCHANGED postsVars
        \/ Serving /\ PostsNext /\ UNCHANGED friendsVars
        \/ Serving /\ \E p \in Ids : FriendsRepostsOfNothing(p)

Spec == Init /\ [][Next]_vars
-----------------------------------------------------------------------------
\* The commands that read both parts agree: a feed shows the newest posts of the
\* user and of friends, newest first and each once, all of them if there is room;
\* what it shows is in the profile of its author; and friends-repost names the
\* friends whose profile says they reposted.
FeedsAgree ==
  \A u \in Users :
    /\ \A n \in FeedSizes :
         LET shown == Feed(u, n)
         IN  /\ \A i, j \in DOMAIN shown : i < j => shown[i] > shown[j]
             /\ Len(shown) = IF n < Cardinality(Shown(u)) THEN n ELSE Cardinality(Shown(u))
             /\ \A p \in Posted : \A i \in DOMAIN shown :
                  \/ p \in ToSet(shown) \/ p < shown[i]
                  \/ \A v \in {u} \cup ToSet(friendsOf[u]) :
                       [kind |-> "Posted", post |-> p] \notin ToSet(UserProfile(v))
             /\ \A i \in DOMAIN shown : \E v \in {u} \cup ToSet(friendsOf[u]) :
                  [kind |-> "Posted", post |-> shown[i]] \in ToSet(UserProfile(v))
    /\ \A p \in Posted : \A f \in Users :
         f \in ToSet(FriendsReposts(u, p)) <=>
           /\ IsMyFriend(u, f)
           /\ [kind |-> "Reposted", post |-> p] \in ToSet(UserProfile(f))
=============================================================================
