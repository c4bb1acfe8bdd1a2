------------------------------- MODULE Posts -------------------------------
(***************************************************************************)
(* Posts, their trees of reposts and likes (posts.c, tree.c).  Posts and   *)
(* reposts share one sequence of identifiers, so an identifier names a     *)
(* node: a repost, or for a post the root of its tree.  A list of children *)
(* is the sequence of their identifiers; a node no tree reaches any more   *)
(* has lost its memory and has no repost.                                  *)
(*                                                                         *)
(* The input names users and posts as it likes, also posts and reposts     *)
(* that do not exist (any more), but no post as a repost of itself.        *)
(***************************************************************************)
EXTENDS Users, FiniteSets, SequencesExt, FiniteSetsExt, Sublists

CONSTANTS Members,       \* the users who post and repost
          Likers,        \* the users who like
          MaxPosts,      \* MAX_POSTS: the input makes fewer posts and reposts
          NoRepost,      \* no repost has this identifier: not the data of one
          None           \* NULL, as the result of a search

ASSUME PostsAssumption ==
  /\ Members \subseteq Users /\ Likers \subseteq Users
  /\ MaxPosts \in Nat \ {0}
  /\ \A u \in Users, n \in 0 .. UintModulus - 1 : NoRepost # [user |-> u, likes |-> n]
  /\ None \notin Nat

VARIABLES postList,      \* post_list, up to its first NULL
          reposts,       \* the data of the reposts
          children,      \* the lists of reposts of every node
          liked,         \* appreciations_matrix: for a post, who likes it
          pendingPostId

postsVars == <<postList, reposts, children, liked, pendingPostId>>

Ids == 1 .. MaxPosts - 1

Uint == 0 .. UintModulus - 1

PostsTypeOK ==
  /\ postList \in Seq([postId : Ids, owner : Users, likes : Uint, rootId : {0} \cup Ids])
  /\ reposts \in [Ids -> [user : Users, likes : Uint] \cup {NoRepost}]
  /\ children \in [Ids -> Seq(Ids)]
  /\ liked \in [Ids -> SUBSET Users]
  /\ pendingPostId \in 1 .. MaxPosts

PostsInit == /\ postList = <<>>
             /\ reposts = [r \in Ids |-> NoRepost]
             /\ children = [n \in Ids |-> <<>>]
             /\ liked = [p \in Ids |-> {}]
             /\ pendingPostId = 1
-----------------------------------------------------------------------------
\* The trees.

Posted == {postList[i].postId : i \in DOMAIN postList}

Position(p) == SelectInSeq(postList, LAMBDA e : e.postId = p)

\* The nodes below and including n, as every walk of tree.c visits them.
Preorder(n) ==
  LET walk[m \in Ids] ==
        <<m>> \o FlattenSeq([i \in DOMAIN children[m] |-> walk[children[m][i]]])
  IN  walk[n]

Descendants(n) == ToSet(Preorder(n))

\* retrieve_node_via_key finds repost r below the root of post p.
Found(p, r) == p \in Posted /\ r \in Descendants(p) \ {p}

\* retrieve_node_parent_via_key
Parent(r) == CHOOSE n \in Ids : r \in ToSet(children[n])

\* Faulty variant: two hits among the children are not told from one.
ComputeLcaFirst(p, a, b) ==
  LET lca[n \in Ids] ==
        IF n \in {a, b} THEN n
        ELSE LET hits == Keep(children[n], {c \in ToSet(children[n]) : lca[c] # None})
             IN  IF hits = <<>> THEN None ELSE lca[hits[1]]
  IN  lca[p]

\* compute_lca from the root of p.
ComputeLca(p, a, b) ==
  LET lca[n \in Ids] ==
        IF n \in {a, b} THEN n
        ELSE LET hits == Keep(children[n], {c \in ToSet(children[n]) : lca[c] # None})
             IN  IF hits = <<>> THEN None
                 ELSE IF Len(hits) > 1 THEN n ELSE lca[hits[1]]
  IN  lca[p]
-----------------------------------------------------------------------------
\* The commands.

\* Whether anything is left of the bound on identifiers.
IdLeft == pendingPostId < MaxPosts

CreatePost(u) ==
  /\ running /\ IdLeft
  /\ postList' = Append(postList, [postId |-> pendingPostId, owner |-> u,
                                   likes |-> 0, rootId |-> 0])
  /\ pendingPostId' = pendingPostId + 1
  /\ UNCHANGED <<reposts, children, liked, running>>

\* Repost of post p (r = 0) or of its repost r.  The identifier is taken before
\* the repost to attach it to is looked for, and lost if that is not found.
CreateRepost(u, p, r) ==
  /\ running /\ IdLeft /\ r # p
  /\ IF p \in Posted
     THEN /\ IF r = 0 \/ Found(p, r)
             THEN /\ reposts' = [reposts EXCEPT ![pendingPostId] = [user |-> u, likes |-> 0]]
                  /\ children' = [children EXCEPT ![IF r = 0 THEN p ELSE r] =
                                    Append(@, pendingPostId)]
             ELSE UNCHANGED <<reposts, children>>
          /\ pendingPostId' = pendingPostId + 1
     ELSE UNCHANGED <<reposts, children, pendingPostId>>
  /\ UNCHANGED <<postList, liked, running>>

\* A counter of likes after a like, or after taking one back.
Counted(n, isLiked) == (IF isLiked THEN n - 1 ELSE n + 1) % UintModulus

\* Faulty variant: a like that was taken back stays marked.
MarkedForEver(marks, u) == marks \cup {u}

Marked(marks, u) == SymDiff(marks, {u})

\* like: the matrix has one element for a user and a post, whichever of the post
\* and its reposts was liked; the counter is that of the one named.
Like(u, p, r) ==
  /\ running /\ r # p
  /\ IF r = 0 /\ p \in Posted
     THEN /\ postList' = [postList EXCEPT ![Position(p)].likes = Counted(@, u \in liked[p])]
          /\ UNCHANGED reposts
     ELSE /\ reposts' = IF Found(p, r)
                        THEN [reposts EXCEPT ![r].likes = Counted(@, u \in liked[p])]
                        ELSE reposts
          /\ UNCHANGED postList
  /\ liked' = IF p \in Posted /\ (r = 0 \/ Found(p, r))
              THEN [liked EXCEPT ![p] = Marked(@, u)] ELSE liked
  /\ UNCHANGED <<children, pendingPostId, running>>

\* common-repost: when the post itself is the answer, its root takes its number.
CommonRepost(p, a, b) ==
  /\ running /\ p \in Posted \ {a, b}
  /\ postList' = IF ComputeLca(p, a, b) = p
                 THEN [postList EXCEPT ![Position(p)].rootId = p] ELSE postList
  /\ UNCHANGED <<reposts, children, liked, pendingPostId, running>>

\* Faulty variant: the repost is freed and stays in the list of its parent.
DeleteRepostLinked(p, r) ==
  /\ running /\ Found(p, r)
  /\ reposts' = [n \in Ids |-> IF n \in Descendants(r) THEN NoRepost ELSE reposts[n]]
  /\ children' = [n \in Ids |-> IF n \in Descendants(r) THEN <<>> ELSE children[n]]
  /\ UNCHANGED <<postList, liked, pendingPostId, running>>

\* delete of a repost, one of post p: it is freed with all below it, and the list it was in is
\* emptied, so that its siblings, with all below them, are lost too.
DeleteRepost(p, r) ==
  /\ running /\ Found(p, r)
  /\ LET parent == Parent(r)
         lost == Descendants(parent) \ {parent}
     IN  /\ reposts' = [n \in Ids |-> IF n \in lost THEN NoRepost ELSE reposts[n]]
         /\ children' = [n \in Ids |-> IF n \in lost \cup {parent} THEN <<>> ELSE children[n]]
  /\ UNCHANGED <<postList, liked, pendingPostId, running>>

\* delete of a post reads its title after the pointer to it was set to NULL.
DeletePost(p) == p \in Posted /\ Die /\ UNCHANGED postsVars

PostsNext ==
  \/ \E u \in Members : CreatePost(u)
  \/ \E p \in Ids, r \in {0} \cup Ids : \/ \E u \in Members : CreateRepost(u, p, r)
                                        \/ \E u \in Likers : Like(u, p, r)
  \/ \E p, a, b \in Ids : CommonRepost(p, a, b)
  \/ \E p, r \in Ids : DeleteRepost(p, r)
  \/ \E p \in Ids : DeletePost(p)
-----------------------------------------------------------------------------
\* Properties.

Reposts(p) == Descendants(p) \ {p}

\* Every variable has its type; every repost that exists is below exactly one
\* node, in the tree of exactly one post; posts, and the reposts of a node, stand
\* in the order of their numbers, in which get-reposts lists them; and no number
\* is ever given twice.
TreesInOrder ==
  /\ PostsTypeOK
  /\ \A i, j \in DOMAIN postList : i < j => postList[i].postId < postList[j].postId
  /\ \A n \in Ids : \A i, j \in DOMAIN children[n] : i < j => children[n][i] < children[n][j]
  /\ \A r \in Ids :
       IF reposts[r] = NoRepost
       THEN \A n \in Ids : r \notin ToSet(children[n])
       ELSE /\ r < pendingPostId /\ r \notin Posted
            /\ Cardinality({p \in Posted : r \in Reposts(p)}) = 1
            /\ Cardinality({n \in Ids : r \in ToSet(children[n])}) = 1

\* common-repost answers, for two reposts of a post, the lowest node of the tree
\* that has both below it or is one of them.
CommonRepostIsLowest ==
  \A p \in Posted : \A a, b \in Reposts(p) :
    LET c == ComputeLca(p, a, b)
    IN  /\ {a, b} \subseteq Descendants(c)
        /\ \A n \in Descendants(p) :
             {a, b} \subseteq Descendants(n) => c \in Descendants(n)
=============================================================================
