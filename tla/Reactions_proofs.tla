---------------------------- MODULE Reactions_proofs ----------------------------
(***************************************************************************)
(* Proofs about Reactions, for any number of posts, texts and tags and any *)
(* finite number of users and comments.                                    *)
(***************************************************************************)
EXTENDS Reactions, FiniteSetTheorems, TLAPS

USE DEF posts, counts

-----------------------------------------------------------------------------
(* Type correctness.                                                        *)

LEMMA TagsType == TagsOf \in [Texts -> SUBSET Tags]
<1>1. ASSUME NEW t \in Texts, NEW i \in DOMAIN TagList[t]
      PROVE  TagList[t][i] \in Tags
  <2>1. TagList[t] \in Seq(Tags)
    BY TagAssumption
  <2>. QED
    BY <2>1
<1>. QED
  BY <1>1 DEF TagsOf

LEMMA LessType ==
  ASSUME NEW n \in Nat, NEW k \in Nat
  PROVE  Less(n, k) \in Nat
BY DEF Less

LEMMA CardinalityType ==
  ASSUME NEW C, C \subseteq Comments
  PROVE  IsFiniteSet(C) /\ Cardinality(C) \in Nat
BY FiniteAssumption, FS_Subset, FS_CardinalityType

LEMMA TypeInit == Init => TypeOK
BY DEF Init, TypeOK, States

LEMMA TypePosts == TypeOK /\ PostStep => TypeOK'
<1> SUFFICES ASSUME TypeOK, PostStep PROVE TypeOK'
  OBVIOUS
<1> USE TagsType DEF TypeOK, States
<1>1. ASSUME NEW p \in Posts, NEW t \in Texts, Publish(p, t) PROVE TypeOK'
  BY <1>1 DEF Publish, Write
<1>2. ASSUME NEW p \in Posts, NEW t \in Texts, Edit(p, t) PROVE TypeOK'
  BY <1>2 DEF Edit, Write
<1>3. ASSUME NEW p \in Posts, DeletePost(p) PROVE TypeOK'
  BY <1>3 DEF DeletePost, DropPosts
<1>. QED
  BY <1>1, <1>2, <1>3 DEF PostStep

LEMMA TypeReactions == TypeOK /\ ReactionStep => TypeOK'
<1> SUFFICES ASSUME TypeOK, ReactionStep PROVE TypeOK'
  OBVIOUS
<1> USE OwnerAssumption, AuthorAssumption, OnAssumption
    DEF TypeOK, States, Told, Less
<1>1. ASSUME NEW u \in Users, NEW p \in Posts, Like(u, p) PROVE TypeOK'
  BY <1>1 DEF Like
<1>2. ASSUME NEW u \in Users, NEW p \in Posts, Unlike(u, p) PROVE TypeOK'
  BY <1>2 DEF Unlike
<1>3. ASSUME NEW c \in Comments, CreateComment(c) PROVE TypeOK'
  BY <1>3 DEF CreateComment
<1>4. ASSUME NEW c \in Comments, DeleteComment(c) PROVE TypeOK'
  BY <1>4 DEF DeleteComment
<1>5. ASSUME NEW u \in Users, NEW v \in Users, Follow(u, v) PROVE TypeOK'
  BY <1>5 DEF Follow
<1>6. ASSUME NEW u \in Users, NEW v \in Users, Unfollow(u, v) PROVE TypeOK'
  BY <1>6 DEF Unfollow
<1>. QED
  BY <1>1, <1>2, <1>3, <1>4, <1>5, <1>6 DEF ReactionStep

(* What Leave calls mine and lost, under names of their own. *)
Mine(u) == {p \in Posts : There(p) /\ Owner[p] = u}
Lost(u) == {c \in Comments : Written(c) /\ (On[c] \in Mine(u) \/ Author[c] = u)}
LostOn(u, p) == {c \in Lost(u) : On[c] = p}

LEMMA TypeLeave ==
  ASSUME TypeOK, NEW u \in Users, Leave(u)
  PROVE  TypeOK'
<1>1. commentCount' = [p \in Posts |-> IF p \in Mine(u) THEN 0
                         ELSE Less(commentCount[p], Cardinality(LostOn(u, p)))]
  BY DEF Leave, Mine, Lost, LostOn
<1>2. \A p \in Posts : Cardinality(LostOn(u, p)) \in Nat
  BY CardinalityType DEF LostOn, Lost
<1>3. commentCount' \in [Posts -> Nat]
  BY <1>1, <1>2, LessType DEF TypeOK
<1>4. likeCount' \in [Posts -> Nat]
  BY LessType DEF TypeOK, Leave
<1>5. /\ post' \in [Posts -> States]
      /\ text' \in [Posts -> Texts \union {NoText}]
      /\ tags' \in [Posts -> SUBSET Tags]
  BY DEF TypeOK, Leave, DropPosts, States
<1>6. comment' \in [Comments -> States]
  BY DEF TypeOK, Leave, States
<1>7. /\ liked' \subseteq Users \X Posts
      /\ follows' \subseteq Users \X Users
      /\ left' \subseteq Users
  BY DEF TypeOK, Leave
<1>8. /\ likeNotes' \in [Users \X Posts -> Nat]
      /\ commentNotes' \in [Comments -> Nat]
      /\ followNotes' \in [Users \X Users -> Nat]
  BY DEF TypeOK, Leave
<1>. QED
  BY <1>3, <1>4, <1>5, <1>6, <1>7, <1>8 DEF TypeOK

LEMMA TypeStep == TypeOK /\ [Next]_vars => TypeOK'
<1> SUFFICES ASSUME TypeOK, [Next]_vars PROVE TypeOK'
  OBVIOUS
<1>1. CASE UNCHANGED vars
  BY <1>1 DEF vars, TypeOK
<1>. QED
  BY <1>1, TypePosts, TypeReactions, TypeLeave DEF Next

(* Every variable keeps its type: in particular the counters are never      *)
(* below zero, whatever GREATEST and like_count > 0 are there for.          *)
THEOREM TypeCorrect == Spec => []TypeOK
<1>. QED
  BY TypeInit, TypeStep, PTL DEF Spec

-----------------------------------------------------------------------------
(* Foreign keys.                                                            *)

LEMMA DanglesInit == Init => NothingDangles
BY DEF Init, NothingDangles, Written

LEMMA DanglesStep == TypeOK /\ NothingDangles /\ [Next]_vars => NothingDangles'
<1> SUFFICES ASSUME TypeOK, NothingDangles, [Next]_vars PROVE NothingDangles'
  OBVIOUS
<1> USE OnAssumption DEF TypeOK, NothingDangles, There, Written
<1>1. ASSUME NEW p \in Posts, NEW t \in Texts, Publish(p, t) \/ Edit(p, t)
      PROVE  NothingDangles'
  BY <1>1 DEF Publish, Edit
<1>2. ASSUME NEW p \in Posts, DeletePost(p) PROVE NothingDangles'
  BY <1>2 DEF DeletePost, DropPosts
<1>3. ASSUME NEW u \in Users, NEW p \in Posts, Like(u, p) \/ Unlike(u, p)
      PROVE  NothingDangles'
  BY <1>3 DEF Like, Unlike
<1>4. ASSUME NEW c \in Comments, CreateComment(c) \/ DeleteComment(c)
      PROVE  NothingDangles'
  BY <1>4 DEF CreateComment, DeleteComment
<1>5. ASSUME NEW u \in Users, NEW v \in Users, Follow(u, v) \/ Unfollow(u, v)
      PROVE  NothingDangles'
  BY <1>5 DEF Follow, Unfollow
<1>6. ASSUME NEW u \in Users, Leave(u) PROVE NothingDangles'
  <2>1. \A l \in liked' : l \in liked /\ l[2] \in Posts /\ l[2] \notin Mine(u)
    BY <1>6 DEF Leave, Mine
  <2>2. \A c \in Comments : comment'[c] = "there" =>
                              comment[c] = "there" /\ On[c] \notin Mine(u)
    BY <1>6 DEF Leave, Mine
  <2>3. \A p \in Posts : p \notin Mine(u) => post'[p] = post[p]
    BY <1>6 DEF Leave, DropPosts, Mine
  <2>. QED
    BY <2>1, <2>2, <2>3
<1>7. CASE UNCHANGED vars
  BY <1>7 DEF vars
<1>. QED
  BY <1>1, <1>2, <1>3, <1>4, <1>5, <1>6, <1>7 DEF Next, PostStep, ReactionStep

-----------------------------------------------------------------------------
(* Notifications.                                                           *)

LEMMA NotesInit == Init => NotesMatch
BY DEF Init, NotesMatch, Written

LEMMA NotesStep ==
  TypeOK /\ NothingDangles /\ NotesMatch /\ [Next]_vars => NotesMatch'
<1> SUFFICES ASSUME TypeOK, NothingDangles, NotesMatch, [Next]_vars
             PROVE  NotesMatch'
  OBVIOUS
<1> USE OwnerAssumption, AuthorAssumption, OnAssumption
    DEF TypeOK, NotesMatch, Written, Told
<1>1. ASSUME NEW p \in Posts, NEW t \in Texts, Publish(p, t) \/ Edit(p, t)
      PROVE  NotesMatch'
  BY <1>1 DEF Publish, Edit
<1>2. ASSUME NEW p \in Posts, DeletePost(p) PROVE NotesMatch'
  BY <1>2 DEF DeletePost, DropPosts
<1>3. ASSUME NEW u \in Users, NEW p \in Posts, Like(u, p) PROVE NotesMatch'
  BY <1>3 DEF Like
<1>4. ASSUME NEW u \in Users, NEW p \in Posts, Unlike(u, p) PROVE NotesMatch'
  BY <1>4 DEF Unlike
<1>5. ASSUME NEW c \in Comments, CreateComment(c) PROVE NotesMatch'
  BY <1>5 DEF CreateComment
<1>6. ASSUME NEW c \in Comments, DeleteComment(c) PROVE NotesMatch'
  BY <1>6 DEF DeleteComment
<1>7. ASSUME NEW u \in Users, NEW v \in Users, Follow(u, v) PROVE NotesMatch'
  BY <1>7 DEF Follow
<1>8. ASSUME NEW u \in Users, NEW v \in Users, Unfollow(u, v) PROVE NotesMatch'
  BY <1>8 DEF Unfollow
<1>9. ASSUME NEW u \in Users, Leave(u) PROVE NotesMatch'
  <2>1. ASSUME NEW v \in Users, NEW p \in Posts
        PROVE  likeNotes'[<<v, p>>] = IF <<v, p>> \in liked' THEN Told(v, Owner[p])
                                      ELSE 0
    <3>1. likeNotes'[<<v, p>>] = IF v = u \/ Owner[p] = u THEN 0
                                 ELSE likeNotes[<<v, p>>]
      BY <1>9 DEF Leave
    <3>2. <<v, p>> \in liked' <=> <<v, p>> \in liked /\ v # u /\ p \notin Mine(u)
      BY <1>9 DEF Leave, Mine
    <3>3. <<v, p>> \in liked /\ Owner[p] = u => p \in Mine(u)
      BY DEF NothingDangles, Mine
    <3>4. p \in Mine(u) => Owner[p] = u
      BY DEF Mine
    <3>. QED
      BY <3>1, <3>2, <3>3, <3>4
  <2>2. ASSUME NEW c \in Comments
        PROVE  commentNotes'[c] = IF comment'[c] = "there"
                                  THEN Told(Author[c], Owner[On[c]]) ELSE 0
    <3>1. commentNotes'[c] = IF Author[c] = u \/ Owner[On[c]] = u THEN 0
                             ELSE commentNotes[c]
      BY <1>9 DEF Leave
    <3>2. comment'[c] = IF c \in Lost(u) THEN "deleted" ELSE comment[c]
      BY <1>9 DEF Leave, Lost, Mine
    <3>3. comment[c] = "there" /\ Owner[On[c]] = u => c \in Lost(u)
      BY DEF NothingDangles, Lost, Mine
    <3>4. c \in Lost(u) => Author[c] = u \/ Owner[On[c]] = u
      BY DEF Lost, Mine
    <3>5. comment[c] = "there" /\ Author[c] = u => c \in Lost(u)
      BY DEF Lost
    <3>. QED
      BY <3>1, <3>2, <3>3, <3>4, <3>5
  <2>3. ASSUME NEW v \in Users, NEW w \in Users
        PROVE  followNotes'[<<v, w>>] = IF <<v, w>> \in follows' THEN 1 ELSE 0
    BY <1>9 DEF Leave
  <2>. QED
    BY <2>1, <2>2, <2>3
<1>10. CASE UNCHANGED vars
  BY <1>10 DEF vars
<1>. QED
  BY <1>1, <1>2, <1>3, <1>4, <1>5, <1>6, <1>7, <1>8, <1>9, <1>10
  DEF Next, PostStep, ReactionStep

-----------------------------------------------------------------------------
(* Tags.                                                                    *)

LEMMA TagsStep == TypeOK /\ TagsFit /\ [Next]_vars => TagsFit'
<1> SUFFICES ASSUME TypeOK, TagsFit, [Next]_vars PROVE TagsFit'
  OBVIOUS
<1> USE DEF TypeOK, TagsFit, There
<1>1. ASSUME NEW p \in Posts, NEW t \in Texts, Publish(p, t) \/ Edit(p, t)
      PROVE  TagsFit'
  BY <1>1 DEF Publish, Edit, Write
<1>2. ASSUME NEW p \in Posts, DeletePost(p) PROVE TagsFit'
  BY <1>2 DEF DeletePost, DropPosts
<1>3. ASSUME NEW u \in Users, Leave(u) PROVE TagsFit'
  BY <1>3 DEF Leave, DropPosts
<1>4. CASE UNCHANGED posts \/ UNCHANGED vars
  BY <1>4 DEF vars
<1>5. ReactionStep => UNCHANGED posts
  BY DEF ReactionStep, Like, Unlike, CreateComment, DeleteComment, Follow, Unfollow
<1>. QED
  BY <1>1, <1>2, <1>3, <1>4, <1>5 DEF Next, PostStep

-----------------------------------------------------------------------------
(* Counters.                                                                *)

LikesMatch(p) == likeCount[p] = Cardinality(Likers(p))
CommentsMatch(p) == commentCount[p] = Cardinality(CommentsOn(p))

LEMMA LikersFinite ==
  ASSUME NEW p \in Posts
  PROVE  IsFiniteSet(Likers(p)) /\ Cardinality(Likers(p)) \in Nat
BY FiniteAssumption, FS_Subset, FS_CardinalityType DEF Likers

LEMMA CommentsFinite ==
  ASSUME NEW p \in Posts
  PROVE  IsFiniteSet(CommentsOn(p)) /\ Cardinality(CommentsOn(p)) \in Nat
BY CardinalityType DEF CommentsOn

LEMMA CountsInit == Init => CountsMatch
<1> SUFFICES ASSUME Init, NEW p \in Posts
             PROVE  LikesMatch(p) /\ CommentsMatch(p)
  BY DEF CountsMatch, LikesMatch, CommentsMatch
<1>1. Likers(p) = {} /\ CommentsOn(p) = {}
  BY DEF Init, Likers, CommentsOn, Written
<1>2. likeCount[p] = 0 /\ commentCount[p] = 0
  BY DEF Init
<1>. QED
  BY <1>1, <1>2, FS_EmptySet DEF LikesMatch, CommentsMatch

(* One like more, one like less: only the counter of that post moves.       *)
LEMMA LikesStep ==
  ASSUME TypeOK, CountsMatch, NEW u \in Users, NEW p \in Posts,
         Like(u, p) \/ Unlike(u, p), NEW q \in Posts
  PROVE  LikesMatch(q)' /\ CommentsMatch(q)'
<1>1. Cardinality(Likers(q)) = likeCount[q]
      /\ Cardinality(CommentsOn(q)) = commentCount[q]
  BY DEF CountsMatch
<1>2. CommentsMatch(q)'
  <2>1. commentCount' = commentCount /\ comment' = comment
    BY DEF Like, Unlike
  <2>. QED
    BY <2>1, <1>1 DEF CommentsMatch, CommentsOn, Written
<1>3. CASE q # p
  <2>1. Likers(q)' = Likers(q)
    BY <1>3 DEF Likers, Like, Unlike
  <2>2. likeCount'[q] = likeCount[q]
    BY <1>3 DEF TypeOK, Like, Unlike
  <2>. QED
    BY <2>1, <2>2, <1>1, <1>2 DEF LikesMatch
<1>4. CASE q = p /\ Like(u, p)
  <2>1. Likers(p)' = Likers(p) \union {u} /\ u \notin Likers(p)
    BY <1>4 DEF Likers, Like
  <2>2. likeCount'[p] = likeCount[p] + 1
    BY <1>4 DEF TypeOK, Like
  <2>. QED
    BY <2>1, <2>2, <1>1, <1>2, <1>4, LikersFinite, FS_AddElement DEF LikesMatch
<1>5. CASE q = p /\ Unlike(u, p)
  <2>1. Likers(p)' = Likers(p) \ {u} /\ u \in Likers(p)
    BY <1>5 DEF Likers, Unlike
  <2>2. likeCount'[p] = Less(likeCount[p], 1)
    BY <1>5 DEF TypeOK, Unlike
  <2>3. likeCount[p] \in Nat
    BY DEF TypeOK
  <2>4. Cardinality(Likers(p)') = Cardinality(Likers(p)) - 1
    BY <2>1, LikersFinite, FS_RemoveElement
  <2>5. Cardinality(Likers(p)') \in Nat
    BY <2>1, LikersFinite, FS_RemoveElement, FS_CardinalityType
  <2>. QED
    BY <2>2, <2>3, <2>4, <2>5, <1>1, <1>2, <1>5 DEF LikesMatch, Less
<1>. QED
  BY <1>3, <1>4, <1>5

LEMMA CommentsStep ==
  ASSUME TypeOK, CountsMatch, NEW c \in Comments,
         CreateComment(c) \/ DeleteComment(c), NEW q \in Posts
  PROVE  LikesMatch(q)' /\ CommentsMatch(q)'
<1> USE OnAssumption
<1>1. Cardinality(Likers(q)) = likeCount[q]
      /\ Cardinality(CommentsOn(q)) = commentCount[q]
  BY DEF CountsMatch
<1>2. LikesMatch(q)'
  <2>1. likeCount' = likeCount /\ liked' = liked
    BY DEF CreateComment, DeleteComment
  <2>. QED
    BY <2>1, <1>1 DEF LikesMatch, Likers
<1>3. CASE q # On[c]
  <2>1. CommentsOn(q)' = CommentsOn(q)
    BY <1>3 DEF CommentsOn, Written, CreateComment, DeleteComment, TypeOK
  <2>2. commentCount'[q] = commentCount[q]
    BY <1>3 DEF TypeOK, CreateComment, DeleteComment
  <2>. QED
    BY <2>1, <2>2, <1>1, <1>2 DEF CommentsMatch
<1>4. CASE q = On[c] /\ CreateComment(c)
  <2>1. CommentsOn(q)' = CommentsOn(q) \union {c} /\ c \notin CommentsOn(q)
    BY <1>4 DEF CommentsOn, Written, CreateComment, TypeOK
  <2>2. commentCount'[q] = commentCount[q] + 1
    BY <1>4 DEF TypeOK, CreateComment
  <2>. QED
    BY <2>1, <2>2, <1>1, <1>2, CommentsFinite, FS_AddElement DEF CommentsMatch
<1>5. CASE q = On[c] /\ DeleteComment(c)
  <2>1. CommentsOn(q)' = CommentsOn(q) \ {c} /\ c \in CommentsOn(q)
    BY <1>5 DEF CommentsOn, Written, DeleteComment, TypeOK
  <2>2. commentCount'[q] = Less(commentCount[q], 1)
    BY <1>5 DEF TypeOK, DeleteComment
  <2>3. commentCount[q] \in Nat
    BY DEF TypeOK
  <2>4. Cardinality(CommentsOn(q)') = Cardinality(CommentsOn(q)) - 1
    BY <2>1, CommentsFinite, FS_RemoveElement
  <2>5. Cardinality(CommentsOn(q)') \in Nat
    BY <2>1, CommentsFinite, FS_RemoveElement, FS_CardinalityType
  <2>. QED
    BY <2>2, <2>3, <2>4, <2>5, <1>1, <1>2 DEF CommentsMatch, Less
<1>. QED
  BY <1>3, <1>4, <1>5

(* The posts that go are counted no more; from the others leaving takes     *)
(* what the user has liked and written.                                     *)
LEMMA LeaveStep ==
  ASSUME TypeOK, NothingDangles, CountsMatch, NEW u \in Users, Leave(u),
         NEW q \in Posts
  PROVE  LikesMatch(q)' /\ CommentsMatch(q)'
<1> USE OnAssumption
<1>1. /\ Cardinality(Likers(q)) = likeCount[q] /\ likeCount[q] \in Nat
      /\ Cardinality(CommentsOn(q)) = commentCount[q] /\ commentCount[q] \in Nat
  BY DEF CountsMatch, TypeOK
<1>2. /\ likeCount'[q] = IF q \in Mine(u) THEN 0
                         ELSE Less(likeCount[q], IF <<u, q>> \in liked THEN 1 ELSE 0)
      /\ commentCount'[q] = IF q \in Mine(u) THEN 0
                            ELSE Less(commentCount[q], Cardinality(LostOn(u, q)))
  BY DEF Leave, Mine, Lost, LostOn
<1>3. \A v \in Users : <<v, q>> \in liked' <=>
                         <<v, q>> \in liked /\ v # u /\ q \notin Mine(u)
  BY DEF Leave, Mine
<1>4. \A c \in Comments : comment'[c] = "there" <=>
                            comment[c] = "there" /\ c \notin Lost(u)
  BY DEF Leave, Lost, Mine
<1>5. CASE q \in Mine(u)
  <2>1. Likers(q)' = {} /\ CommentsOn(q)' = {}
    BY <1>3, <1>4, <1>5 DEF Likers, CommentsOn, Written, Lost
  <2>. QED
    BY <2>1, <1>2, <1>5, FS_EmptySet DEF LikesMatch, CommentsMatch
<1>6. CASE q \notin Mine(u)
  <2>1. LikesMatch(q)'
    <3>1. Likers(q)' = Likers(q) \ {u} /\ (u \in Likers(q) <=> <<u, q>> \in liked)
      BY <1>3, <1>6 DEF Likers
    <3>2. Cardinality(Likers(q)') =
            IF <<u, q>> \in liked THEN likeCount[q] - 1 ELSE likeCount[q]
      BY <3>1, <1>1, LikersFinite, FS_RemoveElement
    <3>3. Cardinality(Likers(q)') \in Nat
      BY <3>1, LikersFinite, FS_RemoveElement, FS_CardinalityType
    <3>. QED
      BY <1>1, <1>2, <1>6, <3>2, <3>3 DEF LikesMatch, Less
  <2>2. CommentsMatch(q)'
    <3>1. CommentsOn(q)' = CommentsOn(q) \ LostOn(u, q)
      BY <1>4 DEF CommentsOn, Written, LostOn
    <3>2. CommentsOn(q) \intersect LostOn(u, q) = LostOn(u, q)
      BY DEF CommentsOn, LostOn, Lost
    <3>3. Cardinality(LostOn(u, q)) \in Nat
      BY CardinalityType DEF LostOn, Lost
    <3>4. Cardinality(CommentsOn(q)') = commentCount[q] - Cardinality(LostOn(u, q))
      BY <3>1, <3>2, <1>1, CommentsFinite, FS_Difference
    <3>5. Cardinality(CommentsOn(q)') \in Nat
      BY <3>1, CommentsFinite, FS_Difference, FS_CardinalityType
    <3>. QED
      BY <1>1, <1>2, <1>6, <3>3, <3>4, <3>5 DEF CommentsMatch, Less
  <2>. QED
    BY <2>1, <2>2
<1>. QED
  BY <1>5, <1>6

LEMMA DeletePostStep ==
  ASSUME TypeOK, CountsMatch, NEW p \in Posts, DeletePost(p), NEW q \in Posts
  PROVE  LikesMatch(q)' /\ CommentsMatch(q)'
<1> USE OnAssumption
<1>1. Cardinality(Likers(q)) = likeCount[q]
      /\ Cardinality(CommentsOn(q)) = commentCount[q]
  BY DEF CountsMatch
<1>2. /\ likeCount'[q] = IF q = p THEN 0 ELSE likeCount[q]
      /\ commentCount'[q] = IF q = p THEN 0 ELSE commentCount[q]
  BY DEF TypeOK, DeletePost
<1>3. Likers(q)' = IF q = p THEN {} ELSE Likers(q)
  BY DEF Likers, DeletePost
<1>4. CommentsOn(q)' = IF q = p THEN {} ELSE CommentsOn(q)
  BY DEF CommentsOn, Written, DeletePost
<1>. QED
  BY <1>1, <1>2, <1>3, <1>4, FS_EmptySet DEF LikesMatch, CommentsMatch

LEMMA CountsStep ==
  TypeOK /\ NothingDangles /\ CountsMatch /\ [Next]_vars => CountsMatch'
<1> SUFFICES ASSUME TypeOK, NothingDangles, CountsMatch, [Next]_vars,
                    NEW q \in Posts
             PROVE  LikesMatch(q)' /\ CommentsMatch(q)'
  BY DEF CountsMatch, LikesMatch, CommentsMatch
<1>1. CASE UNCHANGED <<liked, comment, counts>>
  <2>1. Likers(q)' = Likers(q) /\ CommentsOn(q)' = CommentsOn(q)
    BY <1>1 DEF Likers, CommentsOn, Written
  <2>. QED
    BY <2>1, <1>1 DEF CountsMatch, LikesMatch, CommentsMatch
<1>2. ASSUME NEW p \in Posts, NEW t \in Texts, Publish(p, t) \/ Edit(p, t)
      PROVE  UNCHANGED <<liked, comment, counts>>
  BY <1>2 DEF Publish, Edit
<1>3. ASSUME NEW u \in Users, NEW v \in Users, Follow(u, v) \/ Unfollow(u, v)
      PROVE  UNCHANGED <<liked, comment, counts>>
  BY <1>3 DEF Follow, Unfollow
<1>4. UNCHANGED vars => UNCHANGED <<liked, comment, counts>>
  BY DEF vars
<1>. QED
  BY <1>1, <1>2, <1>3, <1>4, LikesStep, CommentsStep, LeaveStep, DeletePostStep
  DEF Next, PostStep, ReactionStep

-----------------------------------------------------------------------------
Consistent == TypeOK /\ NothingDangles /\ NotesMatch /\ TagsFit /\ CountsMatch

LEMMA ConsistentAlways == Spec => []Consistent
<1>1. Init => Consistent
  BY TypeInit, DanglesInit, NotesInit, CountsInit
  DEF Consistent, Init, TagsFit, There
<1>2. Consistent /\ [Next]_vars => Consistent'
  BY TypeStep, DanglesStep, NotesStep, TagsStep, CountsStep DEF Consistent
<1>. QED
  BY <1>1, <1>2, PTL DEF Spec

(* No like and no comment is left of a post that is gone.                   *)
THEOREM ForeignKeys == Spec => []NothingDangles
<1>1. Consistent => NothingDangles
  BY DEF Consistent
<1>. QED
  BY <1>1, ConsistentAlways, PTL

(* The columns posts.like_count and posts.comment_count are right after any *)
(* sequence of likes, comments, deletions and leavings.                     *)
THEOREM CountersRight == Spec => []CountsMatch
<1>1. Consistent => CountsMatch
  BY DEF Consistent
<1>. QED
  BY <1>1, ConsistentAlways, PTL

(* There is one notification for each like, comment or follow of somebody   *)
(* else's, and none for anything that is gone.                              *)
THEOREM NotificationsRight == Spec => []NotesMatch
<1>1. Consistent => NotesMatch
  BY DEF Consistent
<1>. QED
  BY <1>1, ConsistentAlways, PTL

(* A post has the tags that were sent with its text.                        *)
THEOREM TagsRight == Spec => []TagsFit
<1>1. Consistent => TagsFit
  BY DEF Consistent
<1>. QED
  BY <1>1, ConsistentAlways, PTL
=============================================================================
