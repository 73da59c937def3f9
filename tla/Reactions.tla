------------------------------- MODULE Reactions -------------------------------
(***************************************************************************)
(* What the posts, likes, comments, follows and notifications promise: an  *)
(* operation takes effect at one instant, as a whole or not at all.        *)
(* Transactions refines this module, statement by statement.               *)
(***************************************************************************)
EXTENDS ReactionData

VARIABLES
  post,          \* whether a post is "unwritten", "there" or "deleted"
  text,          \* the text of a post
  tags,          \* post_tags
  comment,       \* whether a comment is "unwritten", "there" or "deleted"
  liked,         \* likes
  follows,       \* follows
  likeCount,     \* posts.like_count
  commentCount,  \* posts.comment_count
  likeNotes,     \* how many notifications a like has made
  commentNotes,  \* how many notifications a comment has made
  followNotes,   \* how many notifications a follow has made
  left           \* users.deleted_at is set

posts == <<post, text, tags>>
counts == <<likeCount, commentCount>>
vars == <<posts, comment, liked, follows, counts, likeNotes, commentNotes,
          followNotes, left>>

There(p) == post[p] = "there"
Written(c) == comment[c] = "there"

Likers(p) == {u \in Users : <<u, p>> \in liked}
CommentsOn(p) == {c \in Comments : Written(c) /\ On[c] = p}

(* Nobody is told of what they do themselves. *)
Told(u, v) == IF u = v THEN 0 ELSE 1

-----------------------------------------------------------------------------
Init ==
  /\ post = [p \in Posts |-> "unwritten"]
  /\ text = [p \in Posts |-> NoText]
  /\ tags = [p \in Posts |-> {}]
  /\ comment = [c \in Comments |-> "unwritten"]
  /\ liked = {} /\ follows = {}
  /\ likeCount = [p \in Posts |-> 0]
  /\ commentCount = [p \in Posts |-> 0]
  /\ likeNotes = [l \in Users \X Posts |-> 0]
  /\ commentNotes = [c \in Comments |-> 0]
  /\ followNotes = [f \in Users \X Users |-> 0]
  /\ left = {}

Write(p, t) ==
  /\ text' = [text EXCEPT ![p] = t]
  /\ tags' = [tags EXCEPT ![p] = TagsOf[t]]

Publish(p, t) ==
  /\ post[p] = "unwritten"
  /\ post' = [post EXCEPT ![p] = "there"]
  /\ Write(p, t)
  /\ UNCHANGED <<comment, liked, follows, counts, likeNotes, commentNotes,
                 followNotes, left>>

Edit(p, t) ==
  /\ There(p)
  /\ Write(p, t)
  /\ UNCHANGED <<post, comment, liked, follows, counts, likeNotes,
                 commentNotes, followNotes, left>>

Like(u, p) ==
  /\ There(p) /\ <<u, p>> \notin liked
  /\ liked' = liked \union {<<u, p>>}
  /\ likeCount' = [likeCount EXCEPT ![p] = @ + 1]
  /\ likeNotes' = [likeNotes EXCEPT ![<<u, p>>] = @ + Told(u, Owner[p])]
  /\ UNCHANGED <<posts, comment, follows, commentCount, commentNotes,
                 followNotes, left>>

Unlike(u, p) ==
  /\ <<u, p>> \in liked
  /\ liked' = liked \ {<<u, p>>}
  /\ likeCount' = [likeCount EXCEPT ![p] = Less(@, 1)]
  /\ likeNotes' = [likeNotes EXCEPT ![<<u, p>>] = 0]
  /\ UNCHANGED <<posts, comment, follows, commentCount, commentNotes,
                 followNotes, left>>

CreateComment(c) ==
  /\ comment[c] = "unwritten" /\ There(On[c])
  /\ comment' = [comment EXCEPT ![c] = "there"]
  /\ commentCount' = [commentCount EXCEPT ![On[c]] = @ + 1]
  /\ commentNotes' = [commentNotes EXCEPT ![c] = Told(Author[c], Owner[On[c]])]
  /\ UNCHANGED <<posts, liked, follows, likeCount, likeNotes, followNotes, left>>

DeleteComment(c) ==
  /\ Written(c)
  /\ comment' = [comment EXCEPT ![c] = "deleted"]
  /\ commentCount' = [commentCount EXCEPT ![On[c]] = Less(@, 1)]
  /\ commentNotes' = [commentNotes EXCEPT ![c] = 0]
  /\ UNCHANGED <<posts, liked, follows, likeCount, likeNotes, followNotes, left>>

Follow(u, v) ==
  /\ u # v /\ <<u, v>> \notin follows
  /\ follows' = follows \union {<<u, v>>}
  /\ followNotes' = [followNotes EXCEPT ![<<u, v>>] = @ + 1]
  /\ UNCHANGED <<posts, comment, liked, counts, likeNotes, commentNotes, left>>

Unfollow(u, v) ==
  /\ <<u, v>> \in follows
  /\ follows' = follows \ {<<u, v>>}
  /\ followNotes' = [followNotes EXCEPT ![<<u, v>>] = 0]
  /\ UNCHANGED <<posts, comment, liked, counts, likeNotes, commentNotes, left>>

(* The foreign keys take the rows that refer to the posts in P along. *)
DropPosts(P) ==
  /\ post' = [p \in Posts |-> IF p \in P THEN "deleted" ELSE post[p]]
  /\ text' = [p \in Posts |-> IF p \in P THEN NoText ELSE text[p]]
  /\ tags' = [p \in Posts |-> IF p \in P THEN {} ELSE tags[p]]

DeletePost(p) ==
  /\ There(p)
  /\ DropPosts({p})
  /\ comment' = [c \in Comments |-> IF Written(c) /\ On[c] = p
                                    THEN "deleted" ELSE comment[c]]
  /\ commentNotes' = [c \in Comments |-> IF On[c] = p THEN 0
                                         ELSE commentNotes[c]]
  /\ liked' = {l \in liked : l[2] # p}
  /\ likeNotes' = [l \in Users \X Posts |-> IF l[2] = p THEN 0 ELSE likeNotes[l]]
  /\ likeCount' = [likeCount EXCEPT ![p] = 0]
  /\ commentCount' = [commentCount EXCEPT ![p] = 0]
  /\ UNCHANGED <<follows, followNotes, left>>

(* Leaving takes back everything a user has done, and the posts. *)
Leave(u) ==
  LET mine == {p \in Posts : There(p) /\ Owner[p] = u}
      lost == {c \in Comments : Written(c) /\ (On[c] \in mine \/ Author[c] = u)}
  IN
  /\ DropPosts(mine)
  /\ comment' = [c \in Comments |-> IF c \in lost THEN "deleted" ELSE comment[c]]
  /\ commentCount' = [p \in Posts |->
       IF p \in mine THEN 0
       ELSE Less(commentCount[p], Cardinality({c \in lost : On[c] = p}))]
  /\ liked' = {l \in liked : l[1] # u /\ l[2] \notin mine}
  /\ likeCount' = [p \in Posts |->
       IF p \in mine THEN 0
       ELSE Less(likeCount[p], IF <<u, p>> \in liked THEN 1 ELSE 0)]
  /\ follows' = {f \in follows : f[1] # u /\ f[2] # u}
  /\ likeNotes' = [l \in Users \X Posts |->
       IF l[1] = u \/ Owner[l[2]] = u THEN 0 ELSE likeNotes[l]]
  /\ commentNotes' = [c \in Comments |->
       IF Author[c] = u \/ Owner[On[c]] = u THEN 0 ELSE commentNotes[c]]
  /\ followNotes' = [f \in Users \X Users |->
       IF f[1] = u \/ f[2] = u THEN 0 ELSE followNotes[f]]
  /\ left' = left \union {u}

PostStep ==
  \/ \E p \in Posts, t \in Texts : Publish(p, t) \/ Edit(p, t)
  \/ \E p \in Posts : DeletePost(p)

ReactionStep ==
  \/ \E u \in Users, p \in Posts : Like(u, p) \/ Unlike(u, p)
  \/ \E c \in Comments : CreateComment(c) \/ DeleteComment(c)
  \/ \E u, v \in Users : Follow(u, v) \/ Unfollow(u, v)

Next == PostStep \/ ReactionStep \/ \E u \in Users : Leave(u)

Spec == Init /\ [][Next]_vars

-----------------------------------------------------------------------------
States == {"unwritten", "there", "deleted"}

TypeOK ==
  /\ post \in [Posts -> States]
  /\ text \in [Posts -> Texts \union {NoText}]
  /\ tags \in [Posts -> SUBSET Tags]
  /\ comment \in [Comments -> States]
  /\ liked \subseteq Users \X Posts
  /\ follows \subseteq Users \X Users
  /\ likeCount \in [Posts -> Nat]
  /\ commentCount \in [Posts -> Nat]
  /\ likeNotes \in [Users \X Posts -> Nat]
  /\ commentNotes \in [Comments -> Nat]
  /\ followNotes \in [Users \X Users -> Nat]
  /\ left \subseteq Users

(* like_count and comment_count of a post are the numbers of its likes and  *)
(* comments: Like, Unlike, CreateComment, DeleteComment and DeleteAccount   *)
(* change the column and the rows together (reactions.go, account.go).      *)
CountsMatch ==
  \A p \in Posts :
    /\ likeCount[p] = Cardinality(Likers(p))
    /\ commentCount[p] = Cardinality(CommentsOn(p))

(* A like, a comment or a follow that concerns somebody else has one        *)
(* notification, and no notification is left of one that is gone.           *)
NotesMatch ==
  /\ \A u \in Users, p \in Posts :
       likeNotes[<<u, p>>] = IF <<u, p>> \in liked THEN Told(u, Owner[p]) ELSE 0
  /\ \A c \in Comments :
       commentNotes[c] = IF Written(c) THEN Told(Author[c], Owner[On[c]]) ELSE 0
  /\ \A u, v \in Users :
       followNotes[<<u, v>>] = IF <<u, v>> \in follows THEN 1 ELSE 0

(* Likes and comments are on posts that are there (the foreign keys).       *)
NothingDangles ==
  /\ \A l \in liked : There(l[2])
  /\ \A c \in Comments : Written(c) => There(On[c])

(* The tags of a post are those sent with its text: two edits of one post   *)
(* do not mix.                                                              *)
TagsFit == \A p \in Posts : There(p) => tags[p] = TagsOf[text[p]]
=============================================================================
