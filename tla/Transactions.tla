----------------------------- MODULE Transactions -----------------------------
(***************************************************************************)
(* The transactions of posts, likes, comments, follows and leaving, one    *)
(* SQL statement at a time, as InnoDB runs them (REPEATABLE READ): a       *)
(* statement that writes, or that reads rows to write others, locks what   *)
(* it touches until the end of its transaction; a plain SELECT reads what  *)
(* is committed and locks nothing.                                         *)
(*                                                                         *)
(* Rows, and the places of rows that are not there, are items.  A          *)
(* transaction keeps its writes to itself until it commits; that is the    *)
(* same as writing in place, as nobody else reads what it has written.     *)
(***************************************************************************)
EXTENDS ReactionData

CONSTANTS
  Workers,       \* requests that are served at the same time
  Kinds,         \* the operations that are asked for
  MaxAttempts,   \* txMaxAttempts
  Absent,        \* no row yet
  Used           \* the row has been deleted, and its id is not used again

PostRows == [text : Texts, likes : Nat, comments : Nat]

ASSUME BoundAssumption == MaxAttempts \in Nat \ {0}
ASSUME AbsentAssumption ==
  /\ Absent # Used
  /\ \A v \in {Absent, Used} : v \notin {"there", "active", "left"} \union PostRows

VARIABLES
  db,    \* the committed rows
  tx     \* what each request is doing, and the locks and writes of its
         \* transaction

vars == <<db, tx>>

-----------------------------------------------------------------------------
User(u)          == <<"user", u>>
Post(p)          == <<"post", p>>
PostTags(p)      == <<"tags", p>>
Tag(t)           == <<"tag", t>>
Comment(c)       == <<"comment", c>>
LikeRow(u, p)    == <<"like", u, p>>
FollowRow(u, v)  == <<"follow", u, v>>
LikeNote(u, p)   == <<"likeNote", u, p>>
CommentNote(c)   == <<"commentNote", c>>
FollowNote(u, v) == <<"followNote", u, v>>

Rows == {User(u) : u \in Users} \union {Post(p) : p \in Posts}
          \union {Comment(c) : c \in Comments} \union {Tag(t) : t \in Tags}
          \union {LikeRow(u, p) : u \in Users, p \in Posts}
          \union {FollowRow(u, v) : u, v \in Users}
Notes == {LikeNote(u, p) : u \in Users, p \in Posts}
           \union {CommentNote(c) : c \in Comments}
           \union {FollowNote(u, v) : u, v \in Users}
Links == {PostTags(p) : p \in Posts}
Items == Rows \union Notes \union Links

NewPost(t) == [text |-> t, likes |-> 0, comments |-> 0]

NoTx == [pc |-> "idle", kind |-> "none", user |-> Absent, on |-> Absent,
         text |-> Absent, attempt |-> 0, shared |-> {}, write |-> <<>>]

Init ==
  /\ db = [i \in Items |-> CASE i \in Notes -> 0
                             [] i \in Links -> {}
                             [] i[1] = "user" -> "active"
                             [] OTHER -> Absent]
  /\ tx = [w \in Workers |-> NoTx]

-----------------------------------------------------------------------------
(* Reads of a transaction that holds a lock: its own writes come first.     *)
Get(w, i) == IF i \in DOMAIN tx[w].write THEN tx[w].write[i] ELSE db[i]
Has(w, i) == Get(w, i) \notin {Absent, Used}

(* The post that the operation of w is about. *)
PostOf(w) == IF tx[w].kind \in {"comment", "uncomment"} THEN On[tx[w].on]
             ELSE tx[w].on

(* The result of a statement: the items it locks to read, those it locks    *)
(* to write with their new values, and the next statement.                  *)
Does(shared, write, next) == [shared |-> shared, write |-> write, next |-> next]
Goes(next) == Does({}, <<>>, next)

(* One item with its new value, and writes on top of earlier ones.          *)
Put(i, v) == [j \in {i} |-> v]
Over(new, old) ==
  [i \in DOMAIN new \union DOMAIN old |-> IF i \in DOMAIN new THEN new[i] ELSE old[i]]

(* DELETE of the rows R, with what the foreign keys take along. *)
Deletion(w, R) ==
  LET onPost(p) == {Comment(c) : c \in {d \in Comments : On[d] = p}}
                     \union {LikeRow(u, p) : u \in Users}
      gone == {i \in R \union UNION {onPost(p) : p \in {q \in Posts : Post(q) \in R}} :
                 Has(w, i)}
      notes == {LikeNote(u, p) : u \in Users, p \in {q \in Posts : Post(q) \in gone}}
                 \union {CommentNote(c) : c \in {d \in Comments : Comment(d) \in gone}}
      links == {PostTags(p) : p \in {q \in Posts : Post(q) \in gone}}
  IN [i \in gone \union notes \union links |->
        CASE i \in notes -> 0
          [] i \in links -> {}
          [] i[1] \in {"post", "comment"} -> Used
          [] OTHER -> Absent]

(* UPDATE posts, for the posts of P that are there. *)
Counting(w, P, row(_)) ==
  [i \in {Post(p) : p \in {q \in P : Has(w, Post(q))}} |-> row(i[2])]

Likes(w, p, n) == [Get(w, Post(p)) EXCEPT !.likes = n]
Replies(w, p, n) == [Get(w, Post(p)) EXCEPT !.comments = n]

(* INSERT INTO notifications: the rows it refers to must stay. *)
Notify(w, note, from, to, refs) ==
  Does({User(from), User(to)} \union refs, Put(note, Get(w, note) + 1), "commit")

-----------------------------------------------------------------------------
(* postOwner: 404 if the post is not there, otherwise on to the first       *)
(* statement that writes.                                                   *)
ReadOwner(w) ==
  IF Has(w, Post(PostOf(w)))
  THEN Goes(CASE tx[w].kind = "like" -> "insertLike"
              [] tx[w].kind = "unlike" -> "deleteLike"
              [] tx[w].kind = "comment" -> "insertComment")
  ELSE Goes("failed")

(* INSERT IGNORE: a row that is there already, or a post that no longer is, *)
(* leave it at 0 rows.                                                      *)
InsertLike(w) ==
  LET u == tx[w].user  p == PostOf(w)  row == LikeRow(u, p) IN
  IF Has(w, row) THEN Does({row}, <<>>, "commit")
  ELSE IF Has(w, Post(p)) THEN Does({Post(p), User(u)}, Put(row, "there"), "countLike")
  ELSE Does({Post(p)}, <<>>, "commit")

CountLike(w) ==
  LET p == PostOf(w) IN
  Does({}, Counting(w, {p}, LAMBDA q : Likes(w, q, Get(w, Post(q)).likes + 1)),
       IF Owner[p] = tx[w].user THEN "commit" ELSE "noteLike")

NoteLike(w) ==
  LET u == tx[w].user  p == PostOf(w) IN
  Notify(w, LikeNote(u, p), u, Owner[p], {Post(p)})

DeleteLike(w) ==
  LET row == LikeRow(tx[w].user, PostOf(w)) IN
  IF Has(w, row) THEN Does({}, Deletion(w, {row}), "uncountLike")
  ELSE Does({row}, <<>>, "commit")

(* Fault: the notification of the like is left behind. *)
UncountLikeOnly(w) ==
  Does({}, Counting(w, {PostOf(w)},
                    LAMBDA q : Likes(w, q, Less(Get(w, Post(q)).likes, 1))), "commit")

UncountLike(w) ==
  LET p == PostOf(w) IN
  Does({}, Counting(w, {p}, LAMBDA q : Likes(w, q, Less(Get(w, Post(q)).likes, 1))),
       IF Owner[p] = tx[w].user THEN "commit" ELSE "unnoteLike")

UnnoteLike(w) == Does({}, Put(LikeNote(tx[w].user, PostOf(w)), 0), "commit")

(* INSERT: a post that is no longer there is an error of the foreign key.   *)
InsertComment(w) ==
  LET p == PostOf(w) IN
  IF Has(w, Post(p))
  THEN Does({Post(p), User(tx[w].user)}, Put(Comment(tx[w].on), "there"), "countComment")
  ELSE Does({Post(p)}, <<>>, "failed")

CountComment(w) ==
  LET p == PostOf(w) IN
  Does({}, Counting(w, {p}, LAMBDA q : Replies(w, q, Get(w, Post(q)).comments + 1)),
       IF Owner[p] = tx[w].user THEN "commit" ELSE "noteComment")

NoteComment(w) ==
  LET p == PostOf(w) IN
  Notify(w, CommentNote(tx[w].on), tx[w].user, Owner[p], {Post(p), Comment(tx[w].on)})

DeleteComment(w) ==
  LET row == Comment(tx[w].on) IN
  IF Has(w, row) THEN Does({}, Deletion(w, {row}), "uncountComment")
  ELSE Does({row}, <<>>, "failed")

UncountComment(w) ==
  Does({}, Counting(w, {PostOf(w)},
                    LAMBDA q : Replies(w, q, Less(Get(w, Post(q)).comments, 1))),
       "commit")

InsertFollow(w) ==
  LET u == tx[w].user  v == tx[w].on  row == FollowRow(u, v) IN
  IF Has(w, row) THEN Does({row}, <<>>, "commit")
  ELSE Does({User(u), User(v)}, Put(row, "there"), "noteFollow")

NoteFollow(w) ==
  Notify(w, FollowNote(tx[w].user, tx[w].on), tx[w].user, tx[w].on, {})

DeleteFollow(w) ==
  LET row == FollowRow(tx[w].user, tx[w].on) IN
  IF Has(w, row) THEN Does({}, Deletion(w, {row}), "unnoteFollow")
  ELSE Does({row}, <<>>, "commit")

UnnoteFollow(w) == Does({}, Put(FollowNote(tx[w].user, tx[w].on), 0), "commit")

(* INSERT INTO posts, and UPDATE posts, which says nothing when the post is *)
(* no longer there.                                                         *)
InsertPost(w) ==
  Does({User(tx[w].user)}, Put(Post(tx[w].on), NewPost(tx[w].text)), "detachTags")

UpdatePost(w) ==
  Does({Post(tx[w].on)},
       Counting(w, {tx[w].on}, LAMBDA q : [Get(w, Post(q)) EXCEPT !.text = tx[w].text]),
       "detachTags")

(* Fault: the former tags stay. *)
DetachNothing(w) == Goes("attachTag")

DetachTags(w) == Does({}, Put(PostTags(tx[w].on), {}), "attachTag")

(* replaceTags' loop: the next tag is created or locked, and attached.      *)
AttachTag(w) ==
  LET p == tx[w].on  list == TagList[tx[w].text]
      done == Cardinality(Get(w, PostTags(p))) IN
  IF done >= Len(list) THEN Goes("commit")
  ELSE Does({Post(p)},
            Over(Put(Tag(list[done + 1]), "there"),
                 Put(PostTags(p), Get(w, PostTags(p)) \union {list[done + 1]})),
            IF Has(w, Post(p)) THEN "attachTag" ELSE "failed")

DeletePost(w) ==
  LET row == Post(tx[w].on) IN
  IF Has(w, row) THEN Does({}, Deletion(w, {row}), "commit")
  ELSE Does({row}, <<>>, "failed")

(***************************************************************************)
(* DeleteAccount.  The subqueries of the two UPDATEs lock what they read,  *)
(* rows and gaps alike, so what is counted is what is deleted next.        *)
(***************************************************************************)
CommentsOf(u) == {Comment(c) : c \in {d \in Comments : Author[d] = u}}
LikesOf(u) == {LikeRow(u, p) : p \in Posts}
FollowsOf(u) == {FollowRow(u, v) : v \in Users} \union {FollowRow(v, u) : v \in Users}
NotesOf(u) ==
  {LikeNote(v, p) : v \in Users, p \in {q \in Posts : Owner[q] = u}}
    \union {LikeNote(u, p) : p \in Posts}
    \union {CommentNote(c) : c \in {d \in Comments : u \in {Author[d], Owner[On[d]]}}}
    \union {FollowNote(u, v) : v \in Users} \union {FollowNote(v, u) : v \in Users}

(* Faults: the statements lock the rows they change, but no gaps, and the   *)
(* subqueries read what is committed (READ COMMITTED).                      *)
DeletePostsUnlocked(w) ==
  Does({}, Deletion(w, {Post(p) : p \in {q \in Posts : Owner[q] = tx[w].user}}),
       "uncountComments")
UncountLikesUnlocked(w) ==
  Does({},
       Counting(w, {p \in Posts : Has(w, LikeRow(tx[w].user, p))},
                LAMBDA q : Likes(w, q, Less(Get(w, Post(q)).likes, 1))),
       "deleteLikes")
DeleteFollowsUnlocked(w) == Does({}, Deletion(w, FollowsOf(tx[w].user)), "deleteNotes")

DeletePosts(w) ==
  LET mine == {Post(p) : p \in {q \in Posts : Owner[q] = tx[w].user}} IN
  Does(mine, Deletion(w, mine), "uncountComments")

UncountComments(w) ==
  LET mine == CommentsOf(tx[w].user)
      on(p) == {c \in Comments : On[c] = p /\ Comment(c) \in mine /\ Has(w, Comment(c))}
  IN Does(mine,
          Counting(w, {p \in Posts : on(p) # {}},
                   LAMBDA q : Replies(w, q, Less(Get(w, Post(q)).comments,
                                                 Cardinality(on(q))))),
          "deleteComments")

DeleteComments(w) ==
  LET mine == CommentsOf(tx[w].user) IN
  Does(mine, Deletion(w, mine), "uncountLikes")

UncountLikes(w) ==
  LET u == tx[w].user IN
  Does(LikesOf(u),
       Counting(w, {p \in Posts : Has(w, LikeRow(u, p))},
                LAMBDA q : Likes(w, q, Less(Get(w, Post(q)).likes, 1))),
       "deleteLikes")

DeleteLikes(w) ==
  LET mine == LikesOf(tx[w].user) IN
  Does(mine, Deletion(w, mine), "deleteFollows")

DeleteFollows(w) ==
  LET mine == FollowsOf(tx[w].user) IN
  Does(mine, Deletion(w, mine), "deleteNotes")

DeleteNotes(w) == Does({}, [n \in NotesOf(tx[w].user) |-> 0], "softDelete")

SoftDelete(w) == Does({}, Put(User(tx[w].user), "left"), "commit")

Statement(w) ==
  LET pc == tx[w].pc IN
  CASE pc = "readOwner" -> ReadOwner(w)
    [] pc = "insertLike" -> InsertLike(w)
    [] pc = "countLike" -> CountLike(w)
    [] pc = "noteLike" -> NoteLike(w)
    [] pc = "deleteLike" -> DeleteLike(w)
    [] pc = "uncountLike" -> UncountLike(w)
    [] pc = "unnoteLike" -> UnnoteLike(w)
    [] pc = "insertComment" -> InsertComment(w)
    [] pc = "countComment" -> CountComment(w)
    [] pc = "noteComment" -> NoteComment(w)
    [] pc = "deleteComment" -> DeleteComment(w)
    [] pc = "uncountComment" -> UncountComment(w)
    [] pc = "insertFollow" -> InsertFollow(w)
    [] pc = "noteFollow" -> NoteFollow(w)
    [] pc = "deleteFollow" -> DeleteFollow(w)
    [] pc = "unnoteFollow" -> UnnoteFollow(w)
    [] pc = "insertPost" -> InsertPost(w)
    [] pc = "updatePost" -> UpdatePost(w)
    [] pc = "detachTags" -> DetachTags(w)
    [] pc = "attachTag" -> AttachTag(w)
    [] pc = "deletePost" -> DeletePost(w)
    [] pc = "deletePosts" -> DeletePosts(w)
    [] pc = "uncountComments" -> UncountComments(w)
    [] pc = "deleteComments" -> DeleteComments(w)
    [] pc = "uncountLikes" -> UncountLikes(w)
    [] pc = "deleteLikes" -> DeleteLikes(w)
    [] pc = "deleteFollows" -> DeleteFollows(w)
    [] pc = "deleteNotes" -> DeleteNotes(w)
    [] pc = "softDelete" -> SoftDelete(w)

Outside == {"idle", "lookup"}
Closing == {"commit", "failed"}

(* Fault: readers do not keep writers off. *)
BlockedByWriters(w, s) ==
  \E v \in Workers \ {w} :
    (s.shared \union DOMAIN s.write) \intersect DOMAIN tx[v].write # {}

(* Another transaction holds a lock that the statement asks for. *)
Blocked(w, s) ==
  \E v \in Workers \ {w} :
    \/ (s.shared \union DOMAIN s.write) \intersect DOMAIN tx[v].write # {}
    \/ DOMAIN s.write \intersect tx[v].shared # {}

First(kind) ==
  CASE kind \in {"like", "unlike", "comment"} -> "readOwner"
    [] kind = "uncomment" -> "deleteComment"
    [] kind = "follow" -> "insertFollow"
    [] kind = "unfollow" -> "deleteFollow"
    [] kind = "publish" -> "insertPost"
    [] kind = "edit" -> "updatePost"
    [] kind = "deletePost" -> "deletePost"
    [] kind = "leave" -> "deletePosts"

(* Posts are written without inTx and deleted in a single statement.        *)
Attempts(kind) == IF kind \in {"publish", "edit", "deletePost"} THEN 1
                  ELSE MaxAttempts

-----------------------------------------------------------------------------
Ask(w, kind, u, on, t, pc) ==
  /\ tx[w].pc = "idle" /\ kind \in Kinds
  /\ tx' = [tx EXCEPT ![w] = [NoTx EXCEPT !.kind = kind, !.user = u, !.on = on,
                                          !.text = t, !.attempt = 1, !.pc = pc]]
  /\ UNCHANGED db

(* An id of AUTO_INCREMENT is given to one INSERT only. *)
Unused(i, kind) ==
  /\ db[i] = Absent
  /\ \A v \in Workers : tx[v].kind = kind => tx[v].on # i[2]

AskLike(w, u, p) ==
  \E kind \in {"like", "unlike"} : Ask(w, kind, u, p, Absent, First(kind))
AskComment(w, c) ==
  /\ Unused(Comment(c), "comment")
  /\ Ask(w, "comment", Author[c], c, Absent, First("comment"))
AskUncomment(w, u, c) == Ask(w, "uncomment", u, c, Absent, "lookup")
AskFollow(w, u, v) ==
  \E kind \in {"follow", "unfollow"} :
    u # v /\ Ask(w, kind, u, v, Absent, "lookup")
AskPublish(w, p, t) ==
  /\ Unused(Post(p), "publish")
  /\ Ask(w, "publish", Owner[p], p, t, First("publish"))
AskEdit(w, p, t) == Ask(w, "edit", Owner[p], p, t, "lookup")
AskDeletePost(w, p) == Ask(w, "deletePost", Owner[p], p, Absent, "lookup")
AskLeave(w, u) == Ask(w, "leave", u, Absent, Absent, "lookup")

(* What the handlers read before the transaction: the row of the user by    *)
(* handle or for the password, the author and the post of a comment, the    *)
(* owner of a post.                                                         *)
Permitted(w) ==
  CASE tx[w].kind \in {"follow", "unfollow"} -> db[User(tx[w].on)] = "active"
    [] tx[w].kind = "leave" -> db[User(tx[w].user)] = "active"
    [] tx[w].kind = "uncomment" ->
         /\ db[Comment(tx[w].on)] = "there"
         /\ tx[w].user \in {Author[tx[w].on], Owner[PostOf(w)]}
    [] tx[w].kind \in {"edit", "deletePost"} ->
         db[Post(tx[w].on)] \notin {Absent, Used}

Lookup(w) ==
  /\ tx[w].pc = "lookup"
  /\ tx' = [tx EXCEPT ![w] = IF Permitted(w)
                             THEN [@ EXCEPT !.pc = First(tx[w].kind)] ELSE NoTx]
  /\ UNCHANGED db

Running(w) == tx[w].pc \notin Outside \union Closing

Execute(w) ==
  /\ Running(w)
  /\ LET s == Statement(w) IN
     /\ ~Blocked(w, s)
     /\ tx' = [tx EXCEPT ![w].shared = @ \union s.shared,
                         ![w].write = Over(s.write, @),
                         ![w].pc = s.next]
  /\ UNCHANGED db

Commit(w) ==
  /\ tx[w].pc = "commit"
  /\ db' = [i \in Items |-> Get(w, i)]
  /\ tx' = [tx EXCEPT ![w] = NoTx]

(* The function returns an error that is not tried again: ROLLBACK. *)
Rollback(w) ==
  /\ tx[w].pc = "failed"
  /\ tx' = [tx EXCEPT ![w] = NoTx]
  /\ UNCHANGED db

(* Fault: attempts are not counted. *)
AgainForever(w) == [tx[w] EXCEPT !.pc = First(tx[w].kind), !.shared = {},
                                 !.write = <<>>]

Again(w) == [tx[w] EXCEPT !.pc = First(tx[w].kind), !.attempt = @ + 1,
                          !.shared = {}, !.write = <<>>]

(* A transaction that waits is the victim of a deadlock, or waits for too   *)
(* long: inTx starts over until it has run out of attempts.                 *)
Victim(w) ==
  /\ Running(w) /\ Blocked(w, Statement(w))
  /\ tx' = [tx EXCEPT ![w] = IF tx[w].attempt < Attempts(tx[w].kind)
                             THEN Again(w) ELSE NoTx]
  /\ UNCHANGED db

(* The client goes away, the connection breaks or the process dies. *)
Abandon(w) ==
  /\ tx[w].pc # "idle"
  /\ tx' = [tx EXCEPT ![w] = NoTx]
  /\ UNCHANGED db

Asked(w) ==
  \/ \E u \in Users, p \in Posts : AskLike(w, u, p)
  \/ \E c \in Comments : AskComment(w, c)
  \/ \E u \in Users, c \in Comments : AskUncomment(w, u, c)
  \/ \E u, v \in Users : AskFollow(w, u, v)
  \/ \E p \in Posts, t \in Texts : AskPublish(w, p, t) \/ AskEdit(w, p, t)
  \/ \E p \in Posts : AskDeletePost(w, p)
  \/ \E u \in Users : AskLeave(w, u)

Proceed(w) == Lookup(w) \/ Execute(w) \/ Commit(w) \/ Rollback(w) \/ Victim(w)

Next == \E w \in Workers : Asked(w) \/ Proceed(w) \/ Abandon(w)

Spec == Init /\ [][Next]_vars

(* A statement ends, is refused as a victim, or times out                   *)
(* (innodb_lock_wait_timeout), so a request that goes on does not stop.     *)
Fairness == \A w \in Workers : WF_vars(Proceed(w))
LiveSpec == Spec /\ Fairness

-----------------------------------------------------------------------------
(* The committed rows, as Reactions sees them.                              *)
State(i) == CASE db[i] = Absent -> "unwritten"
              [] db[i] = Used -> "deleted"
              [] OTHER -> "there"
Column(p, f, none) == IF State(Post(p)) = "there" THEN db[Post(p)][f] ELSE none

PostView == [p \in Posts |-> State(Post(p))]
TextView == [p \in Posts |-> Column(p, "text", NoText)]
TagView == [p \in Posts |-> db[PostTags(p)]]
CommentView == [c \in Comments |-> State(Comment(c))]
LikeView == {l \in Users \X Posts : db[LikeRow(l[1], l[2])] = "there"}
FollowView == {f \in Users \X Users : db[FollowRow(f[1], f[2])] = "there"}
LikeCountView == [p \in Posts |-> Column(p, "likes", 0)]
CommentCountView == [p \in Posts |-> Column(p, "comments", 0)]
LikeNoteView == [l \in Users \X Posts |-> db[LikeNote(l[1], l[2])]]
CommentNoteView == [c \in Comments |-> db[CommentNote(c)]]
FollowNoteView == [f \in Users \X Users |-> db[FollowNote(f[1], f[2])]]
LeftView == {u \in Users : db[User(u)] = "left"}

R == INSTANCE Reactions WITH
  post <- PostView, text <- TextView, tags <- TagView, comment <- CommentView,
  liked <- LikeView, follows <- FollowView,
  likeCount <- LikeCountView, commentCount <- CommentCountView,
  likeNotes <- LikeNoteView, commentNotes <- CommentNoteView,
  followNotes <- FollowNoteView, left <- LeftView

(* Every transaction takes effect as one operation of Reactions or not at   *)
(* all, however the statements of the others fall in between: the locks of  *)
(* the statements, and that inTx commits once, see to that (db.go).         *)
Atomic == R!Spec

(* The types of the committed rows, and each lock belongs to one writer.    *)
TypeOK ==
  /\ R!TypeOK
  /\ \A w \in Workers : tx[w].shared \subseteq Items /\ DOMAIN tx[w].write \subseteq Items
  /\ \A v, w \in Workers : v # w =>
       DOMAIN tx[v].write \intersect (tx[w].shared \union DOMAIN tx[w].write) = {}

(* As in Reactions, now of statements that interleave. *)
CountsMatch == R!CountsMatch
NotesMatch == R!NotesMatch
TagsFit == R!TagsFit

(* Every request is answered: waiting on everyone else ends with a victim,  *)
(* and the attempts of inTx run out.                                        *)
Answered == \A w \in Workers : tx[w].pc # "idle" ~> tx[w].pc = "idle"
=============================================================================
