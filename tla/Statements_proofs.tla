--------------------------- MODULE Statements_proofs ---------------------------
(***************************************************************************)
(* The inductive invariant of Transactions, and the proof that every       *)
(* statement keeps it, for any number of requests, users, posts, comments, *)
(* texts and tags.                                                         *)
(*                                                                         *)
(* The invariant says, for every request and every statement it may have   *)
(* come to, which rows its transaction has written, with which values, and *)
(* which rows it has locked (Doing).  All of it is said in terms of        *)
(* committed rows that the locks protect, so that it survives the commits  *)
(* of the others (Steady in Transactions_proofs).                          *)
(***************************************************************************)
EXTENDS Transactions, FiniteSetTheorems, TLAPS

-----------------------------------------------------------------------------
(* The invariant, of a transaction t over committed rows d.                 *)

ThereIn(d, i) == d[i] \notin {Absent, Used}
Keeps(t, i) == i \in t.shared \union DOMAIN t.write
Writes(t, i) == i \in DOMAIN t.write

RowsOK(d) ==
  /\ \A u \in Users : d[User(u)] \in {"active", "left"}
  /\ \A p \in Posts : d[Post(p)] \in PostRows \union {Absent, Used}
  /\ \A c \in Comments : d[Comment(c)] \in {"there", Absent, Used}
  /\ \A u \in Users, p \in Posts : d[LikeRow(u, p)] \in {"there", Absent}
  /\ \A u, v \in Users : d[FollowRow(u, v)] \in {"there", Absent}
NotesOK(d) ==
  /\ \A u \in Users, p \in Posts : d[LikeNote(u, p)] \in Nat
  /\ \A c \in Comments : d[CommentNote(c)] \in Nat
  /\ \A u, v \in Users : d[FollowNote(u, v)] \in Nat
TagsOK(d) ==
  \A p \in Posts : /\ d[PostTags(p)] \subseteq Tags
                   /\ ~ThereIn(d, Post(p)) => d[PostTags(p)] = {}
DbOK(d) == RowsOK(d) /\ NotesOK(d) /\ TagsOK(d)

(* The foreign keys of likes and comments. *)
ForeignKeys(d) ==
  /\ \A u \in Users, p \in Posts :
       d[LikeRow(u, p)] = "there" => ThereIn(d, Post(p))
  /\ \A c \in Comments : d[Comment(c)] = "there" => ThereIn(d, Post(On[c]))

(* Nothing tells of what one does oneself, nor of a comment that is gone. *)
NotesFit(d) ==
  /\ \A p \in Posts : d[LikeNote(Owner[p], p)] = 0
  /\ \A c \in Comments : d[Comment(c)] # "there" => d[CommentNote(c)] = 0

Fields == {"pc", "kind", "user", "on", "text", "attempt", "shared", "write"}
Request(r) ==
  /\ r = [x \in Fields |-> r[x]]
  /\ r.shared \subseteq Items /\ DOMAIN r.write \subseteq Items
TxOK == tx = [w \in Workers |-> tx[w]] /\ \A w \in Workers : Request(tx[w])

Exclusive ==
  \A v, w \in Workers : v # w =>
    DOMAIN tx[v].write \intersect (tx[w].shared \union DOMAIN tx[w].write) = {}

(* Ids are given out once. *)
New(t, d) ==
  /\ t.kind = "comment" => d[Comment(t.on)] = Absent
  /\ t.kind = "publish" => d[Post(t.on)] = Absent
Fresh ==
  /\ \A w \in Workers : New(tx[w], db)
  /\ \A v, w \in Workers :
       v # w /\ tx[v].kind = tx[w].kind /\ tx[w].kind \in {"comment", "publish"} =>
         tx[v].on # tx[w].on

-----------------------------------------------------------------------------
IdleAt(t) == t.pc = "idle" /\ DOMAIN t.write = {}

LikeBegun(t, d) ==
  LET row == LikeRow(t.user, t.on) IN
  /\ d[row] # "there" /\ ThereIn(d, Post(t.on))
  /\ Post(t.on) \in t.shared
  /\ Writes(t, row) /\ t.write[row] = "there"
LikeCounted(t, d) ==
  t.write[Post(t.on)] = [d[Post(t.on)] EXCEPT !.likes = @ + 1]
LikeAt(t, d) ==
  LET u == t.user  p == t.on  row == LikeRow(u, p)  note == LikeNote(u, p) IN
  /\ u \in Users /\ p \in Posts
  /\ t.pc \in {"readOwner", "insertLike", "countLike", "noteLike"} \union Closing
  /\ t.pc \in {"readOwner", "insertLike"} => DOMAIN t.write = {}
  /\ t.pc = "countLike" => LikeBegun(t, d) /\ DOMAIN t.write = {row}
  /\ t.pc = "noteLike" =>
       /\ LikeBegun(t, d) /\ DOMAIN t.write = {row, Post(p)}
       /\ LikeCounted(t, d) /\ Owner[p] # u
  /\ t.pc = "commit" /\ DOMAIN t.write # {} =>
       /\ LikeBegun(t, d) /\ LikeCounted(t, d)
       /\ DOMAIN t.write = {row, Post(p)} \union (IF Owner[p] = u THEN {} ELSE {note})
       /\ Owner[p] # u => t.write[note] = d[note] + 1

UnlikeBegun(t, d) ==
  LET row == LikeRow(t.user, t.on) IN
  d[row] = "there" /\ Writes(t, row) /\ t.write[row] = Absent
LikeUncounted(t, d) ==
  t.write[Post(t.on)] = [d[Post(t.on)] EXCEPT !.likes = Less(@, 1)]
UnlikeAt(t, d) ==
  LET u == t.user  p == t.on  row == LikeRow(u, p)  note == LikeNote(u, p) IN
  /\ u \in Users /\ p \in Posts
  /\ t.pc \in {"readOwner", "deleteLike", "uncountLike", "unnoteLike"} \union Closing
  /\ t.pc \in {"readOwner", "deleteLike"} => DOMAIN t.write = {}
  /\ t.pc = "uncountLike" => UnlikeBegun(t, d) /\ DOMAIN t.write = {row}
  /\ t.pc = "unnoteLike" =>
       /\ UnlikeBegun(t, d) /\ DOMAIN t.write = {row, Post(p)}
       /\ LikeUncounted(t, d) /\ Owner[p] # u
  /\ t.pc = "commit" /\ DOMAIN t.write # {} =>
       /\ UnlikeBegun(t, d) /\ LikeUncounted(t, d)
       /\ DOMAIN t.write = {row, Post(p)} \union (IF Owner[p] = u THEN {} ELSE {note})
       /\ Owner[p] # u => t.write[note] = 0

CommentBegun(t, d) ==
  /\ ThereIn(d, Post(On[t.on])) /\ Post(On[t.on]) \in t.shared
  /\ Writes(t, Comment(t.on)) /\ t.write[Comment(t.on)] = "there"
CommentCounted(t, d) ==
  t.write[Post(On[t.on])] = [d[Post(On[t.on])] EXCEPT !.comments = @ + 1]
CommentAt(t, d) ==
  LET u == t.user  c == t.on  p == On[c]  row == Comment(c)  note == CommentNote(c) IN
  /\ c \in Comments /\ u = Author[c]
  /\ t.pc \in {"readOwner", "insertComment", "countComment", "noteComment"} \union Closing
  /\ t.pc \in {"readOwner", "insertComment"} => DOMAIN t.write = {}
  /\ t.pc = "countComment" => CommentBegun(t, d) /\ DOMAIN t.write = {row}
  /\ t.pc = "noteComment" =>
       /\ CommentBegun(t, d) /\ DOMAIN t.write = {row, Post(p)}
       /\ CommentCounted(t, d) /\ Owner[p] # u
  /\ t.pc = "commit" =>
       /\ CommentBegun(t, d) /\ CommentCounted(t, d)
       /\ DOMAIN t.write = {row, Post(p)} \union (IF Owner[p] = u THEN {} ELSE {note})
       /\ Owner[p] # u => t.write[note] = d[note] + 1

UncommentBegun(t, d) ==
  /\ d[Comment(t.on)] = "there"
  /\ Writes(t, Comment(t.on)) /\ t.write[Comment(t.on)] = Used
  /\ Writes(t, CommentNote(t.on)) /\ t.write[CommentNote(t.on)] = 0
CommentUncounted(t, d) ==
  t.write[Post(On[t.on])] = [d[Post(On[t.on])] EXCEPT !.comments = Less(@, 1)]
UncommentAt(t, d) ==
  LET c == t.on  row == Comment(c)  note == CommentNote(c) IN
  /\ c \in Comments
  /\ t.pc \in {"lookup", "deleteComment", "uncountComment"} \union Closing
  /\ t.pc \in {"lookup", "deleteComment"} => DOMAIN t.write = {}
  /\ t.pc = "uncountComment" => UncommentBegun(t, d) /\ DOMAIN t.write = {row, note}
  /\ t.pc = "commit" =>
       /\ UncommentBegun(t, d) /\ CommentUncounted(t, d)
       /\ DOMAIN t.write = {row, note, Post(On[c])}

FollowAt(t, d) ==
  LET u == t.user  v == t.on  row == FollowRow(u, v)  note == FollowNote(u, v) IN
  /\ u \in Users /\ v \in Users /\ u # v
  /\ t.pc \in {"lookup", "insertFollow", "noteFollow"} \union Closing
  /\ t.pc \in {"lookup", "insertFollow"} => DOMAIN t.write = {}
  /\ t.pc = "noteFollow" =>
       d[row] # "there" /\ DOMAIN t.write = {row} /\ t.write[row] = "there"
  /\ t.pc = "commit" /\ DOMAIN t.write # {} =>
       /\ d[row] # "there" /\ DOMAIN t.write = {row, note}
       /\ t.write[row] = "there" /\ t.write[note] = d[note] + 1

UnfollowAt(t, d) ==
  LET u == t.user  v == t.on  row == FollowRow(u, v)  note == FollowNote(u, v) IN
  /\ u \in Users /\ v \in Users /\ u # v
  /\ t.pc \in {"lookup", "deleteFollow", "unnoteFollow"} \union Closing
  /\ t.pc \in {"lookup", "deleteFollow"} => DOMAIN t.write = {}
  /\ t.pc = "unnoteFollow" =>
       d[row] = "there" /\ DOMAIN t.write = {row} /\ t.write[row] = Absent
  /\ t.pc = "commit" /\ DOMAIN t.write # {} =>
       /\ d[row] = "there" /\ DOMAIN t.write = {row, note}
       /\ t.write[row] = Absent /\ t.write[note] = 0

(* replaceTags writes the tags of one post, and rows of tags. *)
Tagging(t) ==
  /\ DOMAIN t.write \subseteq {Post(t.on), PostTags(t.on)} \union {Tag(g) : g \in Tags}
  /\ Writes(t, PostTags(t.on))
PublishAt(t, d) ==
  LET p == t.on IN
  /\ t.user \in Users /\ p \in Posts /\ t.text \in Texts
  /\ t.pc \in {"insertPost", "detachTags", "attachTag"} \union Closing
  /\ t.pc = "insertPost" => DOMAIN t.write = {}
  /\ t.pc \in {"detachTags", "attachTag", "commit"} =>
       Writes(t, Post(p)) /\ t.write[Post(p)] = NewPost(t.text)
  /\ t.pc = "detachTags" => DOMAIN t.write = {Post(p)}
  /\ t.pc = "attachTag" => Tagging(t) /\ t.write[PostTags(p)] \subseteq TagsOf[t.text]
  /\ t.pc = "commit" => Tagging(t) /\ t.write[PostTags(p)] = TagsOf[t.text]

EditAt(t, d) ==
  LET p == t.on IN
  /\ p \in Posts /\ t.text \in Texts
  /\ t.pc \in {"lookup", "updatePost", "detachTags", "attachTag"} \union Closing
  /\ t.pc \in {"lookup", "updatePost"} => DOMAIN t.write = {}
  /\ t.pc # "lookup" => d[Post(p)] # Absent
  /\ t.pc \in {"detachTags", "attachTag", "commit"} =>
       /\ Post(p) \in t.shared
       /\ Writes(t, Post(p)) <=> ThereIn(d, Post(p))
       /\ Writes(t, Post(p)) => t.write[Post(p)] = [d[Post(p)] EXCEPT !.text = t.text]
  /\ t.pc = "detachTags" => DOMAIN t.write \subseteq {Post(p)}
  /\ t.pc \in {"attachTag", "commit"} => Tagging(t)
  /\ t.pc = "attachTag" =>
       t.write[PostTags(p)] \subseteq
         IF Writes(t, Post(p)) THEN TagsOf[t.text] ELSE {}
  /\ t.pc = "commit" =>
       t.write[PostTags(p)] = IF Writes(t, Post(p)) THEN TagsOf[t.text] ELSE {}

DeletePostAt(t, d) ==
  LET p == t.on IN
  /\ p \in Posts
  /\ t.pc \in {"lookup", "deletePost"} \union Closing
  /\ t.pc \in {"lookup", "deletePost"} => DOMAIN t.write = {}
  /\ t.pc = "commit" =>
       /\ ThereIn(d, Post(p))
       /\ \A q \in Posts :
            /\ Writes(t, Post(q)) <=> q = p
            /\ Writes(t, Post(q)) => t.write[Post(q)] = Used
            /\ Writes(t, PostTags(q)) <=> q = p
            /\ Writes(t, PostTags(q)) => t.write[PostTags(q)] = {}
       /\ \A c \in Comments :
            /\ Writes(t, Comment(c)) <=> d[Comment(c)] = "there" /\ On[c] = p
            /\ Writes(t, Comment(c)) => t.write[Comment(c)] = Used
            /\ Writes(t, CommentNote(c)) <=> Writes(t, Comment(c))
            /\ Writes(t, CommentNote(c)) => t.write[CommentNote(c)] = 0
       /\ \A x \in Users, q \in Posts :
            /\ Writes(t, LikeRow(x, q)) <=> d[LikeRow(x, q)] = "there" /\ q = p
            /\ Writes(t, LikeRow(x, q)) => t.write[LikeRow(x, q)] = Absent
            /\ Writes(t, LikeNote(x, q)) <=> q = p
            /\ Writes(t, LikeNote(x, q)) => t.write[LikeNote(x, q)] = 0
       /\ \A x, y \in Users :
            ~Writes(t, FollowRow(x, y)) /\ ~Writes(t, FollowNote(x, y))
       /\ \A x \in Users : ~Writes(t, User(x))

(* How many statements of DeleteAccount are done. *)
Done(t) ==
  CASE t.pc = "deletePosts" -> 0
    [] t.pc = "uncountComments" -> 1
    [] t.pc = "deleteComments" -> 2
    [] t.pc = "uncountLikes" -> 3
    [] t.pc = "deleteLikes" -> 4
    [] t.pc = "deleteFollows" -> 5
    [] t.pc = "deleteNotes" -> 6
    [] t.pc = "softDelete" -> 7
    [] t.pc = "commit" -> 8
Leaving == {"deletePosts", "uncountComments", "deleteComments", "uncountLikes",
            "deleteLikes", "deleteFollows", "deleteNotes", "softDelete", "commit"}

Mine(d, u, p) == Owner[p] = u /\ ThereIn(d, Post(p))
Said(d, u, p) ==
  {c \in Comments : On[c] = p /\ Author[c] = u /\ d[Comment(c)] = "there"}
LikesIt(d, u, p) == d[LikeRow(u, p)] = "there"
Uncounted(d, u, p, n) ==
  LET r == d[Post(p)] IN
  [text |-> r.text,
   likes |-> IF n >= 4 /\ LikesIt(d, u, p) THEN Less(r.likes, 1) ELSE r.likes,
   comments |-> IF n >= 2 THEN Less(r.comments, Cardinality(Said(d, u, p)))
                ELSE r.comments]

LeaveLocks(t, n) ==
  LET u == t.user IN
  /\ n >= 1 => \A p \in Posts : Owner[p] = u => Post(p) \in t.shared
  /\ n >= 2 => \A c \in Comments : Author[c] = u => Comment(c) \in t.shared
  /\ n >= 4 => \A p \in Posts : LikeRow(u, p) \in t.shared
  /\ n >= 6 => \A x, y \in Users : u \in {x, y} => FollowRow(x, y) \in t.shared
LeavePosts(t, d, n) ==
  LET u == t.user IN
  \A p \in Posts :
    /\ Writes(t, Post(p)) <=>
         \/ n >= 1 /\ Mine(d, u, p)
         \/ n >= 2 /\ Owner[p] # u /\ Said(d, u, p) # {}
         \/ n >= 4 /\ Owner[p] # u /\ LikesIt(d, u, p)
    /\ Writes(t, Post(p)) =>
         t.write[Post(p)] = IF Owner[p] = u THEN Used ELSE Uncounted(d, u, p, n)
    /\ Writes(t, PostTags(p)) <=> n >= 1 /\ Mine(d, u, p)
    /\ Writes(t, PostTags(p)) => t.write[PostTags(p)] = {}
LeaveComments(t, d, n) ==
  LET u == t.user IN
  \A c \in Comments :
    /\ Writes(t, Comment(c)) <=>
         /\ d[Comment(c)] = "there"
         /\ (n >= 1 /\ Owner[On[c]] = u) \/ (n >= 3 /\ Author[c] = u)
    /\ Writes(t, Comment(c)) => t.write[Comment(c)] = Used
    /\ Writes(t, CommentNote(c)) <=>
         \/ Writes(t, Comment(c))
         \/ n >= 7 /\ u \in {Author[c], Owner[On[c]]}
    /\ Writes(t, CommentNote(c)) => t.write[CommentNote(c)] = 0
LeaveLikes(t, d, n) ==
  LET u == t.user IN
  \A x \in Users, p \in Posts :
    /\ Writes(t, LikeRow(x, p)) <=>
         /\ d[LikeRow(x, p)] = "there"
         /\ (n >= 1 /\ Owner[p] = u) \/ (n >= 5 /\ x = u)
    /\ Writes(t, LikeRow(x, p)) => t.write[LikeRow(x, p)] = Absent
    /\ Writes(t, LikeNote(x, p)) <=>
         \/ n >= 1 /\ Mine(d, u, p)
         \/ n >= 7 /\ u \in {x, Owner[p]}
    /\ Writes(t, LikeNote(x, p)) => t.write[LikeNote(x, p)] = 0
LeaveFollows(t, d, n) ==
  LET u == t.user IN
  \A x, y \in Users :
    /\ Writes(t, FollowRow(x, y)) <=>
         n >= 6 /\ u \in {x, y} /\ d[FollowRow(x, y)] = "there"
    /\ Writes(t, FollowRow(x, y)) => t.write[FollowRow(x, y)] = Absent
    /\ Writes(t, FollowNote(x, y)) <=> n >= 7 /\ u \in {x, y}
    /\ Writes(t, FollowNote(x, y)) => t.write[FollowNote(x, y)] = 0
LeaveUsers(t, n) ==
  \A x \in Users :
    /\ Writes(t, User(x)) <=> n >= 8 /\ x = t.user
    /\ Writes(t, User(x)) => t.write[User(x)] = "left"
Leaves(t, d, n) ==
  /\ LeaveLocks(t, n) /\ LeavePosts(t, d, n) /\ LeaveComments(t, d, n)
  /\ LeaveLikes(t, d, n) /\ LeaveFollows(t, d, n) /\ LeaveUsers(t, n)
LeaveAt(t, d) ==
  /\ t.user \in Users
  /\ t.pc \in {"lookup", "failed"} \union Leaving
  /\ t.pc = "lookup" => DOMAIN t.write = {}
  /\ t.pc \in Leaving => Leaves(t, d, Done(t))

Doing(t, d) ==
  \/ t.kind = "none" /\ IdleAt(t)
  \/ t.kind = "like" /\ LikeAt(t, d)
  \/ t.kind = "unlike" /\ UnlikeAt(t, d)
  \/ t.kind = "comment" /\ CommentAt(t, d)
  \/ t.kind = "uncomment" /\ UncommentAt(t, d)
  \/ t.kind = "follow" /\ FollowAt(t, d)
  \/ t.kind = "unfollow" /\ UnfollowAt(t, d)
  \/ t.kind = "publish" /\ PublishAt(t, d)
  \/ t.kind = "edit" /\ EditAt(t, d)
  \/ t.kind = "deletePost" /\ DeletePostAt(t, d)
  \/ t.kind = "leave" /\ LeaveAt(t, d)

IInv ==
  /\ DbOK(db) /\ ForeignKeys(db) /\ NotesFit(db) /\ TxOK /\ Exclusive /\ Fresh
  /\ \A w \in Workers : Doing(tx[w], db)

-----------------------------------------------------------------------------
(* Items are told apart by their parts.                                     *)

LEMMA Parts ==
  /\ \A u : User(u)[1] = "user" /\ User(u)[2] = u
  /\ \A p : Post(p)[1] = "post" /\ Post(p)[2] = p
  /\ \A p : PostTags(p)[1] = "tags" /\ PostTags(p)[2] = p
  /\ \A g : Tag(g)[1] = "tag" /\ Tag(g)[2] = g
  /\ \A c : Comment(c)[1] = "comment" /\ Comment(c)[2] = c
  /\ \A u, p : LikeRow(u, p)[1] = "like" /\ LikeRow(u, p)[2] = u /\ LikeRow(u, p)[3] = p
  /\ \A u, v : FollowRow(u, v)[1] = "follow" /\ FollowRow(u, v)[2] = u
                 /\ FollowRow(u, v)[3] = v
  /\ \A u, p : LikeNote(u, p)[1] = "likeNote" /\ LikeNote(u, p)[2] = u
                 /\ LikeNote(u, p)[3] = p
  /\ \A c : CommentNote(c)[1] = "commentNote" /\ CommentNote(c)[2] = c
  /\ \A u, v : FollowNote(u, v)[1] = "followNote" /\ FollowNote(u, v)[2] = u
                 /\ FollowNote(u, v)[3] = v
BY DEF User, Post, PostTags, Tag, Comment, LikeRow, FollowRow, LikeNote,
       CommentNote, FollowNote

LEMMA Places ==
  /\ \A u \in Users : User(u) \in Items
  /\ \A p \in Posts : Post(p) \in Items /\ PostTags(p) \in Items
  /\ \A g \in Tags : Tag(g) \in Items
  /\ \A c \in Comments : Comment(c) \in Items /\ CommentNote(c) \in Items
  /\ \A u \in Users, p \in Posts : LikeRow(u, p) \in Items /\ LikeNote(u, p) \in Items
  /\ \A u, v \in Users : FollowRow(u, v) \in Items /\ FollowNote(u, v) \in Items
BY DEF Items, Rows, Notes, Links

LEMMA NoWrites == DOMAIN <<>> = {}
OBVIOUS

LEMMA PutIs == ASSUME NEW i, NEW v PROVE DOMAIN Put(i, v) = {i} /\ Put(i, v)[i] = v
BY DEF Put

LEMMA OverIs ==
  ASSUME NEW f, NEW g
  PROVE  /\ DOMAIN Over(f, g) = DOMAIN f \union DOMAIN g
         /\ \A i \in DOMAIN f \union DOMAIN g :
              Over(f, g)[i] = IF i \in DOMAIN f THEN f[i] ELSE g[i]
BY DEF Over

LEMMA DoesIs ==
  ASSUME NEW s, NEW f, NEW n
  PROVE  /\ Does(s, f, n).shared = s /\ Does(s, f, n).write = f /\ Does(s, f, n).next = n
         /\ Goes(n).shared = {} /\ DOMAIN Goes(n).write = {} /\ Goes(n).next = n
BY NoWrites DEF Does, Goes

-----------------------------------------------------------------------------
(* A statement.                                                             *)

LEMMA Executes ==
  ASSUME TxOK, NEW w \in Workers, Execute(w)
  PROVE  LET s == Statement(w) IN
         /\ ~Blocked(w, s) /\ db' = db
         /\ tx' = [tx EXCEPT ![w] = tx'[w]]
         /\ tx'[w] = [tx[w] EXCEPT !.shared = tx'[w].shared, !.write = tx'[w].write,
                                   !.pc = s.next]
         /\ tx'[w].shared = tx[w].shared \union s.shared
         /\ tx'[w].write = Over(s.write, tx[w].write)
         /\ tx'[w].pc = s.next
         /\ tx'[w].kind = tx[w].kind /\ tx'[w].user = tx[w].user
         /\ tx'[w].on = tx[w].on /\ tx'[w].text = tx[w].text
<1>. DEFINE r == [pc : {tx[v].pc : v \in Workers}, kind : {tx[v].kind : v \in Workers},
                  user : {tx[v].user : v \in Workers}, on : {tx[v].on : v \in Workers},
                  text : {tx[v].text : v \in Workers},
                  attempt : {tx[v].attempt : v \in Workers},
                  shared : {tx[v].shared : v \in Workers},
                  write : {tx[v].write : v \in Workers}]
<1>1. \A v \in Workers : tx[v] \in r
  BY DEF TxOK, Request, Fields
<1>2. tx \in [Workers -> r]
  BY <1>1 DEF TxOK
<1>. QED
  BY <1>2 DEF Execute

(* What a statement s makes of a transaction t. *)
Continues(t, e, s) ==
  /\ e.kind = t.kind /\ e.user = t.user /\ e.on = t.on /\ e.text = t.text
  /\ e.pc = s.next
  /\ e.shared = t.shared \union s.shared
  /\ DOMAIN e.write = DOMAIN t.write \union DOMAIN s.write
  /\ \A i \in DOMAIN s.write : e.write[i] = s.write[i]
  /\ \A i \in DOMAIN t.write : i \notin DOMAIN s.write => e.write[i] = t.write[i]
Lawful(s) == s.shared \subseteq Items /\ DOMAIN s.write \subseteq Items

LEMMA Stepped ==
  ASSUME TxOK, NEW w \in Workers, Execute(w)
  PROVE  Continues(tx[w], tx'[w], Statement(w))
<1>. DEFINE s == Statement(w)
<1>1. /\ tx'[w].write = Over(s.write, tx[w].write)
      /\ tx'[w].shared = tx[w].shared \union s.shared
      /\ tx'[w].pc = s.next
      /\ tx'[w].kind = tx[w].kind /\ tx'[w].user = tx[w].user
      /\ tx'[w].on = tx[w].on /\ tx'[w].text = tx[w].text
  BY Executes
<1>. HIDE DEF s
<1>2. /\ DOMAIN tx'[w].write = DOMAIN s.write \union DOMAIN tx[w].write
      /\ \A i \in DOMAIN s.write \union DOMAIN tx[w].write :
           tx'[w].write[i] = IF i \in DOMAIN s.write THEN s.write[i] ELSE tx[w].write[i]
  BY <1>1 DEF Over
<1>. QED
  BY <1>1, <1>2 DEF Continues, s

LEMMA LikeStatements ==
  ASSUME IInv, NEW w \in Workers, Execute(w), tx[w].kind = "like"
  PROVE  LikeAt(tx'[w], db) /\ Lawful(Statement(w))
<1>. DEFINE t == tx[w]  e == tx'[w]  u == tx[w].user  p == tx[w].on
            row == LikeRow(u, p)  note == LikeNote(u, p)
<1>1. LikeAt(t, db)
  BY DEF IInv, Doing
<1>2. t.pc \in {"readOwner", "insertLike", "countLike", "noteLike"}
  BY <1>1 DEF LikeAt, Execute, Running, Outside, Closing
<1>3. Continues(t, e, Statement(w))
  BY Stepped DEF IInv
<1>4. /\ u \in Users /\ p \in Posts /\ Owner[p] \in Users /\ PostOf(w) = p
      /\ db[row] \in {"there", Absent} /\ db[Post(p)] \in PostRows \union {Absent, Used}
  BY <1>1, OwnerAssumption DEF LikeAt, PostOf, IInv, DbOK, RowsOK
<1>5. row \in Items /\ note \in Items /\ Post(p) \in Items /\ User(u) \in Items
      /\ User(Owner[p]) \in Items
  BY <1>4, Places
<1>6. row # Post(p) /\ note # row /\ note # Post(p)
  BY Parts
<1>7. CASE t.pc = "readOwner"
  <2>1. DOMAIN t.write = {}
    BY <1>1, <1>7 DEF LikeAt
  <2>2. Statement(w) \in {Goes("insertLike"), Goes("failed")}
    BY <1>7 DEF Statement, ReadOwner
  <2>. QED
    BY <1>3, <1>4, <2>1, <2>2, DoesIs DEF LikeAt, Continues, Lawful, Closing
<1>8. CASE t.pc = "insertLike"
  <2>1. DOMAIN t.write = {} /\ Statement(w) = InsertLike(w)
    BY <1>1, <1>8 DEF LikeAt, Statement
  <2>2. \A i : Get(w, i) = db[i]
    BY <2>1 DEF Get
  <2>3. CASE Has(w, row) \/ ~Has(w, Post(p))
    <3>1. Statement(w) \in {Does({row}, <<>>, "commit"), Does({Post(p)}, <<>>, "commit")}
      BY <1>4, <2>1, <2>3 DEF InsertLike
    <3>. QED
      BY <1>3, <1>4, <1>5, <2>1, <3>1, DoesIs, NoWrites DEF LikeAt, Continues, Lawful, Closing
  <2>4. CASE ~Has(w, row) /\ Has(w, Post(p))
    <3>1. Statement(w) = Does({Post(p), User(u)}, Put(row, "there"), "countLike")
      BY <1>4, <2>1, <2>4 DEF InsertLike
    <3>2. db[row] # "there" /\ ThereIn(db, Post(p))
      BY <2>2, <2>4, AbsentAssumption DEF Has, ThereIn
    <3>9. DOMAIN Statement(w).write = {row} /\ Statement(w).write[row] = "there"
          /\ Statement(w).shared = {Post(p), User(u)}
      BY <3>1 DEF Does, Put
    <3>3. DOMAIN e.write = {row} /\ e.write[row] = "there" /\ e.pc = "countLike"
          /\ Post(p) \in e.shared /\ e.user = u /\ e.on = p /\ Lawful(Statement(w))
      BY <1>3, <1>5, <2>1, <3>1, <3>9 DEF Continues, Lawful, Does
    <3>. QED
      BY <1>4, <3>2, <3>3 DEF LikeAt, LikeBegun, Writes
  <2>. QED
    BY <2>3, <2>4
<1>9. CASE t.pc = "countLike"
  <2>1. DOMAIN t.write = {row} /\ LikeBegun(t, db) /\ Statement(w) = CountLike(w)
    BY <1>1, <1>9 DEF LikeAt, Statement
  <2>2. Get(w, Post(p)) = db[Post(p)] /\ Has(w, Post(p))
    BY <1>6, <2>1 DEF Get, Has, LikeBegun, ThereIn
  <2>3. /\ DOMAIN Statement(w).write = {Post(p)} /\ Statement(w).shared = {}
        /\ Statement(w).write[Post(p)] = [db[Post(p)] EXCEPT !.likes = @ + 1]
        /\ Statement(w).next = IF Owner[p] = u THEN "commit" ELSE "noteLike"
    BY <1>4, <2>1, <2>2, Parts DEF CountLike, Does, Counting, Likes
  <2>4. /\ DOMAIN e.write = {row, Post(p)} /\ e.write[row] = "there"
        /\ e.write[Post(p)] = [db[Post(p)] EXCEPT !.likes = @ + 1]
        /\ e.user = u /\ e.on = p /\ Post(p) \in e.shared /\ Lawful(Statement(w))
        /\ e.pc = IF Owner[p] = u THEN "commit" ELSE "noteLike"
    BY <1>3, <1>5, <1>6, <2>1, <2>3 DEF Continues, Lawful, LikeBegun
  <2>. QED
    BY <1>4, <2>1, <2>4 DEF LikeAt, LikeBegun, LikeCounted, Writes, Closing
<1>10. CASE t.pc = "noteLike"
  <2>1. /\ DOMAIN t.write = {row, Post(p)} /\ LikeBegun(t, db) /\ LikeCounted(t, db)
        /\ Owner[p] # u /\ Statement(w) = NoteLike(w)
    BY <1>1, <1>10 DEF LikeAt, Statement
  <2>2. Get(w, note) = db[note]
    BY <1>6, <2>1 DEF Get
  <2>3. /\ DOMAIN Statement(w).write = {note}
        /\ Statement(w).shared = {User(u), User(Owner[p]), Post(p)}
        /\ Statement(w).write[note] = db[note] + 1
        /\ Statement(w).next = "commit"
    BY <1>4, <2>1, <2>2 DEF NoteLike, Notify, Does, Put
  <2>4. /\ DOMAIN e.write = {row, Post(p), note} /\ e.write[row] = "there"
        /\ e.write[Post(p)] = t.write[Post(p)] /\ e.write[note] = db[note] + 1
        /\ e.user = u /\ e.on = p /\ Post(p) \in e.shared /\ Lawful(Statement(w))
        /\ e.pc = "commit"
    BY <1>3, <1>5, <1>6, <2>1, <2>3 DEF Continues, Lawful, LikeBegun
  <2>. QED
    BY <1>4, <2>1, <2>4 DEF LikeAt, LikeBegun, LikeCounted, Writes, Closing
<1>. QED
  BY <1>2, <1>7, <1>8, <1>9, <1>10

(* What Deletion takes, kind of item by kind. *)
LEMMA DeletionIs ==
  ASSUME NEW w, NEW rows, rows \subseteq Rows
  PROVE  LET f == Deletion(w, rows) IN
    /\ \A p \in Posts :
         /\ Post(p) \in DOMAIN f <=> Post(p) \in rows /\ Has(w, Post(p))
         /\ Post(p) \in DOMAIN f => f[Post(p)] = Used
         /\ PostTags(p) \in DOMAIN f <=> Post(p) \in DOMAIN f
         /\ PostTags(p) \in DOMAIN f => f[PostTags(p)] = {}
    /\ \A c \in Comments :
         /\ Comment(c) \in DOMAIN f <=>
              (Comment(c) \in rows \/ Post(On[c]) \in rows) /\ Has(w, Comment(c))
         /\ Comment(c) \in DOMAIN f => f[Comment(c)] = Used
         /\ CommentNote(c) \in DOMAIN f <=> Comment(c) \in DOMAIN f
         /\ CommentNote(c) \in DOMAIN f => f[CommentNote(c)] = 0
    /\ \A x \in Users, p \in Posts :
         /\ LikeRow(x, p) \in DOMAIN f <=>
              (LikeRow(x, p) \in rows \/ Post(p) \in rows) /\ Has(w, LikeRow(x, p))
         /\ LikeRow(x, p) \in DOMAIN f => f[LikeRow(x, p)] = Absent
         /\ LikeNote(x, p) \in DOMAIN f <=> Post(p) \in DOMAIN f
         /\ LikeNote(x, p) \in DOMAIN f => f[LikeNote(x, p)] = 0
    /\ \A x, y \in Users :
         /\ FollowRow(x, y) \in DOMAIN f <=>
              FollowRow(x, y) \in rows /\ Has(w, FollowRow(x, y))
         /\ FollowRow(x, y) \in DOMAIN f => f[FollowRow(x, y)] = Absent
         /\ FollowNote(x, y) \notin DOMAIN f
    /\ \A x \in Users : User(x) \in DOMAIN f => User(x) \in rows
    /\ DOMAIN f \subseteq Items
<1>. DEFINE onPost(p) == {Comment(c) : c \in {d \in Comments : On[d] = p}}
                           \union {LikeRow(u, p) : u \in Users}
            gone == {i \in rows \union UNION {onPost(p) : p \in {q \in Posts : Post(q) \in rows}} :
                       Has(w, i)}
            notes == {LikeNote(u, p) : u \in Users, p \in {q \in Posts : Post(q) \in gone}}
                       \union {CommentNote(c) : c \in {d \in Comments : Comment(d) \in gone}}
            links == {PostTags(p) : p \in {q \in Posts : Post(q) \in gone}}
            f == Deletion(w, rows)
            value(i) == CASE i \in notes -> 0
                          [] i \in links -> {}
                          [] i[1] \in {"post", "comment"} -> Used
                          [] OTHER -> Absent
<1>1. f = [i \in gone \union notes \union links |-> value(i)]
  BY DEF Deletion
<1>2. \A i \in rows : i[1] \in {"user", "post", "comment", "tag", "like", "follow"}
  BY Parts DEF Rows
<1>3. \A i \in gone : i[1] \in {"user", "post", "comment", "tag", "like", "follow"}
  BY <1>2, Parts
<1>4. /\ \A i \in notes : i[1] \in {"likeNote", "commentNote"}
      /\ \A i \in links : i[1] = "tags"
  BY Parts
<1>5. \A p \in Posts : Post(p) \in gone <=> Post(p) \in rows /\ Has(w, Post(p))
  BY Parts
<1>6. \A c \in Comments : Comment(c) \in gone <=>
        (Comment(c) \in rows \/ Post(On[c]) \in rows) /\ Has(w, Comment(c))
  BY Parts, OnAssumption
<1>7. \A x \in Users, p \in Posts : LikeRow(x, p) \in gone <=>
        (LikeRow(x, p) \in rows \/ Post(p) \in rows) /\ Has(w, LikeRow(x, p))
  BY Parts
<1>8. \A x, y \in Users : FollowRow(x, y) \in gone <=>
        FollowRow(x, y) \in rows /\ Has(w, FollowRow(x, y))
  BY Parts
<1>9. \A x \in Users : User(x) \in gone => User(x) \in rows
  BY Parts
<1>10. /\ \A p \in Posts : PostTags(p) \in links <=> Post(p) \in gone
       /\ \A x \in Users, p \in Posts : LikeNote(x, p) \in notes <=> Post(p) \in gone
       /\ \A c \in Comments : CommentNote(c) \in notes <=> Comment(c) \in gone
       /\ \A x, y \in Users : FollowNote(x, y) \notin notes
  BY Parts
<1>11. gone \union notes \union links \subseteq Items
  BY Places, OnAssumption DEF Items
<1>. HIDE DEF gone, notes, links
<1>12. DOMAIN f = gone \union notes \union links
       /\ \A i \in gone \union notes \union links : f[i] = value(i)
  BY <1>1
<1>13. /\ \A i \in notes : f[i] = 0
       /\ \A i \in links : f[i] = {}
       /\ \A i \in gone : f[i] = IF i[1] \in {"post", "comment"} THEN Used ELSE Absent
  BY <1>3, <1>4, <1>12
<1>. HIDE DEF f, value
<1>14. \A p \in Posts :
         /\ Post(p) \in DOMAIN f <=> Post(p) \in gone
         /\ PostTags(p) \in DOMAIN f <=> PostTags(p) \in links
         /\ \A x \in Users : LikeRow(x, p) \in DOMAIN f <=> LikeRow(x, p) \in gone
         /\ \A x \in Users : LikeNote(x, p) \in DOMAIN f <=> LikeNote(x, p) \in notes
  BY <1>3, <1>4, <1>12, Parts
<1>15. /\ \A c \in Comments :
            /\ Comment(c) \in DOMAIN f <=> Comment(c) \in gone
            /\ CommentNote(c) \in DOMAIN f <=> CommentNote(c) \in notes
       /\ \A x, y \in Users :
            /\ FollowRow(x, y) \in DOMAIN f <=> FollowRow(x, y) \in gone
            /\ FollowNote(x, y) \notin DOMAIN f
       /\ \A x \in Users : User(x) \in DOMAIN f <=> User(x) \in gone
  BY <1>3, <1>4, <1>10, <1>12, Parts
<1>16. \A p \in Posts :
         /\ Post(p) \in DOMAIN f <=> Post(p) \in rows /\ Has(w, Post(p))
         /\ Post(p) \in DOMAIN f => f[Post(p)] = Used
         /\ PostTags(p) \in DOMAIN f <=> Post(p) \in DOMAIN f
         /\ PostTags(p) \in DOMAIN f => f[PostTags(p)] = {}
  BY <1>5, <1>10, <1>13, <1>14, Parts
<1>17. \A c \in Comments :
         /\ Comment(c) \in DOMAIN f <=>
              (Comment(c) \in rows \/ Post(On[c]) \in rows) /\ Has(w, Comment(c))
         /\ Comment(c) \in DOMAIN f => f[Comment(c)] = Used
         /\ CommentNote(c) \in DOMAIN f <=> Comment(c) \in DOMAIN f
         /\ CommentNote(c) \in DOMAIN f => f[CommentNote(c)] = 0
  BY <1>6, <1>10, <1>13, <1>15, Parts
<1>18. \A x \in Users, p \in Posts :
         /\ LikeRow(x, p) \in DOMAIN f <=>
              (LikeRow(x, p) \in rows \/ Post(p) \in rows) /\ Has(w, LikeRow(x, p))
         /\ LikeRow(x, p) \in DOMAIN f => f[LikeRow(x, p)] = Absent
         /\ LikeNote(x, p) \in DOMAIN f <=> Post(p) \in DOMAIN f
         /\ LikeNote(x, p) \in DOMAIN f => f[LikeNote(x, p)] = 0
  BY <1>7, <1>10, <1>13, <1>14, Parts
<1>19. \A x, y \in Users :
         /\ FollowRow(x, y) \in DOMAIN f <=>
              FollowRow(x, y) \in rows /\ Has(w, FollowRow(x, y))
         /\ FollowRow(x, y) \in DOMAIN f => f[FollowRow(x, y)] = Absent
         /\ FollowNote(x, y) \notin DOMAIN f
  BY <1>8, <1>13, <1>15, Parts
<1>20. \A x \in Users : User(x) \in DOMAIN f => User(x) \in rows
  BY <1>9, <1>15
<1>21. DOMAIN f \subseteq Items
  BY <1>11, <1>12
<1>. QED
  BY <1>16, <1>17, <1>18, <1>19, <1>20, <1>21 DEF f

LEMMA DeletionOfRow ==
  ASSUME NEW w, NEW row, row[1] \in {"like", "follow"}, Has(w, row)
  PROVE  DOMAIN Deletion(w, {row}) = {row} /\ Deletion(w, {row})[row] = Absent
<1>1. \A p : Post(p) # row
  BY Parts
<1>2. \A c : Comment(c) # row
  BY Parts
<1>. QED
  BY <1>1, <1>2 DEF Deletion

LEMMA DeletionOfComment ==
  ASSUME NEW w, NEW c \in Comments, Has(w, Comment(c))
  PROVE  LET f == Deletion(w, {Comment(c)}) IN
         /\ DOMAIN f = {Comment(c), CommentNote(c)}
         /\ f[Comment(c)] = Used /\ f[CommentNote(c)] = 0
<1>. DEFINE row == Comment(c)  note == CommentNote(c)  f == Deletion(w, {row})
            onPost(p) == {Comment(d) : d \in {d \in Comments : On[d] = p}}
                           \union {LikeRow(u, p) : u \in Users}
            gone == {i \in {row} \union
                            UNION {onPost(p) : p \in {q \in Posts : Post(q) \in {row}}} :
                       Has(w, i)}
            notes == {LikeNote(u, p) : u \in Users, p \in {q \in Posts : Post(q) \in gone}}
                       \union {CommentNote(d) : d \in {d \in Comments : Comment(d) \in gone}}
            links == {PostTags(p) : p \in {q \in Posts : Post(q) \in gone}}
            value(i) == CASE i \in notes -> 0
                          [] i \in links -> {}
                          [] i[1] \in {"post", "comment"} -> Used
                          [] OTHER -> Absent
<1>1. f = [i \in gone \union notes \union links |-> value(i)]
  BY DEF Deletion
<1>2. \A p : Post(p) # row
  BY Parts
<1>3. gone = {row}
  BY <1>2
<1>4. \A d \in Comments : Comment(d) \in gone <=> d = c
  BY <1>3, Parts
<1>5. notes = {note}
  BY <1>2, <1>3, <1>4
<1>6. links = {}
  BY <1>2, <1>3
<1>7. row # note /\ row[1] = "comment" /\ note[1] = "commentNote"
  BY Parts
<1>. HIDE DEF gone, notes, links, row, note, f
<1>8. value(note) = 0
  BY <1>5, <1>6, <1>7
<1>9. value(row) = Used
  BY <1>5, <1>6, <1>7
<1>. HIDE DEF value
<1>10. DOMAIN f = {row, note} /\ f[row] = value(row) /\ f[note] = value(note)
  BY <1>1, <1>3, <1>5, <1>6
<1>. QED
  BY <1>8, <1>9, <1>10 DEF row, note, f

LEMMA UnlikeStatements ==
  ASSUME IInv, NEW w \in Workers, Execute(w), tx[w].kind = "unlike"
  PROVE  UnlikeAt(tx'[w], db) /\ Lawful(Statement(w))
<1>. DEFINE t == tx[w]  e == tx'[w]  u == tx[w].user  p == tx[w].on
            row == LikeRow(u, p)  note == LikeNote(u, p)
<1>1. UnlikeAt(t, db)
  BY DEF IInv, Doing
<1>2. t.pc \in {"readOwner", "deleteLike", "uncountLike", "unnoteLike"}
  BY <1>1 DEF UnlikeAt, Execute, Running, Outside, Closing
<1>3. Continues(t, e, Statement(w))
  BY Stepped DEF IInv
<1>4. /\ u \in Users /\ p \in Posts /\ Owner[p] \in Users /\ PostOf(w) = p
      /\ db[row] \in {"there", Absent} /\ db[Post(p)] \in PostRows \union {Absent, Used}
  BY <1>1, OwnerAssumption DEF UnlikeAt, PostOf, IInv, DbOK, RowsOK
<1>5. row \in Items /\ note \in Items /\ Post(p) \in Items
  BY <1>4, Places
<1>6. row # Post(p) /\ note # row /\ note # Post(p)
  BY Parts
<1>7. CASE t.pc = "readOwner"
  <2>1. DOMAIN t.write = {}
    BY <1>1, <1>7 DEF UnlikeAt
  <2>2. Statement(w) \in {Goes("deleteLike"), Goes("failed")}
    BY <1>7 DEF Statement, ReadOwner
  <2>. QED
    BY <1>3, <1>4, <2>1, <2>2, NoWrites DEF UnlikeAt, Continues, Lawful, Closing, Goes, Does
<1>8. CASE t.pc = "deleteLike"
  <2>1. DOMAIN t.write = {} /\ Statement(w) = DeleteLike(w)
    BY <1>1, <1>8 DEF UnlikeAt, Statement
  <2>2. Get(w, row) = db[row]
    BY <2>1 DEF Get
  <2>3. CASE ~Has(w, row)
    <3>1. Statement(w) = Does({row}, <<>>, "commit")
      BY <1>4, <2>1, <2>3 DEF DeleteLike
    <3>. QED
      BY <1>3, <1>4, <1>5, <2>1, <3>1, DoesIs, NoWrites
      DEF UnlikeAt, Continues, Lawful, Closing
  <2>4. CASE Has(w, row)
    <3>1. Statement(w) = Does({}, Deletion(w, {row}), "uncountLike")
      BY <1>4, <2>1, <2>4 DEF DeleteLike
    <3>2. db[row] = "there"
      BY <1>4, <2>2, <2>4 DEF Has
    <3>3. DOMAIN Deletion(w, {row}) = {row} /\ Deletion(w, {row})[row] = Absent
      BY <2>4, DeletionOfRow, Parts
    <3>4. DOMAIN e.write = {row} /\ e.write[row] = Absent /\ e.pc = "uncountLike"
          /\ e.user = u /\ e.on = p /\ Lawful(Statement(w))
      BY <1>3, <1>5, <2>1, <3>1, <3>3 DEF Continues, Lawful, Does
    <3>. QED
      BY <1>4, <3>2, <3>4 DEF UnlikeAt, UnlikeBegun, Writes
  <2>. QED
    BY <2>3, <2>4
<1>9. CASE t.pc = "uncountLike"
  <2>1. DOMAIN t.write = {row} /\ UnlikeBegun(t, db) /\ Statement(w) = UncountLike(w)
    BY <1>1, <1>9 DEF UnlikeAt, Statement
  <2>2. Get(w, Post(p)) = db[Post(p)] /\ Has(w, Post(p))
    BY <1>4, <1>6, <2>1 DEF Get, Has, UnlikeBegun, ThereIn, IInv, ForeignKeys
  <2>3. /\ DOMAIN Statement(w).write = {Post(p)} /\ Statement(w).shared = {}
        /\ Statement(w).write[Post(p)] = [db[Post(p)] EXCEPT !.likes = Less(@, 1)]
        /\ Statement(w).next = IF Owner[p] = u THEN "commit" ELSE "unnoteLike"
    BY <1>4, <2>1, <2>2, Parts DEF UncountLike, Does, Counting, Likes
  <2>4. /\ DOMAIN e.write = {row, Post(p)} /\ e.write[row] = Absent
        /\ e.write[Post(p)] = [db[Post(p)] EXCEPT !.likes = Less(@, 1)]
        /\ e.user = u /\ e.on = p /\ Lawful(Statement(w))
        /\ e.pc = IF Owner[p] = u THEN "commit" ELSE "unnoteLike"
    BY <1>3, <1>5, <1>6, <2>1, <2>3 DEF Continues, Lawful, UnlikeBegun
  <2>. QED
    BY <1>4, <2>1, <2>4 DEF UnlikeAt, UnlikeBegun, LikeUncounted, Writes, Closing
<1>10. CASE t.pc = "unnoteLike"
  <2>1. /\ DOMAIN t.write = {row, Post(p)} /\ UnlikeBegun(t, db) /\ LikeUncounted(t, db)
        /\ Owner[p] # u /\ Statement(w) = UnnoteLike(w)
    BY <1>1, <1>10 DEF UnlikeAt, Statement
  <2>2. /\ DOMAIN Statement(w).write = {note} /\ Statement(w).shared = {}
        /\ Statement(w).write[note] = 0 /\ Statement(w).next = "commit"
    BY <1>4, <2>1 DEF UnnoteLike, Does, Put
  <2>3. /\ DOMAIN e.write = {row, Post(p), note} /\ e.write[row] = Absent
        /\ e.write[Post(p)] = t.write[Post(p)] /\ e.write[note] = 0
        /\ e.user = u /\ e.on = p /\ Lawful(Statement(w)) /\ e.pc = "commit"
    BY <1>3, <1>5, <1>6, <2>1, <2>2 DEF Continues, Lawful, UnlikeBegun
  <2>. QED
    BY <1>4, <2>1, <2>3 DEF UnlikeAt, UnlikeBegun, LikeUncounted, Writes, Closing
<1>. QED
  BY <1>2, <1>7, <1>8, <1>9, <1>10

LEMMA CommentStatements ==
  ASSUME IInv, NEW w \in Workers, Execute(w), tx[w].kind = "comment"
  PROVE  CommentAt(tx'[w], db) /\ Lawful(Statement(w))
<1>. DEFINE t == tx[w]  e == tx'[w]  u == tx[w].user  c == tx[w].on  p == On[c]
            row == Comment(c)  note == CommentNote(c)
<1>1. CommentAt(t, db)
  BY DEF IInv, Doing
<1>2. t.pc \in {"readOwner", "insertComment", "countComment", "noteComment"}
  BY <1>1 DEF CommentAt, Execute, Running, Outside, Closing
<1>3. Continues(t, e, Statement(w))
  BY Stepped DEF IInv
<1>4. /\ c \in Comments /\ u = Author[c] /\ u \in Users /\ p \in Posts
      /\ Owner[p] \in Users /\ PostOf(w) = p
      /\ db[Post(p)] \in PostRows \union {Absent, Used}
  BY <1>1, OwnerAssumption, AuthorAssumption, OnAssumption
  DEF CommentAt, PostOf, IInv, DbOK, RowsOK
<1>5. row \in Items /\ note \in Items /\ Post(p) \in Items /\ User(u) \in Items
      /\ User(Owner[p]) \in Items
  BY <1>4, Places
<1>6. row # Post(p) /\ note # row /\ note # Post(p)
  BY Parts
<1>7. CASE t.pc = "readOwner"
  <2>1. DOMAIN t.write = {}
    BY <1>1, <1>7 DEF CommentAt
  <2>2. Statement(w) \in {Goes("insertComment"), Goes("failed")}
    BY <1>7 DEF Statement, ReadOwner
  <2>. QED
    BY <1>3, <1>4, <2>1, <2>2, NoWrites DEF CommentAt, Continues, Lawful, Closing, Goes, Does
<1>8. CASE t.pc = "insertComment"
  <2>1. DOMAIN t.write = {} /\ Statement(w) = InsertComment(w)
    BY <1>1, <1>8 DEF CommentAt, Statement
  <2>2. Get(w, Post(p)) = db[Post(p)]
    BY <2>1 DEF Get
  <2>3. CASE ~Has(w, Post(p))
    <3>1. Statement(w) = Does({Post(p)}, <<>>, "failed")
      BY <1>4, <2>1, <2>3 DEF InsertComment
    <3>. QED
      BY <1>3, <1>4, <1>5, <2>1, <3>1, DoesIs, NoWrites
      DEF CommentAt, Continues, Lawful, Closing
  <2>4. CASE Has(w, Post(p))
    <3>1. Statement(w) = Does({Post(p), User(u)}, Put(row, "there"), "countComment")
      BY <1>4, <2>1, <2>4 DEF InsertComment
    <3>2. ThereIn(db, Post(p))
      BY <2>2, <2>4 DEF Has, ThereIn
    <3>3. DOMAIN Statement(w).write = {row} /\ Statement(w).write[row] = "there"
          /\ Statement(w).shared = {Post(p), User(u)}
      BY <3>1 DEF Does, Put
    <3>4. DOMAIN e.write = {row} /\ e.write[row] = "there" /\ e.pc = "countComment"
          /\ Post(p) \in e.shared /\ e.user = u /\ e.on = c /\ Lawful(Statement(w))
      BY <1>3, <1>5, <2>1, <3>1, <3>3 DEF Continues, Lawful, Does
    <3>. QED
      BY <1>4, <3>2, <3>4 DEF CommentAt, CommentBegun, Writes
  <2>. QED
    BY <2>3, <2>4
<1>9. CASE t.pc = "countComment"
  <2>1. DOMAIN t.write = {row} /\ CommentBegun(t, db) /\ Statement(w) = CountComment(w)
    BY <1>1, <1>9 DEF CommentAt, Statement
  <2>2. Get(w, Post(p)) = db[Post(p)] /\ Has(w, Post(p))
    BY <1>6, <2>1 DEF Get, Has, CommentBegun, ThereIn
  <2>3. /\ DOMAIN Statement(w).write = {Post(p)} /\ Statement(w).shared = {}
        /\ Statement(w).write[Post(p)] = [db[Post(p)] EXCEPT !.comments = @ + 1]
        /\ Statement(w).next = IF Owner[p] = u THEN "commit" ELSE "noteComment"
    BY <1>4, <2>1, <2>2, Parts DEF CountComment, Does, Counting, Replies
  <2>4. /\ DOMAIN e.write = {row, Post(p)} /\ e.write[row] = "there"
        /\ e.write[Post(p)] = [db[Post(p)] EXCEPT !.comments = @ + 1]
        /\ e.user = u /\ e.on = c /\ Post(p) \in e.shared /\ Lawful(Statement(w))
        /\ e.pc = IF Owner[p] = u THEN "commit" ELSE "noteComment"
    BY <1>3, <1>5, <1>6, <2>1, <2>3 DEF Continues, Lawful, CommentBegun
  <2>. QED
    BY <1>4, <2>1, <2>4 DEF CommentAt, CommentBegun, CommentCounted, Writes, Closing
<1>10. CASE t.pc = "noteComment"
  <2>1. /\ DOMAIN t.write = {row, Post(p)} /\ CommentBegun(t, db) /\ CommentCounted(t, db)
        /\ Owner[p] # u /\ Statement(w) = NoteComment(w)
    BY <1>1, <1>10 DEF CommentAt, Statement
  <2>2. Get(w, note) = db[note]
    BY <1>6, <2>1 DEF Get
  <2>3. /\ DOMAIN Statement(w).write = {note}
        /\ Statement(w).shared = {User(u), User(Owner[p]), Post(p), row}
        /\ Statement(w).write[note] = db[note] + 1
        /\ Statement(w).next = "commit"
    BY <1>4, <2>1, <2>2 DEF NoteComment, Notify, Does, Put
  <2>4. /\ DOMAIN e.write = {row, Post(p), note} /\ e.write[row] = "there"
        /\ e.write[Post(p)] = t.write[Post(p)] /\ e.write[note] = db[note] + 1
        /\ e.user = u /\ e.on = c /\ Post(p) \in e.shared /\ Lawful(Statement(w))
        /\ e.pc = "commit"
    BY <1>3, <1>5, <1>6, <2>1, <2>3 DEF Continues, Lawful, CommentBegun
  <2>. QED
    BY <1>4, <2>1, <2>4 DEF CommentAt, CommentBegun, CommentCounted, Writes, Closing
<1>. QED
  BY <1>2, <1>7, <1>8, <1>9, <1>10

LEMMA UncommentStatements ==
  ASSUME IInv, NEW w \in Workers, Execute(w), tx[w].kind = "uncomment"
  PROVE  UncommentAt(tx'[w], db) /\ Lawful(Statement(w))
<1>. DEFINE t == tx[w]  e == tx'[w]  c == tx[w].on  p == On[c]
            row == Comment(c)  note == CommentNote(c)
<1>1. UncommentAt(t, db)
  BY DEF IInv, Doing
<1>2. t.pc \in {"deleteComment", "uncountComment"}
  BY <1>1 DEF UncommentAt, Execute, Running, Outside, Closing
<1>3. Continues(t, e, Statement(w))
  BY Stepped DEF IInv
<1>4. /\ c \in Comments /\ p \in Posts /\ PostOf(w) = p
      /\ db[row] \in {"there", Absent, Used}
      /\ db[Post(p)] \in PostRows \union {Absent, Used}
  BY <1>1, OnAssumption DEF UncommentAt, PostOf, IInv, DbOK, RowsOK
<1>5. row \in Items /\ note \in Items /\ Post(p) \in Items
  BY <1>4, Places
<1>6. row # Post(p) /\ note # row /\ note # Post(p)
  BY Parts
<1>7. CASE t.pc = "deleteComment"
  <2>1. DOMAIN t.write = {} /\ Statement(w) = DeleteComment(w)
    BY <1>1, <1>7 DEF UncommentAt, Statement
  <2>2. Get(w, row) = db[row]
    BY <2>1 DEF Get
  <2>3. CASE ~Has(w, row)
    <3>1. Statement(w) = Does({row}, <<>>, "failed")
      BY <1>4, <2>1, <2>3 DEF DeleteComment
    <3>. QED
      BY <1>3, <1>4, <1>5, <2>1, <3>1, DoesIs, NoWrites
      DEF UncommentAt, Continues, Lawful, Closing
  <2>4. CASE Has(w, row)
    <3>1. Statement(w) = Does({}, Deletion(w, {row}), "uncountComment")
      BY <1>4, <2>1, <2>4 DEF DeleteComment
    <3>2. db[row] = "there"
      BY <1>4, <2>2, <2>4 DEF Has
    <3>3. LET f == Deletion(w, {row}) IN
          DOMAIN f = {row, note} /\ f[row] = Used /\ f[note] = 0
      BY <1>4, <2>4, DeletionOfComment
    <3>4. /\ DOMAIN Statement(w).write = {row, note} /\ Statement(w).shared = {}
          /\ Statement(w).write[row] = Used /\ Statement(w).write[note] = 0
          /\ Statement(w).next = "uncountComment"
      BY <3>1, <3>3 DEF Does
    <3>5. DOMAIN e.write = {row, note} /\ e.write[row] = Used /\ e.write[note] = 0
          /\ e.pc = "uncountComment" /\ e.on = c /\ Lawful(Statement(w))
      BY <1>3, <1>5, <2>1, <3>4 DEF Continues, Lawful
    <3>. QED
      BY <1>4, <3>2, <3>5 DEF UncommentAt, UncommentBegun, Writes
  <2>. QED
    BY <2>3, <2>4
<1>8. CASE t.pc = "uncountComment"
  <2>1. /\ DOMAIN t.write = {row, note} /\ UncommentBegun(t, db)
        /\ Statement(w) = UncountComment(w)
    BY <1>1, <1>8 DEF UncommentAt, Statement
  <2>2. Get(w, Post(p)) = db[Post(p)] /\ Has(w, Post(p))
    BY <1>4, <1>6, <2>1 DEF Get, Has, UncommentBegun, ThereIn, IInv, ForeignKeys
  <2>3. /\ DOMAIN Statement(w).write = {Post(p)} /\ Statement(w).shared = {}
        /\ Statement(w).write[Post(p)] = [db[Post(p)] EXCEPT !.comments = Less(@, 1)]
        /\ Statement(w).next = "commit"
    BY <1>4, <2>1, <2>2, Parts DEF UncountComment, Does, Counting, Replies
  <2>4. /\ DOMAIN e.write = {row, note, Post(p)}
        /\ e.write[row] = Used /\ e.write[note] = 0
        /\ e.write[Post(p)] = [db[Post(p)] EXCEPT !.comments = Less(@, 1)]
        /\ e.on = c /\ e.pc = "commit" /\ Lawful(Statement(w))
    BY <1>3, <1>5, <1>6, <2>1, <2>3 DEF Continues, Lawful, UncommentBegun
  <2>. QED
    BY <1>4, <2>1, <2>4 DEF UncommentAt, UncommentBegun, CommentUncounted, Writes, Closing
<1>. QED
  BY <1>2, <1>7, <1>8

LEMMA FollowStatements ==
  ASSUME IInv, NEW w \in Workers, Execute(w), tx[w].kind = "follow"
  PROVE  FollowAt(tx'[w], db) /\ Lawful(Statement(w))
<1>. DEFINE t == tx[w]  e == tx'[w]  u == tx[w].user  v == tx[w].on
            row == FollowRow(u, v)  note == FollowNote(u, v)
<1>1. FollowAt(t, db)
  BY DEF IInv, Doing
<1>2. t.pc \in {"insertFollow", "noteFollow"}
  BY <1>1 DEF FollowAt, Execute, Running, Outside, Closing
<1>3. Continues(t, e, Statement(w))
  BY Stepped DEF IInv
<1>4. u \in Users /\ v \in Users /\ u # v /\ db[row] \in {"there", Absent}
  BY <1>1 DEF FollowAt, IInv, DbOK, RowsOK
<1>5. row \in Items /\ note \in Items /\ User(u) \in Items /\ User(v) \in Items
  BY <1>4, Places
<1>6. note # row
  BY Parts
<1>7. CASE t.pc = "insertFollow"
  <2>1. DOMAIN t.write = {} /\ Statement(w) = InsertFollow(w)
    BY <1>1, <1>7 DEF FollowAt, Statement
  <2>2. Get(w, row) = db[row]
    BY <2>1 DEF Get
  <2>3. CASE Has(w, row)
    <3>1. Statement(w) = Does({row}, <<>>, "commit")
      BY <2>1, <2>3 DEF InsertFollow
    <3>. QED
      BY <1>3, <1>4, <1>5, <2>1, <3>1, DoesIs, NoWrites
      DEF FollowAt, Continues, Lawful, Closing
  <2>4. CASE ~Has(w, row)
    <3>1. Statement(w) = Does({User(u), User(v)}, Put(row, "there"), "noteFollow")
      BY <2>1, <2>4 DEF InsertFollow
    <3>2. db[row] # "there"
      BY <2>2, <2>4, AbsentAssumption DEF Has
    <3>3. DOMAIN Statement(w).write = {row} /\ Statement(w).write[row] = "there"
          /\ Statement(w).shared = {User(u), User(v)}
      BY <3>1 DEF Does, Put
    <3>4. DOMAIN e.write = {row} /\ e.write[row] = "there" /\ e.pc = "noteFollow"
          /\ e.user = u /\ e.on = v /\ Lawful(Statement(w))
      BY <1>3, <1>5, <2>1, <3>1, <3>3 DEF Continues, Lawful, Does
    <3>. QED
      BY <1>4, <3>2, <3>4 DEF FollowAt
  <2>. QED
    BY <2>3, <2>4
<1>8. CASE t.pc = "noteFollow"
  <2>1. /\ DOMAIN t.write = {row} /\ t.write[row] = "there" /\ db[row] # "there"
        /\ Statement(w) = NoteFollow(w)
    BY <1>1, <1>8 DEF FollowAt, Statement
  <2>2. Get(w, note) = db[note]
    BY <1>6, <2>1 DEF Get
  <2>3. /\ DOMAIN Statement(w).write = {note}
        /\ Statement(w).shared = {User(u), User(v)}
        /\ Statement(w).write[note] = db[note] + 1 /\ Statement(w).next = "commit"
    BY <2>1, <2>2 DEF NoteFollow, Notify, Does, Put
  <2>4. /\ DOMAIN e.write = {row, note} /\ e.write[row] = "there"
        /\ e.write[note] = db[note] + 1
        /\ e.user = u /\ e.on = v /\ Lawful(Statement(w)) /\ e.pc = "commit"
    BY <1>3, <1>5, <1>6, <2>1, <2>3 DEF Continues, Lawful
  <2>. QED
    BY <1>4, <2>1, <2>4 DEF FollowAt, Closing
<1>. QED
  BY <1>2, <1>7, <1>8

LEMMA UnfollowStatements ==
  ASSUME IInv, NEW w \in Workers, Execute(w), tx[w].kind = "unfollow"
  PROVE  UnfollowAt(tx'[w], db) /\ Lawful(Statement(w))
<1>. DEFINE t == tx[w]  e == tx'[w]  u == tx[w].user  v == tx[w].on
            row == FollowRow(u, v)  note == FollowNote(u, v)
<1>1. UnfollowAt(t, db)
  BY DEF IInv, Doing
<1>2. t.pc \in {"deleteFollow", "unnoteFollow"}
  BY <1>1 DEF UnfollowAt, Execute, Running, Outside, Closing
<1>3. Continues(t, e, Statement(w))
  BY Stepped DEF IInv
<1>4. u \in Users /\ v \in Users /\ u # v /\ db[row] \in {"there", Absent}
  BY <1>1 DEF UnfollowAt, IInv, DbOK, RowsOK
<1>5. row \in Items /\ note \in Items
  BY <1>4, Places
<1>6. note # row
  BY Parts
<1>7. CASE t.pc = "deleteFollow"
  <2>1. DOMAIN t.write = {} /\ Statement(w) = DeleteFollow(w)
    BY <1>1, <1>7 DEF UnfollowAt, Statement
  <2>2. Get(w, row) = db[row]
    BY <2>1 DEF Get
  <2>3. CASE ~Has(w, row)
    <3>1. Statement(w) = Does({row}, <<>>, "commit")
      BY <2>1, <2>3 DEF DeleteFollow
    <3>. QED
      BY <1>3, <1>4, <1>5, <2>1, <3>1, DoesIs, NoWrites
      DEF UnfollowAt, Continues, Lawful, Closing
  <2>4. CASE Has(w, row)
    <3>1. Statement(w) = Does({}, Deletion(w, {row}), "unnoteFollow")
      BY <2>1, <2>4 DEF DeleteFollow
    <3>2. db[row] = "there"
      BY <1>4, <2>2, <2>4 DEF Has
    <3>3. DOMAIN Deletion(w, {row}) = {row} /\ Deletion(w, {row})[row] = Absent
      BY <2>4, DeletionOfRow, Parts
    <3>4. DOMAIN e.write = {row} /\ e.write[row] = Absent /\ e.pc = "unnoteFollow"
          /\ e.user = u /\ e.on = v /\ Lawful(Statement(w))
      BY <1>3, <1>5, <2>1, <3>1, <3>3 DEF Continues, Lawful, Does
    <3>. QED
      BY <1>4, <3>2, <3>4 DEF UnfollowAt
  <2>. QED
    BY <2>3, <2>4
<1>8. CASE t.pc = "unnoteFollow"
  <2>1. /\ DOMAIN t.write = {row} /\ t.write[row] = Absent /\ db[row] = "there"
        /\ Statement(w) = UnnoteFollow(w)
    BY <1>1, <1>8 DEF UnfollowAt, Statement
  <2>2. /\ DOMAIN Statement(w).write = {note} /\ Statement(w).shared = {}
        /\ Statement(w).write[note] = 0 /\ Statement(w).next = "commit"
    BY <2>1 DEF UnnoteFollow, Does, Put
  <2>3. /\ DOMAIN e.write = {row, note} /\ e.write[row] = Absent
        /\ e.write[note] = 0
        /\ e.user = u /\ e.on = v /\ Lawful(Statement(w)) /\ e.pc = "commit"
    BY <1>3, <1>5, <1>6, <2>1, <2>2 DEF Continues, Lawful
  <2>. QED
    BY <1>4, <2>1, <2>3 DEF UnfollowAt, Closing
<1>. QED
  BY <1>2, <1>7, <1>8

LEMMA DeletePostStatements ==
  ASSUME IInv, NEW w \in Workers, Execute(w), tx[w].kind = "deletePost"
  PROVE  DeletePostAt(tx'[w], db) /\ Lawful(Statement(w))
<1>. DEFINE t == tx[w]  e == tx'[w]  p == tx[w].on  row == Post(p)
            f == Deletion(w, {row})
<1>1. DeletePostAt(t, db)
  BY DEF IInv, Doing
<1>2. t.pc = "deletePost" /\ DOMAIN t.write = {} /\ p \in Posts
  BY <1>1 DEF DeletePostAt, Execute, Running, Outside, Closing
<1>3. Continues(t, e, Statement(w)) /\ Statement(w) = DeletePost(w)
  BY <1>2, Stepped DEF IInv, Statement
<1>4. \A i : Get(w, i) = db[i]
  BY <1>2 DEF Get
<1>5. row \in Rows /\ row \in Items
  BY <1>2, Places DEF Rows
<1>6. CASE ~Has(w, row)
  <2>1. Statement(w) = Does({row}, <<>>, "failed")
    BY <1>3, <1>6 DEF DeletePost
  <2>. QED
    BY <1>2, <1>3, <1>5, <2>1, DoesIs, NoWrites DEF DeletePostAt, Continues, Lawful, Closing
<1>7. CASE Has(w, row)
  <2>1. Statement(w) = Does({}, f, "commit")
    BY <1>3, <1>7 DEF DeletePost
  <2>2. Statement(w).write = f /\ Statement(w).shared = {} /\ Statement(w).next = "commit"
    BY <2>1 DEF Does
  <2>3. /\ \A c \in Comments : Has(w, Comment(c)) <=> db[Comment(c)] = "there"
        /\ \A x \in Users, q \in Posts :
             Has(w, LikeRow(x, q)) <=> db[LikeRow(x, q)] = "there"
        /\ ThereIn(db, row)
    BY <1>4, <1>7, AbsentAssumption DEF Has, ThereIn, IInv, DbOK, RowsOK
  <2>4. /\ \A q \in Posts : Post(q) \in {row} <=> q = p
        /\ \A c : Comment(c) \notin {row}
        /\ \A x, q : LikeRow(x, q) \notin {row}
        /\ \A x, y : FollowRow(x, y) \notin {row}
        /\ \A x : User(x) \notin {row}
    BY Parts
  <2>. HIDE DEF f, row
  <2>5. /\ \A q \in Posts :
             /\ Post(q) \in DOMAIN f <=> q = p
             /\ Post(q) \in DOMAIN f => f[Post(q)] = Used
             /\ PostTags(q) \in DOMAIN f <=> q = p
             /\ PostTags(q) \in DOMAIN f => f[PostTags(q)] = {}
        /\ DOMAIN f \subseteq Items
    BY <1>5, <1>7, <2>4, DeletionIs DEF f, row
  <2>6. \A c \in Comments :
          /\ Comment(c) \in DOMAIN f <=> db[Comment(c)] = "there" /\ On[c] = p
          /\ Comment(c) \in DOMAIN f => f[Comment(c)] = Used
          /\ CommentNote(c) \in DOMAIN f <=> Comment(c) \in DOMAIN f
          /\ CommentNote(c) \in DOMAIN f => f[CommentNote(c)] = 0
    BY <1>5, <2>3, <2>4, DeletionIs, OnAssumption DEF f, row
  <2>7. \A x \in Users, q \in Posts :
          /\ LikeRow(x, q) \in DOMAIN f <=> db[LikeRow(x, q)] = "there" /\ q = p
          /\ LikeRow(x, q) \in DOMAIN f => f[LikeRow(x, q)] = Absent
          /\ LikeNote(x, q) \in DOMAIN f <=> q = p
          /\ LikeNote(x, q) \in DOMAIN f => f[LikeNote(x, q)] = 0
    BY <1>5, <1>7, <2>3, <2>4, <2>5, DeletionIs DEF f, row
  <2>8. /\ \A x, y \in Users :
             FollowRow(x, y) \notin DOMAIN f /\ FollowNote(x, y) \notin DOMAIN f
        /\ \A x \in Users : User(x) \notin DOMAIN f
    BY <1>5, <2>4, DeletionIs DEF f, row
  <2>9. /\ DOMAIN e.write = DOMAIN f /\ \A i \in DOMAIN f : e.write[i] = f[i]
        /\ e.pc = "commit" /\ e.on = p
    BY <1>2, <1>3, <2>2 DEF Continues
  <2>10. Lawful(Statement(w))
    BY <2>2, <2>5 DEF Lawful
  <2>11. ThereIn(db, Post(p))
    BY <2>3 DEF row
  <2>. HIDE DEF e
  <2>. QED
    BY <1>2, <2>5, <2>6, <2>7, <2>8, <2>9, <2>10, <2>11
    DEF DeletePostAt, Writes, Closing, e
<1>. QED
  BY <1>6, <1>7

(* replaceTags attaches each tag of the list once, so that it is done with  *)
(* the list when it has attached as many as the list is long.               *)
LEMMA TagListLength ==
  ASSUME NEW s \in Texts, NEW S, S \subseteq TagsOf[s]
  PROVE  /\ Cardinality(S) \in Nat /\ Len(TagList[s]) \in Nat
         /\ Cardinality(S) >= Len(TagList[s]) => S = TagsOf[s]
         /\ \A i \in 1..Len(TagList[s]) :
              TagList[s][i] \in TagsOf[s] /\ TagList[s][i] \in Tags
<1>. DEFINE list == TagList[s]  n == Len(list)
<1>1. list \in Seq(Tags) /\ n \in Nat /\ DOMAIN list = 1..n
  BY TagAssumption
<1>2. TagsOf[s] = {list[i] : i \in 1..n}
  BY <1>1 DEF TagsOf
<1>3. \A i \in 1..n : list[i] \in TagsOf[s] /\ list[i] \in Tags
  BY <1>1, <1>2
<1>4. IsFiniteSet(1..n) /\ Cardinality(1..n) = n
  BY <1>1, FS_Interval
<1>5. list \in Surjection(1..n, TagsOf[s])
  <2>1. list \in [1..n -> TagsOf[s]]
    BY <1>1, <1>3
  <2>. QED
    BY <1>2, <2>1 DEF Surjection
<1>6. IsFiniteSet(TagsOf[s]) /\ Cardinality(TagsOf[s]) <= n
  BY <1>4, <1>5, FS_Surjection
<1>7. Cardinality(TagsOf[s]) \in Nat
  BY <1>6, FS_CardinalityType
<1>8. Cardinality(S) \in Nat /\ Cardinality(S) <= Cardinality(TagsOf[s])
      /\ (Cardinality(S) = Cardinality(TagsOf[s]) => S = TagsOf[s])
  BY <1>6, FS_Subset, FS_CardinalityType
<1>9. Cardinality(S) >= n => S = TagsOf[s]
  BY <1>1, <1>6, <1>7, <1>8
<1>. QED
  BY <1>1, <1>3, <1>8, <1>9

LEMMA AttachesTag ==
  ASSUME NEW w, tx[w].text \in Texts, NEW S, S = Get(w, PostTags(tx[w].on)),
         S \subseteq TagsOf[tx[w].text]
  PROVE  LET p == tx[w].on  s == AttachTag(w) IN
         \/ /\ S = TagsOf[tx[w].text]
            /\ s.shared = {} /\ DOMAIN s.write = {} /\ s.next = "commit"
         \/ \E g \in Tags :
              /\ g \in TagsOf[tx[w].text] /\ s.shared = {Post(p)}
              /\ DOMAIN s.write = {Tag(g), PostTags(p)}
              /\ s.write[PostTags(p)] = S \union {g}
              /\ s.next = IF Has(w, Post(p)) THEN "attachTag" ELSE "failed"
<1>. DEFINE p == tx[w].on  list == TagList[tx[w].text]  done == Cardinality(S)
            s == AttachTag(w)
<1>1. CASE done >= Len(list)
  <2>1. s = Goes("commit") /\ S = TagsOf[tx[w].text]
    BY <1>1, TagListLength DEF AttachTag
  <2>. QED
    BY <2>1, NoWrites DEF Goes, Does
<1>2. CASE ~(done >= Len(list))
  <2>. DEFINE g == list[done + 1]
  <2>1. g \in TagsOf[tx[w].text] /\ g \in Tags
    <3>1. done \in Nat /\ Len(list) \in Nat
      BY TagListLength
    <3>2. done + 1 \in 1..Len(list)
      BY <1>2, <3>1
    <3>. QED
      BY <3>2, TagListLength
  <2>2. s = Does({Post(p)}, Over(Put(Tag(g), "there"), Put(PostTags(p), S \union {g})),
                 IF Has(w, Post(p)) THEN "attachTag" ELSE "failed")
    BY <1>2 DEF AttachTag
  <2>. HIDE DEF g
  <2>3. DOMAIN s.write = {Tag(g), PostTags(p)} /\ s.write[PostTags(p)] = S \union {g}
    BY <2>2, Parts DEF Does, Over, Put
  <2>4. s.shared = {Post(p)} /\ s.next = IF Has(w, Post(p)) THEN "attachTag" ELSE "failed"
    BY <2>2 DEF Does
  <2>. QED
    BY <2>1, <2>3, <2>4
<1>. QED
  BY <1>1, <1>2

LEMMA PostRowIsThere == \A r \in PostRows : r \notin {Absent, Used}
BY AbsentAssumption

LEMMA PublishStatements ==
  ASSUME IInv, NEW w \in Workers, Execute(w), tx[w].kind = "publish"
  PROVE  PublishAt(tx'[w], db) /\ Lawful(Statement(w))
<1>. DEFINE t == tx[w]  e == tx'[w]  p == tx[w].on  row == Post(p)  links == PostTags(p)
<1>1. PublishAt(t, db)
  BY DEF IInv, Doing
<1>2. t.pc \in {"insertPost", "detachTags", "attachTag"}
  BY <1>1 DEF PublishAt, Execute, Running, Outside, Closing
<1>3. Continues(t, e, Statement(w))
  BY Stepped DEF IInv
<1>4. t.user \in Users /\ p \in Posts /\ t.text \in Texts
  BY <1>1 DEF PublishAt
<1>5. row \in Items /\ links \in Items /\ User(t.user) \in Items
      /\ \A g \in Tags : Tag(g) \in Items
  BY <1>4, Places
<1>6. row # links /\ \A g : Tag(g) # row /\ Tag(g) # links
  BY Parts
<1>7. CASE t.pc = "insertPost"
  <2>1. DOMAIN t.write = {} /\ Statement(w) = InsertPost(w)
    BY <1>1, <1>7 DEF PublishAt, Statement
  <2>2. /\ DOMAIN Statement(w).write = {row} /\ Statement(w).shared = {User(t.user)}
        /\ Statement(w).write[row] = NewPost(t.text)
        /\ Statement(w).next = "detachTags"
    BY <2>1 DEF InsertPost, Does, Put
  <2>3. /\ DOMAIN e.write = {row} /\ e.write[row] = NewPost(t.text)
        /\ e.pc = "detachTags" /\ e.on = p /\ e.text = t.text /\ e.user = t.user
        /\ Lawful(Statement(w))
    BY <1>3, <1>5, <2>1, <2>2 DEF Continues, Lawful
  <2>. QED
    BY <1>4, <2>3 DEF PublishAt, Writes
<1>8. CASE t.pc = "detachTags"
  <2>1. /\ DOMAIN t.write = {row} /\ t.write[row] = NewPost(t.text)
        /\ Statement(w) = DetachTags(w)
    BY <1>1, <1>8 DEF PublishAt, Statement
  <2>2. /\ DOMAIN Statement(w).write = {links} /\ Statement(w).shared = {}
        /\ Statement(w).write[links] = {} /\ Statement(w).next = "attachTag"
    BY <2>1 DEF DetachTags, Does, Put
  <2>3. /\ DOMAIN e.write = {row, links} /\ e.write[row] = NewPost(t.text)
        /\ e.write[links] = {}
        /\ e.pc = "attachTag" /\ e.on = p /\ e.text = t.text /\ e.user = t.user
        /\ Lawful(Statement(w))
    BY <1>3, <1>5, <1>6, <2>1, <2>2 DEF Continues, Lawful
  <2>. QED
    BY <1>4, <2>3 DEF PublishAt, Tagging, Writes
<1>9. CASE t.pc = "attachTag"
  <2>. DEFINE S == t.write[links]
  <2>1. /\ row \in DOMAIN t.write /\ links \in DOMAIN t.write
        /\ t.write[row] = NewPost(t.text) /\ S \subseteq TagsOf[t.text]
        /\ DOMAIN t.write \subseteq {row, links} \union {Tag(g) : g \in Tags}
        /\ Statement(w) = AttachTag(w)
    BY <1>1, <1>9 DEF PublishAt, Tagging, Writes, Statement
  <2>2. Get(w, links) = S /\ Has(w, row)
    <3>1. NewPost(t.text) \in PostRows
      BY <1>4 DEF NewPost, PostRows
    <3>. QED
      BY <2>1, <3>1, PostRowIsThere DEF Get, Has
  <2>3. CASE /\ S = TagsOf[t.text] /\ Statement(w).shared = {}
             /\ DOMAIN Statement(w).write = {} /\ Statement(w).next = "commit"
    <3>1. /\ DOMAIN e.write = DOMAIN t.write
          /\ e.write[row] = NewPost(t.text) /\ e.write[links] = TagsOf[t.text]
          /\ e.pc = "commit" /\ e.on = p /\ e.text = t.text /\ e.user = t.user
          /\ Lawful(Statement(w))
      BY <1>3, <2>1, <2>3 DEF Continues, Lawful
    <3>. QED
      BY <1>4, <2>1, <3>1 DEF PublishAt, Tagging, Writes, Closing
  <2>4. ASSUME NEW g \in Tags, g \in TagsOf[t.text], Statement(w).shared = {row},
               DOMAIN Statement(w).write = {Tag(g), links},
               Statement(w).write[links] = S \union {g},
               Statement(w).next = "attachTag"
        PROVE  PublishAt(e, db) /\ Lawful(Statement(w))
    <3>1. /\ DOMAIN e.write = DOMAIN t.write \union {Tag(g), links}
          /\ e.write[row] = NewPost(t.text) /\ e.write[links] = S \union {g}
          /\ e.pc = "attachTag" /\ e.on = p /\ e.text = t.text /\ e.user = t.user
      BY <1>3, <1>6, <2>1, <2>4 DEF Continues
    <3>2. Lawful(Statement(w))
      BY <1>5, <2>4 DEF Lawful
    <3>. QED
      BY <1>4, <2>1, <2>4, <3>1, <3>2 DEF PublishAt, Tagging, Writes
  <2>. QED
    BY <1>4, <2>1, <2>2, <2>3, <2>4, AttachesTag
<1>. QED
  BY <1>2, <1>7, <1>8, <1>9

LEMMA EditStatements ==
  ASSUME IInv, NEW w \in Workers, Execute(w), tx[w].kind = "edit"
  PROVE  EditAt(tx'[w], db) /\ Lawful(Statement(w))
<1>. DEFINE t == tx[w]  e == tx'[w]  p == tx[w].on  row == Post(p)  links == PostTags(p)
            new == [db[row] EXCEPT !.text = t.text]
<1>1. EditAt(t, db)
  BY DEF IInv, Doing
<1>2. t.pc \in {"updatePost", "detachTags", "attachTag"}
  BY <1>1 DEF EditAt, Execute, Running, Outside, Closing
<1>3. Continues(t, e, Statement(w))
  BY Stepped DEF IInv
<1>4. p \in Posts /\ t.text \in Texts /\ db[row] # Absent
  BY <1>1, <1>2 DEF EditAt
<1>5. row \in Items /\ links \in Items /\ \A g \in Tags : Tag(g) \in Items
  BY <1>4, Places
<1>6. row # links /\ \A g : Tag(g) # row /\ Tag(g) # links
  BY Parts
<1>7. CASE t.pc = "updatePost"
  <2>1. DOMAIN t.write = {} /\ Statement(w) = UpdatePost(w)
    BY <1>1, <1>7 DEF EditAt, Statement
  <2>2. Get(w, row) = db[row] /\ (Has(w, row) <=> ThereIn(db, row))
    BY <2>1 DEF Get, Has, ThereIn
  <2>3. /\ DOMAIN Statement(w).write = (IF ThereIn(db, row) THEN {row} ELSE {})
        /\ ThereIn(db, row) => Statement(w).write[row] = new
        /\ Statement(w).shared = {row} /\ Statement(w).next = "detachTags"
    BY <2>1, <2>2, Parts DEF UpdatePost, Does, Counting
  <2>4. /\ DOMAIN e.write = (IF ThereIn(db, row) THEN {row} ELSE {})
        /\ ThereIn(db, row) => e.write[row] = new
        /\ row \in e.shared
        /\ e.pc = "detachTags" /\ e.on = p /\ e.text = t.text
        /\ Lawful(Statement(w))
    BY <1>3, <1>5, <2>1, <2>3 DEF Continues, Lawful
  <2>. QED
    BY <1>4, <2>4 DEF EditAt, Writes
<1>8. CASE t.pc = "detachTags"
  <2>1. /\ DOMAIN t.write \subseteq {row} /\ row \in t.shared
        /\ row \in DOMAIN t.write <=> ThereIn(db, row)
        /\ row \in DOMAIN t.write => t.write[row] = new
        /\ Statement(w) = DetachTags(w)
    BY <1>1, <1>8 DEF EditAt, Writes, Statement
  <2>2. /\ DOMAIN Statement(w).write = {links} /\ Statement(w).shared = {}
        /\ Statement(w).write[links] = {} /\ Statement(w).next = "attachTag"
    BY <2>1 DEF DetachTags, Does, Put
  <2>3. /\ DOMAIN e.write = DOMAIN t.write \union {links} /\ e.write[links] = {}
        /\ row \in DOMAIN t.write => e.write[row] = new
        /\ row \in e.shared
        /\ e.pc = "attachTag" /\ e.on = p /\ e.text = t.text
        /\ Lawful(Statement(w))
    BY <1>3, <1>5, <1>6, <2>1, <2>2 DEF Continues, Lawful
  <2>4. row \in DOMAIN e.write <=> row \in DOMAIN t.write
    BY <1>6, <2>3
  <2>. QED
    BY <1>4, <2>1, <2>3, <2>4 DEF EditAt, Tagging, Writes
<1>9. CASE t.pc = "attachTag"
  <2>. DEFINE S == t.write[links]
  <2>1. /\ row \in t.shared /\ links \in DOMAIN t.write
        /\ row \in DOMAIN t.write <=> ThereIn(db, row)
        /\ row \in DOMAIN t.write => t.write[row] = new
        /\ S \subseteq IF row \in DOMAIN t.write THEN TagsOf[t.text] ELSE {}
        /\ DOMAIN t.write \subseteq {row, links} \union {Tag(g) : g \in Tags}
        /\ Statement(w) = AttachTag(w)
    BY <1>1, <1>9 DEF EditAt, Tagging, Writes, Statement
  <2>2. /\ Get(w, links) = S /\ S \subseteq TagsOf[t.text]
        /\ Has(w, row) <=> row \in DOMAIN t.write
    <3>1. ThereIn(db, row) => new \in PostRows
      BY <1>4 DEF IInv, DbOK, RowsOK, ThereIn, PostRows
    <3>2. row \in DOMAIN t.write => Has(w, row)
      BY <2>1, <3>1, PostRowIsThere DEF Get, Has
    <3>3. row \notin DOMAIN t.write => ~Has(w, row)
      BY <2>1 DEF Get, Has, ThereIn
    <3>4. Get(w, links) = S /\ S \subseteq TagsOf[t.text]
      BY <2>1 DEF Get
    <3>. QED
      BY <3>2, <3>3, <3>4
  <2>3. CASE /\ S = TagsOf[t.text] /\ Statement(w).shared = {}
             /\ DOMAIN Statement(w).write = {} /\ Statement(w).next = "commit"
    <3>1. /\ DOMAIN e.write = DOMAIN t.write
          /\ row \in DOMAIN t.write => e.write[row] = new
          /\ e.write[links] = S /\ row \in e.shared
          /\ e.pc = "commit" /\ e.on = p /\ e.text = t.text
          /\ Lawful(Statement(w))
      BY <1>3, <2>1, <2>3 DEF Continues, Lawful
    <3>2. S = IF row \in DOMAIN t.write THEN TagsOf[t.text] ELSE {}
      BY <2>1, <2>3
    <3>. QED
      BY <1>4, <2>1, <3>1, <3>2 DEF EditAt, Tagging, Writes, Closing
  <2>4. ASSUME NEW g \in Tags, g \in TagsOf[t.text], Statement(w).shared = {row},
               DOMAIN Statement(w).write = {Tag(g), links},
               Statement(w).write[links] = S \union {g},
               Statement(w).next = IF Has(w, row) THEN "attachTag" ELSE "failed"
        PROVE  EditAt(e, db) /\ Lawful(Statement(w))
    <3>1. /\ DOMAIN e.write = DOMAIN t.write \union {Tag(g), links}
          /\ row \in DOMAIN t.write => e.write[row] = new
          /\ e.write[links] = S \union {g} /\ row \in e.shared
          /\ e.pc = (IF Has(w, row) THEN "attachTag" ELSE "failed")
          /\ e.on = p /\ e.text = t.text
      BY <1>3, <1>6, <2>1, <2>4 DEF Continues
    <3>2. Lawful(Statement(w))
      BY <1>5, <2>4 DEF Lawful
    <3>3. row \in DOMAIN e.write <=> row \in DOMAIN t.write
      BY <1>6, <3>1
    <3>. QED
      BY <1>4, <2>1, <2>2, <2>4, <3>1, <3>2, <3>3 DEF EditAt, Tagging, Writes, Closing
  <2>5. \/ /\ S = TagsOf[t.text] /\ Statement(w).shared = {}
           /\ DOMAIN Statement(w).write = {} /\ Statement(w).next = "commit"
        \/ \E g \in Tags :
             /\ g \in TagsOf[t.text] /\ Statement(w).shared = {row}
             /\ DOMAIN Statement(w).write = {Tag(g), links}
             /\ Statement(w).write[links] = S \union {g}
             /\ Statement(w).next = IF Has(w, row) THEN "attachTag" ELSE "failed"
    <3>1. t.text \in Texts /\ Get(w, links) \subseteq TagsOf[t.text]
      BY <1>4, <2>2
    <3>2. Statement(w) = AttachTag(w) /\ S = Get(w, links)
      BY <2>1, <2>2
    <3>. HIDE DEF S
    <3>. QED
      BY <3>1, <3>2, AttachesTag
  <2>. QED
    BY <2>3, <2>4, <2>5
<1>. QED
  BY <1>2, <1>7, <1>8, <1>9

-----------------------------------------------------------------------------
(* DeleteAccount, n statements of it done.                                  *)

LEMMA RowText ==
  ASSUME NEW r \in PostRows
  PROVE  r.likes \in Nat /\ r.comments \in Nat /\ r.text \in Texts
         /\ r = [text |-> r.text, likes |-> r.likes, comments |-> r.comments]
BY DEF PostRows

LEMMA SaidFinite ==
  ASSUME NEW d, NEW u, NEW p
  PROVE  Cardinality(Said(d, u, p)) \in Nat /\ (Said(d, u, p) = {} => Cardinality(Said(d, u, p)) = 0)
BY FiniteAssumption, FS_Subset, FS_CardinalityType, FS_EmptySet DEF Said

(* The row of a post of somebody else. *)
LEMMA UncountedIs ==
  ASSUME NEW d, NEW u, NEW p, NEW n \in Nat, d[Post(p)] \in PostRows
  PROVE  /\ Uncounted(d, u, p, n) \in PostRows
         /\ n < 2 => Uncounted(d, u, p, n) = d[Post(p)]
         /\ Said(d, u, p) = {} /\ (n < 4 \/ ~LikesIt(d, u, p)) =>
              Uncounted(d, u, p, n) = d[Post(p)]
<1>. DEFINE r == d[Post(p)]  k == Cardinality(Said(d, u, p))
            a == IF n >= 2 THEN Less(r.comments, k) ELSE r.comments
            b == IF n >= 4 /\ LikesIt(d, u, p) THEN Less(r.likes, 1) ELSE r.likes
<1>1. Uncounted(d, u, p, n) = [text |-> r.text, likes |-> b, comments |-> a]
  BY DEF Uncounted
<1>2. r.likes \in Nat /\ r.comments \in Nat /\ r.text \in Texts /\ k \in Nat
      /\ (Said(d, u, p) = {} => k = 0)
      /\ r = [text |-> r.text, likes |-> r.likes, comments |-> r.comments]
  BY RowText, SaidFinite
<1>3. a \in Nat /\ b \in Nat
  BY <1>2 DEF Less
<1>4. n < 2 => a = r.comments /\ b = r.likes
  OBVIOUS
<1>5. Said(d, u, p) = {} => a = r.comments
  BY <1>2 DEF Less
<1>6. n < 4 \/ ~LikesIt(d, u, p) => b = r.likes
  OBVIOUS
<1>7. [text |-> r.text, likes |-> b, comments |-> a] \in PostRows
  BY <1>2, <1>3 DEF PostRows
<1>. HIDE DEF a, b, r, k
<1>. QED
  BY <1>1, <1>2, <1>4, <1>5, <1>6, <1>7 DEF r

(* What a transaction that leaves reads, itself included. *)
LEMMA LeaveSees ==
  ASSUME IInv, NEW w \in Workers, NEW n \in 0..7, Leaves(tx[w], db, n),
         tx[w].user \in Users
  PROVE  LET t == tx[w]  u == tx[w].user IN
    /\ \A c \in Comments :
         Has(w, Comment(c)) <=> db[Comment(c)] = "there" /\ ~Writes(t, Comment(c))
    /\ \A x \in Users, p \in Posts :
         Has(w, LikeRow(x, p)) <=> db[LikeRow(x, p)] = "there" /\ ~Writes(t, LikeRow(x, p))
    /\ \A x, y \in Users :
         Has(w, FollowRow(x, y)) <=>
           db[FollowRow(x, y)] = "there" /\ ~Writes(t, FollowRow(x, y))
    /\ \A p \in Posts :
         /\ Owner[p] = u => (Has(w, Post(p)) <=> n = 0 /\ ThereIn(db, Post(p)))
         /\ Owner[p] # u =>
              /\ Has(w, Post(p)) <=> ThereIn(db, Post(p))
              /\ ThereIn(db, Post(p)) =>
                   /\ db[Post(p)] \in PostRows
                   /\ Get(w, Post(p)) = Uncounted(db, u, p, n)
<1>. DEFINE t == tx[w]  u == tx[w].user
<1>1. ASSUME NEW c \in Comments
      PROVE  Has(w, Comment(c)) <=> db[Comment(c)] = "there" /\ ~Writes(t, Comment(c))
  BY AbsentAssumption DEF Leaves, LeaveComments, Has, Get, Writes, IInv, DbOK, RowsOK
<1>2. ASSUME NEW x \in Users, NEW p \in Posts
      PROVE  Has(w, LikeRow(x, p)) <=>
               db[LikeRow(x, p)] = "there" /\ ~Writes(t, LikeRow(x, p))
  BY AbsentAssumption DEF Leaves, LeaveLikes, Has, Get, Writes, IInv, DbOK, RowsOK
<1>3. ASSUME NEW x \in Users, NEW y \in Users
      PROVE  Has(w, FollowRow(x, y)) <=>
               db[FollowRow(x, y)] = "there" /\ ~Writes(t, FollowRow(x, y))
  BY AbsentAssumption DEF Leaves, LeaveFollows, Has, Get, Writes, IInv, DbOK, RowsOK
<1>4. ASSUME NEW p \in Posts, Owner[p] = u
      PROVE  Has(w, Post(p)) <=> n = 0 /\ ThereIn(db, Post(p))
  BY <1>4, AbsentAssumption DEF Leaves, LeavePosts, Mine, Has, Get, Writes, ThereIn
<1>5. ASSUME NEW p \in Posts, Owner[p] # u
      PROVE  /\ Has(w, Post(p)) <=> ThereIn(db, Post(p))
             /\ ThereIn(db, Post(p)) =>
                  /\ db[Post(p)] \in PostRows
                  /\ Get(w, Post(p)) = Uncounted(db, u, p, n)
  <2>1. Writes(t, Post(p)) <=>
          \/ n >= 2 /\ Said(db, u, p) # {}
          \/ n >= 4 /\ LikesIt(db, u, p)
    BY <1>5 DEF Leaves, LeavePosts, Mine
  <2>2. Writes(t, Post(p)) => t.write[Post(p)] = Uncounted(db, u, p, n)
    BY <1>5 DEF Leaves, LeavePosts
  <2>3. Writes(t, Post(p)) => ThereIn(db, Post(p))
    BY <2>1, OnAssumption DEF Said, LikesIt, IInv, ForeignKeys
  <2>4. ThereIn(db, Post(p)) => db[Post(p)] \in PostRows
    BY DEF ThereIn, IInv, DbOK, RowsOK
  <2>5. ThereIn(db, Post(p)) => Get(w, Post(p)) = Uncounted(db, u, p, n)
    <3>1. CASE Writes(t, Post(p))
      BY <2>2, <3>1 DEF Get, Writes
    <3>2. CASE ~Writes(t, Post(p))
      <4>1. n < 2 \/ (Said(db, u, p) = {} /\ (n < 4 \/ ~LikesIt(db, u, p)))
        BY <2>1, <3>2
      <4>2. Get(w, Post(p)) = db[Post(p)]
        BY <3>2 DEF Get, Writes
      <4>. QED
        BY <2>4, <4>1, <4>2, UncountedIs
    <3>. QED
      BY <3>1, <3>2
  <2>6. ThereIn(db, Post(p)) => Has(w, Post(p))
    BY <2>4, <2>5, UncountedIs, PostRowIsThere DEF Has
  <2>7. ~ThereIn(db, Post(p)) => ~Has(w, Post(p))
    BY <2>3 DEF Get, Has, Writes, ThereIn
  <2>. QED
    BY <2>4, <2>5, <2>6, <2>7
<1>. QED
  BY <1>1, <1>2, <1>3, <1>4, <1>5

(* The statements, one after the other: what was done before stays done.    *)
LEMMA LeaveBegins ==
  ASSUME IInv, NEW w \in Workers, Execute(w), tx[w].user \in Users,
         tx[w].pc = "deletePosts", Leaves(tx[w], db, 0)
  PROVE  Leaves(tx'[w], db, 1) /\ tx'[w].pc = "uncountComments" /\ Lawful(Statement(w))
<1>. DEFINE t == tx[w]  e == tx'[w]  u == tx[w].user  s == Statement(w)
            mine == {Post(p) : p \in {q \in Posts : Owner[q] = u}}
            f == Deletion(w, mine)
<1>1. Continues(t, e, s) /\ s = Does(mine, f, "uncountComments")
  BY Stepped DEF IInv, Statement, DeletePosts
<1>2. s.shared = mine /\ s.write = f /\ s.next = "uncountComments"
  BY <1>1 DEF Does
<1>3. mine \subseteq Rows /\ mine \subseteq Items
  BY Places DEF Rows
<1>4. /\ \A p \in Posts : Post(p) \in mine <=> Owner[p] = u
      /\ \A c : Comment(c) \notin mine
      /\ \A x, p : LikeRow(x, p) \notin mine
      /\ \A x, y : FollowRow(x, y) \notin mine
      /\ \A x : User(x) \notin mine
  BY Parts
<1>. HIDE DEF mine
<1>5. /\ e.user = u /\ e.pc = "uncountComments" /\ e.shared = t.shared \union mine
      /\ DOMAIN e.write = DOMAIN t.write \union DOMAIN f
      /\ \A i \in DOMAIN f : e.write[i] = f[i]
      /\ \A i \in DOMAIN t.write : i \notin DOMAIN f => e.write[i] = t.write[i]
  BY <1>1, <1>2 DEF Continues
<1>. HIDE DEF f, e, s
<1>6. DOMAIN f \subseteq Items
  BY <1>3, DeletionIs DEF f
<1>7. LeaveLocks(e, 1)
  BY <1>4, <1>5 DEF LeaveLocks
<1>8. LeavePosts(e, db, 1)
  <2>1. ASSUME NEW p \in Posts
        PROVE  /\ Post(p) \in DOMAIN f <=> Mine(db, u, p)
               /\ Post(p) \in DOMAIN f => f[Post(p)] = Used
               /\ PostTags(p) \in DOMAIN f <=> Mine(db, u, p)
               /\ PostTags(p) \in DOMAIN f => f[PostTags(p)] = {}
    BY <1>3, <1>4, DeletionIs, LeaveSees DEF f, Mine
  <2>. QED
    BY <1>5, <2>1 DEF Leaves, LeavePosts, Writes, Mine
<1>9. LeaveComments(e, db, 1)
  <2>1. ASSUME NEW c \in Comments
        PROVE  /\ ~Writes(t, Comment(c)) /\ ~Writes(t, CommentNote(c))
               /\ Comment(c) \in DOMAIN f <=>
                    db[Comment(c)] = "there" /\ Owner[On[c]] = u
               /\ Comment(c) \in DOMAIN f => f[Comment(c)] = Used
               /\ CommentNote(c) \in DOMAIN f <=> Comment(c) \in DOMAIN f
               /\ CommentNote(c) \in DOMAIN f => f[CommentNote(c)] = 0
    <3>1. ~Writes(t, Comment(c)) /\ ~Writes(t, CommentNote(c))
      BY DEF Leaves, LeaveComments
    <3>. QED
      BY <1>3, <1>4, <3>1, DeletionIs, LeaveSees, OnAssumption DEF f
  <2>. QED
    BY <1>5, <2>1 DEF LeaveComments, Writes
<1>10. LeaveLikes(e, db, 1)
  <2>1. ASSUME NEW x \in Users, NEW p \in Posts
        PROVE  /\ ~Writes(t, LikeRow(x, p)) /\ ~Writes(t, LikeNote(x, p))
               /\ LikeRow(x, p) \in DOMAIN f <=>
                    db[LikeRow(x, p)] = "there" /\ Owner[p] = u
               /\ LikeRow(x, p) \in DOMAIN f => f[LikeRow(x, p)] = Absent
               /\ LikeNote(x, p) \in DOMAIN f <=> Mine(db, u, p)
               /\ LikeNote(x, p) \in DOMAIN f => f[LikeNote(x, p)] = 0
    <3>1. ~Writes(t, LikeRow(x, p)) /\ ~Writes(t, LikeNote(x, p))
      BY DEF Leaves, LeaveLikes
    <3>. QED
      BY <1>3, <1>4, <3>1, DeletionIs, LeaveSees DEF f, Mine
  <2>. QED
    BY <1>5, <2>1 DEF LeaveLikes, Writes
<1>11. LeaveFollows(e, db, 1)
  <2>1. ASSUME NEW x \in Users, NEW y \in Users
        PROVE  FollowRow(x, y) \notin DOMAIN f /\ FollowNote(x, y) \notin DOMAIN f
    BY <1>3, <1>4, DeletionIs DEF f
  <2>. QED
    BY <1>5, <2>1 DEF Leaves, LeaveFollows, Writes
<1>12. LeaveUsers(e, 1)
  <2>1. \A x \in Users : User(x) \notin DOMAIN f
    BY <1>3, <1>4, DeletionIs DEF f
  <2>. QED
    BY <1>5, <2>1 DEF Leaves, LeaveUsers, Writes
<1>. QED
  BY <1>2, <1>3, <1>5, <1>6, <1>7, <1>8, <1>9, <1>10, <1>11, <1>12
  DEF Leaves, Lawful, s, e


LEMMA UncountedSteps ==
  ASSUME NEW d, NEW u, NEW p, d[Post(p)] \in PostRows
  PROVE  LET U(n) == Uncounted(d, u, p, n) IN
         /\ U(2) = [U(1) EXCEPT !.comments = Less(@, Cardinality(Said(d, u, p)))]
         /\ U(3) = U(2)
         /\ LikesIt(d, u, p) => U(4) = [U(3) EXCEPT !.likes = Less(@, 1)]
         /\ ~LikesIt(d, u, p) => U(4) = U(3)
         /\ U(5) = U(4) /\ U(6) = U(4) /\ U(7) = U(4) /\ U(8) = U(4)
<1>. DEFINE r == d[Post(p)]  k == Cardinality(Said(d, u, p))
            row(n, m) == [text |-> r.text, likes |-> n, comments |-> m]
<1>2. \A n : Uncounted(d, u, p, n) =
              row(IF n >= 4 /\ LikesIt(d, u, p) THEN Less(r.likes, 1) ELSE r.likes,
                  IF n >= 2 THEN Less(r.comments, k) ELSE r.comments)
  BY DEF Uncounted
<1>. HIDE DEF r, k
<1>3. /\ Uncounted(d, u, p, 1) = row(r.likes, r.comments)
      /\ Uncounted(d, u, p, 2) = row(r.likes, Less(r.comments, k))
      /\ Uncounted(d, u, p, 3) = row(r.likes, Less(r.comments, k))
      /\ \A n \in 4..8 :
           Uncounted(d, u, p, n) = row(IF LikesIt(d, u, p) THEN Less(r.likes, 1)
                                       ELSE r.likes, Less(r.comments, k))
  BY <1>2
<1>4. \A n, m, x : /\ [row(n, m) EXCEPT !.comments = x] = row(n, x)
                   /\ [row(n, m) EXCEPT !.likes = x] = row(x, m)
                   /\ row(n, m).likes = n /\ row(n, m).comments = m
  OBVIOUS
<1>. HIDE DEF row
<1>5. Uncounted(d, u, p, 2) = [Uncounted(d, u, p, 1) EXCEPT !.comments = Less(@, k)]
  BY <1>3, <1>4
<1>6. LikesIt(d, u, p) =>
        Uncounted(d, u, p, 4) = [Uncounted(d, u, p, 3) EXCEPT !.likes = Less(@, 1)]
  BY <1>3, <1>4
<1>. QED
  BY <1>3, <1>5, <1>6 DEF k

(* Statements that write rows of posts only. *)
LEMMA LeaveCounts ==
  ASSUME NEW t, NEW e, NEW d, NEW n \in {1, 3}, NEW m, m = n + 1, NEW s,
         Leaves(t, d, n),
         Continues(t, e, s), \A i \in DOMAIN s.write : i[1] = "post"
  PROVE  /\ LeaveComments(e, d, m) /\ LeaveLikes(e, d, m)
         /\ LeaveFollows(e, d, m) /\ LeaveUsers(e, m)
         /\ \A p \in Posts : /\ Writes(e, PostTags(p)) <=> Mine(d, t.user, p)
                             /\ Writes(e, PostTags(p)) => e.write[PostTags(p)] = {}
<1>1. /\ e.user = t.user
      /\ \A i : i[1] # "post" => (Writes(e, i) <=> Writes(t, i))
      /\ \A i : i[1] # "post" /\ Writes(t, i) => e.write[i] = t.write[i]
  BY DEF Continues, Writes
<1>2. LeaveComments(e, d, m)
  <2>1. \A c \in Comments :
          /\ Writes(e, Comment(c)) <=> Writes(t, Comment(c))
          /\ Writes(t, Comment(c)) => e.write[Comment(c)] = t.write[Comment(c)]
          /\ Writes(e, CommentNote(c)) <=> Writes(t, CommentNote(c))
          /\ Writes(t, CommentNote(c)) => e.write[CommentNote(c)] = t.write[CommentNote(c)]
    BY <1>1, Parts
  <2>. QED
    BY <1>1, <2>1 DEF Leaves, LeaveComments
<1>3. LeaveLikes(e, d, m)
  <2>1. \A x \in Users, p \in Posts :
          /\ Writes(e, LikeRow(x, p)) <=> Writes(t, LikeRow(x, p))
          /\ Writes(t, LikeRow(x, p)) => e.write[LikeRow(x, p)] = t.write[LikeRow(x, p)]
          /\ Writes(e, LikeNote(x, p)) <=> Writes(t, LikeNote(x, p))
          /\ Writes(t, LikeNote(x, p)) => e.write[LikeNote(x, p)] = t.write[LikeNote(x, p)]
    BY <1>1, Parts
  <2>. QED
    BY <1>1, <2>1 DEF Leaves, LeaveLikes
<1>4. LeaveFollows(e, d, m)
  <2>1. \A x, y \in Users : /\ Writes(e, FollowRow(x, y)) <=> Writes(t, FollowRow(x, y))
                            /\ Writes(e, FollowNote(x, y)) <=> Writes(t, FollowNote(x, y))
    BY <1>1, Parts
  <2>. QED
    BY <1>1, <2>1 DEF Leaves, LeaveFollows
<1>5. LeaveUsers(e, m)
  <2>1. \A x \in Users : Writes(e, User(x)) <=> Writes(t, User(x))
    BY <1>1, Parts
  <2>. QED
    BY <1>1, <2>1 DEF Leaves, LeaveUsers
<1>6. \A p \in Posts : /\ Writes(e, PostTags(p)) <=> Mine(d, t.user, p)
                       /\ Writes(e, PostTags(p)) => e.write[PostTags(p)] = {}
  BY <1>1, Parts DEF Leaves, LeavePosts
<1>. QED
  BY <1>2, <1>3, <1>4, <1>5, <1>6

LEMMA LeaveUncountsComments ==
  ASSUME IInv, NEW w \in Workers, Execute(w), tx[w].user \in Users,
         tx[w].pc = "uncountComments", Leaves(tx[w], db, 1)
  PROVE  Leaves(tx'[w], db, 2) /\ tx'[w].pc = "deleteComments" /\ Lawful(Statement(w))
<1>. DEFINE t == tx[w]  e == tx'[w]  u == tx[w].user  s == Statement(w)
            mine == CommentsOf(u)
            on(p) == {c \in Comments : On[c] = p /\ Comment(c) \in mine /\ Has(w, Comment(c))}
            f == Counting(w, {p \in Posts : on(p) # {}},
                          LAMBDA q : Replies(w, q, Less(Get(w, Post(q)).comments,
                                                        Cardinality(on(q)))))
<1>1. Continues(t, e, s) /\ s = UncountComments(w)
  BY Stepped DEF IInv, Statement
<1>2. s.shared = mine /\ s.write = f /\ s.next = "deleteComments"
  BY <1>1 DEF Does, UncountComments
<1>3. mine \subseteq Items /\ \A c \in Comments : Comment(c) \in mine <=> Author[c] = u
  BY Places, Parts DEF CommentsOf
<1>4. \A p \in Posts : on(p) = IF Owner[p] = u THEN {} ELSE Said(db, u, p)
  <2>1. \A c \in Comments : Has(w, Comment(c)) <=>
                              db[Comment(c)] = "there" /\ Owner[On[c]] # u
    BY LeaveSees DEF Leaves, LeaveComments
  <2>. QED
    BY <1>3, <2>1 DEF Said
<1>5. ASSUME NEW p \in Posts
      PROVE  /\ Post(p) \in DOMAIN f <=> Owner[p] # u /\ Said(db, u, p) # {}
             /\ Post(p) \in DOMAIN f => f[Post(p)] = Uncounted(db, u, p, 2)
  <2>1. Post(p) \in DOMAIN f <=> on(p) # {} /\ Has(w, Post(p))
    BY Parts DEF Counting
  <2>2. Said(db, u, p) # {} => ThereIn(db, Post(p))
    BY DEF Said, IInv, ForeignKeys
  <2>3. Post(p) \in DOMAIN f <=> Owner[p] # u /\ Said(db, u, p) # {}
    BY <1>4, <2>1, <2>2, LeaveSees
  <2>4. ASSUME Post(p) \in DOMAIN f PROVE f[Post(p)] = Uncounted(db, u, p, 2)
    <3>1. /\ Owner[p] # u /\ db[Post(p)] \in PostRows
          /\ Get(w, Post(p)) = Uncounted(db, u, p, 1) /\ on(p) = Said(db, u, p)
      BY <1>4, <2>2, <2>3, <2>4, LeaveSees
    <3>2. f[Post(p)] = Replies(w, p, Less(Get(w, Post(p)).comments, Cardinality(on(p))))
      BY <2>4, Parts DEF Counting
    <3>3. f[Post(p)] = [Uncounted(db, u, p, 1) EXCEPT
                          !.comments = Less(@, Cardinality(Said(db, u, p)))]
      BY <3>1, <3>2 DEF Replies
    <3>. QED
      BY <3>1, <3>3, UncountedSteps
  <2>. QED
    BY <2>3, <2>4
<1>6. \A i \in DOMAIN f : i \in Items /\ i[1] = "post"
  BY Places, Parts DEF Counting
<1>. HIDE DEF mine, f, e, s, on
<1>7. LeaveLocks(e, 2)
  BY <1>1, <1>2, <1>3 DEF Leaves, LeaveLocks, Continues
<1>8. /\ LeaveComments(e, db, 2) /\ LeaveLikes(e, db, 2)
      /\ LeaveFollows(e, db, 2) /\ LeaveUsers(e, 2)
      /\ \A p \in Posts : /\ Writes(e, PostTags(p)) <=> Mine(db, u, p)
                          /\ Writes(e, PostTags(p)) => e.write[PostTags(p)] = {}
  <2>1. \A i \in DOMAIN s.write : i[1] = "post"
    BY <1>2, <1>6
  <2>2. 1 + 1 = 2
    OBVIOUS
  <2>. QED
    BY <1>1, <2>1, <2>2, LeaveCounts
<1>9. LeavePosts(e, db, 2)
  <2>1. \A p \in Posts :
          /\ Writes(e, Post(p)) <=> Writes(t, Post(p)) \/ Post(p) \in DOMAIN f
          /\ Post(p) \in DOMAIN f => e.write[Post(p)] = f[Post(p)]
          /\ Writes(t, Post(p)) /\ Post(p) \notin DOMAIN f =>
               e.write[Post(p)] = t.write[Post(p)]
    BY <1>1, <1>2 DEF Continues, Writes
  <2>2. \A p \in Posts : /\ Writes(t, Post(p)) <=> Mine(db, u, p)
                         /\ Writes(t, Post(p)) => t.write[Post(p)] = Used
    BY DEF Leaves, LeavePosts, Mine
  <2>3. e.user = u
    BY <1>1 DEF Continues
  <2>. QED
    BY <1>5, <1>8, <2>1, <2>2, <2>3 DEF LeavePosts, Mine
<1>10. e.pc = "deleteComments"
  BY <1>1, <1>2 DEF Continues
<1>. QED
  BY <1>2, <1>3, <1>6, <1>7, <1>8, <1>9, <1>10 DEF Leaves, Lawful, s, e

LEMMA LeaveUncountsLikes ==
  ASSUME IInv, NEW w \in Workers, Execute(w), tx[w].user \in Users,
         tx[w].pc = "uncountLikes", Leaves(tx[w], db, 3)
  PROVE  Leaves(tx'[w], db, 4) /\ tx'[w].pc = "deleteLikes" /\ Lawful(Statement(w))
<1>. DEFINE t == tx[w]  e == tx'[w]  u == tx[w].user  s == Statement(w)
            mine == LikesOf(u)
            f == Counting(w, {p \in Posts : Has(w, LikeRow(u, p))},
                          LAMBDA q : Likes(w, q, Less(Get(w, Post(q)).likes, 1)))
<1>1. Continues(t, e, s) /\ s = UncountLikes(w)
  BY Stepped DEF IInv, Statement
<1>2. s.shared = mine /\ s.write = f /\ s.next = "deleteLikes"
  BY <1>1 DEF Does, UncountLikes
<1>3. mine \subseteq Items /\ \A p \in Posts : LikeRow(u, p) \in mine
  BY Places DEF LikesOf
<1>4. ASSUME NEW p \in Posts
      PROVE  /\ Post(p) \in DOMAIN f <=> Owner[p] # u /\ LikesIt(db, u, p)
             /\ Post(p) \in DOMAIN f => f[Post(p)] = Uncounted(db, u, p, 4)
  <2>1. Post(p) \in DOMAIN f <=> Has(w, LikeRow(u, p)) /\ Has(w, Post(p))
    BY Parts DEF Counting
  <2>2. LikesIt(db, u, p) => ThereIn(db, Post(p))
    BY DEF LikesIt, IInv, ForeignKeys
  <2>3. Has(w, LikeRow(u, p)) <=> LikesIt(db, u, p) /\ Owner[p] # u
    BY LeaveSees DEF LikesIt, Leaves, LeaveLikes
  <2>4. Post(p) \in DOMAIN f <=> Owner[p] # u /\ LikesIt(db, u, p)
    BY <2>1, <2>2, <2>3, LeaveSees
  <2>5. ASSUME Post(p) \in DOMAIN f PROVE f[Post(p)] = Uncounted(db, u, p, 4)
    <3>1. /\ Owner[p] # u /\ db[Post(p)] \in PostRows /\ LikesIt(db, u, p)
          /\ Get(w, Post(p)) = Uncounted(db, u, p, 3)
      BY <2>2, <2>4, <2>5, LeaveSees
    <3>2. f[Post(p)] = Likes(w, p, Less(Get(w, Post(p)).likes, 1))
      BY <2>5, Parts DEF Counting
    <3>3. f[Post(p)] = [Uncounted(db, u, p, 3) EXCEPT !.likes = Less(@, 1)]
      BY <3>1, <3>2 DEF Likes
    <3>. QED
      BY <3>1, <3>3, UncountedSteps
  <2>. QED
    BY <2>4, <2>5
<1>5. \A i \in DOMAIN f : i \in Items /\ i[1] = "post"
  BY Places, Parts DEF Counting
<1>. HIDE DEF mine, f, e, s
<1>6. LeaveLocks(e, 4)
  BY <1>1, <1>2, <1>3 DEF Leaves, LeaveLocks, Continues
<1>7. /\ LeaveComments(e, db, 4) /\ LeaveLikes(e, db, 4)
      /\ LeaveFollows(e, db, 4) /\ LeaveUsers(e, 4)
      /\ \A p \in Posts : /\ Writes(e, PostTags(p)) <=> Mine(db, u, p)
                          /\ Writes(e, PostTags(p)) => e.write[PostTags(p)] = {}
  <2>1. \A i \in DOMAIN s.write : i[1] = "post"
    BY <1>2, <1>5
  <2>2. 3 + 1 = 4
    OBVIOUS
  <2>. QED
    BY <1>1, <2>1, <2>2, LeaveCounts
<1>8. LeavePosts(e, db, 4)
  <2>1. \A p \in Posts :
          /\ Writes(e, Post(p)) <=> Writes(t, Post(p)) \/ Post(p) \in DOMAIN f
          /\ Post(p) \in DOMAIN f => e.write[Post(p)] = f[Post(p)]
          /\ Writes(t, Post(p)) /\ Post(p) \notin DOMAIN f =>
               e.write[Post(p)] = t.write[Post(p)]
    BY <1>1, <1>2 DEF Continues, Writes
  <2>2. \A p \in Posts :
          /\ Writes(t, Post(p)) <=>
               Mine(db, u, p) \/ (Owner[p] # u /\ Said(db, u, p) # {})
          /\ Writes(t, Post(p)) =>
               t.write[Post(p)] = IF Owner[p] = u THEN Used ELSE Uncounted(db, u, p, 3)
    BY DEF Leaves, LeavePosts
  <2>3. e.user = u
    BY <1>1 DEF Continues
  <2>4. \A p \in Posts : Said(db, u, p) # {} /\ ~LikesIt(db, u, p) =>
                           Uncounted(db, u, p, 3) = Uncounted(db, u, p, 4)
    BY DEF Uncounted
  <2>. QED
    BY <1>4, <1>7, <2>1, <2>2, <2>3, <2>4 DEF LeavePosts, Mine
<1>9. e.pc = "deleteLikes"
  BY <1>1, <1>2 DEF Continues
<1>. QED
  BY <1>2, <1>3, <1>5, <1>6, <1>7, <1>8, <1>9 DEF Leaves, Lawful, s, e

(* What a statement does not write stays as it was. *)
Same(t, e, i) ==
  /\ Writes(e, i) <=> Writes(t, i)
  /\ Writes(t, i) => e.write[i] = t.write[i]

LEMMA SameIs ==
  ASSUME NEW t, NEW e, NEW s, Continues(t, e, s)
  PROVE  /\ e.user = t.user
         /\ \A i : i \notin DOMAIN s.write => Same(t, e, i)
         /\ \A i \in DOMAIN s.write : Writes(e, i) /\ e.write[i] = s.write[i]
BY DEF Continues, Same, Writes

LEMMA LeaveSame ==
  ASSUME NEW t, NEW e, NEW d, NEW n, e.user = t.user, Leaves(t, d, n)
  PROVE  /\ (\A p \in Posts : Same(t, e, Post(p)) /\ Same(t, e, PostTags(p))) =>
              LeavePosts(e, d, n)
         /\ (\A c \in Comments : Same(t, e, Comment(c)) /\ Same(t, e, CommentNote(c))) =>
              LeaveComments(e, d, n)
         /\ (\A x \in Users, p \in Posts :
               Same(t, e, LikeRow(x, p)) /\ Same(t, e, LikeNote(x, p))) =>
              LeaveLikes(e, d, n)
         /\ (\A x, y \in Users :
               Same(t, e, FollowRow(x, y)) /\ Same(t, e, FollowNote(x, y))) =>
              LeaveFollows(e, d, n)
         /\ (\A x \in Users : Same(t, e, User(x))) => LeaveUsers(e, n)
<1>1. (\A p \in Posts : Same(t, e, Post(p)) /\ Same(t, e, PostTags(p))) =>
        LeavePosts(e, d, n)
  BY DEF Leaves, LeavePosts, Same
<1>2. (\A c \in Comments : Same(t, e, Comment(c)) /\ Same(t, e, CommentNote(c))) =>
        LeaveComments(e, d, n)
  BY DEF Leaves, LeaveComments, Same
<1>3. (\A x \in Users, p \in Posts :
         Same(t, e, LikeRow(x, p)) /\ Same(t, e, LikeNote(x, p))) => LeaveLikes(e, d, n)
  BY DEF Leaves, LeaveLikes, Same
<1>4. (\A x, y \in Users :
         Same(t, e, FollowRow(x, y)) /\ Same(t, e, FollowNote(x, y))) =>
        LeaveFollows(e, d, n)
  BY DEF Leaves, LeaveFollows, Same
<1>5. (\A x \in Users : Same(t, e, User(x))) => LeaveUsers(e, n)
  BY DEF Leaves, LeaveUsers, Same
<1>. QED
  BY <1>1, <1>2, <1>3, <1>4, <1>5

LEMMA LeaveDeletesComments ==
  ASSUME IInv, NEW w \in Workers, Execute(w), tx[w].user \in Users,
         tx[w].pc = "deleteComments", Leaves(tx[w], db, 2)
  PROVE  Leaves(tx'[w], db, 3) /\ tx'[w].pc = "uncountLikes" /\ Lawful(Statement(w))
<1>. DEFINE t == tx[w]  e == tx'[w]  u == tx[w].user  s == Statement(w)
            mine == CommentsOf(u)
            f == Deletion(w, mine)
<1>1. Continues(t, e, s) /\ s = Does(mine, f, "uncountLikes")
  BY Stepped DEF IInv, Statement, DeleteComments
<1>2. s.shared = mine /\ s.write = f /\ s.next = "uncountLikes"
  BY <1>1 DEF Does
<1>3. mine \subseteq Rows /\ mine \subseteq Items
  BY Places DEF Rows, CommentsOf
<1>4. /\ \A c \in Comments : Comment(c) \in mine <=> Author[c] = u
      /\ \A p : Post(p) \notin mine
      /\ \A x, p : LikeRow(x, p) \notin mine
      /\ \A x, y : FollowRow(x, y) \notin mine
      /\ \A x : User(x) \notin mine
  BY Parts DEF CommentsOf
<1>. HIDE DEF mine
<1>5. /\ \A p \in Posts : Post(p) \notin DOMAIN f /\ PostTags(p) \notin DOMAIN f
      /\ \A x \in Users, p \in Posts :
           LikeRow(x, p) \notin DOMAIN f /\ LikeNote(x, p) \notin DOMAIN f
      /\ \A x, y \in Users :
           FollowRow(x, y) \notin DOMAIN f /\ FollowNote(x, y) \notin DOMAIN f
      /\ \A x \in Users : User(x) \notin DOMAIN f
      /\ DOMAIN f \subseteq Items
  BY <1>3, <1>4, DeletionIs
<1>6. \A c \in Comments :
        /\ Comment(c) \in DOMAIN f <=>
             Author[c] = u /\ db[Comment(c)] = "there" /\ ~Writes(t, Comment(c))
        /\ Comment(c) \in DOMAIN f => f[Comment(c)] = Used
        /\ CommentNote(c) \in DOMAIN f <=> Comment(c) \in DOMAIN f
        /\ CommentNote(c) \in DOMAIN f => f[CommentNote(c)] = 0
  BY <1>3, <1>4, DeletionIs, LeaveSees, OnAssumption
<1>. HIDE DEF f, e, s
<1>7. LeaveLocks(e, 3)
  BY <1>1, <1>2, <1>4 DEF Leaves, LeaveLocks, Continues
<1>8. /\ e.user = u
      /\ LeavePosts(e, db, 2) /\ LeaveLikes(e, db, 2) /\ LeaveFollows(e, db, 2)
      /\ LeaveUsers(e, 2)
  BY <1>1, <1>2, <1>5, SameIs, LeaveSame
<1>9. LeavePosts(e, db, 3) /\ LeaveLikes(e, db, 3) /\ LeaveFollows(e, db, 3)
      /\ LeaveUsers(e, 3)
  BY <1>8 DEF LeavePosts, LeaveLikes, LeaveFollows, LeaveUsers, Uncounted
<1>10. LeaveComments(e, db, 3)
  <2>1. \A c \in Comments :
          /\ Writes(t, Comment(c)) <=> db[Comment(c)] = "there" /\ Owner[On[c]] = u
          /\ Writes(t, Comment(c)) => t.write[Comment(c)] = Used
          /\ Writes(t, CommentNote(c)) <=> Writes(t, Comment(c))
          /\ Writes(t, CommentNote(c)) => t.write[CommentNote(c)] = 0
    BY DEF Leaves, LeaveComments
  <2>2. \A i : /\ i \notin DOMAIN f => Same(t, e, i)
               /\ i \in DOMAIN f => Writes(e, i) /\ e.write[i] = f[i]
    BY <1>1, <1>2, SameIs
  <2>. QED
    BY <1>6, <1>8, <2>1, <2>2 DEF LeaveComments, Same
<1>11. e.pc = "uncountLikes"
  BY <1>1, <1>2 DEF Continues
<1>. QED
  BY <1>2, <1>3, <1>5, <1>7, <1>9, <1>10, <1>11 DEF Leaves, Lawful, s, e

LEMMA LeaveDeletesLikes ==
  ASSUME IInv, NEW w \in Workers, Execute(w), tx[w].user \in Users,
         tx[w].pc = "deleteLikes", Leaves(tx[w], db, 4)
  PROVE  Leaves(tx'[w], db, 5) /\ tx'[w].pc = "deleteFollows" /\ Lawful(Statement(w))
<1>. DEFINE t == tx[w]  e == tx'[w]  u == tx[w].user  s == Statement(w)
            mine == LikesOf(u)
            f == Deletion(w, mine)
<1>1. Continues(t, e, s) /\ s = Does(mine, f, "deleteFollows")
  BY Stepped DEF IInv, Statement, DeleteLikes
<1>2. s.shared = mine /\ s.write = f /\ s.next = "deleteFollows"
  BY <1>1 DEF Does
<1>3. mine \subseteq Rows /\ mine \subseteq Items
  BY Places DEF Rows, LikesOf
<1>4. /\ \A x, p : p \in Posts => (LikeRow(x, p) \in mine <=> x = u)
      /\ \A p : Post(p) \notin mine
      /\ \A c : Comment(c) \notin mine
      /\ \A x, y : FollowRow(x, y) \notin mine
      /\ \A x : User(x) \notin mine
  BY Parts DEF LikesOf
<1>. HIDE DEF mine
<1>5. /\ \A p \in Posts : Post(p) \notin DOMAIN f /\ PostTags(p) \notin DOMAIN f
      /\ \A x, y \in Users :
           FollowRow(x, y) \notin DOMAIN f /\ FollowNote(x, y) \notin DOMAIN f
      /\ \A x \in Users : User(x) \notin DOMAIN f
      /\ DOMAIN f \subseteq Items
  BY <1>3, <1>4, DeletionIs
<1>6. \A c \in Comments : Comment(c) \notin DOMAIN f /\ CommentNote(c) \notin DOMAIN f
  BY <1>3, <1>4, DeletionIs, OnAssumption
<1>7. \A x \in Users, p \in Posts :
        /\ LikeRow(x, p) \in DOMAIN f <=>
             x = u /\ db[LikeRow(x, p)] = "there" /\ ~Writes(t, LikeRow(x, p))
        /\ LikeRow(x, p) \in DOMAIN f => f[LikeRow(x, p)] = Absent
        /\ LikeNote(x, p) \notin DOMAIN f
  BY <1>3, <1>4, <1>5, DeletionIs, LeaveSees
<1>. HIDE DEF f, e, s
<1>8. LeaveLocks(e, 5)
  BY <1>1, <1>2 DEF Leaves, LeaveLocks, Continues
<1>9. /\ e.user = u
      /\ LeavePosts(e, db, 4) /\ LeaveComments(e, db, 4) /\ LeaveFollows(e, db, 4)
      /\ LeaveUsers(e, 4)
  BY <1>1, <1>2, <1>5, <1>6, SameIs, LeaveSame
<1>10. LeavePosts(e, db, 5) /\ LeaveComments(e, db, 5) /\ LeaveFollows(e, db, 5)
       /\ LeaveUsers(e, 5)
  BY <1>9 DEF LeavePosts, LeaveComments, LeaveFollows, LeaveUsers, Uncounted
<1>11. LeaveLikes(e, db, 5)
  <2>1. \A x \in Users, p \in Posts :
          /\ Writes(t, LikeRow(x, p)) <=> db[LikeRow(x, p)] = "there" /\ Owner[p] = u
          /\ Writes(t, LikeRow(x, p)) => t.write[LikeRow(x, p)] = Absent
          /\ Writes(t, LikeNote(x, p)) <=> Mine(db, u, p)
          /\ Writes(t, LikeNote(x, p)) => t.write[LikeNote(x, p)] = 0
    BY DEF Leaves, LeaveLikes
  <2>2. \A i : /\ i \notin DOMAIN f => Same(t, e, i)
               /\ i \in DOMAIN f => Writes(e, i) /\ e.write[i] = f[i]
    BY <1>1, <1>2, SameIs
  <2>. QED
    BY <1>7, <1>9, <2>1, <2>2 DEF LeaveLikes, Same
<1>12. e.pc = "deleteFollows"
  BY <1>1, <1>2 DEF Continues
<1>. QED
  BY <1>2, <1>3, <1>5, <1>8, <1>10, <1>11, <1>12 DEF Leaves, Lawful, s, e

LEMMA LeaveDeletesFollows ==
  ASSUME IInv, NEW w \in Workers, Execute(w), tx[w].user \in Users,
         tx[w].pc = "deleteFollows", Leaves(tx[w], db, 5)
  PROVE  Leaves(tx'[w], db, 6) /\ tx'[w].pc = "deleteNotes" /\ Lawful(Statement(w))
<1>. DEFINE t == tx[w]  e == tx'[w]  u == tx[w].user  s == Statement(w)
            mine == FollowsOf(u)
            f == Deletion(w, mine)
<1>1. Continues(t, e, s) /\ s = Does(mine, f, "deleteNotes")
  BY Stepped DEF IInv, Statement, DeleteFollows
<1>2. s.shared = mine /\ s.write = f /\ s.next = "deleteNotes"
  BY <1>1 DEF Does
<1>3. mine \subseteq Rows /\ mine \subseteq Items
  BY Places DEF Rows, FollowsOf
<1>4. /\ \A x, y \in Users : FollowRow(x, y) \in mine <=> u \in {x, y}
      /\ \A p : Post(p) \notin mine
      /\ \A c : Comment(c) \notin mine
      /\ \A x, p : LikeRow(x, p) \notin mine
      /\ \A x : User(x) \notin mine
  BY Parts DEF FollowsOf
<1>. HIDE DEF mine
<1>5. /\ \A p \in Posts : Post(p) \notin DOMAIN f /\ PostTags(p) \notin DOMAIN f
      /\ \A x \in Users : User(x) \notin DOMAIN f
      /\ DOMAIN f \subseteq Items
  BY <1>3, <1>4, DeletionIs
<1>6. /\ \A c \in Comments : Comment(c) \notin DOMAIN f /\ CommentNote(c) \notin DOMAIN f
      /\ \A x \in Users, p \in Posts :
           LikeRow(x, p) \notin DOMAIN f /\ LikeNote(x, p) \notin DOMAIN f
  BY <1>3, <1>4, <1>5, DeletionIs, OnAssumption
<1>7. \A x, y \in Users :
        /\ FollowRow(x, y) \in DOMAIN f <=>
             u \in {x, y} /\ db[FollowRow(x, y)] = "there" /\ ~Writes(t, FollowRow(x, y))
        /\ FollowRow(x, y) \in DOMAIN f => f[FollowRow(x, y)] = Absent
        /\ FollowNote(x, y) \notin DOMAIN f
  BY <1>3, <1>4, DeletionIs, LeaveSees
<1>. HIDE DEF f, e, s
<1>8. LeaveLocks(e, 6)
  BY <1>1, <1>2, <1>4 DEF Leaves, LeaveLocks, Continues
<1>9. /\ e.user = u
      /\ LeavePosts(e, db, 5) /\ LeaveComments(e, db, 5) /\ LeaveLikes(e, db, 5)
      /\ LeaveUsers(e, 5)
  BY <1>1, <1>2, <1>5, <1>6, SameIs, LeaveSame
<1>10. LeavePosts(e, db, 6) /\ LeaveComments(e, db, 6) /\ LeaveLikes(e, db, 6)
       /\ LeaveUsers(e, 6)
  BY <1>9 DEF LeavePosts, LeaveComments, LeaveLikes, LeaveUsers, Uncounted
<1>11. LeaveFollows(e, db, 6)
  <2>1. \A x, y \in Users : ~Writes(t, FollowRow(x, y)) /\ ~Writes(t, FollowNote(x, y))
    BY DEF Leaves, LeaveFollows
  <2>2. \A i : /\ i \notin DOMAIN f => Same(t, e, i)
               /\ i \in DOMAIN f => Writes(e, i) /\ e.write[i] = f[i]
    BY <1>1, <1>2, SameIs
  <2>. QED
    BY <1>7, <1>9, <2>1, <2>2 DEF LeaveFollows, Same
<1>12. e.pc = "deleteNotes"
  BY <1>1, <1>2 DEF Continues
<1>. QED
  BY <1>2, <1>3, <1>5, <1>8, <1>10, <1>11, <1>12 DEF Leaves, Lawful, s, e

LEMMA LeaveDeletesNotes ==
  ASSUME IInv, NEW w \in Workers, Execute(w), tx[w].user \in Users,
         tx[w].pc = "deleteNotes", Leaves(tx[w], db, 6)
  PROVE  Leaves(tx'[w], db, 7) /\ tx'[w].pc = "softDelete" /\ Lawful(Statement(w))
<1>. DEFINE t == tx[w]  e == tx'[w]  u == tx[w].user  s == Statement(w)
            mine == NotesOf(u)
            f == [i \in mine |-> 0]
<1>1. Continues(t, e, s) /\ s = Does({}, f, "softDelete")
  BY Stepped DEF IInv, Statement, DeleteNotes
<1>2. s.shared = {} /\ s.write = f /\ s.next = "softDelete"
  BY <1>1 DEF Does
<1>3. mine \subseteq Items
  BY Places DEF NotesOf
<1>4. /\ \A p : Post(p) \notin mine /\ PostTags(p) \notin mine
      /\ \A c : Comment(c) \notin mine
      /\ \A x, p : LikeRow(x, p) \notin mine
      /\ \A x, y : FollowRow(x, y) \notin mine
      /\ \A x : User(x) \notin mine
  BY Parts DEF NotesOf
<1>5. \A c \in Comments : CommentNote(c) \in mine <=> u \in {Author[c], Owner[On[c]]}
  BY Parts DEF NotesOf
<1>6. \A x \in Users, p \in Posts : LikeNote(x, p) \in mine <=> u \in {x, Owner[p]}
  BY Parts DEF NotesOf
<1>7. \A x, y \in Users : FollowNote(x, y) \in mine <=> u \in {x, y}
  BY Parts DEF NotesOf
<1>8. DOMAIN f = mine /\ \A i \in mine : f[i] = 0
  OBVIOUS
<1>. HIDE DEF f, e, s, mine
<1>9. /\ e.user = u
      /\ \A i : /\ i \notin mine => Same(t, e, i)
                /\ i \in mine => Writes(e, i) /\ e.write[i] = 0
  BY <1>1, <1>2, <1>8, SameIs
<1>10. LeaveLocks(e, 7)
  BY <1>1, <1>2 DEF Leaves, LeaveLocks, Continues
<1>11. LeavePosts(e, db, 6) /\ LeaveUsers(e, 6)
  BY <1>4, <1>9, LeaveSame
<1>12. LeavePosts(e, db, 7) /\ LeaveUsers(e, 7)
  BY <1>11 DEF LeavePosts, LeaveUsers, Uncounted
<1>13. LeaveComments(e, db, 7)
  BY <1>4, <1>5, <1>9 DEF Leaves, LeaveComments, Same
<1>14. LeaveLikes(e, db, 7)
  BY <1>4, <1>6, <1>9 DEF Leaves, LeaveLikes, Same, Mine
<1>15. LeaveFollows(e, db, 7)
  BY <1>4, <1>7, <1>9 DEF Leaves, LeaveFollows, Same
<1>16. e.pc = "softDelete"
  BY <1>1, <1>2 DEF Continues
<1>. QED
  BY <1>2, <1>3, <1>8, <1>10, <1>12, <1>13, <1>14, <1>15, <1>16
  DEF Leaves, Lawful, s, e

LEMMA LeaveEnds ==
  ASSUME IInv, NEW w \in Workers, Execute(w), tx[w].user \in Users,
         tx[w].pc = "softDelete", Leaves(tx[w], db, 7)
  PROVE  Leaves(tx'[w], db, 8) /\ tx'[w].pc = "commit" /\ Lawful(Statement(w))
<1>. DEFINE t == tx[w]  e == tx'[w]  u == tx[w].user  s == Statement(w)
<1>1. Continues(t, e, s) /\ s = Does({}, Put(User(u), "left"), "commit")
  BY Stepped DEF IInv, Statement, SoftDelete
<1>2. /\ s.shared = {} /\ s.next = "commit"
      /\ DOMAIN s.write = {User(u)} /\ s.write[User(u)] = "left"
  BY <1>1 DEF Does, Put
<1>3. User(u) \in Items
  BY Places
<1>4. /\ \A p : Post(p) # User(u) /\ PostTags(p) # User(u)
      /\ \A c : Comment(c) # User(u) /\ CommentNote(c) # User(u)
      /\ \A x, p : LikeRow(x, p) # User(u) /\ LikeNote(x, p) # User(u)
      /\ \A x, y : FollowRow(x, y) # User(u) /\ FollowNote(x, y) # User(u)
      /\ \A x : User(x) = User(u) <=> x = u
  BY Parts
<1>. HIDE DEF e, s
<1>5. /\ e.user = u
      /\ \A i : i # User(u) => Same(t, e, i)
      /\ Writes(e, User(u)) /\ e.write[User(u)] = "left"
  BY <1>1, <1>2, SameIs
<1>6. LeaveLocks(e, 8)
  BY <1>1, <1>2 DEF Leaves, LeaveLocks, Continues
<1>7. LeavePosts(e, db, 7) /\ LeaveComments(e, db, 7) /\ LeaveLikes(e, db, 7)
      /\ LeaveFollows(e, db, 7)
  BY <1>4, <1>5, LeaveSame
<1>8. LeavePosts(e, db, 8) /\ LeaveComments(e, db, 8) /\ LeaveLikes(e, db, 8)
      /\ LeaveFollows(e, db, 8)
  BY <1>7 DEF LeavePosts, LeaveComments, LeaveLikes, LeaveFollows, Uncounted
<1>9. LeaveUsers(e, 8)
  BY <1>4, <1>5 DEF Leaves, LeaveUsers, Same
<1>10. e.pc = "commit"
  BY <1>1, <1>2 DEF Continues
<1>. QED
  BY <1>2, <1>3, <1>6, <1>8, <1>9, <1>10 DEF Leaves, Lawful, s, e

LEMMA LeaveStatements ==
  ASSUME IInv, NEW w \in Workers, Execute(w), tx[w].kind = "leave"
  PROVE  LeaveAt(tx'[w], db) /\ Lawful(Statement(w))
<1>. DEFINE t == tx[w]  e == tx'[w]
<1>1. LeaveAt(t, db)
  BY DEF IInv, Doing
<1>2. t.pc \in {"deletePosts", "uncountComments", "deleteComments", "uncountLikes",
                "deleteLikes", "deleteFollows", "deleteNotes", "softDelete"}
  BY <1>1 DEF LeaveAt, Leaving, Execute, Running, Outside, Closing
<1>3. t.user \in Users /\ Leaves(t, db, Done(t))
  BY <1>1, <1>2 DEF LeaveAt, Leaving
<1>4. e.user = t.user
  BY Stepped, SameIs DEF IInv
<1>5. t.pc = "deletePosts" =>
        Leaves(e, db, 1) /\ e.pc = "uncountComments" /\ Lawful(Statement(w))
  BY <1>3, LeaveBegins DEF Done
<1>6. t.pc = "uncountComments" =>
        Leaves(e, db, 2) /\ e.pc = "deleteComments" /\ Lawful(Statement(w))
  BY <1>3, LeaveUncountsComments DEF Done
<1>7. t.pc = "deleteComments" =>
        Leaves(e, db, 3) /\ e.pc = "uncountLikes" /\ Lawful(Statement(w))
  BY <1>3, LeaveDeletesComments DEF Done
<1>8. t.pc = "uncountLikes" =>
        Leaves(e, db, 4) /\ e.pc = "deleteLikes" /\ Lawful(Statement(w))
  BY <1>3, LeaveUncountsLikes DEF Done
<1>9. t.pc = "deleteLikes" =>
        Leaves(e, db, 5) /\ e.pc = "deleteFollows" /\ Lawful(Statement(w))
  BY <1>3, LeaveDeletesLikes DEF Done
<1>10. t.pc = "deleteFollows" =>
         Leaves(e, db, 6) /\ e.pc = "deleteNotes" /\ Lawful(Statement(w))
  BY <1>3, LeaveDeletesFollows DEF Done
<1>11. t.pc = "deleteNotes" =>
         Leaves(e, db, 7) /\ e.pc = "softDelete" /\ Lawful(Statement(w))
  BY <1>3, LeaveDeletesNotes DEF Done
<1>12. t.pc = "softDelete" =>
         Leaves(e, db, 8) /\ e.pc = "commit" /\ Lawful(Statement(w))
  BY <1>3, LeaveEnds DEF Done
<1>13. Leaves(e, db, Done(e)) /\ e.pc \in Leaving /\ Lawful(Statement(w))
  BY <1>2, <1>5, <1>6, <1>7, <1>8, <1>9, <1>10, <1>11, <1>12 DEF Done, Leaving
<1>. QED
  BY <1>3, <1>4, <1>13 DEF LeaveAt, Leaving

LEMMA StatementsDo ==
  ASSUME IInv, NEW w \in Workers, Execute(w)
  PROVE  Doing(tx'[w], db) /\ Lawful(Statement(w))
<1>1. tx'[w].kind = tx[w].kind
  BY Stepped DEF IInv, Continues
<1>2. tx[w].kind # "none"
  BY DEF IInv, Doing, IdleAt, Execute, Running, Outside
<1>3. tx[w].kind \in {"like", "unlike", "comment", "uncomment", "follow", "unfollow",
                      "publish", "edit", "deletePost", "leave"}
  BY <1>2 DEF IInv, Doing
<1>. QED
  BY <1>1, <1>3, LikeStatements, UnlikeStatements, CommentStatements,
     UncommentStatements, FollowStatements, UnfollowStatements, PublishStatements,
     EditStatements, DeletePostStatements, LeaveStatements DEF Doing
=============================================================================
