-------------------------- MODULE Transactions_proofs --------------------------
(***************************************************************************)
(* Proofs about Transactions: every commit is one step of Reactions, and   *)
(* so what is proved of Reactions holds of the committed rows, for any     *)
(* number of requests.                                                     *)
(*                                                                         *)
(* What a commit makes of the rows is said by Effect, one operation after  *)
(* the other; it keeps the rows sound, disturbs no transaction that goes   *)
(* on (Discreet), and is the action of Reactions with the same name.       *)
(***************************************************************************)
EXTENDS Statements_proofs

RP == INSTANCE Reactions_proofs WITH
  post <- PostView, text <- TextView, tags <- TagView, comment <- CommentView,
  liked <- LikeView, follows <- FollowView,
  likeCount <- LikeCountView, commentCount <- CommentCountView,
  likeNotes <- LikeNoteView, commentNotes <- CommentNoteView,
  followNotes <- FollowNoteView, left <- LeftView

-----------------------------------------------------------------------------
(* Steps that commit nothing.                                               *)

(* A request w goes on as r, next to the others as they are. *)
LEMMA Replaced ==
  ASSUME TxOK, NEW w \in Workers, NEW r, Request(r), tx' = [tx EXCEPT ![w] = r]
  PROVE  TxOK' /\ tx'[w] = r /\ \A v \in Workers \ {w} : tx'[v] = tx[v]
<1>1. tx'[w] = r /\ \A v \in Workers \ {w} : tx'[v] = tx[v]
  BY DEF TxOK
<1>2. tx' = [v \in Workers |-> tx'[v]] /\ \A v \in Workers : Request(tx'[v])
  BY <1>1 DEF TxOK
<1>. QED
  BY <1>1, <1>2 DEF TxOK, Request

LEMMA RequestIs ==
  ASSUME TxOK, NEW w \in Workers
  PROVE  Request(tx[w])
BY DEF TxOK, Request

LEMMA NoTxIs == Request(NoTx) /\ IdleAt(NoTx) /\ NoTx.kind = "none" /\ NoTx.shared = {}
                /\ NoTx.write = <<>>
<1>1. NoTx.write = <<>> /\ NoTx.shared = {} /\ NoTx.pc = "idle" /\ NoTx.kind = "none"
  BY DEF NoTx
<1>2. DOMAIN NoTx.write = {}
  BY <1>1, NoWrites
<1>. QED
  BY <1>1, <1>2 DEF Request, Fields, IdleAt, NoTx

LEMMA GoesOn ==
  ASSUME IInv, NEW w \in Workers, NEW r, Request(r), tx' = [tx EXCEPT ![w] = r],
         UNCHANGED db, Doing(r, db), New(r, db),
         \A v \in Workers \ {w} :
           /\ DOMAIN tx[v].write \intersect (r.shared \union DOMAIN r.write) = {}
           /\ DOMAIN r.write \intersect tx[v].shared = {}
           /\ tx[v].kind = r.kind /\ r.kind \in {"comment", "publish"} => tx[v].on # r.on
  PROVE  IInv'
<1>1. TxOK' /\ tx'[w] = r /\ \A v \in Workers \ {w} : tx'[v] = tx[v]
  BY Replaced DEF IInv
<1>2. Exclusive'
  BY <1>1 DEF IInv, Exclusive
<1>3. Fresh'
  BY <1>1 DEF IInv, Fresh, New
<1>4. \A v \in Workers : Doing(tx'[v], db)
  BY <1>1 DEF IInv
<1>5. DbOK(db') /\ ForeignKeys(db') /\ NotesFit(db')
  BY DEF IInv
<1>. QED
  BY <1>1, <1>2, <1>3, <1>4, <1>5 DEF IInv

LEMMA ExecuteStep ==
  ASSUME IInv, NEW w \in Workers, Execute(w)
  PROVE  IInv'
<1>. DEFINE t == tx[w]  e == tx'[w]  s == Statement(w)
<1>1. Doing(e, db) /\ Lawful(s)
  BY StatementsDo
<1>2. Continues(t, e, s) /\ ~Blocked(w, s) /\ db' = db /\ tx' = [tx EXCEPT ![w] = e]
  BY Stepped, Executes DEF IInv
<1>3. e = [t EXCEPT !.shared = e.shared, !.write = e.write, !.pc = s.next]
  BY Executes DEF IInv
<1>. HIDE DEF e, s
<1>5. Request(e)
  <2>1. Request(t)
    BY RequestIs DEF IInv
  <2>2. e.shared \subseteq Items /\ DOMAIN e.write \subseteq Items
    BY <1>1, <1>2, <2>1 DEF Continues, Lawful, Request
  <2>. QED
    BY <1>3, <2>1, <2>2 DEF Request, Fields
<1>6. New(e, db)
  BY <1>2 DEF Continues, New, IInv, Fresh
<1>7. \A v \in Workers \ {w} :
        /\ DOMAIN tx[v].write \intersect (e.shared \union DOMAIN e.write) = {}
        /\ DOMAIN e.write \intersect tx[v].shared = {}
        /\ tx[v].kind = e.kind /\ e.kind \in {"comment", "publish"} => tx[v].on # e.on
  <2>. SUFFICES ASSUME NEW v \in Workers \ {w}
                PROVE  /\ DOMAIN tx[v].write \intersect (e.shared \union DOMAIN e.write) = {}
                       /\ DOMAIN e.write \intersect tx[v].shared = {}
                       /\ tx[v].kind = e.kind /\ e.kind \in {"comment", "publish"} =>
                            tx[v].on # e.on
    OBVIOUS
  <2>1. /\ DOMAIN tx[v].write \intersect (t.shared \union DOMAIN t.write) = {}
        /\ DOMAIN t.write \intersect tx[v].shared = {}
    BY DEF IInv, Exclusive
  <2>2. /\ (s.shared \union DOMAIN s.write) \intersect DOMAIN tx[v].write = {}
        /\ DOMAIN s.write \intersect tx[v].shared = {}
    BY <1>2 DEF Blocked
  <2>3. tx[v].kind = t.kind /\ t.kind \in {"comment", "publish"} => tx[v].on # t.on
    BY DEF IInv, Fresh
  <2>. QED
    BY <1>2, <2>1, <2>2, <2>3 DEF Continues
<1>. QED
  BY <1>1, <1>2, <1>5, <1>6, <1>7, GoesOn

(* A request that holds nothing. *)
LEMMA GoesOnEmpty ==
  ASSUME IInv, NEW w \in Workers, NEW r, Request(r), tx' = [tx EXCEPT ![w] = r],
         UNCHANGED db, Doing(r, db), New(r, db), r.shared = {}, DOMAIN r.write = {},
         \A v \in Workers \ {w} :
           tx[v].kind = r.kind /\ r.kind \in {"comment", "publish"} => tx[v].on # r.on
  PROVE  IInv'
BY GoesOn

LEMMA EndStep ==
  ASSUME IInv, NEW w \in Workers, UNCHANGED db, tx' = [tx EXCEPT ![w] = NoTx]
  PROVE  IInv'
BY NoTxIs, NoWrites, GoesOnEmpty DEF Doing, New

LEMMA LeaveNothing ==
  ASSUME NEW t, NEW d, DOMAIN t.write = {}
  PROVE  Leaves(t, d, 0)
BY DEF Leaves, LeaveLocks, LeavePosts, LeaveComments, LeaveLikes, LeaveFollows,
       LeaveUsers, Writes

(* Requests that begin. *)
Begun(kind, u, on, t, pc) ==
  [NoTx EXCEPT !.kind = kind, !.user = u, !.on = on, !.text = t, !.attempt = 1,
               !.pc = pc]

LEMMA BegunIs ==
  ASSUME NEW kind, NEW u, NEW on, NEW t, NEW pc
  PROVE  LET r == Begun(kind, u, on, t, pc) IN
         /\ r.kind = kind /\ r.user = u /\ r.on = on /\ r.text = t /\ r.pc = pc
         /\ r.shared = {} /\ DOMAIN r.write = {} /\ Request(r)
<1>. DEFINE r == Begun(kind, u, on, t, pc)
<1>1. r = [x \in Fields |-> r[x]]
  BY DEF Begun, NoTx, Fields
<1>2. /\ r.kind = kind /\ r.user = u /\ r.on = on /\ r.text = t /\ r.pc = pc
      /\ r.shared = {} /\ r.write = <<>>
  BY DEF Begun, NoTx
<1>3. DOMAIN r.write = {}
  BY <1>2, NoWrites
<1>. QED
  BY <1>1, <1>2, <1>3 DEF Request

LEMMA AskStep ==
  ASSUME IInv, NEW w \in Workers, Asked(w)
  PROVE  IInv'
<1>1. ASSUME NEW kind, NEW u, NEW on, NEW t, NEW pc, Ask(w, kind, u, on, t, pc),
             NEW r, r = Begun(kind, u, on, t, pc), Doing(r, db), New(r, db),
             \A v \in Workers \ {w} :
               tx[v].kind = kind /\ kind \in {"comment", "publish"} => tx[v].on # on
      PROVE  IInv'
  <2>1. /\ r.kind = kind /\ r.on = on /\ r.shared = {} /\ DOMAIN r.write = {}
        /\ Request(r)
    BY <1>1, BegunIs
  <2>2. tx' = [tx EXCEPT ![w] = r] /\ UNCHANGED db
    BY <1>1 DEF Ask, Begun
  <2>3. \A v \in Workers \ {w} :
          tx[v].kind = r.kind /\ r.kind \in {"comment", "publish"} => tx[v].on # r.on
    BY <1>1, <2>1
  <2>. QED
    BY <1>1, <2>1, <2>2, <2>3, GoesOnEmpty
<1>2. ASSUME NEW u \in Users, NEW p \in Posts, AskLike(w, u, p) PROVE IInv'
  <2>1. PICK kind \in {"like", "unlike"} : Ask(w, kind, u, p, Absent, "readOwner")
    BY <1>2 DEF AskLike, First
  <2>. DEFINE r == Begun(kind, u, p, Absent, "readOwner")
  <2>2. Doing(r, db) /\ New(r, db)
    BY BegunIs DEF Doing, LikeAt, UnlikeAt, New
  <2>. QED
    BY <1>1, <2>1, <2>2
<1>3. ASSUME NEW c \in Comments, AskComment(w, c) PROVE IInv'
  <2>. DEFINE r == Begun("comment", Author[c], c, Absent, "readOwner")
  <2>1. Ask(w, "comment", Author[c], c, Absent, "readOwner") /\ Unused(Comment(c), "comment")
    BY <1>3 DEF AskComment, First
  <2>2. db[Comment(c)] = Absent
        /\ \A v \in Workers \ {w} : tx[v].kind = "comment" => tx[v].on # c
    BY <2>1, Parts DEF Unused
  <2>3. /\ r.kind = "comment" /\ r.on = c /\ r.user = Author[c] /\ r.pc = "readOwner"
        /\ DOMAIN r.write = {}
    BY BegunIs
  <2>. HIDE DEF r
  <2>4. Doing(r, db) /\ New(r, db)
    BY <2>2, <2>3 DEF Doing, CommentAt, New
  <2>. QED
    BY <1>1, <2>1, <2>2, <2>4 DEF r
<1>4. ASSUME NEW u \in Users, NEW c \in Comments, AskUncomment(w, u, c) PROVE IInv'
  <2>. DEFINE r == Begun("uncomment", u, c, Absent, "lookup")
  <2>1. Doing(r, db) /\ New(r, db)
    BY BegunIs DEF Doing, UncommentAt, New
  <2>. QED
    BY <1>1, <1>4, <2>1 DEF AskUncomment
<1>5. ASSUME NEW u \in Users, NEW v \in Users, AskFollow(w, u, v) PROVE IInv'
  <2>1. PICK kind \in {"follow", "unfollow"} : u # v /\ Ask(w, kind, u, v, Absent, "lookup")
    BY <1>5 DEF AskFollow
  <2>. DEFINE r == Begun(kind, u, v, Absent, "lookup")
  <2>2. Doing(r, db) /\ New(r, db)
    BY <2>1, BegunIs DEF Doing, FollowAt, UnfollowAt, New
  <2>. QED
    BY <1>1, <2>1, <2>2
<1>6. ASSUME NEW p \in Posts, NEW t \in Texts, AskPublish(w, p, t) PROVE IInv'
  <2>. DEFINE r == Begun("publish", Owner[p], p, t, "insertPost")
  <2>1. Ask(w, "publish", Owner[p], p, t, "insertPost") /\ Unused(Post(p), "publish")
    BY <1>6 DEF AskPublish, First
  <2>2. db[Post(p)] = Absent
        /\ \A v \in Workers \ {w} : tx[v].kind = "publish" => tx[v].on # p
    BY <2>1, Parts DEF Unused
  <2>3. /\ r.kind = "publish" /\ r.on = p /\ r.user = Owner[p] /\ r.pc = "insertPost"
        /\ r.text = t /\ DOMAIN r.write = {}
    BY BegunIs
  <2>. HIDE DEF r
  <2>4. Doing(r, db) /\ New(r, db)
    BY <2>2, <2>3, OwnerAssumption DEF Doing, PublishAt, New
  <2>. QED
    BY <1>1, <2>1, <2>2, <2>4 DEF r
<1>7. ASSUME NEW p \in Posts, NEW t \in Texts, AskEdit(w, p, t) PROVE IInv'
  <2>. DEFINE r == Begun("edit", Owner[p], p, t, "lookup")
  <2>1. Doing(r, db) /\ New(r, db)
    BY BegunIs DEF Doing, EditAt, New
  <2>. QED
    BY <1>1, <1>7, <2>1 DEF AskEdit
<1>8. ASSUME NEW p \in Posts, AskDeletePost(w, p) PROVE IInv'
  <2>. DEFINE r == Begun("deletePost", Owner[p], p, Absent, "lookup")
  <2>1. Doing(r, db) /\ New(r, db)
    BY BegunIs DEF Doing, DeletePostAt, New
  <2>. QED
    BY <1>1, <1>8, <2>1 DEF AskDeletePost
<1>9. ASSUME NEW u \in Users, AskLeave(w, u) PROVE IInv'
  <2>. DEFINE r == Begun("leave", u, Absent, Absent, "lookup")
  <2>1. Doing(r, db) /\ New(r, db)
    BY BegunIs DEF Doing, LeaveAt, New, Leaving
  <2>. QED
    BY <1>1, <1>9, <2>1 DEF AskLeave
<1>. QED
  BY <1>2, <1>3, <1>4, <1>5, <1>6, <1>7, <1>8, <1>9 DEF Asked

(* A request that has nothing written yet, at its first statement. *)
LEMMA AtFirst ==
  ASSUME NEW t, NEW r, NEW d, Doing(t, d), r.kind = t.kind, r.user = t.user,
         r.on = t.on, r.text = t.text, t.kind # "none", DOMAIN r.write = {},
         r.pc = First(t.kind),
         t.kind = "edit" => d[Post(t.on)] # Absent
  PROVE  Doing(r, d)
<1>1. t.kind = "like" => Doing(r, d)
  BY DEF Doing, LikeAt, First
<1>2. t.kind = "unlike" => Doing(r, d)
  BY DEF Doing, UnlikeAt, First
<1>3. t.kind = "comment" => Doing(r, d)
  BY DEF Doing, CommentAt, First
<1>4. t.kind = "uncomment" => Doing(r, d)
  BY DEF Doing, UncommentAt, First
<1>5. t.kind = "follow" => Doing(r, d)
  BY DEF Doing, FollowAt, First
<1>6. t.kind = "unfollow" => Doing(r, d)
  BY DEF Doing, UnfollowAt, First
<1>7. t.kind = "publish" => Doing(r, d)
  BY DEF Doing, PublishAt, First
<1>8. t.kind = "edit" => Doing(r, d)
  BY DEF Doing, EditAt, First
<1>9. t.kind = "deletePost" => Doing(r, d)
  BY DEF Doing, DeletePostAt, First
<1>10. t.kind = "leave" => Doing(r, d)
  <2>1. Leaves(r, d, 0)
    BY LeaveNothing
  <2>. QED
    BY <2>1 DEF Doing, LeaveAt, First, Leaving, Done
<1>. QED
  BY <1>1, <1>2, <1>3, <1>4, <1>5, <1>6, <1>7, <1>8, <1>9, <1>10 DEF Doing

LEMMA LookupStep ==
  ASSUME IInv, NEW w \in Workers, Lookup(w)
  PROVE  IInv'
<1>. DEFINE t == tx[w]
            r == [t EXCEPT !.pc = First(t.kind)]
<1>1. CASE ~Permitted(w)
  BY <1>1, EndStep DEF Lookup
<1>2. CASE Permitted(w)
  <2>1. tx' = [tx EXCEPT ![w] = r] /\ UNCHANGED db /\ t.pc = "lookup"
    BY <1>2 DEF Lookup, IInv, TxOK
  <2>2. Request(t) /\ Doing(t, db)
    BY DEF IInv, TxOK
  <2>3. /\ r.kind = t.kind /\ r.user = t.user /\ r.on = t.on /\ r.text = t.text
        /\ r.pc = First(t.kind) /\ r.shared = t.shared /\ r.write = t.write
        /\ Request(r)
    BY <2>2 DEF Request, Fields
  <2>4. DOMAIN t.write = {} /\ t.kind # "none"
    BY <2>1, <2>2 DEF Doing, IdleAt, LikeAt, UnlikeAt, CommentAt, UncommentAt, FollowAt,
       UnfollowAt, PublishAt, EditAt, DeletePostAt, LeaveAt, Closing
  <2>5. t.kind = "edit" => db[Post(t.on)] # Absent
    BY <1>2 DEF Permitted
  <2>. HIDE DEF r
  <2>6. Doing(r, db)
    BY <2>2, <2>3, <2>4, <2>5, AtFirst
  <2>7. New(r, db)
    BY <2>3 DEF New, IInv, Fresh
  <2>8. \A v \in Workers \ {w} :
          /\ DOMAIN tx[v].write \intersect (r.shared \union DOMAIN r.write) = {}
          /\ DOMAIN r.write \intersect tx[v].shared = {}
          /\ tx[v].kind = r.kind /\ r.kind \in {"comment", "publish"} => tx[v].on # r.on
    BY <2>3 DEF IInv, Exclusive, Fresh
  <2>. QED
    BY <2>1, <2>3, <2>6, <2>7, <2>8, GoesOn
<1>. QED
  BY <1>1, <1>2

LEMMA VictimStep ==
  ASSUME IInv, NEW w \in Workers, Victim(w)
  PROVE  IInv'
<1>. DEFINE t == tx[w]  r == Again(w)
<1>1. CASE ~(t.attempt < Attempts(t.kind))
  BY <1>1, EndStep DEF Victim
<1>2. CASE t.attempt < Attempts(t.kind)
  <2>1. tx' = [tx EXCEPT ![w] = r] /\ UNCHANGED db /\ Running(w)
    BY <1>2 DEF Victim
  <2>2. Request(t) /\ Doing(t, db)
    BY DEF IInv, TxOK
  <2>3. /\ r.kind = t.kind /\ r.user = t.user /\ r.on = t.on /\ r.text = t.text
        /\ r.pc = First(t.kind) /\ r.shared = {} /\ r.write = <<>>
        /\ Request(r)
    <3>1. t = [x \in Fields |-> t[x]]
      BY <2>2 DEF Request
    <3>2. /\ r = [x \in Fields |-> r[x]]
          /\ r.kind = t.kind /\ r.user = t.user /\ r.on = t.on /\ r.text = t.text
          /\ r.pc = First(t.kind) /\ r.shared = {} /\ r.write = <<>>
      BY <3>1 DEF Again, Fields
    <3>. QED
      BY <3>1, <3>2, NoWrites DEF Request
  <2>4. DOMAIN r.write = {}
    BY <2>3, NoWrites
  <2>5. t.kind # "none" /\ (t.kind = "edit" => db[Post(t.on)] # Absent)
    BY <2>1, <2>2 DEF Running, Outside, Doing, IdleAt, EditAt
  <2>. HIDE DEF r
  <2>6. Doing(r, db)
    BY <2>2, <2>3, <2>4, <2>5, AtFirst
  <2>7. New(r, db) /\ \A v \in Workers \ {w} :
          tx[v].kind = r.kind /\ r.kind \in {"comment", "publish"} => tx[v].on # r.on
    BY <2>3 DEF New, IInv, Fresh
  <2>. QED
    BY <2>1, <2>3, <2>4, <2>6, <2>7, GoesOnEmpty
<1>. QED
  BY <1>1, <1>2

-----------------------------------------------------------------------------
(* A commit of another request changes nothing that a transaction has       *)
(* locked, brings no post back, and brings likes and comments only to posts *)
(* that are there and that the transaction does not write.                  *)
Steady(t, d, e) ==
  /\ \A i \in Items : Keeps(t, i) => e[i] = d[i]
  /\ \A p \in Posts : e[Post(p)] = Absent => d[Post(p)] = Absent
  /\ \A c \in Comments : e[Comment(c)] = "there" /\ d[Comment(c)] # "there" =>
       ThereIn(d, Post(On[c])) /\ ~Writes(t, Post(On[c]))
  /\ \A u \in Users, p \in Posts :
       e[LikeRow(u, p)] = "there" /\ d[LikeRow(u, p)] # "there" =>
         ThereIn(d, Post(p)) /\ ~Writes(t, Post(p))

LEMMA LikeSteady ==
  ASSUME NEW t, NEW d, NEW e, Steady(t, d, e), LikeAt(t, d)
  PROVE  LikeAt(t, e)
<1>. DEFINE row == LikeRow(t.user, t.on)  note == LikeNote(t.user, t.on)
            post == Post(t.on)
<1>1. row \in Items /\ note \in Items /\ post \in Items
  BY Places DEF LikeAt
<1>2. /\ Writes(t, row) => e[row] = d[row]
      /\ Writes(t, note) => e[note] = d[note]
      /\ post \in t.shared \/ Writes(t, post) => e[post] = d[post]
  BY <1>1 DEF Steady, Keeps, Writes
<1>. QED
  BY <1>2 DEF LikeAt, LikeBegun, LikeCounted, ThereIn, Writes

LEMMA UnlikeSteady ==
  ASSUME NEW t, NEW d, NEW e, Steady(t, d, e), UnlikeAt(t, d)
  PROVE  UnlikeAt(t, e)
<1>. DEFINE row == LikeRow(t.user, t.on)  post == Post(t.on)
<1>1. row \in Items /\ post \in Items
  BY Places DEF UnlikeAt
<1>2. /\ Writes(t, row) => e[row] = d[row]
      /\ Writes(t, post) => e[post] = d[post]
  BY <1>1 DEF Steady, Keeps, Writes
<1>. QED
  BY <1>2 DEF UnlikeAt, UnlikeBegun, LikeUncounted, Writes

LEMMA CommentSteady ==
  ASSUME NEW t, NEW d, NEW e, Steady(t, d, e), CommentAt(t, d)
  PROVE  CommentAt(t, e)
<1>. DEFINE row == Comment(t.on)  note == CommentNote(t.on)  post == Post(On[t.on])
<1>1. row \in Items /\ note \in Items /\ post \in Items
  BY Places, OnAssumption DEF CommentAt
<1>2. /\ Writes(t, row) => e[row] = d[row]
      /\ Writes(t, note) => e[note] = d[note]
      /\ post \in t.shared \/ Writes(t, post) => e[post] = d[post]
  BY <1>1 DEF Steady, Keeps, Writes
<1>. QED
  BY <1>2 DEF CommentAt, CommentBegun, CommentCounted, ThereIn, Writes

LEMMA UncommentSteady ==
  ASSUME NEW t, NEW d, NEW e, Steady(t, d, e), UncommentAt(t, d)
  PROVE  UncommentAt(t, e)
<1>. DEFINE row == Comment(t.on)  post == Post(On[t.on])
<1>1. row \in Items /\ post \in Items
  BY Places, OnAssumption DEF UncommentAt
<1>2. /\ Writes(t, row) => e[row] = d[row]
      /\ Writes(t, post) => e[post] = d[post]
  BY <1>1 DEF Steady, Keeps, Writes
<1>. QED
  BY <1>2 DEF UncommentAt, UncommentBegun, CommentUncounted, Writes

LEMMA FollowSteady ==
  ASSUME NEW t, NEW d, NEW e, Steady(t, d, e)
  PROVE  /\ FollowAt(t, d) => FollowAt(t, e)
         /\ UnfollowAt(t, d) => UnfollowAt(t, e)
<1>. DEFINE row == FollowRow(t.user, t.on)  note == FollowNote(t.user, t.on)
<1>1. FollowAt(t, d) \/ UnfollowAt(t, d) => row \in Items /\ note \in Items
  BY Places DEF FollowAt, UnfollowAt
<1>2. row \in Items /\ note \in Items =>
        /\ row \in DOMAIN t.write => e[row] = d[row]
        /\ note \in DOMAIN t.write => e[note] = d[note]
  BY DEF Steady, Keeps
<1>3. FollowAt(t, d) => FollowAt(t, e)
  BY <1>1, <1>2 DEF FollowAt
<1>4. UnfollowAt(t, d) => UnfollowAt(t, e)
  BY <1>1, <1>2 DEF UnfollowAt
<1>. QED
  BY <1>3, <1>4

LEMMA EditSteady ==
  ASSUME NEW t, NEW d, NEW e, Steady(t, d, e), EditAt(t, d)
  PROVE  EditAt(t, e)
<1>1. t.on \in Posts /\ Post(t.on) \in Items
  BY Places DEF EditAt
<1>2. /\ Post(t.on) \in t.shared => e[Post(t.on)] = d[Post(t.on)]
      /\ d[Post(t.on)] # Absent => e[Post(t.on)] # Absent
  BY <1>1 DEF Steady, Keeps
<1>. QED
  BY <1>2 DEF EditAt, ThereIn

LEMMA DeletePostSteady ==
  ASSUME NEW t, NEW d, NEW e, Steady(t, d, e), DeletePostAt(t, d)
  PROVE  DeletePostAt(t, e)
<1>. DEFINE p == t.on
<1>1. CASE t.pc # "commit"
  BY <1>1 DEF DeletePostAt
<1>2. CASE t.pc = "commit"
  <2>1. p \in Posts /\ Writes(t, Post(p)) /\ ThereIn(d, Post(p))
    BY <1>2 DEF DeletePostAt
  <2>2. ThereIn(e, Post(p))
    BY <2>1, Places DEF Steady, Keeps, Writes, ThereIn
  <2>3. \A c \in Comments : Writes(t, Comment(c)) <=> e[Comment(c)] = "there" /\ On[c] = p
    <3>. SUFFICES ASSUME NEW c \in Comments
                  PROVE  Writes(t, Comment(c)) <=> e[Comment(c)] = "there" /\ On[c] = p
      OBVIOUS
    <3>1. Writes(t, Comment(c)) <=> d[Comment(c)] = "there" /\ On[c] = p
      BY <1>2 DEF DeletePostAt
    <3>2. Writes(t, Comment(c)) => e[Comment(c)] = d[Comment(c)]
      BY Places DEF Steady, Keeps, Writes
    <3>3. On[c] = p /\ e[Comment(c)] = "there" => d[Comment(c)] = "there"
      BY <2>1 DEF Steady
    <3>. QED
      BY <3>1, <3>2, <3>3
  <2>4. \A x \in Users, q \in Posts :
          Writes(t, LikeRow(x, q)) <=> e[LikeRow(x, q)] = "there" /\ q = p
    <3>. SUFFICES ASSUME NEW x \in Users, NEW q \in Posts
                  PROVE  Writes(t, LikeRow(x, q)) <=> e[LikeRow(x, q)] = "there" /\ q = p
      OBVIOUS
    <3>1. Writes(t, LikeRow(x, q)) <=> d[LikeRow(x, q)] = "there" /\ q = p
      BY <1>2 DEF DeletePostAt
    <3>2. Writes(t, LikeRow(x, q)) => e[LikeRow(x, q)] = d[LikeRow(x, q)]
      BY Places DEF Steady, Keeps, Writes
    <3>3. q = p /\ e[LikeRow(x, q)] = "there" => d[LikeRow(x, q)] = "there"
      BY <2>1 DEF Steady
    <3>. QED
      BY <3>1, <3>2, <3>3
  <2>. QED
    BY <1>2, <2>1, <2>2, <2>3, <2>4 DEF DeletePostAt
<1>. QED
  BY <1>1, <1>2

LEMMA LeaveSteady ==
  ASSUME NEW t, NEW d, NEW e, NEW n \in 0..8, Steady(t, d, e), Leaves(t, d, n),
         t.user \in Users
  PROVE  Leaves(t, e, n)
<1>. DEFINE u == t.user
<1>1. \A i \in Items : Keeps(t, i) => e[i] = d[i]
  BY DEF Steady
<1>2. ASSUME NEW p \in Posts, n >= 1
      PROVE  Mine(e, u, p) <=> Mine(d, u, p)
  BY <1>1, <1>2, Places DEF Mine, ThereIn, Keeps, Leaves, LeaveLocks
<1>3. ASSUME NEW p \in Posts, n >= 2
      PROVE  Said(e, u, p) = Said(d, u, p)
  <2>1. \A c \in Comments : Author[c] = u => e[Comment(c)] = d[Comment(c)]
    BY <1>1, <1>3, Places DEF Keeps, Leaves, LeaveLocks
  <2>. QED
    BY <2>1 DEF Said
<1>4. ASSUME NEW p \in Posts, n >= 4
      PROVE  LikesIt(e, u, p) <=> LikesIt(d, u, p)
  <2>1. LikeRow(u, p) \in t.shared
    BY <1>4 DEF Leaves, LeaveLocks
  <2>. QED
    BY <1>1, <2>1, Places DEF LikesIt, Keeps
<1>5. LeaveLocks(t, n) /\ LeaveUsers(t, n)
  BY DEF Leaves
<1>6. LeavePosts(t, e, n)
  <2>. SUFFICES ASSUME NEW p \in Posts
                PROVE  /\ Writes(t, Post(p)) <=>
                            \/ n >= 1 /\ Mine(e, u, p)
                            \/ n >= 2 /\ Owner[p] # u /\ Said(e, u, p) # {}
                            \/ n >= 4 /\ Owner[p] # u /\ LikesIt(e, u, p)
                       /\ Writes(t, Post(p)) =>
                            t.write[Post(p)] = IF Owner[p] = u THEN Used
                                               ELSE Uncounted(e, u, p, n)
                       /\ Writes(t, PostTags(p)) <=> n >= 1 /\ Mine(e, u, p)
                       /\ Writes(t, PostTags(p)) => t.write[PostTags(p)] = {}
    BY DEF LeavePosts
  <2>1. /\ Writes(t, Post(p)) <=>
             \/ n >= 1 /\ Mine(d, u, p)
             \/ n >= 2 /\ Owner[p] # u /\ Said(d, u, p) # {}
             \/ n >= 4 /\ Owner[p] # u /\ LikesIt(d, u, p)
        /\ Writes(t, Post(p)) =>
             t.write[Post(p)] = IF Owner[p] = u THEN Used ELSE Uncounted(d, u, p, n)
        /\ Writes(t, PostTags(p)) <=> n >= 1 /\ Mine(d, u, p)
        /\ Writes(t, PostTags(p)) => t.write[PostTags(p)] = {}
    BY DEF Leaves, LeavePosts
  <2>2. Writes(t, Post(p)) => Uncounted(e, u, p, n) = Uncounted(d, u, p, n)
    <3>1. Writes(t, Post(p)) => e[Post(p)] = d[Post(p)]
      BY <1>1, Places DEF Writes, Keeps
    <3>. QED
      BY <1>3, <1>4, <3>1 DEF Uncounted
  <2>. QED
    BY <1>2, <1>3, <1>4, <2>1, <2>2
<1>7. ASSUME NEW p \in Posts, n >= 1, Owner[p] = u, ThereIn(d, Post(p))
      PROVE  Writes(t, Post(p))
  BY <1>7 DEF Leaves, LeavePosts, Mine
<1>8. LeaveComments(t, e, n)
  <2>. SUFFICES ASSUME NEW c \in Comments
                PROVE  Writes(t, Comment(c)) <=>
                         /\ e[Comment(c)] = "there"
                         /\ (n >= 1 /\ Owner[On[c]] = u) \/ (n >= 3 /\ Author[c] = u)
    BY DEF Leaves, LeaveComments
  <2>1. Writes(t, Comment(c)) <=>
          /\ d[Comment(c)] = "there"
          /\ (n >= 1 /\ Owner[On[c]] = u) \/ (n >= 3 /\ Author[c] = u)
    BY DEF Leaves, LeaveComments
  <2>2. Writes(t, Comment(c)) => e[Comment(c)] = d[Comment(c)]
    BY <1>1, Places DEF Writes, Keeps
  <2>3. n >= 3 /\ Author[c] = u => e[Comment(c)] = d[Comment(c)]
    BY <1>1, Places DEF Keeps, Leaves, LeaveLocks
  <2>4. n >= 1 /\ Owner[On[c]] = u /\ e[Comment(c)] = "there" => d[Comment(c)] = "there"
    BY <1>7, OnAssumption DEF Steady
  <2>. QED
    BY <2>1, <2>2, <2>3, <2>4
<1>9. LeaveLikes(t, e, n)
  <2>. SUFFICES ASSUME NEW x \in Users, NEW p \in Posts
                PROVE  /\ Writes(t, LikeRow(x, p)) <=>
                            /\ e[LikeRow(x, p)] = "there"
                            /\ (n >= 1 /\ Owner[p] = u) \/ (n >= 5 /\ x = u)
                       /\ Writes(t, LikeNote(x, p)) <=>
                            \/ n >= 1 /\ Mine(e, u, p)
                            \/ n >= 7 /\ u \in {x, Owner[p]}
    BY DEF Leaves, LeaveLikes
  <2>1. /\ Writes(t, LikeRow(x, p)) <=>
             /\ d[LikeRow(x, p)] = "there"
             /\ (n >= 1 /\ Owner[p] = u) \/ (n >= 5 /\ x = u)
        /\ Writes(t, LikeNote(x, p)) <=>
             \/ n >= 1 /\ Mine(d, u, p)
             \/ n >= 7 /\ u \in {x, Owner[p]}
    BY DEF Leaves, LeaveLikes
  <2>2. Writes(t, LikeRow(x, p)) => e[LikeRow(x, p)] = d[LikeRow(x, p)]
    BY <1>1, Places DEF Writes, Keeps
  <2>3. n >= 5 /\ x = u => e[LikeRow(x, p)] = d[LikeRow(x, p)]
    BY <1>1, Places DEF Keeps, Leaves, LeaveLocks
  <2>4. n >= 1 /\ Owner[p] = u /\ e[LikeRow(x, p)] = "there" => d[LikeRow(x, p)] = "there"
    BY <1>7 DEF Steady
  <2>. QED
    BY <1>2, <2>1, <2>2, <2>3, <2>4
<1>10. LeaveFollows(t, e, n)
  <2>. SUFFICES ASSUME NEW x \in Users, NEW y \in Users
                PROVE  Writes(t, FollowRow(x, y)) <=>
                         n >= 6 /\ u \in {x, y} /\ e[FollowRow(x, y)] = "there"
    BY DEF Leaves, LeaveFollows
  <2>1. Writes(t, FollowRow(x, y)) <=>
          n >= 6 /\ u \in {x, y} /\ d[FollowRow(x, y)] = "there"
    BY DEF Leaves, LeaveFollows
  <2>2. n >= 6 /\ u \in {x, y} => e[FollowRow(x, y)] = d[FollowRow(x, y)]
    BY <1>1, Places DEF Keeps, Leaves, LeaveLocks
  <2>. QED
    BY <2>1, <2>2
<1>. QED
  BY <1>5, <1>6, <1>8, <1>9, <1>10 DEF Leaves

LEMMA AllSteady ==
  ASSUME NEW t, NEW d, NEW e, Steady(t, d, e), Doing(t, d)
  PROVE  Doing(t, e)
<1>1. PublishAt(t, d) => PublishAt(t, e)
  BY DEF PublishAt
<1>2. LeaveAt(t, d) => LeaveAt(t, e)
  <2>1. t.pc \in Leaving => Done(t) \in 0..8
    BY DEF Leaving, Done
  <2>. QED
    BY <2>1, LeaveSteady DEF LeaveAt
<1>. QED
  BY <1>1, <1>2, LikeSteady, UnlikeSteady, CommentSteady, UncommentSteady,
     FollowSteady, EditSteady, DeletePostSteady DEF Doing

-----------------------------------------------------------------------------
(* What a commit makes of the rows d.                                       *)
Committed(t, d, e) ==
  \A i \in Items : e[i] = IF i \in DOMAIN t.write THEN t.write[i] ELSE d[i]
Others(d, e, S) == \A i \in Items : i \notin S => e[i] = d[i]
TagRows == {Tag(g) : g \in Tags}

LikeDone(u, p, d, e) ==
  /\ u \in Users /\ p \in Posts
  /\ d[LikeRow(u, p)] # "there" /\ ThereIn(d, Post(p))
  /\ e[LikeRow(u, p)] = "there"
  /\ e[Post(p)] = [d[Post(p)] EXCEPT !.likes = @ + 1]
  /\ e[LikeNote(u, p)] = d[LikeNote(u, p)] + (IF u = Owner[p] THEN 0 ELSE 1)
  /\ Others(d, e, {LikeRow(u, p), Post(p), LikeNote(u, p)})
UnlikeDone(u, p, d, e) ==
  /\ u \in Users /\ p \in Posts
  /\ d[LikeRow(u, p)] = "there"
  /\ e[LikeRow(u, p)] = Absent
  /\ e[Post(p)] = [d[Post(p)] EXCEPT !.likes = Less(@, 1)]
  /\ e[LikeNote(u, p)] = 0
  /\ Others(d, e, {LikeRow(u, p), Post(p), LikeNote(u, p)})
CommentDone(c, d, e) ==
  /\ c \in Comments
  /\ d[Comment(c)] = Absent /\ ThereIn(d, Post(On[c]))
  /\ e[Comment(c)] = "there"
  /\ e[Post(On[c])] = [d[Post(On[c])] EXCEPT !.comments = @ + 1]
  /\ e[CommentNote(c)] = IF Author[c] = Owner[On[c]] THEN 0 ELSE 1
  /\ Others(d, e, {Comment(c), Post(On[c]), CommentNote(c)})
UncommentDone(c, d, e) ==
  /\ c \in Comments
  /\ d[Comment(c)] = "there"
  /\ e[Comment(c)] = Used
  /\ e[Post(On[c])] = [d[Post(On[c])] EXCEPT !.comments = Less(@, 1)]
  /\ e[CommentNote(c)] = 0
  /\ Others(d, e, {Comment(c), Post(On[c]), CommentNote(c)})
FollowDone(u, v, d, e) ==
  /\ u \in Users /\ v \in Users /\ u # v
  /\ d[FollowRow(u, v)] # "there"
  /\ e[FollowRow(u, v)] = "there" /\ e[FollowNote(u, v)] = d[FollowNote(u, v)] + 1
  /\ Others(d, e, {FollowRow(u, v), FollowNote(u, v)})
UnfollowDone(u, v, d, e) ==
  /\ u \in Users /\ v \in Users
  /\ d[FollowRow(u, v)] = "there"
  /\ e[FollowRow(u, v)] = Absent /\ e[FollowNote(u, v)] = 0
  /\ Others(d, e, {FollowRow(u, v), FollowNote(u, v)})
PublishDone(p, s, d, e) ==
  /\ p \in Posts /\ s \in Texts
  /\ d[Post(p)] = Absent
  /\ e[Post(p)] = NewPost(s) /\ e[PostTags(p)] = TagsOf[s]
  /\ Others(d, e, {Post(p), PostTags(p)} \union TagRows)
EditDone(p, s, d, e) ==
  /\ p \in Posts /\ s \in Texts
  /\ ThereIn(d, Post(p))
  /\ e[Post(p)] = [d[Post(p)] EXCEPT !.text = s] /\ e[PostTags(p)] = TagsOf[s]
  /\ Others(d, e, {Post(p), PostTags(p)} \union TagRows)
DeletePostDone(p, d, e) ==
  /\ p \in Posts /\ ThereIn(d, Post(p))
  /\ \A q \in Posts :
       /\ e[Post(q)] = IF q = p THEN Used ELSE d[Post(q)]
       /\ e[PostTags(q)] = IF q = p THEN {} ELSE d[PostTags(q)]
  /\ \A c \in Comments :
       /\ e[Comment(c)] = IF On[c] = p /\ d[Comment(c)] = "there" THEN Used
                          ELSE d[Comment(c)]
       /\ e[CommentNote(c)] = IF On[c] = p THEN 0 ELSE d[CommentNote(c)]
  /\ \A x \in Users, q \in Posts :
       /\ e[LikeRow(x, q)] = IF q = p THEN Absent ELSE d[LikeRow(x, q)]
       /\ e[LikeNote(x, q)] = IF q = p THEN 0 ELSE d[LikeNote(x, q)]
  /\ \A x, y \in Users :
       e[FollowRow(x, y)] = d[FollowRow(x, y)] /\ e[FollowNote(x, y)] = d[FollowNote(x, y)]
  /\ \A x \in Users : e[User(x)] = d[User(x)]
LeaveDone(u, d, e) ==
  /\ u \in Users
  /\ \A p \in Posts :
       /\ e[Post(p)] = IF Mine(d, u, p) THEN Used
                       ELSE IF ThereIn(d, Post(p)) THEN Uncounted(d, u, p, 8)
                       ELSE d[Post(p)]
       /\ e[PostTags(p)] = IF Mine(d, u, p) THEN {} ELSE d[PostTags(p)]
  /\ \A c \in Comments :
       /\ e[Comment(c)] = IF d[Comment(c)] = "there" /\ u \in {Author[c], Owner[On[c]]}
                          THEN Used ELSE d[Comment(c)]
       /\ e[CommentNote(c)] = IF u \in {Author[c], Owner[On[c]]} THEN 0
                              ELSE d[CommentNote(c)]
  /\ \A x \in Users, p \in Posts :
       /\ e[LikeRow(x, p)] = IF u \in {x, Owner[p]} THEN Absent ELSE d[LikeRow(x, p)]
       /\ e[LikeNote(x, p)] = IF u \in {x, Owner[p]} THEN 0 ELSE d[LikeNote(x, p)]
  /\ \A x, y \in Users :
       /\ e[FollowRow(x, y)] = IF u \in {x, y} THEN Absent ELSE d[FollowRow(x, y)]
       /\ e[FollowNote(x, y)] = IF u \in {x, y} THEN 0 ELSE d[FollowNote(x, y)]
  /\ \A x \in Users : e[User(x)] = IF x = u THEN "left" ELSE d[User(x)]

Effect(t, d, e) ==
  \/ Others(d, e, TagRows)
  \/ t.kind = "like" /\ LikeDone(t.user, t.on, d, e) /\ Post(t.on) \in t.shared
  \/ t.kind = "unlike" /\ UnlikeDone(t.user, t.on, d, e)
  \/ t.kind = "comment" /\ CommentDone(t.on, d, e) /\ Post(On[t.on]) \in t.shared
  \/ t.kind = "uncomment" /\ UncommentDone(t.on, d, e)
  \/ t.kind = "follow" /\ FollowDone(t.user, t.on, d, e)
  \/ t.kind = "unfollow" /\ UnfollowDone(t.user, t.on, d, e)
  \/ t.kind = "publish" /\ PublishDone(t.on, t.text, d, e)
  \/ t.kind = "edit" /\ EditDone(t.on, t.text, d, e)
  \/ t.kind = "deletePost" /\ DeletePostDone(t.on, d, e)
  \/ t.kind = "leave" /\ LeaveDone(t.user, d, e)

LEMMA LikeCommits ==
  ASSUME NEW t, NEW d, NEW e, Committed(t, d, e), DbOK(d), NotesFit(d),
         t.pc = "commit", LikeAt(t, d) \/ UnlikeAt(t, d)
  PROVE  \/ Others(d, e, TagRows)
         \/ /\ LikeAt(t, d) => LikeDone(t.user, t.on, d, e) /\ Post(t.on) \in t.shared
            /\ UnlikeAt(t, d) => UnlikeDone(t.user, t.on, d, e)
<1>. DEFINE u == t.user  p == t.on  row == LikeRow(u, p)  note == LikeNote(u, p)
<1>1. u \in Users /\ p \in Posts
  BY DEF LikeAt, UnlikeAt
<1>2. row \in Items /\ note \in Items /\ Post(p) \in Items
  BY <1>1, Places
<1>3. row # Post(p) /\ note # row /\ note # Post(p)
  BY Parts
<1>4. d[note] \in Nat /\ (Owner[p] = u => d[note] = 0)
  BY <1>1 DEF DbOK, NotesOK, NotesFit
<1>5. CASE DOMAIN t.write = {}
  BY <1>5 DEF Committed, Others
<1>6. ASSUME DOMAIN t.write # {}, LikeAt(t, d)
      PROVE  LikeDone(u, p, d, e) /\ Post(p) \in t.shared
  <2>1. /\ LikeBegun(t, d) /\ LikeCounted(t, d)
        /\ DOMAIN t.write = {row, Post(p)} \union (IF Owner[p] = u THEN {} ELSE {note})
        /\ Owner[p] # u => t.write[note] = d[note] + 1
    BY <1>6 DEF LikeAt, Closing
  <2>2. /\ e[row] = "there" /\ e[Post(p)] = [d[Post(p)] EXCEPT !.likes = @ + 1]
        /\ d[row] # "there" /\ ThereIn(d, Post(p)) /\ Post(p) \in t.shared
    BY <1>2, <1>3, <2>1 DEF Committed, LikeBegun, LikeCounted
  <2>3. e[note] = d[note] + (IF u = Owner[p] THEN 0 ELSE 1)
    BY <1>2, <1>3, <1>4, <2>1 DEF Committed
  <2>4. Others(d, e, {row, Post(p), note})
    BY <2>1 DEF Committed, Others
  <2>. QED
    BY <1>1, <1>6, <2>2, <2>3, <2>4 DEF LikeDone
<1>7. ASSUME DOMAIN t.write # {}, UnlikeAt(t, d)
      PROVE  UnlikeDone(u, p, d, e)
  <2>1. /\ UnlikeBegun(t, d) /\ LikeUncounted(t, d)
        /\ DOMAIN t.write = {row, Post(p)} \union (IF Owner[p] = u THEN {} ELSE {note})
        /\ Owner[p] # u => t.write[note] = 0
    BY <1>7 DEF UnlikeAt, Closing
  <2>2. /\ e[row] = Absent /\ e[Post(p)] = [d[Post(p)] EXCEPT !.likes = Less(@, 1)]
        /\ d[row] = "there"
    BY <1>2, <1>3, <2>1 DEF Committed, UnlikeBegun, LikeUncounted
  <2>3. e[note] = 0
    BY <1>2, <1>3, <1>4, <2>1 DEF Committed
  <2>4. Others(d, e, {row, Post(p), note})
    BY <2>1 DEF Committed, Others
  <2>. QED
    BY <1>1, <1>7, <2>2, <2>3, <2>4 DEF UnlikeDone
<1>. QED
  BY <1>5, <1>6, <1>7

LEMMA CommentCommits ==
  ASSUME NEW t, NEW d, NEW e, Committed(t, d, e), DbOK(d), NotesFit(d),
         t.pc = "commit", CommentAt(t, d), d[Comment(t.on)] = Absent
  PROVE  CommentDone(t.on, d, e) /\ Post(On[t.on]) \in t.shared
<1>. DEFINE u == t.user  c == t.on  p == On[c]  row == Comment(c)  note == CommentNote(c)
<1>1. c \in Comments /\ p \in Posts /\ u = Author[c]
  BY OnAssumption DEF CommentAt
<1>2. row \in Items /\ note \in Items /\ Post(p) \in Items
  BY <1>1, Places
<1>3. row # Post(p) /\ note # row /\ note # Post(p)
  BY Parts
<1>4. d[note] = 0
  BY <1>1, AbsentAssumption DEF NotesFit
<1>5. /\ CommentBegun(t, d) /\ CommentCounted(t, d)
      /\ DOMAIN t.write = {row, Post(p)} \union (IF Owner[p] = u THEN {} ELSE {note})
      /\ Owner[p] # u => t.write[note] = d[note] + 1
  BY DEF CommentAt
<1>6. /\ e[row] = "there" /\ e[Post(p)] = [d[Post(p)] EXCEPT !.comments = @ + 1]
      /\ ThereIn(d, Post(p)) /\ Post(p) \in t.shared
  BY <1>2, <1>3, <1>5 DEF Committed, CommentBegun, CommentCounted
<1>7. e[note] = IF u = Owner[p] THEN 0 ELSE 1
  BY <1>2, <1>3, <1>4, <1>5 DEF Committed
<1>8. Others(d, e, {row, Post(p), note})
  BY <1>5 DEF Committed, Others
<1>. QED
  BY <1>1, <1>6, <1>7, <1>8 DEF CommentDone

LEMMA UncommentCommits ==
  ASSUME NEW t, NEW d, NEW e, Committed(t, d, e), t.pc = "commit", UncommentAt(t, d)
  PROVE  UncommentDone(t.on, d, e)
<1>. DEFINE c == t.on  p == On[c]  row == Comment(c)  note == CommentNote(c)
<1>1. c \in Comments /\ p \in Posts
  BY OnAssumption DEF UncommentAt
<1>2. row \in Items /\ note \in Items /\ Post(p) \in Items
  BY <1>1, Places
<1>3. row # Post(p) /\ note # row /\ note # Post(p)
  BY Parts
<1>4. /\ UncommentBegun(t, d) /\ CommentUncounted(t, d)
      /\ DOMAIN t.write = {row, note, Post(p)}
  BY DEF UncommentAt
<1>5. /\ e[row] = Used /\ e[Post(p)] = [d[Post(p)] EXCEPT !.comments = Less(@, 1)]
      /\ e[note] = 0 /\ d[row] = "there"
  BY <1>2, <1>3, <1>4 DEF Committed, UncommentBegun, CommentUncounted
<1>6. Others(d, e, {row, Post(p), note})
  BY <1>4 DEF Committed, Others
<1>. QED
  BY <1>1, <1>5, <1>6 DEF UncommentDone

LEMMA FollowCommits ==
  ASSUME NEW t, NEW d, NEW e, Committed(t, d, e), t.pc = "commit",
         FollowAt(t, d) \/ UnfollowAt(t, d)
  PROVE  \/ Others(d, e, TagRows)
         \/ /\ FollowAt(t, d) => FollowDone(t.user, t.on, d, e)
            /\ UnfollowAt(t, d) => UnfollowDone(t.user, t.on, d, e)
<1>. DEFINE u == t.user  v == t.on  row == FollowRow(u, v)  note == FollowNote(u, v)
<1>1. u \in Users /\ v \in Users /\ u # v
  BY DEF FollowAt, UnfollowAt
<1>2. row \in Items /\ note \in Items /\ note # row
  BY <1>1, Places, Parts
<1>3. CASE DOMAIN t.write = {}
  BY <1>3 DEF Committed, Others
<1>4. ASSUME DOMAIN t.write # {}, FollowAt(t, d)
      PROVE  FollowDone(u, v, d, e)
  <2>1. /\ d[row] # "there" /\ DOMAIN t.write = {row, note}
        /\ t.write[row] = "there" /\ t.write[note] = d[note] + 1
    BY <1>4 DEF FollowAt
  <2>. QED
    BY <1>1, <1>2, <1>4, <2>1 DEF FollowDone, Committed, Others
<1>5. ASSUME DOMAIN t.write # {}, UnfollowAt(t, d)
      PROVE  UnfollowDone(u, v, d, e)
  <2>1. /\ d[row] = "there" /\ DOMAIN t.write = {row, note}
        /\ t.write[row] = Absent /\ t.write[note] = 0
    BY <1>5 DEF UnfollowAt
  <2>. QED
    BY <1>1, <1>2, <1>5, <2>1 DEF UnfollowDone, Committed, Others
<1>. QED
  BY <1>3, <1>4, <1>5

LEMMA PublishCommits ==
  ASSUME NEW t, NEW d, NEW e, Committed(t, d, e), t.pc = "commit", PublishAt(t, d),
         d[Post(t.on)] = Absent
  PROVE  PublishDone(t.on, t.text, d, e)
<1>1. Post(t.on) \in Items /\ PostTags(t.on) \in Items
  BY Places DEF PublishAt
<1>2. /\ Post(t.on) \in DOMAIN t.write /\ t.write[Post(t.on)] = NewPost(t.text)
      /\ PostTags(t.on) \in DOMAIN t.write /\ t.write[PostTags(t.on)] = TagsOf[t.text]
      /\ DOMAIN t.write \subseteq {Post(t.on), PostTags(t.on)} \union TagRows
      /\ t.on \in Posts /\ t.text \in Texts
  BY DEF PublishAt, Tagging, Writes, TagRows
<1>3. Others(d, e, {Post(t.on), PostTags(t.on)} \union TagRows)
  BY <1>2 DEF Committed, Others
<1>. QED
  BY <1>1, <1>2, <1>3 DEF Committed, PublishDone

LEMMA EditCommits ==
  ASSUME NEW t, NEW d, NEW e, Committed(t, d, e), t.pc = "commit", EditAt(t, d),
         DbOK(d)
  PROVE  Others(d, e, TagRows) \/ EditDone(t.on, t.text, d, e)
<1>1. Post(t.on) \in Items /\ PostTags(t.on) \in Items
  BY Places DEF EditAt
<1>2. /\ Post(t.on) \in DOMAIN t.write <=> ThereIn(d, Post(t.on))
      /\ Post(t.on) \in DOMAIN t.write =>
           t.write[Post(t.on)] = [d[Post(t.on)] EXCEPT !.text = t.text]
      /\ PostTags(t.on) \in DOMAIN t.write
      /\ t.write[PostTags(t.on)] =
           IF Post(t.on) \in DOMAIN t.write THEN TagsOf[t.text] ELSE {}
      /\ DOMAIN t.write \subseteq {Post(t.on), PostTags(t.on)} \union TagRows
      /\ t.on \in Posts /\ t.text \in Texts
  BY DEF EditAt, Tagging, Writes, TagRows
<1>3. CASE ThereIn(d, Post(t.on))
  <2>1. Others(d, e, {Post(t.on), PostTags(t.on)} \union TagRows)
    BY <1>2 DEF Committed, Others
  <2>. QED
    BY <1>1, <1>2, <1>3, <2>1 DEF Committed, EditDone
<1>4. CASE ~ThereIn(d, Post(t.on))
  <2>1. d[PostTags(t.on)] = {}
    BY <1>2, <1>4 DEF DbOK, TagsOK
  <2>2. e[PostTags(t.on)] = d[PostTags(t.on)]
    BY <1>1, <1>2, <1>4, <2>1 DEF Committed
  <2>. QED
    BY <1>2, <1>4, <2>2 DEF Committed, Others
<1>. QED
  BY <1>3, <1>4

LEMMA DeletePostCommits ==
  ASSUME NEW t, NEW d, NEW e, Committed(t, d, e), t.pc = "commit",
         DeletePostAt(t, d), DbOK(d), NotesFit(d)
  PROVE  DeletePostDone(t.on, d, e)
<1>. DEFINE p == t.on
<1>1. \A i \in Items : e[i] = IF Writes(t, i) THEN t.write[i] ELSE d[i]
  BY DEF Committed, Writes
<1>2. p \in Posts /\ ThereIn(d, Post(p))
  BY DEF DeletePostAt
<1>3. ASSUME NEW q \in Posts
      PROVE  /\ e[Post(q)] = IF q = p THEN Used ELSE d[Post(q)]
             /\ e[PostTags(q)] = IF q = p THEN {} ELSE d[PostTags(q)]
  BY <1>1, Places DEF DeletePostAt
<1>4. ASSUME NEW c \in Comments
      PROVE  /\ e[Comment(c)] = IF On[c] = p /\ d[Comment(c)] = "there" THEN Used
                                ELSE d[Comment(c)]
             /\ e[CommentNote(c)] = IF On[c] = p THEN 0 ELSE d[CommentNote(c)]
  <2>1. /\ Writes(t, Comment(c)) <=> d[Comment(c)] = "there" /\ On[c] = p
        /\ Writes(t, Comment(c)) => t.write[Comment(c)] = Used
        /\ Writes(t, CommentNote(c)) <=> Writes(t, Comment(c))
        /\ Writes(t, CommentNote(c)) => t.write[CommentNote(c)] = 0
    BY DEF DeletePostAt
  <2>2. d[Comment(c)] # "there" => d[CommentNote(c)] = 0
    BY DEF NotesFit
  <2>3. Comment(c) \in Items /\ CommentNote(c) \in Items
    BY Places
  <2>. QED
    BY <1>1, <2>1, <2>2, <2>3
<1>5. ASSUME NEW x \in Users, NEW q \in Posts
      PROVE  /\ e[LikeRow(x, q)] = IF q = p THEN Absent ELSE d[LikeRow(x, q)]
             /\ e[LikeNote(x, q)] = IF q = p THEN 0 ELSE d[LikeNote(x, q)]
  <2>1. /\ Writes(t, LikeRow(x, q)) <=> d[LikeRow(x, q)] = "there" /\ q = p
        /\ Writes(t, LikeRow(x, q)) => t.write[LikeRow(x, q)] = Absent
        /\ Writes(t, LikeNote(x, q)) <=> q = p
        /\ Writes(t, LikeNote(x, q)) => t.write[LikeNote(x, q)] = 0
    BY DEF DeletePostAt
  <2>2. d[LikeRow(x, q)] \in {"there", Absent}
    BY DEF DbOK, RowsOK
  <2>3. LikeRow(x, q) \in Items /\ LikeNote(x, q) \in Items
    BY Places
  <2>. QED
    BY <1>1, <2>1, <2>2, <2>3
<1>6. ASSUME NEW x \in Users, NEW y \in Users
      PROVE  e[FollowRow(x, y)] = d[FollowRow(x, y)]
             /\ e[FollowNote(x, y)] = d[FollowNote(x, y)]
  BY <1>1, Places DEF DeletePostAt
<1>7. \A x \in Users : e[User(x)] = d[User(x)]
  BY <1>1, Places DEF DeletePostAt
<1>. QED
  BY <1>2, <1>3, <1>4, <1>5, <1>6, <1>7 DEF DeletePostDone

LEMMA LeaveCommits ==
  ASSUME NEW t, NEW d, NEW e, Committed(t, d, e), t.pc = "commit", LeaveAt(t, d),
         DbOK(d), ForeignKeys(d), NotesFit(d)
  PROVE  LeaveDone(t.user, d, e)
<1>. DEFINE u == t.user
<1>1. \A i \in Items : e[i] = IF Writes(t, i) THEN t.write[i] ELSE d[i]
  BY DEF Committed, Writes
<1>2. u \in Users /\ Leaves(t, d, 8)
  BY DEF LeaveAt, Leaving, Done
<1>3. ASSUME NEW p \in Posts
      PROVE  /\ e[Post(p)] = IF Mine(d, u, p) THEN Used
                             ELSE IF ThereIn(d, Post(p)) THEN Uncounted(d, u, p, 8)
                             ELSE d[Post(p)]
             /\ e[PostTags(p)] = IF Mine(d, u, p) THEN {} ELSE d[PostTags(p)]
  <2>1. /\ Writes(t, Post(p)) <=>
             \/ Mine(d, u, p)
             \/ Owner[p] # u /\ Said(d, u, p) # {}
             \/ Owner[p] # u /\ LikesIt(d, u, p)
        /\ Writes(t, Post(p)) =>
             t.write[Post(p)] = IF Owner[p] = u THEN Used ELSE Uncounted(d, u, p, 8)
        /\ Writes(t, PostTags(p)) <=> Mine(d, u, p)
        /\ Writes(t, PostTags(p)) => t.write[PostTags(p)] = {}
    BY <1>2 DEF Leaves, LeavePosts
  <2>2. Said(d, u, p) # {} \/ LikesIt(d, u, p) => ThereIn(d, Post(p))
    BY <1>2 DEF Said, LikesIt, ForeignKeys
  <2>3. ThereIn(d, Post(p)) => d[Post(p)] \in PostRows
    BY DEF DbOK, RowsOK, ThereIn
  <2>4. ThereIn(d, Post(p)) /\ Said(d, u, p) = {} /\ ~LikesIt(d, u, p) =>
          Uncounted(d, u, p, 8) = d[Post(p)]
    <3>1. Cardinality({}) = 0
      BY FS_EmptySet
    <3>. QED
      BY <2>3, <3>1 DEF Uncounted, Less, PostRows
  <2>5. Post(p) \in Items /\ PostTags(p) \in Items
    BY Places
  <2>6. Mine(d, u, p) <=> Owner[p] = u /\ ThereIn(d, Post(p))
    BY DEF Mine
  <2>. QED
    BY <1>1, <2>1, <2>2, <2>4, <2>5, <2>6
<1>4. ASSUME NEW c \in Comments
      PROVE  /\ e[Comment(c)] = IF d[Comment(c)] = "there" /\ u \in {Author[c], Owner[On[c]]}
                                THEN Used ELSE d[Comment(c)]
             /\ e[CommentNote(c)] = IF u \in {Author[c], Owner[On[c]]} THEN 0
                                    ELSE d[CommentNote(c)]
  <2>1. /\ Writes(t, Comment(c)) <=>
             d[Comment(c)] = "there" /\ u \in {Author[c], Owner[On[c]]}
        /\ Writes(t, Comment(c)) => t.write[Comment(c)] = Used
        /\ Writes(t, CommentNote(c)) <=> u \in {Author[c], Owner[On[c]]}
        /\ Writes(t, CommentNote(c)) => t.write[CommentNote(c)] = 0
    BY <1>2 DEF Leaves, LeaveComments
  <2>2. Comment(c) \in Items /\ CommentNote(c) \in Items
    BY Places
  <2>. QED
    BY <1>1, <2>1, <2>2
<1>5. ASSUME NEW x \in Users, NEW p \in Posts
      PROVE  /\ e[LikeRow(x, p)] = IF u \in {x, Owner[p]} THEN Absent ELSE d[LikeRow(x, p)]
             /\ e[LikeNote(x, p)] = IF u \in {x, Owner[p]} THEN 0 ELSE d[LikeNote(x, p)]
  <2>1. /\ Writes(t, LikeRow(x, p)) <=>
             d[LikeRow(x, p)] = "there" /\ u \in {x, Owner[p]}
        /\ Writes(t, LikeRow(x, p)) => t.write[LikeRow(x, p)] = Absent
        /\ Writes(t, LikeNote(x, p)) <=> u \in {x, Owner[p]}
        /\ Writes(t, LikeNote(x, p)) => t.write[LikeNote(x, p)] = 0
    BY <1>2 DEF Leaves, LeaveLikes, Mine
  <2>2. d[LikeRow(x, p)] \in {"there", Absent}
    BY DEF DbOK, RowsOK
  <2>3. LikeRow(x, p) \in Items /\ LikeNote(x, p) \in Items
    BY Places
  <2>. QED
    BY <1>1, <2>1, <2>2, <2>3
<1>6. ASSUME NEW x \in Users, NEW y \in Users
      PROVE  /\ e[FollowRow(x, y)] = IF u \in {x, y} THEN Absent ELSE d[FollowRow(x, y)]
             /\ e[FollowNote(x, y)] = IF u \in {x, y} THEN 0 ELSE d[FollowNote(x, y)]
  <2>1. /\ Writes(t, FollowRow(x, y)) <=> u \in {x, y} /\ d[FollowRow(x, y)] = "there"
        /\ Writes(t, FollowRow(x, y)) => t.write[FollowRow(x, y)] = Absent
        /\ Writes(t, FollowNote(x, y)) <=> u \in {x, y}
        /\ Writes(t, FollowNote(x, y)) => t.write[FollowNote(x, y)] = 0
    BY <1>2 DEF Leaves, LeaveFollows
  <2>2. d[FollowRow(x, y)] \in {"there", Absent}
    BY DEF DbOK, RowsOK
  <2>3. FollowRow(x, y) \in Items /\ FollowNote(x, y) \in Items
    BY Places
  <2>. QED
    BY <1>1, <2>1, <2>2, <2>3
<1>7. ASSUME NEW x \in Users
      PROVE  e[User(x)] = IF x = u THEN "left" ELSE d[User(x)]
  BY <1>1, <1>2, Places DEF Leaves, LeaveUsers
<1>. QED
  BY <1>2, <1>3, <1>4, <1>5, <1>6, <1>7 DEF LeaveDone

LEMMA Commits ==
  ASSUME IInv, NEW w \in Workers, Commit(w)
  PROVE  Effect(tx[w], db, db')
<1>. DEFINE t == tx[w]
<1>1. Committed(t, db, db') /\ t.pc = "commit"
  BY DEF Commit, Committed, Get
<1>2. DbOK(db) /\ ForeignKeys(db) /\ NotesFit(db) /\ Doing(t, db) /\ New(t, db)
  BY DEF IInv, Fresh
<1>. HIDE DEF t
<1>3. t.kind = "like" /\ LikeAt(t, db) => Effect(t, db, db')
  BY <1>1, <1>2, LikeCommits DEF Effect
<1>4. t.kind = "unlike" /\ UnlikeAt(t, db) => Effect(t, db, db')
  BY <1>1, <1>2, LikeCommits DEF Effect
<1>5. t.kind = "comment" /\ CommentAt(t, db) => Effect(t, db, db')
  BY <1>1, <1>2, CommentCommits DEF Effect, New
<1>6. t.kind = "uncomment" /\ UncommentAt(t, db) => Effect(t, db, db')
  BY <1>1, UncommentCommits DEF Effect
<1>7. t.kind = "follow" /\ FollowAt(t, db) => Effect(t, db, db')
  BY <1>1, FollowCommits DEF Effect
<1>8. t.kind = "unfollow" /\ UnfollowAt(t, db) => Effect(t, db, db')
  BY <1>1, FollowCommits DEF Effect
<1>9. t.kind = "publish" /\ PublishAt(t, db) => Effect(t, db, db')
  BY <1>1, <1>2, PublishCommits DEF Effect, New
<1>10. t.kind = "edit" /\ EditAt(t, db) => Effect(t, db, db')
  BY <1>1, <1>2, EditCommits DEF Effect
<1>11. t.kind = "deletePost" /\ DeletePostAt(t, db) => Effect(t, db, db')
  BY <1>1, <1>2, DeletePostCommits DEF Effect
<1>12. t.kind = "leave" /\ LeaveAt(t, db) => Effect(t, db, db')
  BY <1>1, <1>2, LeaveCommits DEF Effect
<1>13. ~IdleAt(t)
  BY <1>1 DEF IdleAt
<1>. QED
  BY <1>2, <1>3, <1>4, <1>5, <1>6, <1>7, <1>8, <1>9, <1>10, <1>11, <1>12, <1>13
  DEF Doing, t

-----------------------------------------------------------------------------
(* Which rows an operation leaves untouched.                                 *)
PostsSame(d, e, X) == \A p \in Posts \ X : e[Post(p)] = d[Post(p)]
TagsSame(d, e, X) == \A p \in Posts \ X : e[PostTags(p)] = d[PostTags(p)]
CommentsSame(d, e, X) ==
  \A c \in Comments \ X :
    e[Comment(c)] = d[Comment(c)] /\ e[CommentNote(c)] = d[CommentNote(c)]
LikesSame(d, e, X) ==
  \A u \in Users, p \in Posts :
    <<u, p>> \notin X =>
      e[LikeRow(u, p)] = d[LikeRow(u, p)] /\ e[LikeNote(u, p)] = d[LikeNote(u, p)]
FollowsSame(d, e, X) ==
  \A u, v \in Users :
    <<u, v>> \notin X =>
      e[FollowRow(u, v)] = d[FollowRow(u, v)] /\ e[FollowNote(u, v)] = d[FollowNote(u, v)]
UsersSame(d, e) == \A u \in Users : e[User(u)] = d[User(u)]
Untouched(d, e, P, T, C, L, F) ==
  /\ PostsSame(d, e, P) /\ TagsSame(d, e, T) /\ CommentsSame(d, e, C)
  /\ LikesSame(d, e, L) /\ FollowsSame(d, e, F) /\ UsersSame(d, e)

LEMMA OthersAre ==
  ASSUME NEW d, NEW e, NEW S, Others(d, e, S), NEW P, NEW T, NEW C, NEW L, NEW F,
         \A p \in Posts : Post(p) \in S => p \in P,
         \A p \in Posts : PostTags(p) \in S => p \in T,
         \A c \in Comments : Comment(c) \in S \/ CommentNote(c) \in S => c \in C,
         \A u \in Users, p \in Posts :
           LikeRow(u, p) \in S \/ LikeNote(u, p) \in S => <<u, p>> \in L,
         \A u, v \in Users :
           FollowRow(u, v) \in S \/ FollowNote(u, v) \in S => <<u, v>> \in F,
         \A u \in Users : User(u) \notin S
  PROVE  Untouched(d, e, P, T, C, L, F)
<1>1. PostsSame(d, e, P) /\ TagsSame(d, e, T)
  BY Places DEF Others, PostsSame, TagsSame
<1>2. CommentsSame(d, e, C) /\ LikesSame(d, e, L)
  BY Places DEF Others, CommentsSame, LikesSame
<1>3. FollowsSame(d, e, F) /\ UsersSame(d, e)
  BY Places DEF Others, FollowsSame, UsersSame
<1>. QED
  BY <1>1, <1>2, <1>3 DEF Untouched

LEMMA LeftAlone ==
  ASSUME NEW d, NEW e
  PROVE  /\ Others(d, e, TagRows) => Untouched(d, e, {}, {}, {}, {}, {})
         /\ \A u \in Users, p \in Posts :
              LikeDone(u, p, d, e) \/ UnlikeDone(u, p, d, e) =>
                Untouched(d, e, {p}, {}, {}, {<<u, p>>}, {})
         /\ \A c \in Comments :
              CommentDone(c, d, e) \/ UncommentDone(c, d, e) =>
                Untouched(d, e, {On[c]}, {}, {c}, {}, {})
         /\ \A u, v \in Users :
              FollowDone(u, v, d, e) \/ UnfollowDone(u, v, d, e) =>
                Untouched(d, e, {}, {}, {}, {}, {<<u, v>>})
         /\ \A p \in Posts, s \in Texts :
              PublishDone(p, s, d, e) \/ EditDone(p, s, d, e) =>
                Untouched(d, e, {p}, {p}, {}, {}, {})
<1>1. Others(d, e, TagRows) => Untouched(d, e, {}, {}, {}, {}, {})
  BY Parts, OthersAre DEF TagRows
<1>2. ASSUME NEW u \in Users, NEW p \in Posts,
             LikeDone(u, p, d, e) \/ UnlikeDone(u, p, d, e)
      PROVE  Untouched(d, e, {p}, {}, {}, {<<u, p>>}, {})
  <2>1. Others(d, e, {LikeRow(u, p), Post(p), LikeNote(u, p)})
    BY <1>2 DEF LikeDone, UnlikeDone
  <2>. QED
    BY <2>1, Parts, OthersAre
<1>3. ASSUME NEW c \in Comments, CommentDone(c, d, e) \/ UncommentDone(c, d, e)
      PROVE  Untouched(d, e, {On[c]}, {}, {c}, {}, {})
  <2>1. Others(d, e, {Comment(c), Post(On[c]), CommentNote(c)})
    BY <1>3 DEF CommentDone, UncommentDone
  <2>. QED
    BY <2>1, Parts, OthersAre
<1>4. ASSUME NEW u \in Users, NEW v \in Users,
             FollowDone(u, v, d, e) \/ UnfollowDone(u, v, d, e)
      PROVE  Untouched(d, e, {}, {}, {}, {}, {<<u, v>>})
  <2>1. Others(d, e, {FollowRow(u, v), FollowNote(u, v)})
    BY <1>4 DEF FollowDone, UnfollowDone
  <2>. QED
    BY <2>1, Parts, OthersAre
<1>5. ASSUME NEW p \in Posts, NEW s \in Texts,
             PublishDone(p, s, d, e) \/ EditDone(p, s, d, e)
      PROVE  Untouched(d, e, {p}, {p}, {}, {}, {})
  <2>1. Others(d, e, {Post(p), PostTags(p)} \union TagRows)
    BY <1>5 DEF PublishDone, EditDone
  <2>. QED
    BY <2>1, Parts, OthersAre DEF TagRows
<1>. QED
  BY <1>1, <1>2, <1>3, <1>4, <1>5

-----------------------------------------------------------------------------
(* The committed rows stay sound, and nothing comes that the locks of other *)
(* transactions rule out.                                                   *)
Sound(d) == DbOK(d) /\ ForeignKeys(d) /\ NotesFit(d)
Discreet(t, d, e) ==
  /\ \A p \in Posts : e[Post(p)] = Absent => d[Post(p)] = Absent
  /\ \A p \in Posts :
       d[Post(p)] = Absent /\ e[Post(p)] # Absent => t.kind = "publish" /\ t.on = p
  /\ \A c \in Comments :
       d[Comment(c)] = Absent /\ e[Comment(c)] # Absent => t.kind = "comment" /\ t.on = c
  /\ \A c \in Comments : e[Comment(c)] = "there" /\ d[Comment(c)] # "there" =>
       ThereIn(d, Post(On[c])) /\ Post(On[c]) \in t.shared
  /\ \A u \in Users, p \in Posts :
       e[LikeRow(u, p)] = "there" /\ d[LikeRow(u, p)] # "there" =>
         ThereIn(d, Post(p)) /\ Post(p) \in t.shared

LEMMA RowIs ==
  ASSUME NEW d, NEW p \in Posts, RowsOK(d), ThereIn(d, Post(p))
  PROVE  LET r == d[Post(p)] IN
         /\ r \in PostRows
         /\ [r EXCEPT !.likes = @ + 1] \in PostRows
         /\ [r EXCEPT !.likes = Less(@, 1)] \in PostRows
         /\ [r EXCEPT !.comments = @ + 1] \in PostRows
         /\ [r EXCEPT !.comments = Less(@, 1)] \in PostRows
         /\ \A s \in Texts : [r EXCEPT !.text = s] \in PostRows
         /\ \A u : Uncounted(d, u, p, 8) \in PostRows
<1>. DEFINE r == d[Post(p)]
<1>1. r \in PostRows
  BY DEF RowsOK, ThereIn
<1>2. ASSUME NEW u
      PROVE  Uncounted(d, u, p, 8) \in PostRows
  <2>1. Said(d, u, p) \subseteq Comments
    BY DEF Said
  <2>2. IsFiniteSet(Said(d, u, p))
    BY <2>1, FS_Subset, FiniteAssumption
  <2>3. Cardinality(Said(d, u, p)) \in Nat
    BY <2>2, FS_CardinalityType
  <2>. QED
    BY <1>1, <2>3 DEF Uncounted, Less, PostRows
<1>. QED
  BY <1>1, <1>2 DEF PostRows, Less

LEMMA TextTags == \A s \in Texts : TagsOf[s] \subseteq Tags
<1>1. ASSUME NEW s \in Texts, NEW i \in DOMAIN TagList[s]
      PROVE  TagList[s][i] \in Tags
  <2>1. TagList[s] \in Seq(Tags)
    BY TagAssumption
  <2>. QED
    BY <2>1
<1>. QED
  BY <1>1 DEF TagsOf

LEMMA PostsSound ==
  ASSUME NEW d, NEW e, Sound(d), NEW P, PostsSame(d, e, P),
         \A p \in Posts \intersect P : e[Post(p)] \in PostRows
  PROVE  /\ \A p \in Posts : e[Post(p)] \in PostRows \union {Absent, Used}
         /\ \A p \in Posts : ThereIn(d, Post(p)) => ThereIn(e, Post(p))
         /\ \A p \in Posts : e[Post(p)] = Absent => d[Post(p)] = Absent
BY AbsentAssumption DEF Sound, DbOK, RowsOK, PostsSame, ThereIn

LEMMA LikeSound ==
  ASSUME NEW t, NEW d, NEW e, Sound(d), LikeDone(t.user, t.on, d, e),
         Post(t.on) \in t.shared
  PROVE  Sound(e) /\ Discreet(t, d, e)
<1>. DEFINE u == t.user  p == t.on
<1>1. u \in Users /\ p \in Posts
  BY DEF LikeDone
<1>2. /\ PostsSame(d, e, {p}) /\ TagsSame(d, e, {})
      /\ CommentsSame(d, e, {}) /\ LikesSame(d, e, {<<u, p>>})
      /\ FollowsSame(d, e, {}) /\ UsersSame(d, e)
  BY <1>1, LeftAlone DEF Untouched
<1>3. ThereIn(d, Post(p))
  BY <1>1 DEF LikeDone, Sound, ForeignKeys
<1>4. e[Post(p)] \in PostRows
  <2>1. d[Post(p)] \in PostRows
    BY <1>1, <1>3, RowIs DEF Sound, DbOK
  <2>. QED
    BY <2>1 DEF LikeDone, PostRows, Less
<1>5. /\ \A q \in Posts : e[Post(q)] \in PostRows \union {Absent, Used}
      /\ \A q \in Posts : ThereIn(d, Post(q)) => ThereIn(e, Post(q))
      /\ \A q \in Posts : e[Post(q)] = Absent => d[Post(q)] = Absent
  BY <1>2, <1>4, PostsSound
<1>6. RowsOK(e)
  BY <1>1, <1>2, <1>5 DEF LikeDone, Sound, DbOK, RowsOK, CommentsSame, LikesSame,
     FollowsSame, UsersSame
<1>7. NotesOK(e)
  BY <1>1, <1>2 DEF LikeDone, Sound, DbOK, NotesOK, CommentsSame, LikesSame, FollowsSame
<1>8. TagsOK(e)
  BY <1>1, <1>2, <1>5
  DEF LikeDone, Sound, DbOK, TagsOK, TagsSame
<1>9. ForeignKeys(e)
  BY <1>1, <1>2, <1>5, OnAssumption, AbsentAssumption
  DEF LikeDone, Sound, ForeignKeys, CommentsSame, LikesSame
<1>10. NotesFit(e)
  BY <1>1, <1>2, OwnerAssumption DEF LikeDone, Sound, NotesFit, CommentsSame, LikesSame
<1>11. Discreet(t, d, e)
  BY <1>1, <1>2, <1>3, <1>5, AbsentAssumption
  DEF LikeDone, ThereIn, Discreet, PostsSame, CommentsSame, LikesSame
<1>. QED
  BY <1>6, <1>7, <1>8, <1>9, <1>10, <1>11 DEF Sound, DbOK

LEMMA UnlikeSound ==
  ASSUME NEW t, NEW d, NEW e, Sound(d), UnlikeDone(t.user, t.on, d, e)
  PROVE  Sound(e) /\ Discreet(t, d, e)
<1>. DEFINE u == t.user  p == t.on
<1>1. u \in Users /\ p \in Posts
  BY DEF UnlikeDone
<1>2. /\ PostsSame(d, e, {p}) /\ TagsSame(d, e, {})
      /\ CommentsSame(d, e, {}) /\ LikesSame(d, e, {<<u, p>>})
      /\ FollowsSame(d, e, {}) /\ UsersSame(d, e)
  BY <1>1, LeftAlone DEF Untouched
<1>3. ThereIn(d, Post(p))
  BY <1>1 DEF UnlikeDone, Sound, ForeignKeys
<1>4. e[Post(p)] \in PostRows
  <2>1. d[Post(p)] \in PostRows
    BY <1>1, <1>3, RowIs DEF Sound, DbOK
  <2>. QED
    BY <2>1 DEF UnlikeDone, PostRows, Less
<1>5. /\ \A q \in Posts : e[Post(q)] \in PostRows \union {Absent, Used}
      /\ \A q \in Posts : ThereIn(d, Post(q)) => ThereIn(e, Post(q))
      /\ \A q \in Posts : e[Post(q)] = Absent => d[Post(q)] = Absent
  BY <1>2, <1>4, PostsSound
<1>6. RowsOK(e)
  BY <1>1, <1>2, <1>5 DEF UnlikeDone, Sound, DbOK, RowsOK, CommentsSame, LikesSame,
     FollowsSame, UsersSame
<1>7. NotesOK(e)
  BY <1>1, <1>2 DEF UnlikeDone, Sound, DbOK, NotesOK, CommentsSame, LikesSame, FollowsSame
<1>8. TagsOK(e)
  BY <1>1, <1>2, <1>5
  DEF UnlikeDone, Sound, DbOK, TagsOK, TagsSame
<1>9. ForeignKeys(e)
  BY <1>1, <1>2, <1>5, OnAssumption, AbsentAssumption
  DEF UnlikeDone, Sound, ForeignKeys, CommentsSame, LikesSame
<1>10. NotesFit(e)
  BY <1>1, <1>2, OwnerAssumption DEF UnlikeDone, Sound, NotesFit, CommentsSame, LikesSame
<1>11. Discreet(t, d, e)
  BY <1>1, <1>2, <1>3, <1>5, AbsentAssumption
  DEF UnlikeDone, ThereIn, Discreet, PostsSame, CommentsSame, LikesSame
<1>. QED
  BY <1>6, <1>7, <1>8, <1>9, <1>10, <1>11 DEF Sound, DbOK

LEMMA CommentSound ==
  ASSUME NEW t, NEW d, NEW e, Sound(d), t.kind = "comment",
         CommentDone(t.on, d, e), Post(On[t.on]) \in t.shared
  PROVE  Sound(e) /\ Discreet(t, d, e)
<1>. DEFINE c == t.on  p == On[c]
<1>1. c \in Comments /\ p \in Posts
  BY OnAssumption DEF CommentDone
<1>2. /\ PostsSame(d, e, {p}) /\ TagsSame(d, e, {})
      /\ CommentsSame(d, e, {c}) /\ LikesSame(d, e, {})
      /\ FollowsSame(d, e, {}) /\ UsersSame(d, e)
  BY <1>1, LeftAlone DEF Untouched
<1>3. ThereIn(d, Post(p))
  BY <1>1 DEF CommentDone, Sound, ForeignKeys
<1>4. e[Post(p)] \in PostRows
  <2>1. d[Post(p)] \in PostRows
    BY <1>1, <1>3, RowIs DEF Sound, DbOK
  <2>. QED
    BY <2>1 DEF CommentDone, PostRows, Less
<1>5. /\ \A q \in Posts : e[Post(q)] \in PostRows \union {Absent, Used}
      /\ \A q \in Posts : ThereIn(d, Post(q)) => ThereIn(e, Post(q))
      /\ \A q \in Posts : e[Post(q)] = Absent => d[Post(q)] = Absent
  BY <1>2, <1>4, PostsSound
<1>6. RowsOK(e)
  BY <1>1, <1>2, <1>5 DEF CommentDone, Sound, DbOK, RowsOK, CommentsSame, LikesSame,
     FollowsSame, UsersSame
<1>7. NotesOK(e)
  BY <1>1, <1>2 DEF CommentDone, Sound, DbOK, NotesOK, CommentsSame, LikesSame, FollowsSame
<1>8. TagsOK(e)
  BY <1>1, <1>2, <1>5
  DEF CommentDone, Sound, DbOK, TagsOK, TagsSame
<1>9. ForeignKeys(e)
  BY <1>1, <1>2, <1>5, OnAssumption, AbsentAssumption
  DEF CommentDone, Sound, ForeignKeys, CommentsSame, LikesSame
<1>10. NotesFit(e)
  BY <1>1, <1>2, OwnerAssumption DEF CommentDone, Sound, NotesFit, CommentsSame, LikesSame
<1>11. Discreet(t, d, e)
  BY <1>1, <1>2, <1>3, <1>5, AbsentAssumption
  DEF CommentDone, ThereIn, Discreet, PostsSame, CommentsSame, LikesSame
<1>. QED
  BY <1>6, <1>7, <1>8, <1>9, <1>10, <1>11 DEF Sound, DbOK

LEMMA UncommentSound ==
  ASSUME NEW t, NEW d, NEW e, Sound(d), UncommentDone(t.on, d, e)
  PROVE  Sound(e) /\ Discreet(t, d, e)
<1>. DEFINE c == t.on  p == On[c]
<1>1. c \in Comments /\ p \in Posts
  BY OnAssumption DEF UncommentDone
<1>2. /\ PostsSame(d, e, {p}) /\ TagsSame(d, e, {})
      /\ CommentsSame(d, e, {c}) /\ LikesSame(d, e, {})
      /\ FollowsSame(d, e, {}) /\ UsersSame(d, e)
  BY <1>1, LeftAlone DEF Untouched
<1>3. ThereIn(d, Post(p))
  BY <1>1 DEF UncommentDone, Sound, ForeignKeys
<1>4. e[Post(p)] \in PostRows
  <2>1. d[Post(p)] \in PostRows
    BY <1>1, <1>3, RowIs DEF Sound, DbOK
  <2>. QED
    BY <2>1 DEF UncommentDone, PostRows, Less
<1>5. /\ \A q \in Posts : e[Post(q)] \in PostRows \union {Absent, Used}
      /\ \A q \in Posts : ThereIn(d, Post(q)) => ThereIn(e, Post(q))
      /\ \A q \in Posts : e[Post(q)] = Absent => d[Post(q)] = Absent
  BY <1>2, <1>4, PostsSound
<1>6. RowsOK(e)
  BY <1>1, <1>2, <1>5 DEF UncommentDone, Sound, DbOK, RowsOK, CommentsSame, LikesSame,
     FollowsSame, UsersSame
<1>7. NotesOK(e)
  BY <1>1, <1>2 DEF UncommentDone, Sound, DbOK, NotesOK, CommentsSame, LikesSame, FollowsSame
<1>8. TagsOK(e)
  BY <1>1, <1>2, <1>5
  DEF UncommentDone, Sound, DbOK, TagsOK, TagsSame
<1>9. ForeignKeys(e)
  BY <1>1, <1>2, <1>5, OnAssumption, AbsentAssumption
  DEF UncommentDone, Sound, ForeignKeys, CommentsSame, LikesSame
<1>10. NotesFit(e)
  BY <1>1, <1>2, OwnerAssumption DEF UncommentDone, Sound, NotesFit, CommentsSame, LikesSame
<1>11. Discreet(t, d, e)
  BY <1>1, <1>2, <1>3, <1>5, AbsentAssumption
  DEF UncommentDone, ThereIn, Discreet, PostsSame, CommentsSame, LikesSame
<1>. QED
  BY <1>6, <1>7, <1>8, <1>9, <1>10, <1>11 DEF Sound, DbOK

LEMMA FollowSound ==
  ASSUME NEW t, NEW d, NEW e, Sound(d), FollowDone(t.user, t.on, d, e)
  PROVE  Sound(e) /\ Discreet(t, d, e)
<1>. DEFINE u == t.user  v == t.on
<1>1. u \in Users /\ v \in Users
  BY DEF FollowDone
<1>2. /\ PostsSame(d, e, {}) /\ TagsSame(d, e, {})
      /\ CommentsSame(d, e, {}) /\ LikesSame(d, e, {})
      /\ FollowsSame(d, e, {<<u, v>>}) /\ UsersSame(d, e)
  BY <1>1, LeftAlone DEF Untouched
<1>5. /\ \A q \in Posts : e[Post(q)] \in PostRows \union {Absent, Used}
      /\ \A q \in Posts : ThereIn(d, Post(q)) => ThereIn(e, Post(q))
      /\ \A q \in Posts : e[Post(q)] = Absent => d[Post(q)] = Absent
  BY <1>2, PostsSound
<1>6. RowsOK(e)
  BY <1>1, <1>2, <1>5 DEF FollowDone, Sound, DbOK, RowsOK, CommentsSame, LikesSame,
     FollowsSame, UsersSame
<1>7. NotesOK(e)
  BY <1>1, <1>2 DEF FollowDone, Sound, DbOK, NotesOK, CommentsSame, LikesSame, FollowsSame
<1>8. TagsOK(e)
  BY <1>1, <1>2, <1>5
  DEF FollowDone, Sound, DbOK, TagsOK, TagsSame
<1>9. ForeignKeys(e)
  BY <1>1, <1>2, <1>5, OnAssumption, AbsentAssumption
  DEF FollowDone, Sound, ForeignKeys, CommentsSame, LikesSame
<1>10. NotesFit(e)
  BY <1>1, <1>2, OwnerAssumption DEF FollowDone, Sound, NotesFit, CommentsSame, LikesSame
<1>11. Discreet(t, d, e)
  BY <1>1, <1>2, <1>5, AbsentAssumption
  DEF FollowDone, ThereIn, Discreet, PostsSame, CommentsSame, LikesSame
<1>. QED
  BY <1>6, <1>7, <1>8, <1>9, <1>10, <1>11 DEF Sound, DbOK

LEMMA UnfollowSound ==
  ASSUME NEW t, NEW d, NEW e, Sound(d), UnfollowDone(t.user, t.on, d, e)
  PROVE  Sound(e) /\ Discreet(t, d, e)
<1>. DEFINE u == t.user  v == t.on
<1>1. u \in Users /\ v \in Users
  BY DEF UnfollowDone
<1>2. /\ PostsSame(d, e, {}) /\ TagsSame(d, e, {})
      /\ CommentsSame(d, e, {}) /\ LikesSame(d, e, {})
      /\ FollowsSame(d, e, {<<u, v>>}) /\ UsersSame(d, e)
  BY <1>1, LeftAlone DEF Untouched
<1>5. /\ \A q \in Posts : e[Post(q)] \in PostRows \union {Absent, Used}
      /\ \A q \in Posts : ThereIn(d, Post(q)) => ThereIn(e, Post(q))
      /\ \A q \in Posts : e[Post(q)] = Absent => d[Post(q)] = Absent
  BY <1>2, PostsSound
<1>6. RowsOK(e)
  BY <1>1, <1>2, <1>5 DEF UnfollowDone, Sound, DbOK, RowsOK, CommentsSame, LikesSame,
     FollowsSame, UsersSame
<1>7. NotesOK(e)
  BY <1>1, <1>2 DEF UnfollowDone, Sound, DbOK, NotesOK, CommentsSame, LikesSame, FollowsSame
<1>8. TagsOK(e)
  BY <1>1, <1>2, <1>5
  DEF UnfollowDone, Sound, DbOK, TagsOK, TagsSame
<1>9. ForeignKeys(e)
  BY <1>1, <1>2, <1>5, OnAssumption, AbsentAssumption
  DEF UnfollowDone, Sound, ForeignKeys, CommentsSame, LikesSame
<1>10. NotesFit(e)
  BY <1>1, <1>2, OwnerAssumption DEF UnfollowDone, Sound, NotesFit, CommentsSame, LikesSame
<1>11. Discreet(t, d, e)
  BY <1>1, <1>2, <1>5, AbsentAssumption
  DEF UnfollowDone, ThereIn, Discreet, PostsSame, CommentsSame, LikesSame
<1>. QED
  BY <1>6, <1>7, <1>8, <1>9, <1>10, <1>11 DEF Sound, DbOK

LEMMA PublishSound ==
  ASSUME NEW t, NEW d, NEW e, Sound(d), t.kind = "publish",
         PublishDone(t.on, t.text, d, e)
  PROVE  Sound(e) /\ Discreet(t, d, e)
<1>. DEFINE p == t.on
<1>1. p \in Posts /\ t.text \in Texts
  BY DEF PublishDone
<1>2. /\ PostsSame(d, e, {p}) /\ TagsSame(d, e, {p})
      /\ CommentsSame(d, e, {}) /\ LikesSame(d, e, {})
      /\ FollowsSame(d, e, {}) /\ UsersSame(d, e)
  BY <1>1, LeftAlone DEF Untouched
<1>4. e[Post(p)] \in PostRows
  BY <1>1 DEF PublishDone, NewPost, PostRows
<1>5. /\ \A q \in Posts : e[Post(q)] \in PostRows \union {Absent, Used}
      /\ \A q \in Posts : ThereIn(d, Post(q)) => ThereIn(e, Post(q))
      /\ \A q \in Posts : e[Post(q)] = Absent => d[Post(q)] = Absent
  BY <1>2, <1>4, PostsSound
<1>6. RowsOK(e)
  BY <1>1, <1>2, <1>5 DEF PublishDone, Sound, DbOK, RowsOK, CommentsSame, LikesSame,
     FollowsSame, UsersSame
<1>7. NotesOK(e)
  BY <1>1, <1>2 DEF PublishDone, Sound, DbOK, NotesOK, CommentsSame, LikesSame, FollowsSame
<1>8. TagsOK(e)
  BY <1>1, <1>2, <1>5, <1>4, TextTags, AbsentAssumption
  DEF PublishDone, Sound, DbOK, TagsOK, TagsSame, ThereIn
<1>9. ForeignKeys(e)
  BY <1>1, <1>2, <1>5, OnAssumption, AbsentAssumption
  DEF PublishDone, Sound, ForeignKeys, CommentsSame, LikesSame
<1>10. NotesFit(e)
  BY <1>1, <1>2, OwnerAssumption DEF PublishDone, Sound, NotesFit, CommentsSame, LikesSame
<1>11. Discreet(t, d, e)
  BY <1>1, <1>2, <1>5, AbsentAssumption
  DEF PublishDone, ThereIn, Discreet, PostsSame, CommentsSame, LikesSame
<1>. QED
  BY <1>6, <1>7, <1>8, <1>9, <1>10, <1>11 DEF Sound, DbOK

LEMMA EditSound ==
  ASSUME NEW t, NEW d, NEW e, Sound(d), EditDone(t.on, t.text, d, e)
  PROVE  Sound(e) /\ Discreet(t, d, e)
<1>. DEFINE p == t.on
<1>1. p \in Posts /\ t.text \in Texts
  BY DEF EditDone
<1>2. /\ PostsSame(d, e, {p}) /\ TagsSame(d, e, {p})
      /\ CommentsSame(d, e, {}) /\ LikesSame(d, e, {})
      /\ FollowsSame(d, e, {}) /\ UsersSame(d, e)
  BY <1>1, LeftAlone DEF Untouched
<1>3. ThereIn(d, Post(p))
  BY DEF EditDone
<1>4. e[Post(p)] \in PostRows
  <2>1. d[Post(p)] \in PostRows
    BY <1>1, <1>3, RowIs DEF Sound, DbOK
  <2>. QED
    BY <1>1, <2>1 DEF EditDone, PostRows
<1>5. /\ \A q \in Posts : e[Post(q)] \in PostRows \union {Absent, Used}
      /\ \A q \in Posts : ThereIn(d, Post(q)) => ThereIn(e, Post(q))
      /\ \A q \in Posts : e[Post(q)] = Absent => d[Post(q)] = Absent
  BY <1>2, <1>4, PostsSound
<1>6. RowsOK(e)
  BY <1>1, <1>2, <1>5 DEF EditDone, Sound, DbOK, RowsOK, CommentsSame, LikesSame,
     FollowsSame, UsersSame
<1>7. NotesOK(e)
  BY <1>1, <1>2 DEF EditDone, Sound, DbOK, NotesOK, CommentsSame, LikesSame, FollowsSame
<1>8. TagsOK(e)
  BY <1>1, <1>2, <1>5, TextTags
  DEF EditDone, Sound, DbOK, TagsOK, TagsSame
<1>9. ForeignKeys(e)
  BY <1>1, <1>2, <1>5, OnAssumption, AbsentAssumption
  DEF EditDone, Sound, ForeignKeys, CommentsSame, LikesSame
<1>10. NotesFit(e)
  BY <1>1, <1>2, OwnerAssumption DEF EditDone, Sound, NotesFit, CommentsSame, LikesSame
<1>11. Discreet(t, d, e)
  BY <1>1, <1>2, <1>3, <1>5, AbsentAssumption
  DEF EditDone, ThereIn, Discreet, PostsSame, CommentsSame, LikesSame
<1>. QED
  BY <1>6, <1>7, <1>8, <1>9, <1>10, <1>11 DEF Sound, DbOK

LEMMA DeletePostSound ==
  ASSUME NEW t, NEW d, NEW e, Sound(d), DeletePostDone(t.on, d, e)
  PROVE  Sound(e) /\ Discreet(t, d, e)
<1>. DEFINE p == t.on
<1>1. RowsOK(e)
  BY AbsentAssumption DEF DeletePostDone, Sound, DbOK, RowsOK
<1>2. NotesOK(e)
  BY DEF DeletePostDone, Sound, DbOK, NotesOK
<1>3. TagsOK(e)
  BY AbsentAssumption DEF DeletePostDone, Sound, DbOK, TagsOK, ThereIn
<1>4. ForeignKeys(e)
  BY OnAssumption, AbsentAssumption DEF DeletePostDone, Sound, ForeignKeys, ThereIn
<1>5. NotesFit(e)
  BY OwnerAssumption, AbsentAssumption DEF DeletePostDone, Sound, NotesFit
<1>6. Discreet(t, d, e)
  BY AbsentAssumption DEF DeletePostDone, Discreet, ThereIn
<1>. QED
  BY <1>1, <1>2, <1>3, <1>4, <1>5, <1>6 DEF Sound, DbOK

LEMMA LeaveSound ==
  ASSUME NEW t, NEW d, NEW e, Sound(d), LeaveDone(t.user, d, e)
  PROVE  Sound(e) /\ Discreet(t, d, e)
<1>. DEFINE u == t.user
<1>1. ASSUME NEW p \in Posts
      PROVE  /\ e[Post(p)] \in PostRows \union {Absent, Used}
             /\ e[Post(p)] = Absent <=> d[Post(p)] = Absent
             /\ ThereIn(e, Post(p)) <=> ThereIn(d, Post(p)) /\ ~Mine(d, u, p)
  <2>1. e[Post(p)] = IF Mine(d, u, p) THEN Used
                     ELSE IF ThereIn(d, Post(p)) THEN Uncounted(d, u, p, 8)
                     ELSE d[Post(p)]
    BY DEF LeaveDone
  <2>2. ThereIn(d, Post(p)) => Uncounted(d, u, p, 8) \in PostRows
    BY RowIs DEF Sound, DbOK
  <2>3. d[Post(p)] \in PostRows \union {Absent, Used}
    BY DEF Sound, DbOK, RowsOK
  <2>. QED
    BY <2>1, <2>2, <2>3, AbsentAssumption DEF ThereIn, Mine
<1>2. RowsOK(e)
  BY <1>1, AbsentAssumption DEF LeaveDone, Sound, DbOK, RowsOK
<1>3. NotesOK(e)
  BY DEF LeaveDone, Sound, DbOK, NotesOK
<1>4. TagsOK(e)
  BY <1>1 DEF LeaveDone, Sound, DbOK, TagsOK
<1>5. ForeignKeys(e)
  BY <1>1, OnAssumption, AbsentAssumption DEF LeaveDone, Sound, ForeignKeys, Mine
<1>6. NotesFit(e)
  BY OwnerAssumption, AbsentAssumption DEF LeaveDone, Sound, NotesFit
<1>7. Discreet(t, d, e)
  BY <1>1, AbsentAssumption DEF LeaveDone, Discreet
<1>. QED
  BY <1>2, <1>3, <1>4, <1>5, <1>6, <1>7 DEF Sound, DbOK

LEMMA NothingSound ==
  ASSUME NEW t, NEW d, NEW e, Sound(d), Others(d, e, TagRows)
  PROVE  Sound(e) /\ Discreet(t, d, e)
<1>1. /\ PostsSame(d, e, {}) /\ TagsSame(d, e, {}) /\ CommentsSame(d, e, {})
      /\ LikesSame(d, e, {}) /\ FollowsSame(d, e, {}) /\ UsersSame(d, e)
  BY LeftAlone DEF Untouched
<1>2. RowsOK(e) /\ NotesOK(e)
  BY <1>1 DEF Sound, DbOK, RowsOK, NotesOK, PostsSame, CommentsSame, LikesSame,
     FollowsSame, UsersSame
<1>3. TagsOK(e) /\ ForeignKeys(e) /\ NotesFit(e)
  BY <1>1, OnAssumption, OwnerAssumption
  DEF Sound, DbOK, TagsOK, ForeignKeys, NotesFit, ThereIn, PostsSame, TagsSame,
      CommentsSame, LikesSame
<1>4. Discreet(t, d, e)
  BY <1>1 DEF Discreet, PostsSame, CommentsSame, LikesSame
<1>. QED
  BY <1>2, <1>3, <1>4 DEF Sound, DbOK

LEMMA EffectSound ==
  ASSUME NEW t, NEW d, NEW e, Sound(d), Effect(t, d, e)
  PROVE  Sound(e) /\ Discreet(t, d, e)
BY NothingSound, LikeSound, UnlikeSound, CommentSound, UncommentSound, FollowSound,
   UnfollowSound, PublishSound, EditSound, DeletePostSound, LeaveSound DEF Effect

-----------------------------------------------------------------------------
LEMMA CommitStep ==
  ASSUME IInv, NEW w \in Workers, Commit(w)
  PROVE  IInv'
<1>. DEFINE t == tx[w]  d == db  e == db'
<1>1. Sound(d) /\ Effect(t, d, e)
  BY Commits DEF IInv, Sound
<1>2. Sound(e) /\ Discreet(t, d, e)
  BY <1>1, EffectSound
<1>3. tx' = [tx EXCEPT ![w] = NoTx] /\ Committed(t, d, e)
  BY DEF Commit, Committed, Get
<1>4. TxOK' /\ tx'[w] = NoTx /\ \A v \in Workers \ {w} : tx'[v] = tx[v]
  BY <1>3, NoTxIs, Replaced DEF IInv
<1>5. Exclusive'
  BY <1>4, NoTxIs, NoWrites DEF IInv, Exclusive
<1>6. ASSUME NEW v \in Workers \ {w}
      PROVE  Steady(tx[v], d, e)
  <2>1. /\ DOMAIN t.write \intersect (tx[v].shared \union DOMAIN tx[v].write) = {}
        /\ DOMAIN tx[v].write \intersect t.shared = {}
    BY DEF IInv, Exclusive
  <2>2. \A i \in Items : Keeps(tx[v], i) => e[i] = d[i]
    BY <1>3, <2>1 DEF Committed, Keeps
  <2>. QED
    BY <1>2, <2>1, <2>2 DEF Discreet, Steady, Writes
<1>7. \A v \in Workers : Doing(tx'[v], e)
  <2>1. Doing(NoTx, e)
    BY NoTxIs DEF Doing
  <2>2. \A v \in Workers \ {w} : Doing(tx[v], e)
    BY <1>6, AllSteady DEF IInv
  <2>. QED
    BY <1>4, <2>1, <2>2
<1>8. Fresh'
  <2>1. \A v \in Workers \ {w} : New(tx[v], e)
    <3>. SUFFICES ASSUME NEW v \in Workers \ {w} PROVE New(tx[v], e)
      OBVIOUS
    <3>1. /\ tx[v].kind = "comment" => tx[v].on \in Comments
          /\ tx[v].kind = "publish" => tx[v].on \in Posts
      BY DEF IInv, Doing, CommentAt, PublishAt
    <3>2. /\ tx[v].kind = "comment" /\ t.kind = "comment" => tx[v].on # t.on
          /\ tx[v].kind = "publish" /\ t.kind = "publish" => tx[v].on # t.on
      BY DEF IInv, Fresh
    <3>3. New(tx[v], d)
      BY DEF IInv, Fresh
    <3>. QED
      BY <1>2, <3>1, <3>2, <3>3 DEF New, Discreet
  <2>2. New(NoTx, e)
    BY NoTxIs DEF New
  <2>3. \A v \in Workers : New(tx'[v], e)
    BY <1>4, <2>1, <2>2
  <2>. QED
    BY <1>4, <2>3, NoTxIs DEF IInv, Fresh
<1>. QED
  BY <1>2, <1>4, <1>5, <1>7, <1>8 DEF IInv, Sound

LEMMA NotesAtFirst ==
  ASSUME Init
  PROVE  /\ \A u \in Users, p \in Posts : db[LikeNote(u, p)] = 0
         /\ \A c \in Comments : db[CommentNote(c)] = 0
         /\ \A u, v \in Users : db[FollowNote(u, v)] = 0
<1>1. \A i \in Notes : i \in Items /\ db[i] = 0
  <2>1. /\ \A i \in Notes : i[1] \in {"likeNote", "commentNote", "followNote"}
        /\ \A i \in Links : i[1] = "tags"
    BY Parts DEF Notes, Links
  <2>2. \A i \in Notes : i \notin Links /\ i[1] # "user" /\ i \in Items
    BY <2>1 DEF Items
  <2>. QED
    BY <2>2 DEF Init
<1>2. /\ \A u \in Users, p \in Posts : LikeNote(u, p) \in Notes
      /\ \A c \in Comments : CommentNote(c) \in Notes
      /\ \A u, v \in Users : FollowNote(u, v) \in Notes
  BY DEF Notes
<1>. QED
  BY <1>1, <1>2

LEMMA InitHolds == Init => IInv
<1> SUFFICES ASSUME Init PROVE IInv
  OBVIOUS
<1>1. /\ \A i \in Notes : i[1] \in {"likeNote", "commentNote", "followNote"}
      /\ \A i \in Links : i[1] = "tags"
  BY Parts DEF Notes, Links
<1>2. /\ \A u \in Users : db[User(u)] = "active"
      /\ \A p \in Posts : db[Post(p)] = Absent
      /\ \A c \in Comments : db[Comment(c)] = Absent
  BY <1>1, Parts, Places DEF Init
<1>3. /\ \A u \in Users, p \in Posts : db[LikeRow(u, p)] = Absent
      /\ \A u, v \in Users : db[FollowRow(u, v)] = Absent
  BY <1>1, Parts, Places DEF Init
<1>4. /\ \A u \in Users, p \in Posts : db[LikeNote(u, p)] = 0
      /\ \A c \in Comments : db[CommentNote(c)] = 0
      /\ \A u, v \in Users : db[FollowNote(u, v)] = 0
  BY NotesAtFirst
<1>5. \A p \in Posts : db[PostTags(p)] = {}
  BY <1>1, Parts, Places DEF Init, Links
<1>6. DbOK(db) /\ ForeignKeys(db) /\ NotesFit(db)
  BY <1>2, <1>3, <1>4, <1>5, AbsentAssumption, OwnerAssumption
  DEF DbOK, RowsOK, NotesOK, TagsOK, ForeignKeys, NotesFit
<1>7. tx = [w \in Workers |-> NoTx]
  BY DEF Init
<1>. QED
  BY <1>6, <1>7, NoTxIs, NoWrites DEF IInv, TxOK, Request, Exclusive, Fresh, New, Doing

LEMMA NextHolds == IInv /\ [Next]_vars => IInv'
<1>1. ASSUME IInv, NEW w \in Workers, Rollback(w) \/ Abandon(w)
      PROVE  IInv'
  BY <1>1, EndStep DEF Rollback, Abandon
<1>2. IInv /\ UNCHANGED vars => IInv'
  BY DEF IInv, vars, TxOK, Exclusive, Fresh
<1>. QED
  BY <1>1, <1>2, AskStep, LookupStep, ExecuteStep, CommitStep, VictimStep
  DEF Next, Proceed

(* Every transaction has written and locked what its statements so far tell *)
(* of, over rows that keep the foreign keys (db.go, account.go).            *)
THEOREM Inductive == Spec => []IInv
<1>. QED
  BY InitHolds, NextHolds, PTL DEF Spec

-----------------------------------------------------------------------------
(* The views of Transactions, of any rows d.                                *)
Status(d, i) == CASE d[i] = Absent -> "unwritten"
                  [] d[i] = Used -> "deleted"
                  [] OTHER -> "there"
Cell(d, p, f, none) == IF Status(d, Post(p)) = "there" THEN d[Post(p)][f] ELSE none

PostsIn(d) == [p \in Posts |-> Status(d, Post(p))]
TextsIn(d) == [p \in Posts |-> Cell(d, p, "text", NoText)]
TagsIn(d) == [p \in Posts |-> d[PostTags(p)]]
CommentsIn(d) == [c \in Comments |-> Status(d, Comment(c))]
LikesIn(d) == {l \in Users \X Posts : d[LikeRow(l[1], l[2])] = "there"}
FollowsIn(d) == {f \in Users \X Users : d[FollowRow(f[1], f[2])] = "there"}
LikeCountsIn(d) == [p \in Posts |-> Cell(d, p, "likes", 0)]
CommentCountsIn(d) == [p \in Posts |-> Cell(d, p, "comments", 0)]
LikeNotesIn(d) == [l \in Users \X Posts |-> d[LikeNote(l[1], l[2])]]
CommentNotesIn(d) == [c \in Comments |-> d[CommentNote(c)]]
FollowNotesIn(d) == [f \in Users \X Users |-> d[FollowNote(f[1], f[2])]]
LeftIn(d) == {u \in Users : d[User(u)] = "left"}

LEMMA Viewed ==
  /\ PostView = PostsIn(db) /\ PostView' = PostsIn(db')
  /\ TextView = TextsIn(db) /\ TextView' = TextsIn(db')
  /\ TagView = TagsIn(db) /\ TagView' = TagsIn(db')
  /\ CommentView = CommentsIn(db) /\ CommentView' = CommentsIn(db')
  /\ LikeView = LikesIn(db) /\ LikeView' = LikesIn(db')
  /\ FollowView = FollowsIn(db) /\ FollowView' = FollowsIn(db')
  /\ LikeCountView = LikeCountsIn(db) /\ LikeCountView' = LikeCountsIn(db')
  /\ CommentCountView = CommentCountsIn(db) /\ CommentCountView' = CommentCountsIn(db')
  /\ LikeNoteView = LikeNotesIn(db) /\ LikeNoteView' = LikeNotesIn(db')
  /\ CommentNoteView = CommentNotesIn(db) /\ CommentNoteView' = CommentNotesIn(db')
  /\ FollowNoteView = FollowNotesIn(db) /\ FollowNoteView' = FollowNotesIn(db')
  /\ LeftView = LeftIn(db) /\ LeftView' = LeftIn(db')
<1>1. /\ \A i : State(i) = Status(db, i) /\ State(i)' = Status(db', i)
  BY DEF State, Status
<1>2. PostView = PostsIn(db) /\ PostView' = PostsIn(db')
  BY <1>1 DEF PostView, PostsIn
<1>3. TextView = TextsIn(db) /\ TextView' = TextsIn(db')
  BY <1>1 DEF TextView, TextsIn, Column, Cell
<1>4. TagView = TagsIn(db) /\ TagView' = TagsIn(db')
  BY DEF TagView, TagsIn
<1>5. CommentView = CommentsIn(db) /\ CommentView' = CommentsIn(db')
  BY <1>1 DEF CommentView, CommentsIn
<1>6. LikeView = LikesIn(db) /\ LikeView' = LikesIn(db')
  BY DEF LikeView, LikesIn
<1>7. FollowView = FollowsIn(db) /\ FollowView' = FollowsIn(db')
  BY DEF FollowView, FollowsIn
<1>8. LikeCountView = LikeCountsIn(db) /\ LikeCountView' = LikeCountsIn(db')
  BY <1>1 DEF LikeCountView, LikeCountsIn, Column, Cell
<1>9. CommentCountView = CommentCountsIn(db) /\ CommentCountView' = CommentCountsIn(db')
  BY <1>1 DEF CommentCountView, CommentCountsIn, Column, Cell
<1>10. /\ LikeNoteView = LikeNotesIn(db) /\ LikeNoteView' = LikeNotesIn(db')
       /\ CommentNoteView = CommentNotesIn(db) /\ CommentNoteView' = CommentNotesIn(db')
       /\ FollowNoteView = FollowNotesIn(db) /\ FollowNoteView' = FollowNotesIn(db')
  BY DEF LikeNoteView, LikeNotesIn, CommentNoteView, CommentNotesIn, FollowNoteView,
     FollowNotesIn
<1>11. LeftView = LeftIn(db) /\ LeftView' = LeftIn(db')
  BY DEF LeftView, LeftIn
<1>. QED
  BY <1>2, <1>3, <1>4, <1>5, <1>6, <1>7, <1>8, <1>9, <1>10, <1>11

LEMMA PostsSeen ==
  ASSUME NEW d, NEW e, NEW P, PostsSame(d, e, P)
  PROVE  /\ P = {} => /\ PostsIn(e) = PostsIn(d) /\ TextsIn(e) = TextsIn(d)
                      /\ LikeCountsIn(e) = LikeCountsIn(d)
                      /\ CommentCountsIn(e) = CommentCountsIn(d)
         /\ \A p \in Posts : P = {p} =>
              /\ PostsIn(e) = [PostsIn(d) EXCEPT ![p] = Status(e, Post(p))]
              /\ TextsIn(e) = [TextsIn(d) EXCEPT ![p] = Cell(e, p, "text", NoText)]
              /\ LikeCountsIn(e) = [LikeCountsIn(d) EXCEPT ![p] = Cell(e, p, "likes", 0)]
              /\ CommentCountsIn(e) =
                   [CommentCountsIn(d) EXCEPT ![p] = Cell(e, p, "comments", 0)]
<1>1. \A p \in Posts \ P : Status(e, Post(p)) = Status(d, Post(p))
  BY DEF PostsSame, Status
<1>2. \A p \in Posts \ P : \A f, none : Cell(e, p, f, none) = Cell(d, p, f, none)
  BY <1>1 DEF PostsSame, Cell
<1>3. P = {} => PostsIn(e) = PostsIn(d)
  BY <1>1 DEF PostsIn
<1>4. P = {} => TextsIn(e) = TextsIn(d)
  BY <1>2 DEF TextsIn
<1>5. P = {} => LikeCountsIn(e) = LikeCountsIn(d)
  BY <1>2 DEF LikeCountsIn
<1>6. P = {} => CommentCountsIn(e) = CommentCountsIn(d)
  BY <1>2 DEF CommentCountsIn
<1>7. ASSUME NEW p \in Posts, P = {p}
      PROVE  /\ PostsIn(e) = [PostsIn(d) EXCEPT ![p] = Status(e, Post(p))]
             /\ TextsIn(e) = [TextsIn(d) EXCEPT ![p] = Cell(e, p, "text", NoText)]
  BY <1>1, <1>2, <1>7 DEF PostsIn, TextsIn
<1>8. ASSUME NEW p \in Posts, P = {p}
      PROVE  /\ LikeCountsIn(e) = [LikeCountsIn(d) EXCEPT ![p] = Cell(e, p, "likes", 0)]
             /\ CommentCountsIn(e) =
                  [CommentCountsIn(d) EXCEPT ![p] = Cell(e, p, "comments", 0)]
  BY <1>2, <1>8 DEF LikeCountsIn, CommentCountsIn
<1>. QED
  BY <1>3, <1>4, <1>5, <1>6, <1>7, <1>8

LEMMA TagsSeen ==
  ASSUME NEW d, NEW e, NEW T, TagsSame(d, e, T)
  PROVE  /\ T = {} => TagsIn(e) = TagsIn(d)
         /\ \A p \in Posts : T = {p} => TagsIn(e) = [TagsIn(d) EXCEPT ![p] = e[PostTags(p)]]
BY DEF TagsSame, TagsIn

LEMMA CommentsSeen ==
  ASSUME NEW d, NEW e, NEW C, CommentsSame(d, e, C)
  PROVE  /\ C = {} => /\ CommentsIn(e) = CommentsIn(d)
                      /\ CommentNotesIn(e) = CommentNotesIn(d)
         /\ \A c \in Comments : C = {c} =>
              /\ CommentsIn(e) = [CommentsIn(d) EXCEPT ![c] = Status(e, Comment(c))]
              /\ CommentNotesIn(e) = [CommentNotesIn(d) EXCEPT ![c] = e[CommentNote(c)]]
<1>1. \A c \in Comments \ C : Status(e, Comment(c)) = Status(d, Comment(c))
  BY DEF CommentsSame, Status
<1>2. \A c \in Comments \ C : e[CommentNote(c)] = d[CommentNote(c)]
  BY DEF CommentsSame
<1>. QED
  BY <1>1, <1>2 DEF CommentsIn, CommentNotesIn

LEMMA Pairs ==
  ASSUME NEW S, NEW T, NEW l \in S \X T
  PROVE  l[1] \in S /\ l[2] \in T /\ l = <<l[1], l[2]>>
OBVIOUS

LEMMA LikesSeen ==
  ASSUME NEW d, NEW e, NEW L, LikesSame(d, e, L)
  PROVE  /\ L = {} => LikesIn(e) = LikesIn(d) /\ LikeNotesIn(e) = LikeNotesIn(d)
         /\ \A u \in Users, p \in Posts : L = {<<u, p>>} =>
              /\ LikesIn(e) = IF e[LikeRow(u, p)] = "there" THEN LikesIn(d) \union {<<u, p>>}
                              ELSE LikesIn(d) \ {<<u, p>>}
              /\ LikeNotesIn(e) = [LikeNotesIn(d) EXCEPT ![<<u, p>>] = e[LikeNote(u, p)]]
<1>1. ASSUME NEW l \in Users \X Posts, l \notin L
      PROVE  /\ e[LikeRow(l[1], l[2])] = d[LikeRow(l[1], l[2])]
             /\ e[LikeNote(l[1], l[2])] = d[LikeNote(l[1], l[2])]
  <2>1. l[1] \in Users /\ l[2] \in Posts /\ l = <<l[1], l[2]>>
    BY Pairs
  <2>. QED
    BY <1>1, <2>1 DEF LikesSame
<1>2. L = {} => LikesIn(e) = LikesIn(d) /\ LikeNotesIn(e) = LikeNotesIn(d)
  BY <1>1 DEF LikesIn, LikeNotesIn
<1>3. ASSUME NEW u \in Users, NEW p \in Posts, L = {<<u, p>>}
      PROVE  /\ LikesIn(e) = IF e[LikeRow(u, p)] = "there" THEN LikesIn(d) \union {<<u, p>>}
                             ELSE LikesIn(d) \ {<<u, p>>}
             /\ LikeNotesIn(e) = [LikeNotesIn(d) EXCEPT ![<<u, p>>] = e[LikeNote(u, p)]]
  <2>. DEFINE k == <<u, p>>
  <2>1. k \in Users \X Posts /\ k[1] = u /\ k[2] = p
    OBVIOUS
  <2>. HIDE DEF k
  <2>2. \A l \in Users \X Posts : l # k =>
          /\ e[LikeRow(l[1], l[2])] = d[LikeRow(l[1], l[2])]
          /\ e[LikeNote(l[1], l[2])] = d[LikeNote(l[1], l[2])]
    BY <1>1, <1>3 DEF k
  <2>3. LikesIn(e) = IF e[LikeRow(u, p)] = "there" THEN LikesIn(d) \union {k}
                     ELSE LikesIn(d) \ {k}
    BY <2>1, <2>2 DEF LikesIn
  <2>4. LikeNotesIn(e) = [LikeNotesIn(d) EXCEPT ![k] = e[LikeNote(u, p)]]
    BY <2>1, <2>2 DEF LikeNotesIn
  <2>. QED
    BY <2>3, <2>4 DEF k
<1>. QED
  BY <1>2, <1>3

LEMMA FollowsSeen ==
  ASSUME NEW d, NEW e, NEW F, FollowsSame(d, e, F)
  PROVE  /\ F = {} => FollowsIn(e) = FollowsIn(d) /\ FollowNotesIn(e) = FollowNotesIn(d)
         /\ \A u, v \in Users : F = {<<u, v>>} =>
              /\ FollowsIn(e) =
                   IF e[FollowRow(u, v)] = "there" THEN FollowsIn(d) \union {<<u, v>>}
                   ELSE FollowsIn(d) \ {<<u, v>>}
              /\ FollowNotesIn(e) =
                   [FollowNotesIn(d) EXCEPT ![<<u, v>>] = e[FollowNote(u, v)]]
<1>1. ASSUME NEW l \in Users \X Users, l \notin F
      PROVE  /\ e[FollowRow(l[1], l[2])] = d[FollowRow(l[1], l[2])]
             /\ e[FollowNote(l[1], l[2])] = d[FollowNote(l[1], l[2])]
  <2>1. l[1] \in Users /\ l[2] \in Users /\ l = <<l[1], l[2]>>
    BY Pairs
  <2>. QED
    BY <1>1, <2>1 DEF FollowsSame
<1>2. F = {} => FollowsIn(e) = FollowsIn(d) /\ FollowNotesIn(e) = FollowNotesIn(d)
  BY <1>1 DEF FollowsIn, FollowNotesIn
<1>3. ASSUME NEW u \in Users, NEW v \in Users, F = {<<u, v>>}
      PROVE  /\ FollowsIn(e) =
                  IF e[FollowRow(u, v)] = "there" THEN FollowsIn(d) \union {<<u, v>>}
                  ELSE FollowsIn(d) \ {<<u, v>>}
             /\ FollowNotesIn(e) =
                  [FollowNotesIn(d) EXCEPT ![<<u, v>>] = e[FollowNote(u, v)]]
  <2>. DEFINE k == <<u, v>>
  <2>1. k \in Users \X Users /\ k[1] = u /\ k[2] = v
    OBVIOUS
  <2>. HIDE DEF k
  <2>2. \A l \in Users \X Users : l # k =>
          /\ e[FollowRow(l[1], l[2])] = d[FollowRow(l[1], l[2])]
          /\ e[FollowNote(l[1], l[2])] = d[FollowNote(l[1], l[2])]
    BY <1>1, <1>3 DEF k
  <2>3. FollowsIn(e) = IF e[FollowRow(u, v)] = "there" THEN FollowsIn(d) \union {k}
                     ELSE FollowsIn(d) \ {k}
    BY <2>1, <2>2 DEF FollowsIn
  <2>4. FollowNotesIn(e) = [FollowNotesIn(d) EXCEPT ![k] = e[FollowNote(u, v)]]
    BY <2>1, <2>2 DEF FollowNotesIn
  <2>. QED
    BY <2>3, <2>4 DEF k
<1>. QED
  BY <1>2, <1>3

LEMMA LeftSeen == ASSUME NEW d, NEW e, UsersSame(d, e) PROVE LeftIn(e) = LeftIn(d)
BY DEF UsersSame, LeftIn

LEMMA CountsIs ==
  ASSUME NEW d, NEW p \in Posts
  PROVE  /\ LikeCountsIn(d)[p] = Cell(d, p, "likes", 0)
         /\ CommentCountsIn(d)[p] = Cell(d, p, "comments", 0)
         /\ [LikeCountsIn(d) EXCEPT ![p] = Cell(d, p, "likes", 0)] = LikeCountsIn(d)
         /\ [CommentCountsIn(d) EXCEPT ![p] = Cell(d, p, "comments", 0)] = CommentCountsIn(d)
<1>1. \A f \in {LikeCountsIn(d), CommentCountsIn(d)} :
        DOMAIN f = Posts /\ f = [q \in Posts |-> f[q]]
  BY DEF LikeCountsIn, CommentCountsIn
<1>2. LikeCountsIn(d)[p] = Cell(d, p, "likes", 0)
  BY DEF LikeCountsIn
<1>3. CommentCountsIn(d)[p] = Cell(d, p, "comments", 0)
  BY DEF CommentCountsIn
<1>4. \A f \in {LikeCountsIn(d), CommentCountsIn(d)} : [f EXCEPT ![p] = f[p]] = f
  BY <1>1
<1>. QED
  BY <1>2, <1>3, <1>4

LEMMA LikesIs ==
  ASSUME NEW d, NEW u \in Users, NEW p \in Posts
  PROVE  /\ <<u, p>> \in LikesIn(d) <=> d[LikeRow(u, p)] = "there"
         /\ LikeNotesIn(d)[<<u, p>>] = d[LikeNote(u, p)]
BY DEF LikesIn, LikeNotesIn

LEMMA FollowsIs ==
  ASSUME NEW d, NEW u \in Users, NEW v \in Users
  PROVE  /\ <<u, v>> \in FollowsIn(d) <=> d[FollowRow(u, v)] = "there"
         /\ FollowNotesIn(d)[<<u, v>>] = d[FollowNote(u, v)]
BY DEF FollowsIn, FollowNotesIn

-----------------------------------------------------------------------------
(* Every operation is one step of Reactions.                                *)

LEMMA Values ==
  ASSUME NEW d, Sound(d)
  PROVE  /\ \A p \in Posts : Status(d, Post(p)) = "there" <=> ThereIn(d, Post(p))
         /\ \A p \in Posts : Status(d, Post(p)) = "unwritten" <=> d[Post(p)] = Absent
         /\ \A c \in Comments : Status(d, Comment(c)) = "there" <=> d[Comment(c)] = "there"
         /\ \A c \in Comments : Status(d, Comment(c)) = "unwritten" <=> d[Comment(c)] = Absent
         /\ \A p \in Posts : \A f, none : Cell(d, p, f, none) =
              IF ThereIn(d, Post(p)) THEN d[Post(p)][f] ELSE none
<1>1. \A p \in Posts : Status(d, Post(p)) = "there" <=> ThereIn(d, Post(p))
  BY AbsentAssumption DEF Status, ThereIn
<1>2. \A p \in Posts : Status(d, Post(p)) = "unwritten" <=> d[Post(p)] = Absent
  BY AbsentAssumption DEF Status
<1>3. \A c \in Comments : d[Comment(c)] \in {"there", Absent, Used}
  BY DEF Sound, DbOK, RowsOK
<1>4. \A c \in Comments : Status(d, Comment(c)) = "there" <=> d[Comment(c)] = "there"
  BY <1>3, AbsentAssumption DEF Status
<1>5. \A c \in Comments : Status(d, Comment(c)) = "unwritten" <=> d[Comment(c)] = Absent
  BY AbsentAssumption DEF Status
<1>. QED
  BY <1>1, <1>2, <1>4, <1>5 DEF Cell

LEMMA NothingSeen ==
  ASSUME Others(db, db', TagRows)
  PROVE  UNCHANGED R!vars
<1>1. /\ PostsSame(db, db', {}) /\ TagsSame(db, db', {}) /\ CommentsSame(db, db', {})
      /\ LikesSame(db, db', {}) /\ FollowsSame(db, db', {}) /\ UsersSame(db, db')
  BY LeftAlone DEF Untouched
<1>. QED
  BY <1>1, Viewed, PostsSeen, TagsSeen, CommentsSeen, LikesSeen, FollowsSeen, LeftSeen
  DEF R!vars, R!posts, R!counts

LEMMA LikeSeen ==
  ASSUME Sound(db), Sound(db'), NEW u \in Users, NEW p \in Posts, LikeDone(u, p, db, db')
  PROVE  R!Like(u, p)
<1>. DEFINE d == db  e == db'
<1>1. /\ PostsSame(d, e, {p}) /\ TagsSame(d, e, {}) /\ CommentsSame(d, e, {})
      /\ LikesSame(d, e, {<<u, p>>}) /\ FollowsSame(d, e, {}) /\ UsersSame(d, e)
  BY LeftAlone DEF Untouched
<1>2. d[Post(p)] \in PostRows /\ ThereIn(d, Post(p)) /\ ThereIn(e, Post(p))
  <2>1. ThereIn(d, Post(p)) /\ d[Post(p)] \in PostRows
    BY RowIs DEF Sound, DbOK, LikeDone
  <2>2. e[Post(p)] \in PostRows
    BY <2>1 DEF LikeDone, PostRows
  <2>. QED
    BY <2>1, <2>2, AbsentAssumption DEF ThereIn
<1>3. /\ Cell(e, p, "text", NoText) = Cell(d, p, "text", NoText)
      /\ Cell(e, p, "likes", 0) = Cell(d, p, "likes", 0) + 1
      /\ Cell(e, p, "comments", 0) = Cell(d, p, "comments", 0)
      /\ Status(e, Post(p)) = "there" /\ Status(d, Post(p)) = "there"
  BY <1>2, Values DEF LikeDone, PostRows
<1>4. R!posts' = R!posts /\ PostView[p] = "there"
  BY <1>1, <1>3, Viewed, PostsSeen, TagsSeen DEF R!posts, PostsIn, TextsIn
<1>5. /\ LikeCountView' = [LikeCountView EXCEPT ![p] = @ + 1]
      /\ CommentCountView' = CommentCountView
  <2>1. /\ LikeCountsIn(e) = [LikeCountsIn(d) EXCEPT ![p] = LikeCountsIn(d)[p] + 1]
        /\ CommentCountsIn(e) = CommentCountsIn(d)
    BY <1>1, <1>3, PostsSeen, CountsIs
  <2>. QED
    BY <2>1, Viewed
<1>6. /\ <<u, p>> \notin LikeView /\ LikeView' = LikeView \union {<<u, p>>}
      /\ LikeNoteView' = [LikeNoteView EXCEPT ![<<u, p>>] = @ + R!Told(u, Owner[p])]
  <2>1. <<u, p>> \notin LikesIn(d) /\ LikesIn(e) = LikesIn(d) \union {<<u, p>>}
    BY <1>1, LikesSeen, LikesIs DEF LikeDone
  <2>2. LikeNotesIn(e) =
          [LikeNotesIn(d) EXCEPT ![<<u, p>>] = LikeNotesIn(d)[<<u, p>>] + R!Told(u, Owner[p])]
    BY <1>1, LikesSeen, LikesIs DEF LikeDone, R!Told
  <2>. QED
    BY <2>1, <2>2, Viewed
<1>7. UNCHANGED <<CommentView, CommentNoteView, FollowView, FollowNoteView, LeftView>>
  BY <1>1, Viewed, CommentsSeen, FollowsSeen, LeftSeen
<1>. QED
  BY <1>4, <1>5, <1>6, <1>7 DEF R!Like, R!There

LEMMA UnlikeSeen ==
  ASSUME Sound(db), Sound(db'), NEW u \in Users, NEW p \in Posts,
         UnlikeDone(u, p, db, db')
  PROVE  R!Unlike(u, p)
<1>. DEFINE d == db  e == db'
<1>1. /\ PostsSame(d, e, {p}) /\ TagsSame(d, e, {}) /\ CommentsSame(d, e, {})
      /\ LikesSame(d, e, {<<u, p>>}) /\ FollowsSame(d, e, {}) /\ UsersSame(d, e)
  BY LeftAlone DEF Untouched
<1>2. d[Post(p)] \in PostRows /\ ThereIn(d, Post(p)) /\ ThereIn(e, Post(p))
  <2>1. ThereIn(d, Post(p)) /\ d[Post(p)] \in PostRows
    BY RowIs DEF Sound, DbOK, UnlikeDone, ForeignKeys
  <2>2. e[Post(p)] \in PostRows
    BY <2>1 DEF UnlikeDone, PostRows, Less
  <2>. QED
    BY <2>1, <2>2, AbsentAssumption DEF ThereIn
<1>3. /\ Cell(e, p, "text", NoText) = Cell(d, p, "text", NoText)
      /\ Cell(e, p, "likes", 0) = Less(Cell(d, p, "likes", 0), 1)
      /\ Cell(e, p, "comments", 0) = Cell(d, p, "comments", 0)
      /\ Status(e, Post(p)) = "there" /\ Status(d, Post(p)) = "there"
  BY <1>2, Values DEF UnlikeDone, PostRows
<1>4. R!posts' = R!posts
  BY <1>1, <1>3, Viewed, PostsSeen, TagsSeen DEF R!posts, PostsIn, TextsIn
<1>5. /\ LikeCountView' = [LikeCountView EXCEPT ![p] = R!Less(@, 1)]
      /\ CommentCountView' = CommentCountView
  <2>1. \A n : R!Less(n, 1) = Less(n, 1)
    BY DEF R!Less, Less
  <2>2. /\ LikeCountsIn(e) = [LikeCountsIn(d) EXCEPT ![p] = R!Less(LikeCountsIn(d)[p], 1)]
        /\ CommentCountsIn(e) = CommentCountsIn(d)
    BY <1>1, <1>3, <2>1, PostsSeen, CountsIs
  <2>. QED
    BY <2>2, Viewed
<1>6. /\ <<u, p>> \in LikeView /\ LikeView' = LikeView \ {<<u, p>>}
      /\ LikeNoteView' = [LikeNoteView EXCEPT ![<<u, p>>] = 0]
  <2>1. <<u, p>> \in LikesIn(d) /\ LikesIn(e) = LikesIn(d) \ {<<u, p>>}
    BY <1>1, LikesSeen, LikesIs, AbsentAssumption DEF UnlikeDone
  <2>2. LikeNotesIn(e) = [LikeNotesIn(d) EXCEPT ![<<u, p>>] = 0]
    BY <1>1, LikesSeen DEF UnlikeDone
  <2>. QED
    BY <2>1, <2>2, Viewed
<1>7. UNCHANGED <<CommentView, CommentNoteView, FollowView, FollowNoteView, LeftView>>
  BY <1>1, Viewed, CommentsSeen, FollowsSeen, LeftSeen
<1>. QED
  BY <1>4, <1>5, <1>6, <1>7 DEF R!Unlike

LEMMA CommentSeen ==
  ASSUME Sound(db), Sound(db'), NEW c \in Comments, CommentDone(c, db, db')
  PROVE  R!CreateComment(c)
<1>. DEFINE d == db  e == db'  p == On[c]
<1>0. p \in Posts
  BY OnAssumption
<1>1. /\ PostsSame(d, e, {p}) /\ TagsSame(d, e, {}) /\ CommentsSame(d, e, {c})
      /\ LikesSame(d, e, {}) /\ FollowsSame(d, e, {}) /\ UsersSame(d, e)
  BY LeftAlone DEF Untouched
<1>2. d[Post(p)] \in PostRows /\ ThereIn(d, Post(p)) /\ ThereIn(e, Post(p))
  <2>1. ThereIn(d, Post(p)) /\ d[Post(p)] \in PostRows
    BY <1>0, RowIs DEF Sound, DbOK, CommentDone
  <2>2. e[Post(p)] \in PostRows
    BY <2>1 DEF CommentDone, PostRows
  <2>. QED
    BY <2>1, <2>2, AbsentAssumption DEF ThereIn
<1>3. /\ Cell(e, p, "text", NoText) = Cell(d, p, "text", NoText)
      /\ Cell(e, p, "likes", 0) = Cell(d, p, "likes", 0)
      /\ Cell(e, p, "comments", 0) = Cell(d, p, "comments", 0) + 1
      /\ Status(e, Post(p)) = "there" /\ Status(d, Post(p)) = "there"
  BY <1>0, <1>2, Values DEF CommentDone, PostRows
<1>4. R!posts' = R!posts /\ PostView[p] = "there"
  BY <1>0, <1>1, <1>3, Viewed, PostsSeen, TagsSeen DEF R!posts, PostsIn, TextsIn
<1>5. /\ CommentCountView' = [CommentCountView EXCEPT ![p] = @ + 1]
      /\ LikeCountView' = LikeCountView
  <2>1. /\ CommentCountsIn(e) = [CommentCountsIn(d) EXCEPT ![p] = CommentCountsIn(d)[p] + 1]
        /\ LikeCountsIn(e) = LikeCountsIn(d)
    BY <1>0, <1>1, <1>3, PostsSeen, CountsIs
  <2>. QED
    BY <2>1, Viewed
<1>6. /\ CommentView[c] = "unwritten"
      /\ CommentView' = [CommentView EXCEPT ![c] = "there"]
      /\ CommentNoteView' =
           [CommentNoteView EXCEPT ![c] = R!Told(Author[c], Owner[On[c]])]
  <2>1. Status(d, Comment(c)) = "unwritten" /\ Status(e, Comment(c)) = "there"
    BY Values DEF CommentDone
  <2>. QED
    BY <1>1, <2>1, Viewed, CommentsSeen DEF CommentDone, CommentsIn, R!Told
<1>7. UNCHANGED <<LikeView, LikeNoteView, FollowView, FollowNoteView, LeftView>>
  BY <1>1, Viewed, LikesSeen, FollowsSeen, LeftSeen
<1>. QED
  BY <1>4, <1>5, <1>6, <1>7 DEF R!CreateComment, R!There

LEMMA UncommentSeen ==
  ASSUME Sound(db), Sound(db'), NEW c \in Comments, UncommentDone(c, db, db')
  PROVE  R!DeleteComment(c)
<1>. DEFINE d == db  e == db'  p == On[c]
<1>0. p \in Posts
  BY OnAssumption
<1>1. /\ PostsSame(d, e, {p}) /\ TagsSame(d, e, {}) /\ CommentsSame(d, e, {c})
      /\ LikesSame(d, e, {}) /\ FollowsSame(d, e, {}) /\ UsersSame(d, e)
  BY LeftAlone DEF Untouched
<1>2. d[Post(p)] \in PostRows /\ ThereIn(d, Post(p)) /\ ThereIn(e, Post(p))
  <2>1. ThereIn(d, Post(p)) /\ d[Post(p)] \in PostRows
    BY <1>0, RowIs DEF Sound, DbOK, UncommentDone, ForeignKeys
  <2>2. e[Post(p)] \in PostRows
    BY <2>1 DEF UncommentDone, PostRows, Less
  <2>. QED
    BY <2>1, <2>2, AbsentAssumption DEF ThereIn
<1>3. /\ Cell(e, p, "text", NoText) = Cell(d, p, "text", NoText)
      /\ Cell(e, p, "likes", 0) = Cell(d, p, "likes", 0)
      /\ Cell(e, p, "comments", 0) = Less(Cell(d, p, "comments", 0), 1)
      /\ Status(e, Post(p)) = "there" /\ Status(d, Post(p)) = "there"
  BY <1>0, <1>2, Values DEF UncommentDone, PostRows
<1>4. R!posts' = R!posts
  BY <1>0, <1>1, <1>3, Viewed, PostsSeen, TagsSeen DEF R!posts, PostsIn, TextsIn
<1>5. /\ CommentCountView' = [CommentCountView EXCEPT ![p] = R!Less(@, 1)]
      /\ LikeCountView' = LikeCountView
  <2>1. \A n : R!Less(n, 1) = Less(n, 1)
    BY DEF R!Less, Less
  <2>2. /\ CommentCountsIn(e) =
             [CommentCountsIn(d) EXCEPT ![p] = R!Less(CommentCountsIn(d)[p], 1)]
        /\ LikeCountsIn(e) = LikeCountsIn(d)
    BY <1>0, <1>1, <1>3, <2>1, PostsSeen, CountsIs
  <2>. QED
    BY <2>2, Viewed
<1>6. /\ CommentView[c] = "there"
      /\ CommentView' = [CommentView EXCEPT ![c] = "deleted"]
      /\ CommentNoteView' = [CommentNoteView EXCEPT ![c] = 0]
  <2>1. Status(d, Comment(c)) = "there" /\ Status(e, Comment(c)) = "deleted"
    BY Values, AbsentAssumption DEF UncommentDone, Status
  <2>. QED
    BY <1>1, <2>1, Viewed, CommentsSeen DEF UncommentDone, CommentsIn
<1>7. UNCHANGED <<LikeView, LikeNoteView, FollowView, FollowNoteView, LeftView>>
  BY <1>1, Viewed, LikesSeen, FollowsSeen, LeftSeen
<1>. QED
  BY <1>4, <1>5, <1>6, <1>7 DEF R!DeleteComment, R!Written

LEMMA FollowSeen ==
  ASSUME NEW u \in Users, NEW v \in Users
  PROVE  /\ FollowDone(u, v, db, db') => R!Follow(u, v)
         /\ UnfollowDone(u, v, db, db') => R!Unfollow(u, v)
<1>. SUFFICES ASSUME FollowDone(u, v, db, db') \/ UnfollowDone(u, v, db, db')
              PROVE  /\ FollowDone(u, v, db, db') => R!Follow(u, v)
                     /\ UnfollowDone(u, v, db, db') => R!Unfollow(u, v)
  OBVIOUS
<1>. DEFINE d == db  e == db'
<1>1. /\ PostsSame(d, e, {}) /\ TagsSame(d, e, {}) /\ CommentsSame(d, e, {})
      /\ LikesSame(d, e, {}) /\ FollowsSame(d, e, {<<u, v>>}) /\ UsersSame(d, e)
  BY LeftAlone DEF Untouched
<1>2. UNCHANGED <<R!posts, CommentView, LikeView, R!counts, LikeNoteView,
                  CommentNoteView, LeftView>>
  BY <1>1, Viewed, PostsSeen, TagsSeen, CommentsSeen, LikesSeen, LeftSeen
  DEF R!posts, R!counts
<1>3. ASSUME FollowDone(u, v, d, e)
      PROVE  R!Follow(u, v)
  <2>1. /\ u # v /\ <<u, v>> \notin FollowsIn(d)
        /\ FollowsIn(e) = FollowsIn(d) \union {<<u, v>>}
    BY <1>1, <1>3, FollowsSeen, FollowsIs DEF FollowDone
  <2>2. FollowNotesIn(e) =
          [FollowNotesIn(d) EXCEPT ![<<u, v>>] = FollowNotesIn(d)[<<u, v>>] + 1]
    BY <1>1, <1>3, FollowsSeen, FollowsIs DEF FollowDone
  <2>. QED
    BY <1>2, <2>1, <2>2, Viewed DEF R!Follow
<1>4. ASSUME UnfollowDone(u, v, d, e)
      PROVE  R!Unfollow(u, v)
  <2>1. <<u, v>> \in FollowsIn(d) /\ FollowsIn(e) = FollowsIn(d) \ {<<u, v>>}
    BY <1>1, <1>4, FollowsSeen, FollowsIs, AbsentAssumption DEF UnfollowDone
  <2>2. FollowNotesIn(e) = [FollowNotesIn(d) EXCEPT ![<<u, v>>] = 0]
    BY <1>1, <1>4, FollowsSeen DEF UnfollowDone
  <2>. QED
    BY <1>2, <2>1, <2>2, Viewed DEF R!Unfollow
<1>. QED
  BY <1>3, <1>4

LEMMA PublishSeen ==
  ASSUME Sound(db), Sound(db'), NEW p \in Posts, NEW s \in Texts,
         PublishDone(p, s, db, db')
  PROVE  R!Publish(p, s)
<1>. DEFINE d == db  e == db'
<1>1. /\ PostsSame(d, e, {p}) /\ TagsSame(d, e, {p}) /\ CommentsSame(d, e, {})
      /\ LikesSame(d, e, {}) /\ FollowsSame(d, e, {}) /\ UsersSame(d, e)
  BY LeftAlone DEF Untouched
<1>2. e[Post(p)] \in PostRows /\ ThereIn(e, Post(p)) /\ ~ThereIn(d, Post(p))
  BY AbsentAssumption DEF PublishDone, NewPost, PostRows, ThereIn
<1>3. /\ Cell(e, p, "text", NoText) = s
      /\ Cell(e, p, "likes", 0) = 0 /\ Cell(d, p, "likes", 0) = 0
      /\ Cell(e, p, "comments", 0) = 0 /\ Cell(d, p, "comments", 0) = 0
      /\ Status(e, Post(p)) = "there" /\ Status(d, Post(p)) = "unwritten"
  BY <1>2, Values DEF PublishDone, NewPost
<1>4. PostView[p] = "unwritten" /\ PostView' = [PostView EXCEPT ![p] = "there"]
  BY <1>1, <1>3, Viewed, PostsSeen DEF PostsIn
<1>5. /\ TextView' = [TextView EXCEPT ![p] = s]
      /\ TagView' = [TagView EXCEPT ![p] = R!TagsOf[s]]
  <2>1. R!TagsOf[s] = TagsOf[s]
    BY DEF R!TagsOf, TagsOf
  <2>. QED
    BY <1>1, <1>3, <2>1, Viewed, PostsSeen, TagsSeen DEF PublishDone
<1>6. UNCHANGED <<CommentView, LikeView, R!counts, LikeNoteView, CommentNoteView,
                  FollowView, FollowNoteView, LeftView>>
  <2>1. LikeCountsIn(e) = LikeCountsIn(d) /\ CommentCountsIn(e) = CommentCountsIn(d)
    BY <1>1, <1>3, PostsSeen, CountsIs
  <2>. QED
    BY <1>1, <2>1, Viewed, CommentsSeen, LikesSeen, FollowsSeen, LeftSeen DEF R!counts
<1>. QED
  BY <1>4, <1>5, <1>6 DEF R!Publish, R!Write

LEMMA EditSeen ==
  ASSUME Sound(db), Sound(db'), NEW p \in Posts, NEW s \in Texts,
         EditDone(p, s, db, db')
  PROVE  R!Edit(p, s)
<1>. DEFINE d == db  e == db'
<1>1. /\ PostsSame(d, e, {p}) /\ TagsSame(d, e, {p}) /\ CommentsSame(d, e, {})
      /\ LikesSame(d, e, {}) /\ FollowsSame(d, e, {}) /\ UsersSame(d, e)
  BY LeftAlone DEF Untouched
<1>2. d[Post(p)] \in PostRows /\ ThereIn(d, Post(p)) /\ ThereIn(e, Post(p))
  <2>1. ThereIn(d, Post(p)) /\ d[Post(p)] \in PostRows
    BY RowIs DEF Sound, DbOK, EditDone
  <2>2. e[Post(p)] \in PostRows
    BY <2>1 DEF EditDone, PostRows
  <2>. QED
    BY <2>1, <2>2, AbsentAssumption DEF ThereIn
<1>3. /\ Cell(e, p, "text", NoText) = s
      /\ Cell(e, p, "likes", 0) = Cell(d, p, "likes", 0)
      /\ Cell(e, p, "comments", 0) = Cell(d, p, "comments", 0)
      /\ Status(e, Post(p)) = "there" /\ Status(d, Post(p)) = "there"
  BY <1>2, Values DEF EditDone, PostRows
<1>4. PostView[p] = "there" /\ PostView' = PostView
  BY <1>1, <1>3, Viewed, PostsSeen DEF PostsIn
<1>5. /\ TextView' = [TextView EXCEPT ![p] = s]
      /\ TagView' = [TagView EXCEPT ![p] = R!TagsOf[s]]
  <2>1. R!TagsOf[s] = TagsOf[s]
    BY DEF R!TagsOf, TagsOf
  <2>. QED
    BY <1>1, <1>3, <2>1, Viewed, PostsSeen, TagsSeen DEF EditDone
<1>6. UNCHANGED <<CommentView, LikeView, R!counts, LikeNoteView, CommentNoteView,
                  FollowView, FollowNoteView, LeftView>>
  <2>1. LikeCountsIn(e) = LikeCountsIn(d) /\ CommentCountsIn(e) = CommentCountsIn(d)
    BY <1>1, <1>3, PostsSeen, CountsIs
  <2>. QED
    BY <1>1, <2>1, Viewed, CommentsSeen, LikesSeen, FollowsSeen, LeftSeen DEF R!counts
<1>. QED
  BY <1>4, <1>5, <1>6 DEF R!Edit, R!Write, R!There

LEMMA DeletePostSeen ==
  ASSUME Sound(db), Sound(db'), NEW p \in Posts, DeletePostDone(p, db, db')
  PROVE  R!DeletePost(p)
<1>. DEFINE d == db  e == db'
<1>1. /\ \A q \in Posts : Status(e, Post(q)) = IF q = p THEN "deleted"
                                               ELSE Status(d, Post(q))
      /\ \A q \in Posts : \A f, none : Cell(e, q, f, none) = IF q = p THEN none
                                                        ELSE Cell(d, q, f, none)
      /\ Status(d, Post(p)) = "there"
  BY Values, AbsentAssumption DEF DeletePostDone, Status, Cell
<1>2. \A c \in Comments :
        Status(e, Comment(c)) =
          IF Status(d, Comment(c)) = "there" /\ On[c] = p THEN "deleted"
          ELSE Status(d, Comment(c))
  <2>1. ASSUME NEW c \in Comments
        PROVE  /\ d[Comment(c)] = "there" <=> Status(d, Comment(c)) = "there"
               /\ e[Comment(c)] = IF On[c] = p /\ d[Comment(c)] = "there" THEN Used
                                  ELSE d[Comment(c)]
    BY Values DEF DeletePostDone
  <2>. QED
    BY <2>1, AbsentAssumption DEF Status
<1>3. PostView[p] = "there"
  BY <1>1, Viewed DEF PostsIn
<1>4. /\ PostView' = [q \in Posts |-> IF q \in {p} THEN "deleted" ELSE PostView[q]]
      /\ TextView' = [q \in Posts |-> IF q \in {p} THEN NoText ELSE TextView[q]]
  BY <1>1, Viewed DEF PostsIn, TextsIn
<1>5. TagView' = [q \in Posts |-> IF q \in {p} THEN {} ELSE TagView[q]]
  BY Viewed DEF TagsIn, DeletePostDone
<1>6. CommentView' = [c \in Comments |-> IF CommentView[c] = "there" /\ On[c] = p
                                         THEN "deleted" ELSE CommentView[c]]
  BY <1>2, Viewed DEF CommentsIn
<1>7. CommentNoteView' = [c \in Comments |-> IF On[c] = p THEN 0 ELSE CommentNoteView[c]]
  BY Viewed DEF CommentNotesIn, DeletePostDone
<1>8. LikeView' = {l \in LikeView : l[2] # p}
  BY Viewed, AbsentAssumption DEF LikesIn, DeletePostDone
<1>9. LikeNoteView' = [l \in Users \X Posts |-> IF l[2] = p THEN 0 ELSE LikeNoteView[l]]
  BY Viewed DEF LikeNotesIn, DeletePostDone
<1>10. /\ LikeCountView' = [LikeCountView EXCEPT ![p] = 0]
       /\ CommentCountView' = [CommentCountView EXCEPT ![p] = 0]
  <2>1. PostsSame(d, e, {p})
    BY DEF DeletePostDone, PostsSame
  <2>2. Cell(e, p, "likes", 0) = 0 /\ Cell(e, p, "comments", 0) = 0
    BY <1>1
  <2>. QED
    BY <2>1, <2>2, PostsSeen, Viewed
<1>11. FollowView' = FollowView /\ FollowNoteView' = FollowNoteView
  BY Viewed DEF FollowsIn, FollowNotesIn, DeletePostDone
<1>12. LeftView' = LeftView
  BY Viewed DEF LeftIn, DeletePostDone
<1>. QED
  BY <1>3, <1>4, <1>5, <1>6, <1>7, <1>8, <1>9, <1>10, <1>11, <1>12
  DEF R!DeletePost, R!DropPosts, R!There, R!Written

LEMMA CardinalityIs == ASSUME NEW S PROVE R!Cardinality(S) = Cardinality(S)
BY DEF R!Cardinality, Cardinality

LEMMA LeaveSeen ==
  ASSUME Sound(db), Sound(db'), NEW u \in Users, LeaveDone(u, db, db')
  PROVE  R!Leave(u)
<1>. DEFINE d == db  e == db'
            mine == {p \in Posts : PostView[p] = "there" /\ Owner[p] = u}
            lost == {c \in Comments : CommentView[c] = "there"
                                        /\ (On[c] \in mine \/ Author[c] = u)}
<1>1. \A p \in Posts : p \in mine <=> Mine(d, u, p)
  BY Viewed, Values DEF PostsIn, Mine
<1>2. \A c \in Comments :
        c \in lost <=> d[Comment(c)] = "there" /\ u \in {Author[c], Owner[On[c]]}
  <2>1. \A c \in Comments : CommentView[c] = "there" <=> d[Comment(c)] = "there"
    BY Viewed, Values DEF CommentsIn
  <2>2. \A c \in Comments : d[Comment(c)] = "there" => ThereIn(d, Post(On[c]))
    BY DEF Sound, ForeignKeys
  <2>. QED
    BY <1>1, <2>1, <2>2, OnAssumption DEF Mine
<1>. HIDE DEF mine, lost
<1>3. ASSUME NEW p \in Posts
      PROVE  /\ Status(e, Post(p)) = IF p \in mine THEN "deleted" ELSE Status(d, Post(p))
             /\ Cell(e, p, "text", NoText) = IF p \in mine THEN NoText
                                             ELSE Cell(d, p, "text", NoText)
             /\ Cell(e, p, "likes", 0) =
                  IF p \in mine THEN 0
                  ELSE Less(Cell(d, p, "likes", 0), IF <<u, p>> \in LikeView THEN 1 ELSE 0)
             /\ Cell(e, p, "comments", 0) =
                  IF p \in mine THEN 0
                  ELSE Less(Cell(d, p, "comments", 0), Cardinality(Said(d, u, p)))
  <2>1. e[Post(p)] = IF Mine(d, u, p) THEN Used
                     ELSE IF ThereIn(d, Post(p)) THEN Uncounted(d, u, p, 8)
                     ELSE d[Post(p)]
    BY DEF LeaveDone
  <2>2. <<u, p>> \in LikeView <=> LikesIt(d, u, p)
    BY Viewed DEF LikesIn, LikesIt
  <2>3. Cardinality(Said(d, u, p)) \in Nat
    <3>1. IsFiniteSet(Said(d, u, p))
      BY FS_Subset, FiniteAssumption DEF Said
    <3>. QED
      BY <3>1, FS_CardinalityType
  <2>4. CASE Mine(d, u, p)
    BY <1>1, <2>1, <2>4, AbsentAssumption DEF Status, Cell
  <2>5. CASE ~Mine(d, u, p) /\ ThereIn(d, Post(p))
    <3>1. d[Post(p)] \in PostRows /\ Uncounted(d, u, p, 8) \in PostRows
      BY <2>5, RowIs DEF Sound, DbOK
    <3>2. ThereIn(e, Post(p)) /\ Status(e, Post(p)) = "there" /\ Status(d, Post(p)) = "there"
      BY <2>1, <2>5, <3>1, AbsentAssumption DEF ThereIn, Status
    <3>3. /\ e[Post(p)].text = d[Post(p)].text
          /\ e[Post(p)].likes = Less(d[Post(p)].likes, IF <<u, p>> \in LikeView THEN 1 ELSE 0)
          /\ e[Post(p)].comments = Less(d[Post(p)].comments, Cardinality(Said(d, u, p)))
      <4>1. d[Post(p)].likes \in Nat
        BY <3>1 DEF PostRows
      <4>. QED
        BY <2>1, <2>2, <2>5, <4>1 DEF Uncounted, Less
    <3>. QED
      BY <1>1, <2>5, <3>2, <3>3 DEF Cell
  <2>6. CASE ~Mine(d, u, p) /\ ~ThereIn(d, Post(p))
    <3>1. e[Post(p)] = d[Post(p)] /\ ~ThereIn(e, Post(p))
      BY <2>1, <2>6 DEF ThereIn
    <3>2. \A f, none : Cell(d, p, f, none) = none /\ Cell(e, p, f, none) = none
      BY <2>6, <3>1, Values
    <3>3. Status(e, Post(p)) = Status(d, Post(p))
      BY <3>1 DEF Status
    <3>4. \A n \in Nat : Less(0, n) = 0
      BY DEF Less
    <3>. QED
      BY <1>1, <2>3, <2>6, <3>2, <3>3, <3>4
  <2>. QED
    BY <2>4, <2>5, <2>6
<1>4. ASSUME NEW p \in Posts, p \notin mine
      PROVE  {c \in lost : On[c] = p} = Said(d, u, p)
  <2>1. lost \subseteq Comments
    BY DEF lost
  <2>2. \A c \in Comments : d[Comment(c)] = "there" => ThereIn(d, Post(On[c]))
    BY DEF Sound, ForeignKeys
  <2>. QED
    BY <1>1, <1>2, <1>4, <2>1, <2>2 DEF Said, Mine
<1>5. /\ PostView' = [p \in Posts |-> IF p \in mine THEN "deleted" ELSE PostView[p]]
      /\ TextView' = [p \in Posts |-> IF p \in mine THEN NoText ELSE TextView[p]]
  BY <1>3, Viewed DEF PostsIn, TextsIn
<1>6. TagView' = [p \in Posts |-> IF p \in mine THEN {} ELSE TagView[p]]
  BY <1>1, Viewed DEF TagsIn, LeaveDone
<1>7. CommentView' = [c \in Comments |-> IF c \in lost THEN "deleted" ELSE CommentView[c]]
  <2>1. \A c \in Comments :
          Status(e, Comment(c)) = IF c \in lost THEN "deleted" ELSE Status(d, Comment(c))
    BY <1>2, AbsentAssumption DEF LeaveDone, Status
  <2>. QED
    BY <2>1, Viewed DEF CommentsIn
<1>8. CommentCountView' = [p \in Posts |->
        IF p \in mine THEN 0
        ELSE R!Less(CommentCountView[p], R!Cardinality({c \in lost : On[c] = p}))]
  <2>1. \A p \in Posts : p \notin mine =>
          R!Cardinality({c \in lost : On[c] = p}) = Cardinality(Said(d, u, p))
    BY <1>4, CardinalityIs
  <2>. QED
    BY <1>3, <2>1, Viewed DEF CommentCountsIn, R!Less, Less
<1>9. LikeView' = {l \in LikeView : l[1] # u /\ l[2] \notin mine}
  <2>1. \A x \in Users, p \in Posts : d[LikeRow(x, p)] = "there" => ThereIn(d, Post(p))
    BY DEF Sound, ForeignKeys
  <2>2. \A x \in Users, p \in Posts :
          e[LikeRow(x, p)] = "there" <=> d[LikeRow(x, p)] = "there" /\ x # u /\ p \notin mine
    BY <1>1, <2>1, AbsentAssumption DEF LeaveDone, Mine
  <2>. QED
    BY <2>2, Viewed DEF LikesIn
<1>10. LikeCountView' = [p \in Posts |->
         IF p \in mine THEN 0
         ELSE R!Less(LikeCountView[p], IF <<u, p>> \in LikeView THEN 1 ELSE 0)]
  BY <1>3, Viewed DEF LikeCountsIn, R!Less, Less
<1>11. FollowView' = {f \in FollowView : f[1] # u /\ f[2] # u}
  BY Viewed, AbsentAssumption DEF FollowsIn, LeaveDone
<1>12. LikeNoteView' = [l \in Users \X Posts |->
         IF l[1] = u \/ Owner[l[2]] = u THEN 0 ELSE LikeNoteView[l]]
  BY Viewed DEF LikeNotesIn, LeaveDone
<1>13. CommentNoteView' = [c \in Comments |->
         IF Author[c] = u \/ Owner[On[c]] = u THEN 0 ELSE CommentNoteView[c]]
  BY Viewed DEF CommentNotesIn, LeaveDone
<1>14. FollowNoteView' = [f \in Users \X Users |->
         IF f[1] = u \/ f[2] = u THEN 0 ELSE FollowNoteView[f]]
  BY Viewed DEF FollowNotesIn, LeaveDone
<1>15. LeftView' = LeftView \union {u}
  BY Viewed DEF LeftIn, LeaveDone
<1>. QED
  BY <1>5, <1>6, <1>7, <1>8, <1>9, <1>10, <1>11, <1>12, <1>13, <1>14, <1>15
  DEF R!Leave, R!DropPosts, R!There, R!Written, mine, lost

LEMMA EffectSeen ==
  ASSUME NEW t, Sound(db), Sound(db'), Effect(t, db, db')
  PROVE  R!Next \/ UNCHANGED R!vars
<1>1. Others(db, db', TagRows) => UNCHANGED R!vars
  BY NothingSeen
<1>2. ASSUME NEW u, NEW p, LikeDone(u, p, db, db') \/ UnlikeDone(u, p, db, db')
      PROVE  R!ReactionStep
  BY <1>2, LikeSeen, UnlikeSeen DEF LikeDone, UnlikeDone, R!ReactionStep
<1>3. ASSUME NEW c, CommentDone(c, db, db') \/ UncommentDone(c, db, db')
      PROVE  R!ReactionStep
  BY <1>3, CommentSeen, UncommentSeen DEF CommentDone, UncommentDone, R!ReactionStep
<1>4. ASSUME NEW u, NEW v, FollowDone(u, v, db, db') \/ UnfollowDone(u, v, db, db')
      PROVE  R!ReactionStep
  BY <1>4, FollowSeen DEF FollowDone, UnfollowDone, R!ReactionStep
<1>5. ASSUME NEW p, NEW s, PublishDone(p, s, db, db') \/ EditDone(p, s, db, db')
      PROVE  R!PostStep
  BY <1>5, PublishSeen, EditSeen DEF PublishDone, EditDone, R!PostStep
<1>6. ASSUME NEW p, DeletePostDone(p, db, db')
      PROVE  R!PostStep
  BY <1>6, DeletePostSeen DEF DeletePostDone, R!PostStep
<1>7. ASSUME NEW u, LeaveDone(u, db, db')
      PROVE  R!Next
  BY <1>7, LeaveSeen DEF LeaveDone, R!Next
<1>. QED
  BY <1>1, <1>2, <1>3, <1>4, <1>5, <1>6, <1>7 DEF Effect, R!Next

LEMMA InitSeen == Init => R!Init
<1> SUFFICES ASSUME Init PROVE R!Init
  OBVIOUS
<1>1. IInv
  BY InitHolds
<1>2. /\ \A i \in Notes : i[1] \in {"likeNote", "commentNote", "followNote"}
      /\ \A i \in Links : i[1] = "tags"
  BY Parts DEF Notes, Links
<1>3. /\ \A u \in Users : db[User(u)] = "active"
      /\ \A p \in Posts : db[Post(p)] = Absent /\ db[PostTags(p)] = {}
      /\ \A c \in Comments : db[Comment(c)] = Absent
      /\ \A u \in Users, p \in Posts : db[LikeRow(u, p)] = Absent
      /\ \A u, v \in Users : db[FollowRow(u, v)] = Absent
  BY <1>2, Parts, Places DEF Init, Links
<1>4. /\ \A u \in Users, p \in Posts : db[LikeNote(u, p)] = 0
      /\ \A c \in Comments : db[CommentNote(c)] = 0
      /\ \A u, v \in Users : db[FollowNote(u, v)] = 0
  BY NotesAtFirst
<1>5. /\ PostView = [p \in Posts |-> "unwritten"]
      /\ TextView = [p \in Posts |-> NoText]
      /\ CommentView = [c \in Comments |-> "unwritten"]
      /\ LikeCountView = [p \in Posts |-> 0]
      /\ CommentCountView = [p \in Posts |-> 0]
  <2>1. /\ \A p \in Posts : State(Post(p)) = "unwritten"
        /\ \A c \in Comments : State(Comment(c)) = "unwritten"
    BY <1>3, AbsentAssumption DEF State
  <2>2. PostView = [p \in Posts |-> "unwritten"]
        /\ CommentView = [c \in Comments |-> "unwritten"]
    BY <2>1 DEF PostView, CommentView
  <2>3. \A p \in Posts : \A f, none : Column(p, f, none) = none
    BY <2>1 DEF Column
  <2>4. TextView = [p \in Posts |-> NoText]
    BY <2>3 DEF TextView
  <2>5. /\ LikeCountView = [p \in Posts |-> 0]
        /\ CommentCountView = [p \in Posts |-> 0]
    BY <2>3 DEF LikeCountView, CommentCountView
  <2>. QED
    BY <2>2, <2>4, <2>5
<1>6. /\ TagView = [p \in Posts |-> {}]
      /\ LikeView = {} /\ FollowView = {} /\ LeftView = {}
  BY <1>3, AbsentAssumption DEF TagView, LikeView, FollowView, LeftView
<1>7. /\ LikeNoteView = [l \in Users \X Posts |-> 0]
      /\ CommentNoteView = [c \in Comments |-> 0]
      /\ FollowNoteView = [f \in Users \X Users |-> 0]
  BY <1>4 DEF LikeNoteView, CommentNoteView, FollowNoteView
<1>. QED
  BY <1>5, <1>6, <1>7 DEF R!Init

LEMMA NextSeen == IInv /\ [Next]_vars => [R!Next]_(R!vars)
<1>1. UNCHANGED db => UNCHANGED R!vars
  BY Viewed DEF R!vars, R!posts, R!counts
<1>2. ASSUME IInv, NEW w \in Workers, Commit(w)
      PROVE  R!Next \/ UNCHANGED R!vars
  <2>1. Effect(tx[w], db, db') /\ Sound(db)
    BY <1>2, Commits DEF IInv, Sound
  <2>2. Sound(db')
    BY <2>1, EffectSound
  <2>. QED
    BY <2>1, <2>2, EffectSeen
<1>3. ASSUME NEW w \in Workers, Asked(w) PROVE UNCHANGED db
  BY <1>3 DEF Asked, AskLike, AskComment, AskUncomment, AskFollow, AskPublish, AskEdit,
     AskDeletePost, AskLeave, Ask
<1>4. ASSUME NEW w \in Workers,
             Lookup(w) \/ Execute(w) \/ Rollback(w) \/ Victim(w) \/ Abandon(w)
      PROVE  UNCHANGED db
  BY <1>4 DEF Lookup, Execute, Rollback, Victim, Abandon
<1>5. UNCHANGED vars => UNCHANGED db
  BY DEF vars
<1>. QED
  BY <1>1, <1>2, <1>3, <1>4, <1>5 DEF Next, Proceed

(* Every transaction takes effect as one operation of Reactions or not at   *)
(* all, however the statements of the others fall in between: the locks of  *)
(* the statements, and that inTx commits once, see to that (db.go).         *)
THEOREM Refines == Spec => Atomic
<1>. QED
  BY Inductive, InitSeen, NextSeen, PTL DEF Spec, Atomic, R!Spec

-----------------------------------------------------------------------------
(* What is proved of Reactions holds of the committed rows.                 *)

LEMMA Finite == RP!FiniteAssumption
BY FiniteAssumption DEF RP!FiniteAssumption, RP!IsFiniteSet, IsFiniteSet

LEMMA SameHelpers ==
  /\ \A S : RP!Cardinality(S) = R!Cardinality(S)
  /\ \A n, k : RP!Less(n, k) = R!Less(n, k)
  /\ \A u, v : RP!Told(u, v) = R!Told(u, v)
  /\ RP!TagsOf = R!TagsOf
BY DEF RP!Cardinality, R!Cardinality, RP!Less, R!Less, RP!Told, R!Told, RP!TagsOf,
   R!TagsOf

LEMMA SameInit == R!Init => RP!Init
BY DEF R!Init, RP!Init

LEMMA SameNext == [R!Next]_(R!vars) => [RP!Next]_(RP!vars)
<1>1. ASSUME NEW p \in Posts, NEW s \in Texts
      PROVE  /\ R!Publish(p, s) => RP!Publish(p, s)
             /\ R!Edit(p, s) => RP!Edit(p, s)
  BY SameHelpers DEF R!Publish, RP!Publish, R!Edit, RP!Edit, R!Write, RP!Write, R!There,
     RP!There, R!counts, RP!counts
<1>2. ASSUME NEW p \in Posts, R!DeletePost(p)
      PROVE  RP!DeletePost(p)
  BY <1>2, Zenon DEF R!DeletePost, RP!DeletePost, R!DropPosts, RP!DropPosts, R!There,
     RP!There, R!Written, RP!Written
<1>3. ASSUME NEW u \in Users, NEW p \in Posts
      PROVE  /\ R!Like(u, p) => RP!Like(u, p)
             /\ R!Unlike(u, p) => RP!Unlike(u, p)
  BY SameHelpers DEF R!Like, RP!Like, R!Unlike, RP!Unlike, R!There, RP!There, R!posts,
     RP!posts
<1>4. ASSUME NEW c \in Comments
      PROVE  /\ R!CreateComment(c) => RP!CreateComment(c)
             /\ R!DeleteComment(c) => RP!DeleteComment(c)
  BY SameHelpers DEF R!CreateComment, RP!CreateComment, R!DeleteComment, RP!DeleteComment,
     R!There, RP!There, R!Written, RP!Written, R!posts, RP!posts
<1>5. ASSUME NEW u \in Users, NEW v \in Users
      PROVE  /\ R!Follow(u, v) => RP!Follow(u, v)
             /\ R!Unfollow(u, v) => RP!Unfollow(u, v)
  BY DEF R!Follow, RP!Follow, R!Unfollow, RP!Unfollow, R!posts, RP!posts, R!counts,
     RP!counts
<1>6. ASSUME NEW u \in Users, R!Leave(u)
      PROVE  RP!Leave(u)
  BY <1>6, SameHelpers, Zenon DEF R!Leave, RP!Leave, R!DropPosts, RP!DropPosts, R!There,
     RP!There, R!Written, RP!Written
<1>7. UNCHANGED R!vars => UNCHANGED RP!vars
  BY DEF R!vars, RP!vars, R!posts, RP!posts, R!counts, RP!counts
<1>8. R!PostStep => RP!PostStep
  BY <1>1, <1>2 DEF R!PostStep, RP!PostStep
<1>9. R!ReactionStep => RP!ReactionStep
  BY <1>3, <1>4, <1>5 DEF R!ReactionStep, RP!ReactionStep
<1>. QED
  BY <1>6, <1>7, <1>8, <1>9 DEF R!Next, RP!Next

LEMMA SameSpec == Spec => RP!Spec
BY Refines, SameInit, SameNext, PTL DEF Atomic, R!Spec, RP!Spec

(* Committed rows have their types, and no row is written by one            *)
(* transaction while another holds it (InnoDB's locks, db.go).              *)
THEOREM TypeCorrect == Spec => []TypeOK
<1>1. RP!Spec => []RP!TypeOK
  BY RP!TypeCorrect, Finite, OwnerAssumption, AuthorAssumption, OnAssumption,
     TagAssumption, PTL DEF RP!FiniteAssumption
<1>2. RP!TypeOK => R!TypeOK
  BY DEF RP!TypeOK, R!TypeOK, RP!States, R!States
<1>3. R!TypeOK /\ IInv => TypeOK
  BY DEF TypeOK, IInv, TxOK, Request, Exclusive
<1>. QED
  BY <1>1, <1>2, <1>3, SameSpec, Inductive, PTL

(* like_count and comment_count of a committed post are the numbers of its  *)
(* likes and comments, whatever ran at the same time (reactions.go).        *)
THEOREM CountersRight == Spec => []CountsMatch
<1>1. RP!Spec => []RP!CountsMatch
  BY RP!CountersRight, Finite, OwnerAssumption, AuthorAssumption, OnAssumption,
     TagAssumption, PTL DEF RP!FiniteAssumption
<1>2. RP!CountsMatch => R!CountsMatch
  <2>1. \A p \in Posts : RP!Likers(p) = R!Likers(p)
    BY DEF RP!Likers, R!Likers
  <2>2. \A p \in Posts : RP!CommentsOn(p) = R!CommentsOn(p)
    BY DEF RP!CommentsOn, R!CommentsOn, RP!Written, R!Written
  <2>. QED
    BY <2>1, <2>2, SameHelpers DEF RP!CountsMatch, R!CountsMatch
<1>. QED
  BY <1>1, <1>2, SameSpec, PTL DEF CountsMatch

(* A committed like, comment or follow has its one notification, and none   *)
(* is left of one that is gone (reactions.go, follows.go, account.go).      *)
THEOREM NotificationsRight == Spec => []NotesMatch
<1>1. RP!Spec => []RP!NotesMatch
  BY RP!NotificationsRight, Finite, OwnerAssumption, AuthorAssumption, OnAssumption,
     TagAssumption, PTL DEF RP!FiniteAssumption
<1>2. RP!NotesMatch => R!NotesMatch
  BY SameHelpers DEF RP!NotesMatch, R!NotesMatch, RP!Written, R!Written
<1>. QED
  BY <1>1, <1>2, SameSpec, PTL DEF NotesMatch

(* The tags of a committed post are those sent with its text: two edits of  *)
(* one post do not mix (posts.go).                                          *)
THEOREM TagsRight == Spec => []TagsFit
<1>1. RP!Spec => []RP!TagsFit
  BY RP!TagsRight, Finite, OwnerAssumption, AuthorAssumption, OnAssumption,
     TagAssumption, PTL DEF RP!FiniteAssumption
<1>2. RP!TagsFit => R!TagsFit
  BY SameHelpers DEF RP!TagsFit, R!TagsFit, RP!There, R!There
<1>. QED
  BY <1>1, <1>2, SameSpec, PTL DEF TagsFit
=============================================================================
