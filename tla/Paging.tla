-------------------------------- MODULE Paging --------------------------------
(***************************************************************************)
(* Lists that are read page by page with a cursor while their rows come,   *)
(* go, move and cease to match: the feeds, the journeys of a user, the     *)
(* comments of a post, notifications, followers and both orders of the     *)
(* search.  One reader reads one list, as the screens of the client do.    *)
(*                                                                         *)
(* The cursor is the place of the last row of a page: its id, together     *)
(* with its like count (popularity) or the day of the visit (journeys).    *)
(* It stays what it was when that row moves or is deleted.                 *)
(***************************************************************************)
EXTENDS Naturals, Sequences, FiniteSets, Functions

CONSTANTS
  Lists,      \* the lists that are read
  Ids,        \* ids of rows (AUTO_INCREMENT)
  Ranks,      \* like counts, or days of visits
  Limit,      \* rows of a page
  Top,        \* the largest id and rank: where the first page begins
  NoComment   \* no comment has been sent

Kinds == {"feed", "userPosts", "followingFeed", "journeys", "comments",
          "notifications", "followers", "following", "popular", "latest",
          "userSearch"}

ASSUME ListAssumption == Lists \subseteq Kinds
ASSUME IdAssumption == Ids \subseteq Nat \ {0} /\ IsFiniteSet(Ids)
ASSUME LimitAssumption == Limit \in Nat \ {0}
ASSUME RankAssumption == Ranks \subseteq Nat /\ 0 \in Ranks
ASSUME TopAssumption == Top \in Nat /\ \A n \in Ids \union Ranks : n < Top
ASSUME NoCommentAssumption == NoComment \notin Ids

(* ORDER BY id; all other lists begin with the largest. *)
Ascending == {"comments", "followers", "following", "userSearch"}
(* ORDER BY like_count (popular) or visited_on (journeys), then by id. *)
ByRank == {"popular", "journeys"}
(* Rows begin and cease to match: follows, edits (a journey is a post with  *)
(* a day of visit, which an edit can add or take away), users who leave.    *)
Changing == {"followingFeed", "journeys", "followers", "following", "popular",
             "latest", "userSearch"}
(* The tables hold the rows of other users and posts as well. *)
Mixed == Kinds \ {"feed"}

VARIABLES
  list,    \* the list that is read
  row,     \* "unborn", "inserted" (not committed), "listed" (it matches),
           \* "hidden" (it does not), "deleted"
  rank,    \* like_count or visited_on
  shown,   \* what the screen has, in its order
  cursor,  \* nextCursor of the screen
  load,    \* the request under way: its state, its rows and its next cursor
  sent,    \* the comment whose answer is under way
  stayed,  \* history: listed when the first page was read, not touched since
  moved,   \* history: rows whose rank has changed since they came to the
           \* screen or into the page under way
  added    \* history: comments that the screen has put at the end itself

table == <<row, rank>>
screen == <<shown, cursor, load, sent>>
history == <<stayed, moved, added>>
vars == <<list, table, screen, history>>

(* Where a row is in the order of the list, and where the first page begins.*)
Place(r) == <<IF list \in ByRank THEN rank[r] ELSE 0, r>>
Start == IF list \in Ascending THEN <<0, 0>> ELSE <<Top, Top>>
NoMore == <<0, 0, "none">>
Ready == cursor # Start
Idle == [state |-> "idle", rows |-> <<>>, next |-> NoMore]

(* ORDER BY *)
Earlier(p, q) ==
  IF list \in Ascending THEN p[2] < q[2]
  ELSE p[1] > q[1] \/ (p[1] = q[1] /\ p[2] > q[2])

-----------------------------------------------------------------------------
(* The queries: the rows beyond a cursor.                                   *)
There == {r \in Ids : row[r] \in {"listed", "hidden"}}
Listed == {r \in There : row[r] = "listed"}

(* What of a sequence is in S, in the same order.                           *)
Only(s, S) ==
  LET kept == {i \in DOMAIN s : s[i] \in S}
      Nth(n) == CHOOSE i \in kept : Cardinality({h \in kept : h <= i}) = n
  IN [n \in 1 .. Cardinality(kept) |-> s[Nth(n)]]

(* Faults: the page begins with the row of the cursor, ranks without ids,   *)
(* ids in the wrong direction.                                              *)
AtOrBefore(c, r) == r <= c[2]
BeforeByRankOnly(c, r) == rank[r] < c[1]
BeforeByRankReversed(c, r) == rank[r] < c[1] \/ (rank[r] = c[1] /\ r # c[2])

(* WHERE id < ?, id > ?, and the pair. *)
Before(c, r) == r < c[2]
After(c, r) == r > c[2]
BeforeByRank(c, r) == rank[r] < c[1] \/ (rank[r] = c[1] /\ r < c[2])

ListPostsBefore(c) == {r \in There : Before(c, r)}
ListPostsByUserBefore(c) == {r \in Listed : Before(c, r)}
ListFollowingFeedBefore(c) == {r \in Listed : Before(c, r)}
ListTravelsByUserBefore(c) == {r \in Listed : BeforeByRank(c, r)}
ListCommentsAfter(c) == {r \in Listed : After(c, r)}
ListNotificationsBefore(c) == {r \in Listed : Before(c, r)}
ListFollowersAfter(c) == {r \in Listed : After(c, r)}
ListFollowingAfter(c) == {r \in Listed : After(c, r)}
PostHits(c) == {r \in Listed : IF list = "popular" THEN BeforeByRank(c, r) ELSE Before(c, r)}
UserHits(c) == {r \in Listed : After(c, r)}
ListPostsByIDs(ids) == Only(ids, There)

(* LIMIT limit + 1, of which limit rows are answered: the first of the      *)
(* matching rows, in the order of the list.  A row that is left over tells  *)
(* that there are more.                                                     *)
Pages == UNION {[1 .. n -> Ids] : n \in 0 .. Limit + 1}

Sorted(p) == \A i, j \in DOMAIN p : i < j => Earlier(Place(p[i]), Place(p[j]))

(* Fault: the row that is left over is answered as well.                    *)
IsPageAndOne(p, matching) ==
  /\ Range(p) \subseteq matching /\ Sorted(p)
  /\ \A r \in matching \ Range(p) :
       Len(p) = Limit + 1 /\ Earlier(Place(p[Limit]), Place(r))

IsPage(p, matching) ==
  /\ Range(p) \subseteq matching /\ Sorted(p) /\ Len(p) <= Limit
  /\ \A r \in matching \ Range(p) :
       Len(p) = Limit /\ Earlier(Place(p[Limit]), Place(r))

NextCursor(p, matching) == IF matching # Range(p) THEN Place(p[Limit]) ELSE NoMore

Page(matching) ==
  LET p == CHOOSE p \in Pages : IsPage(p, matching)
  IN [rows |-> p, next |-> NextCursor(p, matching)]

(* The functions of the store and of the search. *)
FeedPage(c) == Page(ListPostsBefore(c))
UserPostsPage(c) == Page(ListPostsByUserBefore(c))
FollowingFeedPage(c) == Page(ListFollowingFeedBefore(c))
TravelsPage(c) == Page(ListTravelsByUserBefore(c))
CommentsPage(c) == Page(ListCommentsAfter(c))
NotificationsPage(c) == Page(ListNotificationsBefore(c))
FollowersPage(c) == Page(ListFollowersAfter(c))
FollowingPage(c) == Page(ListFollowingAfter(c))
PostsFound(c) == Page(PostHits(c))
UsersFound(c) == Page(UserHits(c))

-----------------------------------------------------------------------------
(* Any rows may be there when the screen is opened. *)
Init ==
  /\ list \in Lists
  /\ row \in [Ids -> {"unborn", "listed", "hidden"}]
  /\ \A q, r \in Ids : q < r /\ row[q] = "unborn" => row[r] = "unborn"
  /\ \A r \in Ids : row[r] = "hidden" => list \in Mixed
  /\ rank \in [Ids -> Ranks]
  /\ \A r \in Ids : list \notin ByRank \/ row[r] = "unborn" => rank[r] = 0
  /\ shown = <<>> /\ cursor = Start /\ load = Idle /\ sent = NoComment
  /\ stayed = {} /\ moved = {} /\ added = {}

-----------------------------------------------------------------------------
(* The others.  Likes and edits change ranks.                               *)
SetRank(r, k) ==
  /\ rank' = [rank EXCEPT ![r] = k]
  /\ moved' = IF k # rank[r] /\ r \in Range(shown) \union Range(load.rows)
              THEN moved \union {r} ELSE moved

(* The ranks a row may begin to match with: a post is given its day when it *)
(* is made or edited; its likes begin with none, and edits leave them.      *)
Days(r) == IF list = "journeys" THEN Ranks ELSE {rank[r]}

(* Ids are given in order, transactions commit in any order.                *)
Insert(r) ==
  /\ row[r] = "unborn"
  /\ \A q \in Ids : q < r => row[q] # "unborn"
  /\ row' = [row EXCEPT ![r] = "inserted"]
  /\ \E k \in Days(r) : SetRank(r, k)
  /\ UNCHANGED <<list, screen, stayed, added>>

CommitInsert(r) ==
  /\ row[r] = "inserted"
  /\ \/ row' = [row EXCEPT ![r] = "listed"]
     \/ list \in Mixed /\ row' = [row EXCEPT ![r] = "hidden"]
     \/ row' = [row EXCEPT ![r] = "deleted"]
  /\ UNCHANGED <<list, rank, screen, history>>

Show(r) ==
  /\ list \in Changing /\ row[r] = "hidden"
  /\ row' = [row EXCEPT ![r] = "listed"]
  /\ \E k \in Days(r) : SetRank(r, k)
  /\ UNCHANGED <<list, screen, stayed, added>>

Hide(r) ==
  /\ list \in Changing /\ row[r] = "listed"
  /\ row' = [row EXCEPT ![r] = "hidden"]
  /\ stayed' = stayed \ {r}
  /\ UNCHANGED <<list, rank, screen, moved, added>>

Delete(r) ==
  /\ row[r] \in {"listed", "hidden"}
  /\ row' = [row EXCEPT ![r] = "deleted"]
  /\ stayed' = stayed \ {r}
  /\ UNCHANGED <<list, rank, screen, moved, added>>

(* Likes, and edits of the day of the visit. *)
Move(r, k) ==
  /\ list \in ByRank /\ row[r] \in {"listed", "hidden"} /\ k # rank[r]
  /\ SetRank(r, k)
  /\ stayed' = stayed \ {r}
  /\ UNCHANGED <<list, row, screen, added>>

-----------------------------------------------------------------------------
(* A handler, asked for the first page or for the next one. *)
Answers(page, state) ==
  /\ load.state = "idle" /\ cursor # NoMore
  /\ load' = [state |-> state, rows |-> page.rows, next |-> page.next]
  /\ stayed' = IF Ready THEN stayed ELSE Listed
  /\ moved' = IF Ready THEN moved ELSE {}
  /\ UNCHANGED <<list, table, shown, cursor, sent, added>>

ListPosts == list = "feed" /\ Answers(FeedPage(cursor), "answered")
ListUserPosts == list = "userPosts" /\ Answers(UserPostsPage(cursor), "answered")
ListFollowingFeed ==
  list = "followingFeed" /\ Answers(FollowingFeedPage(cursor), "answered")
ListUserTravels == list = "journeys" /\ Answers(TravelsPage(cursor), "answered")
ListComments == list = "comments" /\ Answers(CommentsPage(cursor), "answered")
ListNotifications ==
  list = "notifications" /\ Answers(NotificationsPage(cursor), "answered")
ListFollowers == list = "followers" /\ Answers(FollowersPage(cursor), "answered")
ListFollowing == list = "following" /\ Answers(FollowingPage(cursor), "answered")
SearchUsers == list = "userSearch" /\ Answers(UsersFound(cursor), "answered")

(* The search finds ids.  The posts are read by a second query: those that  *)
(* are still there, in the order in which they were found.                  *)
SearchPosts ==
  list \in {"popular", "latest"} /\ Answers(PostsFound(cursor), "found")

ReadFound ==
  /\ load.state = "found"
  /\ load' = [load EXCEPT !.state = "answered", !.rows = ListPostsByIDs(@)]
  /\ UNCHANGED <<list, table, shown, cursor, sent, history>>

(* loadMore: the rows go to the end of what the screen has by now. *)
Receive ==
  /\ load.state = "answered"
  /\ shown' = shown \o load.rows
  /\ cursor' = load.next
  /\ load' = Idle
  /\ UNCHANGED <<list, table, sent, history>>

(* An error or a lost answer: what is shown remains. *)
LoadFails ==
  /\ load.state # "idle"
  /\ load' = Idle
  /\ UNCHANGED <<list, table, shown, cursor, sent, history>>

(* The screen is opened again. *)
Reload ==
  /\ Ready /\ load.state = "idle" /\ sent = NoComment
  /\ shown' = <<>> /\ cursor' = Start
  /\ stayed' = {} /\ moved' = {} /\ added' = {}
  /\ UNCHANGED <<list, table, load, sent>>

(* CommentSection: a comment is sent and put at the end when it is answered.*)
Submit(r) ==
  /\ list = "comments" /\ Ready /\ sent = NoComment
  /\ row[r] = "unborn"
  /\ \A q \in Ids : q < r => row[q] # "unborn"
  /\ row' = [row EXCEPT ![r] = "listed"]
  /\ sent' = r
  /\ UNCHANGED <<list, rank, shown, cursor, load, history>>

Submitted ==
  /\ sent # NoComment
  /\ shown' = Append(shown, sent)
  /\ added' = added \union {sent}
  /\ sent' = NoComment
  /\ UNCHANGED <<list, table, cursor, load, stayed, moved>>

SubmitFails ==
  /\ sent # NoComment
  /\ sent' = NoComment
  /\ UNCHANGED <<list, table, shown, cursor, load, history>>

(* A comment that the reader has deleted (Delete) leaves the screen as well.*)
Removed(r) ==
  /\ list = "comments" /\ r \in Range(shown) /\ row[r] = "deleted"
  /\ shown' = Only(shown, Ids \ {r})
  /\ UNCHANGED <<list, table, cursor, load, sent, history>>

Others ==
  \E r \in Ids : \/ Insert(r) \/ CommitInsert(r) \/ Show(r) \/ Hide(r)
                 \/ Delete(r) \/ \E k \in Ranks : Move(r, k)

Handlers ==
  \/ ListPosts \/ ListUserPosts \/ ListFollowingFeed \/ ListUserTravels
  \/ ListComments \/ ListNotifications \/ ListFollowers \/ ListFollowing
  \/ SearchUsers \/ SearchPosts \/ ReadFound

Reader ==
  \/ Receive \/ LoadFails \/ Reload
  \/ Submitted \/ SubmitFails \/ \E r \in Ids : Submit(r) \/ Removed(r)

Next == Others \/ Handlers \/ Reader

Spec == Init /\ [][Next]_vars

-----------------------------------------------------------------------------
Cursors == {NoMore} \union ((Ranks \union {0, Top}) \X (Ids \union {0, Top}))

TypeOK ==
  /\ list \in Lists
  /\ row \in [Ids -> {"unborn", "inserted", "listed", "hidden", "deleted"}]
  /\ rank \in [Ids -> Ranks]
  /\ shown \in Seq(Ids)
  /\ cursor \in Cursors
  /\ load \in [state : {"idle", "found", "answered"}, rows : Seq(Ids), next : Cursors]
  /\ Len(load.rows) <= Limit
  /\ sent \in Ids \union {NoComment}
  /\ stayed \subseteq Ids /\ moved \subseteq Ids /\ added \subseteq Ids

(* The pages follow each other in the order of the list, and no row comes a *)
(* second time, as long as it has not changed its rank itself since it came *)
(* to the screen: rows that were new, moved or shown again before they came *)
(* are in their place, and the row of the cursor may have moved or gone     *)
(* (search.go: cursor and order belong together).                           *)
InOrder ==
  LET still == Range(shown) \ (moved \union added) IN
  \A i, j \in DOMAIN shown :
    i < j /\ shown[i] \in still /\ shown[j] \in still =>
      Earlier(Place(shown[i]), Place(shown[j]))

(* Whatever else comes, goes or moves between two pages, a row that was in  *)
(* the list from the first page on and has not been touched is on the       *)
(* screen as soon as the cursor is past its place.                          *)
NothingSkipped ==
  \A r \in stayed :
    Ready /\ (cursor = NoMore \/ ~Earlier(cursor, Place(r))) => r \in Range(shown)

(* Every page brings the reader closer to the end, also when likes keep on  *)
(* changing the order: nobody pages in circles.                             *)
CursorAdvances ==
  [][cursor' # cursor => cursor' \in {NoMore, Start'} \/ Earlier(cursor, cursor')]_vars
=============================================================================
