--------------------------- MODULE MediaLifecycle ---------------------------
(***************************************************************************)
(* The life of an uploaded image, across the API server, the image worker  *)
(* (a Lambda started by S3 events), the hourly janitor, MySQL and S3.      *)
(*                                                                         *)
(* A media row and the S3 key it names are created together and are never  *)
(* reused, so one identifier stands for both.  MySQL statements and        *)
(* transactions are single steps; every point at which a handler, the      *)
(* worker or the janitor waits for another system is a step boundary.      *)
(***************************************************************************)
EXTENDS Naturals, FiniteSets

CONSTANTS
  Users,            \* rows of users
  Media,            \* ids of media rows, in AUTO_INCREMENT order
  Posts,            \* ids of posts, never reused
  Kinds,            \* kinds of display variants ("thumb", "medium")
  Workers,          \* concurrent executions of the Lambda
  Requests,         \* concurrent API requests that outlive one transaction
  Janitors,         \* API processes, each with its janitor goroutine
  None,             \* SQL NULL / no such thing
  MaxMediaPerPost,  \* maxMediaPerPost
  BatchLimit,       \* janitor.Config.BatchLimit
  MaxDeliveries,    \* how often Lambda is given one S3 event: once, two
                    \* retries, and duplicates
  MayCrash,         \* whether processes may be killed in the middle
  SilentErrors      \* whether DeleteObjects may report errors per key only

Parts == {"original"} \union Kinds
Objects == Media \X Parts

(* Fault: a key outside of the prefix of originals. *)
Unprefixed(m) == <<m, "unprefixed">>

Original(m) == <<m, "original">>

(***************************************************************************)
(* Ages of a media row, by the thresholds the deployment compares it with. *)
(* The upload URL lives for 15 minutes, the S3 lifecycle rule takes a      *)
(* pending original after 7 days, the janitor an orphan after 8.           *)
(***************************************************************************)
Uploading == 0
Settled   == 1
Expirable == 2
Retired   == 3
Ages == Uploading .. Retired

ASSUME MediaAssumption == Media \subseteq Nat
ASSUME NamesAssumption == /\ "original" \notin Kinds
                          /\ None \notin Media \union Posts \union Users
                          /\ "gone" \notin Users
ASSUME BoundAssumption == MaxDeliveries \in Nat
ASSUME SwitchAssumption == MayCrash \in BOOLEAN /\ SilentErrors \in BOOLEAN

VARIABLES
  status,     \* media.status, with "unused" before the row and "gone" after
  owner,      \* media.user_id
  post,       \* media.post_id
  variants,   \* the kinds that have a media_variants row
  age,        \* how old the row is
  author,     \* posts.user_id; None before the post, "gone" after
  avatar,     \* users.avatar_media_id
  account,    \* users.deleted_at, and whether an access token is still good
  objects,    \* the S3 objects that exist
  kept,       \* originals whose tag is state=kept rather than state=pending
  broken,     \* originals whose content media.Process cannot decode
  events,     \* deliveries of the key's S3 event still to come
  worker,     \* what each Lambda execution is doing
  request,    \* what each API request is doing
  janitor,    \* what each janitor is doing
  pending,    \* pending_object_deletions, by key
  logged      \* keys written to the error log because nothing else holds them

rows == <<status, owner, post, variants, age>>
accounts == <<author, avatar, account>>
bucket == <<objects, kept, broken, events>>
deletions == <<pending, logged>>
vars == <<rows, accounts, bucket, worker, request, janitor, deletions>>

-----------------------------------------------------------------------------
IdleWorker  == [pc |-> "idle", media |-> None, done |-> {}]
IdleRequest == [pc |-> "idle", user |-> None, post |-> None, keys |-> {}]
IdleJanitor == [pc |-> "idle", batch |-> {}, found |-> {}, drain |-> {}]

WorkerState  == {IdleWorker} \union
                [pc : {"download", "upload", "reject"},
                 media : Media, done : SUBSET Kinds]
RequestState == [pc : {"idle", "listOriginals", "mark", "deletePost",
                       "deleteAccount", "deleteObjects", "enqueue"},
                 user : Users \union {None}, post : Posts \union {None},
                 keys : SUBSET Objects]
JanitorState == [pc : {"idle", "objects", "row", "drain", "forget"},
                 batch : SUBSET Media, found : SUBSET Objects,
                 drain : SUBSET Objects]

TypeOK ==
  /\ status \in [Media -> {"unused", "pending", "processed", "failed", "gone"}]
  /\ owner \in [Media -> Users \union {None}]
  /\ post \in [Media -> Posts \union {None}]
  /\ variants \in [Media -> SUBSET Kinds]
  /\ age \in [Media -> Ages]
  /\ author \in [Posts -> Users \union {None, "gone"}]
  /\ avatar \in [Users -> Media \union {None}]
  /\ account \in [Users -> {"active", "leaving", "left"}]
  /\ objects \subseteq Objects
  /\ kept \subseteq Media /\ broken \subseteq Media
  /\ events \in [Media -> 0 .. MaxDeliveries]
  /\ worker \in [Workers -> WorkerState]
  /\ request \in [Requests -> RequestState]
  /\ janitor \in [Janitors -> JanitorState]
  /\ pending \subseteq Objects
  /\ logged \subseteq Objects

Init ==
  /\ status = [m \in Media |-> "unused"]
  /\ owner = [m \in Media |-> None]
  /\ post = [m \in Media |-> None]
  /\ variants = [m \in Media |-> {}]
  /\ age = [m \in Media |-> Uploading]
  /\ author = [p \in Posts |-> None]
  /\ avatar = [u \in Users |-> None]
  /\ account = [u \in Users |-> "active"]
  /\ objects = {} /\ kept = {} /\ broken = {}
  /\ events = [m \in Media |-> 0]
  /\ worker = [w \in Workers |-> IdleWorker]
  /\ request = [r \in Requests |-> IdleRequest]
  /\ janitor = [j \in Janitors |-> IdleJanitor]
  /\ pending = {} /\ logged = {}

Live(m) == status[m] \in {"pending", "processed", "failed"}

(* The access token is a JWT and is not checked against deleted_at, so a    *)
(* user who has left can act until it expires.                              *)
Authenticated(u) == account[u] \in {"active", "leaving"}

(* The keys that the database knows of for the rows in S. *)
KeysOf(S) == {o \in Objects : /\ o[1] \in S /\ Live(o[1])
                              /\ o[2] = "original" \/ o[2] \in variants[o[1]]}

(* DELETE of media rows, with the foreign keys' CASCADE and SET NULL. *)
DropRows(S) ==
  /\ status' = [m \in Media |-> IF m \in S THEN "gone" ELSE status[m]]
  /\ post' = [m \in Media |-> IF m \in S THEN None ELSE post[m]]
  /\ variants' = [m \in Media |-> IF m \in S THEN {} ELSE variants[m]]
  /\ avatar' = [u \in Users |-> IF avatar[u] \in S THEN None ELSE avatar[u]]
  /\ UNCHANGED <<owner, age>>

-----------------------------------------------------------------------------
(* The client and the API: presign, upload, attach.                         *)

(* PresignMediaUpload: the row is written before the URL is handed out.     *)
Presign(u, m) ==
  /\ Authenticated(u)
  /\ status[m] = "unused"
  /\ \A n \in Media : n < m => status[n] # "unused"
  /\ status' = [status EXCEPT ![m] = "pending"]
  /\ owner' = [owner EXCEPT ![m] = u]
  /\ UNCHANGED <<post, variants, age, accounts, bucket, worker, request,
                 janitor, deletions>>

(* The browser PUTs to the signed URL, which dictates the tag.  It may do so *)
(* again while the URL lives; what it sends need not be an image.            *)
Upload(m) ==
  /\ status[m] # "unused"
  /\ age[m] = Uploading
  /\ objects' = objects \union {Original(m)}
  /\ kept' = kept \ {m}
  /\ broken' \in {broken \union {m}, broken \ {m}}
  /\ events' = [events EXCEPT ![m] = MaxDeliveries]
  /\ UNCHANGED <<rows, accounts, worker, request, janitor, deletions>>

(* Fault: a WHERE clause that forgets the status. *)
AttachableInAnyState(m, u) == Live(m) /\ owner[m] = u /\ post[m] = None

(* The WHERE clause shared by AttachMediaToPost and SetAvatar. *)
Attachable(m, u) ==
  /\ status[m] = "processed"
  /\ owner[m] = u
  /\ post[m] = None

(* CreatePost commits the post and all its images in one transaction, or    *)
(* nothing.  markOriginalsKept follows, outside the transaction.            *)
CreatePost(r, u, p, S) ==
  /\ request[r].pc = "idle"
  /\ Authenticated(u)
  /\ author[p] = None
  /\ S # {} /\ Cardinality(S) <= MaxMediaPerPost
  /\ \A m \in S : Attachable(m, u)
  /\ author' = [author EXCEPT ![p] = u]
  /\ post' = [m \in Media |-> IF m \in S THEN p ELSE post[m]]
  /\ request' = [request EXCEPT ![r] = [IdleRequest EXCEPT
                   !.pc = "listOriginals", !.user = u, !.post = p]]
  /\ UNCHANGED <<status, owner, variants, age, avatar, account, bucket, worker,
                 janitor, deletions>>

(* Fault: every image the author ever uploaded. *)
MarkAllUploads(p) ==
  {Original(m) : m \in {n \in Media : owner[n] = author[p] /\ Live(n)}}

(* ListOriginalKeys asks the database again for what was attached. *)
MarkTargets(p) == {Original(m) : m \in {n \in Media : post[n] = p}}

ListOriginals(r) ==
  /\ request[r].pc = "listOriginals"
  /\ LET keys == MarkTargets(request[r].post)
     IN request' = [request EXCEPT ![r] =
          IF keys = {} THEN IdleRequest
          ELSE [request[r] EXCEPT !.pc = "mark", !.keys = keys]]
  /\ UNCHANGED <<rows, accounts, bucket, worker, janitor, deletions>>

(* MarkKept tags one original after another and stops at the first that     *)
(* cannot be tagged; the handler logs it and answers 201 all the same.      *)
MarkKept(r, m) ==
  /\ request[r].pc = "mark"
  /\ Original(m) \in request[r].keys \intersect objects
  /\ kept' = kept \union {m}
  /\ LET left == request[r].keys \ {Original(m)}
     IN request' = [request EXCEPT ![r] =
          IF left = {} THEN IdleRequest ELSE [request[r] EXCEPT !.keys = left]]
  /\ UNCHANGED <<rows, accounts, objects, broken, events, worker, janitor,
                 deletions>>

MarkKeptFails(r) ==
  /\ request[r].pc = "mark"
  /\ request' = [request EXCEPT ![r] = IdleRequest]
  /\ UNCHANGED <<rows, accounts, bucket, worker, janitor, deletions>>

SetAvatar(u, m) ==
  /\ account[u] = "active"
  /\ Attachable(m, u)
  /\ avatar' = [avatar EXCEPT ![u] = m]
  /\ UNCHANGED <<rows, author, account, bucket, worker, request, janitor,
                 deletions>>

ClearAvatar(u) ==
  /\ account[u] = "active"
  /\ avatar[u] # None
  /\ avatar' = [avatar EXCEPT ![u] = None]
  /\ UNCHANGED <<rows, author, account, bucket, worker, request, janitor,
                 deletions>>

-----------------------------------------------------------------------------
(* The API: deleting a post, and leaving.                                   *)

(* Fault: the keys of the author instead of those of the post. *)
ImagesOfAuthor(p) == {m \in Media : owner[m] = author[p]}

ImagesOf(p) == {m \in Media : post[m] = p}

(* requireOwner and ListMediaKeysByPostID, before and outside the DELETE. *)
DeletePostList(r, u, p) ==
  /\ request[r].pc = "idle"
  /\ Authenticated(u)
  /\ author[p] = u
  /\ request' = [request EXCEPT ![r] =
       [pc |-> "deletePost", user |-> u, post |-> p,
        keys |-> KeysOf(ImagesOf(p))]]
  /\ UNCHANGED <<rows, accounts, bucket, worker, janitor, deletions>>

(* What the request does once its transaction has committed: deleteObjects  *)
(* returns at once when there is nothing to delete.                         *)
ToDeleteObjects(r) ==
  request' = [request EXCEPT ![r] =
    IF request[r].keys = {} THEN IdleRequest
    ELSE [request[r] EXCEPT !.pc = "deleteObjects"]]

DeletePostCommit(r) ==
  LET p == request[r].post
  IN /\ request[r].pc = "deletePost"
     /\ IF author[p] = request[r].user
        THEN /\ author' = [author EXCEPT ![p] = "gone"]
             /\ DropRows({m \in Media : post[m] = p})
             /\ ToDeleteObjects(r)
        ELSE /\ request' = [request EXCEPT ![r] = IdleRequest]
             /\ UNCHANGED <<rows, author, avatar>>
     /\ UNCHANGED <<account, bucket, worker, janitor, deletions>>

(* The password check, then the snapshot in which DeleteAccount's            *)
(* transaction reads the keys.                                               *)
DeleteAccountList(r, u) ==
  /\ request[r].pc = "idle"
  /\ account[u] = "active"
  /\ request' = [request EXCEPT ![r] = [IdleRequest EXCEPT
       !.pc = "deleteAccount", !.user = u,
       !.keys = KeysOf({m \in Media : owner[m] = u})]]
  /\ UNCHANGED <<rows, accounts, bucket, worker, janitor, deletions>>

(* The DELETEs of the same transaction act on the current rows, not on the  *)
(* snapshot.                                                                *)
DeleteAccountCommit(r) ==
  LET u == request[r].user
  IN /\ request[r].pc = "deleteAccount"
     /\ author' = [p \in Posts |-> IF author[p] = u THEN "gone" ELSE author[p]]
     /\ DropRows({m \in Media : owner[m] = u /\ Live(m)})
     /\ account' = [account EXCEPT ![u] = IF @ = "active" THEN "leaving" ELSE @]
     /\ ToDeleteObjects(r)
     /\ UNCHANGED <<bucket, worker, janitor, deletions>>

(* The access token of a user who has left runs out (15 minutes). *)
TokenExpires(u) ==
  /\ account[u] = "leaving"
  /\ account' = [account EXCEPT ![u] = "left"]
  /\ UNCHANGED <<rows, author, avatar, bucket, worker, request, janitor,
                 deletions>>

(* The transaction fails, or is retried from its first statement. *)
TransactionFails(r) ==
  /\ request[r].pc \in {"deletePost", "deleteAccount"}
  /\ request' = [request EXCEPT ![r] = IdleRequest]
  /\ UNCHANGED <<rows, accounts, bucket, worker, janitor, deletions>>

-----------------------------------------------------------------------------
(* S3 and the deletion queue.                                               *)

(* A DeleteObjects call that S3 answers with 200.  S3 lists the keys it     *)
(* could not delete in the body, which Delete does not read.                *)
S3Deletes(keys) ==
  IF SilentErrors
  THEN \E done \in SUBSET keys : objects' = objects \ done
  ELSE objects' = objects \ keys

(* One that ends in an error: the request may have been carried out. *)
S3Fails(keys) == objects' \in {objects, objects \ keys}

DeleteObjects(r) ==
  /\ request[r].pc = "deleteObjects"
  /\ S3Deletes(request[r].keys)
  /\ request' = [request EXCEPT ![r] = IdleRequest]
  /\ UNCHANGED <<rows, accounts, kept, broken, events, worker, janitor,
                 deletions>>

(* Fault: the error is logged and that is all. *)
LogOnly(r) == IdleRequest

OnS3Error(r) == [request[r] EXCEPT !.pc = "enqueue"]

DeleteObjectsFails(r) ==
  /\ request[r].pc = "deleteObjects"
  /\ S3Fails(request[r].keys)
  /\ request' = [request EXCEPT ![r] = OnS3Error(r)]
  /\ UNCHANGED <<rows, accounts, kept, broken, events, worker, janitor,
                 deletions>>

Enqueue(r) ==
  /\ request[r].pc = "enqueue"
  /\ pending' = pending \union request[r].keys
  /\ request' = [request EXCEPT ![r] = IdleRequest]
  /\ UNCHANGED <<rows, accounts, bucket, worker, janitor, logged>>

(* Some INSERTs fail (the client hung up, the database is away): all keys of *)
(* the request are logged.                                                  *)
EnqueueFails(r) ==
  /\ request[r].pc = "enqueue"
  /\ \E done \in SUBSET request[r].keys : pending' = pending \union done
  /\ logged' = logged \union request[r].keys
  /\ request' = [request EXCEPT ![r] = IdleRequest]
  /\ UNCHANGED <<rows, accounts, bucket, worker, janitor>>

-----------------------------------------------------------------------------
(* The image worker.                                                        *)

(* FindMediaByS3Key finds a row that is not processed yet.  Otherwise the    *)
(* worker returns at once, and the delivery has no effect.                   *)
Deliver(w, m) ==
  /\ worker[w].pc = "idle"
  /\ events[m] > 0
  /\ Live(m) /\ status[m] # "processed"
  /\ events' = [events EXCEPT ![m] = @ - 1]
  /\ worker' = [worker EXCEPT ![w] =
                  [pc |-> "download", media |-> m, done |-> {}]]
  /\ UNCHANGED <<rows, accounts, objects, kept, broken, request, janitor,
                 deletions>>

(* Lambda is done with the event: a run returned nil, or the retries are     *)
(* used up and the event goes to the dead-letter queue.                      *)
EventOver(m) ==
  /\ events[m] > 0
  /\ events' = [events EXCEPT ![m] = 0]
  /\ UNCHANGED <<rows, accounts, objects, kept, broken, worker, request,
                 janitor, deletions>>

(* media.Process decides on the content downloaded here. *)
Download(w) ==
  LET m == worker[w].media
  IN /\ worker[w].pc = "download"
     /\ Original(m) \in objects
     /\ worker' = [worker EXCEPT ![w].pc =
                     IF m \in broken THEN "reject" ELSE "upload"]
     /\ UNCHANGED <<rows, accounts, bucket, request, janitor, deletions>>

(* FailMediaProcessing: UPDATE ... WHERE id, whatever the status is now. *)
RecordFailed(w) ==
  LET m == worker[w].media
  IN /\ worker[w].pc = "reject"
     /\ status' = [status EXCEPT ![m] = IF Live(m) THEN "failed" ELSE @]
     /\ worker' = [worker EXCEPT ![w] = IdleWorker]
     /\ UNCHANGED <<owner, post, variants, age, accounts, bucket, request,
                    janitor, deletions>>

UploadVariant(w, k) ==
  /\ worker[w].pc = "upload"
  /\ k \notin worker[w].done
  /\ objects' = objects \union {<<worker[w].media, k>>}
  /\ worker' = [worker EXCEPT ![w].done = @ \union {k}]
  /\ UNCHANGED <<rows, accounts, kept, broken, events, request, janitor,
                 deletions>>

(* CompleteMediaProcessing: variants and status in one transaction.  With   *)
(* the row gone the foreign key refuses the INSERT (see WorkerError).       *)
Complete(w) ==
  LET m == worker[w].media
  IN /\ worker[w].pc = "upload"
     /\ worker[w].done = Kinds
     /\ Live(m)
     /\ variants' = [variants EXCEPT ![m] = @ \union worker[w].done]
     /\ status' = [status EXCEPT ![m] = "processed"]
     /\ worker' = [worker EXCEPT ![w] = IdleWorker]
     /\ UNCHANGED <<owner, post, age, accounts, bucket, request, janitor,
                    deletions>>

(* Any error or timeout.  Lambda runs again while deliveries are left. *)
WorkerError(w) ==
  /\ worker[w].pc # "idle"
  /\ worker' = [worker EXCEPT ![w] = IdleWorker]
  /\ UNCHANGED <<rows, accounts, bucket, request, janitor, deletions>>

-----------------------------------------------------------------------------
(* The janitor.                                                             *)

(* Faults: no retention; only uploads that were never processed. *)
OrphanOfAnyAge(m) ==
  Live(m) /\ post[m] = None /\ \A u \in Users : avatar[u] # m
OrphanPending(m) ==
  OrphanOfAnyAge(m) /\ age[m] = Retired /\ status[m] = "pending"

(* The rows ListOrphanMedia selects. *)
Orphan(m) ==
  /\ Live(m)
  /\ post[m] = None
  /\ \A u \in Users : avatar[u] # m
  /\ age[m] = Retired

(* ORDER BY id LIMIT n *)
FirstIds(S, n) == {m \in S : Cardinality({k \in S : k < m}) < n}

(* RunOnce is cleanOrphanMedia and then drainPendingDeletions.  Either       *)
(* passes over when its SELECT fails or finds nothing, so an idle janitor    *)
(* may begin with the one or the other.                                      *)

(* cleanOrphanMedia collects rows and keys... *)
ListOrphans(j) ==
  LET batch == FirstIds({m \in Media : Orphan(m)}, BatchLimit)
  IN /\ janitor[j].pc = "idle"
     /\ batch # {}
     /\ janitor' = [janitor EXCEPT ![j] = [IdleJanitor EXCEPT
                      !.pc = "objects", !.batch = batch, !.found = KeysOf(batch)]]
     /\ UNCHANGED <<rows, accounts, bucket, worker, request, deletions>>

NextInBatch(j, m) == FirstIds(janitor[j].batch, 1) = {m}

KeysFound(j, m) == {o \in janitor[j].found : o[1] = m}

(* The rest of the batch, or the end of it. *)
Skip(j, m) ==
  janitor' = [janitor EXCEPT ![j] =
    IF janitor[j].batch = {m} THEN IdleJanitor
    ELSE [janitor[j] EXCEPT !.pc = "objects", !.batch = @ \ {m}]]

(* ...then for each row deletes the objects... *)
CleanObjects(j, m) ==
  /\ janitor[j].pc = "objects"
  /\ NextInBatch(j, m)
  /\ S3Deletes(KeysFound(j, m))
  /\ janitor' = [janitor EXCEPT ![j].pc = "row"]
  /\ UNCHANGED <<rows, accounts, kept, broken, events, worker, request,
                 deletions>>

CleanObjectsFails(j, m) ==
  /\ janitor[j].pc = "objects"
  /\ NextInBatch(j, m)
  /\ S3Fails(KeysFound(j, m))
  /\ Skip(j, m)
  /\ UNCHANGED <<rows, accounts, kept, broken, events, worker, request,
                 deletions>>

(* ...and only then the row: DELETE ... WHERE id. *)
CleanRow(j, m) ==
  /\ janitor[j].pc = "row"
  /\ NextInBatch(j, m)
  /\ DropRows({m} \intersect {n \in Media : Live(n)})
  /\ Skip(j, m)
  /\ UNCHANGED <<author, account, bucket, worker, request, deletions>>

CleanRowFails(j, m) ==
  /\ janitor[j].pc = "row"
  /\ NextInBatch(j, m)
  /\ Skip(j, m)
  /\ UNCHANGED <<rows, accounts, bucket, worker, request, deletions>>

(* Fault: LIMIT off by one. *)
BatchBelowLimit(S, T) ==
  S \subseteq T /\ S # {} /\ Cardinality(S) < BatchLimit

(* The keys of one round.  ORDER BY id is the order of enqueueing, which the *)
(* set does not keep: any LIMIT of them may be the oldest.                   *)
Batch(S, T) ==
  /\ S \subseteq T /\ S # {}
  /\ Cardinality(S) <= BatchLimit
  /\ S = T \/ Cardinality(S) = BatchLimit

(* drainPendingDeletions *)
ListPending(j, S) ==
  /\ janitor[j].pc = "idle"
  /\ Batch(S, pending)
  /\ janitor' = [janitor EXCEPT ![j] = [IdleJanitor EXCEPT
                   !.pc = "drain", !.drain = S]]
  /\ UNCHANGED <<rows, accounts, bucket, worker, request, deletions>>

NextPending(j, o) ==
  janitor' = [janitor EXCEPT ![j] =
    IF janitor[j].drain = {o} THEN IdleJanitor
    ELSE [janitor[j] EXCEPT !.pc = "drain", !.drain = @ \ {o}]]

DrainObject(j, o) ==
  /\ janitor[j].pc = "drain"
  /\ o \in janitor[j].drain
  /\ S3Deletes({o})
  /\ janitor' = [janitor EXCEPT ![j].pc = "forget", ![j].found = {o}]
  /\ UNCHANGED <<rows, accounts, kept, broken, events, worker, request,
                 deletions>>

(* The attempt is counted and the key stays for the next round. *)
DrainObjectFails(j, o) ==
  /\ janitor[j].pc = "drain"
  /\ o \in janitor[j].drain
  /\ S3Fails({o})
  /\ NextPending(j, o)
  /\ UNCHANGED <<rows, accounts, kept, broken, events, worker, request,
                 deletions>>

Forget(j, o) ==
  /\ janitor[j].pc = "forget"
  /\ janitor[j].found = {o}
  /\ pending' = pending \ {o}
  /\ NextPending(j, o)
  /\ UNCHANGED <<rows, accounts, bucket, worker, request, logged>>

ForgetFails(j, o) ==
  /\ janitor[j].pc = "forget"
  /\ janitor[j].found = {o}
  /\ NextPending(j, o)
  /\ UNCHANGED <<rows, accounts, bucket, worker, request, deletions>>

-----------------------------------------------------------------------------
(* Time, S3's own lifecycle rule, and crashes.                              *)

(* Lambda is done with an upload (its events live for hours, its runs for a *)
(* minute) long before the day-scale thresholds.                            *)
Age(m) ==
  /\ status[m] # "unused"
  /\ age[m] < Retired
  /\ age[m] >= Settled => /\ events[m] = 0
                          /\ \A w \in Workers : worker[w].media # m
  /\ age' = [age EXCEPT ![m] = @ + 1]
  /\ UNCHANGED <<status, owner, post, variants, accounts, bucket, worker,
                 request, janitor, deletions>>

(* expire-unconfirmed-originals: prefix originals/ and tag state=pending. *)
Expires(m) == age[m] >= Expirable /\ m \notin kept

Expire(m) ==
  /\ Original(m) \in objects
  /\ Expires(m)
  /\ objects' = objects \ {Original(m)}
  /\ UNCHANGED <<rows, accounts, kept, broken, events, worker, request,
                 janitor, deletions>>

CrashRequest(r) ==
  /\ MayCrash
  /\ request[r].pc # "idle"
  /\ request' = [request EXCEPT ![r] = IdleRequest]
  /\ UNCHANGED <<rows, accounts, bucket, worker, janitor, deletions>>

CrashJanitor(j) ==
  /\ MayCrash
  /\ janitor[j].pc # "idle"
  /\ janitor' = [janitor EXCEPT ![j] = IdleJanitor]
  /\ UNCHANGED <<rows, accounts, bucket, worker, request, deletions>>

-----------------------------------------------------------------------------
ClientStep ==
  \/ \E u \in Users, m \in Media :
       Presign(u, m) \/ SetAvatar(u, m)
  \/ \E u \in Users : ClearAvatar(u) \/ TokenExpires(u)
  \/ \E m \in Media : Upload(m)

RequestStep(r) ==
  \/ \E u \in Users, p \in Posts :
       \/ \E S \in SUBSET Media : CreatePost(r, u, p, S)
       \/ DeletePostList(r, u, p)
  \/ \E u \in Users : DeleteAccountList(r, u)
  \/ \E m \in Media : MarkKept(r, m)
  \/ ListOriginals(r) \/ MarkKeptFails(r)
  \/ DeletePostCommit(r) \/ DeleteAccountCommit(r) \/ TransactionFails(r)
  \/ DeleteObjects(r) \/ DeleteObjectsFails(r)
  \/ Enqueue(r) \/ EnqueueFails(r)
  \/ CrashRequest(r)

WorkerStep(w) ==
  \/ \E m \in Media : Deliver(w, m)
  \/ \E k \in Kinds : UploadVariant(w, k)
  \/ Download(w) \/ RecordFailed(w) \/ Complete(w) \/ WorkerError(w)

JanitorStep(j) ==
  \/ ListOrphans(j)
  \/ \E m \in Media : \/ CleanObjects(j, m) \/ CleanObjectsFails(j, m)
                      \/ CleanRow(j, m) \/ CleanRowFails(j, m)
  \/ \E S \in SUBSET pending : ListPending(j, S)
  \/ \E o \in Objects : \/ DrainObject(j, o) \/ DrainObjectFails(j, o)
                        \/ Forget(j, o) \/ ForgetFails(j, o)
  \/ CrashJanitor(j)

ServiceStep == \E m \in Media : EventOver(m) \/ Age(m) \/ Expire(m)

Next ==
  \/ ClientStep
  \/ \E r \in Requests : RequestStep(r)
  \/ \E w \in Workers : WorkerStep(w)
  \/ \E j \in Janitors : JanitorStep(j)
  \/ ServiceStep

Spec == Init /\ [][Next]_vars

(***************************************************************************)
(* The ticker restarts the janitor every hour for as long as the process   *)
(* lives; a statement or an S3 call that is repeated for ever succeeds in  *)
(* the end; days pass; Lambda runs or gives up.                            *)
(***************************************************************************)
FairSpec ==
  /\ Spec
  /\ \A m \in Media : WF_vars(Age(m)) /\ WF_vars(EventOver(m))
  /\ \A w \in Workers : WF_vars(WorkerStep(w))
  /\ \A j \in Janitors :
       /\ WF_vars(JanitorStep(j)) /\ SF_vars(ListOrphans(j))
       /\ \A m \in Media : SF_vars(CleanObjects(j, m)) /\ SF_vars(CleanRow(j, m))
       /\ SF_vars(\E S \in SUBSET pending : ListPending(j, S))
       /\ \A o \in Objects : SF_vars(DrainObject(j, o)) /\ SF_vars(Forget(j, o))

-----------------------------------------------------------------------------
(* Properties.                                                              *)

(* A post never shows an image that was not completely processed, belongs   *)
(* to somebody else, or is shared with another post: whatever retries and   *)
(* duplicates the worker goes through, the rows a post displays have every  *)
(* variant registered (CompleteMediaProcessing, AttachMediaToPost).         *)
AttachedShowable ==
  \A m \in Media : post[m] # None =>
    /\ Live(m)
    /\ variants[m] = Kinds
    /\ author[post[m]] = owner[m]

(* Once a request or the queue is out to delete an object, no row names the *)
(* object any more: what is being deleted can not come back on a page       *)
(* (DeletePost and DeleteAccount commit before they touch S3).              *)
Doomed(r) == IF request[r].pc \in {"deleteObjects", "enqueue"}
             THEN request[r].keys ELSE {}

DoomedKeysHaveNoRow ==
  \A o \in pending \union UNION {Doomed(r) : r \in Requests} : ~Live(o[1])

(* Up to the age at which the janitor may take a row, its registered        *)
(* variants are in S3: neither the lifecycle rule nor any deletion, retry   *)
(* or drain of the queue removes an object that a page can show.            *)
YoungVariantsExist ==
  \A m \in Media : Live(m) /\ age[m] < Retired =>
    \A k \in variants[m] : <<m, k>> \in objects

(* Only originals of posts are kept: an upload nobody used stays under the  *)
(* lifecycle rule (MarkKept is applied to what the database attached).      *)
KeptOnlyIfPosted ==
  \A m \in kept : Live(m) => post[m] # None

(* The janitor takes a row only after the worker can no longer be working   *)
(* on it (why MediaRetention must exceed the upload's lifetime).            *)
JanitorSparesUploads ==
  \A j \in Janitors : \A m \in janitor[j].batch :
    /\ events[m] = 0
    /\ \A w \in Workers : worker[w].media # m

(* A key whose deletion a request has taken on leaves its hands only when   *)
(* the object is gone, when the queue has it, when the log has it, or with  *)
(* the process itself (deleteObjects).                                      *)
HandedOn(r) ==
  \A o \in Doomed(r) :
    \/ o \in Doomed(r)' \union pending' \union logged'
    \/ o \notin objects'
    \/ CrashRequest(r)

KeysStayInSight == [][\A r \in Requests : HandedOn(r)]_vars

(* An unused upload does not stay for ever: every row that nothing refers   *)
(* to is taken up by a post or an avatar or is removed (cleanOrphanMedia).  *)
Referenced(m) == post[m] # None \/ \E u \in Users : avatar[u] = m

OrphansGoAway == \A m \in Media : Live(m) ~> (Referenced(m) \/ ~Live(m))

(* What could not be deleted at first does not stay in the queue for ever,  *)
(* behind other keys or across restarts (drainPendingDeletions).            *)
QueueDrains == \A o \in Objects : o \in pending ~> o \notin pending

-----------------------------------------------------------------------------
(* The inductive invariant behind them.                                     *)

(* What a row is by its status. *)
RowsSound ==
  \A m \in Media :
    /\ status[m] = "unused" => variants[m] = {}
    /\ status[m] # "unused" => owner[m] \in Users
    /\ status[m] = "processed" => variants[m] = Kinds

(* What the keys in the hands of a request stand for.  The rows of a        *)
(* deletion that has not committed are either gone already, or still those  *)
(* that the transaction is going to delete.                                 *)
HeldKey(r, o) ==
  LET m == o[1]
  IN \/ status[m] = "gone"
     \/ request[r].pc = "mark" /\ post[m] # None
     \/ request[r].pc = "deletePost" /\ post[m] = request[r].post
     \/ request[r].pc = "deleteAccount" /\ Live(m) /\ owner[m] = request[r].user

RequestsSound ==
  \A r \in Requests :
    /\ request[r].pc # "idle" => request[r].user \in Users
    /\ request[r].pc \in {"listOriginals", "deletePost"} => request[r].post \in Posts
    /\ \A o \in request[r].keys : HeldKey(r, o)

(* A row whose object is queued for deletion is gone for good. *)
QueueSound ==
  \A o \in pending \union UNION {janitor[j].drain : j \in Janitors} :
    status[o[1]] = "gone"

KeptSound == \A m \in kept : status[m] = "gone" \/ post[m] # None

(* A worker has put up what it says it has, and works on young rows only. *)
WorkersSound ==
  /\ \A m \in Media : events[m] > 0 => age[m] <= Settled
  /\ \A w \in Workers :
       LET m == worker[w].media
       IN m # None => /\ status[m] # "unused"
                      /\ age[m] <= Settled
                      /\ Live(m) => \A k \in worker[w].done : <<m, k>> \in objects

BatchSound == \A j \in Janitors : \A m \in janitor[j].batch : age[m] = Retired

IInv ==
  /\ TypeOK
  /\ RowsSound
  /\ AttachedShowable
  /\ RequestsSound
  /\ QueueSound
  /\ KeptSound
  /\ WorkersSound
  /\ BatchSound
  /\ YoungVariantsExist

-----------------------------------------------------------------------------
(* What a comment says and the code does not keep.                          *)

(* "Images nothing refers to" (media.sql, ListOrphanMedia): the janitor      *)
(* would leave alone what a post or an avatar shows, so that its variants   *)
(* are in S3, however old it is.  But it decides when it lists, and deletes *)
(* objects and then the row by id; and nothing tells a row whose objects    *)
(* are gone from one that can be put in a post.                             *)
ReferencedImagesExist ==
  \A m \in Media : Live(m) /\ Referenced(m) =>
    \A k \in variants[m] : <<m, k>> \in objects

=============================================================================
