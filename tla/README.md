# Verification of tabi-log

tabi-log is a travel-photo service: a Go API server (`src/backend`, net/http on MySQL and S3), a Go
Lambda that processes uploaded images (`src/backend/cmd/imageworker`), a SvelteKit client
(`src/frontend`) and Terraform (`src/infra`). This directory holds TLA+ models of its stateful parts,
the TLC runs that check them and the TLAPS proofs about them. Paths below are relative to `src/`.

To run: `tlc -config MediaImages.cfg MCMediaLifecycle` and likewise for the other configurations (`Media*`:
`MCMediaLifecycle`, `Session*`: `MCSessions`, `Reactions` and `Edits`: `MCTransactions`, `Paging`:
`MCPaging`, `Limits*`: `MCLimits`, `Client`: `MCClientSession`); `tlapm MediaLifecycle_proofs.tla`
and likewise `Sessions_proofs`, `Reactions_proofs`, `Statements_proofs`, `Transactions_proofs`, `Paging_proofs`,
`Limits_proofs` and `ClientSession_proofs` for the proofs. `PROJECT.json` lists runs, properties, the source lines every definition stands for, the hazards and the disagreements found.

## 1. The system: components, state, operations

| Component | State | Operations | What is hard | Correct means |
|---|---|---|---|---|
| Uploads and posts (`httpapi/posts.go`, `store/posts.go`, `store/media.go`) | `media`, `media_variants`, `posts`; S3 objects and their tag | presign, PUT, create, edit and delete posts, mark originals as kept | the row exists before the object, S3 calls lie outside of transactions | a post shows only whole images of its author |
| Image worker (`cmd/imageworker`) | none of its own | run per S3 event: download, decode, upload variants, register | events come twice, late or never; runs overlap | `processed` rows have all variants |
| Janitor (`internal/janitor`) | none; a ticker in every API process | expired tokens, orphan rows, deletion queue | lists first and acts later; several processes; calls fail one by one | takes only what nobody needs; leaves nothing for ever |
| Deletion queue (`httpapi/objectdeletion.go`, `store/objectdeletion.go`) | `pending_object_deletions` | enqueue after a failed deletion, drain | crash between commit and queue, partial failure | no key is forgotten before its object is gone |
| Accounts and avatars (`httpapi/account.go`, `avatar.go`, `store/account.go`) | `users` | avatar, profile, password, leaving | one transaction over ten tables, then S3 | nothing of a user who has left comes back |
| Sessions (`httpapi/auth.go`, `store/auth.go`) | `refresh_tokens`, `users.password_hash`; cookies | signup, login, rehash, refresh, logout | concurrent tabs, lost answers, statements outside of a transaction | ended sessions stay ended, concurrent tabs are not punished |
| Reactions, follows, notifications (`store/reactions.go`, `follows.go`, `notifications.go`) | `likes`, `comments`, `follows`, `notifications`, two counters in `posts` | idempotent pairs, comments, read marks | counters and rows change in several statements | counters agree with rows |
| Transactions (`store/db.go`) | none | run, retry three times | deadlocks, retries of whole bodies | retried bodies have no effect twice |
| Rate limits (`httpapi/ratelimit.go`, `writelimit.go`, `clientIP` in `auth.go`) | windows in memory | allow, reset, sweep | window ends; headers and spellings; one map per process | bounded attempts; a refusal is answered for by recent attempts on the same count |
| Feeds and search (`store/feed.go`, `internal/search`) | cursors held by the client | pages | lists change between pages | no post twice, none skipped that stayed |
| Browser client (`frontend/src/lib/api/client.ts`, `auth/session.svelte.ts`) | access token, user, one refresh in flight; cookies shared by the tabs | calls, retry after 401, login, logout, restore | several calls share a refresh; logout during a refresh; a new signing key | no call is sent in vain, twice or never |

Interactions: the browser calls the API and PUTs to S3 with a signed URL; S3 starts the worker
through an event; worker, API and janitor meet only in MySQL and S3, with no lock between them; the
S3 lifecycle rule (`infra/s3.tf`) deletes originals on its own. Every API process runs a janitor.

MySQL runs at REPEATABLE READ: plain SELECTs of a transaction read its snapshot, UPDATE, DELETE and
SELECT ... FOR UPDATE read the current rows.

## 2. Modules

- `MediaLifecycle`: uploads, worker, posts, avatars, leaving, janitor, deletion queue, lifecycle rule.
- `MCMediaLifecycle`: instances for TLC. `ReadyInit` starts where all images are uploaded, processed
  and too old to be uploaded again, a state the steps Presign to Age lead to; `UploadInit` where one
  image is to be uploaded and the first id belonged to an upload that was given up and cleaned away.
  `ImagesSpec` starts in either.
- `MediaLifecycle_proofs`: theorems about `MediaLifecycle`.
- `Sessions`: refresh tokens, passwords, login, logout, leaving, janitor of tokens, cookie jars.
- `MCSessions`: instances for TLC. `CurrentInit` leaves out users who have not signed up or whose
  hash has an old cost.
- `Sessions_proofs`: theorems about `Sessions`.
- `ReactionData`: the constants `Reactions` and `Transactions` share.
- `Reactions`: posts, tags, likes, comments, follows, counters, notifications and leaving as operations
  that take effect at one instant: the abstract specification.
- `Transactions`: the same operations statement by statement, with locks, victims and retries. It
  implements `Reactions` under the mapping `R`.
- `MCTransactions`: instances for TLC.
- `Reactions_proofs`: theorems about `Reactions`.
- `Statements_proofs`: the inductive invariant of `Transactions`, and that every statement keeps it.
- `Transactions_proofs`: that every commit keeps it and is one step of `Reactions`; the theorems.
- `Paging`, `MCPaging`: lists read with cursors while they change.
- `Paging_proofs`: theorems about `Paging`.
- `Limits`, `MCLimits`: the limits on attempts.
- `Limits_proofs`: theorems about `Limits`.
- `ClientSession`, `MCClientSession`: one tab of the browser, its calls and its session.
- `ClientSession_proofs`: theorems about `ClientSession`.

The modules meet where the code meets. `Transactions` and `Reactions` compose through the refinement.
`ClientSession` takes from `Sessions` only that a refresh token is accepted for a while (`accepted`,
`TokenEnds`), and `MediaLifecycle` and `Transactions` each have the half of `DeleteAccount` that touches
their tables.

Definitions whose comment begins with "Fault" are not used by the specifications. Each is a wrong
variant of the definition that follows it; with it in place the run of the property it is meant for
fails (PROJECT.json, `mutants`).

### MediaLifecycle

A media row, its S3 key and its variants share one identifier, since keys are random and never used
twice. Row: `status`, `owner`, `post`, `variants`, `age`. Bucket: `objects`, `kept` (the tag), `broken`
(content the worker can not decode), `events` (deliveries to come). Processes: `request`, `worker`,
`janitor`, each with a program counter and the values it has read so far. Queue: `pending`; `logged`
holds keys that only the error log names.

| Code | Actions |
|---|---|
| `PresignMediaUpload`, PUT to S3 | `Presign`, `Upload` |
| `CreatePost`, `markOriginalsKept` | `CreatePost`, `ListOriginals`, `MarkKept`, `MarkKeptFails` |
| `SetAvatar`, `ClearAvatar` | the same |
| `DeletePost` | `DeletePostList` (owner and keys), `DeletePostCommit` |
| `DeleteAccount` | `DeleteAccountList` (password check and the snapshot), `DeleteAccountCommit`, `TokenExpires` |
| `deleteObjects`, `Enqueue` | `DeleteObjects`, `DeleteObjectsFails`, `Enqueue`, `EnqueueFails` |
| `processOne` | `Deliver`, `Download`, `RecordFailed`, `UploadVariant`, `Complete`, `WorkerError`, `EventOver` |
| `cleanOrphanMedia` | `ListOrphans`, `CleanObjects`, `CleanRow` and their failures |
| `drainPendingDeletions` | `ListPending`, `DrainObject`, `Forget` and their failures |
| lifecycle rule, days, kills | `Expire`, `Age`, `CrashRequest`, `CrashJanitor` |

Abstractions. Time is the order of three thresholds: 15 minutes (upload URL), 7 days (lifecycle
rule), 8 days (janitor). `Age` lets a row pass the first only when Lambda is done with it: its events
live at most six hours and its runs one minute. `Upload` resets the tag because the signed URL
dictates it. S3 calls that return an error may or may not have been carried out.
`SilentErrors` lets S3 report errors per key inside a 200 answer. A request that outlives its
transaction is one of `Requests`; the others are single steps. The timestamps, sizes, formats and
positions of images within a post are left out.

### Sessions

A token and its row share one identifier. `token` is the table, with rows that the janitor may
remove; `cookie` the jars, `access` the users for whom some tab still has an access token; `account`,
`password` and `stale` the columns of `users`; `request` the handlers. `born` and `chosen` are
history variables: no action's guard reads them, except that a token is fresh when it was never born
(256 random bits).

| Code | Actions |
|---|---|
| `Signup`, `Login` | `Signup`, `Login` (read and compare), `Rehash`, `RehashFails`, `Issue` |
| `Refresh`, `RotateRefreshToken` | `Refresh` (the browser sends), `RotateUnknown`, `RotateExpired`, `RotateReused`, `RotateReplace`, `RotateSibling`, `FindUser`, `FindUserFails` |
| `Logout` | `Logout`, `EndSession` |
| `ChangePassword`, `DeleteAccount` | `ChangePassword`, `ChangeCommit`, `DeleteAccount`, `LeaveCommit` |
| answers | `Answer` (sets the cookie), `Refuse` (clears it), `Abandon` (500, kill or lost answer) |
| `DeleteExpiredRefreshTokens` | `Clean`, with ON DELETE SET NULL of `replaced_by` |

Handlers read the clock once, somewhere between their start and their transaction; that reading is a
choice (`Readings`), so two requests may commit in the other order than they read. `MaxDelay` bounds
the time from the browser's sending to the answer. Steps that change nothing (a wrong password, a
taken address, a logout without a cookie) are left out. The 15 minutes of an access token are not
modelled: a tab that has had one may use it, which only adds behaviours. `CopyCookie` puts a token in
a second jar, the situation the reuse check is written for.

### Reactions and Transactions

`db` holds the committed rows, and what stands in the place of a row that is absent. `tx` holds for each
request the statement it is at, the items it has locked to read, and its writes, which are also
its exclusive locks. A statement reads the transaction's own writes and then `db` (`Over`); a write of one
row is `Put`. The mapping `R` gives `Reactions` a view of the committed rows for each of its variables
(`PostView` ... `LeftView`).

| Code | Actions and statements |
|---|---|
| requests, and what their handlers read first | `AskLike` ... `AskLeave`, `Lookup` |
| `Like`, `Unlike` | `ReadOwner`, `InsertLike`, `CountLike`, `NoteLike`; `DeleteLike`, `UncountLike`, `UnnoteLike` |
| `CreateComment`, `DeleteComment` | `ReadOwner`, `InsertComment`, `CountComment`, `NoteComment`; `DeleteComment`, `UncountComment` |
| `Follow`, `Unfollow` | `InsertFollow`, `NoteFollow`; `DeleteFollow`, `UnnoteFollow` |
| `CreatePost`, `UpdatePost`, `replaceTags` | `InsertPost`, `UpdatePost`, `DetachTags`, `AttachTag` |
| `DeletePost` and ON DELETE CASCADE | `DeletePost`, `Deletion` |
| `DeleteAccount` | `DeletePosts`, `UncountComments`, `DeleteComments`, `UncountLikes`, `DeleteLikes`, `DeleteFollows`, `DeleteNotes`, `SoftDelete` |
| `inTx`, `runTx` | `Execute`, `Commit`, `Rollback`, `Victim`, `Again`, `Abandon` |

Abstractions. A lock is on an item: a row, or the place where a row would be, so the gap locks of
InnoDB are locks on absent rows. A waiting transaction may become the victim at any time, which covers
InnoDB's choice of a victim and the lock timeout. Which row of `tags` a name has is left out except for its
lock. Notifications are counted per like, comment and follow. Read marks, images and the text of
comments are left out. `attempt` is at most `MaxAttempts`, two in the runs and three in the code.

### Paging

`row` is the state of each id, `rank` its like count or its day of visit; `shown`, `cursor`, `load` and
`sent` are the screen: what is listed, `nextCursor`, the page under way and the comment under way.

| Code | Actions |
|---|---|
| queries `ListPostsBefore` ... `ListFollowingAfter`, `SearchPosts`, `SearchUsers` | operators of these names, `PostHits`, `UserHits` |
| `LIMIT limit + 1`, `buildPage`, `paginateUsers` | `Page`, `IsPage`, `NextCursor` |
| handlers | `ListPosts`, `ListUserPosts`, `ListFollowingFeed`, `ListUserTravels`, `ListComments`, `ListNotifications`, `ListFollowers`, `ListFollowing`, `SearchUsers`, `SearchPosts`, `ReadFound` |
| `load`, `loadMore`, `submit`, `remove` | `Reload`, `Receive`, `LoadFails`, `Submit`, `Submitted`, `SubmitFails`, `Removed` |
| other users | `Insert`, `CommitInsert`, `Show`, `Hide`, `Delete`, `Move` |

`Changing` names the lists whose rows begin and cease to match (`Show`, `Hide`): follows, users who leave,
and edits, which can change what a search looks for and can add or take away the day of visit that makes a post a
journey. A journey begins with any day (`Days`), when it is made and when it is shown again; a row of the
other lists begins with the rank it has, as likes start at none and no edit touches them. Ids are given in order and committed in any. `Only` is what the loop of `ListPostsByIDs` and the filter of
`remove` leave of a list. `stayed`, `moved` and `added` are history variables. `moved` holds the rows whose rank has
changed after they came to the screen or into the page under way; no others are exempt from `InOrder`. A
screen asks for one page at a time, as its `loadingMore` guard has it; `Reload` waits for the page under way (section 3 has
what happens when it does not).

### Limits

`attempts` is the map of each limiter in each process, `lastSweep` its last sweep, `request` the logins
between their two counts, the comparison of the password and the reset. `passed` and `last` (the last
verdict) are history variables. They go by subject, that is by what is meant to be counted whatever key is
computed for it: the attempts of an origin, the attempts on an account, the writes of a user. `passed` is the
set of the attempts of a subject that were let through within the last period, since the process was started and, on an
account, since the last success; each by its time, its number among those of that time and who made it.
On an account this may be anybody: attempts of strangers count against its owner, as they do in the code.

| Code | Actions |
|---|---|
| `Allow`, `sweepLocked`, `Reset` | `Allow`, `Allows`, `Counted`, `Swept`; inside `LoginSucceeds` |
| `clientIP`, `forwardedHop`, lower case | `ClientIP`, `ForwardedHop`, `EmailKey`, `ResetKey` |
| `Login` | `LoginByIP`, `LoginByEmail`, `LoginFails`, `LoginSucceeds` |
| `Signup`, `writeLimiter.allow` | `Signup`, `Write` |
| start of a process, `checkProduction` | `Start`, `Accepts` |

Requests come through CloudFront and the load balancer, each of which appends to the header
(`Header`); what the client has written before them is in `Claims`. That the configured number of hops
fits them is an assumption (`ServedAssumption`).

### ClientSession

`access`, `shown` and `restored` are the variables of `client.ts` and `session.svelte.ts`, `refresh` is
`refreshInFlight`, `call` the requests of the tab. The tabs share `cookies`. `owner`, `accepted` and `key` are the
server. `served`, `troubled` and `out` are history variables.

| Code | Actions |
|---|---|
| `request`, `rawRequest` | `Call`, `UpdateProfile`, `Answered`, `Failed`, `Denied`, `DeniedAgain`, `CallFails` |
| `refreshAccessToken`, `performRefresh` | `Shared`, `Refreshed`, `NotRefreshed`, `RefreshFails` |
| `login`, `logout`, `restoreSession`, a reload of the page | `Login`, `Logout`, `Restore`, `Reload` |
| `WithAuthentication`, `Verify`, `Login`, `Logout`, `Refresh` on the server | `Serve`, `Verify`, `ServeLogin`, `ServeLogout`, `ServeRefresh` |
| other tabs | `LoginElsewhere`, `RefreshElsewhere`, `LogoutElsewhere`, `SessionsEnd` |
| time, deployments | `Expire`, `TokenEnds`, `Deploy` |

A refresh on the server is one step, since its races with other refreshes are those of `Sessions`. A
replaced token stays in `accepted` until `TokenEnds`, so it may be accepted for longer than the grace
period, which only adds behaviours. The refresh of another tab is a single step; one that straddles a
logout of this tab is not in the model. A logout is never answered 401, as its path is public, so
`retryOnUnauthorized: false` makes no difference and is left out.

## 3. Runs

Deadlock is not checked in any run: identifiers are finite, and when all are used and every process
is idle the modelled system has nothing left to do. That requests do not wait for each other for ever
is `Answered`.

| Run | Instance | Shows |
|---|---|---|
| `media_images` | 1 image to be uploaded by 2 workers with 2 deliveries, or 2 processed images; 1 kind of variant, 2 posts, avatar, 1 request, 1 janitor, every call may fail; 1.2M states | types; what a post shows is whole; variants exist while the row is young; worker and janitor never share a row; deleting one post dooms no object of another; only posted originals are kept; a request lets go of a key only when it is deleted, queued or logged |
| `media_live` | 1 image, 1 request, 1 worker, 1 janitor, crashes, fairness | orphans go away, the queue drains |
| `session_tabs` | 1 browser, 2 requests, 3 tokens, grace 2, delay 1; 2.5M states | grace spares concurrent tabs; tokens revoked otherwise are never exchanged; no session for a user who has left; recorded rotations are not rewritten |
| `reactions` | 2 users, 1 post, 2 comments, 2 requests, 2 attempts; likes, comments, publishing, deletion, leaving | counters and notifications agree with the rows; every transaction is one step of `Reactions` or none |
| `edits` | 2 users, 1 post, two lists of tags, 2 requests, 2 attempts, fairness; publishing, editing, follows, leaving | tags belong to the text; the same refinement; every request is answered |
| `paging` | 11 lists of 3 ids, 2 ranks, pages of 1, 4 rows on the screen; 0.5M states | pages stay in order; what was there throughout is shown; the cursor goes on |
| `limits` | 1 process, 2 logins at a time, 1 account in 2 spellings, 2 origins with and without a forged header, 1 limiter of writes, limit 2, period 2, time 4, 2 keys at a time; 0.6M states | at most twice the limit; refusals are answered for by passes on the same count; old windows are not kept |
| `client` | 1 user, 2 calls, 2 refresh tokens, 2 signing keys; 1.4M states | no call is carried out twice or left waiting; a 401 reaches a screen for cause only; a quiet logout lasts |
| `session_clean` | 2 browsers, 2 requests, 2 tokens, signup and rehash; tokens live for one tick and are deleted one tick later; 2.1M states | a reuse is never mistaken for an unknown token; successors outlive |

Why these bounds are enough for the question. The two starts of `media_images` stand for the two halves of an image's life, as
long as it can be uploaded and after. One kind of variant is enough for one that is missing. They are
without crashes of the API: a crash is a step like the failure of a call and would hide one that drops a key. `media_live` has
them, and the theorems hold with and without. Two workers suffice for a race of two deliveries, and
more deliveries only repeat the same pair. Rows interact only through a common post or owner and
through the janitor's batch; two images cover both, and `BatchLimit = 1` makes the limit bite. One
request and one janitor are enough for the hand-on of keys, which is a matter of single steps; two
deletions of one row meet in `media_images`, between the request and the janitor. Races of several requests, of
several janitors over one queue and of several users are left to the theorems, which hold for any number of them. A rotation chain with a sibling takes three
tokens. Time in Sessions ends after the grace period, or the retention, has passed.
`session_tabs` needs twice the delay within the grace period (5 of the 10 seconds): with slower requests
the reuse check does hit concurrent tabs, which the comment on `RefreshGracePeriod` accepts for slow
networks (`internal/config/config.go`).

In `Transactions` locks are held between two transactions, so two requests suffice for a race, and one
that starts anew stands for the third. One post is where the rows of likes, comments, tags and
counters meet; its owner and another user make notifications that are sent and not sent. The two runs split the kinds
of operation by what they share: counters in the one, tags and users in the other. Leaving is in both.
In `Paging` three ids and two ranks give ties on both sides of the end of a page. Longer pages and lists are
left to the theorems, which hold for all of them. `MaxShown` only cuts the
list on the screen, which repeats itself when popular rows keep moving. In `Limits` time covers two
periods, `MaxKeys` and the constraint on counts bound what is followed, not what the limiter does. In
`ClientSession` two calls share a refresh or just miss it; one user is enough, as none of its
properties compares users.

### Disagreements between documents and code

Each of these runs has one property, a statement of a document, and TLC shows a behaviour of the code
that breaks it.

| Run | What happens |
|---|---|
| `media_stale_orphan` | an image is made an avatar, or put in a post, after the janitor has listed its row: its objects are deleted and then its row. `db/queries/media.sql:95` and `docs/features.md:293` say that only images nothing refers to are taken |
| `session_password` | a token replaced a moment before a change of password is exchanged after it; `docs/features.md:62` says that all tokens are revoked |
| `limits_lockout` | one origin, within its own limit, uses up the limit of an account, and the owner is refused from another origin. The two limits are one number (`httpapi/server.go:129`); `httpapi/auth.go:244-247` and `ratelimit.go:48-51` say that counting both prevents it |

The violated properties stand at the end of their modules. The models contain more behaviours that a reader of the
code may not expect. No property is stated
about them; where a document says otherwise it is named.

Images and sessions:

- a run of the worker that began before another one finished turns `processed` into `failed`, the row of a
  post included, since `MarkMediaFailed` updates by id whatever the status is (`RecordFailed`;
  `db/queries/media.sql:3` names pending as the only status that is left);
- a cleaning whose last DELETE fails leaves a row without objects, which can still be put in a post and is
  then not listed again (`CleanRowFails`, `CreatePost`; `janitor.go:167` says that the next round takes it up;
  `ReferencedImagesExist` is violated in this way too);
- a process that stops between the commit of a deletion and `Enqueue` loses the keys (`CrashRequest`;
  `db/queries/media.sql:125` says that the keys are noted before anything is deleted);
- `Delete` looks at the error of the DeleteObjects call and not at the errors of single keys in its
  answer, so a key that S3 could not delete leaves the queue (`SilentErrors`; `janitor.go:121`);
- a user who has left uploads and posts with an access token that is still good (`TokenExpires`;
  `docs/features.md:71`);
- a variant that the worker uploads while its owner leaves stays in the bucket, known to no row, queue
  or log (`UploadVariant`, `DeleteAccountCommit`); variants have no lifecycle rule;
- an avatar can be put in a post, since `AttachMediaToPost` does not look at `avatar_media_id`
  (`SetAvatar`, `CreatePost`); deleting the post then takes the avatar with it;
- a token replaced just before the reuse check revokes everything keeps its grace period
  (`RotateReused`, `RotateSibling`), as before a change of password;
- a login that verified the former password writes its hash back after the change of password
  (`Rehash`; `store/auth.go:284` calls it no change of password);
- a login that verified the former password inserts its token after the change has revoked all (`Login`,
  `ChangeCommit`, `Issue`; `docs/features.md:62`). `PasswordEndsSessions` does not speak of it: it goes by the
  password at the moment the token was made;
- a login that began before its user left inserts its token afterwards (`Login`, `LeaveCommit`, `Issue`);
  it can not be refreshed, as `FindUser` does not find the user, but comes with an access token;
- the grace period yields a second token, not the recorded successor (`RotateSibling`); the tech stack
  document (`docs/tech-stack.md`) speaks of returning the successor.

Transactions:

- a user who has left can still like, comment and follow with an access token that is good, so rows
  and notifications of a leaver may come back (`AskLike` does not ask for `active`; the comment at
  `store/account.go:242` says that nothing is left);
- `CreatePost`, `UpdatePost` and `DeletePost` do not go through `inTx`, so the victim of a deadlock is
  answered 500 at once (`Attempts`);
- an update of a post that was deleted meanwhile fails on the foreign key of its first tag, and
  succeeds without effect when there are no tags (`UpdatePost`, `AttachTag`);
- a like of such a post is answered 204 (`InsertLike`), a comment on it 500 (`InsertComment`).

Lists:

- a row whose id is smaller than the cursor of an ascending list when it commits is never shown
  (`CommitInsert`);
- a comment of one's own is put at the end and comes again with the page it belongs to, twice under
  one key of the keyed `each` (`Submitted`, `Receive`; `InOrder` leaves `added` out);
- popular posts and journeys that move between two pages may be shown twice or not at all;
- a page of the search can be shorter than its limit while there is more (`ReadFound`);
- not in the model: the feed may be loaded anew or its tab changed while a page is under way, which then
  goes to the wrong list; a failed mark as read restores the list of before and drops the pages loaded since;
  likes, tags and images of a page are read after it and not from one snapshot.

Limits: every process counts for itself, so the limits add up over tasks and a restart forgets them
(`Start`); the number of hops is not compared with what is in front of the server.

Browser:

- a refresh under way when the user logs out logs the user in again, and a late answer to an update of
  the profile shows the user again (`Refreshed`, `Answered`; `session.svelte.ts:113` says that the
  state of the client is always forgotten). `LogoutSticks` is about logouts that find neither under way;
- a refresh that fails on the network logs the tab out although the session lives (`NotRefreshed`);
- a refresh without a cookie answers 401 and clears the hint that another tab's login has just set, so that
  a reload does not restore that session;
- `ChangePassword` and `DeleteAccount` clear the refresh cookie and leave the hint (`SessionsEnd`);
- a wrong password is a 401 as well: it starts a refresh and a second attempt to log in (`Denied`),
  which counts twice in `Limits`;
- a call that waits while another user logs in is sent again as that user (`SentAgain`);
- `cmd/server/main.go:60` gives the JWT service the active key only, so all access tokens end with
  a change of key; the comment in `internal/auth/token.go` describes three stages with both.

### Fairness

`media_live` and `edits` assume some. `media_live` does so only for what runs without users. The janitor's ticker starts a
round every hour for as long as a process lives, and a process that stops is replaced: weak fairness
of the janitor, strong fairness of its listing and of each S3 call and statement it repeats in every
round, which fail for ever only if S3 or MySQL does. Days pass (`Age`), Lambda runs an event or gives
it up (`EventOver`, worker steps). Nothing is assumed of users, requests or crashes.

`edits` assumes weak fairness of `Proceed`: a statement that is not blocked ends, and one that stays
blocked is refused as a victim or by `innodb_lock_wait_timeout`. Clients and broken connections
(`Abandon`) are free.

### Refinement

`Atomic` is the specification of `Reactions` under the mapping `R`: the abstract variables are columns of the
committed rows. A commit has to be one abstract operation or a stutter; every other step of
`Transactions` leaves `db` alone. What is to be checked is thus that a transaction that commits has
seen and changed what an operation on one instant would have. The variants marked "Fault" show which
locks this rests on: without the locks of DeleteAccount's statements on absent rows, a like, a comment
or a follow of the leaving user slips between the count and the deletion.

## 4. Proofs

### MediaLifecycle

`MediaLifecycle_proofs` proves for any sets of users, images, posts, processes and any batch limit:

- `TypeCorrect`, `PostsShowWholeImages`, `DoomedKeysStayGone`, `VariantsOutliveDeletions`,
  `OnlyPostedIsKept`, `JanitorAndWorkerApart`: the invariants of `media_images`;
- `KeysStay`: the action property `KeysStayInSight` of `media_images`, under the assumption that S3's 200 means every
  key is deleted (`~SilentErrors`). Without it an error S3 reports for a single key would go unread, and the
  object would outlive its row in the queue.

Assumptions on the constants: identifiers of media are natural numbers (AUTO_INCREMENT), `None` is no
identifier, "original" is no kind of variant, the switches are Boolean.

The invariants are not inductive alone. That variants of young rows exist needs to know that whatever
is about to be deleted belongs to no living row (`QueueSound`), which needs what the keys in the hands
of a request stand for before and after its commit (`RequestsSound`, `HeldKey`), that the janitor's
batch is old and stays old (`BatchSound`), and that a worker that registers variants has put them up
for a row that was young (`WorkersSound`). `IInv` is their conjunction. The proof has a lemma on rows
(`RowChanges`, `RowsMoveForward`: a row that is gone stays gone, an age never falls), a lemma on
which objects a step can remove (`ObjectsKept`), one lemma per part of `IInv`, and puts them together in
`IInvStep`. The theorems follow from `Inductive`.

### Sessions

`Sessions_proofs` proves for any sets of users, browsers, requests, tokens and passwords, any
periods and any `MaxClock`:

- `TypeCorrect`, `SuccessorsLast`, `CutStaysCut`, `LeaversStayOut`: invariants of `session_tabs` and
  `session_clean`;
- `RotationsStay`: the action property `HistoryStays`;
- `TabsAreSpared`: `TabsAreNotReuse`, if `Grace >= 2 * MaxDelay`. Twice, because the request that was
  first may have read the clock as early as it was sent, one delay before it committed, and the second
  may read it one delay after it was sent. The configured 10 seconds allow for 5;
- `ReuseIsSeen`: `ReuseStaysVisible`, if `MaxDelay <= Retention + 1`. The configured retention is days.

Assumptions on the constants: the periods are natural numbers, tokens live longer than zero,
`None` (NULL) is no user, browser, token, password or number. `MaxClock` and `MaxDelay` remain
parameters: the first only ends the model's time, the second is what the two conditional theorems
compare the periods with.

The inductive invariant `IInv` stands at the end of `Sessions`; both passing instances satisfy it. Its
parts: a row agrees with the history of its token, and is missing only when it is past its life and the
retention (`RowsSound`); nobody was given more than one life from now (`BirthsSound`); whatever was
exchanged has a successor on record or has expired (`Spent`, `ParentsSpent`), which is why a token that
was cut off has no descendants; cookies hold tokens that were issued (`CookiesSound`); each request
knows what its handler has read so far, and the token it presents had at most one life left when it was
sent (`RequestsSound`: without this bound a replacement could expire before the token it replaces); a
token that was good at the start has not been revoked earlier than one delay before it
(`PresentedSound`); what `late` stands for (`LateSound`). The proof reduces every step to what it
may do to one row (`RowStep` for requests, `CleanStep` for the janitor, `RowsMove` for all), proves the
parts about tokens from that, then the parts about requests by cases on the step that is taken
(`RequestCases`), and puts them together in `IInvStep`. The theorems follow from `Inductive`; the last
three also use the invariant in a step of their own.

### Reactions

`Reactions_proofs` proves for any finite sets of users and comments and any posts, texts and tags:

- `CountersRight` and `NotificationsRight`: `CountsMatch` and `NotesMatch` of `Reactions`;
- `TagsRight`: `TagsFit`; `ForeignKeys`: `NothingDangles`; `TypeCorrect`.

`Transactions_proofs` carries them over to the committed rows. The counters need their type, that likes
and comments are on posts that are there (or a deletion would leave likes of a post that is counted
anew), and facts about the cardinality of finite sets: an added, a removed element, and for leaving a
set without a subset of it. The proof takes the conjuncts of the invariant one by one over the
operations, and `Leave` by whether a post is the leaver's own.

### Transactions

`Statements_proofs` and `Transactions_proofs` prove for any number of requests and attempts, any finite sets
of users and comments, any posts, texts and tags:

- `Refines`: `Spec => Atomic`. Whatever the statements of the others do in between, a transaction takes effect
  as one operation of `Reactions` or not at all;
- `CountersRight`, `NotificationsRight`, `TagsRight`: `CountsMatch`, `NotesMatch` and `TagsFit` of the committed
  rows. They follow from `Refines` and the theorems of `Reactions_proofs`, instantiated by the views;
- `TypeCorrect`: `TypeOK`, which includes that no two transactions write the same row and none writes a
  row that another has locked to read.

Assumptions on the constants: those of `ReactionData`, and that the marks `Absent` and `Used` are no row.

The refinement needs to know at each commit that the transaction saw and wrote what one operation
would. `IInv` (in `Statements_proofs`) says so before each statement. `Doing` has, for each kind of request and
each statement it may have come to, which rows the transaction has written with which values, and
which rows and places of rows it has locked to read. All of it is in terms of committed rows the transaction
itself has locked, so that it outlives the commits of others: this is what `Exclusive` gives, and what fails
in the variants without locks on absent rows. For leaving, one formula numbers the eight statements of
`DeleteAccount` and says what the first n have done (`Leaves`). Beside it stand the foreign keys of the
committed rows (`ForeignKeys`), that nobody is notified of their own doing (`NotesFit`), and that ids
are given out once (`Fresh`).

The proof has three parts. `Statements_proofs`: a statement keeps `Doing` of its own transaction, one
lemma per statement. `Transactions_proofs`, first half: what a commit makes of the rows is one of eleven
effects (`Effect`, one lemma per kind in which the last statement's `Doing` is turned into the effect), an
effect keeps the rows sound and is `Discreet`, and `Doing` of the others is `Steady` under discreet changes. Second
half: seen through the views each effect is the action of `Reactions` of the same name, and
steps other than commits leave the views alone.

### Paging

`Paging_proofs` proves for any of the lists, any finite set of ids, any ranks and any length of a page:

- `PagesInOrder` (`InOrder`), `NoneSkipped` (`NothingSkipped`), `TypeCorrect` (`TypeOK`);
- `Advances`: the action property `CursorAdvances`.

Assumptions on the constants: ids are positive, ranks are not negative, there is a number larger than all of
both (the first cursor of the code is the largest integer), a page has at least one row.

The cursor divides the rows that have kept their place. `IInv` says of each part of the screen on which side
it is: rows on the screen are not beyond the cursor, in order, and contain every row of `stayed`
that is not beyond it (`ShownOK`, `StayedOK`); a page under way lies between the cursor it was asked with and
the one it brings, and has every row of `stayed` in between (`LoadOK`). It has to be said of pages under way since
rows move, go and come between the query, the second query of the search and the answer. `CursorsSound`
keeps the first cursor apart from places of rows. The order is first shown to be a strict order in which
no two rows are level, which is where the ids behind the ranks are needed (`EarlierOrder`,
`OneIsEarlier`). `PageExists` shows that there is a page for every set of rows, by taking the first row that is
left as often as the limit allows; `PageIs` says what it and its cursor are; `QueriesAre` that each WHERE
clause asks for exactly what is beyond the cursor; `OnlyIs` what a filtered list keeps.

`PageExists` and `OnlyIs` go by induction over the numbers up to a bound. It is had from the
well-foundedness of < on Nat (`Smallest`, `Climb`), which needs no theorem with an operator for a parameter.

### Limits

`Limits_proofs` proves for any numbers of processes, logins, accounts, spellings, origins and headers,
any limit and any period:

- `TwiceAtMost` (`AtMostTwice`), `RefusalsDeserved` (`RefusedForCause`), `OldOnesSwept` (`StoredAreRecent`),
  `TypeCorrect` (`TypeOK`).

Assumptions on the constants: limit and period are positive; `ServedAssumption`, that the process runs in production
with the number of hops that fits CloudFront and the load balancer (otherwise the address that is counted
is one the client has chosen, and neither of the first two holds); `None` is no number.

`TwiceAtMost` speaks of the passes in `passed`: those on an account begin anew at each success, as the
code's count does, so it bounds what is tried between two successes. `RefusalsDeserved` says that a refusal has as many
recent passes on the same count behind it as the limit allows. For an origin or a user these are
its own. For an account they are anybody's, and that the owner is not locked out by one other origin is not
true (`limits_lockout`).

The invariant ties what has passed of a subject within the last period to the window that is kept under its key.
With a window, at most the limit passed in it and at most the limit before it, and while it is open its
count is the number of its passes, up to the limit (`Fits`). Without a window, at most the limit passed, all
of it before this instant (`Closed`): the window has ended and was swept. A login that is successful and a
process that starts take windows and passes away together. `SweepsSound` says that every window was open at the last sweep
or came later. The main step is that a pass that opens a window puts the passes of the former one before it, of
which those before that window are a period old (`SubjectsSound`). The subject's key is always the one
`ClientIP` or `EmailKey` finds, whatever the header or the spelling.

### ClientSession

`ClientSession_proofs` proves all five properties of the run `client`, for any sets of users, calls,
tokens and keys: `TypeCorrect`, `NothingTwice` (`PerformedOnce`), `AllAreWoken` (`NobodyLeftWaiting`),
`DeniedForCause` (`OnlyWithoutSession`), `LogoutLasts` (`LogoutSticks`). The only assumption is that
`None` is none of the other constants.

The inductive invariant `IInv` stands at the end of the module, and the run's instance satisfies it. Types need to know
that a refresh that was answered brings both tokens (`RefreshSound`) and that a change of the profile
can only be under way in a restored tab (`CallsSound`). A call that was refused or waits has not been
served (`ServedSound`). One that was sent again carries a token that is good, or its trouble is on
record (`TroubleSound`). After a quiet logout no cookie, no refresh and no call holds anything of the
session (`OutSound`), which is why `LogoutSticks` has to say "nothing else under way". `NobodyLeftWaiting`
is inductive as it stands. `CallMoves` and `RefreshMoves` say what a step makes of a call; the parts
follow from them by cases on the step.

### Model-checked only

Liveness (`OrphansGoAway`, `QueueDrains`, `Answered`), since it rests on fairness, and the disagreements,
which TLC refutes. Every invariant, every action property and the refinement that a passing run checks
is a theorem as well, `KeysStayInSight`, `TabsAreNotReuse` and `ReuseStaysVisible` under the conditions named
above.

## 5. Plan

Done: all modules of section 2, and proofs of what can be proved of them.

To prove next: the steps liveness rests on, as far as they are invariants or action properties (that
the queue hands on a key until it is deleted, that attempts of a transaction run out), with what is left to
fairness named.

To model, where it would pay: an abstract module of login sessions that `Sessions` implements; the
position of images within a post.

## 6. Not modelled

Signing of URLs and JWTs, validation and parsing (functions of one
request), pixel processing and EXIF (data), the HTTP plumbing, configuration, generated code
(`internal/api/gen`, `internal/store/dbgen`, `frontend/src/lib/api/gen.ts`), page layout, Terraform
other than the lifecycle rule and Lambda's retries, load tests and pipelines; read marks of notifications
(one UPDATE each); the order of a shutdown, whose steps are sequential. Each is listed in
`PROJECT.json` with its reason.
