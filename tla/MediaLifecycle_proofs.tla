----------------------- MODULE MediaLifecycle_proofs -----------------------
(***************************************************************************)
(* Proofs about MediaLifecycle, for any number of users, images, posts,    *)
(* requests, workers and janitors.                                         *)
(***************************************************************************)
EXTENDS MediaLifecycle, TLAPS

USE DEF rows, accounts, bucket, deletions

-----------------------------------------------------------------------------
(* Type correctness.                                                        *)

LEMMA TypeInit == Init => TypeOK
<1> USE DEF Init, TypeOK, Ages, Uploading, Retired
<1>1. {} \in SUBSET Kinds /\ {} \in SUBSET Objects /\ {} \in SUBSET Media
  OBVIOUS
<1>2. IdleWorker \in WorkerState
  BY DEF IdleWorker, WorkerState
<1>3. IdleRequest \in RequestState
  BY DEF IdleRequest, RequestState
<1>4. IdleJanitor \in JanitorState
  BY DEF IdleJanitor, JanitorState
<1>. QED
  BY <1>1, <1>2, <1>3, <1>4, BoundAssumption

(* What DELETE leaves of the rows has the right types. *)
LEMMA TypeDropRows ==
  ASSUME TypeOK, NEW S, DropRows(S)
  PROVE  /\ status' \in [Media -> {"unused", "pending", "processed", "failed", "gone"}]
         /\ owner' \in [Media -> Users \union {None}]
         /\ post' \in [Media -> Posts \union {None}]
         /\ variants' \in [Media -> SUBSET Kinds]
         /\ age' \in [Media -> Ages]
         /\ avatar' \in [Users -> Media \union {None}]
  BY DEF TypeOK, DropRows

LEMMA KeysOfObjects ==
  ASSUME NEW S
  PROVE  /\ KeysOf(S) \subseteq Objects
         /\ \A o \in KeysOf(S) : o[1] \in S /\ Live(o[1])
  BY DEF KeysOf

LEMMA S3Objects ==
  ASSUME NEW keys, objects \subseteq Objects, S3Deletes(keys) \/ S3Fails(keys)
  PROVE  /\ objects' \subseteq objects
         /\ objects \ keys \subseteq objects'
         /\ objects' \subseteq Objects
  BY DEF S3Deletes, S3Fails

LEMMA TypeClient == TypeOK /\ ClientStep => TypeOK'
<1> SUFFICES ASSUME TypeOK, ClientStep PROVE TypeOK'
  OBVIOUS
<1> USE DEF TypeOK
<1>1. ASSUME NEW u \in Users, NEW m \in Media, Presign(u, m) PROVE TypeOK'
  BY <1>1 DEF Presign
<1>2. ASSUME NEW u \in Users, NEW m \in Media, SetAvatar(u, m) PROVE TypeOK'
  BY <1>2 DEF SetAvatar
<1>3. ASSUME NEW u \in Users, ClearAvatar(u) PROVE TypeOK'
  BY <1>3 DEF ClearAvatar
<1>4. ASSUME NEW u \in Users, TokenExpires(u) PROVE TypeOK'
  BY <1>4 DEF TokenExpires
<1>5. ASSUME NEW m \in Media, Upload(m) PROVE TypeOK'
  <2>1. objects' \subseteq Objects /\ kept' \subseteq Media /\ broken' \subseteq Media
    BY <1>5 DEF Upload, Objects, Original, Parts
  <2>2. events' \in [Media -> 0 .. MaxDeliveries]
    BY <1>5, BoundAssumption DEF Upload
  <2>. QED  BY <1>5, <2>1, <2>2 DEF Upload
<1>. QED  BY <1>1, <1>2, <1>3, <1>4, <1>5 DEF ClientStep

LEMMA TypeRequest ==
  ASSUME TypeOK, NEW r \in Requests, RequestStep(r) PROVE TypeOK'
<1> USE DEF TypeOK
<1>0. /\ IdleRequest \in RequestState
      /\ request[r] \in RequestState
  BY DEF IdleRequest, RequestState
<1>1. ASSUME NEW u \in Users, NEW p \in Posts, NEW S \in SUBSET Media,
             CreatePost(r, u, p, S) PROVE TypeOK'
  <2>1. request' \in [Requests -> RequestState]
    BY <1>0, <1>1 DEF CreatePost, RequestState, IdleRequest
  <2>. QED  BY <1>1, <2>1 DEF CreatePost
<1>2. ASSUME NEW u \in Users, NEW p \in Posts, DeletePostList(r, u, p) PROVE TypeOK'
  <2>1. request' \in [Requests -> RequestState]
    BY <1>0, <1>2, KeysOfObjects DEF DeletePostList, RequestState
  <2>. QED  BY <1>2, <2>1 DEF DeletePostList
<1>3. ASSUME NEW u \in Users, DeleteAccountList(r, u) PROVE TypeOK'
  <2>1. request' \in [Requests -> RequestState]
    BY <1>0, <1>3, KeysOfObjects DEF DeleteAccountList, RequestState, IdleRequest
  <2>. QED  BY <1>3, <2>1 DEF DeleteAccountList
<1>4. ASSUME NEW m \in Media, MarkKept(r, m) PROVE TypeOK'
  <2>1. request' \in [Requests -> RequestState]
    BY <1>0, <1>4 DEF MarkKept, RequestState
  <2>. QED  BY <1>4, <2>1 DEF MarkKept
<1>5. CASE ListOriginals(r)
  <2>1. MarkTargets(request[r].post) \in SUBSET Objects
    BY DEF MarkTargets, Original, Objects, Parts
  <2>2. request' \in [Requests -> RequestState]
    BY <1>0, <1>5, <2>1 DEF ListOriginals, RequestState
  <2>. QED  BY <1>5, <2>2 DEF ListOriginals
<1>6. CASE MarkKeptFails(r)
  BY <1>0, <1>6 DEF MarkKeptFails
<1>7. ASSUME ToDeleteObjects(r) PROVE request' \in [Requests -> RequestState]
  BY <1>0, <1>7 DEF ToDeleteObjects, RequestState
<1>8. CASE DeletePostCommit(r)
  <2>1. CASE author[request[r].post] = request[r].user
    BY <1>7, <1>8, <2>1, TypeDropRows DEF DeletePostCommit
  <2>2. CASE author[request[r].post] # request[r].user
    BY <1>0, <1>8, <2>2 DEF DeletePostCommit
  <2>. QED  BY <2>1, <2>2
<1>9. CASE DeleteAccountCommit(r)
  BY <1>7, <1>9, TypeDropRows DEF DeleteAccountCommit
<1>10. CASE TransactionFails(r)
  BY <1>0, <1>10 DEF TransactionFails
<1>11. CASE DeleteObjects(r)
  BY <1>0, <1>11, S3Objects DEF DeleteObjects
<1>12. CASE DeleteObjectsFails(r)
  <2>1. request' \in [Requests -> RequestState]
    BY <1>0, <1>12 DEF DeleteObjectsFails, OnS3Error, RequestState
  <2>. QED  BY <1>12, <2>1, S3Objects DEF DeleteObjectsFails
<1>13. CASE Enqueue(r)
  <2>1. request[r].keys \subseteq Objects
    BY <1>0 DEF RequestState
  <2>. QED  BY <1>0, <1>13, <2>1 DEF Enqueue
<1>14. CASE EnqueueFails(r)
  <2>1. request[r].keys \subseteq Objects
    BY <1>0 DEF RequestState
  <2>. QED  BY <1>0, <1>14, <2>1 DEF EnqueueFails
<1>15. CASE CrashRequest(r)
  BY <1>0, <1>15 DEF CrashRequest
<1>. QED
  BY <1>1, <1>2, <1>3, <1>4, <1>5, <1>6, <1>8, <1>9, <1>10, <1>11, <1>12,
     <1>13, <1>14, <1>15 DEF RequestStep

LEMMA TypeWorker ==
  ASSUME TypeOK, NEW w \in Workers, WorkerStep(w) PROVE TypeOK'
<1> USE DEF TypeOK
<1>0. /\ IdleWorker \in WorkerState
      /\ worker[w] \in WorkerState
  BY DEF IdleWorker, WorkerState
<1>b. worker[w].pc # "idle" =>
        worker[w] \in [pc : {"download", "upload", "reject"},
                      media : Media, done : SUBSET Kinds]
  BY <1>0 DEF WorkerState, IdleWorker
<1>1. ASSUME NEW m \in Media, Deliver(w, m) PROVE TypeOK'
  <2>1. events' \in [Media -> 0 .. MaxDeliveries]
    BY <1>1, BoundAssumption DEF Deliver
  <2>2. worker' \in [Workers -> WorkerState]
    BY <1>1 DEF Deliver, WorkerState
  <2>. QED  BY <1>1, <2>1, <2>2 DEF Deliver
<1>2. ASSUME NEW k \in Kinds, UploadVariant(w, k) PROVE TypeOK'
  <2>0. worker[w] \in [pc : {"download", "upload", "reject"},
                       media : Media, done : SUBSET Kinds]
    BY <1>b, <1>2 DEF UploadVariant
  <2>1. worker' \in [Workers -> WorkerState]
    BY <2>0, <1>2 DEF UploadVariant, WorkerState
  <2>2. objects' \subseteq Objects
    BY <2>0, <1>2 DEF UploadVariant, Objects, Parts
  <2>. QED  BY <1>2, <2>1, <2>2 DEF UploadVariant
<1>3. CASE Download(w)
  <2>1. PICK s \in {"reject", "upload"} : worker' = [worker EXCEPT ![w].pc = s]
    BY <1>3 DEF Download
  <2>2. worker' \in [Workers -> WorkerState]
    BY <1>b, <1>3, <2>1 DEF Download, WorkerState
  <2>. QED  BY <1>3, <2>2 DEF Download
<1>4. CASE RecordFailed(w)
  BY <1>0, <1>4 DEF RecordFailed
<1>5. CASE Complete(w)
  <2>1. worker[w].done \subseteq Kinds
    BY <1>b, <1>5 DEF Complete
  <2>. QED  BY <1>0, <1>5, <2>1 DEF Complete
<1>6. CASE WorkerError(w)
  BY <1>0, <1>6 DEF WorkerError
<1>. QED  BY <1>1, <1>2, <1>3, <1>4, <1>5, <1>6 DEF WorkerStep

LEMMA TypeJanitor ==
  ASSUME TypeOK, NEW j \in Janitors, JanitorStep(j) PROVE TypeOK'
<1> USE DEF TypeOK
<1>0. /\ IdleJanitor \in JanitorState
      /\ janitor[j] \in JanitorState
  BY DEF IdleJanitor, JanitorState
<1>s. ASSUME NEW m \in Media, Skip(j, m)
      PROVE  janitor' \in [Janitors -> JanitorState]
  BY <1>0, <1>s DEF Skip, JanitorState
<1>n. ASSUME NEW o \in Objects, NextPending(j, o)
      PROVE  janitor' \in [Janitors -> JanitorState]
  BY <1>0, <1>n DEF NextPending, JanitorState
<1>1. CASE ListOrphans(j)
  <2> DEFINE batch == FirstIds({m \in Media : Orphan(m)}, BatchLimit)
  <2>1. batch \in SUBSET Media
    BY DEF FirstIds
  <2>2. KeysOf(batch) \in SUBSET Objects
    BY KeysOfObjects
  <2>3. janitor' \in [Janitors -> JanitorState]
    <3> HIDE DEF batch
    <3>1. janitor' = [janitor EXCEPT ![j] = [IdleJanitor EXCEPT
                        !.pc = "objects", !.batch = batch, !.found = KeysOf(batch)]]
      BY <1>1 DEF ListOrphans, batch
    <3>. QED  BY <1>0, <2>1, <2>2, <3>1 DEF JanitorState, IdleJanitor
  <2>. QED  BY <1>1, <2>3 DEF ListOrphans
<1>2. ASSUME NEW m \in Media, CleanObjects(j, m) PROVE TypeOK'
  <2>1. janitor' \in [Janitors -> JanitorState]
    BY <1>0, <1>2 DEF CleanObjects, JanitorState
  <2>. QED  BY <1>2, <2>1, S3Objects DEF CleanObjects
<1>3. ASSUME NEW m \in Media, CleanObjectsFails(j, m) PROVE TypeOK'
  BY <1>3, <1>s, S3Objects DEF CleanObjectsFails
<1>4. ASSUME NEW m \in Media, CleanRow(j, m) PROVE TypeOK'
  BY <1>4, <1>s, TypeDropRows DEF CleanRow
<1>5. ASSUME NEW m \in Media, CleanRowFails(j, m) PROVE TypeOK'
  BY <1>5, <1>s DEF CleanRowFails
<1>6. ASSUME NEW S \in SUBSET pending, ListPending(j, S) PROVE TypeOK'
  <2>1. S \in SUBSET Objects
    OBVIOUS
  <2>2. janitor' \in [Janitors -> JanitorState]
    BY <1>0, <1>6, <2>1 DEF ListPending, JanitorState, IdleJanitor
  <2>. QED  BY <1>6, <2>2 DEF ListPending
<1>7. ASSUME NEW o \in Objects, DrainObject(j, o) PROVE TypeOK'
  <2>1. {o} \in SUBSET Objects
    OBVIOUS
  <2>2. janitor' \in [Janitors -> JanitorState]
    BY <1>0, <1>7, <2>1 DEF DrainObject, JanitorState
  <2>. QED  BY <1>7, <2>2, S3Objects DEF DrainObject
<1>8. ASSUME NEW o \in Objects, DrainObjectFails(j, o) PROVE TypeOK'
  BY <1>8, <1>n, S3Objects DEF DrainObjectFails
<1>9. ASSUME NEW o \in Objects, Forget(j, o) PROVE TypeOK'
  BY <1>9, <1>n DEF Forget
<1>10. ASSUME NEW o \in Objects, ForgetFails(j, o) PROVE TypeOK'
  BY <1>10, <1>n DEF ForgetFails
<1>11. CASE CrashJanitor(j)
  BY <1>0, <1>11 DEF CrashJanitor
<1>. QED
  BY <1>1, <1>2, <1>3, <1>4, <1>5, <1>6, <1>7, <1>8, <1>9, <1>10, <1>11
     DEF JanitorStep

LEMMA TypeService == TypeOK /\ ServiceStep => TypeOK'
<1> SUFFICES ASSUME TypeOK, NEW m \in Media, EventOver(m) \/ Age(m) \/ Expire(m)
             PROVE  TypeOK'
  BY DEF ServiceStep
<1> USE DEF TypeOK
<1>1. CASE EventOver(m)
  BY <1>1, BoundAssumption DEF EventOver
<1>2. CASE Age(m)
  BY <1>2 DEF Age, Ages, Uploading, Settled, Retired
<1>3. CASE Expire(m)
  BY <1>3 DEF Expire
<1>. QED  BY <1>1, <1>2, <1>3

LEMMA TypeStep == TypeOK /\ [Next]_vars => TypeOK'
<1> SUFFICES ASSUME TypeOK, [Next]_vars PROVE TypeOK'
  OBVIOUS
<1>1. CASE UNCHANGED vars
  BY <1>1 DEF vars, TypeOK
<1>. QED
  BY <1>1, TypeClient, TypeRequest, TypeWorker, TypeJanitor, TypeService DEF Next

(* Every variable keeps the type its column, object or process state has.   *)
THEOREM TypeCorrect == Spec => []TypeOK
  BY TypeInit, TypeStep, PTL DEF Spec

-----------------------------------------------------------------------------
(* What a step may do to the rows, to the bucket and to the processes.      *)

(* The actions that write to media or to posts. *)
RowWrite ==
  \/ \E u \in Users, m \in Media : Presign(u, m)
  \/ \E r \in Requests :
       \/ \E u \in Users, p \in Posts, S \in SUBSET Media : CreatePost(r, u, p, S)
       \/ DeletePostCommit(r)
       \/ DeleteAccountCommit(r)
  \/ \E w \in Workers : RecordFailed(w) \/ Complete(w)
  \/ \E j \in Janitors, m \in Media : CleanRow(j, m)
  \/ \E m \in Media : Age(m)

LEMMA RowChanges == [Next]_vars => RowWrite \/ UNCHANGED <<rows, author>>
<1> SUFFICES ASSUME [Next]_vars PROVE RowWrite \/ UNCHANGED <<rows, author>>
  OBVIOUS
<1>1. CASE UNCHANGED vars
  BY <1>1 DEF vars
<1>2. CASE ClientStep
  BY <1>2 DEF ClientStep, RowWrite, SetAvatar, ClearAvatar, TokenExpires, Upload
<1>3. ASSUME NEW r \in Requests, RequestStep(r)
      PROVE  RowWrite \/ UNCHANGED <<rows, author>>
  BY <1>3 DEF RequestStep, RowWrite, DeletePostList, DeleteAccountList, MarkKept,
     ListOriginals, MarkKeptFails, TransactionFails, DeleteObjects,
     DeleteObjectsFails, Enqueue, EnqueueFails, CrashRequest
<1>4. ASSUME NEW w \in Workers, WorkerStep(w)
      PROVE  RowWrite \/ UNCHANGED <<rows, author>>
  BY <1>4 DEF WorkerStep, RowWrite, Deliver, UploadVariant, Download, WorkerError
<1>5. ASSUME NEW j \in Janitors, JanitorStep(j)
      PROVE  RowWrite \/ UNCHANGED <<rows, author>>
  BY <1>5 DEF JanitorStep, RowWrite, ListOrphans, CleanObjects, CleanObjectsFails,
     CleanRowFails, ListPending, DrainObject, DrainObjectFails, Forget,
     ForgetFails, CrashJanitor
<1>6. CASE ServiceStep
  BY <1>6 DEF ServiceStep, RowWrite, EventOver, Expire
<1>. QED  BY <1>1, <1>2, <1>3, <1>4, <1>5, <1>6 DEF Next

(* Rows only move forward: a row that is gone stays gone, a row in use      *)
(* keeps its owner, and leaves its post only together with the table.       *)
Forward(m) ==
  /\ status[m] = "gone" => status'[m] = "gone"
  /\ status[m] # "unused" => status'[m] # "unused" /\ owner'[m] = owner[m]
  /\ post[m] # None => post'[m] = post[m] \/ status'[m] = "gone"
  /\ age'[m] = age[m] \/ Age(m)
  /\ \/ variants'[m] = variants[m]
     \/ status'[m] = "gone"
     \/ \E w \in Workers : Complete(w) /\ worker[w].media = m

LEMMA RowsMoveForward ==
  ASSUME TypeOK, [Next]_vars, NEW m \in Media PROVE Forward(m)
<1> USE DEF Forward, TypeOK
<1>d. ASSUME NEW S, DropRows(S) PROVE Forward(m)
  BY <1>d DEF DropRows
<1>1. ASSUME NEW u \in Users, NEW n \in Media, Presign(u, n) PROVE Forward(m)
  BY <1>1 DEF Presign
<1>2. ASSUME NEW r \in Requests, NEW u \in Users, NEW p \in Posts,
             NEW S \in SUBSET Media, CreatePost(r, u, p, S)
      PROVE  Forward(m)
  BY <1>2 DEF CreatePost, Attachable
<1>3. ASSUME NEW r \in Requests, DeletePostCommit(r) PROVE Forward(m)
  BY <1>3, <1>d DEF DeletePostCommit
<1>4. ASSUME NEW r \in Requests, DeleteAccountCommit(r) PROVE Forward(m)
  BY <1>4, <1>d DEF DeleteAccountCommit
<1>5. ASSUME NEW w \in Workers, RecordFailed(w) PROVE Forward(m)
  BY <1>5 DEF RecordFailed, Live
<1>6. ASSUME NEW w \in Workers, Complete(w) PROVE Forward(m)
  <2>1. CASE worker[w].media = m
    BY <1>6, <2>1 DEF Complete, Live
  <2>2. CASE worker[w].media # m
    BY <1>6, <2>2 DEF Complete
  <2>. QED  BY <2>1, <2>2
<1>7. ASSUME NEW j \in Janitors, NEW n \in Media, CleanRow(j, n) PROVE Forward(m)
  BY <1>7, <1>d DEF CleanRow
<1>8. ASSUME NEW n \in Media, Age(n) PROVE Forward(m)
  <2>1. CASE n = m
    BY <1>8, <2>1 DEF Age
  <2>2. CASE n # m
    BY <1>8, <2>2 DEF Age
  <2>. QED  BY <2>1, <2>2
<1>9. CASE UNCHANGED <<rows, author>>
  BY <1>9
<1>. QED
  BY RowChanges, <1>1, <1>2, <1>3, <1>4, <1>5, <1>6, <1>7, <1>8, <1>9 DEF RowWrite

(* The objects a step may take out of the bucket: those of rows that are    *)
(* gone, those of rows old enough for the janitor, and originals.           *)
LEMMA ObjectsKept ==
  ASSUME IInv, [Next]_vars, NEW o \in objects
  PROVE  \/ o \in objects'
         \/ status[o[1]] = "gone"
         \/ age[o[1]] = Retired
         \/ o[2] = "original"
<1> DEFINE Goal == \/ o \in objects'
                   \/ status[o[1]] = "gone"
                   \/ age[o[1]] = Retired
                   \/ o[2] = "original"
<1> SUFFICES Goal
  OBVIOUS
<1>1. CASE UNCHANGED vars
  BY <1>1 DEF vars
<1>2. CASE ClientStep
  BY <1>2 DEF ClientStep, Presign, SetAvatar, ClearAvatar, TokenExpires, Upload
<1>3. ASSUME NEW r \in Requests, RequestStep(r) PROVE Goal
  <2>1. CASE DeleteObjects(r) \/ DeleteObjectsFails(r)
    <3>1. \A k \in request[r].keys : status[k[1]] = "gone"
      BY <2>1 DEF DeleteObjects, DeleteObjectsFails, IInv, RequestsSound, HeldKey
    <3>2. objects \ request[r].keys \subseteq objects'
      BY <2>1, S3Objects DEF DeleteObjects, DeleteObjectsFails, IInv, TypeOK
    <3>. QED  BY <3>1, <3>2
  <2>2. CASE ~(DeleteObjects(r) \/ DeleteObjectsFails(r))
    BY <1>3, <2>2 DEF RequestStep, CreatePost, DeletePostList, DeleteAccountList,
       MarkKept, ListOriginals, MarkKeptFails, DeletePostCommit,
       DeleteAccountCommit, TransactionFails, Enqueue, EnqueueFails, CrashRequest
  <2>. QED  BY <2>1, <2>2
<1>4. ASSUME NEW w \in Workers, WorkerStep(w) PROVE Goal
  BY <1>4 DEF WorkerStep, Deliver, UploadVariant, Download, RecordFailed, Complete,
     WorkerError
<1>5. ASSUME NEW j \in Janitors, JanitorStep(j) PROVE Goal
  <2>1. ASSUME NEW m \in Media, CleanObjects(j, m) \/ CleanObjectsFails(j, m)
        PROVE  Goal
    <3>1. m \in janitor[j].batch
      BY <2>1 DEF CleanObjects, CleanObjectsFails, NextInBatch, FirstIds
    <3>2. age[m] = Retired
      BY <3>1 DEF IInv, BatchSound
    <3>3. objects \ KeysFound(j, m) \subseteq objects'
      BY <2>1, S3Objects DEF CleanObjects, CleanObjectsFails, IInv, TypeOK
    <3>. QED  BY <3>2, <3>3 DEF KeysFound
  <2>2. ASSUME NEW d \in Objects, DrainObject(j, d) \/ DrainObjectFails(j, d)
        PROVE  Goal
    <3>1. d \in janitor[j].drain
      BY <2>2 DEF DrainObject, DrainObjectFails
    <3>2. status[d[1]] = "gone"
      BY <3>1 DEF IInv, QueueSound
    <3>3. objects \ {d} \subseteq objects'
      BY <2>2, S3Objects DEF DrainObject, DrainObjectFails, IInv, TypeOK
    <3>. QED  BY <3>2, <3>3
  <2>. QED
    BY <1>5, <2>1, <2>2 DEF JanitorStep, ListOrphans, CleanRow, CleanRowFails,
       ListPending, Forget, ForgetFails, CrashJanitor
<1>6. CASE ServiceStep
  <2>1. ASSUME NEW m \in Media, Expire(m) PROVE Goal
    BY <2>1 DEF Expire, Original
  <2>. QED  BY <1>6, <2>1 DEF ServiceStep, EventOver, Age
<1>. QED  BY <1>1, <1>2, <1>3, <1>4, <1>5, <1>6 DEF Next

(* A request, a worker and a janitor change only by steps of their own. *)
LEMMA OwnSteps ==
  ASSUME TypeOK, [Next]_vars
  PROVE  /\ \A r \in Requests : request'[r] = request[r] \/ RequestStep(r)
         /\ \A w \in Workers : worker'[w] = worker[w] \/ WorkerStep(w)
         /\ \A j \in Janitors : janitor'[j] = janitor[j] \/ JanitorStep(j)
<1> USE DEF TypeOK
<1>1. CASE UNCHANGED vars
  BY <1>1 DEF vars
<1>2. CASE ClientStep
  <2>. UNCHANGED <<request, worker, janitor>>
    <3>. USE <1>2 DEF ClientStep
    <3>1. ASSUME NEW u \in Users, NEW m \in Media, Presign(u, m) \/ SetAvatar(u, m)
          PROVE  UNCHANGED <<request, worker, janitor>>
      BY <3>1 DEF Presign, SetAvatar
    <3>. QED
      BY <3>1 DEF ClearAvatar, TokenExpires, Upload
  <2>. QED  OBVIOUS
<1>3. ASSUME NEW q \in Requests, RequestStep(q)
      PROVE  /\ UNCHANGED <<worker, janitor>>
             /\ \A r \in Requests : r # q => request'[r] = request[r]
  <2>1. CASE \E u \in Users, p \in Posts :
               \/ \E S \in SUBSET Media : CreatePost(q, u, p, S)
               \/ DeletePostList(q, u, p)
    BY <2>1 DEF CreatePost, DeletePostList
  <2>2. CASE ~ \E u \in Users, p \in Posts :
                 \/ \E S \in SUBSET Media : CreatePost(q, u, p, S)
                 \/ DeletePostList(q, u, p)
    BY <1>3, <2>2 DEF RequestStep, DeleteAccountList, MarkKept,
       ListOriginals, MarkKeptFails, DeletePostCommit, DeleteAccountCommit,
       ToDeleteObjects, TransactionFails, DeleteObjects, DeleteObjectsFails, Enqueue,
       EnqueueFails, CrashRequest
  <2>. QED
    BY <2>1, <2>2
<1>4. ASSUME NEW v \in Workers, WorkerStep(v)
      PROVE  /\ UNCHANGED <<request, janitor>>
             /\ \A w \in Workers : w # v => worker'[w] = worker[w]
  BY <1>4 DEF WorkerStep, Deliver, UploadVariant, Download, RecordFailed, Complete,
     WorkerError
<1>5. ASSUME NEW i \in Janitors, JanitorStep(i)
      PROVE  /\ UNCHANGED <<request, worker>>
             /\ \A j \in Janitors : j # i => janitor'[j] = janitor[j]
  BY <1>5 DEF JanitorStep, ListOrphans, CleanObjects, CleanObjectsFails, CleanRow,
     CleanRowFails, Skip, ListPending, DrainObject, DrainObjectFails, NextPending,
     Forget, ForgetFails, CrashJanitor
<1>6. CASE ServiceStep
  <2>. UNCHANGED <<request, worker, janitor>>
    BY <1>6 DEF ServiceStep, EventOver, Age, Expire
  <2>. QED  OBVIOUS
<1>. QED  BY <1>1, <1>2, <1>3, <1>4, <1>5, <1>6 DEF Next

(* The actions that add to the queue, to the kept originals and to the       *)
(* deliveries.                                                              *)
Entry ==
  /\ pending' \subseteq pending \/ \E r \in Requests : Enqueue(r) \/ EnqueueFails(r)
  /\ kept' \subseteq kept \/ \E r \in Requests, m \in Media : MarkKept(r, m)
  /\ \/ UNCHANGED events
     \/ \E m \in Media : Upload(m) \/ EventOver(m)
     \/ \E w \in Workers, m \in Media : Deliver(w, m)

LEMMA Entries == [Next]_vars => Entry
<1> SUFFICES ASSUME [Next]_vars PROVE Entry
  OBVIOUS
<1>0. ASSUME UNCHANGED <<pending, kept, events>> PROVE Entry
  BY <1>0 DEF Entry
<1>1. CASE UNCHANGED vars
  BY <1>0, <1>1 DEF vars
<1>2. CASE ClientStep
  <2>1. ASSUME NEW m \in Media, Upload(m) PROVE Entry
    BY <2>1 DEF Upload, Entry
  <2>. QED
    BY <1>0, <1>2, <2>1 DEF ClientStep, Presign, SetAvatar, ClearAvatar, TokenExpires
<1>3. ASSUME NEW r \in Requests, RequestStep(r) PROVE Entry
  <2>1. ASSUME NEW m \in Media, MarkKept(r, m) PROVE Entry
    BY <2>1 DEF MarkKept, Entry
  <2>2. CASE Enqueue(r)
    BY <2>2 DEF Enqueue, Entry
  <2>3. CASE EnqueueFails(r)
    BY <2>3 DEF EnqueueFails, Entry
  <2>. QED
    BY <1>0, <1>3, <2>1, <2>2, <2>3 DEF RequestStep, CreatePost, DeletePostList,
       DeleteAccountList, ListOriginals, MarkKeptFails, DeletePostCommit,
       DeleteAccountCommit, TransactionFails, DeleteObjects, DeleteObjectsFails,
       CrashRequest
<1>4. ASSUME NEW w \in Workers, WorkerStep(w) PROVE Entry
  <2>1. ASSUME NEW m \in Media, Deliver(w, m) PROVE Entry
    BY <2>1 DEF Deliver, Entry
  <2>. QED
    BY <1>0, <1>4, <2>1 DEF WorkerStep, UploadVariant, Download, RecordFailed,
       Complete, WorkerError
<1>5. ASSUME NEW j \in Janitors, JanitorStep(j) PROVE Entry
  <2>1. pending' \subseteq pending /\ UNCHANGED <<kept, events>>
    BY <1>5 DEF JanitorStep, ListOrphans, CleanObjects, CleanObjectsFails, CleanRow,
       CleanRowFails, ListPending, DrainObject, DrainObjectFails, Forget,
       ForgetFails, CrashJanitor
  <2>. QED  BY <2>1 DEF Entry
<1>6. CASE ServiceStep
  <2>1. ASSUME NEW m \in Media, EventOver(m) PROVE Entry
    BY <2>1 DEF EventOver, Entry
  <2>. QED  BY <1>0, <1>6, <2>1 DEF ServiceStep, Age, Expire
<1>. QED  BY <1>1, <1>2, <1>3, <1>4, <1>5, <1>6 DEF Next

(* A janitor takes up rows only in ListOrphans, keys only in ListPending. *)
LEMMA JanitorTakes ==
  ASSUME TypeOK, NEW j \in Janitors, JanitorStep(j)
  PROVE  /\ janitor'[j].batch \subseteq janitor[j].batch \/ ListOrphans(j)
         /\ janitor'[j].drain \subseteq janitor[j].drain \union pending
<1> DEFINE Less == /\ janitor'[j].batch \subseteq janitor[j].batch
                   /\ janitor'[j].drain \subseteq janitor[j].drain
<1>t. janitor \in [Janitors -> JanitorState]
  BY DEF TypeOK
<1>i. IdleJanitor.batch = {} /\ IdleJanitor.drain = {}
  BY DEF IdleJanitor
<1>1. CASE ListOrphans(j)
  <2>1. janitor'[j].drain = {}
    BY <1>t, <1>1 DEF ListOrphans, IdleJanitor
  <2>. QED  BY <1>1, <2>1
<1>2. ASSUME NEW m \in Media, CleanObjects(j, m) PROVE Less
  BY <1>t, <1>2 DEF CleanObjects, JanitorState
<1>3. ASSUME NEW m \in Media, Skip(j, m) PROVE Less
  BY <1>t, <1>i, <1>3 DEF Skip, JanitorState
<1>4. ASSUME NEW S \in SUBSET pending, ListPending(j, S)
      PROVE  janitor'[j].batch = {} /\ janitor'[j].drain = S
  BY <1>t, <1>4 DEF ListPending, IdleJanitor
<1>5. ASSUME NEW o \in Objects, DrainObject(j, o) PROVE Less
  BY <1>t, <1>5 DEF DrainObject, JanitorState
<1>6. ASSUME NEW o \in Objects, NextPending(j, o) PROVE Less
  BY <1>t, <1>i, <1>6 DEF NextPending, JanitorState
<1>7. CASE CrashJanitor(j)
  BY <1>t, <1>i, <1>7 DEF CrashJanitor
<1>. QED
  BY <1>1, <1>2, <1>3, <1>4, <1>5, <1>6, <1>7 DEF JanitorStep, CleanObjectsFails,
     CleanRow, CleanRowFails, DrainObjectFails, Forget, ForgetFails

-----------------------------------------------------------------------------
(* The inductive invariant.                                                 *)

LEMMA IInvInit == Init => IInv
<1> SUFFICES ASSUME Init PROVE IInv
  OBVIOUS
<1>1. TypeOK
  BY TypeInit
<1>2. RowsSound /\ AttachedShowable /\ KeptSound /\ YoungVariantsExist
  BY DEF Init, RowsSound, AttachedShowable, KeptSound, YoungVariantsExist
<1>3. RequestsSound
  BY DEF Init, RequestsSound, IdleRequest
<1>4. QueueSound /\ BatchSound
  BY DEF Init, QueueSound, BatchSound, IdleJanitor
<1>5. WorkersSound
  BY DEF Init, WorkersSound, IdleWorker
<1>. QED  BY <1>1, <1>2, <1>3, <1>4, <1>5 DEF IInv

LEMMA RowsStep ==
  ASSUME IInv, [Next]_vars PROVE RowsSound'
<1> USE DEF IInv, TypeOK, RowsSound
<1>d. ASSUME NEW S, DropRows(S), \A m \in Media : m \in S => status[m] # "unused"
      PROVE  RowsSound'
  BY <1>d DEF DropRows
<1>1. ASSUME NEW u \in Users, NEW n \in Media, Presign(u, n) PROVE RowsSound'
  BY <1>1 DEF Presign
<1>2. ASSUME NEW r \in Requests, NEW u \in Users, NEW p \in Posts,
             NEW S \in SUBSET Media, CreatePost(r, u, p, S)
      PROVE  RowsSound'
  BY <1>2 DEF CreatePost
<1>3. ASSUME NEW r \in Requests, DeletePostCommit(r) PROVE RowsSound'
  <2>1. CASE author[request[r].post] = request[r].user
    <3>1. request[r].post # None
      BY <1>3, NamesAssumption DEF DeletePostCommit, RequestsSound
    <3>2. \A m \in Media : post[m] = request[r].post => status[m] # "unused"
      BY <3>1 DEF AttachedShowable, Live
    <3>. QED  BY <1>3, <1>d, <2>1, <3>2 DEF DeletePostCommit
  <2>2. CASE author[request[r].post] # request[r].user
    BY <1>3, <2>2 DEF DeletePostCommit
  <2>. QED  BY <2>1, <2>2
<1>4. ASSUME NEW r \in Requests, DeleteAccountCommit(r) PROVE RowsSound'
  BY <1>4, <1>d DEF DeleteAccountCommit, Live
<1>5. ASSUME NEW w \in Workers, RecordFailed(w) PROVE RowsSound'
  BY <1>5 DEF RecordFailed, Live
<1>6. ASSUME NEW w \in Workers, Complete(w) PROVE RowsSound'
  <2>1. /\ variants' = [variants EXCEPT ![worker[w].media] = @ \union Kinds]
        /\ status' = [status EXCEPT ![worker[w].media] = "processed"]
        /\ status[worker[w].media] # "unused"
        /\ UNCHANGED owner
    BY <1>6 DEF Complete, Live
  <2>2. \A m \in Media : variants[m] \union Kinds = Kinds
    OBVIOUS
  <2>. QED  BY <2>1, <2>2
<1>7. ASSUME NEW j \in Janitors, NEW n \in Media, CleanRow(j, n) PROVE RowsSound'
  BY <1>7, <1>d DEF CleanRow, Live
<1>8. ASSUME NEW n \in Media, Age(n) PROVE RowsSound'
  BY <1>8 DEF Age
<1>9. CASE UNCHANGED <<rows, author>>
  BY <1>9
<1>. QED
  BY RowChanges, <1>1, <1>2, <1>3, <1>4, <1>5, <1>6, <1>7, <1>8, <1>9 DEF RowWrite

LEMMA AttachedStep ==
  ASSUME IInv, [Next]_vars PROVE AttachedShowable'
<1> USE DEF IInv, TypeOK, AttachedShowable
<1>1. ASSUME NEW u \in Users, NEW n \in Media, Presign(u, n) PROVE AttachedShowable'
  BY <1>1 DEF Presign, Live
<1>2. ASSUME NEW r \in Requests, NEW u \in Users, NEW p \in Posts,
             NEW S \in SUBSET Media, CreatePost(r, u, p, S)
      PROVE  AttachedShowable'
  <2>1. \A m \in Media : post[m] # None => author[post[m]] \in Users
    BY NamesAssumption DEF RowsSound, Live
  <2>2. \A m \in S : Live(m) /\ variants[m] = Kinds /\ owner[m] = u
    BY <1>2 DEF CreatePost, Attachable, RowsSound, Live
  <2>3. \A m \in Media : post[m] # None => post[m] \in Posts /\ post[m] # p
    BY <1>2, <2>1, NamesAssumption DEF CreatePost
  <2>. QED  BY <1>2, <2>2, <2>3 DEF CreatePost, Live
<1>3. ASSUME NEW r \in Requests, DeletePostCommit(r) PROVE AttachedShowable'
  BY <1>3 DEF DeletePostCommit, DropRows, Live
<1>4. ASSUME NEW r \in Requests, DeleteAccountCommit(r) PROVE AttachedShowable'
  BY <1>4 DEF DeleteAccountCommit, DropRows, Live
<1>5. ASSUME NEW w \in Workers, RecordFailed(w) PROVE AttachedShowable'
  BY <1>5 DEF RecordFailed, Live
<1>6. ASSUME NEW w \in Workers, Complete(w) PROVE AttachedShowable'
  BY <1>6 DEF Complete, Live
<1>7. ASSUME NEW j \in Janitors, NEW n \in Media, CleanRow(j, n)
      PROVE  AttachedShowable'
  BY <1>7 DEF CleanRow, DropRows, Live
<1>8. ASSUME NEW n \in Media, Age(n) PROVE AttachedShowable'
  BY <1>8 DEF Age, Live
<1>9. CASE UNCHANGED <<rows, author>>
  BY <1>9 DEF Live
<1>. QED
  BY RowChanges, <1>1, <1>2, <1>3, <1>4, <1>5, <1>6, <1>7, <1>8, <1>9 DEF RowWrite

LEMMA RequestsStep ==
  ASSUME IInv, [Next]_vars PROVE RequestsSound'
<1> DEFINE Sound(r) ==
      /\ request[r].pc # "idle" => request[r].user \in Users
      /\ request[r].pc \in {"listOriginals", "deletePost"} => request[r].post \in Posts
      /\ \A o \in request[r].keys : HeldKey(r, o)
<1> SUFFICES ASSUME NEW r \in Requests PROVE Sound(r)'
  BY DEF RequestsSound
<1>0. Sound(r)
  BY DEF IInv, RequestsSound
<1>t. TypeOK /\ TypeOK' /\ request[r].keys \subseteq Objects
  BY TypeStep DEF IInv, TypeOK, RequestState
<1>f. \A m \in Media : Forward(m)
  BY <1>t, RowsMoveForward
<1>k. \A o \in request[r].keys : o[1] \in Media
  BY <1>t DEF Objects
<1>s. ASSUME NEW m \in Media
      PROVE  /\ status[m] = "gone" => status'[m] = "gone"
             /\ post[m] # None => status'[m] = "gone" \/ post'[m] = post[m]
             /\ Live(m) => status'[m] = "gone" \/ (Live(m)' /\ owner'[m] = owner[m])
  BY <1>t, <1>f DEF Forward, Live, TypeOK
<1>1. CASE request'[r] = request[r]
  <2>1. \A o \in request[r].keys : HeldKey(r, o)'
    BY <1>0, <1>1, <1>k, <1>s, NamesAssumption DEF HeldKey
  <2>. QED  BY <1>0, <1>1, <2>1
<1>2. ASSUME request'[r] = IdleRequest PROVE Sound(r)'
  BY <1>2 DEF IdleRequest
<1>3. CASE RequestStep(r)
  <2>q. request' \in [Requests -> RequestState] /\ request \in [Requests -> RequestState]
    BY <1>t DEF TypeOK
  <2>1. ASSUME NEW u \in Users, NEW p \in Posts, NEW S \in SUBSET Media,
               CreatePost(r, u, p, S)
        PROVE  Sound(r)'
    BY <2>1, <2>q DEF CreatePost, IdleRequest
  <2>2. ASSUME NEW u \in Users, NEW p \in Posts, DeletePostList(r, u, p)
        PROVE  Sound(r)'
    <3>1. request'[r] = [pc |-> "deletePost", user |-> u, post |-> p,
                         keys |-> KeysOf(ImagesOf(p))]
      BY <2>2, <2>q DEF DeletePostList
    <3>2. \A o \in KeysOf(ImagesOf(p)) : post'[o[1]] = p
      BY <2>2, KeysOfObjects DEF DeletePostList, ImagesOf
    <3>. QED  BY <3>1, <3>2 DEF HeldKey
  <2>3. ASSUME NEW u \in Users, DeleteAccountList(r, u) PROVE Sound(r)'
    <3> DEFINE keys == KeysOf({m \in Media : owner[m] = u})
    <3>1. /\ request'[r].pc = "deleteAccount"
          /\ request'[r].user = u
          /\ request'[r].keys = keys
      BY <2>3, <2>q DEF DeleteAccountList, IdleRequest
    <3>2. \A o \in keys : Live(o[1])' /\ owner'[o[1]] = u
      BY <2>3, KeysOfObjects DEF DeleteAccountList, Live
    <3>. QED  BY <3>1, <3>2 DEF HeldKey
  <2>4. ASSUME NEW m \in Media, MarkKept(r, m) PROVE Sound(r)'
    <3>1. UNCHANGED rows
      BY <2>4 DEF MarkKept
    <3>2. CASE request'[r] = IdleRequest
      BY <3>2, <1>2
    <3>3. CASE request'[r] = [request[r] EXCEPT !.keys = request[r].keys \ {Original(m)}]
      BY <1>0, <2>4, <2>q, <3>1, <3>3 DEF HeldKey, MarkKept, Live, RequestState
    <3>. QED  BY <2>4, <2>q, <3>2, <3>3 DEF MarkKept
  <2>5. CASE ListOriginals(r)
    <3> DEFINE keys == MarkTargets(request[r].post)
    <3>1. CASE request'[r] = IdleRequest
      BY <3>1, <1>2
    <3>2. CASE request'[r] = [request[r] EXCEPT !.pc = "mark", !.keys = keys]
      <4>1. request[r].post \in Posts /\ request[r].user \in Users
        BY <1>0, <2>5 DEF ListOriginals
      <4>2. \A o \in keys : post'[o[1]] # None
        BY <2>5, <4>1, NamesAssumption DEF ListOriginals, MarkTargets, Original
      <4>3. /\ request'[r].pc = "mark"
            /\ request'[r].user \in Users
            /\ request'[r].keys = keys
        BY <2>q, <3>2, <4>1 DEF RequestState
      <4>. QED  BY <4>2, <4>3 DEF HeldKey
    <3>. QED  BY <2>5, <2>q, <3>1, <3>2 DEF ListOriginals
  <2>6. CASE MarkKeptFails(r) \/ TransactionFails(r) \/ DeleteObjects(r)
             \/ Enqueue(r) \/ EnqueueFails(r) \/ CrashRequest(r)
    BY <1>2, <2>6, <2>q DEF MarkKeptFails, TransactionFails, DeleteObjects, Enqueue,
       EnqueueFails, CrashRequest
  <2>7. ASSUME ToDeleteObjects(r), request[r].user \in Users,
               \A o \in request[r].keys : status'[o[1]] = "gone"
        PROVE  Sound(r)'
    <3>1. CASE request'[r] = IdleRequest
      BY <3>1, <1>2
    <3>2. CASE request'[r] = [request[r] EXCEPT !.pc = "deleteObjects"]
      BY <2>7, <2>q, <3>2 DEF RequestState, HeldKey
    <3>. QED  BY <2>7, <2>q, <3>1, <3>2 DEF ToDeleteObjects
  <2>8. CASE DeletePostCommit(r)
    <3>1. CASE author[request[r].post] = request[r].user
      <4>1. DropRows({m \in Media : post[m] = request[r].post}) /\ ToDeleteObjects(r)
        BY <2>8, <3>1 DEF DeletePostCommit
      <4>2. \A o \in request[r].keys :
              status[o[1]] = "gone" \/ post[o[1]] = request[r].post
        BY <1>0, <2>8 DEF DeletePostCommit, HeldKey
      <4>3. \A o \in request[r].keys : status'[o[1]] = "gone"
        BY <1>k, <4>1, <4>2 DEF DropRows
      <4>. QED  BY <1>0, <2>7, <2>8, <4>1, <4>3 DEF DeletePostCommit
    <3>2. CASE author[request[r].post] # request[r].user
      BY <1>2, <2>8, <2>q, <3>2 DEF DeletePostCommit
    <3>. QED  BY <3>1, <3>2
  <2>9. CASE DeleteAccountCommit(r)
    <3>1. DropRows({m \in Media : owner[m] = request[r].user /\ Live(m)})
      BY <2>9 DEF DeleteAccountCommit
    <3>2. \A o \in request[r].keys :
            status[o[1]] = "gone" \/ (Live(o[1]) /\ owner[o[1]] = request[r].user)
      BY <1>0, <2>9 DEF DeleteAccountCommit, HeldKey
    <3>3. \A o \in request[r].keys : status'[o[1]] = "gone"
      BY <1>k, <3>1, <3>2 DEF DropRows
    <3>. QED  BY <1>0, <2>7, <2>9, <3>3 DEF DeleteAccountCommit
  <2>10. CASE DeleteObjectsFails(r)
    <3>1. request'[r] = [request[r] EXCEPT !.pc = "enqueue"] /\ UNCHANGED rows
      BY <2>10, <2>q DEF DeleteObjectsFails, OnS3Error
    <3>2. request[r].pc = "deleteObjects"
      BY <2>10 DEF DeleteObjectsFails
    <3>. QED  BY <1>0, <2>q, <3>1, <3>2 DEF HeldKey, RequestState
  <2>. QED
    BY <1>3, <2>1, <2>2, <2>3, <2>4, <2>5, <2>6, <2>8, <2>9, <2>10 DEF RequestStep
<1>. QED  BY <1>t, <1>1, <1>3, OwnSteps

LEMMA QueueStep ==
  ASSUME IInv, [Next]_vars PROVE QueueSound'
<1>t. TypeOK /\ TypeOK'
  BY TypeStep DEF IInv
<1>f. \A o \in Objects : status[o[1]] = "gone" => status'[o[1]] = "gone"
  BY <1>t, RowsMoveForward DEF Forward, Objects
<1>1. ASSUME NEW o \in pending' PROVE status'[o[1]] = "gone"
  <2>0. o \in Objects
    BY <1>t DEF TypeOK
  <2>1. CASE o \in pending
    BY <1>f, <2>0, <2>1 DEF IInv, QueueSound
  <2>2. CASE o \notin pending
    <3>1. PICK r \in Requests : Enqueue(r) \/ EnqueueFails(r)
      BY <2>2, Entries DEF Entry
    <3>2. o \in request[r].keys
      BY <2>2, <3>1 DEF Enqueue, EnqueueFails
    <3>3. status[o[1]] = "gone"
      BY <3>1, <3>2 DEF IInv, RequestsSound, HeldKey, Enqueue, EnqueueFails
    <3>. QED  BY <1>f, <2>0, <3>3
  <2>. QED  BY <2>1, <2>2
<1>2. ASSUME NEW j \in Janitors, NEW o \in janitor'[j].drain
      PROVE  status'[o[1]] = "gone"
  <2>0. o \in Objects /\ janitor \in [Janitors -> JanitorState]
    BY <1>t DEF TypeOK, JanitorState
  <2>1. o \in janitor[j].drain \/ o \in pending
    BY <1>2, <1>t, JanitorTakes, OwnSteps
  <2>. QED  BY <1>f, <2>0, <2>1 DEF IInv, QueueSound
<1>. QED  BY <1>1, <1>2 DEF QueueSound

LEMMA KeptStep ==
  ASSUME IInv, [Next]_vars PROVE KeptSound'
<1>t. TypeOK /\ TypeOK'
  BY TypeStep DEF IInv
<1> SUFFICES ASSUME NEW m \in kept' PROVE status'[m] = "gone" \/ post'[m] # None
  BY DEF KeptSound
<1>0. m \in Media /\ Forward(m)
  BY <1>t, RowsMoveForward DEF TypeOK
<1>1. CASE m \in kept
  BY <1>0, <1>1 DEF IInv, KeptSound, Forward
<1>2. CASE m \notin kept
  <2>1. PICK r \in Requests, n \in Media : MarkKept(r, n)
    BY <1>2, Entries DEF Entry
  <2>2. request[r].pc = "mark" /\ Original(m) \in request[r].keys
    BY <1>2, <2>1 DEF MarkKept
  <2>3. status[m] = "gone" \/ post[m] # None
    BY <2>2 DEF IInv, RequestsSound, HeldKey, Original
  <2>. QED  BY <1>0, <2>3 DEF Forward
<1>. QED  BY <1>1, <1>2

LEMMA BatchStep ==
  ASSUME IInv, [Next]_vars PROVE BatchSound'
<1>t. TypeOK /\ TypeOK'
  BY TypeStep DEF IInv
<1> SUFFICES ASSUME NEW j \in Janitors, NEW m \in janitor'[j].batch
             PROVE  age'[m] = Retired
  BY DEF BatchSound
<1>0. m \in Media /\ Forward(m) /\ janitor \in [Janitors -> JanitorState]
  BY <1>t, RowsMoveForward DEF TypeOK, JanitorState
<1>1. m \in janitor[j].batch \/ age[m] = Retired
  <2>1. CASE ListOrphans(j)
    <3>1. janitor'[j].batch = FirstIds({n \in Media : Orphan(n)}, BatchLimit)
      BY <1>0, <2>1 DEF ListOrphans, IdleJanitor
    <3>. QED  BY <3>1 DEF FirstIds, Orphan
  <2>2. CASE ~ListOrphans(j)
    BY <1>t, <2>2, JanitorTakes, OwnSteps
  <2>. QED  BY <2>1, <2>2
<1>2. age[m] = Retired
  BY <1>1 DEF IInv, BatchSound
<1>. QED  BY <1>0, <1>2 DEF Forward, Age, Retired

LEMMA WorkersStep ==
  ASSUME IInv, [Next]_vars PROVE WorkersSound'
<1>t. TypeOK /\ TypeOK'
  BY TypeStep DEF IInv
<1>w. /\ worker \in [Workers -> WorkerState]
      /\ age \in [Media -> Ages]
      /\ events \in [Media -> 0 .. MaxDeliveries]
  BY <1>t DEF TypeOK
<1>1. ASSUME NEW m \in Media, events'[m] > 0 PROVE age'[m] <= Settled
  <2>1. CASE age'[m] = age[m] /\ events[m] > 0
    BY <2>1 DEF IInv, WorkersSound
  <2>2. CASE age'[m] = age[m] /\ ~(events[m] > 0)
    <3>1. PICK n \in Media : Upload(n)
      <4>1. ASSUME NEW n \in Media, EventOver(n) PROVE FALSE
        BY <1>1, <1>w, <2>2, <4>1 DEF EventOver
      <4>2. ASSUME NEW w \in Workers, NEW n \in Media, Deliver(w, n) PROVE FALSE
        BY <1>1, <1>w, <2>2, <4>2, BoundAssumption DEF Deliver
      <4>3. events' # events
        BY <1>1, <2>2
      <4>. QED  BY <4>1, <4>2, <4>3, Entries DEF Entry
    <3>2. n = m
      BY <1>1, <1>w, <2>2, <3>1 DEF Upload
    <3>. QED  BY <2>2, <3>1, <3>2 DEF Upload, Uploading, Settled
  <2>3. CASE Age(m)
    BY <1>1, <1>w, <2>3 DEF Age, Ages, Uploading, Settled, Retired
  <2>. QED  BY <1>t, <2>1, <2>2, <2>3, RowsMoveForward DEF Forward
<1>2. ASSUME NEW w \in Workers, NEW m \in Media, m = worker'[w].media
      PROVE  /\ status'[m] # "unused"
             /\ age'[m] <= Settled
             /\ Live(m)' => \A k \in worker'[w].done : <<m, k>> \in objects'
  <2>0. m # None /\ worker'[w].done \subseteq Kinds
    BY <1>t, NamesAssumption DEF TypeOK, WorkerState, IdleWorker
  <2>f. Forward(m)
    BY <1>t, RowsMoveForward
  <2>1. CASE worker'[w] = worker[w]
    <3>1. /\ status[m] # "unused"
          /\ age[m] <= Settled
          /\ Live(m) => \A k \in worker'[w].done : <<m, k>> \in objects
      BY <1>2, <2>0, <2>1 DEF IInv, WorkersSound
    <3>2. age'[m] <= Settled
      <4>1. CASE Age(m)
        BY <1>w, <1>2, <2>1, <3>1, <4>1 DEF Age, Ages, Uploading, Settled, Retired
      <4>. QED  BY <2>f, <3>1, <4>1 DEF Forward
    <3>3. Live(m)' => Live(m)
      BY <1>t, <2>f, <3>1 DEF Forward, Live, TypeOK
    <3>4. ASSUME Live(m), NEW k \in worker'[w].done PROVE <<m, k>> \in objects'
      <4>1. <<m, k>> \in objects /\ k # "original"
        BY <2>0, <3>1, <3>4, NamesAssumption
      <4>2. status[m] # "gone" /\ age[m] # Retired
        BY <3>1, <3>4 DEF Live, Settled, Retired
      <4>. QED  BY <4>1, <4>2, ObjectsKept
    <3>. QED  BY <2>f, <3>1, <3>2, <3>3, <3>4 DEF Forward
  <2>2. CASE WorkerStep(w)
    <3>1. ASSUME NEW n \in Media, Deliver(w, n)
          PROVE  /\ m = n /\ worker'[w].done = {}
                 /\ status'[n] # "unused" /\ age'[n] <= Settled
      <4>1. worker'[w] = [pc |-> "download", media |-> n, done |-> {}]
        BY <1>w, <3>1 DEF Deliver
      <4>2. age[n] <= Settled
        BY <3>1 DEF IInv, WorkersSound, Deliver
      <4>. QED  BY <1>2, <3>1, <4>1, <4>2 DEF Deliver, Live
    <3>2. ASSUME worker[w].media = m
          PROVE  /\ status[m] # "unused" /\ age[m] <= Settled
                 /\ Live(m) => \A k \in worker[w].done : <<m, k>> \in objects
      BY <2>0, <3>2 DEF IInv, WorkersSound
    <3>r. worker[w].pc # "idle" =>
            worker[w] \in [pc : {"download", "upload", "reject"},
                          media : Media, done : SUBSET Kinds]
      BY <1>w DEF WorkerState, IdleWorker
    <3>3. ASSUME NEW k \in Kinds, UploadVariant(w, k)
          PROVE  /\ worker[w].media = m
                 /\ worker'[w].done = worker[w].done \union {k}
                 /\ objects' = objects \union {<<m, k>>}
                 /\ UNCHANGED rows
      BY <1>w, <1>2, <3>r, <3>3 DEF UploadVariant
    <3>4. ASSUME Download(w)
          PROVE  /\ worker[w].media = m
                 /\ worker'[w].done = worker[w].done
                 /\ UNCHANGED <<rows, objects>>
      <4>1. PICK s \in {"reject", "upload"} : worker' = [worker EXCEPT ![w].pc = s]
        BY <3>4 DEF Download
      <4>. QED  BY <1>w, <1>2, <3>r, <3>4, <4>1 DEF Download
    <3>5. CASE RecordFailed(w) \/ Complete(w) \/ WorkerError(w)
      BY <1>w, <1>2, <2>0, <3>5 DEF RecordFailed, Complete, WorkerError, IdleWorker
    <3>. QED  BY <2>2, <3>1, <3>2, <3>3, <3>4, <3>5 DEF WorkerStep, Live
  <2>. QED  BY <1>t, <2>1, <2>2, OwnSteps
<1>3. \A w \in Workers : worker'[w].media \in Media \union {None}
  BY <1>t DEF TypeOK, WorkerState, IdleWorker
<1>. QED  BY <1>1, <1>2, <1>3 DEF WorkersSound, Live

LEMMA YoungStep ==
  ASSUME IInv, [Next]_vars PROVE YoungVariantsExist'
<1>t. TypeOK /\ TypeOK'
  BY TypeStep DEF IInv
<1> SUFFICES ASSUME NEW m \in Media, Live(m)', age'[m] < Retired,
                    NEW k \in variants'[m]
             PROVE  <<m, k>> \in objects'
  BY DEF YoungVariantsExist
<1>0. /\ Forward(m) /\ k \in Kinds /\ age[m] \in Ages
      /\ variants[m] \subseteq Kinds
  BY <1>t, RowsMoveForward DEF TypeOK
<1>1. age[m] < Retired
  BY <1>0 DEF Forward, Age, Ages, Uploading, Retired
<1>2. CASE variants'[m] = variants[m]
  <2>1. Live(m)
    BY <1>t, <1>0, <1>2 DEF Forward, Live, IInv, TypeOK, RowsSound
  <2>2. <<m, k>> \in objects
    BY <1>1, <1>2, <2>1 DEF IInv, YoungVariantsExist
  <2>. QED
    BY <1>0, <1>1, <2>1, <2>2, ObjectsKept, NamesAssumption DEF Live, Retired
<1>3. ASSUME NEW w \in Workers, Complete(w), worker[w].media = m
      PROVE  <<m, k>> \in objects'
  <2>1. UNCHANGED objects /\ worker[w].done = Kinds /\ Live(m)
    BY <1>3 DEF Complete
  <2>2. m # None
    BY NamesAssumption
  <2>. QED  BY <1>0, <1>3, <2>1, <2>2 DEF IInv, WorkersSound
<1>. QED  BY <1>0, <1>2, <1>3 DEF Forward, Live

LEMMA IInvStep == IInv /\ [Next]_vars => IInv'
  BY TypeStep, RowsStep, AttachedStep, RequestsStep, QueueStep, KeptStep,
     WorkersStep, BatchStep, YoungStep DEF IInv

LEMMA Inductive == Spec => []IInv
  BY IInvInit, IInvStep, PTL DEF Spec

-----------------------------------------------------------------------------
(* A post shows only whole images of its own author. *)
THEOREM PostsShowWholeImages == Spec => []AttachedShowable
<1>1. IInv => AttachedShowable
  BY DEF IInv
<1>. QED  BY <1>1, Inductive, PTL

(* What is being deleted from S3 has no row left, and gets none again. *)
THEOREM DoomedKeysStayGone == Spec => []DoomedKeysHaveNoRow
<1>1. IInv => DoomedKeysHaveNoRow
  BY DEF IInv, DoomedKeysHaveNoRow, Doomed, QueueSound, RequestsSound, HeldKey, Live
<1>. QED  BY <1>1, Inductive, PTL

(* Nothing deletes an object that a row younger than the retention names. *)
THEOREM VariantsOutliveDeletions == Spec => []YoungVariantsExist
<1>1. IInv => YoungVariantsExist
  BY DEF IInv
<1>. QED  BY <1>1, Inductive, PTL

(* Only originals of posts escape the lifecycle rule. *)
THEOREM OnlyPostedIsKept == Spec => []KeptOnlyIfPosted
<1>1. IInv => KeptOnlyIfPosted
  BY DEF IInv, KeptOnlyIfPosted, KeptSound, Live
<1>. QED  BY <1>1, Inductive, PTL

(* The janitor and the worker never have the same row in hand. *)
THEOREM JanitorAndWorkerApart == Spec => []JanitorSparesUploads
<1>1. IInv => JanitorSparesUploads
  <2> SUFFICES ASSUME IInv, NEW j \in Janitors, NEW m \in janitor[j].batch
               PROVE  events[m] = 0 /\ \A w \in Workers : worker[w].media # m
    BY DEF JanitorSparesUploads
  <2>1. m \in Media /\ m # None /\ events[m] \in Nat
    BY NamesAssumption, BoundAssumption DEF IInv, TypeOK, JanitorState
  <2>2. ~(age[m] <= Settled)
    BY DEF IInv, BatchSound, Settled, Retired
  <2>3. ~(events[m] > 0)
    BY <2>1, <2>2 DEF IInv, WorkersSound
  <2>. QED  BY <2>1, <2>2, <2>3 DEF IInv, WorkersSound
<1>. QED  BY <1>1, Inductive, PTL

LEMMA HandedOnStep ==
  ASSUME ~SilentErrors, TypeOK, [Next]_vars, NEW r \in Requests
  PROVE  HandedOn(r)
<1> SUFFICES ASSUME NEW o \in Doomed(r)
             PROVE  \/ o \in Doomed(r)' \union pending' \union logged'
                    \/ o \notin objects'
                    \/ CrashRequest(r)
  BY DEF HandedOn
<1>0. /\ o \in request[r].keys
      /\ request[r].pc \in {"deleteObjects", "enqueue"}
      /\ request \in [Requests -> RequestState]
  BY DEF Doomed, TypeOK
<1>1. CASE request'[r] = request[r]
  BY <1>0, <1>1 DEF Doomed
<1>2. CASE DeleteObjects(r)
  BY <1>0, <1>2 DEF DeleteObjects, S3Deletes
<1>3. CASE DeleteObjectsFails(r)
  <2>1. request'[r] = [request[r] EXCEPT !.pc = "enqueue"]
    BY <1>0, <1>3 DEF DeleteObjectsFails, OnS3Error
  <2>. QED  BY <1>0, <2>1 DEF Doomed, RequestState
<1>4. CASE Enqueue(r) \/ EnqueueFails(r)
  BY <1>0, <1>4 DEF Enqueue, EnqueueFails
<1>5. CASE CrashRequest(r)
  BY <1>5
<1>. QED
  <2>1. request'[r] = request[r] \/ RequestStep(r)
    BY OwnSteps
  <2>. QED
    BY <1>0, <1>1, <1>2, <1>3, <1>4, <1>5, <2>1 DEF RequestStep, CreatePost,
       DeletePostList, DeleteAccountList, MarkKept, ListOriginals, MarkKeptFails,
       DeletePostCommit, DeleteAccountCommit, TransactionFails

(* A request lets go of a key only when the object is deleted, queued or    *)
(* logged, or when its process dies; provided S3's 200 means "all deleted". *)
THEOREM KeysStay ==
  ASSUME ~SilentErrors PROVE Spec => KeysStayInSight
<1>1. TypeOK /\ [Next]_vars => [\A r \in Requests : HandedOn(r)]_vars
  BY HandedOnStep
<1>. QED  BY <1>1, TypeCorrect, PTL DEF Spec, KeysStayInSight

=============================================================================
