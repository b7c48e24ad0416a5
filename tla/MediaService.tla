---------------------------- MODULE MediaService ----------------------------
(***************************************************************************)
(* media-service: the upload requests of one user, the outbox and its two  *)
(* publishers, the Kafka consumers with their worker pools, and the        *)
(* reconciliation worker.                                                  *)
(*                                                                         *)
(* A request, a worker goroutine, a publisher and the reconciliation are   *)
(* processes; each call to DynamoDB, S3, Redis or Kafka is a step, so they *)
(* interleave between any two calls.  A call may fail (bounded by          *)
(* MaxFaults), and a failing write may or may not have been applied.  A    *)
(* crash ends every process; rows, objects, locks and messages stay.       *)
(*                                                                         *)
(* Left out: the bytes (content stands for what the checks find in them),  *)
(* progress percentages, metrics, the realtime notifications, and events   *)
(* that no consumer of this service reads.                                 *)
(***************************************************************************)
EXTENDS Integers, FiniteSets

CONSTANTS
    Media,          \* uploads; one id stands for mediaId, uploadId and object key
    Client,         \* concurrent API requests
    Slot,           \* bound: worker goroutines alive at a time
    Contents,       \* what the bytes and the declared type of an upload can be
    MaxConcurrent,  \* upload slots of a user
    Starts          \* bound: the stage an upload starts from, with the API requests, the
                    \* failures (calls, expired locks, crashes) and the deliveries to follow

ASSUME MediaAssumption ==
    /\ IsFiniteSet(Media)
    /\ Contents \subseteq [kind : {"IMAGE", "VIDEO", "DOCUMENT"}, infected : BOOLEAN,
                           valid : BOOLEAN, delivery : BOOLEAN]
    /\ MaxConcurrent \in Nat
    /\ Starts \subseteq [stage : {"new", "uploading", "uploaded", "ready"}, calls : Nat,
                         faults : Nat, deliveries : Nat]

MediaStatus ==
    {"PENDING", "UPLOADING", "UPLOADED", "SCANNING", "PROCESSING", "READY",
     "FAILED", "QUARANTINED", "DELETING", "DELETED", "ABORTED"}

allowedTransitions ==
    {<<"PENDING", "UPLOADING">>, <<"PENDING", "FAILED">>, <<"PENDING", "ABORTED">>,
     <<"UPLOADING", "UPLOADED">>, <<"UPLOADING", "ABORTED">>, <<"UPLOADING", "FAILED">>,
     <<"UPLOADED", "SCANNING">>, <<"UPLOADED", "FAILED">>,
     <<"SCANNING", "PROCESSING">>, <<"SCANNING", "QUARANTINED">>, <<"SCANNING", "FAILED">>,
     <<"PROCESSING", "READY">>, <<"PROCESSING", "FAILED">>,
     <<"READY", "DELETING">>, <<"FAILED", "DELETING">>, <<"QUARANTINED", "DELETING">>,
     <<"DELETING", "DELETED">>, <<"DELETING", "FAILED">>}

UploadStatus == {"UPLOADING", "COMPLETED", "ABORTED", "EXPIRED"}
OutboxStatus == {"PENDING", "PUBLISHED"}

\* Rows of the outbox: media.upload.completed and media.delete.requested.
OutboxEvent == [m : Media, type : {"completed", "delete"}]

\* Consumer groups, and the groups that read a topic.
Group == {"scanner", "image", "video", "compression", "metadata", "delete"}
Readers(topic) ==
    CASE topic = "completed" -> {"scanner"}
      [] topic = "scanned" -> {"image", "video", "compression", "metadata"}
      [] topic = "delete" -> {"delete"}

\* The poller of the outbox and the retry of the reconciliation.
Relay == {"publisher", "reconciler"}

None == "none"
Idle == [op |-> None, m |-> None, at |-> "idle", read |-> None]

VARIABLES
    content,    \* what each upload contains, fixed
    status,     \* Media.Status, None before the row exists
    session,    \* UploadSession, as a row and as an entry of GSI2
    multipart,  \* the S3 multipart upload
    files,      \* S3 objects under the media's key
    versions,   \* MediaVersion rows
    lock,       \* Redis lock on the media: the request that holds it
    keys,       \* Redis idempotency keys
    quota,      \* QuotaUsage of the user
    outbox,     \* OutboxEvent.Status
    sent,       \* the event has been handed to Kafka
    queue,      \* uncommitted messages, per group and media
    job,        \* API requests in progress
    task,       \* worker goroutines
    relay,      \* the row a publisher has in hand
    sweep,      \* the expired session that the reconciliation works on
    unscanned,  \* history: media let through without a verdict on the whole file
    calls,      \* API requests, failures and deliveries that may still happen
    faults,
    deliveries

requestVars == <<job, calls>>
workerVars == <<task, queue, deliveries>>
relayVars == <<relay, outbox, sent>>
storeVars == <<multipart, files, versions>>
redisVars == <<lock, keys>>
\* What no request, and what no worker, changes.
requestFrame == <<content, versions, relay, sent, workerVars, sweep, unscanned>>
workerFrame == <<content, session, multipart, redisVars, relayVars, requestVars, sweep>>
vars == <<content, status, session, storeVars, redisVars, quota, relayVars,
          workerVars, requestVars, sweep, unscanned, faults>>

NoSession == [state |-> None, expired |-> FALSE, renewed |-> FALSE, listed |-> FALSE]

\* What the requests, and then the workers, have left of an upload that has
\* got as far as a stage.
Left(st, se, mu, fi, row) ==
    [status |-> st, session |-> se, multipart |-> mu, files |-> fi, row |-> row]
Stage ==
    [new       |-> Left(None, None, None, {}, None),
     uploading |-> Left("UPLOADING", "UPLOADING", "open", {}, None),
     uploaded  |-> Left("UPLOADED", "COMPLETED", "done", {"original"}, "PENDING"),
     ready     |-> Left("READY", "COMPLETED", "done", {"original"}, "PUBLISHED")]

\* In the stage "ready" a redelivery of media.scan.completed is on its way.
Init ==
    \E start \in Starts :
        LET s == Stage[start.stage]
            stored == s.files # {}
            ready == s.status = "READY"
        IN
        /\ content \in [Media -> {x \in Contents : (stored => x.valid) /\ (ready => ~x.infected)}]
        /\ status = [m \in Media |-> s.status]
        /\ session = [m \in Media |-> [NoSession EXCEPT !.state = s.session]]
        /\ multipart = [m \in Media |-> s.multipart]
        /\ files = [m \in Media |-> s.files]
        /\ versions = [m \in Media |-> {}]
        /\ lock = [m \in Media |-> None]
        /\ keys = IF s.status = None THEN {} ELSE {"create"} \X Media
        /\ quota = [active |-> IF s.session = "UPLOADING" THEN Cardinality(Media) ELSE 0,
                    used |-> IF stored THEN Cardinality(Media) ELSE 0]
        /\ outbox = [e \in OutboxEvent |-> IF e.type = "completed" THEN s.row ELSE None]
        /\ sent = {e \in OutboxEvent : ready /\ e.type = "completed"}
        /\ queue = [g \in Group |-> [m \in Media |-> IF ready /\ g \in Readers("scanned") THEN 1 ELSE 0]]
        /\ job = [c \in Client |-> Idle]
        /\ task = [w \in Slot |-> Idle]
        /\ relay = [p \in Relay |-> [e |-> None, at |-> "idle"]]
        /\ sweep = Idle /\ unscanned = {}
        /\ calls = start.calls /\ faults = start.faults /\ deliveries = start.deliveries

-----------------------------------------------------------------------------
(* Calls to the stores *)

Works == UNCHANGED faults
Fails == faults > 0 /\ faults' = faults - 1

\* Bug: the update is not conditional on the expected status.
UpdateStatusBlind(m, current, next) == status' = [status EXCEPT ![m] = next]

\* MediaRepository.UpdateStatus: conditional on the expected status.
UpdateStatus(m, current, next) ==
    status' = IF status[m] = current THEN [status EXCEPT ![m] = next] ELSE status

\* The same call when the caller ignores its result.
TryStatus(m, current, next) ==
    \/ Works /\ UpdateStatus(m, current, next)
    \/ Fails /\ (UpdateStatus(m, current, next) \/ UNCHANGED status)

InsertMedia(m) == status' = [status EXCEPT ![m] = "PENDING"]
InsertSession(m) == session' = [session EXCEPT ![m].state = "UPLOADING"]

\* GetByID finds a whole row; the session index of the reconciliation is
\* ordered by the expiry of the day the row was inserted.
HasSession(m) == session[m].state \in UploadStatus
Overdue(m) == session[m].state = "UPLOADING" /\ session[m].listed

CanTransitionTo(m, next) == <<status[m], next>> \in allowedTransitions
HasUploadSlot == quota.active < MaxConcurrent

\* UploadRepository.UpdateStatus writes the status alone, and writes it even
\* where the TTL has removed the row.
UpdateSession(m, s) ==
    \/ Works /\ session' = [session EXCEPT ![m].state = IF @ \in UploadStatus THEN s ELSE "PARTIAL"]
    \/ Fails /\ UNCHANGED session

\* CreateMultipartUpload and GeneratePresignedParts; the caller aborts the
\* multipart upload when the second fails.
OpenMultipart(m) ==
    \/ Works /\ multipart' = [multipart EXCEPT ![m] = "open"]
    \/ Fails /\ multipart' \in {multipart, [multipart EXCEPT ![m] = "aborted"]}

\* CompleteMultipartUpload: S3 assembles the parts that have arrived.
Assemble(m) ==
    /\ multipart' = [multipart EXCEPT ![m] = "done"]
    /\ files' = [files EXCEPT ![m] = @ \cup {IF multipart[m] = "filled" THEN "original"
                                                                    ELSE "truncated"}]

\* HeadObject: the object has the declared size.
HasDeclaredSize(m) == "original" \in files[m]

\* Magic bytes and checksum of the stored object.
ValidatePostUpload(m) == content[m].valid

\* PutObject and DeleteObjects.  buildPrefix leaves out the deliveryId, so the
\* delete worker's listing finds nothing of a media that has one.
PutObject(m, f) == files' = [files EXCEPT ![m] = @ \cup {f}]
Purge(m) == files' = [files EXCEPT ![m] = IF content[m].delivery THEN @ ELSE {}]

\* StorageAdapter.AbortMultipartUpload; S3 refuses one that is not open.
AbortMultipart(m) ==
    multipart' = IF multipart[m] \in {"open", "filled"} THEN [multipart EXCEPT ![m] = "aborted"]
                                                        ELSE multipart

\* QuotaRepository: two ADD expressions on the row of the user.
AddActive(n) ==
    \/ Works /\ quota' = [quota EXCEPT !.active = @ + n]
    \/ Fails /\ UNCHANGED quota

AddUsed(n) ==
    \/ Works /\ quota' = [quota EXCEPT !.used = @ + n]
    \/ Fails /\ UNCHANGED quota

\* OutboxRepository.Create; the callers go on when it fails.
CreateOutbox(m, type) ==
    LET e == [m |-> m, type |-> type]
    IN  \/ Works /\ outbox' = [outbox EXCEPT ![e] = "PENDING"]
        \/ Fails /\ UNCHANGED outbox

\* Producer.Publish to every group that reads the topic.
Enqueue(topic, m) ==
    queue' = [g \in Group |-> IF g \in Readers(topic) THEN [queue[g] EXCEPT ![m] = @ + 1]
                                                      ELSE queue[g]]

-----------------------------------------------------------------------------
(* Requests *)

Call(c, op, m, at, read) ==
    /\ job[c] = Idle
    /\ calls > 0
    /\ calls' = calls - 1
    /\ job' = [job EXCEPT ![c] = [op |-> op, m |-> m, at |-> at, read |-> read]]

At(c, op, at) == job[c].op = op /\ job[c].at = at
Go(c, at) == job' = [job EXCEPT ![c].at = at] /\ UNCHANGED calls
Return(c) == job' = [job EXCEPT ![c] = Idle] /\ UNCHANGED calls

\* ReleaseLock: the script deletes the key only if it still has our token.
ReleaseLock(c, m) == lock' = IF lock[m] = c THEN [lock EXCEPT ![m] = None] ELSE lock

\* CheckAndStoreIdempotency: SET NX of the key; FALSE for a key that exists.
StoreKey(op, m) == <<op, m>> \notin keys /\ keys' = keys \cup {<<op, m>>}

\* createUploadSession: rate limit, idempotency key, then the quota as read.
CreateUploadSession(c, m) ==
    /\ status[m] = None
    /\ StoreKey("create", m)
    /\ HasUploadSlot
    /\ Call(c, "create", m, "multipart", None)
    /\ UNCHANGED <<status, session, multipart, files, lock, quota, outbox, faults>>

CreateMultipart(c) ==
    /\ At(c, "create", "multipart")
    /\ OpenMultipart(job[c].m)
    /\ IF multipart'[job[c].m] = "open" THEN Go(c, "media") ELSE Return(c)
    /\ UNCHANGED <<status, session, files, redisVars, quota, outbox>>

CreateMediaRow(c) ==
    LET m == job[c].m IN
    /\ At(c, "create", "media")
    /\ \/ Works /\ InsertMedia(m) /\ Go(c, "session") /\ UNCHANGED multipart
       \/ Fails /\ (UNCHANGED status \/ InsertMedia(m)) /\ AbortMultipart(m) /\ Return(c)
    /\ UNCHANGED <<session, files, redisVars, quota, outbox>>

CreateSessionRow(c) ==
    LET m == job[c].m IN
    /\ At(c, "create", "session")
    /\ \/ Works /\ InsertSession(m) /\ Go(c, "uploading") /\ UNCHANGED multipart
       \/ Fails /\ (UNCHANGED session \/ InsertSession(m)) /\ AbortMultipart(m) /\ Return(c)
    /\ UNCHANGED <<status, files, redisVars, quota, outbox>>

\* The transition to UPLOADING; its failure is only logged.
CreateStart(c) ==
    /\ At(c, "create", "uploading")
    /\ TryStatus(job[c].m, "PENDING", "UPLOADING")
    /\ Go(c, "slot")
    /\ UNCHANGED <<session, multipart, files, redisVars, quota, outbox>>

CreateSlot(c) ==
    /\ At(c, "create", "slot")
    /\ AddActive(1)
    /\ Return(c)
    /\ UNCHANGED <<status, session, multipart, files, redisVars, outbox>>

\* The browser puts every part with its presigned URL.
UploadParts(m) ==
    /\ multipart[m] = "open" /\ session[m].state = "UPLOADING"
    /\ multipart' = [multipart EXCEPT ![m] = "filled"]
    /\ UNCHANGED <<content, status, session, files, versions, redisVars, quota, relayVars,
                   workerVars, requestVars, sweep, unscanned, faults>>

\* completeUpload: the session is read, and the key of a request that has one
\* is stored; with the key already there the request returns at once.
CompleteUpload(c, m, key) ==
    /\ HasSession(m) /\ ~session[m].expired
    /\ IF key THEN StoreKey("complete", m) ELSE UNCHANGED keys
    /\ Call(c, "complete", m, "lock", None)
    /\ UNCHANGED <<status, session, multipart, files, lock, quota, outbox, faults>>

\* AcquireLock for complete and for abort; a refused request returns an error.
AcquireLock(c) ==
    /\ job[c].at = "lock"
    /\ \/ lock[job[c].m] = None /\ lock' = [lock EXCEPT ![job[c].m] = c] /\ Go(c, "s3")
       \/ lock[job[c].m] # None /\ UNCHANGED lock /\ Return(c)
    /\ UNCHANGED <<status, session, multipart, files, keys, quota, outbox, faults>>

\* S3 refuses a second completion, and one after an abort.
CompleteMultipart(c) ==
    LET m == job[c].m IN
    /\ At(c, "complete", "s3")
    /\ \/ multipart[m] \in {"open", "filled"} /\ Works /\ Assemble(m) /\ Go(c, "verify")
          /\ UNCHANGED lock
       \/ multipart[m] \in {"open", "filled"} /\ Fails
          /\ (Assemble(m) \/ UNCHANGED <<multipart, files>>) /\ Return(c) /\ ReleaseLock(c, m)
       \/ multipart[m] \notin {"open", "filled"} /\ Works
          /\ UNCHANGED <<multipart, files>> /\ Return(c) /\ ReleaseLock(c, m)
    /\ UNCHANGED <<status, session, keys, quota, outbox>>

\* Bug: the size of the object is not compared with the declared one.
CompleteVerifyNoSize(c) ==
    /\ At(c, "complete", "verify") /\ Works /\ ValidatePostUpload(job[c].m) /\ Go(c, "outbox")
    /\ UNCHANGED <<status, session, multipart, files, redisVars, quota, outbox>>

\* HeadObject, the size check and ValidatePostUpload.
CompleteVerify(c) ==
    LET m == job[c].m IN
    /\ At(c, "complete", "verify")
    /\ \/ HasDeclaredSize(m) /\ ValidatePostUpload(m) /\ Works /\ Go(c, "outbox")
          /\ UNCHANGED <<status, lock>>
       \/ HasDeclaredSize(m) /\ ~ValidatePostUpload(m) /\ TryStatus(m, "UPLOADING", "FAILED")
          /\ Return(c) /\ ReleaseLock(c, m)
       \/ (IF HasDeclaredSize(m) THEN Fails ELSE Works)
          /\ UNCHANGED status /\ Return(c) /\ ReleaseLock(c, m)
    /\ UNCHANGED <<session, multipart, files, keys, quota, outbox>>

CompleteOutbox(c) ==
    /\ At(c, "complete", "outbox")
    /\ CreateOutbox(job[c].m, "completed")
    /\ Go(c, "status")
    /\ UNCHANGED <<status, session, multipart, files, redisVars, quota>>

CompleteStatus(c) ==
    LET m == job[c].m
        moved == UpdateStatus(m, "UPLOADING", "UPLOADED")
    IN
    /\ At(c, "complete", "status")
    /\ \/ status[m] = "UPLOADING" /\ Works /\ moved /\ Go(c, "session") /\ UNCHANGED lock
       \/ status[m] # "UPLOADING" /\ Works /\ moved /\ Return(c) /\ ReleaseLock(c, m)
       \/ Fails /\ (moved \/ UNCHANGED status) /\ Return(c) /\ ReleaseLock(c, m)
    /\ UNCHANGED <<session, multipart, files, keys, quota, outbox>>

CompleteSession(c) ==
    /\ At(c, "complete", "session")
    /\ UpdateSession(job[c].m, "COMPLETED")
    /\ Go(c, "slot")
    /\ UNCHANGED <<status, multipart, files, redisVars, quota, outbox>>

\* DecrementActiveUpload, for complete and for abort.
FreeSlot(c) ==
    LET m == job[c].m IN
    /\ job[c].op \in {"complete", "abort"} /\ job[c].at = "slot"
    /\ AddActive(-1)
    /\ IF job[c].op = "complete" THEN Go(c, "bytes") /\ UNCHANGED lock
                                 ELSE Return(c) /\ ReleaseLock(c, m)
    /\ UNCHANGED <<status, session, multipart, files, keys, outbox>>

CompleteBytes(c) ==
    /\ At(c, "complete", "bytes")
    /\ AddUsed(1)
    /\ Return(c) /\ ReleaseLock(c, job[c].m)
    /\ UNCHANGED <<status, session, multipart, files, keys, outbox>>

\* abortUpload asks for the session only: not for its status or its expiry.
AbortUpload(c, m) ==
    /\ HasSession(m)
    /\ Call(c, "abort", m, "lock", None)
    /\ UNCHANGED <<status, session, multipart, files, redisVars, quota, outbox, faults>>

AbortS3(c) ==
    /\ At(c, "abort", "s3")
    /\ \/ Works /\ AbortMultipart(job[c].m)
       \/ Fails /\ UNCHANGED multipart
    /\ Go(c, "session")
    /\ UNCHANGED <<status, session, files, redisVars, quota, outbox>>

AbortSession(c) ==
    /\ At(c, "abort", "session")
    /\ UpdateSession(job[c].m, "ABORTED")
    /\ Go(c, "status")
    /\ UNCHANGED <<status, multipart, files, redisVars, quota, outbox>>

AbortStatus(c) ==
    /\ At(c, "abort", "status")
    /\ TryStatus(job[c].m, "UPLOADING", "ABORTED")
    /\ Go(c, "slot")
    /\ UNCHANGED <<session, multipart, files, redisVars, quota, outbox>>

\* renewPresignedUrls reads the session; UpdateExpiry then asks again that it
\* is UPLOADING.  The entry of GSI2 keeps the old expiry.
RenewPresigned(c, m) ==
    /\ session[m].state = "UPLOADING" /\ ~session[m].expired
    /\ Call(c, "renew", m, "expiry", None)
    /\ UNCHANGED <<status, session, multipart, files, redisVars, quota, outbox, faults>>

UpdateExpiry(c) ==
    LET m == job[c].m IN
    /\ At(c, "renew", "expiry")
    /\ session' = IF session[m].state = "UPLOADING"
                  THEN [session EXCEPT ![m].expired = FALSE, ![m].renewed = TRUE]
                  ELSE session
    /\ Return(c)
    /\ UNCHANGED <<status, multipart, files, redisVars, quota, outbox, faults>>

\* deleteMedia: the status is read and checked with CanTransitionTo.
DeleteMedia(c, m) ==
    /\ CanTransitionTo(m, "DELETING")
    /\ StoreKey("delete", m)
    /\ Call(c, "delete", m, "status", status[m])
    /\ UNCHANGED <<status, session, multipart, files, lock, quota, outbox, faults>>

DeleteStatus(c) ==
    LET m == job[c].m
        moved == UpdateStatus(m, job[c].read, "DELETING")
    IN
    /\ At(c, "delete", "status")
    /\ \/ status[m] = job[c].read /\ Works /\ moved /\ Go(c, "outbox")
       \/ status[m] # job[c].read /\ Works /\ moved /\ Return(c)
       \/ Fails /\ (moved \/ UNCHANGED status) /\ Return(c)
    /\ UNCHANGED <<session, multipart, files, redisVars, quota, outbox>>

DeleteOutbox(c) ==
    /\ At(c, "delete", "outbox")
    /\ CreateOutbox(job[c].m, "delete")
    /\ Return(c)
    /\ UNCHANGED <<status, session, multipart, files, redisVars, quota>>

-----------------------------------------------------------------------------
(* Time *)

\* ExpiresAt passes; DynamoDB may remove the row from then on (TTL); the
\* entry of GSI2 grows older than the stuck timeout, whatever was renewed.
SessionExpires(m) ==
    /\ session[m].state = "UPLOADING"
    /\ \/ ~session[m].expired /\ session' = [session EXCEPT ![m].expired = TRUE]
       \/ session[m].expired /\ session' = [session EXCEPT ![m].state = None]
       \/ /\ session[m].expired \/ session[m].renewed
          /\ ~session[m].listed
          /\ session' = [session EXCEPT ![m].listed = TRUE]
    /\ UNCHANGED <<content, status, storeVars, redisVars, quota, relayVars, workerVars,
                   requestVars, sweep, unscanned, faults>>

\* A lock outlives its TTL while its holder is slow or gone.
LockExpires(m) ==
    /\ lock[m] # None
    /\ lock' = [lock EXCEPT ![m] = None]
    /\ IF job[lock[m]].m = m THEN Fails ELSE Works
    /\ UNCHANGED <<content, status, session, storeVars, keys, quota, relayVars, workerVars,
                   requestVars, sweep, unscanned>>

-----------------------------------------------------------------------------
(* The outbox publisher and the reconciliation worker *)

\* The rows ListPending returns, and MarkPublished, which asks that the row
\* is still PENDING.
Pending(e) == outbox[e] = "PENDING"
SetPublished(e) == outbox' = IF Pending(e) THEN [outbox EXCEPT ![e] = "PUBLISHED"] ELSE outbox

\* ListPending returns the row to either publisher: nothing claims it.
ListPending(p) ==
    /\ relay[p].at = "idle"
    /\ \E e \in OutboxEvent :
          Pending(e) /\ relay' = [relay EXCEPT ![p] = [e |-> e, at |-> "publish"]]
    /\ UNCHANGED <<content, status, session, storeVars, redisVars, quota, outbox, sent,
                   workerVars, requestVars, sweep, unscanned, faults>>

\* Publish; on an error the row stays PENDING (Attempts is never raised, so
\* MarkFailed is not reached).
PublishEvent(p) ==
    LET e == relay[p].e IN
    /\ relay[p].at = "publish"
    /\ \/ Works /\ Enqueue(e.type, e.m) /\ sent' = sent \cup {e}
          /\ relay' = [relay EXCEPT ![p].at = "mark"]
       \/ Fails /\ UNCHANGED <<queue, sent>>
          /\ relay' = [relay EXCEPT ![p] = [e |-> None, at |-> "idle"]]
    /\ UNCHANGED <<content, status, session, storeVars, redisVars, quota, outbox, task, deliveries,
                   requestVars, sweep, unscanned>>

MarkPublished(p) ==
    /\ relay[p].at = "mark"
    /\ \/ Works /\ SetPublished(relay[p].e)
       \/ Fails /\ UNCHANGED outbox
    /\ relay' = [relay EXCEPT ![p] = [e |-> None, at |-> "idle"]]
    /\ UNCHANGED <<content, status, session, storeVars, redisVars, quota, sent, workerVars,
                   requestVars, sweep, unscanned>>

\* ListExpired by GSI2.
ListExpired(m) ==
    /\ sweep = Idle
    /\ Overdue(m)
    /\ sweep' = [Idle EXCEPT !.m = m, !.at = "s3"]
    /\ UNCHANGED <<content, status, session, storeVars, redisVars, quota, relayVars, workerVars,
                   requestVars, unscanned, faults>>

\* One expired session: abort in S3, EXPIRED, ABORTED.  No lock is taken and
\* no upload slot is given back.
ReconcileExpired ==
    LET m == sweep.m IN
    /\ \/ sweep.at = "s3" /\ AbortMultipart(m) /\ Works
          /\ sweep' = [sweep EXCEPT !.at = "session"] /\ UNCHANGED <<session, status>>
       \/ sweep.at = "session" /\ UpdateSession(m, "EXPIRED")
          /\ sweep' = [sweep EXCEPT !.at = "media"] /\ UNCHANGED <<multipart, status>>
       \/ sweep.at = "media" /\ TryStatus(m, "UPLOADING", "ABORTED")
          /\ sweep' = Idle /\ UNCHANGED <<multipart, session>>
    /\ UNCHANGED <<content, files, versions, redisVars, quota, relayVars, workerVars, requestVars,
                   unscanned>>

-----------------------------------------------------------------------------
(* Workers *)

\* Image, video and compression skip what is not theirs; the metadata worker
\* takes everything.
Mine(g, m) ==
    CASE g = "image" -> content[m].kind = "IMAGE"
      [] g = "video" -> content[m].kind = "VIDEO"
      [] g = "compression" -> content[m].kind = "DOCUMENT"
      [] OTHER -> TRUE

\* Bug: an offset is committed that was never fetched.
DeliverUnfetched(w, g, m) ==
    /\ task[w] = Idle /\ deliveries > 0 /\ deliveries' = deliveries - 1
    /\ queue' = [queue EXCEPT ![g][m] = @ - 1] /\ Works
    /\ UNCHANGED <<task, status, files, versions, quota>>

\* Consumer.Run and WorkerPool.Submit: the goroutine is started and the
\* offset committed at once; the message comes again only if the commit is
\* lost.  A handler whose message is not its job returns before any call.
Deliver(w, g, m) ==
    /\ queue[g][m] > 0
    /\ task[w] = Idle
    /\ deliveries > 0 /\ deliveries' = deliveries - 1
    /\ \/ Works /\ queue' = [queue EXCEPT ![g][m] = @ - 1]
       \/ Fails /\ UNCHANGED queue
    /\ task' = IF Mine(g, m) THEN [task EXCEPT ![w] = [Idle EXCEPT !.op = g, !.m = m, !.at = "start"]]
                             ELSE task
    /\ UNCHANGED <<status, files, versions, quota>>

On(w, g, at) == task[w].op \in g /\ task[w].at = at
Step(w, at) == task' = [task EXCEPT ![w].at = at]
End(w) == task' = [task EXCEPT ![w] = Idle]
EndError(w) == Step(w, "error")

\* The pool logs the error of a job and forgets it.
JobFailed(w) ==
    /\ task[w].at = "error"
    /\ End(w)
    /\ UNCHANGED <<status, files, versions, quota, queue, deliveries, faults>>

\* Bug: a media that is already being scanned is taken again.
ScanClaimAny(w) ==
    LET m == task[w].m IN
    /\ On(w, {"scanner"}, "start")
    /\ UpdateStatus(m, "UPLOADED", "SCANNING") /\ Step(w, "scan") /\ Works
    /\ UNCHANGED <<files, versions, quota, queue, deliveries>>

\* UPLOADED -> SCANNING, or the message is skipped without an error.
ScanClaim(w) ==
    LET m == task[w].m
        moved == UpdateStatus(m, "UPLOADED", "SCANNING")
    IN
    /\ On(w, {"scanner"}, "start")
    /\ \/ status[m] = "UPLOADED" /\ Works /\ moved /\ Step(w, "scan")
       \/ status[m] # "UPLOADED" /\ Works /\ UNCHANGED status /\ End(w)
       \/ Fails /\ (moved \/ UNCHANGED status) /\ End(w)
    /\ UNCHANGED <<files, versions, quota, queue, deliveries>>

\* scanWithClamAV: what clamd finds in the stored object.
Infected(m) == content[m].infected

\* clamd cannot be reached, or is sent only the part that could be read from S3,
\* or answers neither FOUND nor OK: the file counts as clean.
NoVerdict(w) ==
    /\ Fails /\ Step(w, "clean")
    /\ unscanned' = unscanned \cup {task[w].m}

\* A failing download, a write or an answer that fails is an error, and leaves
\* the media in SCANNING.
ScanFile(w) ==
    /\ On(w, {"scanner"}, "scan")
    /\ \/ Works /\ Step(w, IF Infected(task[w].m) THEN "found" ELSE "clean") /\ UNCHANGED unscanned
       \/ NoVerdict(w)
       \/ Fails /\ EndError(w) /\ UNCHANGED unscanned
    /\ UNCHANGED <<status, files, versions, quota, queue, deliveries>>

\* Bug: the worker goes on when the media could not be quarantined.
ScanQuarantineGoesOn(w) ==
    /\ On(w, {"scanner"}, "found")
    /\ \/ Works /\ UpdateStatus(task[w].m, "SCANNING", "QUARANTINED") /\ End(w)
       \/ Fails /\ UNCHANGED status /\ Step(w, "clean")
    /\ UNCHANGED <<files, versions, quota, queue, deliveries>>

\* SCANNING -> QUARANTINED; its failure is only logged.
ScanQuarantine(w) ==
    /\ On(w, {"scanner"}, "found")
    /\ TryStatus(task[w].m, "SCANNING", "QUARANTINED")
    /\ End(w)
    /\ UNCHANGED <<files, versions, quota, queue, deliveries>>

\* SCANNING -> PROCESSING, or the worker returns an error.
ScanPass(w) ==
    LET m == task[w].m
        moved == UpdateStatus(m, "SCANNING", "PROCESSING")
    IN
    /\ On(w, {"scanner"}, "clean")
    /\ \/ status[m] = "SCANNING" /\ Works /\ moved /\ Step(w, "announce")
       \/ status[m] # "SCANNING" /\ Works /\ UNCHANGED status /\ EndError(w)
       \/ Fails /\ (moved \/ UNCHANGED status) /\ EndError(w)
    /\ UNCHANGED <<files, versions, quota, queue, deliveries>>

\* media.scan.completed is published directly; a failure is only logged.
ScanAnnounce(w) ==
    LET m == task[w].m IN
    /\ On(w, {"scanner"}, "announce")
    /\ \/ Works /\ Enqueue("scanned", m)
       \/ Fails /\ UNCHANGED queue
    /\ IF content[m].kind = "DOCUMENT" THEN Step(w, "ready") ELSE End(w)
    /\ UNCHANGED <<status, files, versions, quota, deliveries>>

ScanReady(w) ==
    /\ On(w, {"scanner"}, "ready")
    /\ TryStatus(task[w].m, "PROCESSING", "READY")
    /\ End(w)
    /\ UNCHANGED <<files, versions, quota, queue, deliveries>>

\* The original is read; without it the worker returns an error.
Fetch(w) ==
    /\ \/ "original" \in files[task[w].m] /\ Works /\ Step(w, "put")
       \/ "original" \notin files[task[w].m] /\ Works /\ EndError(w)
       \/ Fails /\ EndError(w)
    /\ UNCHANGED <<files, versions, quota, queue, deliveries>>

ImageFetch(w) == On(w, {"image"}, "start") /\ Fetch(w) /\ UNCHANGED status

\* The video worker first asks for SCANNING -> PROCESSING and ignores the answer.
VideoFetch(w) ==
    /\ On(w, {"video"}, "start")
    /\ UpdateStatus(task[w].m, "SCANNING", "PROCESSING")
    /\ Fetch(w)

CompressFetch(w) == On(w, {"compression"}, "start") /\ Fetch(w) /\ UNCHANGED status

\* A rendition is stored, or its failure is logged and the worker goes on.
Rendition(w) ==
    /\ \/ PutObject(task[w].m, task[w].op) /\ Step(w, "record")
       \/ UNCHANGED files /\ Step(w, "ready")
    /\ Works
    /\ UNCHANGED <<status, versions, quota, queue, deliveries>>

ImagePut(w) == On(w, {"image"}, "put") /\ Rendition(w)
VideoPut(w) == On(w, {"video"}, "put") /\ Rendition(w)

\* Compression ends where gzip does not make the object smaller.
CompressPut(w) ==
    /\ On(w, {"compression"}, "put")
    /\ \/ Works /\ PutObject(task[w].m, "compression") /\ Step(w, "record")
       \/ Works /\ End(w) /\ UNCHANGED files
       \/ Fails /\ EndError(w) /\ UNCHANGED files
    /\ UNCHANGED <<status, versions, quota, queue, deliveries>>

\* VersionRepository.Create; its failure is tolerated by every worker.
CreateVersion(m, v) ==
    \/ Works /\ versions' = [versions EXCEPT ![m] = @ \cup {v}]
    \/ Fails /\ UNCHANGED versions

WorkerRecord(w) ==
    /\ On(w, {"image", "video", "compression"}, "record")
    /\ CreateVersion(task[w].m, task[w].op)
    /\ IF task[w].op = "compression" THEN End(w) ELSE Step(w, "ready")
    /\ UNCHANGED <<status, files, quota, queue, deliveries>>

\* extract and persistMeta: a row even where nothing could be extracted.
MetadataRecord(w) ==
    /\ On(w, {"metadata"}, "start")
    /\ CreateVersion(task[w].m, "metadata")
    /\ End(w)
    /\ UNCHANGED <<status, files, quota, queue, deliveries>>

\* PROCESSING -> READY, or the worker returns an error.
Ready(w) ==
    LET m == task[w].m
        moved == UpdateStatus(m, "PROCESSING", "READY")
    IN
    /\ \/ status[m] = "PROCESSING" /\ Works /\ moved /\ End(w)
       \/ status[m] # "PROCESSING" /\ Works /\ UNCHANGED status /\ EndError(w)
       \/ Fails /\ (moved \/ UNCHANGED status) /\ EndError(w)
    /\ UNCHANGED <<files, versions, quota, queue, deliveries>>

ImageReady(w) == On(w, {"image"}, "ready") /\ Ready(w)
VideoReady(w) == On(w, {"video"}, "ready") /\ Ready(w)

DeleteObjects(w) ==
    /\ On(w, {"delete"}, "start")
    /\ \/ Works /\ Purge(task[w].m) /\ Step(w, "mark")
       \/ Fails /\ UNCHANGED files /\ EndError(w)
    /\ UNCHANGED <<status, versions, quota, queue, deliveries>>

DeleteMark(w) ==
    /\ On(w, {"delete"}, "mark")
    /\ TryStatus(task[w].m, "DELETING", "DELETED")
    /\ Step(w, "bytes")
    /\ UNCHANGED <<files, versions, quota, queue, deliveries>>

DeleteBytes(w) ==
    /\ On(w, {"delete"}, "bytes")
    /\ AddUsed(-1)
    /\ End(w)
    /\ UNCHANGED <<status, files, versions, queue, deliveries>>

\* The replica dies: requests, goroutines, publishers and the sweep with it.
Crash ==
    /\ Fails
    /\ job' = [c \in Client |-> Idle]
    /\ task' = [w \in Slot |-> Idle]
    /\ relay' = [p \in Relay |-> [e |-> None, at |-> "idle"]]
    /\ sweep' = Idle
    /\ UNCHANGED <<content, status, session, storeVars, redisVars, quota, outbox, sent, queue,
                   deliveries, calls, unscanned>>

-----------------------------------------------------------------------------

Request(c) ==
    \/ \E m \in Media :
          \/ CreateUploadSession(c, m) \/ AbortUpload(c, m) \/ RenewPresigned(c, m)
          \/ DeleteMedia(c, m) \/ \E key \in BOOLEAN : CompleteUpload(c, m, key)

RequestStep(c) ==
    \/ CreateMultipart(c) \/ CreateMediaRow(c) \/ CreateSessionRow(c) \/ CreateStart(c)
    \/ CreateSlot(c) \/ AcquireLock(c) \/ CompleteMultipart(c) \/ CompleteVerify(c)
    \/ CompleteOutbox(c) \/ CompleteStatus(c) \/ CompleteSession(c) \/ FreeSlot(c)
    \/ CompleteBytes(c) \/ AbortS3(c) \/ AbortSession(c) \/ AbortStatus(c)
    \/ UpdateExpiry(c) \/ DeleteStatus(c) \/ DeleteOutbox(c)

Publish(p) == ListPending(p) \/ PublishEvent(p) \/ MarkPublished(p)

Work(w) ==
    \/ \E g \in Group, m \in Media : Deliver(w, g, m)
    \/ JobFailed(w) \/ ScanClaim(w) \/ ScanQuarantine(w) \/ ScanPass(w)
    \/ ScanAnnounce(w) \/ ScanReady(w)
    \/ ImageFetch(w) \/ VideoFetch(w) \/ CompressFetch(w)
    \/ ImagePut(w) \/ VideoPut(w) \/ CompressPut(w) \/ WorkerRecord(w) \/ MetadataRecord(w)
    \/ ImageReady(w) \/ VideoReady(w)
    \/ DeleteObjects(w) \/ DeleteMark(w) \/ DeleteBytes(w)

Next ==
    \/ \E c \in Client : (Request(c) \/ RequestStep(c)) /\ UNCHANGED requestFrame
    \/ \E m \in Media : UploadParts(m) \/ SessionExpires(m) \/ LockExpires(m) \/ ListExpired(m)
    \/ ReconcileExpired
    \/ \E p \in Relay : Publish(p)
    \/ \E w \in Slot : (ScanFile(w) \/ (Work(w) /\ UNCHANGED unscanned)) /\ UNCHANGED workerFrame
    \/ Crash

Spec == Init /\ [][Next]_vars

-----------------------------------------------------------------------------
(* Properties *)

Step0 == {"idle", "multipart", "media", "session", "uploading", "slot", "lock", "s3", "verify",
          "outbox", "status", "bytes", "expiry"}
Steps == Step0 \cup {"start", "scan", "found", "clean", "announce", "ready", "put", "record", "mark"}

\* The state is well formed; in particular no step is taken on a media that
\* the request, the goroutine or the sweep does not hold.
TypeOK ==
    /\ content \in [Media -> Contents]
    /\ status \in [Media -> MediaStatus \cup {None}]
    /\ session \in [Media -> [state : UploadStatus \cup {None, "PARTIAL"}, expired : BOOLEAN,
                              renewed : BOOLEAN, listed : BOOLEAN]]
    /\ multipart \in [Media -> {None, "open", "filled", "done", "aborted"}]
    /\ files \in [Media -> SUBSET {"original", "truncated", "image", "video", "compression"}]
    /\ versions \in [Media -> SUBSET {"image", "video", "compression", "metadata"}]
    /\ lock \in [Media -> Client \cup {None}]
    /\ keys \subseteq {"create", "complete", "delete"} \X Media
    /\ quota \in [active : Int, used : Int]
    /\ outbox \in [OutboxEvent -> OutboxStatus \cup {None}]
    /\ sent \subseteq {e \in OutboxEvent : outbox[e] # None}
    /\ queue \in [Group -> [Media -> Nat]]
    /\ \A c \in Client : job[c] = Idle \/ (job[c].m \in Media /\ job[c].at \in Steps)
    /\ \A w \in Slot : task[w] = Idle \/ (task[w].m \in Media /\ task[w].op \in Group)
    /\ \A p \in Relay : relay[p].at = "idle" \/ relay[p].e \in OutboxEvent
    /\ sweep = Idle \/ sweep.m \in Media
    /\ unscanned \subseteq Media
    /\ calls \in Nat /\ faults \in Nat /\ deliveries \in Nat

\* An infected upload that ClamAV has seen in full is never handed to the
\* processing workers: it does not reach PROCESSING or READY and nothing is
\* derived from it, whatever is redelivered, crashes or fails on the way.  The
\* scan worker lets an upload through when clamd cannot be reached, got only a
\* part of it, or does not say FOUND or OK: that is the only way round.
InfectedContained ==
    \A m \in Media : content[m].infected /\ m \notin unscanned =>
        status[m] \notin {"PROCESSING", "READY"} /\ versions[m] = {}

\* Duplicate messages (two publishers, a lost commit) do not make two
\* goroutines scan the same media: the conditional update lets one through.
Scanning == {"scan", "found", "clean"}
ScannedByOne ==
    \A m \in Media :
        Cardinality({w \in Slot : task[w].m = m /\ \E at \in Scanning : On(w, {"scanner"}, at)}) <= 1

\* Until its deletion is requested, an upload that was accepted has its whole
\* object in S3, and every version row points to a stored rendition: neither
\* an abort, nor the reconciliation, nor a delete worker removes them earlier.
ListedIsStored ==
    \A m \in Media :
        /\ status[m] \in {"UPLOADED", "SCANNING", "PROCESSING", "READY", "QUARANTINED"}
              => "original" \in files[m]
        /\ status[m] \notin {"DELETING", "DELETED"} => versions[m] \ {"metadata"} \subseteq files[m]

\* A step that changes the status of a media does so along allowedTransitions,
\* although no caller of UpdateStatus but deleteMedia consults them.
StatusStep ==
    \A m \in Media : status'[m] # status[m] =>
        \/ status[m] = None /\ status'[m] = "PENDING"
        \/ <<status[m], status'[m]>> \in allowedTransitions

=============================================================================
