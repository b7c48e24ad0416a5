------------------------ MODULE NotificationPipeline ------------------------
(* notification-service: Kafka and RabbitMQ consumers turn an event into a   *)
(* notification with one delivery per channel, BullMQ workers send the       *)
(* deliveries and derive the notification's status from them, a sweep        *)
(* expires notifications and tries to queue failed deliveries again, and an  *)
(* outbox worker emits the realtime ones on NATS.  The workers write back    *)
(* the rows they have read, and await between the two; any call of the       *)
(* database or of the queue may fail.                                        *)
EXTENDS Integers, Sequences, FiniteSets

CONSTANTS NoRuns,        \* [inbox, prefs, scheduled, expires, reads, restarts, faults]: per
                         \* consumer the events it is given, and what may happen in the run
          NoConsumer,    \* the consumers of the buses
          NoInboxName,   \* the name under which a consumer keeps its inbox
          NoRequired,    \* the events with requiredChannels
          NoMax,         \* bound: notifications created
          NoAttempts     \* MAX_ATTEMPTS

ASSUME NoAssumption ==
    /\ NoMax \in Nat
    /\ \A r \in NoRuns : "prefs" \in DOMAIN r
                          /\ DOMAIN r.prefs \subseteq {"email", "sms", "push", "inapp", "realtime"}

VARIABLES noRun,     \* the run: events left per consumer, and the budget of faults
          noH,       \* per consumer: [pc, ev, n, todo]
          noInbox,   \* notification_inbox: pairs of event and consumer name
          noNotif,   \* the notifications, in the order of creation
          noDel,     \* the deliveries: [status, attempts] per notification and channel
          noJob,     \* the BullMQ job of a delivery: [st, pc, d, nt]
          noSent,    \* history: messages the providers have accepted
          noSweep,   \* the sweep: [pc, d, rows], with the rows it has read
          noExpire,  \* expire, by the sweep (0) or by the realtime worker of a notification: [n, pc, read, rows]
          noOut,     \* notification_outbox per notification, and the emitted ones
          noBroken   \* history: deliveries that an error or a restart has left without a job

noVars == <<noRun, noH, noInbox, noNotif, noDel, noJob, noSent, noSweep, noExpire, noOut, noBroken>>

NoChannel == {"email", "sms", "push", "inapp", "realtime"}
NoId == 1..NoMax
NoD == NoId \X NoChannel
NoRow == [status |-> "none", attempts |-> 0]
NoExpirer == 0..NoMax
NoCopy == [status |-> "CREATED", read |-> FALSE]
NoJobIdle == [st |-> "none", pc |-> "", d |-> NoRow, nt |-> NoCopy]
HIdle == [pc |-> "idle", ev |-> "", n |-> 0, todo |-> {}]
SweepIdle == [pc |-> "idle", d |-> <<0, "">>, rows |-> <<>>]
ExpireIdle == [n |-> 0, pc |-> "idle", read |-> FALSE, rows |-> <<>>]
OutNone == [status |-> "none", emitted |-> 0, attempts |-> 0]

NoInit ==
    /\ noRun \in NoRuns
    /\ noH = [c \in NoConsumer |-> HIdle]
    /\ noInbox = {} /\ noNotif = <<>>
    /\ noDel = [d \in NoD |-> NoRow]
    /\ noJob = [j \in NoD |-> NoJobIdle]
    /\ noSent = {}
    /\ noSweep = SweepIdle
    /\ noExpire = [x \in NoExpirer |-> ExpireIdle]
    /\ noOut = [n \in NoId |-> OutNone]
    /\ noBroken = {}

NoFault == noRun.faults > 0 /\ noRun' = [noRun EXCEPT !.faults = @ - 1]
NoCreated == 1..Len(noNotif)
Rows(n) == {d \in NoD : d[1] = n /\ noDel[d].status # "none"}

-----------------------------------------------------------------------------
(* From an event to a notification *)

\* getEnabledChannels: the enabled ones of the preferences of the user, the
\* defaults when there are none; a user may have disabled them all.
GetEnabledChannels ==
    IF DOMAIN noRun.prefs = {} THEN {"inapp", "push"} ELSE {ch \in DOMAIN noRun.prefs : noRun.prefs[ch]}

\* EVENT_MAPPING: a password reset is always recorded in the application.
ChannelsFor(e) == IF e \in NoRequired THEN {"inapp"} ELSE GetEnabledChannels

\* The inbox is asked for the event, and written only at the end.
CheckInbox(c) ==
    /\ noH[c].pc = "idle" /\ noRun.inbox[c] # <<>>
    /\ LET e == Head(noRun.inbox[c]) IN
       noH' = [noH EXCEPT ![c] =
                 [pc |-> IF <<e, NoInboxName[c]>> \in noInbox THEN "commit" ELSE "create",
                  ev |-> e, n |-> 0, todo |-> {}]]
    /\ UNCHANGED <<noRun, noInbox, noNotif, noDel, noJob, noOut>>

\* The Kafka consumer, and isDuplicate of the RabbitMQ ones, which share one name.
HandleMessage(c) == NoInboxName[c] = "kafka" /\ CheckInbox(c)
IsDuplicate(c) == NoInboxName[c] = "rabbitmq" /\ CheckInbox(c)

\* createAndDispatch: one transaction; an error is logged and the event given up,
\* and without a channel there is nothing to create.
CreateAndDispatch(c) ==
    LET e == noH[c].ev
        n == Len(noNotif) + 1 IN
    /\ noH[c].pc = "create" /\ n <= NoMax
    /\ \/ /\ ChannelsFor(e) # {}
          /\ noNotif' = Append(noNotif, [ev |-> e, status |-> "CREATED", read |-> FALSE])
          /\ noDel' = [d \in NoD |-> IF d[1] = n /\ d[2] \in ChannelsFor(e)
                                     THEN [status |-> "PENDING", attempts |-> 0] ELSE noDel[d]]
          /\ noH' = [noH EXCEPT ![c] = [pc |-> IF noRun.scheduled THEN "schedule" ELSE "dispatch",
                                        ev |-> e, n |-> n, todo |-> ChannelsFor(e)]]
          /\ UNCHANGED noRun
       \/ /\ NoFault \/ (ChannelsFor(e) = {} /\ UNCHANGED noRun)
          /\ noH' = [noH EXCEPT ![c].pc = "inbox"]
          /\ UNCHANGED <<noNotif, noDel>>
    /\ UNCHANGED <<noInbox, noJob, noOut>>

\* Queue.add of BullMQ: a job id that exists already is ignored, finished ones included.
QueueAdd(j) == noJob' = IF noJob[j].st = "none" THEN [noJob EXCEPT ![j].st = "waiting"] ELSE noJob

\* schedule: the channels are dispatched by the scheduled worker after the delay.
ScheduledWorker(c) ==
    /\ noH[c].pc = "schedule"
    /\ noH' = [noH EXCEPT ![c].pc = "dispatch",
                  ![c].todo = {ch \in @ : noDel[<<noH[c].n, ch>>].status = "PENDING"}]
    /\ UNCHANGED <<noRun, noInbox, noNotif, noDel, noJob, noOut>>

\* dispatch, channel by channel: an error of the queue is logged.
Dispatch(c) ==
    LET n == noH[c].n IN
    /\ noH[c].pc = "dispatch"
    /\ \/ \E ch \in noH[c].todo :
            /\ noH' = [noH EXCEPT ![c].todo = @ \ {ch}]
            /\ \/ QueueAdd(<<n, ch>>) /\ UNCHANGED <<noRun, noBroken>>
               \/ NoFault /\ noBroken' = noBroken \cup {<<n, ch>>} /\ UNCHANGED noJob
       \/ /\ noH[c].todo = {}
          /\ noH' = [noH EXCEPT ![c].pc = IF noDel[<<n, "realtime">>].status # "none"
                                          THEN "outbox" ELSE "inbox"]
          /\ UNCHANGED <<noRun, noJob, noBroken>>
    /\ UNCHANGED <<noInbox, noNotif, noDel, noOut>>

CreateRealtimeOutbox(c) ==
    LET n == noH[c].n IN
    /\ noH[c].pc = "outbox"
    /\ \/ /\ noOut' = IF noOut[n].status = "none" THEN [noOut EXCEPT ![n].status = "PENDING"] ELSE noOut
          /\ UNCHANGED noRun
       \/ NoFault /\ UNCHANGED noOut
    /\ noH' = [noH EXCEPT ![c].pc = "inbox"]
    /\ UNCHANGED <<noInbox, noNotif, noDel, noJob>>

SaveInbox(c) ==
    /\ noH[c].pc = "inbox"
    /\ noInbox' = noInbox \cup {<<noH[c].ev, NoInboxName[c]>>}
    /\ noH' = [noH EXCEPT ![c].pc = "commit"]
    /\ UNCHANGED <<noRun, noNotif, noDel, noJob, noOut>>

\* eachMessage returns and the offset moves, or the RabbitMQ message is acknowledged.
NoCommit(c) ==
    /\ noH[c].pc = "commit"
    /\ noRun' = [noRun EXCEPT !.inbox[c] = Tail(@)]
    /\ noH' = [noH EXCEPT ![c] = HIdle]
    /\ UNCHANGED <<noInbox, noNotif, noDel, noJob, noOut>>

-----------------------------------------------------------------------------
(* The workers *)

\* A finished job stays in Redis under its id, and is not tried again.
JobDone == [NoJobIdle EXCEPT !.st = "done"]

JobPc(j, pc) == noJob' = [noJob EXCEPT ![j].pc = pc]

\* A job ends with an error before its delivery says FAILED.
JobLost(j) ==
    /\ NoFault
    /\ noJob' = [noJob EXCEPT ![j] = JobDone] /\ noBroken' = noBroken \cup {j}

\* process: the delivery and the notification are read, outside the try; a row
\* that is gone ends the job.
ProcessJob(j) ==
    LET n == j[1] IN
    /\ noJob[j].st = "waiting"
    /\ \/ /\ noJob' = [noJob EXCEPT ![j] =
                IF noDel[j].status = "none" THEN JobDone
                ELSE [st |-> "active", pc |-> "begin", d |-> noDel[j],
                      nt |-> [status |-> noNotif[n].status, read |-> noNotif[n].read]]]
          /\ UNCHANGED <<noRun, noBroken>>
       \/ JobLost(j)
    /\ UNCHANGED <<noDel, noNotif, noSent>>

\* beginProcessing, which is outside the try as well.
BeginProcessing(j) ==
    LET row == [status |-> "PROCESSING", attempts |-> noJob[j].d.attempts + 1] IN
    /\ noJob[j].st = "active" /\ noJob[j].pc = "begin"
    /\ \/ /\ noDel' = [noDel EXCEPT ![j] = row]
          /\ noJob' = [noJob EXCEPT ![j].d = row, ![j].pc = "send"]
          /\ UNCHANGED <<noRun, noBroken>>
       \/ JobLost(j) /\ UNCHANGED noDel
    /\ UNCHANGED <<noNotif, noSent>>

\* The provider accepts the message or not; the sending worker catches its error.
SendChannel(j) ==
    /\ noJob[j].st = "active" /\ noJob[j].pc = "send"
    /\ \/ noSent' = noSent \cup {j} /\ JobPc(j, "SENT") /\ UNCHANGED noRun
       \/ NoFault /\ JobPc(j, "FAILED") /\ UNCHANGED noSent
    /\ UNCHANGED <<noDel, noNotif, noBroken>>

EmailWorker(j) == j[2] = "email" /\ SendChannel(j)
SmsWorker(j) == j[2] = "sms" /\ SendChannel(j)
PushWorker(j) == j[2] = "push" /\ SendChannel(j)
InAppWorker(j) == j[2] = "inapp" /\ SendChannel(j)

\* The realtime worker has nothing to send: the outbox does that.
RealtimeWorker(j) ==
    /\ j[2] = "realtime" /\ noJob[j].st = "active" /\ noJob[j].pc = "send"
    /\ noSent' = noSent \cup {j} /\ JobPc(j, "SENT")
    /\ UNCHANGED <<noDel, noNotif, noRun, noBroken>>

\* complete, fail: the delivery is saved as it was read, with its new status.
SaveOutcome(j) ==
    LET row == [noJob[j].d EXCEPT !.status = noJob[j].pc] IN
    /\ noJob[j].st = "active" /\ noJob[j].pc \in {"SENT", "FAILED"}
    /\ noDel' = [noDel EXCEPT ![j] = row]
    /\ noJob' = [noJob EXCEPT ![j] = IF noJob[j].nt.status \in {"CREATED", "QUEUED"}
                                     THEN [noJob[j] EXCEPT !.d = row, !.pc = "find"] ELSE JobDone]
    /\ UNCHANGED <<noNotif, noSent, noRun, noBroken>>

Inflight == {"PENDING", "PROCESSING"}

\* Mutant: a delivery that has not started is not in flight.
TransitionStatusEager(rows, terminal) ==
    CASE "PROCESSING" \in rows -> "QUEUED" [] "FAILED" \in rows -> "FAILED" [] OTHER -> terminal

\* transitionNotification: from the statuses of the deliveries it finds.
TransitionStatus(rows, terminal) ==
    CASE rows \cap Inflight # {} -> "QUEUED" [] "FAILED" \in rows -> "FAILED" [] OTHER -> terminal

\* A notification that is QUEUED and stays it is not saved.
FindDeliveries(j) ==
    LET rows == {noDel[d].status : d \in Rows(j[1])}
        next == TransitionStatus(rows, noJob[j].d.status) IN
    /\ noJob[j].st = "active" /\ noJob[j].pc = "find"
    /\ noJob' = [noJob EXCEPT ![j] = IF next = noJob[j].nt.status THEN JobDone
                                     ELSE [noJob[j] EXCEPT !.pc = "save", !.nt.status = next]]
    /\ UNCHANGED <<noDel, noNotif, noSent, noRun, noBroken>>

\* The notification is saved as the job has it, over whatever was stored meanwhile.
SaveNotification(j) ==
    LET n == j[1] IN
    /\ noJob[j].st = "active" /\ noJob[j].pc = "save"
    /\ noNotif' = [noNotif EXCEPT ![n] =
          [ev |-> noNotif[n].ev, status |-> noJob[j].nt.status, read |-> noJob[j].nt.read]]
    /\ noJob' = [noJob EXCEPT ![j] = JobDone]
    /\ UNCHANGED <<noDel, noSent, noRun, noBroken>>

\* A call of complete fails: the catch goes on with fail, whatever complete has
\* done.  A call of fail fails: the job ends, and its delivery stays as it is.
OutcomeFails(j) ==
    LET w == noJob[j] IN
    /\ w.st = "active" /\ w.pc \in {"SENT", "FAILED", "find", "save"}
    /\ IF w.pc = "SENT" \/ (w.pc \in {"find", "save"} /\ w.d.status = "SENT")
       THEN NoFault /\ JobPc(j, "FAILED") /\ UNCHANGED noBroken
       ELSE JobLost(j)
    /\ UNCHANGED <<noDel, noNotif, noSent>>

-----------------------------------------------------------------------------
(* Expiry, the sweep and the outbox *)

\* expireDueNotifications: a due notification is read, to be expired.
ExpireDue ==
    /\ noExpire[0].pc = "idle" /\ noSweep.pc = "idle" /\ noRun.expires > 0
    /\ \E n \in NoCreated :
        /\ noNotif[n].status \in {"CREATED", "QUEUED"}
        /\ noExpire' = [noExpire EXCEPT ![0] = [n |-> n, pc |-> "save", read |-> noNotif[n].read, rows |-> <<>>]]
    /\ noRun' = [noRun EXCEPT !.expires = @ - 1]
    /\ UNCHANGED <<noNotif, noJob, noBroken>>

\* The realtime worker expires its notification instead of going on, whatever its status.
RealtimeExpiry(n) ==
    LET j == <<n, "realtime">> IN
    /\ noJob[j].st = "active" /\ noJob[j].pc = "begin" /\ noRun.expires > 0
    /\ noExpire' = [noExpire EXCEPT ![n] = [n |-> n, pc |-> "save", read |-> noJob[j].nt.read, rows |-> <<>>]]
    /\ noRun' = [noRun EXCEPT !.expires = @ - 1]
    /\ JobPc(j, "expire")
    /\ UNCHANGED <<noNotif, noBroken>>

\* expire: the notification is saved as it was read,
ExpireSave(x) ==
    LET n == noExpire[x].n IN
    /\ noExpire[x].pc = "save"
    /\ noNotif' = [noNotif EXCEPT ![n] = [ev |-> noNotif[n].ev, status |-> "EXPIRED", read |-> noExpire[x].read]]
    /\ noExpire' = [noExpire EXCEPT ![x].pc = "find"]
    /\ UNCHANGED <<noDel, noJob, noRun, noBroken>>

\* It is over, and with it the job of the realtime worker.
ExpireEnds(x, rows) ==
    IF rows = <<>>
    THEN /\ noExpire' = [noExpire EXCEPT ![x] = ExpireIdle]
         /\ noJob' = IF x = 0 THEN noJob ELSE [noJob EXCEPT ![<<x, "realtime">>] = JobDone]
    ELSE noExpire' = [noExpire EXCEPT ![x].pc = "rows", ![x].rows = rows] /\ UNCHANGED noJob

\* its deliveries are read,
ExpireFind(x) ==
    /\ noExpire[x].pc = "find"
    /\ ExpireEnds(x, [d \in {e \in Rows(noExpire[x].n) : noDel[e].status \in Inflight} |-> noDel[d]])
    /\ UNCHANGED <<noNotif, noDel, noRun, noBroken>>

\* and the unfinished ones saved, one by one, as they were read.
ExpireRow(x) ==
    LET rows == noExpire[x].rows IN
    /\ noExpire[x].pc = "rows"
    /\ \E d \in DOMAIN rows :
        /\ noDel' = [noDel EXCEPT ![d] = [status |-> "FAILED", attempts |-> rows[d].attempts]]
        /\ ExpireEnds(x, [e \in DOMAIN rows \ {d} |-> rows[e]])
    /\ UNCHANGED <<noNotif, noRun, noBroken>>

\* A call fails: the rest is left as it is, and the job fails.
ExpireFails(x) ==
    /\ noExpire[x].pc # "idle" /\ NoFault
    /\ noExpire' = [noExpire EXCEPT ![x] = ExpireIdle]
    /\ IF x = 0 THEN UNCHANGED <<noJob, noBroken>>
       ELSE /\ noJob' = [noJob EXCEPT ![<<x, "realtime">>] = JobDone]
            /\ noBroken' = noBroken \cup {<<x, "realtime">>}
    /\ UNCHANGED <<noNotif, noDel>>

\* requeue: the job id is retry:<id>, and BullMQ refuses an id of its caller that
\* has a colon; the error is logged, and the delivery has no job.
NoRequeue(d) == noBroken' = noBroken \cup {d}

\* requeueFailedDeliveries: the failed ones are read,
SweepFind ==
    LET failed == {d \in NoD : noDel[d].status = "FAILED" /\ noDel[d].attempts < NoAttempts} IN
    /\ noSweep.pc = "idle" /\ noExpire[0].pc = "idle" /\ failed # {}
    /\ noSweep' = [SweepIdle EXCEPT !.pc = "save", !.rows = [d \in failed |-> noDel[d]]]
    /\ UNCHANGED <<noDel, noRun, noBroken>>

\* each is saved as PENDING, as it was read, and an error ends the sweep;
SweepSave ==
    /\ noSweep.pc = "save"
    /\ \/ \E d \in DOMAIN noSweep.rows :
            /\ noDel' = [noDel EXCEPT ![d] = [status |-> "PENDING", attempts |-> noSweep.rows[d].attempts]]
            /\ noSweep' = [noSweep EXCEPT !.pc = "add", !.d = d]
            /\ UNCHANGED noRun
       \/ NoFault /\ noSweep' = SweepIdle /\ UNCHANGED noDel
    /\ UNCHANGED noBroken

\* then its job is to be added.
SweepAdd ==
    LET left == DOMAIN noSweep.rows \ {noSweep.d} IN
    /\ noSweep.pc = "add"
    /\ NoRequeue(noSweep.d)
    /\ noSweep' = IF left = {} THEN SweepIdle
                  ELSE [SweepIdle EXCEPT !.pc = "save", !.rows = [d \in left |-> noSweep.rows[d]]]
    /\ UNCHANGED <<noDel, noRun>>

\* processOutbox: emit, then save; a failed emit counts an attempt, and after a
\* crash between the two the record is emitted again.
ProcessOutbox(n) ==
    /\ noOut[n].status = "PENDING"
    /\ \/ /\ noOut' = [noOut EXCEPT ![n].emitted = 1, ![n].status = "PUBLISHED"] /\ UNCHANGED noRun
       \/ /\ NoFault
          /\ \/ noOut' = [noOut EXCEPT ![n].attempts = @ + 1,
                                       ![n].status = IF noOut[n].attempts >= 5 THEN "FAILED" ELSE @]
             \/ noOut' = [noOut EXCEPT ![n].emitted = 1]

\* markAsRead: the row that is read and saved; markAllAsRead is one statement.
MarkAsRead(n) ==
    /\ ~noNotif[n].read /\ noRun.reads > 0
    /\ noRun' = [noRun EXCEPT !.reads = @ - 1]
    /\ noNotif' = [noNotif EXCEPT ![n].read = TRUE]

\* A consumer or the sweep is still about to add a job for a delivery.
NoAwaited(d) ==
    \/ \E c \in NoConsumer : noH[c].n = d[1] /\ d[2] \in noH[c].todo
    \/ noSweep.pc = "add" /\ noSweep.d = d

\* The process restarts: events are delivered again, BullMQ gives active jobs back.
NoRestart ==
    /\ noRun.restarts > 0 /\ noRun' = [noRun EXCEPT !.restarts = @ - 1]
    /\ noH' = [c \in NoConsumer |-> HIdle]
    /\ noJob' = [j \in NoD |->
          IF noJob[j].st = "active" THEN [NoJobIdle EXCEPT !.st = "waiting"] ELSE noJob[j]]
    /\ noSweep' = SweepIdle
    /\ noExpire' = [x \in NoExpirer |-> ExpireIdle]
    /\ noBroken' = noBroken \cup {d \in NoD : NoAwaited(d)}
    /\ UNCHANGED <<noInbox, noNotif, noDel, noSent, noOut>>

-----------------------------------------------------------------------------
NoConsume(c) ==
    /\ \/ Dispatch(c)
       \/ /\ \/ HandleMessage(c) \/ IsDuplicate(c) \/ CreateAndDispatch(c) \/ ScheduledWorker(c)
             \/ CreateRealtimeOutbox(c) \/ SaveInbox(c) \/ NoCommit(c)
          /\ UNCHANGED noBroken
    /\ UNCHANGED <<noSent, noSweep, noExpire>>

NoWork(j) ==
    /\ \/ ProcessJob(j) \/ BeginProcessing(j) \/ EmailWorker(j) \/ SmsWorker(j) \/ PushWorker(j)
       \/ InAppWorker(j) \/ RealtimeWorker(j) \/ SaveOutcome(j)
       \/ FindDeliveries(j) \/ SaveNotification(j) \/ OutcomeFails(j)
    /\ UNCHANGED <<noH, noInbox, noSweep, noExpire, noOut>>

NoExpiry ==
    \/ /\ ExpireDue \/ (\E n \in NoId : RealtimeExpiry(n))
       /\ UNCHANGED noDel
    \/ \E x \in NoExpirer : ExpireSave(x) \/ ExpireFind(x) \/ ExpireRow(x) \/ ExpireFails(x)

NoNext ==
    \/ \E c \in NoConsumer : NoConsume(c)
    \/ \E j \in NoD : NoWork(j)
    \/ NoExpiry /\ UNCHANGED <<noH, noInbox, noSent, noSweep, noOut>>
    \/ /\ SweepFind \/ SweepSave \/ SweepAdd
       /\ UNCHANGED <<noH, noInbox, noNotif, noJob, noSent, noExpire, noOut>>
    \/ /\ \E n \in NoId : ProcessOutbox(n)
       /\ UNCHANGED <<noH, noInbox, noNotif, noDel, noJob, noSent, noSweep, noExpire, noBroken>>
    \/ /\ \E n \in NoCreated : MarkAsRead(n)
       /\ UNCHANGED <<noH, noInbox, noDel, noJob, noSent, noSweep, noExpire, noOut, noBroken>>
    \/ NoRestart

NoSpec == NoInit /\ [][NoNext]_noVars

-----------------------------------------------------------------------------
(* Properties *)

\* Consumers, rows, jobs and the sweeps are well formed.
NoTypeOK ==
    /\ \A n \in NoCreated : noNotif[n].status \in {"CREATED", "QUEUED", "SENT", "FAILED", "EXPIRED"}
    /\ \A d \in NoD : /\ noDel[d].status \in {"none", "PENDING", "PROCESSING", "SENT", "FAILED"}
                      /\ noDel[d].attempts \in Nat
    /\ \A j \in NoD : noJob[j].st \in {"none", "waiting", "active", "done"}

\* A notification that says SENT has gone out on every channel: its status is
\* derived from statuses read before other workers, retries and the expiry write
\* theirs, and is written back later.
NoSentIsReal ==
    \A n \in NoCreated : noNotif[n].status = "SENT" => Rows(n) \subseteq noSent

\* A delivery that is not finished has a job that will take it up, or is about to
\* be given one, whatever is read, saved and swept in between -- unless a call of
\* the queue or of the database failed for it, or a restart came before its job
\* was added.  The sweep brings no delivery back: it sets a failed one to PENDING,
\* the queue refuses its job, and from then on the delivery is one of noBroken.
NoUnfinishedHasJob ==
    \A d \in NoD : noDel[d].status \in Inflight =>
        noJob[d].st \in {"waiting", "active"} \/ NoAwaited(d) \/ d \in noBroken

=============================================================================
