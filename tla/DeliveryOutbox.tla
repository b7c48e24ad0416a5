--------------------------- MODULE DeliveryOutbox ---------------------------
(***************************************************************************)
(* The outbox of delivery-service: rows of outbox_events, and the replicas *)
(* of OutboxPublisherService that poll them, claim a batch, send each      *)
(* event to Kafka and mark its row.                                        *)
(*                                                                         *)
(* A publisher is one process: `running` of the code is pc # "idle".       *)
(* Every await of the code is a step of its own, so the replicas           *)
(* interleave between the SELECT and each conditional UPDATE of            *)
(* claimPending and between the send and the mark.  A database call that   *)
(* ends in an error may or may not have been applied.                      *)
(*                                                                         *)
(* Left out: the payload, and the column `attempts`, which only scales the *)
(* delay that claimPending never compares with the clock.                  *)
(***************************************************************************)
EXTENDS Naturals, FiniteSets

CONSTANTS
    Publisher,      \* replicas of delivery-service
    MaxEvents,      \* bound: events that are ever recorded
    BatchSize,      \* OUTBOX_BATCH_SIZE
    MaxEventFaults, \* bound: failing calls on behalf of one event
    MaxCrashes      \* bound: crashes of replicas

ASSUME OutboxAssumption ==
    /\ MaxEvents \in Nat
    /\ BatchSize \in Nat \ {0}
    /\ MaxEventFaults \in Nat
    /\ MaxCrashes \in Nat

\* Events are numbered in the order of createdAt.
OutboxEvent == 1 .. MaxEvents

OutboxStatus == {"PENDING", "PROCESSING", "PUBLISHED", "FAILED"}

\* Bugs: failed rows are never retried; published rows are selected again.
ClaimableNoFailed == {"PENDING"}
ClaimablePublished == {"PENDING", "FAILED", "PUBLISHED"}

\* The two statuses that claimPending selects.
ClaimableStatus == {"PENDING", "FAILED"}

PublisherPC == {"idle", "claiming", "publishing", "marking", "failing"}

VARIABLES
    status,     \* outbox_events.status, "ABSENT" before the row exists
    due,        \* availableAt <= now
    sent,       \* copies of the event on its Kafka topic
    pc,         \* where publishBatch of a replica is
    found,      \* rows SELECTed by claimPending and not yet tried, with the status read
    claimed,    \* rows this replica has claimed and not yet settled
    cur,        \* the event that publish() is working on
    eventFaults, \* failing calls so far, per event
    crashes     \* crashes so far

outboxVars == <<status, due, sent, pc, found, claimed, cur, eventFaults, crashes>>

rowVars == <<status, due>>
faultVars == <<eventFaults, crashes>>

OutboxInit ==
    /\ status = [e \in OutboxEvent |-> "ABSENT"]
    /\ due = [e \in OutboxEvent |-> TRUE]
    /\ sent = [e \in OutboxEvent |-> 0]
    /\ pc = [p \in Publisher |-> "idle"]
    /\ found = [p \in Publisher |-> {}]
    /\ claimed = [p \in Publisher |-> {}]
    /\ cur = [p \in Publisher |-> 0]
    /\ eventFaults = [e \in OutboxEvent |-> 0]
    /\ crashes = 0

-----------------------------------------------------------------------------
(* OutboxRepository *)

\* createEvent and save, called by the delivery commands.
CreateEvent(e) ==
    /\ status[e] = "ABSENT"
    /\ \A f \in OutboxEvent : f < e => status[f] # "ABSENT"
    /\ status' = [status EXCEPT ![e] = "PENDING"]
    /\ UNCHANGED <<due, sent, pc, found, claimed, cur, eventFaults, crashes>>

\* The WHERE of claimPending.  It asks for availableAt >= 1970, which every
\* row satisfies, so the backoff written by markFailed plays no part.
Claimable == {e \in OutboxEvent : status[e] \in ClaimableStatus}

\* ORDER BY createdAt LIMIT batchSize.
IsOldestBatch(B) ==
    /\ B \subseteq Claimable
    /\ Cardinality(B) <= BatchSize
    /\ B = Claimable \/ Cardinality(B) = BatchSize
    /\ \A e \in B : \A f \in Claimable \ B : e < f

\* publishBatch starts (guarded by `running`) and claimPending SELECTs.
FindPending(p) ==
    /\ pc[p] = "idle"
    /\ \E B \in SUBSET Claimable :
          /\ B # {}
          /\ IsOldestBatch(B)
          /\ found' = [found EXCEPT ![p] = {[id |-> e, read |-> status[e]] : e \in B}]
    /\ pc' = [pc EXCEPT ![p] = "claiming"]
    /\ UNCHANGED <<status, due, sent, claimed, cur, eventFaults, crashes>>

\* A poll that finds nothing.
PollEmpty(p) ==
    /\ pc[p] = "idle"
    /\ Claimable = {}
    /\ UNCHANGED outboxVars

\* Bug: the UPDATE matches the row by id only.
StillAsReadNoStatus(c) == status[c.id] # "ABSENT"

\* The row still has the status this replica read: UPDATE ... WHERE id AND status.
StillAsRead(c) == status[c.id] = c.read

\* Where publishBatch goes when `left` rows are still to be tried and
\* `mine` are claimed.
AfterClaim(left, mine) ==
    IF left # {} THEN "claiming" ELSE IF mine # {} THEN "publishing" ELSE "idle"

\* One conditional UPDATE of the loop of claimPending.
ClaimOne(p) ==
    /\ pc[p] = "claiming"
    /\ \E c \in found[p] :
          /\ \A o \in found[p] : c.id <= o.id
          /\ LET won  == StillAsRead(c)
                 left == found[p] \ {c}
                 mine == claimed[p] \cup (IF won THEN {c.id} ELSE {})
             IN  /\ status' = IF won THEN [status EXCEPT ![c.id] = "PROCESSING"] ELSE status
                 /\ found' = [found EXCEPT ![p] = left]
                 /\ claimed' = [claimed EXCEPT ![p] = mine]
                 /\ pc' = [pc EXCEPT ![p] = AfterClaim(left, mine)]
    /\ UNCHANGED <<due, sent, cur, eventFaults, crashes>>

\* Bug: the batch in memory survives an abandoned run.
AbandonKeepsClaims(p) ==
    /\ pc' = [pc EXCEPT ![p] = "idle"]
    /\ found' = [found EXCEPT ![p] = {}]
    /\ UNCHANGED claimed

\* What is left of a replica whose publishBatch is abandoned: nothing; the
\* rows it had claimed keep the status PROCESSING.
Abandon(p) ==
    /\ pc' = [pc EXCEPT ![p] = "idle"]
    /\ found' = [found EXCEPT ![p] = {}]
    /\ claimed' = [claimed EXCEPT ![p] = {}]

EventFault(e) ==
    /\ eventFaults[e] < MaxEventFaults
    /\ eventFaults' = [eventFaults EXCEPT ![e] = @ + 1]

\* The UPDATE throws: claimPending rejects, and with it publishBatch.
ClaimError(p) ==
    /\ pc[p] = "claiming"
    /\ \E c \in found[p] :
          /\ \A o \in found[p] : c.id <= o.id
          /\ EventFault(c.id)
          /\ \/ StillAsRead(c) /\ status' = [status EXCEPT ![c.id] = "PROCESSING"]
             \/ UNCHANGED status
    /\ Abandon(p)
    /\ UNCHANGED <<due, sent, cur, crashes>>

-----------------------------------------------------------------------------
(* OutboxPublisherService.publish *)

\* publishBatch takes the next claimed event, oldest first.
Takes(p, e) ==
    /\ pc[p] = "publishing"
    /\ e \in claimed[p]
    /\ \A f \in claimed[p] : e <= f
    /\ cur' = [cur EXCEPT ![p] = e]

\* Bug: the send is not awaited, so its failure goes unnoticed.
EmitNotAwaited(p) ==
    /\ \E e \in OutboxEvent :
          /\ Takes(p, e)
          /\ \/ sent' = [sent EXCEPT ![e] = @ + 1]
             \/ UNCHANGED sent
    /\ pc' = [pc EXCEPT ![p] = "marking"]
    /\ UNCHANGED <<status, due, found, claimed, eventFaults, crashes>>

\* The producer sends the event to Kafka.
Emit(p) ==
    /\ \E e \in OutboxEvent :
          /\ Takes(p, e)
          /\ sent' = [sent EXCEPT ![e] = @ + 1]
    /\ pc' = [pc EXCEPT ![p] = "marking"]
    /\ UNCHANGED <<status, due, found, claimed, eventFaults, crashes>>

\* The producer throws; the broker may have taken the message all the same.
EmitError(p) ==
    /\ \E e \in OutboxEvent :
          /\ Takes(p, e)
          /\ EventFault(e)
          /\ \/ sent' = [sent EXCEPT ![e] = @ + 1]
             \/ UNCHANGED sent
    /\ pc' = [pc EXCEPT ![p] = "failing"]
    /\ UNCHANGED <<status, due, found, claimed, crashes>>

\* publish() returns: the loop of publishBatch goes on or ends.
SettleClaim(p) ==
    LET rest == claimed[p] \ {cur[p]}
    IN  /\ claimed' = [claimed EXCEPT ![p] = rest]
        /\ pc' = [pc EXCEPT ![p] = IF rest = {} THEN "idle" ELSE "publishing"]

MarkPublished(p) ==
    /\ pc[p] = "marking"
    /\ status' = [status EXCEPT ![cur[p]] = "PUBLISHED"]
    /\ SettleClaim(p)
    /\ UNCHANGED <<due, sent, found, cur, eventFaults, crashes>>

\* markPublished throws: the catch block of publish() takes over.
MarkPublishedError(p) ==
    /\ pc[p] = "marking"
    /\ EventFault(cur[p])
    /\ \/ status' = [status EXCEPT ![cur[p]] = "PUBLISHED"]
       \/ UNCHANGED status
    /\ pc' = [pc EXCEPT ![p] = "failing"]
    /\ UNCHANGED <<due, sent, found, claimed, cur, crashes>>

MarkFailed(p) ==
    /\ pc[p] = "failing"
    /\ status' = [status EXCEPT ![cur[p]] = "FAILED"]
    /\ due' = [due EXCEPT ![cur[p]] = FALSE]
    /\ SettleClaim(p)
    /\ UNCHANGED <<sent, found, cur, eventFaults, crashes>>

\* markFailed throws inside the catch block: publishBatch rejects.
MarkFailedError(p) ==
    /\ pc[p] = "failing"
    /\ EventFault(cur[p])
    /\ \/ /\ status' = [status EXCEPT ![cur[p]] = "FAILED"]
          /\ due' = [due EXCEPT ![cur[p]] = FALSE]
       \/ UNCHANGED rowVars
    /\ Abandon(p)
    /\ UNCHANGED <<sent, cur, crashes>>

\* The replica dies and comes back; what it held in memory is gone.
Crash(p) ==
    /\ pc[p] # "idle"
    /\ crashes < MaxCrashes
    /\ crashes' = crashes + 1
    /\ Abandon(p)
    /\ UNCHANGED <<status, due, sent, cur, eventFaults>>

\* The clock passes availableAt of a failed row.
BackoffElapses(e) ==
    /\ ~due[e]
    /\ due' = [due EXCEPT ![e] = TRUE]
    /\ UNCHANGED <<status, sent, pc, found, claimed, cur, eventFaults, crashes>>

Publish(p) == FindPending(p) \/ ClaimOne(p) \/ Emit(p) \/ MarkPublished(p) \/ MarkFailed(p)

Break(p) == ClaimError(p) \/ EmitError(p) \/ MarkPublishedError(p) \/ MarkFailedError(p) \/ Crash(p)

OutboxNext ==
    \/ \E e \in OutboxEvent : CreateEvent(e) \/ BackoffElapses(e)
    \/ \E p \in Publisher : Publish(p) \/ PollEmpty(p) \/ Break(p)

\* The publisher's timer ticks again and again and every await of a live
\* replica settles; nothing obliges a fault to happen.
OutboxFairness == \A p \in Publisher : WF_outboxVars(Publish(p))

OutboxSpec == OutboxInit /\ [][OutboxNext]_outboxVars /\ OutboxFairness

-----------------------------------------------------------------------------
(* Properties *)

StateTypes ==
    /\ status \in [OutboxEvent -> OutboxStatus \cup {"ABSENT"}]
    /\ due \in [OutboxEvent -> BOOLEAN]
    /\ sent \in [OutboxEvent -> Nat]
    /\ pc \in [Publisher -> PublisherPC]
    /\ found \in [Publisher -> SUBSET [id : OutboxEvent, read : ClaimableStatus]]
    /\ claimed \in [Publisher -> SUBSET OutboxEvent]
    /\ cur \in [Publisher -> OutboxEvent \cup {0}]
    /\ eventFaults \in [OutboxEvent -> Nat]
    /\ crashes \in Nat

IdleHoldsNothing ==
    \A p \in Publisher :
        /\ pc[p] # "claiming" => found[p] = {}
        /\ pc[p] = "idle" => claimed[p] = {}

WorksOnClaim ==
    \A p \in Publisher : pc[p] \in {"marking", "failing"} => cur[p] \in claimed[p]

\* The state is well formed; an idle replica holds no rows, so a run of
\* publishBatch that ends in any way leaves nothing behind in memory; and
\* publish() marks only a row that its replica has claimed.
OutboxTypeOK == StateTypes /\ IdleHoldsNothing /\ WorksOnClaim

\* The conditional UPDATE of claimPending gives a row to one replica: two
\* replicas that read the same rows never publish the same row at once.
ClaimExclusive ==
    \A p, q \in Publisher : p # q => claimed[p] \cap claimed[q] = {}

\* A row is marked PUBLISHED only once Kafka has the event (publish() awaits
\* the producer before markPublished).
PublishedWasSent ==
    \A e \in OutboxEvent : status[e] = "PUBLISHED" => sent[e] > 0

\* However many replicas poll, crash or read stale rows, an event is sent a
\* second time only after a call made for that event failed: each copy
\* beyond the first is paid for by a failure of publish() on this event.
DuplicatesNeedFaults ==
    \A e \in OutboxEvent : sent[e] <= 1 + eventFaults[e]

\* What a reader of the outbox sees of a row's status.
StageOf(st) ==
    IF st = "ABSENT" THEN "none" ELSE IF st = "PUBLISHED" THEN "closed" ELSE "open"

Relay == INSTANCE EventRelay WITH Event <- OutboxEvent, stage <- [e \in OutboxEvent |-> StageOf(status[e])]

\* The outbox keeps the promise of EventRelay: no event is sent before its
\* row exists or while its row says PUBLISHED, and a row is closed only
\* after its event was sent.
RelaySpec == Relay!Spec

\* No replica is working on the row, and no query will select it again.
Orphaned(e) ==
    /\ status[e] = "PROCESSING"
    /\ \A p \in Publisher : e \notin claimed[p]

\* Every recorded event is eventually published, or it was left in
\* PROCESSING by a replica that crashed or failed: failed rows are retried
\* and no row is starved by the others of its batch.
EventsSettle ==
    \A e \in OutboxEvent :
        status[e] = "PENDING" ~>
            \/ status[e] = "PUBLISHED"
            \/ Orphaned(e) /\ (crashes > 0 \/ \E f \in OutboxEvent : eventFaults[f] > 0)

\* What the README calls reliable event publishing: every recorded event
\* reaches Kafka, even when a replica crashes while it holds the row.
ReliablePublishing ==
    \A e \in OutboxEvent : status[e] = "PENDING" ~> sent[e] > 0
=============================================================================
