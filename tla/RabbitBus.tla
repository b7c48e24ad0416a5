------------------------------ MODULE RabbitBus ------------------------------
(* The RabbitMQ packages of the Go and of the TypeScript services: the      *)
(* publisher with its confirms, its second attempt (Go) or its circuit      *)
(* breaker (TypeScript), one quorum queue with its dead letter queue, and   *)
(* the consumers with manual acknowledgement that republish a failed        *)
(* message with a higher retry count.  Confirms are lost, channels close    *)
(* with messages unacknowledged and handlers fail at any moment.            *)
EXTENDS Integers, Sequences, FiniteSets, SequencesExt

CONSTANTS RbMsg,        \* the events that are published
          RbPoison,     \* the ones whose body is no envelope, or whose handler says ErrPermanent
          RbGo, RbTs,   \* the consumers of either package on the queue
          RbMaxRetries, \* maxRetries of the consumers
          RbThreshold,  \* circuitBreakerFailureThreshold
          RbPublishers, \* which packages may publish: subset of {"go", "ts"}
          RbMaxFaults   \* how many calls fail, confirms are lost and channels close

ASSUME RbAssumption ==
    /\ RbMaxRetries \in Nat /\ RbThreshold \in Nat /\ RbMaxFaults \in Nat
    /\ RbPublishers \subseteq {"go", "ts"} /\ IsFiniteSet(RbMsg)

VARIABLES rbBy,         \* the package that publishes in this run
          rbPub,        \* the call of Publish for every event
          rbCopies,     \* every copy the broker has stored: [msg, tries, at]
          rbHold,       \* the delivery a consumer works on: [copy, pc, live]
          rbChan,       \* the channel of a consumer: not started, open or closed
          rbHandled,    \* the events whose handler has returned nil
          rbFailures,   \* history: failed handler calls of every event
          rbBreaker,    \* breakerState and consecutiveFailures: [state, failures]
          rbStale,      \* a late confirmation waits to be read from the publisher's channel
          rbMisread,    \* history: events that were not stored and took another's confirmation
          rbFaults      \* faults left

rbVars == <<rbBy, rbPub, rbCopies, rbHold, rbChan, rbHandled, rbFailures, rbBreaker, rbStale,
            rbMisread, rbFaults>>

RbConsumer == RbGo \cup RbTs
RbNothing == [copy |-> 0, pc |-> "idle", live |-> TRUE]

RbInit ==
    /\ rbBy \in RbPublishers
    /\ rbPub = [m \in RbMsg |-> "new"]
    /\ rbCopies = <<>>
    /\ rbHold = [c \in RbConsumer |-> RbNothing]
    /\ rbChan = [c \in RbConsumer |-> "none"]
    /\ rbHandled = {}
    /\ rbFailures = [m \in RbMsg |-> 0]
    /\ rbBreaker = [state |-> "CLOSED", failures |-> 0]
    /\ rbStale = FALSE /\ rbMisread = {}
    /\ rbFaults = RbMaxFaults

RbFault == rbFaults > 0 /\ rbFaults' = rbFaults - 1

\* The broker stores a persistent message in the quorum queue.
Enqueued(copies, m, tries) == Append(copies, [msg |-> m, tries |-> tries, at |-> "queue"])

-----------------------------------------------------------------------------
(* Publishing *)

RecordSuccess ==
    rbBreaker' = IF rbBreaker.state = "OPEN" THEN [rbBreaker EXCEPT !.failures = 0]
                 ELSE [state |-> "CLOSED", failures |-> 0]

RecordFailure ==
    LET n == rbBreaker.failures + 1 IN
    rbBreaker' = [state |-> IF \/ rbBreaker.state = "HALF_OPEN"
                               \/ rbBreaker.state = "CLOSED" /\ n >= RbThreshold
                            THEN "OPEN" ELSE rbBreaker.state,
                  failures |-> n]

\* publish of the TypeScript service: the breaker lets the call through, or
\* opens for a trial once its timeout has passed, or rejects it.
GuardCircuitBreaker(m) ==
    /\ rbBy = "ts" /\ rbPub[m] = "new"
    /\ \/ /\ rbBreaker.state # "OPEN"
          /\ rbPub' = [rbPub EXCEPT ![m] = "second"] /\ UNCHANGED rbBreaker
       \/ /\ rbBreaker.state = "OPEN"
          /\ rbPub' = [rbPub EXCEPT ![m] = "second"]
          /\ rbBreaker' = [rbBreaker EXCEPT !.state = "HALF_OPEN"]
       \/ /\ rbBreaker.state = "OPEN"
          /\ rbPub' = [rbPub EXCEPT ![m] = "failed"] /\ UNCHANGED rbBreaker
    /\ UNCHANGED <<rbCopies, rbStale, rbMisread, rbFaults>>

\* Publish of the Go package: the lock, and ensureChannel of the first publishOnce,
\* which opens a new channel, with no confirmation on it, when the old one has closed.
PublishGo(m) ==
    /\ rbBy = "go" /\ rbPub[m] = "new"
    /\ \A x \in RbMsg : rbPub[x] \notin {"first", "second"}
    /\ rbPub' = [rbPub EXCEPT ![m] = "first"]
    /\ \/ RbFault /\ rbStale' = FALSE
       \/ UNCHANGED <<rbStale, rbFaults>>
    /\ UNCHANGED <<rbCopies, rbBreaker, rbMisread>>

\* A publication is stored and confirmed, stored without a confirm, or not stored.
Unconfirmed(m) ==
    /\ RbFault
    /\ rbCopies' = Enqueued(rbCopies, m, 0) \/ UNCHANGED rbCopies

\* publishOnce takes the first confirmation it reads, whatever its delivery tag.
\* A late one that an earlier call did not wait for comes first: the event then
\* counts as published whether or not it is stored, and its own confirmation,
\* when there is one, is left for the next call.  After a failure Publish
\* closes the channel and tries once more on a new one; the confirmation of
\* the second attempt may still come after that one has failed.
PublishOnce(m) ==
    /\ rbBy = "go" /\ rbPub[m] \in {"first", "second"}
    /\ \/ /\ rbCopies' = Enqueued(rbCopies, m, 0)
          /\ rbPub' = [rbPub EXCEPT ![m] = "ok"]
          /\ UNCHANGED <<rbStale, rbMisread, rbFaults>>
       \/ /\ rbStale /\ Unconfirmed(m)
          /\ rbPub' = [rbPub EXCEPT ![m] = "ok"]
          /\ rbStale' = FALSE
          /\ rbMisread' = IF rbCopies' = rbCopies THEN rbMisread \cup {m} ELSE rbMisread
       \/ /\ Unconfirmed(m) /\ rbPub[m] = "first"
          /\ rbPub' = [rbPub EXCEPT ![m] = "second"]
          /\ rbStale' = FALSE /\ UNCHANGED rbMisread
       \/ /\ Unconfirmed(m) /\ rbPub[m] = "second"
          /\ rbPub' = [rbPub EXCEPT ![m] = "failed"]
          /\ rbStale' \in {FALSE, rbCopies' # rbCopies} /\ UNCHANGED rbMisread
    /\ UNCHANGED rbBreaker

\* publish of the TypeScript service, behind the breaker.
PublishTs(m) ==
    /\ rbBy = "ts" /\ rbPub[m] = "second"
    /\ \/ /\ rbCopies' = Enqueued(rbCopies, m, 0)
          /\ rbPub' = [rbPub EXCEPT ![m] = "ok"]
          /\ RecordSuccess /\ UNCHANGED rbFaults
       \/ /\ Unconfirmed(m)
          /\ rbPub' = [rbPub EXCEPT ![m] = "failed"]
          /\ RecordFailure
    /\ UNCHANGED <<rbStale, rbMisread>>

-----------------------------------------------------------------------------
(* Consuming *)

\* The broker delivers a copy: a Go consumer handles one at a time in its loop.
RbDeliver(c) ==
    \E k \in DOMAIN rbCopies :
        /\ rbChan[c] = "open" /\ rbHold[c] = RbNothing /\ rbCopies[k].at = "queue"
        /\ rbCopies' = [rbCopies EXCEPT ![k].at = "unacked"]
        /\ rbHold' = [rbHold EXCEPT ![c] = [copy |-> k, pc |-> "got", live |-> TRUE]]
        /\ UNCHANGED <<rbChan, rbHandled, rbFailures, rbFaults>>

\* Mutant: a copy that is rejected for good is just dropped, as in a queue without DLX.
SettleDrops(c, at) ==
    /\ rbCopies' = IF rbHold[c].live
                   THEN [rbCopies EXCEPT ![rbHold[c].copy].at = IF at = "dead" THEN "done" ELSE at]
                   ELSE rbCopies
    /\ rbHold' = [rbHold EXCEPT ![c] = RbNothing]

\* Ack, nack with requeue, nack to the dead letters: without effect once the channel is closed.
Settle(c, at) ==
    /\ rbCopies' = IF rbHold[c].live THEN [rbCopies EXCEPT ![rbHold[c].copy].at = at] ELSE rbCopies
    /\ rbHold' = [rbHold EXCEPT ![c] = RbNothing]

\* DefaultQueueArguments: a rejected message goes to the dead letter exchange of its queue.
DeadLetter(c) == Settle(c, "dead")

\* headerRetryCount: the attempts made before this copy was published.
HeaderRetryCount(c) == rbCopies[rbHold[c].copy].tries

HeldMsg(c) == rbCopies[rbHold[c].copy].msg

\* The envelope is parsed and the handler is called once.
HandlerOutcome(c) ==
    /\ rbHold[c].pc = "got"
    /\ \/ /\ HeldMsg(c) \in RbPoison
          /\ DeadLetter(c)
          /\ UNCHANGED <<rbHandled, rbFailures, rbFaults>>
       \/ /\ HeldMsg(c) \notin RbPoison
          /\ rbHandled' = rbHandled \cup {HeldMsg(c)}
          /\ rbHold' = [rbHold EXCEPT ![c].pc = "ack"]
          /\ UNCHANGED <<rbCopies, rbFailures, rbFaults>>
       \/ /\ HeldMsg(c) \notin RbPoison /\ RbFault
          /\ rbFailures' = [rbFailures EXCEPT ![HeldMsg(c)] = @ + 1]
          /\ rbHold' = [rbHold EXCEPT ![c].pc = "failed"]
          /\ UNCHANGED <<rbCopies, rbHandled>>
    /\ UNCHANGED rbChan

HandleDelivery(c) == c \in RbGo /\ HandlerOutcome(c)

OnMessage(c) == c \in RbTs /\ HandlerOutcome(c)

RbAck(c) ==
    /\ rbHold[c].pc = "ack"
    /\ Settle(c, "done")
    /\ UNCHANGED <<rbChan, rbHandled, rbFailures, rbFaults>>

\* A copy with a higher retry count is published to the queue; the failed one
\* is acknowledged after it.
Republish(c) ==
    /\ rbHold[c].live
    /\ rbCopies' = Enqueued(rbCopies, HeldMsg(c), HeaderRetryCount(c) + 1)
    /\ rbHold' = [rbHold EXCEPT ![c].pc = "ack"]
    /\ UNCHANGED rbFaults

\* The publication fails: nack with requeue.
RequeueFailed(c) ==
    /\ IF rbHold[c].live THEN RbFault ELSE UNCHANGED rbFaults
    /\ Settle(c, "queue")

\* Mutant: the last retry is never made.
OnFailureShort(c) ==
    /\ rbHold[c].pc = "failed"
    /\ \/ HeaderRetryCount(c) + 1 < RbMaxRetries /\ (Republish(c) \/ RequeueFailed(c))
       \/ HeaderRetryCount(c) + 1 >= RbMaxRetries /\ DeadLetter(c) /\ UNCHANGED rbFaults
    /\ UNCHANGED <<rbChan, rbHandled, rbFailures>>

\* After the delay: published again while retries are left, dead otherwise.
OnFailure(c) ==
    /\ rbHold[c].pc = "failed"
    /\ \/ HeaderRetryCount(c) < RbMaxRetries /\ (Republish(c) \/ RequeueFailed(c))
       \/ HeaderRetryCount(c) >= RbMaxRetries /\ DeadLetter(c) /\ UNCHANGED rbFaults
    /\ UNCHANGED <<rbChan, rbHandled, rbFailures>>

\* The channel closes: the broker requeues what is unacknowledged, and the
\* handler that is running does not notice.
ChannelLoss(c) ==
    /\ rbChan[c] = "open" /\ RbFault
    /\ rbChan' = [rbChan EXCEPT ![c] = "closed"]
    /\ rbCopies' = IF rbHold[c] # RbNothing /\ rbHold[c].live
                   THEN [rbCopies EXCEPT ![rbHold[c].copy].at = "queue"] ELSE rbCopies
    /\ rbHold' = IF rbHold[c] = RbNothing THEN rbHold ELSE [rbHold EXCEPT ![c].live = FALSE]
    /\ UNCHANGED <<rbHandled, rbFailures>>

\* Consumer.Run opens the channel, and opens it again whenever it has closed.
RunConsumer(c) ==
    /\ c \in RbGo /\ rbChan[c] # "open" /\ rbHold[c] = RbNothing
    /\ rbChan' = [rbChan EXCEPT ![c] = "open"]
    /\ UNCHANGED <<rbCopies, rbHold, rbHandled, rbFailures, rbFaults>>

\* The TypeScript consumer starts, once, when its module is initialised: it
\* tries again until it has a channel, and not after it has lost that one.
StartWithRetry(c) ==
    /\ c \in RbTs /\ rbChan[c] = "none"
    /\ rbChan' = [rbChan EXCEPT ![c] = "open"]
    /\ UNCHANGED <<rbCopies, rbHold, rbHandled, rbFailures, rbFaults>>

-----------------------------------------------------------------------------
RbPublisherStep ==
    /\ \E m \in RbMsg : GuardCircuitBreaker(m) \/ PublishGo(m) \/ PublishOnce(m) \/ PublishTs(m)
    /\ UNCHANGED <<rbBy, rbHold, rbChan, rbHandled, rbFailures>>

RbConsumerStep(c) ==
    /\ RbDeliver(c) \/ HandleDelivery(c) \/ OnMessage(c) \/ RbAck(c) \/ OnFailure(c) \/ RunConsumer(c) \/ StartWithRetry(c)
    /\ UNCHANGED <<rbBy, rbPub, rbBreaker, rbStale, rbMisread>>

RbNext ==
    \/ RbPublisherStep
    \/ \E c \in RbConsumer : RbConsumerStep(c)
    \/ \E c \in RbConsumer : ChannelLoss(c) /\ UNCHANGED <<rbBy, rbPub, rbBreaker, rbStale, rbMisread>>

RbSpec == RbInit /\ [][RbNext]_rbVars

-----------------------------------------------------------------------------
(* Properties *)

\* Publications, copies, consumers and their channels are well formed.
RbTypeOK ==
    /\ rbPub \in [RbMsg -> {"new", "first", "second", "ok", "failed"}]
    /\ \A k \in DOMAIN rbCopies :
        /\ rbCopies[k].msg \in RbMsg /\ rbCopies[k].tries \in 0..RbMaxRetries
        /\ rbCopies[k].at \in {"queue", "unacked", "done", "dead"}
    /\ \A c \in RbConsumer : rbHold[c].pc \in {"idle", "got", "failed", "ack"}
    /\ rbChan \in [RbConsumer -> {"none", "open", "closed"}] /\ rbHandled \subseteq RbMsg
    /\ rbStale \in BOOLEAN /\ rbMisread \subseteq RbMsg

\* A publication that succeeded is never lost, however often channels close
\* between a republication and its ack: until its handler has succeeded, a copy
\* of it is in the queue, with a consumer or with the dead letters.  The
\* exception is a success that publishOnce reads from the confirmation of an
\* earlier, failed publication: there are never more of those than failures.
RbConfirmedIsKept ==
    /\ \A m \in RbMsg : rbPub[m] = "ok" =>
        \/ m \in rbHandled
        \/ \E k \in DOMAIN rbCopies : rbCopies[k].msg = m /\ rbCopies[k].at # "done"
        \/ m \in rbMisread
    /\ Cardinality(rbMisread) <= Cardinality({m \in RbMsg : rbPub[m] = "failed"})

\* A copy is dead only after every retry: its event has failed once for the
\* copy itself and once for each attempt before it (or it could not be parsed).
RbDeadWasRetried ==
    \A k \in DOMAIN rbCopies : rbCopies[k].at = "dead" =>
        \/ rbCopies[k].msg \in RbPoison
        \/ rbFailures[rbCopies[k].msg] > RbMaxRetries

=============================================================================
