------------------------- MODULE AnalyticsIngestion -------------------------
(* The ingestion of events by analytics-service.  One goroutine reads each  *)
(* topic, takes an event through the pipeline and commits its offset; the   *)
(* rows of an event wait in the memory of the BatchWriter until a flush     *)
(* writes them to ClickHouse table by table and then marks their events as  *)
(* processed.  The readers, the ticker of the writer, the final flush of a  *)
(* shutdown, a crash and the queries of the dashboards interleave.          *)
EXTENDS Integers, Sequences, FiniteSets, SequencesExt

CONSTANTS AnTopic,      \* the topics of AnalyticsTopics
          AnRuns,       \* [log, query, faults]: what the topics hold, the query whose cached
                        \* answer is followed, and how many calls may fail or processes end
          AnMaxRows,    \* BATCH_SIZE
          AnMaxRetries  \* MAX_RETRY_ATTEMPTS

VARIABLES anLog,        \* the messages of every topic; a redelivered event is there twice
          anCommitted,  \* Kafka: the committed offset of the consumer group
          anReader,     \* consumeLoop of every topic: [pc, pos, tries]
          anPending,    \* BatchWriter.pending
          anFlush,      \* flushLocked under way, which holds BatchWriter.mu: [by, batch, table]
          anRows,       \* ClickHouse: how often each event is in each table
          anSeen,       \* ClickHouse: analytics_processed_events
          anDead,       \* the dead letter topic
          anCache,      \* Redis: the key of one query: [query, answer], {} when it is absent
          anUp,         \* "up", "stopping" after the signal, "stopped" after the final flush
          anLost,       \* history: events that went with the process or with a failed DLQ write
          anFaults      \* faults left

AnQueries == {"platformOverview", "deliveryAnalytics", "driverAnalytics", "paymentAnalytics"}

\* Every topic is a sequence of messages, and an identifier stands for one event.
ASSUME AnAssumption ==
    /\ IsFiniteSet(AnTopic) /\ AnTopic \cap {"none", "ticker", "stop"} = {}
    /\ AnMaxRetries \in Nat
    /\ \A run \in AnRuns :
          /\ run.log = [t \in AnTopic |-> run.log[t]] /\ run.query \in AnQueries
          /\ \A t \in AnTopic : run.log[t] \in Seq(ToSet(run.log[t]))
          /\ \A t, u \in AnTopic : \A x \in ToSet(run.log[t]), y \in ToSet(run.log[u]) :
                x.id = y.id => x = y

anVars == <<anLog, anCommitted, anReader, anPending, anFlush, anRows, anSeen, anDead,
            anCache, anUp, anLost, anFaults>>

-----------------------------------------------------------------------------
(* The pipeline.  A message is [id, type, form]: the form says where it     *)
(* fails, "ok", "unordered" (its times contradict each other), "invalid"    *)
(* (a fact its handler refuses) or "malformed" (envelope or schema).        *)

\* Mutant: the raw landing zone is written last.
AnTablesRawLast == <<"fact_delivery_events", "fact_delivery_completed",
                     "fact_driver_assignments", "fact_payment_transactions",
                     "fact_notification_events", "analytics_data_quality_issues", "raw_events">>

AnTables == <<"raw_events", "fact_delivery_events", "fact_delivery_completed",
              "fact_driver_assignments", "fact_payment_transactions",
              "fact_notification_events", "analytics_data_quality_issues">>

AnTable == {AnTables[i] : i \in DOMAIN AnTables}

DeliveryEvents == {"delivery.created", "delivery.completed", "delivery.cancelled",
                   "delivery.deleted"}
DriverEvents == {"driver.available", "driver.assignment.offered", "driver.assignment.accepted"}
PaymentEvents == {"payment.captured", "payment.refunded"}
NotificationEvents == {"notification.sent"}

DecodeEnvelope(m) == m.form # "malformed"
AnEventType == DeliveryEvents \cup DriverEvents \cup PaymentEvents \cup NotificationEvents
ValidateSchema(m) == m.type \in AnEventType
FactValid(m) == m.form # "invalid"

\* MergeTimeline is given no earlier timeline, so a row only has the times of its own event.
TimelineTable(m) ==
    IF m.form = "unordered" THEN "analytics_data_quality_issues" ELSE "fact_delivery_completed"

DeliveryHandle(m) ==
    IF m.type = "delivery.deleted" THEN {} ELSE {"fact_delivery_events", TimelineTable(m)}
DriverHandle(m) ==
    IF m.type = "driver.available" THEN {} ELSE {"fact_driver_assignments"}
PaymentHandle(m) == {"fact_payment_transactions"}
NotificationHandle(m) == {"fact_notification_events"}

\* Router.Route and the handler: the tables the event has a row for.
Route(m) == {"raw_events"} \cup
    CASE m.type \in DeliveryEvents -> DeliveryHandle(m)
      [] m.type \in DriverEvents -> DriverHandle(m)
      [] m.type \in PaymentEvents -> PaymentHandle(m)
      [] m.type \in NotificationEvents -> NotificationHandle(m)

Permanent(m) == ~DecodeEnvelope(m) \/ ~ValidateSchema(m)

RowCount(batch) == FoldSeq(LAMBDA m, n : n + Cardinality(Route(m)), 0, batch)

-----------------------------------------------------------------------------
(* State *)

NoFlush == [by |-> "none", batch |-> <<>>, table |-> 0]

AnIds == {m.id : m \in UNION {ToSet(anLog[t]) : t \in AnTopic}}
AnAt(t) == anLog[t][anReader[t].pos]
AnIdle(pos) == [pc |-> "fetch", pos |-> pos, tries |-> 0]
AnInMemory == {m.id : m \in ToSet(anPending) \cup ToSet(anFlush.batch)}
AnPassed == UNION {{anLog[t][i].id : i \in 1..anCommitted[t]} : t \in AnTopic}

AnInit ==
    /\ \E run \in AnRuns :
        /\ anLog = run.log /\ anFaults = run.faults
        /\ anCache = [query |-> run.query, answer |-> {}]
    /\ anCommitted = [t \in AnTopic |-> 0]
    /\ anReader = [t \in AnTopic |-> AnIdle(1)]
    /\ anPending = <<>>
    /\ anFlush = NoFlush
    /\ anRows = [w \in AnTable |-> [e \in AnIds |-> 0]]
    /\ anSeen = {} /\ anDead = {} /\ anLost = {}
    /\ anUp = "up"

AnFault == anFaults > 0 /\ anFaults' = anFaults - 1
AnGoTo(t, pc) == anReader' = [anReader EXCEPT ![t].pc = pc]

\* processWithRetry: the handler is called again until the retries are used up.
AnRetry(t) ==
    anReader' = [anReader EXCEPT ![t].tries = @ + 1,
        ![t].pc = IF anReader[t].tries < AnMaxRetries THEN "process" ELSE "dlq"]

-----------------------------------------------------------------------------
(* The reader of a topic *)

\* FetchMessage.
AnFetch(t) ==
    /\ anReader[t].pc = "fetch" /\ anReader[t].pos <= Len(anLog[t])
    /\ AnGoTo(t, "process")
    /\ UNCHANGED <<anCommitted, anPending, anFlush, anRows, anSeen, anDead, anLost, anFaults>>

\* Pipeline.Process up to the handler: a permanent error goes to the dead
\* letters at once, an error of the idempotency store is retried.
AnProcess(t) ==
    /\ anReader[t].pc = "process"
    /\ \/ /\ Permanent(AnAt(t)) /\ AnGoTo(t, "dlq") /\ UNCHANGED anFaults
       \/ /\ ~Permanent(AnAt(t)) /\ AnFault /\ AnRetry(t)
       \/ /\ ~Permanent(AnAt(t)) /\ AnAt(t).id \in anSeen
          /\ AnGoTo(t, "commit") /\ UNCHANGED anFaults
       \/ /\ ~Permanent(AnAt(t)) /\ AnAt(t).id \notin anSeen
          /\ AnGoTo(t, IF FactValid(AnAt(t)) THEN "add" ELSE "dlq") /\ UNCHANGED anFaults
    /\ UNCHANGED <<anCommitted, anPending, anFlush, anRows, anSeen, anDead, anLost>>

\* BatchWriter.Add under the lock: buffer the batch, and flush when the row budget is reached.
AnAdd(t) ==
    LET pending == Append(anPending, AnAt(t)) IN
    /\ anReader[t].pc = "add" /\ anFlush = NoFlush
    /\ IF RowCount(pending) < AnMaxRows
       THEN anPending' = pending /\ AnGoTo(t, "commit") /\ UNCHANGED anFlush
       ELSE /\ anPending' = <<>>
            /\ anFlush' = [by |-> t, batch |-> pending, table |-> 1]
            /\ AnGoTo(t, "flush")
    /\ UNCHANGED <<anCommitted, anRows, anSeen, anDead, anLost, anFaults>>

\* routeToDLQ: a failed publication is only logged.
AnRouteToDLQ(t) ==
    /\ anReader[t].pc = "dlq"
    /\ \/ anDead' = anDead \cup {AnAt(t).id} /\ UNCHANGED <<anLost, anFaults>>
       \/ AnFault /\ anLost' = anLost \cup {AnAt(t).id} /\ UNCHANGED anDead
    /\ AnGoTo(t, "commit")
    /\ UNCHANGED <<anCommitted, anPending, anFlush, anRows, anSeen>>

\* CommitMessages: a failed commit is only logged, and the reader goes on.
AnCommit(t) ==
    /\ anReader[t].pc = "commit"
    /\ \/ anCommitted' = [anCommitted EXCEPT ![t] = anReader[t].pos] /\ UNCHANGED anFaults
       \/ AnFault /\ UNCHANGED anCommitted
    /\ anReader' = [anReader EXCEPT ![t] = AnIdle(anReader[t].pos + 1)]
    /\ UNCHANGED <<anPending, anFlush, anRows, anSeen, anDead, anLost>>

-----------------------------------------------------------------------------
(* flushLocked *)

\* Start: the ticker's Flush, and Stop: the flush of what remains.
AnTick ==
    /\ anFlush = NoFlush /\ anPending # <<>> /\ anUp # "stopped"
    /\ anFlush' = [by |-> IF anUp = "up" THEN "ticker" ELSE "stop",
                   batch |-> anPending, table |-> 1]
    /\ anPending' = <<>>
    /\ UNCHANGED <<anCommitted, anReader, anRows, anSeen, anDead, anUp, anLost, anFaults>>

\* A flush returns to Add, to the ticker or to Stop; a shutdown cancels the context of Add.
AnReturn(ok) ==
    /\ anUp' = IF anFlush.by = "stop" THEN "stopped" ELSE anUp
    /\ IF anFlush.by \notin AnTopic THEN UNCHANGED anReader
       ELSE IF ok THEN AnGoTo(anFlush.by, "commit") ELSE AnRetry(anFlush.by)
AnCancelled == anUp = "stopping" /\ anFlush.by \in AnTopic

\* Mutant: the loop over the tables ends one table early.
NextTableShort(batch, from) ==
    LET rest == {i \in from..Len(AnTables) - 1 : \E m \in ToSet(batch) : AnTables[i] \in Route(m)}
    IN IF rest = {} THEN Len(AnTables) + 1 ELSE Min(rest)

\* The next table some event of the batch has a row for; the others are no calls.
NextTable(batch, from) ==
    LET rest == {i \in from..Len(AnTables) : \E m \in ToSet(batch) : AnTables[i] \in Route(m)}
    IN IF rest = {} THEN Len(AnTables) + 1 ELSE Min(rest)

\* What the rows of a batch add to a table; execBatch writes them in one transaction.
ExecBatch(rows, w, batch) ==
    [rows EXCEPT ![w] = [e \in DOMAIN @ |->
        @[e] + Cardinality({i \in DOMAIN batch : batch[i].id = e /\ w \in Route(batch[i])})]]

\* Mutant: the batch of a failed flush is not put back.
RequeueNothing(batch) == anPending

Requeue(batch) == batch \o anPending

\* writeTables: the next table; an error requeues the whole batch.
AnWriteTable ==
    /\ anFlush.table \in DOMAIN AnTables
    /\ \/ /\ ~AnCancelled
          /\ anRows' = ExecBatch(anRows, AnTables[anFlush.table], anFlush.batch)
          /\ anFlush' = [anFlush EXCEPT !.table = NextTable(anFlush.batch, @ + 1)]
          /\ UNCHANGED <<anPending, anReader, anUp, anLost, anFaults>>
       \/ /\ IF AnCancelled THEN UNCHANGED anFaults ELSE AnFault
          /\ anPending' = Requeue(anFlush.batch)
          /\ anFlush' = NoFlush
          /\ AnReturn(FALSE)
          /\ UNCHANGED <<anRows, anLost>>
    /\ UNCHANGED <<anCommitted, anSeen, anDead>>

\* store.Save of the next event of the batch; an error leaves the rest of the batch unmarked.
AnSave ==
    /\ anFlush.table > Len(AnTables) /\ anFlush.batch # <<>>
    /\ \/ /\ ~AnCancelled
          /\ anSeen' = anSeen \cup {Head(anFlush.batch).id}
          /\ anFlush' = [anFlush EXCEPT !.batch = Tail(@)]
          /\ UNCHANGED <<anReader, anUp, anFaults>>
       \/ /\ IF AnCancelled THEN UNCHANGED anFaults ELSE AnFault
          /\ anFlush' = NoFlush
          /\ AnReturn(FALSE)
          /\ UNCHANGED anSeen
    /\ UNCHANGED <<anCommitted, anPending, anRows, anDead, anLost>>

AnFlushed ==
    /\ anFlush.table > Len(AnTables) /\ anFlush.batch = <<>>
    /\ anFlush' = NoFlush
    /\ AnReturn(TRUE)
    /\ UNCHANGED <<anCommitted, anPending, anRows, anSeen, anDead, anLost, anFaults>>

-----------------------------------------------------------------------------
(* The end of the process and its restart *)

\* What was in memory is gone, and every reader resumes after its committed offset.
AnRestart ==
    /\ anLost' = anLost \cup (AnInMemory \cap AnPassed)
    /\ anPending' = <<>> /\ anFlush' = NoFlush
    /\ anReader' = [t \in AnTopic |-> AnIdle(anCommitted[t] + 1)]
    /\ anUp' = "up"

AnCrash ==
    /\ AnFault /\ AnRestart
    /\ UNCHANGED <<anCommitted, anRows, anSeen, anDead>>

\* stopIngest cancels the readers' context: none of their calls has an effect any more.
AnShutdown ==
    /\ anUp = "up" /\ AnFault
    /\ anUp' = "stopping"
    /\ UNCHANGED <<anCommitted, anReader, anPending, anFlush, anRows, anSeen, anDead, anLost>>

\* main returns once BatchWriter.Stop has flushed, or has failed to.
AnExit ==
    /\ anFlush = NoFlush
    /\ anUp = "stopped" \/ (anUp = "stopping" /\ anPending = <<>>)
    /\ AnRestart
    /\ UNCHANGED <<anCommitted, anRows, anSeen, anDead, anFaults>>

-----------------------------------------------------------------------------
(* The queries.  An answer is the set of the counts it reports. *)

AnCount(w, types) ==
    LET ids == {m.id : m \in {x \in UNION {ToSet(anLog[t]) : t \in AnTopic} : x.type \in types}}
    IN MapThenSumSet(LAMBDA e : anRows[w][e], ids)

PlatformOverview ==
    {<<"total", AnCount("fact_delivery_events", {"delivery.created"})>>,
     <<"completed", AnCount("fact_delivery_events", {"delivery.completed"})>>,
     <<"cancelled", AnCount("fact_delivery_events", {"delivery.cancelled"})>>,
     <<"captured", AnCount("fact_payment_transactions", {"payment.captured"})>>,
     <<"refunded", AnCount("fact_payment_transactions", {"payment.refunded"})>>}
DeliveryAnalytics ==
    {<<"total", AnCount("fact_delivery_events", {"delivery.created"})>>,
     <<"completed", AnCount("fact_delivery_events", {"delivery.completed"})>>}
DriverAnalytics ==
    {<<"offers", AnCount("fact_driver_assignments", DriverEvents)>>,
     <<"accepted", AnCount("fact_driver_assignments", {"driver.assignment.accepted"})>>}
PaymentAnalytics ==
    {<<"captures", AnCount("fact_payment_transactions", {"payment.captured"})>>,
     <<"refunds", AnCount("fact_payment_transactions", {"payment.refunded"})>>}

AnAnswer(q) == CASE q = "platformOverview" -> PlatformOverview
                 [] q = "deliveryAnalytics" -> DeliveryAnalytics
                 [] q = "driverAnalytics" -> DriverAnalytics
                 [] q = "paymentAnalytics" -> PaymentAnalytics

\* fetchCached: a hit answers from Redis, a miss loads and stores.
FetchCached ==
    /\ anCache.answer = {}
    /\ anCache' = [anCache EXCEPT !.answer = AnAnswer(anCache.query)]

CacheExpires == anCache.answer # {} /\ anCache' = [anCache EXCEPT !.answer = {}]

\* The counts the reconciliation compares: the rows of two tables, whatever their types.
CountRawEvents == AnCount("raw_events", AnEventType)
CountFactDeliveryEvents == AnCount("fact_delivery_events", AnEventType)

-----------------------------------------------------------------------------
(* Next *)

AnReaderStep(t) ==
    /\ anUp = "up" /\ UNCHANGED <<anUp, anCache, anLog>>
    /\ AnFetch(t) \/ AnProcess(t) \/ AnAdd(t) \/ AnRouteToDLQ(t) \/ AnCommit(t)

AnWriterStep ==
    /\ UNCHANGED <<anCache, anLog>>
    /\ AnTick \/ AnWriteTable \/ AnSave \/ AnFlushed

AnProcessStep == UNCHANGED <<anCache, anLog>> /\ (AnCrash \/ AnShutdown \/ AnExit)

AnQueryStep ==
    /\ FetchCached \/ CacheExpires
    /\ UNCHANGED <<anLog, anCommitted, anReader, anPending, anFlush, anRows, anSeen, anDead,
                   anUp, anLost, anFaults>>

AnNext == (\E t \in AnTopic : AnReaderStep(t)) \/ AnWriterStep \/ AnProcessStep \/ AnQueryStep

AnSpec == AnInit /\ [][AnNext]_anVars

-----------------------------------------------------------------------------
(* Properties *)

\* Readers, the writer and the marks are well formed; a reader waits for a flush exactly while the flush is its own.
AnTypeOK ==
    /\ anCommitted \in [AnTopic -> Nat]
    /\ \A t \in AnTopic :
        /\ anReader[t].pc \in {"fetch", "process", "add", "flush", "dlq", "commit"}
        /\ anReader[t].pos \in 1..Len(anLog[t]) + 1 /\ anReader[t].tries \in 0..AnMaxRetries + 1
        /\ anReader[t].pc = "flush" <=> anFlush.by = t
    /\ anFlush.by \in AnTopic \cup {"none", "ticker", "stop"}
    /\ anFlush.table \in 0..Len(AnTables) + 1
    /\ anSeen \cup anDead \cup anLost \subseteq AnIds
    /\ anUp \in {"up", "stopping", "stopped"}

\* An event is marked as processed only when every row its handler made for
\* it is in ClickHouse: a redelivery that the mark suppresses has nothing
\* left to write, whatever failed or crashed in between.
AnSeenIsStored ==
    \A t \in AnTopic : \A m \in ToSet(anLog[t]) :
        m.id \in anSeen => \A w \in Route(m) : anRows[w][m.id] > 0

\* A fact never outnumbers the raw event it was made from, at any moment of
\* a flush or of its repetition, so the two tables whose rows the reconciliation
\* counts are never out of order (it counts them in two statements, and a flush
\* between the two can still make its coverage ratio exceed 1), and what a
\* dashboard has cached is never ahead of the tables.
AnFactsAreTraceable ==
    /\ \A w \in AnTable : \A e \in AnIds : anRows[w][e] <= anRows["raw_events"][e]
    /\ CountFactDeliveryEvents <= CountRawEvents
    /\ \A c \in anCache.answer : \A d \in AnAnswer(anCache.query) : c[1] = d[1] => c[2] <= d[2]

\* An event whose offset is committed has all its rows, or waits in memory
\* for a flush, or is a dead letter; the only ones missing are those that
\* were in memory when the process ended or whose dead letter failed.
AnAccounted ==
    \A t \in AnTopic : \A i \in 1..anCommitted[t] :
        LET m == anLog[t][i] IN
        \/ m.id \in AnInMemory \cup anDead \cup anLost
        \/ DecodeEnvelope(m) /\ ValidateSchema(m) /\ \A w \in Route(m) : anRows[w][m.id] > 0

=============================================================================
