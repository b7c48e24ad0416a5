# TLA+ models of the realtime delivery services

This directory models the services under `src/services` in TLA+, checks the
models with TLC on small instances and proves the most important facts with
TLAPS for instances of any size.

Definitions keep the names of the source where they can. Which lines of the
source a definition stands for is recorded in `PROJECT.json` under `map`;
what can go wrong in the code and which property would notice is listed there
under `hazards`.

## 1. The system

Ten services exchange events over Kafka, RabbitMQ and NATS and call each other
over gRPC. A customer creates a delivery at delivery-service (GraphQL). Its
saga asks payment-service for a payment. Once the money is authorized, or a
checkout link was paid, `delivery.created` goes through the outbox to Kafka.
driver-service reads it, reserves a driver and offers the delivery. The
driver's answer comes back over Kafka and moves the delivery along its state
machine. The other services watch these events.

| component | state it keeps | operations | talks to | what is hard | what makes it correct |
|---|---|---|---|---|---|
| delivery-service: lifecycle | delivery row, status history | createDelivery, transition, acceptDriver, cancel, updatePaymentStatus, redispatch, timeout | payment (gRPC), driver (gRPC, Kafka), outbox | read, change, save without transaction from five kinds of process; a timer in memory; calls that nobody awaits | the row follows the state machine; history and events match it; searches end; money is settled |
| delivery-service: outbox | rows of outbox_events | createEvent, claimPending, markPublished, markFailed | Kafka | replicas that poll the same table; crashes between claim, send and mark | one sender per row; published means sent; duplicates only after failures |
| delivery-service: idempotency | Redis key and lock | execute | the commands above | a lock whose TTL is shorter than the work | one execution per key |
| driver-service: dispatch | driver and assignment documents, Redis lock | ReserveDriver, Accept/Reject, ReleaseDriver, edits, expiry worker, reconciliation worker | Kafka in and out | whole documents are replaced without a version; workers that do not take the lock | one active assignment per driver; stuck drivers, overdue offers and locks come free |
| payment-service: payments | payment, attempt and refund rows with versions | CreatePayment, CapturePayment, AuthorizePayment, CancelAuthorization, CreateRefund, webhook | Stripe, outbox | a provider that answers late or never; a webhook that races the API | refunds never exceed the amount; a version is written once; a paid checkout is recorded |
| driver-service: profiles | driver documents, reviews, roles in user-service | register, rate, block, search, reads | user-service (gRPC), Redis GEO, MongoDB | two services written one after the other; ratings recomputed from racing reviews | a profile has its role; a rating is an average of real reviews |
| payment-service: operations | outbox rows, attempts, intents at Stripe | startup, publish loop, cleanup, stuck recovery, reconciliation, reads | Kafka, Stripe, PostgreSQL | SKIP LOCKED without a transaction; replicas that start together; answers of Stripe that get lost | no event is lost; a SUCCEEDED attempt is backed by an intent; pages leave no hole |
| notification-service | notifications with a delivery per channel, inbox, jobs, outbox | consumers, channel workers, retry and expiry sweeps, outbox worker, reads | Kafka, RabbitMQ, BullMQ, NATS | rows read and written back around awaits; job ids that repeat; overlapping sweeps | SENT means sent on every channel; a delivery without a job was left so by an error, a restart or a refused retry |
| user-service | users, sessions, outbox | register, login, refresh, outbox queue and reconciliation | Kafka, Redis | queue and reconciliation race for one row | a session ends when it is revoked |
| media-service | media and session rows, S3 objects, quota, outbox, open sockets, dead letters | create, complete, abort, delete, scan, process, publish, reconcile; WebSocket hub; reads and replay | DynamoDB, S3, Redis, Kafka, NATS | two publishers, redelivery, workers that die, locks that expire; a map read after the unlock | an infected file that ClamAV has seen in full is never processed; statuses follow the table; the hub knows exactly the live sockets |
| analytics-service | pending batch, ClickHouse tables, processed events, cached answers | ingest, flush, requeue, dead letter, query, reconcile, stop | Kafka, ClickHouse, Redis, GraphQL, gRPC | partial writes, offsets committed before rows are stored, pages over a growing table | marked means stored; a committed event is accounted for; an answer is to the question asked |
| realtime-service | sockets per node; connections, presence, subscriptions, claims in Redis | connect, disconnect, heartbeat, subscribe, location, command, Kafka handlers, NATS fan-out | Kafka, NATS, Redis, gRPC | awaits inside registration and cleanup, nodes that crash, Redis that fails | a live socket is reachable; an event is shown once and only to its parties |
| search-service | documents, indices and aliases, cached pages | index, delete, search, nearby, startup, reindex | Kafka, RabbitMQ, OpenSearch | events late, twice and out of order; replicas that create the same index | the newest version wins; an answer is true of what has not changed; a ready replica is served by mapped indices |
| packages/go, packages/ts | unacknowledged copies, breaker, limiter windows, id sequence, connection | publish, consume, retry, limit, next id, open channel, authenticate | RabbitMQ, Redis | lost confirms, channels that close, clocks, goroutines in back-off | a message whose own confirmation came is kept; the limit holds; ids increase |
| api-gateway, media-frontend, infrastructure | none of their own | | | | |

## 2. Modules

| module | models | state and actions |
|---|---|---|
| `EventRelay` | what any outbox promises its readers (abstract) | `stage` and `sent` per event; Record, Send, Close, Reopen |
| `DeliveryOutbox` | `delivery-service/.../outbox/*` | `status`, `due`: the row; `sent`: copies on the topic; `pc`, `found`, `claimed`, `cur`: `publishBatch` of each replica. One action per awaited call and one per way it can fail |
| `DriverDispatch` | `driver-service`: dispatch service, repositories, lock manager, both workers, consumer, resolvers | `doc`, `asg`, `late`: MongoDB; `lock`: Redis; `job`: the handlers; `exp`, `rec`: the workers; `published`: Kafka. One action per database call |
| `DriverDispatchProofs` | theorems about `DriverDispatch` | see section 5 |
| `DeliveryLifecycle` | `delivery-service`: command service, state machine, saga, scheduler, timer, consumer | `row`, `hist`, `outbox`: PostgreSQL; `proc`: the list of commands each process has left and the copy of the row it holds; `payment`, `calls`: the other side of the gRPC calls |
| `DeliveryProofs` | theorems about `DeliveryOutbox` and `DeliveryLifecycle` | see section 5 |
| `Payment` | `payment-service`: payment service, domain, repositories, webhook, stuck recovery | `row`, `attempt`, `refund`, `outbox`, `processed`: PostgreSQL; `job`, `hook`: the handlers with the copy of the row each holds; `returned`: what Stripe has paid back. One action per call to PostgreSQL or Stripe |
| `PaymentProofs` | theorems about `Payment` | see section 5 |
| `PaymentOperations` | `payment-service`: db, Stripe adapter, outbox publisher, pool and workers, GraphQL and gRPC reads | `poPay`, `poAtt`, `poOut`: PostgreSQL; `poIntent`: Stripe; `poBoot`, `poPub`, `poRec`: what each replica is doing |
| `DriverProfile` | `driver-service`: registration, reviews, candidate search, reads | `dpDoc`, `dpRev`: MongoDB; `dpRole`: user-service; `dpJob`: handlers; `dpMemo`: DriverLoader |
| `MediaService` | `media-service`: upload and delete requests, outbox, consumers with their pools, reconciliation | `status`, `session`, `versions`, `outbox`, `quota`: DynamoDB; `files`, `multipart`: S3; `lock`, `keys`: Redis; `queue`: Kafka; `job`, `task`, `relay`, `sweep`: the processes |
| `MediaHub` | `media-service/internal/transport/ws` | `mhTable`, `mhConn` with its two pumps, `mhSend`: callbacks that range over a map, `mhUp`: what ended the process |
| `MediaAccess` | `media-service`: validation of uploads, reads, dead letter replay | one step per request: `maAns` is the answer; `maDead`, `maReplay`: the replay |
| `MediaServiceProofs` | theorems about `MediaService`, `MediaHub` and `MediaAccess` | see section 5 |
| `AnalyticsIngestion` | `analytics-service`: readers, pipeline, batch writer, shutdown | `anReader`, `anPending`, `anFlush`; `anRows`, `anSeen`: ClickHouse; `anCommitted`, `anDead`: Kafka |
| `AnalyticsQueries` | `analytics-service`: GraphQL and gRPC doors, cache, pages, pool, reconciliation | `aqRows`, `aqCache`, `aqWalk`, `aqJob`, `aqPass` |
| `SearchIndex` | `search-service`: projection and queries | `seWork`: consumers; `seDocs`: documents, `seView`: what searches see of them until the next refresh; `seCache`: pages; `seAsk`: clients |
| `SearchOps` | `search-service`: startup, indices and aliases | `sxMapped`, `sxAlias`, `sxPlain`: OpenSearch; `sxWork`: replicas |
| `NotificationPipeline` | `notification-service` | `noNotif`, `noDel`, `noInbox`, `noOut`: rows; `noJob`: BullMQ; `noSweep`, `noExpire`: the sweeps, and the realtime workers that expire |
| `RealtimeGateway` | `realtime-service` | `rtSock`, `rtRegistry`: nodes; `rtRedis`, `rtPres`, `rtSubs`, `rtClaim`, `rtSeen`: Redis; `rtK`, `rtInbox`: Kafka and NATS; `rtH`: message handlers |
| `RequestProofs` | theorems about `RealtimeGateway`, `PaymentOperations`, `DriverProfile` and `AnalyticsQueries` | see section 5 |
| `RabbitBus` | `packages/go/rabbitmq`, `packages/ts/src/rabbitmq` | `rbCopies`: the broker; `rbPub`, `rbBreaker`: publishers; `rbHold`, `rbChan`: consumers |
| `GoPackages` | `packages/go`: snowflake, ratelimiter, rabbitmq connection, auth, middleware, websocket | one part per behaviour (`gpPart`) |
| `MessagingProofs` | theorems about `RabbitBus`, `NotificationPipeline`, `SearchIndex`, `SearchOps`, `GoPackages` and `AnalyticsIngestion` | see section 5 |
| `DataLemmas` | lemmas about numbers, places in a list, and sums over a finite set | used by the three proof modules that meet pages or sums |
| `MCServices`, `MCRealtime` | the thirteen modules above in one run | `focus` names the component a behaviour is about; the variables of the others are `Off` |
| `ServicesProofs` | what these proofs say of the specification in `MCServices` | see section 5 |
| `MC...` | instances for TLC | constants, starting points and symmetry |

Every call that the code awaits is a step, so that other processes run in
between. A call can fail with or without effect where its caller handles the
failure. What is read before an await and used after it is kept in the state
of the process (`job[r].copy`, `proc[p].copy`, `found[p]`, `rec.snap`).

The components in `MCServices` share no state and no step, so one run checks the
union of their state spaces; each of their properties is a conjunction that
speaks of the component in focus. Names carry a prefix (`An`, `Aq`, `Rb`, `Se`,
`Sx`, `No`, `Rt`, `Po`, `Dp`, `Mh`, `Ma`, `Gp`) because one module extends them
all. What a behaviour starts with and may meet is a record of the constant
`...Runs`: requests, rows, messages and a budget of failing calls and crashes.

Four abstractions carry most of the reduction:

- Payloads, addresses, coordinates and texts are left out. An event is
  its type and the delivery it is about.
- Time is an event: `OfferLapses`, `TenMinutesPass`, `LockExpires`,
  `BackoffElapses` may happen at any moment after they become possible.
- `Payment` has one payment and keeps its amounts, which the properties are
  about. Stripe is external: asked for something it does it, refuses, or does
  either and its answer gets lost. `asked` says that it knows of the payment.
- `DeliveryLifecycle` has one delivery, because deliveries share nothing but
  the tables. It can start in the middle of a delivery (`Underway`): the
  states it starts from are the ones the program reaches when everything that
  was begun for the earlier statuses is finished, on either way to pay.

Definitions whose comment begins with `Bug:` are faulty variants of the one that
follows. Those in `PROJECT.json` show that a property can fail; the others do the
same for a further conjunct of it.

`races`, `stale`, `byHand`, `reached`, `lost`, `missed`, `unsettled`, `unscanned`,
`rbMisread`, `seRaced`, `noBroken` and `gpIssued` are history variables, and so are
the fields `torn` of the walks and `steady` of the pages; no guard reads them,
but that the number of ids is bounded by `gpIssued`.

Two libraries behave in ways the models rely on. TypeORM's `save` of a delivery
whose loaded history lacks a row of the table tries to detach that row and
fails on its NOT NULL column (`SaveRefused`). The gRPC client of
`delivery.module.ts` is built without `keepCase`, so a field that is given in
snake case is not sent.

## 3. Runs

| run | asks | shows |
|---|---|---|
| `MCDeliveryOutbox` | two replicas, two events, batch 2, two failing calls per event, one crash | rows are claimed by one replica, a row marked PUBLISHED was sent, each further copy has a failed call behind it, every event settles or is orphaned, and the outbox implements `EventRelay` |
| `MCDeliveryOutboxReliable` (violated) | is every recorded event sent when a replica crashes | no: a row left in PROCESSING is selected by nobody |
| `MCDriverDispatch` | two handlers, both workers, one driver, two deliveries; scenes with offers under a lock that may run out and one fault, and with the edits of the driver document against a driver that takes a delivery | a driver has one active assignment outside the three races `freed`, `lock`, `accept`; the lock excludes; an engaged driver is AVAILABLE only after a save of a stale copy |
| `MCDriverLiveness` | dispatch from the queue, rejections, one fault | stuck drivers are repaired, overdue offers end, locks come free, every delivery is answered |
| `MCDriverDoubleBooking` (violated) | can a driver get two active assignments | yes: reconciliation frees a driver between the save of BUSY and the save of the offer |
| `MCDriverExpiry` (violated) | is an expired offer announced | no: it is already EXPIRED when the release looks at it |
| `MCDeliveryLifecycle` | saga, consumer, scheduler, timer and a user, from four starting points, with one restart or lost answer | history and outbox match the statuses the row has had; nothing is dispatched unpaid, unless a user has reported PAYMENT_CONFIRMED by hand (requests ask for every status); an illegal transition needs a stale save; under fairness the search for a driver ends, and every announced status gets its event when there is no fault |
| `MCDeliveryTimeout` (violated) | does the timer spare a parcel that is picked up | no: only DRIVER_ACCEPTED holds it off |
| `MCDeliveryEscrow` (violated) | is the escrow settled in the end | no: the calls name the delivery, payment-service looks for a payment id |
| `MCPayment` | three requests of any kind, one Stripe notice and the stuck recovery worker on one payment; one failing call, lost answer or restart | amounts add up; concurrent refunds never share a reservation and what Stripe paid back is accounted for; statuses follow the table except through the webhook; reported payments are announced, reservations and attempts end |
| `MCServices` | the thirteen components of section 2, one at a time | the properties below |
| `MCRealtimeLocation` (violated) | does a location reach the subscribers of its delivery | no: the subscriber reads `message.data`, which a location does not have |

`MCServices` shows, with failing calls, crashes, redelivery and races:

| property | is about |
|---|---|
| `SvMedia`, `SvMediaStatus` | infected uploads are contained once ClamAV has seen them in full (the scanner lets through what clamd could not be asked about: `unscanned`), one scanner per media, accepted objects stay stored; every status change is in `allowedTransitions` although only deletion consults it |
| `SvMediaHub` | the table holds exactly the connections nobody closes, `Send` is closed once, and a client gets its own messages. A callback may still meet a closed channel or race on the map: `mhUp` records it, and the process ends |
| `SvMediaAccess` | parts cover the file at every boundary of size and count; no path skips a type check; reads stay private; a replay counts what it put back |
| `SvAnalytics` | a marked event is stored in all its tables, facts never outnumber raw events, committed events are accounted for; pages, cached answers and the end of the pool |
| `SvBus` | a successful publication is kept until it is handled or dead, unless it took the late confirmation of a failed one for its own (`rbMisread`), at most once for each failure; dead only after its retries |
| `SvSearch` | the newest version wins, or a published one when two writes overlapped; an answer is true of every document that has not changed since its page was computed; a ready replica keeps its mapped indices |
| `SvNotification` | SENT is real; an unfinished delivery has a job or somebody about to add it, unless an error, a restart or the refused retry has left it without one (`noBroken`) |
| `SvRealtime` | a live socket is reachable; at most once per event and command unless Redis failed for it; only parties see an event |
| `SvPayment` | outbox rows leave only after Kafka has them; a SUCCEEDED attempt has its intent at Stripe, and its payment that intent or is still PENDING; pages leave no hole, and the last one ends the list unless a payment arrived between a COUNT and its SELECT |
| `SvDrivers` | a profile has its role; the rating is an average of real reviews; pages of reviews leave no hole, and end the list unless a review arrived between a count and its find; assignments and reviews are shown to their driver (its profile, status and `isBlocked` to anybody); order of the search |
| `SvPackages` | ids with room for their sequence increase, the limiter holds, a closed connection stays closed; a bearer token is verified, a gRPC call needs the user and the role its metadata claim, a message passes authentication, rate limit and validation |
| `SvTypeOK` | the type invariant of the component in focus |

The violated runs check what a README or a comment says; `findings` in
`PROJECT.json` quotes the lines.

### Bounds

- Two replicas and two events are enough for every overlap of two batches;
  with a batch of two, one replica can hold a row while it works on another.
  Two faults per event and one crash allow a send that is applied and reported
  as failed, a mark that fails in turn, and a death after the claim.
- One driver and two deliveries are the smallest double booking. Two handlers
  and two workers make four writers of one document. The reservation of one
  driver does not read another driver's document, so a second driver adds only
  the choice between candidates, which `rest` covers in `AfterReserve`.
- `RaceFree` stops the exploration at states in which a race was recorded:
  there `ReservationSafe` and `EngagedNotOffered` claim nothing. `LockMutex`
  is still checked in the state itself.
- `Begin` bounds the messages and requests from each start: three from a
  delivery that is under way, one on top of the creation saga. Two overlapping
  writers need two, a third can come between them.
- Three requests on a payment are its creation and two more that race: two
  refunds of a payment completed by the webhook, a capture against a
  cancellation, a refund after a capture. An amount of 2 gives partial and
  full refunds and captures; a capture of 0 is refused only after Stripe was
  asked. The proofs have no such bounds.

- Edits of a driver come in four sets in which every two kinds of edit meet,
  since a lost update needs two writers. Rejections together with a failing
  call are explored with one delivery.
- `MCServices`: one media, two requests and two goroutines, started at each stage
  of an upload (`Phases`) with the faults and deliveries that stage can meet;
  two topics with a duplicate, an unordered, a malformed, an invalid and an
  unknown event; two messages, one poisoned, one consumer of either package and
  three faults; three documents and events of one entity over two topics and the
  queue; two replicas with one fault and one crash at startup; three consumers,
  two of which share an inbox; four sockets of three users on two nodes, in runs
  that are each about one race; two replicas of payment-service; two
  handlers on profiles; two sockets and one callback of the hub; parts for every
  size from 0 to 41 with a cap of 4; six ids with four per millisecond and room
  below the worker for four or for two of them (`GpRooms`: `SequenceBits` of twelve or
  fewer), two callers of the limiter, two goroutines that open channels. Each bound lets two
  actors overlap in every step and leaves one fault to fall between any two.

### Fairness

- Replicas and workers run on timers that fire again and again, and an awaited
  call settles: weak fairness of `Publish`, `Proceed`, `Expiry`, `Reconcile`,
  `Step`, `SagaStep`, `ScheduleRetry`, `AnswerCall`, `Webhook` and
  `StuckRecovery`.
- Time passes: weak fairness of `OfferLapses`, `LockExpires`, `TenMinutesPass`
  and `FireTimer`.
- Nothing is assumed of customers, drivers and administrators, of messages
  that may come, nor of faults.

`CHECK_DEADLOCK FALSE` stands where the system may rest: when every handler is
idle and no request comes, or when the bounded inputs are used up. `MCServices`
checks safety only and assumes no fairness.

## 4. Assumptions worth knowing

- Users ask `transitionDelivery` for any status. One who reports
  PAYMENT_CONFIRMED has the delivery dispatched without a payment; `byHand`
  records that the row was saved so, and `DispatchIsPaid` and its theorem
  `DispatchPaid` say that there is no other way.
- The scan worker fails open: without clamd, after a cut-off stream, or with a
  reply that says neither FOUND nor OK the upload counts as clean
  (`scan/worker.go:147`, `:219`). `InfectedContained` is about the others.
- `publishOnce` takes whichever confirmation comes next. A timed-out publication
  leaves one behind, and the next success may be read from it.
- A client never gets the cursor of a search (`mapSearchResult` drops it), so
  there are no walks over search results; a cursor comes only from the client.
- `retry:<id>` is refused by BullMQ, whose custom job ids hold no colon: the sweep
  sets a failed delivery to PENDING, and nothing brings it back.
- gRPC identity is taken from the metadata: `AuthInterceptor` and its like trust
  `x-user-id` and `x-user-role`, which only the HTTP door derives from a token.
- With fewer than twelve `SequenceBits` the sequence of `NextID` runs on into the
  worker's bits; the services use the default. `GpIdsIncrease` is about the ids
  whose sequence has room.
- The scheduler leaves a delivery alone for its first 30 seconds. The model
  lets it act at once, which adds behaviours and removes none.
- `payment.failed` has a topic and a handler but is not published today. The
  model lets it arrive.
- What goes wrong in payment-service is part of the properties on payments.
  Money that Stripe paid back while the service was told otherwise is `lost`:
  the refund is treated as failed and its reservation released. A notice that
  loses a race for the row is `missed`: it was recorded as processed before.
  A commit or release that loses one leaves the reservation (`unsettled`).
- An attempt that timed out becomes UNKNOWN and stays so: reconciliation asks
  Stripe for the attempt's transaction id, which is empty then.
- A failing commit of PostgreSQL or MongoDB is modelled in the calls whose
  error the code handles in a way of its own; elsewhere it is a restart.

## 5. Proofs

Every safety invariant and every action property that a passing run checks is
also a theorem, for every value of the constants that satisfies the assumptions.
What is left to TLC is at the end of this section.

`DeliveryProofs` proves of the outbox, for any set of replicas, any number of
events, any batch size and any number of faults and crashes (`OutboxAssumption`):

- `OutboxTypeCorrect`, `ClaimsAreExclusive`, `PublishedIsSent`,
  `DuplicatesArePaidFor`: the invariants of the run `MCDeliveryOutbox`;
- `OutboxImplementsRelay`: every behaviour of the outbox is one of
  `EventRelay`, with the row's status mapped to a stage (`StageOf`).

None of the invariants is inductive alone. `ClaimExclusive` needs to know that
a claimed row is in PROCESSING (`ClaimHeld`): then the conditional UPDATE of
another replica, which read PENDING or FAILED, cannot match it.
`DuplicatesNeedFaults` needs a sharper count (`SentPaid`): the bound is
`faults[e]`, and one more only once the event was sent and is on its way to
PUBLISHED or there. A row that is going to be marked was sent
(`MarkingWasSent`), which `PublishedWasSent` and the refinement need.
`OutboxInv` is the conjunction; one lemma per action shows that it is
preserved. For the refinement each action is matched with one action of
`EventRelay` or with a stutter. Taking a row from PUBLISHED to FAILED, after a
mark that was applied and reported as failed, is `Reopen`.

Of the lifecycle it proves, for any users, inputs and faults
(`LifecycleAssumption`), `TypeCorrect`, `HistoryComplete` (`AuditTrail`) and
`StatusMovesLegally` (`LegalUnlessStale`) and `DispatchPaid` (`DispatchIsPaid`). A process is a list
of commands it has left. The invariant says which commands may be in it
(`Allowed`) and what a process in the middle of one holds (`Held`): the status it
is about to save is in the history and is one the state machine allows after
the row that was read, and an event is written only for a status that was saved.
`PaidInv` adds that a process which is going to confirm the payment was begun
once payment-service had it or is a user's, whose save is recorded in `byHand`,
and that only the saga asks for it, once.

`PaymentProofs` proves, for any number of requests and Stripe notices, any
amounts and any number of faults (`PaymentAssumption`), `TypeCorrect`,
`AmountsMakeSense` (`RefundsWithinCapture`), `StatusMovesLegally`
(`LegalUnlessWebhook`) and `RefundsAreAccounted` (`ReturnedIsAccounted`).

The argument is that of optimistic locking. Every write raises the version by
one. So a copy that has the version of the row has its status too (`Read`),
and a copy one version ahead was computed from the row as it is (`Write`): the
conditional UPDATE succeeds for no other. When somebody else writes, the
copies of all others fall behind (`JobFrame`). The amounts are sound in every
copy, not only in the row (`Sound`), because each operation of
`domain.Payment` preserves that; a commit or release needs in addition that
the copy holds its own reservation (`Started`), which keeps the amounts from
becoming negative. For `RefundsAreAccounted` each request has a share in the
row, the amount it keeps reserved (`HeldBy`), and what Stripe may still pay back
of that (`DueTo`). The sum of the first over all requests is reserved in the row,
and the sum of the second, with what was paid back, is covered by it
(`Accounts`); a step changes the share of one request (`SumsMove`).

`DriverDispatchProofs` proves, for any number of drivers, deliveries, handlers
and failing calls (`DispatchAssumption`), `TypeCorrect`, `MutualExclusion`
(`LockMutex`), `EngagedIsBusy` (`EngagedNotOffered`) and `OneActiveAssignment`
(`ReservationSafe`). The lock is only a key in Redis, so the invariant has to say
who may rely on it: as long as no lock expired under its holder, the handler in
the critical section owns it (`LockHeld`), the document it is going to save says
BUSY (`CopyIsBusy`), and between its check and its insert nobody else gives the
driver an assignment (`ReservedIsFree`). Most actions are harmless for that
(`Harmless`), which is proved once; the steps of `reserveDriver` and the expiry
of its lock are proved one by one.

`MediaServiceProofs` proves `MediaSafe`, `MediaMovesLegally`, `MediaHubSafe` and
`MediaRequestsSafe`. No process of media-service holds more than what it has
read, so the invariant says what its program counter still guarantees (`MsJobOK`,
`MsTaskOK`). That survives the steps of others because rows and objects only move
forward (`MsStepOK`). In the hub a reference to a connection outlives its place in
the table, so it is the connection's own user and its `once` that carry the
argument: Send is closed exactly when the `once` has run (`MhConnOK`), and the
connection a callback has at hand is one of its addressee, in the table or not
(`MhSendOK`). Of the requests, that the planned parts cover an upload of any size
is arithmetic on the quotient the code rounds up; a replay has put back as many
letters as it counts, in the order they had (`MaReplayOK`).

`MessagingProofs` proves `BusKeepsAndRetries`, `NotificationSafe`,
`NewestWins` (`SeNewestWins`), `PagesAreTrue` (`SePagesAreTrue`), `ReadyIsServed`
(`SxReadyIsServed`), `PackagesSafe` and `AnalyticsIngestionSafe`, and the type
invariants `SearchIsWellFormed`, `ReplicasAreWellFormed`, `PackagesAreWellFormed`.

- RabbitMQ: a copy is acknowledged after the handler succeeded, or after
  `Republish` has stored a younger one. The younger one is acknowledged in turn,
  so the invariant says that every event with a copy has a youngest one
  (`RbHasYoungest`), and that one is never lost. A success that was read from an
  earlier confirmation is paid for by the failed publication that left it behind
  (`RbMisreadIsOwed`); there is never more than one waiting.
- notifications: workers write back copies of rows, so the invariant speaks of
  the copies too. A copy that says SENT was made when every channel had gone
  out, and what a provider accepted stays accepted (`NpHandlerOK`). An unfinished
  delivery has a job, or a consumer or the sweep about to add one, or is one of
  those an error or a restart has left behind (`NpParked`); so a job that has saved
  the outcome leaves a delivery that is finished or parked (`NpOver`), and one that
  waits for its notification to expire has its delivery among the rows that
  `expire` goes through (`NpExpireOK`).
- search, documents: an event is still in its topic or the queue, or it is
  settled: dead, lost, its entity written without a reliable version check, or
  the document at least as new. Nothing undoes the latter, because a write that
  meets another version than the one it has checked is recorded in `seRaced`; and
  a consumer takes an event off only when it is settled (`SgWorkerOK`). A document
  has the version of an event or is older than all of them (`SgDocOK`), so at the
  end it has the largest one.
- search, pages: a page was right about every document that searches could see as
  it is, and stays right about those that have not changed since (`SwPageOK`),
  in the cache and with the client, whatever else is indexed in between.
- search, indices: no step takes an index or an alias away, so what a replica has
  made sure of in one pass without an error still holds when the pass ends
  (`SiWorkOK`). A search takes the alias when there is one; that there is never an
  index of the same name beside it is part of the invariant.
- packages: an allowed request stays in the sorted set until it leaves the
  window, its key does not expire before, and a caller removes only the member
  of its own current call (`GgWindow`). So each later call counts it, although
  it may have read the clock earlier. Each state of the generator is later than
  those before it (`GgIds`), and where the sequence has room the fields of an id do
  not overlap and a later state gives a larger id (`GgParse`, `GgLarger`).
- analytics: a flush writes the seven tables one after the other, raw events
  first, and a retry writes them all again. So the invariant counts: the rows of
  an event in a table, with those the flush still owes it, are at most its raw
  events (`AiOwed`). A flush has written the tables it has passed (`AiWritten`), and
  an event is marked only after the last one (`AiStored`). A reader commits or
  passes a message once it is in memory, dead, lost, or in all its tables
  (`AiPassed`); a cached answer is one over fewer rows (`AiCached`).

`RequestProofs` proves `GatewaySafe`, `GatewayIsWellFormed`,
`PaymentOperationsSafe`, `DriverProfilesSafe` and `AnalyticsQueriesSafe`.

- gateway: only the disconnect of a socket itself takes it out of the tables
  (`RgSockets`); a command past its claim has been claimed by that handler alone,
  and only pairs that the authorization permits are in the cache and among the
  subscribers (`RgHands`); the node that made the mark of an event is the only
  one to publish it, and a node with a copy it has not handled has written it to
  none of its sockets (`RgBus`). Types need in addition that a node is only given
  messages of the topic (`RvOffsets`).
- payment operations: a row that a publisher is about to mark is one Kafka holds
  (`PoOutOK`), the intent that a call is about to record exists (`PoPayOK`), a
  SUCCEEDED attempt was made so by its own call, with the intent that call holds and
  goes on to save in the payment (`PoCallFits`, `PoBacked`), and what a recovery worker has read is an attempt without a transaction (`PoRecOK`).
- driver profiles: what a handler has found out or computed still holds when it
  stores it (`DpFits`): the role of who registers, and a rating that is the sum of
  reviews, which more may have joined since.
- pages: payments, reviews and rows arrive while somebody reads page after page.
  An arrival can only move an element further down (`PlaceGrows`), and a page is
  the first places from an offset (`FirstPlaces`): so whatever was there at the
  start and has a place before the offset has been seen (`PoWalkGood`,
  `DpWalkGood`, `AqWalkGood`). The number a page was counted with decides whether
  it is the last; it is the one of the rows then found unless the page is torn.
- answers: the key of a cached answer has every parameter of its question, so two
  questions with one key are the same (`AqKeyTells`).

`ServicesProofs` carries these results over to the specification the run
`MCServices` checks, where a behaviour is about one service: `MediaHolds`,
`MediaStatusHolds`, `MediaHubHolds`, `MediaAccessHolds`, `BusHolds`,
`NotificationHolds`, `RealtimeHolds`, `SearchHolds`, `PaymentOperationsHold`,
`DriversHold`, `AnalyticsHolds`, `PackagesHold` and `TypesHold` state all its
properties.

The assumptions on constants are that bounds are numbers, that special values
(`free`, `nobody`, `none`) are not names of requests or users, that messages
and records have the fields and the kinds the code distinguishes, that the
events a search run publishes are newer than what it starts with, that an
identifier of an analytics event stands for one event, and that a client of the
gateway subscribes to deliveries; TLC evaluates all of them in the runs.

Sums and sorted pages are defined by recursion over finite sets, which would call
for induction. `DataLemmas` does without: the sizes of the sets for which a
statement fails have a least one (`LeastNat`), and a set of that size fails only
if a smaller one does.

Left to TLC: what is about liveness under fairness (`EventsSettle`,
`StuckRepaired`, `OffersResolve`, `LockEventuallyFree`, `DeliveryAnswered`,
`SearchTerminates`, `EventsReachOutbox`, `PaidIsAnnounced`, `ReservationsEnd`,
`AttemptsSettle`), since the provers do not reason about ENABLED; and the six
violated runs, which are counterexamples.

## 6. Hazards that no property covers

`hazards` in `PROJECT.json` gives the ones that matter most with their
properties. Reading the code for the models showed more; they are recorded here
because the models follow the code in them or leave them out:

- media: messages are committed before their handler has run, so a scan engine
  error leaves a media in SCANNING (`scan/worker.go:86`); the outbox event of an
  upload may be scanned before its status is UPLOADED (`complete_upload.go:162`);
  deletion subtracts the bytes twice (`delete/worker.go:104`); extending a
  session leaves its old index entry (`upload_repository.go:160`).
- payments: `payment.completed` is not among the topics that are created
  (`event_publisher.go:106`); reconciliation asks Stripe for an empty id
  (`reconciliation.go:54`); a recovered attempt may overwrite SUCCEEDED.
- drivers: the unique index on reviews is never created, so two ratings of one
  delivery can both be stored (`rate_driver.go:85`); `DriverLoader` keeps the
  first document of a driver for good (`dataloader.go:44`).
- analytics: rows in memory are lost with the process although their offsets are
  committed (`batch_writer.go:58`, `anLost`); the count and the page of a query
  are two statements (`query_repository.go:331`).
- search: all media events carry version 1; a delete leaves no tombstone; a
  replica that gives up waiting goes on and lets OpenSearch create an index under
  the name of an alias (`cmd/server/main.go:77`, `sxPlain`).
- notifications: FAILED is terminal; two workers that derive a status from rows
  they read earlier may lose an update; overlapping outbox runs emit twice.
- realtime: an event is marked before it is published, so a crash in between loses
  it; sets of connections have no expiry, so a crashed node stays in them.
- packages: a clock that is stepped back repeats ids; a refused call still counts
  against the window; the TypeScript consumer does not start again after its
  channel closed.
- delivery: the scheduler may have a second driver offered while an offer is
  open; a restart between the save of a row and its event loses the event; the
  restart that follows `clearDriverId` leaves a delivery to its timer.
- user-service: the queue worker and the reconciliation of the outbox send the
  same row, and the send is not awaited (`outbox-worker.service.ts:97`).

## 7. What could follow

The composition of `DeliveryLifecycle` and `DriverDispatch` over their topics
(two drivers for one delivery, drivers that are never released); the payment
outbox against `EventRelay`; the lock around idempotent commands.

## 8. Not modelled

- api-gateway, media-frontend and infrastructure keep no state of their own.
- user-service (sessions, refresh tokens, its outbox), and the lock around
  idempotent commands of delivery-service.
- Pricing and the wording of notifications: pure functions whose result no
  property here depends on. `DriverDispatch` tries candidates in any order; their
  ranking is in `DriverProfile`.
- The bytes of media and their transformation, the aggregates ClickHouse computes,
  relevance scores of OpenSearch.
- NATS and RabbitMQ notifications of delivery-service, which are sent and
  forgotten.
- Generated protocol code, GraphQL schemas, configuration, metrics, tracing,
  logging and translations.
