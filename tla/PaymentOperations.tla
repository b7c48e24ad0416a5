-------------------------- MODULE PaymentOperations --------------------------
(***************************************************************************)
(* payment-service around its state machine (see Payment): replicas that   *)
(* boot against PostgreSQL, the Stripe adapter behind CreatePayment, the   *)
(* outbox publisher, the cleanup and reconciliation workers of every       *)
(* replica, and the GraphQL reads.  A database call is a step.             *)
(***************************************************************************)
EXTENDS Integers, Sequences, FiniteSets, FiniteSetsExt

CONSTANTS PoReplica,    \* instances of the service
          PoRuns,       \* [on, rows, requests, reads, walks, pays, crashes, faults]: the parts of the
                        \* service that a behaviour exercises, the rows its outbox starts
                        \* with, what clients ask for, and the budget of faults
          PoBatch,      \* OutboxBatchSize
          PoMaxLimit,   \* largest page that List accepts
          PoPageSize,   \* the page List uses instead of a larger one
          PoMaxPings    \* attempts to reach the database

\* What a behaviour may be given.
PoCreateRequest == [user : STRING, key : STRING]
PoReadRequest == [header : STRING, token : STRING, p : Nat, typename : BOOLEAN, grpc : BOOLEAN]
PoWalkRequest == [user : STRING, limit : Int]
PoRunType ==
    [on : SUBSET STRING, rows : Seq(STRING), requests : Seq(PoCreateRequest), reads : Seq(PoReadRequest),
     walks : Seq(PoWalkRequest), pays : Nat, crashes : Nat, faults : Nat]

ASSUME PoAssumption ==
    /\ PoRuns \subseteq PoRunType
    /\ PoBatch \in Nat /\ PoMaxLimit \in Nat /\ PoPageSize \in Nat \ {0} /\ PoMaxPings \in Nat \ {0}

VARIABLES poRun,        \* requests still to come, and the budget of faults
          poDb,         \* does the database exist
          poBoot,       \* where each replica is between start and service
          poPay,        \* payments in the order of created_at
          poAtt,        \* payment_attempts: the AUTHORIZE attempt of each payment, if it was stored
          poIntent,     \* payment intents at Stripe: the idempotency key and the status
          poCall,       \* the CreatePayment that runs
          poOut,        \* payment_events_outbox in the order of created_at
          poTopic,      \* how often Kafka has stored each event
          poPub,        \* outbox publisher of each replica
          poRec,        \* attempts that the recovery workers of each replica have read
          poWalk        \* a client that reads a payment or pages through them

poStore == <<poPay, poAtt>>
poVars == <<poRun, poDb, poBoot, poStore, poIntent, poCall, poOut, poTopic, poPub, poRec, poWalk>>

PoNoCall == [pc |-> "idle", p |-> 0, key |-> "", tx |-> 0, err |-> ""]
PoIdlePub == [pc |-> "idle", batch |-> {}]
\* torn is history: a page whose COUNT and SELECT saw different tables.
PoNoWalk == [pc |-> "idle", user |-> "", limit |-> 0, page |-> 0, start |-> {}, seen |-> {}, code |-> 0,
             total |-> 0, torn |-> FALSE]

PoOn(part) == part \in poRun.on

\* A fresh cluster whose database is created by the first replica, or replicas
\* at work.
PoInit ==
    /\ poRun \in PoRuns
    /\ poDb = ~PoOn("boot")
    /\ poBoot = [r \in PoReplica |-> [pc |-> IF PoOn("boot") THEN "ping" ELSE "up", left |-> PoMaxPings]]
    /\ poPay = <<>> /\ poAtt = <<>> /\ poIntent = <<>> /\ poCall = PoNoCall
    /\ poOut = [i \in DOMAIN poRun.rows |-> [type |-> poRun.rows[i], state |-> "new"]]
    /\ poTopic = [i \in DOMAIN poRun.rows |-> 0]
    /\ poPub = [r \in PoReplica |-> PoIdlePub]
    /\ poRec = [r \in PoReplica |-> {}]
    /\ poWalk = PoNoWalk

PoSpend(field) == poRun[field] > 0 /\ poRun' = [poRun EXCEPT ![field] = @ - 1]
PoFault == PoSpend("faults")
PoFine == UNCHANGED poRun
PoUp(r) == poBoot[r].pc = "up"

-----------------------------------------------------------------------------
(* Start of a replica *)

PoBootTo(r, pc) == poBoot' = [poBoot EXCEPT ![r] = [pc |-> pc, left |-> PoMaxPings]]

\* A failing Ping is retried every two seconds until the attempts are used up.
PoPingFails(r, last) ==
    /\ IF poBoot[r].left > 1 THEN poBoot' = [poBoot EXCEPT ![r].left = @ - 1] ELSE PoBootTo(r, last)
    /\ UNCHANGED poDb

\* EnsureDatabaseExists up to its look at pg_database; an error is only a warning.
EnsureDatabaseExists(r) ==
    /\ poBoot[r].pc = "ping"
    /\ \/ PoFault /\ PoPingFails(r, "connect")
       \/ PoFine /\ PoBootTo(r, IF poDb THEN "connect" ELSE "create") /\ UNCHANGED poDb

\* CREATE DATABASE fails when another replica was faster; either way the boot goes on.
CreateDatabase(r) == poBoot[r].pc = "create" /\ poDb' = TRUE /\ PoBootTo(r, "connect") /\ PoFine

\* Connect: without the database every ping fails and the process exits.
PoConnect(r) ==
    /\ poBoot[r].pc = "connect"
    /\ \/ poDb /\ PoFine /\ PoBootTo(r, "up") /\ UNCHANGED poDb
       \/ ~poDb /\ PoFine /\ PoPingFails(r, "ping")
       \/ poDb /\ PoFault /\ PoPingFails(r, "ping")

PoBootStep(r) ==
    /\ EnsureDatabaseExists(r) \/ CreateDatabase(r) \/ PoConnect(r)
    /\ UNCHANGED <<poStore, poIntent, poCall, poOut, poTopic, poPub, poRec, poWalk>>

\* A page query fails: the client gets an error and no page.
PoPageFails == poWalk' = [poWalk EXCEPT !.pc = "done", !.code = 500]

\* The process dies; its container starts again.  The calls that run are served
\* by it, or by another replica.
PoCrash(r) ==
    LET other == \E q \in PoReplica \ {r} : PoUp(q) IN
    /\ PoUp(r) /\ PoSpend("crashes") /\ PoBootTo(r, "ping")
    /\ poPub' = [poPub EXCEPT ![r] = PoIdlePub]
    /\ poRec' = [poRec EXCEPT ![r] = {}]
    /\ poCall' = PoNoCall \/ (other /\ UNCHANGED poCall)
    /\ \/ UNCHANGED poWalk /\ (other \/ poWalk.pc # "select")
       \/ poWalk.pc = "select" /\ PoPageFails
    /\ UNCHANGED <<poDb, poStore, poIntent, poOut, poTopic>>

-----------------------------------------------------------------------------
(* The Stripe adapter *)

\* normalizePaymentIntentStatus
NormalizeIntent(s) ==
    CASE s \in {"requires_payment_method", "requires_action", "processing"} -> "PROCESSING"
      [] s = "requires_capture" -> "AUTHORIZED"
      [] s = "succeeded" -> "SUCCEEDED"
      [] s = "canceled" -> "CANCELLED"
      [] OTHER -> "UNKNOWN"

\* normalizeStripeError: the category of an error of the client library.
NormalizeStripeError(e) ==
    CASE e = "deadline" -> "TIMEOUT"
      [] e = "card_error" -> "DECLINED"
      [] e = "rate_limit_error" -> "RATE_LIMITED"
      [] e = "invalid_request_error" -> "PERMANENT"
      [] e = "authentication_error" -> "AUTH_ERROR"
      [] e \in {"api_error", "api_connection_error"} -> "TEMPORARY"
      [] OTHER -> "UNKNOWN"

\* The errors an instance tells apart: a timeout after Stripe has acted, and a refusal.
PoStripeErrors == {"deadline", "card_error"}

\* Stripe answers a repeated idempotency key with the intent it made before.
IntentsOf(key) == {i \in DOMAIN poIntent : poIntent[i].key = key}
NewIntent(key) == Append(poIntent, [key |-> key, status |-> "requires_payment_method"])

\* GetStatus of a transaction id; the id 0 stands for the empty string, which Stripe refuses.
GetStatus(tx) == IF tx = 0 THEN "error" ELSE NormalizeIntent(poIntent[tx].status)

\* paymentintent.New, the first call of Authorize.
AuthorizeIntent ==
    /\ poCall.pc = "intent"
    /\ \/ /\ IntentsOf(poCall.key) # {} /\ PoFine /\ UNCHANGED poIntent
          /\ poCall' = [poCall EXCEPT !.pc = "session", !.tx = CHOOSE i \in IntentsOf(poCall.key) : TRUE]
       \/ /\ IntentsOf(poCall.key) = {} /\ PoFine
          /\ poIntent' = NewIntent(poCall.key)
          /\ poCall' = [poCall EXCEPT !.pc = "session", !.tx = Len(poIntent) + 1]
       \/ \E e \in PoStripeErrors :
             /\ PoFault
             /\ poIntent' = IF e = "deadline" /\ IntentsOf(poCall.key) = {} THEN NewIntent(poCall.key)
                            ELSE poIntent
             /\ poCall' = [poCall EXCEPT !.pc = "refused", !.err = NormalizeStripeError(e)]

\* session.New: the hosted page comes with an intent of its own, for which no
\* idempotency key is sent; when the call fails the first intent stays.
AuthorizeSession ==
    /\ poCall.pc = "session"
    /\ \/ PoFine /\ poIntent' = NewIntent("") /\ poCall' = [poCall EXCEPT !.pc = "record", !.tx = Len(poIntent) + 1]
       \/ PoFault /\ UNCHANGED poIntent /\ poCall' = [poCall EXCEPT !.pc = "record"]

\* The customer pays on the hosted page, or the page expires.
PoCustomer ==
    /\ PoSpend("pays")
    /\ \E i \in DOMAIN poIntent, s \in {"requires_capture", "canceled"} :
          /\ poIntent[i].status = "requires_payment_method"
          /\ poIntent' = [poIntent EXCEPT ![i].status = s]
    /\ UNCHANGED <<poDb, poBoot, poStore, poCall, poOut, poTopic, poPub, poRec, poWalk>>

-----------------------------------------------------------------------------
(* CreatePayment over gRPC *)

\* OutboxRepository.Insert; publishEvent's error is logged and forgotten.
PoInsert(type) ==
    \/ PoFine /\ poOut' = Append(poOut, [type |-> type, state |-> "new"]) /\ poTopic' = Append(poTopic, 0)
    \/ PoFault /\ UNCHANGED <<poOut, poTopic>>

\* No row; and NewAttempt, Succeed, Fail and MarkUnknown.
PoNoAttempt == [status |-> "none", tx |-> 0]
PoNewAttempt == [status |-> "PROCESSING", tx |-> 0]
PoSucceed(tx) == [status |-> "SUCCEEDED", tx |-> tx]
PoFail == [status |-> "FAILED", tx |-> 0]
PoMarkUnknown == [status |-> "UNKNOWN", tx |-> 0]

\* PaymentRepository.Create of a new payment.
PoInsertPayment(u) == poPay' = Append(poPay, [user |-> u, status |-> "PENDING", intent |-> 0])

\* PaymentRepository.Create; when it fails the call ends.
PoCreatePayment ==
    /\ poCall.pc = "idle" /\ Len(poRun.requests) > 0
    /\ \E r \in PoReplica : PoUp(r)
    /\ LET q == Head(poRun.requests) IN
         \/ /\ PoInsertPayment(q.user)
            /\ poAtt' = Append(poAtt, PoNoAttempt)
            /\ poCall' = [PoNoCall EXCEPT !.pc = "created", !.p = Len(poPay) + 1, !.key = q.key]
         \/ UNCHANGED <<poStore, poCall>>
    /\ poRun' = [poRun EXCEPT !.requests = Tail(@)]
    /\ UNCHANGED <<poIntent, poOut, poTopic>>

PoInsertCreated ==
    /\ poCall.pc = "created" /\ PoInsert("payment.created")
    /\ poCall' = [poCall EXCEPT !.pc = "attempt"]
    /\ UNCHANGED <<poStore, poIntent>>

\* Bug: a stuck attempt is taken for a success.
PoUpdateAttemptHopeful(p, a) ==
    [poAtt EXCEPT ![p] = IF a = PoMarkUnknown THEN PoSucceed(0) ELSE a]

\* AttemptRepository.UpdateStatus writes the status and the transaction id,
\* whatever they were; without a row it updates nothing.
PoUpdateAttempt(p, a) == [poAtt EXCEPT ![p] = IF @ = PoNoAttempt THEN @ ELSE a]

\* Every error of the attempts table is ignored: the call goes on without the write.
PoWriteAttempt(att) == (PoFine /\ poAtt' = att) \/ (PoFault /\ UNCHANGED poAtt)

\* AttemptRepository.Create, a call of its own after the event.
PoCreateAttempt ==
    /\ poCall.pc = "attempt" /\ PoWriteAttempt([poAtt EXCEPT ![poCall.p] = PoNewAttempt])
    /\ poCall' = [poCall EXCEPT !.pc = "intent"]
    /\ UNCHANGED <<poPay, poIntent, poOut, poTopic>>

\* Authorize failed: a timeout leaves the payment alone, any other error fails it ...
PoRefused ==
    /\ poCall.pc = "refused"
    /\ \/ /\ poCall.err = "TIMEOUT" /\ PoWriteAttempt(PoUpdateAttempt(poCall.p, PoMarkUnknown))
          /\ poCall' = PoNoCall
       \/ /\ poCall.err # "TIMEOUT" /\ PoWriteAttempt(PoUpdateAttempt(poCall.p, PoFail))
          /\ poCall' = [poCall EXCEPT !.pc = "fail"]
    /\ UNCHANGED <<poPay, poIntent, poOut, poTopic>>

\* ... with a second write, whose error is ignored too.
PoFailPayment ==
    /\ poCall.pc = "fail"
    /\ \/ PoFine /\ poPay' = [poPay EXCEPT ![poCall.p].status = "FAILED"]
       \/ PoFault /\ UNCHANGED poPay
    /\ poCall' = PoNoCall
    /\ UNCHANGED <<poAtt, poIntent, poOut, poTopic>>

\* The attempt has succeeded: AttemptRepository.UpdateStatus ...
PoAuthorized ==
    /\ poCall.pc = "record" /\ PoWriteAttempt(PoUpdateAttempt(poCall.p, PoSucceed(poCall.tx)))
    /\ poCall' = [poCall EXCEPT !.pc = "save"]
    /\ UNCHANGED <<poPay, poIntent, poOut, poTopic>>

\* ... and then PaymentRepository.UpdateConditional, whose error ends the call,
\* whether the row was written or not.  payment.Authorize is applied to every
\* answer, PROCESSING included.
PoSavePayment ==
    LET authorized == [poPay EXCEPT ![poCall.p].status = "AUTHORIZED", ![poCall.p].intent = poCall.tx] IN
    /\ poCall.pc = "save"
    /\ \/ PoFine /\ poPay' = authorized /\ poCall' = [poCall EXCEPT !.pc = "announce"]
       \/ PoFault /\ (poPay' = authorized \/ UNCHANGED poPay) /\ poCall' = PoNoCall
    /\ UNCHANGED <<poAtt, poIntent, poOut, poTopic>>

PoInsertAuthorized ==
    /\ poCall.pc = "announce" /\ PoInsert("payment.authorized")
    /\ poCall' = PoNoCall
    /\ UNCHANGED <<poStore, poIntent>>

PoCallStep ==
    /\ \/ PoCreatePayment \/ PoInsertCreated \/ PoCreateAttempt \/ PoInsertAuthorized
       \/ PoRefused \/ PoFailPayment \/ PoAuthorized \/ PoSavePayment
       \/ (AuthorizeIntent \/ AuthorizeSession) /\ UNCHANGED <<poStore, poOut, poTopic>>
    /\ UNCHANGED <<poDb, poBoot, poPub, poRec, poWalk>>

-----------------------------------------------------------------------------
(* Workers of every replica *)

\* The topics that EnsureTopics creates, of the types used here.
PoTopics == {"payment.created", "payment.authorized"}

\* FetchUnpublished: FOR UPDATE SKIP LOCKED outside a transaction locks nothing
\* beyond the statement.
Unpublished == {e \in DOMAIN poOut : poOut[e].state = "new"}
FetchUnpublished == {e \in Unpublished : Cardinality({f \in Unpublished : f <= e}) <= PoBatch}

\* The rows of a batch are sent in the order of created_at.
PoOldest(batch) == CHOOSE e \in batch : \A f \in batch : e <= f

\* OutboxPublisher.Run starts with a batch.
PoFetch(r) ==
    /\ poPub[r].pc = "idle" /\ FetchUnpublished # {} /\ PoFine
    /\ poPub' = [poPub EXCEPT ![r] = [pc |-> "publish", batch |-> FetchUnpublished]]
    /\ UNCHANGED <<poOut, poTopic>>

PoNextRow(r) ==
    LET rest == poPub[r].batch \ {PoOldest(poPub[r].batch)} IN
      poPub' = [poPub EXCEPT ![r] = IF rest = {} THEN PoIdlePub ELSE [pc |-> "publish", batch |-> rest]]

\* eventTypeToTopic and PublishEvent: Kafka stores the message; an error may come after that.
KafkaStores(e) == poTopic' = [poTopic EXCEPT ![e] = @ + 1]

\* Bug: the row is marked although the publication has failed.
PublishOneMarksAll(r) ==
    LET e == PoOldest(poPub[r].batch) IN
      /\ poPub[r].pc = "publish" /\ UNCHANGED poOut
      /\ poPub' = [poPub EXCEPT ![r].pc = "mark"]
      /\ (PoFine /\ KafkaStores(e)) \/ (PoFault /\ UNCHANGED poTopic)

\* MarkFailed names a column the schema lacks: its error is dropped and the row stays.
PublishOne(r) ==
    LET e == PoOldest(poPub[r].batch) IN
      /\ poPub[r].pc = "publish" /\ UNCHANGED poOut
      /\ \/ /\ poOut[e].type \in PoTopics /\ PoFine /\ KafkaStores(e)
            /\ poPub' = [poPub EXCEPT ![r].pc = "mark"]
         \/ poOut[e].type \notin PoTopics /\ PoFine /\ UNCHANGED poTopic /\ PoNextRow(r)
         \/ PoFault /\ (KafkaStores(e) \/ UNCHANGED poTopic) /\ PoNextRow(r)

\* PoMarkPublished; when it fails the row is fetched and sent again.
PoMarkPublished(r) ==
    LET e == PoOldest(poPub[r].batch) IN
      /\ poPub[r].pc = "mark" /\ UNCHANGED poTopic /\ PoNextRow(r)
      /\ \/ PoFine /\ poOut' = [poOut EXCEPT ![e].state = IF @ = "gone" THEN @ ELSE "published"]
         \/ PoFault /\ UNCHANGED poOut

\* Bug: the WHERE clause forgets published_at IS NOT NULL.
CleanupUnpublished == [i \in DOMAIN poOut |-> [poOut[i] EXCEPT !.state = "gone"]]

\* OutboxRepository.Cleanup: rows published more than seven days ago are deleted.
Cleanup == [i \in DOMAIN poOut |-> [poOut[i] EXCEPT !.state = IF @ = "old" THEN "gone" ELSE @]]

\* CleanupWorker.Run
PoCleanupRun == poOut' = Cleanup /\ poOut' # poOut /\ PoFine /\ UNCHANGED <<poPub, poTopic>>

\* Seven days pass after a publication.
PoAge ==
    /\ \E e \in DOMAIN poOut : poOut[e].state = "published" /\ poOut' = [poOut EXCEPT ![e].state = "old"]
    /\ PoFine /\ UNCHANGED <<poPub, poTopic>>

PoOutboxStep ==
    /\ \/ \E r \in PoReplica : PoUp(r) /\ (PoFetch(r) \/ PublishOne(r) \/ PoMarkPublished(r) \/ PoCleanupRun)
       \/ PoAge
    /\ UNCHANGED <<poDb, poBoot, poStore, poIntent, poCall, poRec, poWalk>>

\* FindUnknown and FindStuck.
FindUnknown == {[job |-> "reconcile", p |-> p, tx |-> poAtt[p].tx] : p \in {q \in DOMAIN poAtt : poAtt[q].status = "UNKNOWN"}}
FindStuckAttempts == {[job |-> "stuck", p |-> p, tx |-> 0] : p \in {q \in DOMAIN poAtt : poAtt[q].status = "PROCESSING"}}

\* ReconciliationWorker.Run and StuckRecoveryWorker.Run read their attempts ...
PoFindAttempts(r) ==
    /\ poRec[r] = {} /\ UNCHANGED poAtt
    /\ \E found \in {FindUnknown, FindStuckAttempts} \ {{}} : poRec' = [poRec EXCEPT ![r] = found]

\* What reconcileOne makes of Stripe's answer.
Reconciled(s, tx) == IF s \in {"SUCCEEDED", "AUTHORIZED"} THEN PoSucceed(tx) ELSE [PoFail EXCEPT !.tx = tx]

\* ... and write them one by one, going on after an error.  UNKNOWN is always stored with an empty
\* transaction id, and Stripe answers that id with an error.  (For a cancelled
\* intent reconcileOne expects CANCELED, the adapter says CANCELLED.)
ReconcileOne(r) ==
    \E a \in poRec[r] :
       /\ a.job = "reconcile"
       /\ poRec' = [poRec EXCEPT ![r] = @ \ {a}]
       /\ LET s == GetStatus(a.tx) IN
            poAtt' = IF s \notin {"SUCCEEDED", "AUTHORIZED", "FAILED", "CANCELED"} THEN poAtt
                     ELSE PoUpdateAttempt(a.p, Reconciled(s, a.tx))

\* StuckRecoveryWorker: whatever the attempt has become, it is UNKNOWN now,
\* unless the write fails.
PoMarkStuck(r) ==
    \E a \in poRec[r] :
       /\ a.job = "stuck"
       /\ poRec' = [poRec EXCEPT ![r] = @ \ {a}]
       /\ poAtt' \in {poAtt, PoUpdateAttempt(a.p, PoMarkUnknown)}

PoAttemptStep ==
    /\ \E r \in PoReplica : PoUp(r) /\ (PoFindAttempts(r) \/ ReconcileOne(r) \/ PoMarkStuck(r))
    /\ UNCHANGED <<poRun, poDb, poBoot, poPay, poIntent, poCall, poOut, poTopic, poPub, poWalk>>

-----------------------------------------------------------------------------
(* GraphQL reads *)

\* AuthMiddleware: the gateway's header names the user, a valid token overrides
\* it, and a token that does not verify is refused unless the header is there.
PoIdentity(q) ==
    CASE q.token \notin {"", "bad"} -> q.token
      [] q.token = "bad" /\ q.header = "" -> "refused"
      [] OTHER -> q.header

\* LoadPayment: the loader of one request, over FindByIDs.
PoLoad(p) == IF p \in DOMAIN poPay THEN {p} ELSE {}

\* GetPayment and GetPaymentStatus over gRPC.
PoGrpcCode(p) == IF PoLoad(p) = {} THEN 404 ELSE 200

\* A query that mentions __typename, as those of a federation gateway do, gets
\* the answer meant for the gateway's probe and no payment.
PoIsProbe(q) == q.typename

\* payment(id): the status code; a caller without identity is not refused.
PoPaymentCode(u, p) ==
    IF u = "refused" THEN 401
    ELSE IF p = 0 THEN 400
    ELSE IF PoLoad(p) = {} THEN 404
    ELSE IF u \in {"admin", "", poPay[p].user} THEN 200 ELSE 403

PoReadPayment ==
    /\ poWalk.pc \notin {"page", "select"} /\ Len(poRun.reads) > 0
    /\ LET q == Head(poRun.reads)
           code == IF q.grpc THEN PoGrpcCode(q.p)
                   ELSE IF PoIsProbe(q) /\ PoIdentity(q) # "refused" THEN 0
                   ELSE PoPaymentCode(PoIdentity(q), q.p)
       IN  poWalk' = [PoNoWalk EXCEPT !.user = IF q.grpc THEN "" ELSE PoIdentity(q), !.code = code, !.seen = IF code = 200 THEN {q.p} ELSE {}]
    /\ poRun' = [poRun EXCEPT !.reads = Tail(@)]

\* Rows of one user, or of everybody for an administrator ...
PoRowsOf(u) == {p \in DOMAIN poPay : u = "admin" \/ poPay[p].user = u}

\* ... and the place of a row among them, the newest being the first.
PoPlace(p, u) == Cardinality({q \in PoRowsOf(u) : q >= p})

\* PaymentRepository.List: a limit it does not accept becomes PoPageSize.
PoLimit(l) == IF l < 1 \/ l > PoMaxLimit THEN PoPageSize ELSE l

\* Bug: the offset counts from the page itself.
PoListSkips(u, page, l) ==
    {p \in PoRowsOf(u) : PoPlace(p, u) > page * PoLimit(l) /\ PoPlace(p, u) <= (page + 1) * PoLimit(l)}

PoList(u, page, l) ==
    LET from == (page - 1) * PoLimit(l)
    IN  {p \in PoRowsOf(u) : PoPlace(p, u) > from /\ PoPlace(p, u) <= from + PoLimit(l)}

\* The handler computes nextPage from the limit it was asked for and the count it got.
PoHasNext(page, l, total) == page * l < total

PoWalkStart ==
    /\ poWalk.pc \notin {"page", "select"} /\ Len(poRun.walks) > 0
    /\ LET w == Head(poRun.walks) IN
         poWalk' = [pc |-> "page", user |-> w.user, limit |-> w.limit, page |-> 1,
                    start |-> PoRowsOf(w.user), seen |-> {}, code |-> 200, total |-> 0, torn |-> FALSE]
    /\ poRun' = [poRun EXCEPT !.walks = Tail(@)]

\* PaymentRepository.List outside a transaction: SELECT COUNT(*) ...
PoCountRows ==
    /\ poWalk.pc = "page"
    /\ \/ PoFine /\ poWalk' = [poWalk EXCEPT !.pc = "select", !.total = Cardinality(PoRowsOf(poWalk.user))]
       \/ PoFault /\ PoPageFails

\* ... and then the rows; the handler answers with them and with nextPage.
PoWalkPage ==
    LET w == poWalk
        more == PoHasNext(w.page, w.limit, w.total)
    IN
    /\ w.pc = "select"
    /\ \/ /\ PoFine
          /\ poWalk' = [w EXCEPT !.seen = @ \cup PoList(w.user, w.page, w.limit),
                                 !.page = IF more THEN @ + 1 ELSE @,
                                 !.pc = IF more THEN "page" ELSE "done",
                                 !.torn = @ \/ Cardinality(PoRowsOf(w.user)) # w.total]
       \/ PoFault /\ PoPageFails

PoReadStep ==
    /\ (\E r \in PoReplica : PoUp(r)) /\ (PoReadPayment \/ PoWalkStart \/ PoCountRows \/ PoWalkPage)
    /\ UNCHANGED <<poDb, poBoot, poStore, poIntent, poCall, poOut, poTopic, poPub, poRec>>

-----------------------------------------------------------------------------

PoNext ==
    \/ \E r \in PoReplica : PoBootStep(r) \/ PoCrash(r)
    \/ PoCallStep \/ PoCustomer
    \/ PoOn("outbox") /\ PoOutboxStep
    \/ PoOn("attempts") /\ PoAttemptStep
    \/ PoReadStep

PoSpec == PoInit /\ [][PoNext]_poVars

\* Every variable has its type; a replica serves only when the database exists.
PoTypeOK ==
    /\ \A r \in PoReplica : poBoot[r].pc \in {"ping", "create", "connect", "up"} /\ (PoUp(r) => poDb)
    /\ \A r \in PoReplica : poPub[r].pc \in {"idle", "publish", "mark"} /\ poPub[r].batch \subseteq DOMAIN poOut
    /\ \A p \in DOMAIN poPay : poPay[p].status \in {"PENDING", "AUTHORIZED", "FAILED"}
    /\ \A p \in DOMAIN poAtt : poAtt[p].status \in {"none", "PROCESSING", "UNKNOWN", "SUCCEEDED", "FAILED"}
    /\ \A e \in DOMAIN poOut : poOut[e].state \in {"new", "published", "old", "gone"} /\ poTopic[e] \in Nat
    /\ poWalk.pc \in {"idle", "page", "select", "done"} /\ poWalk.code \in {0, 200, 400, 401, 403, 404, 500}

\* At least once: whatever fails, whichever replicas send the same batch, and
\* however long the cleanup runs, a row counts as published, and is deleted,
\* only after Kafka has stored its event.
PoNothingLost == \A e \in DOMAIN poOut : poOut[e].state # "new" => poTopic[e] > 0

\* Whatever is created between its pages, and between the COUNT and the SELECT
\* of a page, a client that follows nextPage finds no hole: it has missed a
\* payment that existed when it asked for the first page only if it has missed
\* every older one.  If no page was torn and no page query failed, it has missed
\* nothing at the end, given a limit that List accepts.  And an identified user
\* who is not an administrator sees no payment of somebody else.
PoWalkComplete ==
    /\ \A p \in poWalk.start, q \in poWalk.start : q \in poWalk.seen /\ p > q => p \in poWalk.seen
    /\ poWalk.pc = "done" /\ poWalk.code = 200 /\ ~poWalk.torn /\ poWalk.limit <= PoMaxLimit
         => poWalk.start \subseteq poWalk.seen
    /\ poWalk.user \notin {"admin", ""} => \A p \in poWalk.seen : poPay[p].user = poWalk.user

\* Reconciliation and recovery never claim money that is not there: an attempt
\* counts as SUCCEEDED only with an intent that Stripe holds, and its payment is
\* authorized with that very intent, or still PENDING because its own update has
\* not come yet or has failed after the attempt's; it has never FAILED.
PoSuccessIsBacked ==
    \A p \in DOMAIN poAtt : poAtt[p].status = "SUCCEEDED" =>
       /\ poAtt[p].tx \in DOMAIN poIntent
       /\ poPay[p].status = "PENDING" \/ (poPay[p].status = "AUTHORIZED" /\ poPay[p].intent = poAtt[p].tx)

=============================================================================
