------------------------------- MODULE Payment -------------------------------
(***************************************************************************)
(* One payment of payment-service: its row with the optimistic version,    *)
(* the attempts and refunds recorded for it and the events put into the    *)
(* outbox, written by gRPC requests, by the Stripe webhook and by the      *)
(* stuck recovery worker.  Payments do not interact, hence one row.        *)
(*                                                                         *)
(* A request is handled once and then done.  Between its read of the row   *)
(* and its conditional UPDATE it calls Stripe, which is external: it may   *)
(* do what it was asked or refuse, and its answer may get lost.            *)
(*                                                                         *)
(* `returned` is what Stripe has really paid back; `lost`, `missed` and    *)
(* `unsettled` are history variables.                                      *)
(***************************************************************************)
EXTENDS Integers, FiniteSets, FiniteSetsExt

CONSTANTS
    MaxRequests,    \* bound: gRPC requests about the payment
    Notice,         \* Stripe events which say that the customer has paid
    Amount,         \* amount_minor
    CaptureAmount,  \* amounts that a capture may ask for
    MaxFaults       \* bound: failing database calls, lost answers and restarts

ASSUME PaymentAssumption ==
    /\ MaxRequests \in Nat
    /\ Amount \in Nat \ {0}
    /\ CaptureAmount \subseteq Nat
    /\ MaxFaults \in Nat

\* Requests are numbered in the order of their arrival.
Request == 1 .. MaxRequests

PaymentStatus == {"PENDING", "AUTHORIZED", "CAPTURED", "CANCELLED", "FAILED", "REFUNDED"}
OperationStatus == {"PROCESSING", "SUCCEEDED", "FAILED", "UNKNOWN"}
RefundStatus == {"REFUND_PENDING", "REFUNDED", "REFUND_FAILED"}

AllowedTransitions ==
    [s \in PaymentStatus |->
        CASE s = "PENDING" -> {"AUTHORIZED", "CANCELLED", "FAILED"}
          [] s = "AUTHORIZED" -> {"CAPTURED", "CANCELLED", "FAILED"}
          [] s = "CAPTURED" -> {"REFUNDED"}
          [] OTHER -> {}]

EventType == {"payment.created", "payment.authorized", "payment.captured", "payment.completed",
              "payment.cancelled", "payment.refunded"}

Op == {"create", "authorize", "capture", "cancel", "refund"}

VARIABLES
    row,        \* the payment, status "NONE" before it is created
    attempt,    \* payment_attempts: status of the attempt of a request, "none" without one
    refund,     \* refunds: likewise
    outbox,     \* event types in payment_events_outbox
    job,        \* what the handler of each request is doing
    asked,      \* Stripe has been asked for the payment
    processed,  \* processed_provider_events
    hook,       \* what the webhook is doing with each notice
    returned,   \* money that Stripe has paid back
    faults,
    lost,       \* of the money paid back, what the service was told was not
    missed,     \* notices that were recorded as processed and then dropped
    unsettled   \* an update that settles a refund found another version

vars == <<row, attempt, refund, outbox, job, asked, processed, hook, returned, faults,
          lost, missed, unsettled>>

Row == [status : PaymentStatus \cup {"NONE"}, auth : Nat, cap : Nat, refd : Nat, pend : Nat,
        ver : Nat]

NoRow == [status |-> "NONE", auth |-> 0, cap |-> 0, refd |-> 0, pend |-> 0, ver |-> 0]

\* A handler that does not hold a payment.
Plain(label, op) == [pc |-> label, op |-> op, amt |-> 0, ok |-> FALSE, copy |-> NoRow]
NewJob == Plain("new", "create")
DoneJob == Plain("done", "create")
PlainHook(label) == [pc |-> label, copy |-> NoRow]

Init ==
    /\ row = NoRow
    /\ attempt = [r \in Request |-> "none"]
    /\ refund = [r \in Request |-> "none"]
    /\ outbox = {}
    /\ job = [r \in Request |-> NewJob]
    /\ asked = FALSE
    /\ processed = {}
    /\ hook = [e \in Notice |-> PlainHook("new")]
    /\ returned = 0
    /\ faults = 0
    /\ lost = 0 /\ missed = {} /\ unsettled = FALSE

-----------------------------------------------------------------------------
(* domain.Payment *)

CanAuthorize(p) == p.status = "PENDING"
CanCapture(p) == p.status = "AUTHORIZED"
CanCancel(p) == p.status \in {"PENDING", "AUTHORIZED"}

\* Bug: what other refunds have reserved is not subtracted.
CanRefundIgnoresPending(p, n) == p.status = "CAPTURED" /\ n > 0 /\ n <= p.cap - p.refd

CanRefund(p, n) == p.status = "CAPTURED" /\ n > 0 /\ n <= p.cap - p.refd - p.pend

Authorize(p) == [p EXCEPT !.status = "AUTHORIZED", !.auth = Amount, !.ver = @ + 1]
Capture(p, n) == [p EXCEPT !.status = "CAPTURED", !.cap = n, !.ver = @ + 1]
Cancel(p) == [p EXCEPT !.status = "CANCELLED", !.ver = @ + 1]

\* Bug: the version stays.
FailKeepsVersion(p) == [p EXCEPT !.status = "FAILED"]

Fail(p) == [p EXCEPT !.status = "FAILED", !.ver = @ + 1]

ReserveRefund(p, n) == [p EXCEPT !.pend = @ + n, !.ver = @ + 1]

CommitRefund(p, n) ==
    [p EXCEPT !.pend = @ - n, !.refd = @ + n, !.ver = @ + 1,
              !.status = IF p.refd + n >= p.cap THEN "REFUNDED" ELSE @]

ReleaseRefundReservation(p, n) == [p EXCEPT !.pend = @ - n, !.ver = @ + 1]

\* What the webhook makes of the payment.
Complete(p) == [p EXCEPT !.status = "CAPTURED", !.cap = Amount, !.auth = Amount, !.ver = @ + 1]

-----------------------------------------------------------------------------
(* Database *)

Fault ==
    /\ faults < MaxFaults
    /\ faults' = faults + 1

\* Bug: UPDATE ... WHERE id only.
UnchangedSinceAny(copy) == TRUE

\* UPDATE ... WHERE id AND version, the version before the one of the copy.
UnchangedSince(copy) == row.ver = copy.ver - 1

\* publishEvent inserts into the outbox; its error is ignored.
Publish(events) ==
    \E failed \in SUBSET events :
        /\ outbox' = outbox \cup (events \ failed)
        /\ IF failed = {} THEN UNCHANGED faults ELSE Fault

\* AttemptRepository.Create; its error is ignored.
CreateAttempt(r) ==
    \/ attempt' = [attempt EXCEPT ![r] = "PROCESSING"] /\ UNCHANGED faults
    \/ Fault /\ UNCHANGED attempt

\* AttemptRepository.UpdateStatus; its error is ignored.
UpdateAttempt(r, s) ==
    \/ /\ attempt' = IF attempt[r] = "none" THEN attempt ELSE [attempt EXCEPT ![r] = s]
       /\ UNCHANGED faults
    \/ Fault /\ UNCHANGED attempt

\* The handler goes on, with an outcome and a copy of the payment.
Advance(r, label, ok, copy) ==
    job' = [job EXCEPT ![r] = [pc |-> label, op |-> job[r].op, amt |-> job[r].amt, ok |-> ok,
                               copy |-> copy]]

Goto(r, label) == Advance(r, label, job[r].ok, job[r].copy)

\* The rest of the handler does not look at the payment any more.
Finish(r, label) == job' = [job EXCEPT ![r] = Plain(label, job[r].op)]

Return(r) == job' = [job EXCEPT ![r] = DoneJob]
HookReturn(e) == hook' = [hook EXCEPT ![e] = PlainHook("done")]
At(r, label) == job[r].pc = label

hookVars == <<asked, processed, hook, missed>>
moneyVars == <<returned, lost, unsettled>>

-----------------------------------------------------------------------------
(* Requests *)

\* NewPayment is stored with its event and its attempt; the errors of these
\* two are ignored.  Nobody else knows of the payment yet, so this is one step.
CreatePayment(r) ==
    /\ At(r, "new")
    /\ row.status = "NONE"
    /\ row' = [NoRow EXCEPT !.status = "PENDING"]
    /\ \/ Publish({"payment.created"}) /\ attempt' = [attempt EXCEPT ![r] = "PROCESSING"]
       \/ Fault /\ outbox' = outbox \cup {"payment.created"} /\ UNCHANGED attempt
    /\ job' = [job EXCEPT ![r] = [pc |-> "provider", op |-> "create", amt |-> 0, ok |-> FALSE,
                                  copy |-> row']]
    /\ UNCHANGED <<refund, hookVars, moneyVars>>

CanStart(op, p) ==
    CASE op = "authorize" -> CanAuthorize(p)
      [] op = "capture" -> CanCapture(p)
      [] op = "cancel" -> CanCancel(p)

\* AuthorizePayment, CapturePayment and CancelAuthorization read the payment,
\* check it and note the attempt.  A request that is refused here has changed
\* nothing, and neither has one whose read fails.
ReadPayment(r, op, n) ==
    /\ At(r, "new")
    /\ row.status # "NONE" /\ CanStart(op, row)
    /\ job' = [job EXCEPT ![r] = [pc |-> "provider", op |-> op, amt |-> n, ok |-> FALSE,
                                  copy |-> row]]
    /\ CreateAttempt(r)
    /\ UNCHANGED <<row, refund, outbox, hookVars, moneyVars>>

\* CreateRefund reads the payment and reserves in its copy, or refuses.
ReadForRefund(r, n) ==
    /\ At(r, "new")
    /\ row.status # "NONE" /\ CanRefund(row, n)
    /\ job' = [job EXCEPT ![r] = [pc |-> "reserve", op |-> "refund", amt |-> n, ok |-> FALSE,
                                  copy |-> ReserveRefund(row, n)]]
    /\ UNCHANGED <<row, attempt, refund, outbox, faults, hookVars, moneyVars>>

\* The reservation is saved.  An error ends the request, also one that comes
\* after the UPDATE was applied.
SaveReservation(r) ==
    /\ At(r, "reserve")
    /\ LET won == UnchangedSince(job[r].copy) IN
       \/ /\ row' = IF won THEN job[r].copy ELSE row
          /\ IF won THEN Goto(r, "create") ELSE Return(r)
          /\ UNCHANGED faults
       \/ /\ won /\ row' = job[r].copy
          /\ Return(r)
          /\ Fault
    /\ UNCHANGED <<attempt, refund, outbox, hookVars, moneyVars>>

\* Bug: the reservation stays when the refund does not succeed.
SettledRefundKeeps(r, ok) ==
    IF ok THEN CommitRefund(job[r].copy, job[r].amt) ELSE [job[r].copy EXCEPT !.ver = @ + 1]

\* What becomes of the reservation.
SettledRefund(r, ok) ==
    IF ok THEN CommitRefund(job[r].copy, job[r].amt)
    ELSE ReleaseRefundReservation(job[r].copy, job[r].amt)

CreateRefundRow(r) ==
    /\ At(r, "create")
    /\ \/ /\ refund' = [refund EXCEPT ![r] = "REFUND_PENDING"]
          /\ Goto(r, "provider")
          /\ UNCHANGED faults
       \/ /\ Fault
          /\ Advance(r, "update", FALSE, SettledRefund(r, FALSE))
          /\ UNCHANGED refund
    /\ UNCHANGED <<row, attempt, outbox, hookVars, moneyVars>>

-----------------------------------------------------------------------------
(* Stripe *)

\* Stripe pays money back or not; when the answer gets lost, the service sees
\* an error in both cases.
RefundAtProvider(r, ok) ==
    \/ /\ ok /\ returned' = returned + job[r].amt
       /\ UNCHANGED <<faults, lost>>
    \/ ~ok /\ UNCHANGED <<returned, faults, lost>>
    \/ /\ ~ok /\ Fault
       /\ returned' = returned + job[r].amt
       /\ lost' = lost + job[r].amt

\* CreateRefund calls the provider.
CallRefund(r) ==
    /\ At(r, "provider") /\ job[r].op = "refund"
    /\ \E ok \in BOOLEAN :
          /\ RefundAtProvider(r, ok)
          /\ Advance(r, "record", ok, job[r].copy)
    /\ UNCHANGED <<row, attempt, refund, outbox, hookVars, unsettled>>

\* Authorize, Capture and Void: done, refused, or timed out with the outcome
\* unknown.  Only a refusal or success goes on.  payment.Capture looks at the
\* amount after Stripe has captured, and its error leaves the attempt as it is.
CallProvider(r) ==
    /\ At(r, "provider") /\ job[r].op # "refund"
    /\ \/ \E ok \in BOOLEAN :
             /\ IF ok /\ job[r].op = "capture" /\ job[r].amt \notin 1..job[r].copy.auth
                THEN Return(r)
                ELSE Advance(r, "record", ok, job[r].copy)
             /\ UNCHANGED faults
       \/ Fault /\ Finish(r, "timeout")
    /\ asked' = TRUE
    /\ UNCHANGED <<row, attempt, refund, outbox, processed, hook, missed, moneyVars>>

\* The attempt is left to reconciliation, which asks Stripe for an empty
\* transaction id and never learns anything; the payment stays as it is.
MarkUnknown(r) ==
    /\ At(r, "timeout")
    /\ UpdateAttempt(r, "UNKNOWN")
    /\ Return(r)
    /\ UNCHANGED <<row, refund, outbox, hookVars, moneyVars>>

-----------------------------------------------------------------------------
(* After the answer *)

\* The copy with what the operation has achieved.
Applied(op, p, n) ==
    CASE op \in {"create", "authorize"} -> Authorize(p)
      [] op = "capture" -> Capture(p, n)
      [] op = "cancel" -> Cancel(p)

\* The attempt gets its result.  Of the refusals only the one of CreatePayment
\* changes the payment.
RecordAttempt(r) ==
    /\ At(r, "record") /\ job[r].op # "refund"
    /\ UpdateAttempt(r, IF job[r].ok THEN "SUCCEEDED" ELSE "FAILED")
    /\ IF job[r].ok
       THEN Advance(r, "update", TRUE, Applied(job[r].op, job[r].copy, job[r].amt))
       ELSE IF job[r].op = "create"
            THEN Advance(r, "update", FALSE, Fail(job[r].copy))
            ELSE Return(r)
    /\ UNCHANGED <<row, refund, outbox, hookVars, moneyVars>>

RecordRefund(r) ==
    /\ At(r, "record") /\ job[r].op = "refund"
    /\ \/ /\ refund' = [refund EXCEPT ![r] = IF job[r].ok THEN "REFUNDED" ELSE "REFUND_FAILED"]
          /\ UNCHANGED faults
       \/ Fault /\ UNCHANGED refund
    /\ Advance(r, "update", job[r].ok, SettledRefund(r, job[r].ok))
    /\ UNCHANGED <<row, attempt, outbox, hookVars, moneyVars>>

\* UpdateConditional.  A refund goes on whatever the outcome, the others only
\* when they have written the row.
UpdateConditional(r) ==
    /\ At(r, "update")
    /\ LET won == UnchangedSince(job[r].copy)
           goes == job[r].ok /\ (job[r].op = "refund" \/ won)
       IN  \/ /\ row' = IF won THEN job[r].copy ELSE row
              /\ IF goes THEN Finish(r, "announce") ELSE Return(r)
              /\ unsettled' = (unsettled \/ (job[r].op = "refund" /\ ~won))
              /\ UNCHANGED faults
           \/ /\ Fault
              /\ (won /\ row' = job[r].copy) \/ UNCHANGED row
              /\ IF job[r].ok /\ job[r].op = "refund" THEN Finish(r, "announce") ELSE Return(r)
              /\ UNCHANGED unsettled
    /\ UNCHANGED <<attempt, refund, outbox, hookVars, returned, lost>>

EventsOf(op) ==
    CASE op \in {"create", "authorize"} -> {"payment.authorized"}
      [] op = "capture" -> {"payment.captured", "payment.completed"}
      [] op = "cancel" -> {"payment.cancelled"}
      [] op = "refund" -> {"payment.refunded"}

Announce(r) ==
    /\ At(r, "announce")
    /\ Publish(EventsOf(job[r].op))
    /\ Return(r)
    /\ UNCHANGED <<row, attempt, refund, hookVars, moneyVars>>

-----------------------------------------------------------------------------
(* The webhook *)

hookRest == <<attempt, refund, job, asked, returned, lost, unsettled>>

\* The customer may have paid once Stripe was asked for the payment, and Stripe
\* says so: InsertProcessedProviderEvent.  After an error it says so again, and
\* if the row was inserted all the same, that is taken for a duplicate.
RecordNotice(e) ==
    /\ asked /\ e \notin processed
    /\ \/ /\ processed' = processed \cup {e}
          /\ hook' = [hook EXCEPT ![e] = PlainHook("find")]
          /\ UNCHANGED <<faults, missed>>
       \/ /\ Fault
          /\ \/ processed' = processed \cup {e} /\ missed' = missed \cup {e}
             \/ UNCHANGED <<processed, missed>>
          /\ UNCHANGED hook
    /\ UNCHANGED <<row, outbox, hookRest>>

\* completePayment leaves a captured payment alone, and no other.
FindPayment(e) ==
    /\ hook[e].pc = "find"
    /\ \/ /\ row.status = "CAPTURED"
          /\ HookReturn(e)
          /\ UNCHANGED <<faults, missed>>
       \/ /\ row.status # "CAPTURED"
          /\ hook' = [hook EXCEPT ![e] = [pc |-> "update", copy |-> Complete(row)]]
          /\ UNCHANGED <<faults, missed>>
       \/ /\ Fault
          /\ HookReturn(e)
          /\ missed' = missed \cup {e}
    /\ UNCHANGED <<row, outbox, processed, hookRest>>

\* Whatever comes of it, Stripe gets 200 and does not deliver again.
SaveCompleted(e) ==
    /\ hook[e].pc = "update"
    /\ LET won == UnchangedSince(hook[e].copy) IN
       \/ /\ row' = IF won THEN hook[e].copy ELSE row
          /\ IF won THEN hook' = [hook EXCEPT ![e] = PlainHook("announce")]
                     ELSE HookReturn(e)
          /\ missed' = IF won THEN missed ELSE missed \cup {e}
          /\ UNCHANGED faults
       \/ /\ Fault
          /\ (won /\ row' = hook[e].copy) \/ UNCHANGED row
          /\ HookReturn(e)
          /\ missed' = missed \cup {e}
    /\ UNCHANGED <<outbox, processed, hookRest>>

\* Bug: the other services are not told.
AnnounceCompletedSilent(e) ==
    /\ hook[e].pc = "announce"
    /\ HookReturn(e)
    /\ UNCHANGED <<row, outbox, processed, faults, missed, hookRest>>

AnnounceCompleted(e) ==
    /\ hook[e].pc = "announce"
    /\ Publish({"payment.completed"})
    /\ HookReturn(e)
    /\ UNCHANGED <<row, processed, missed, hookRest>>

-----------------------------------------------------------------------------
(* Background *)

\* Bug: the worker looks for attempts that were never started.
StuckNever(r) == attempt[r] = "NOT_STARTED"

Stuck(r) == attempt[r] = "PROCESSING"

\* StuckRecoveryWorker, for one attempt.  The request may still be at work
\* and then overwrites the mark with its own result.
StuckRecovery(r) ==
    /\ Stuck(r)
    /\ attempt' = [attempt EXCEPT ![r] = "UNKNOWN"]
    /\ UNCHANGED <<row, refund, outbox, job, faults, hookVars, moneyVars>>

\* The service restarts; what its handlers were doing is not taken up again.
Restart ==
    /\ Fault
    /\ job' = [r \in Request |-> IF job[r].pc = "new" THEN job[r] ELSE DoneJob]
    /\ hook' = [e \in Notice |-> IF hook[e].pc = "new" THEN hook[e] ELSE PlainHook("done")]
    /\ missed' = missed \cup {e \in Notice : hook[e].pc \notin {"new", "done"}}
    /\ UNCHANGED <<row, attempt, refund, outbox, asked, processed, moneyVars>>

-----------------------------------------------------------------------------
(* Specification *)

Arrive(r) ==
    /\ \A q \in Request : q < r => ~At(q, "new")
    /\ \/ CreatePayment(r)
       \/ ReadPayment(r, "authorize", 0)
       \/ \E n \in CaptureAmount : ReadPayment(r, "capture", n)
       \/ ReadPayment(r, "cancel", 0)
       \/ \E n \in 1..Amount : ReadForRefund(r, n)

Proceed(r) ==
    \/ SaveReservation(r) \/ CreateRefundRow(r) \/ CallRefund(r) \/ CallProvider(r)
    \/ MarkUnknown(r) \/ RecordAttempt(r) \/ RecordRefund(r) \/ UpdateConditional(r) \/ Announce(r)

Webhook(e) == FindPayment(e) \/ SaveCompleted(e) \/ AnnounceCompleted(e)

Next ==
    \/ \E r \in Request : Arrive(r) \/ Proceed(r) \/ StuckRecovery(r)
    \/ \E e \in Notice : RecordNotice(e) \/ Webhook(e)
    \/ Restart

\* Handlers run on and the worker ticks.  Nobody has to ask for anything or to pay.
Fairness ==
    /\ \A r \in Request : WF_vars(Proceed(r)) /\ WF_vars(StuckRecovery(r))
    /\ \A e \in Notice : WF_vars(Webhook(e))

Spec == Init /\ [][Next]_vars /\ Fairness

-----------------------------------------------------------------------------
(* Properties *)

JobPC == {"new", "reserve", "create", "provider", "timeout", "record", "update", "announce", "done"}
Job == [pc : JobPC, op : Op, amt : Nat, ok : BOOLEAN, copy : Row]

\* Every variable has its type, and a copy that is about to be saved has a
\* version after the one it was read with.
TypeOK ==
    /\ row \in Row
    /\ attempt \in [Request -> OperationStatus \cup {"none"}]
    /\ refund \in [Request -> RefundStatus \cup {"none"}]
    /\ outbox \subseteq EventType
    /\ job \in [Request -> Job]
    /\ asked \in BOOLEAN
    /\ processed \subseteq Notice /\ missed \subseteq processed
    /\ hook \in [Notice -> [pc : {"new", "find", "update", "announce", "done"}, copy : Row]]
    /\ returned \in Nat /\ lost \in Nat /\ faults \in Nat
    /\ unsettled \in BOOLEAN
    /\ \A r \in Request : At(r, "reserve") \/ At(r, "update") => job[r].copy.ver > 0

\* The amounts of the row make sense together, whatever races for it: what is
\* refunded and reserved for refunds was captured, and what was captured was
\* authorized.
RefundsWithinCapture ==
    /\ row.refd + row.pend <= row.cap
    /\ row.cap <= row.auth /\ row.auth <= Amount

\* Refunds that have their reservation and are not settled.
InFlight == {r \in Request : job[r].op = "refund" /\ job[r].pc \in {"create", "provider", "record", "update"}}

\* Concurrent refunds never share a reservation, and all the money that Stripe
\* has paid back is in the row as refunded or reserved, but for the refunds
\* that Stripe made and the service was told had failed.
ReturnedIsAccounted ==
    /\ MapThenSumSet(LAMBDA r : job[r].amt, InFlight) <= row.pend
    /\ returned <= row.refd + row.pend + lost

\* The status moves along AllowedTransitions, except when the webhook sets
\* CAPTURED: no two requests overwrite each other's outcome.
LegalUnlessWebhook ==
    [][row'.status # row.status /\ row.status # "NONE" =>
          \/ row'.status \in AllowedTransitions[row.status]
          \/ \E e \in Notice : hook[e].pc = "update" /\ hook'[e].pc # "update"]_vars

\* A payment that Stripe has reported as paid is announced to the other
\* services, unless the webhook drops the report after it was recorded as
\* processed (it lost a race for the row), or a call failed.
PaidIsAnnounced ==
    \A e \in Notice : e \in processed ~> ("payment.completed" \in outbox \/ e \in missed \/ faults > 0)

\* A reservation for a refund does not stay, unless an update that was to
\* settle a refund lost a race, or a call failed.
ReservationsEnd == <>[](row.pend = 0 \/ unsettled \/ faults > 0)

\* No attempt stays PROCESSING, wherever its request was cut off.
AttemptsSettle == <>[](\A r \in Request : attempt[r] # "PROCESSING")

=============================================================================
