-------------------------- MODULE DeliveryLifecycle --------------------------
(***************************************************************************)
(* The life of one delivery in delivery-service: its row, its status       *)
(* history and its outbox events, written by the creation saga, the Kafka  *)
(* consumer, the dispatch scheduler, the ten minute timer and GraphQL      *)
(* requests; and its payment in payment-service, as far as the delivery    *)
(* can tell.                                                               *)
(*                                                                         *)
(* These run concurrently on one row without transactions.  A command of   *)
(* DeliveryCommandService reads the row, changes its copy and saves the    *)
(* whole copy, so each process is a list of commands and every database    *)
(* call is a step.  Deliveries do not interact, hence one row.             *)
(*                                                                         *)
(* `reached`, `stale` and `byHand` are history variables.                  *)
(***************************************************************************)
EXTENDS Naturals, Sequences

CONSTANTS
    Driver,
    NoDriver,
    User,           \* GraphQL requests that can run at once
    Requests,       \* the statuses users ask for; CANCELLED also by cancelDelivery
    Begin,          \* for each start, the length of a prefix of Path, the bound on what
                    \* follows: Kafka messages and GraphQL requests
    MaxFaults       \* bound: answers of payment-service that get lost, and restarts

Status == {"CREATED", "PENDING_PAYMENT", "PAYMENT_CONFIRMED", "DRIVER_ASSIGNED", "DRIVER_ACCEPTED",
           "PICKED_UP", "IN_TRANSIT", "DELIVERED", "COMPLETED", "CANCELLED", "FAILED"}
PaymentStatus == {"PENDING", "AUTHORIZED", "COMPLETED", "FAILED", "CANCELLED", "REFUNDED"}

\* The statuses of a delivery that goes well, up to the last but two.
Path == <<"CREATED", "PAYMENT_CONFIRMED", "DRIVER_ASSIGNED", "DRIVER_ACCEPTED", "PICKED_UP",
          "IN_TRANSIT">>

ASSUME LifecycleAssumption ==
    /\ DOMAIN Begin \subseteq {0} \cup 2..Len(Path)
    /\ \A n \in DOMAIN Begin : Begin[n] \in Nat
    /\ Driver # {} /\ NoDriver \notin Driver
    /\ Requests \subseteq Status
    /\ MaxFaults \in Nat

\* The payment as payment-service has it.  A payment with a checkout link is
\* AUTHORIZED there as well, long before the customer has paid.
Payment == {"none", "checkout", "authorized", "captured"}

\* The payment calls that are fired and not awaited.
Call == {"capture", "void", "refund"}
Proc == {"saga", "consumer", "scheduler", "timer"} \cup User

Event == {"delivery.created", "driver.assigned", "driver.accepted", "delivery.picked_up",
          "delivery.in_transit", "delivery.completed", "delivery.cancelled"}

VARIABLES
    row,        \* the delivery, status "NONE" before it is created
    hist,       \* statuses in delivery_status_history
    outbox,     \* event types stored for the delivery
    proc,       \* what every process has left to do
    payment,    \* in payment-service
    calls,      \* payment calls under way
    timer,      \* the setTimeout of createDelivery is armed
    old,        \* ten minutes have passed since createdAt
    inputs,     \* inputs still to come
    faults,
    reached,    \* every status the row has had
    stale,      \* a save has replaced a row that changed after it was read
    byHand      \* a request of a user has saved PAYMENT_CONFIRMED

vars == <<row, hist, outbox, proc, payment, calls, timer, old, inputs, faults, reached, stale, byHand>>
dbVars == <<row, hist, outbox, reached, stale, byHand>>
extVars == <<payment, calls, timer, old, inputs, faults>>

Row == [status : Status \cup {"NONE"}, driver : Driver \cup {NoDriver}, pay : PaymentStatus]

-----------------------------------------------------------------------------
(* DeliveryStateMachine *)

transitions ==
    [s \in Status |->
        CASE s = "CREATED" -> {"PENDING_PAYMENT", "PAYMENT_CONFIRMED", "DRIVER_ASSIGNED", "CANCELLED"}
          [] s = "PENDING_PAYMENT" -> {"PAYMENT_CONFIRMED", "CANCELLED", "FAILED"}
          [] s = "PAYMENT_CONFIRMED" -> {"DRIVER_ASSIGNED", "CANCELLED"}
          [] s = "DRIVER_ASSIGNED" -> {"DRIVER_ACCEPTED", "CANCELLED"}
          [] s = "DRIVER_ACCEPTED" -> {"PICKED_UP", "CANCELLED"}
          [] s = "PICKED_UP" -> {"IN_TRANSIT", "CANCELLED"}
          [] s = "IN_TRANSIT" -> {"DELIVERED", "FAILED"}
          [] s = "DELIVERED" -> {"COMPLETED"}
          [] OTHER -> {}]

\* Bug: the status of the row is not compared with the state machine.
anyTransition(from, to) == TRUE

canTransition(from, to) == from \in Status /\ to \in transitions[from]

statusToKafkaTopic(s) ==
    CASE s = "PAYMENT_CONFIRMED" -> "delivery.created"
      [] s = "DRIVER_ASSIGNED" -> "driver.assigned"
      [] s = "DRIVER_ACCEPTED" -> "driver.accepted"
      [] s = "PICKED_UP" -> "delivery.picked_up"
      [] s = "IN_TRANSIT" -> "delivery.in_transit"
      [] s \in {"DELIVERED", "COMPLETED"} -> "delivery.completed"
      [] s = "CANCELLED" -> "delivery.cancelled"
      [] OTHER -> "none"

-----------------------------------------------------------------------------
(* Commands *)

Cmd(op, to, by) == [op |-> op, to |-> to, by |-> by]
Transition(s, d) == Cmd("transition", s, d)
UpdatePayment(v) == Cmd("payment", v, NoDriver)
Cancel == Cmd("cancel", "CANCELLED", NoDriver)
AcceptDriver(d) == Cmd("accept", "none", d)
Redispatch == Cmd("redispatch", "none", NoDriver)
SearchTimeout == Cmd("timeout", "none", NoDriver)
StoreRetry == Cmd("retry", "none", NoDriver)
AskPayment == Cmd("askPayment", "none", NoDriver)
ReserveStep == Cmd("reserve", "none", NoDriver)

NoRow == [status |-> "NONE", driver |-> NoDriver, pay |-> "PENDING"]
Stopped == [todo |-> <<>>, catch |-> <<>>, pc |-> "read", base |-> NoRow, copy |-> NoRow]

\* Before createDelivery.
New ==
    /\ row = NoRow
    /\ hist = {} /\ outbox = {} /\ reached = {}
    /\ payment = "none" /\ timer = FALSE

\* After the first n statuses of Path, with everything that was started for
\* them finished.  Either the funds were authorized by the saga, or the
\* customer has paid by a checkout link, and then no timer was set.
Underway(n) ==
    \E d \in Driver, byLink \in BOOLEAN :
       /\ row = [status |-> Path[n], driver |-> IF n > 2 THEN d ELSE NoDriver,
                 pay |-> IF byLink THEN "COMPLETED" ELSE "AUTHORIZED"]
       /\ reached = {Path[i] : i \in 1..n} \cup (IF byLink THEN {"PENDING_PAYMENT"} ELSE {})
       /\ hist = reached \ {"CREATED"}
       /\ outbox = {statusToKafkaTopic(s) : s \in hist} \ {"none"}
       /\ payment = IF byLink THEN "captured" ELSE "authorized"
       /\ timer = ~byLink

Init ==
    /\ \E n \in DOMAIN Begin :
          /\ IF n = 0 THEN New ELSE Underway(n)
          /\ inputs = Begin[n]
    /\ proc = [p \in Proc |-> Stopped]
    /\ calls = {} /\ old = FALSE
    /\ faults = 0 /\ stale = FALSE /\ byHand = FALSE

Idle(p) == proc[p].todo = <<>>
Current(p) == Head(proc[p].todo)
At(p, op, pc) == ~Idle(p) /\ Current(p).op = op /\ proc[p].pc = pc

Start(p, todo) == proc' = [proc EXCEPT ![p] = [Stopped EXCEPT !.todo = todo]]

\* The current command is replaced by the commands it goes on with.
GoOn(p, cmds) ==
    LET rest == cmds \o Tail(proc[p].todo) IN
    proc' = [proc EXCEPT ![p] = [Stopped EXCEPT !.todo = rest,
                                                !.catch = IF rest = <<>> THEN <<>> ELSE proc[p].catch]]
Done(p) == GoOn(p, <<>>)

\* An exception: the rest is dropped, the catch block runs if there is one.
Throw(p) == Start(p, proc[p].catch)

\* The command has read the row and its history, and goes on to `label` with
\* the copy `new`.
HasRead(p, label, new) ==
    proc' = [proc EXCEPT ![p].pc = label, ![p].base = row, ![p].copy = new]

WillSave(p, new) == HasRead(p, "save", new)

\* DeliveryRepository.save: the row takes every column of the copy.  The copy
\* must hold all rows of the history, see SaveRefused.
SaveRow(p) ==
    /\ proc[p].copy # NoRow
    /\ row' = proc[p].copy
    /\ reached' = reached \cup {proc[p].copy.status}
    /\ stale' = (stale \/ row # proc[p].base)
    /\ byHand' = (byHand \/ (p \in User /\ proc[p].copy.status = "PAYMENT_CONFIRMED"))

Fault ==
    /\ faults < MaxFaults
    /\ faults' = faults + 1

-----------------------------------------------------------------------------
(* DeliveryCommandService.transition: read and check, append the history,  *)
(* save the row, store the event                                           *)

ReadTransition(p) ==
    /\ At(p, "transition", "read")
    /\ LET to == Current(p).to IN
       \/ row.status = to /\ Done(p)
       \/ row.status # to /\ ~canTransition(row.status, to) /\ Throw(p)
       \/ /\ row.status # to /\ canTransition(row.status, to)
          /\ HasRead(p, "append", [row EXCEPT !.status = to,
                                              !.driver = IF to = "DRIVER_ASSIGNED" /\ @ = NoDriver
                                                         THEN Current(p).by ELSE @])
    /\ UNCHANGED <<dbVars, extVars>>

\* appendHistory inserts the row and adds it to the copy of this process.
\* Every other copy in memory now lacks it and can no longer be saved; the
\* model forgets what it held.
AppendHistory(p) ==
    /\ At(p, "transition", "append")
    /\ hist' = hist \cup {Current(p).to}
    /\ proc' = [q \in Proc |->
                   IF q = p THEN [proc[p] EXCEPT !.pc = "save"]
                   ELSE [proc[q] EXCEPT !.base = NoRow, !.copy = NoRow]]
    /\ UNCHANGED <<row, outbox, reached, stale, byHand, extVars>>

\* TypeORM (external) takes a history row that the saved copy lacks for one
\* to detach, and its deliveryId cannot be NULL: the save throws.
SaveRefused(p) ==
    /\ \E op \in {"transition", "payment", "accept"} : At(p, op, "save")
    /\ proc[p].copy = NoRow
    /\ Throw(p)
    /\ UNCHANGED <<dbVars, extVars>>

\* Bug: the event is stored before the row is saved.
SaveTransitionEventFirst(p) ==
    /\ At(p, "transition", "save")
    /\ outbox' = outbox \cup ({statusToKafkaTopic(Current(p).to)} \ {"none"})
    /\ \/ outbox' # outbox /\ UNCHANGED <<proc, row, reached, stale, byHand>>
       \/ outbox' = outbox /\ SaveRow(p) /\ Done(p)
    /\ UNCHANGED <<hist, extVars>>

\* Bug: the null topic is not left out.
AnnouncedAlways(p) == TRUE

\* Bug: nothing is stored for a transition by a user.
AnnouncedUnlessUser(p) == p \notin User /\ statusToKafkaTopic(Current(p).to) # "none"

Announced(p) == statusToKafkaTopic(Current(p).to) # "none"

SaveTransition(p) ==
    /\ At(p, "transition", "save")
    /\ SaveRow(p)
    /\ IF Announced(p)
       THEN proc' = [proc EXCEPT ![p] = [@ EXCEPT !.pc = "emit", !.base = NoRow, !.copy = NoRow]]
       ELSE Done(p)
    /\ UNCHANGED <<hist, outbox, extVars>>

Captures(s) == s \in {"DELIVERED", "COMPLETED"}

\* On completion the escrow is to be captured by a call nobody waits for; calls
\* of one kind are alike.
StoreEvent(p) ==
    /\ At(p, "transition", "emit")
    /\ outbox' = outbox \cup {statusToKafkaTopic(Current(p).to)}
    /\ calls' = IF Captures(Current(p).to) THEN calls \cup {"capture"} ELSE calls
    /\ Done(p)
    /\ UNCHANGED <<row, hist, payment, timer, old, inputs, faults, reached, stale, byHand>>

-----------------------------------------------------------------------------
(* updatePaymentStatus *)

ReadPayment(p) ==
    /\ At(p, "payment", "read")
    /\ WillSave(p, [row EXCEPT !.pay = Current(p).to])
    /\ UNCHANGED <<dbVars, extVars>>

\* The saga goes on to its driver step with the entity that was saved.
SavePayment(p) ==
    /\ At(p, "payment", "save")
    /\ SaveRow(p)
    /\ IF Tail(proc[p].todo) = <<ReserveStep>>
       THEN Start(p, <<[ReserveStep EXCEPT !.by = proc[p].copy.driver]>>)
       ELSE Done(p)
    /\ UNCHANGED <<hist, outbox, extVars>>

-----------------------------------------------------------------------------
(* cancel: the money is to go back by a call nobody waits for, whether or not *)
(* the transition that follows is allowed.                                   *)

ReadCancel(p) ==
    /\ At(p, "cancel", "read")
    /\ calls' = CASE row.pay = "AUTHORIZED" -> calls \cup {"void"}
                  [] row.pay = "COMPLETED" -> calls \cup {"refund"}
                  [] OTHER -> calls
    /\ GoOn(p, <<Transition("CANCELLED", NoDriver)>>)
    /\ UNCHANGED <<dbVars, payment, timer, old, inputs, faults>>

-----------------------------------------------------------------------------
(* acceptDriver *)

\* The branch is taken on the status that was read.
Accepting(status, d) ==
    IF status \in {"PAYMENT_CONFIRMED", "CREATED"}
    THEN <<Transition("DRIVER_ASSIGNED", d), Transition("DRIVER_ACCEPTED", d)>>
    ELSE <<Transition("DRIVER_ACCEPTED", d)>>

ReadAccept(p) ==
    /\ At(p, "accept", "read")
    /\ IF row.driver = NoDriver
       THEN WillSave(p, [row EXCEPT !.driver = Current(p).by])
       ELSE GoOn(p, Accepting(row.status, Current(p).by))
    /\ UNCHANGED <<dbVars, extVars>>

SaveAccept(p) ==
    /\ At(p, "accept", "save")
    /\ SaveRow(p)
    /\ GoOn(p, Accepting(proc[p].copy.status, Current(p).by))
    /\ UNCHANGED <<hist, outbox, extVars>>

-----------------------------------------------------------------------------
(* handleDriverRejectedOrExpired, retryDriverDispatch and                  *)
(* handleDriverSearchTimeout                                               *)

SearchOver(s) == s \in {"DRIVER_ACCEPTED", "CANCELLED", "FAILED", "COMPLETED"}

\* Bug: nobody looks at the ten minutes.
AlwaysSearchOn == <<StoreRetry>>

\* Both ways to search again give up ten minutes after createdAt.
SearchOn == IF old THEN <<SearchTimeout>> ELSE <<StoreRetry>>

ReadRedispatch(p) ==
    /\ At(p, "redispatch", "read")
    /\ IF SearchOver(row.status)
       THEN Done(p)
       ELSE proc' = [proc EXCEPT ![p].pc = "save"]
    /\ UNCHANGED <<dbVars, extVars>>

\* An UPDATE of the one column, then the ten minutes are looked at.
ClearDriverId(p) ==
    /\ At(p, "redispatch", "save")
    /\ row' = [row EXCEPT !.driver = NoDriver]
    /\ GoOn(p, SearchOn)
    /\ UNCHANGED <<hist, outbox, reached, stale, byHand, extVars>>

\* delivery.created again, to find another driver.
StoreRetryEvent(p) ==
    /\ At(p, "retry", "read")
    /\ outbox' = outbox \cup {"delivery.created"}
    /\ Done(p)
    /\ UNCHANGED <<row, hist, reached, stale, byHand, extVars>>

ReadTimeout(p) ==
    /\ At(p, "timeout", "read")
    /\ IF SearchOver(row.status) THEN Done(p) ELSE GoOn(p, <<Cancel>>)
    /\ UNCHANGED <<dbVars, extVars>>

-----------------------------------------------------------------------------
(* createDelivery and its saga *)

PaymentFailed == <<UpdatePayment("FAILED"), Cancel>>

CreateDelivery ==
    /\ row.status = "NONE"
    /\ row' = [NoRow EXCEPT !.status = "CREATED"]
    /\ reached' = {"CREATED"}
    /\ Start("saga", <<AskPayment>>)
    /\ UNCHANGED <<hist, outbox, stale, byHand, extVars>>

RunPaymentStep(todo) ==
    proc' = [proc EXCEPT !["saga"] = [Stopped EXCEPT !.todo = todo, !.catch = PaymentFailed]]

\* Bug: the status of the answer is read and its link is not.
CreatePaymentIgnoresLink ==
    /\ At("saga", "askPayment", "read")
    /\ payment' \in {"checkout", "authorized"}
    /\ RunPaymentStep(<<Transition("PAYMENT_CONFIRMED", NoDriver), UpdatePayment("AUTHORIZED"), ReserveStep>>)
    /\ UNCHANGED <<dbVars, calls, timer, old, inputs, faults>>

\* CreatePayment answers AUTHORIZED, with or without a checkout link, or with
\* an error.  An answer that is lost, a timeout of the provider too, may leave
\* a payment behind that nobody has the link of.
CreatePayment ==
    /\ At("saga", "askPayment", "read")
    /\ \/ /\ payment' = "checkout" /\ UNCHANGED faults
          /\ RunPaymentStep(<<Transition("PENDING_PAYMENT", NoDriver), UpdatePayment("PENDING")>>)
       \/ /\ payment' = "authorized" /\ UNCHANGED faults
          /\ RunPaymentStep(<<Transition("PAYMENT_CONFIRMED", NoDriver), UpdatePayment("AUTHORIZED"),
                              ReserveStep>>)
       \/ /\ UNCHANGED <<payment, faults>>
          /\ Start("saga", PaymentFailed)
       \/ /\ payment' = "authorized" /\ Fault
          /\ Start("saga", PaymentFailed)
    /\ UNCHANGED <<dbVars, calls, timer, old, inputs>>

\* DriverAssignmentStep: a driver that is already on the row is reserved over
\* gRPC, which may be refused.  Then the payment step is compensated, first by
\* CancelAuthorization, which fails like the calls of AnswerCall: its
\* payment_id is not the name that the gRPC client has for the field.
ReserveDriver ==
    /\ At("saga", "reserve", "read")
    /\ \/ Start("saga", <<>>) /\ timer' = TRUE
       \/ /\ Current("saga").by # NoDriver
          /\ Start("saga", <<Cancel, UpdatePayment("CANCELLED")>>)
          /\ UNCHANGED timer
    /\ UNCHANGED <<dbVars, payment, calls, old, inputs, faults>>

-----------------------------------------------------------------------------
(* Inputs *)

Input ==
    /\ inputs > 0
    /\ inputs' = inputs - 1

\* handleMessage takes one Kafka message at a time.  Drivers answer once the
\* delivery was announced; any message may come again or late.
ReceiveDriverEvent ==
    /\ Idle("consumer") /\ Input
    /\ "delivery.created" \in outbox
    /\ \/ \E d \in Driver : Start("consumer", <<AcceptDriver(d)>>)
       \/ Start("consumer", <<Redispatch>>)
    /\ UNCHANGED <<dbVars, payment, calls, timer, old, faults>>

\* completePayment: the customer pays by the link and Stripe calls the webhook.
CompletePayment ==
    /\ payment = "checkout"
    /\ payment' = "captured"
    /\ UNCHANGED <<dbVars, proc, calls, timer, old, inputs, faults>>

\* The message of completePayment.  payment.failed, which has a topic but is
\* not published today, could come for a checkout that is not paid.
ReceivePaymentEvent ==
    /\ Idle("consumer") /\ Input
    /\ \/ /\ payment = "captured"
          /\ Start("consumer", <<UpdatePayment("COMPLETED"), Transition("PAYMENT_CONFIRMED", NoDriver)>>)
       \/ /\ payment = "checkout"
          /\ Start("consumer", PaymentFailed)
    /\ UNCHANGED <<dbVars, payment, calls, timer, old, faults>>

\* transitionDelivery and cancelDelivery.
UserRequest(u) ==
    /\ Idle(u) /\ Input
    /\ row.status # "NONE"
    /\ \/ \E s \in Requests, d \in Driver : Start(u, <<Transition(s, d)>>)
       \/ "CANCELLED" \in Requests /\ Start(u, <<Cancel>>)
    /\ UNCHANGED <<dbVars, payment, calls, timer, old, faults>>

-----------------------------------------------------------------------------
(* Time *)

TenMinutesPass ==
    /\ row.status # "NONE" /\ ~old
    /\ old' = TRUE
    /\ UNCHANGED <<dbVars, proc, payment, calls, timer, inputs, faults>>

FireTimer ==
    /\ timer /\ old /\ Idle("timer")
    /\ timer' = FALSE
    /\ Start("timer", <<SearchTimeout>>)
    /\ UNCHANGED <<dbVars, payment, calls, old, inputs, faults>>

\* findUnassignedPendingDeliveries
Searching == row.status = "PAYMENT_CONFIRMED" /\ row.driver = NoDriver

\* processUnassignedDeliveries decides on the row it has listed.  The first 30
\* seconds, in which it leaves a delivery alone, are not told apart.
ScheduleRetry ==
    /\ Idle("scheduler")
    /\ Searching
    /\ Start("scheduler", SearchOn)
    /\ UNCHANGED <<dbVars, extVars>>

-----------------------------------------------------------------------------
(* CapturePayment, CancelAuthorization and CreateRefund *)

\* The requests say which delivery they are for.  payment-service looks the
\* payment up by the payment_id, which they do not have, finds none and
\* answers with an error, which is logged.
AnswerCall(k) ==
    /\ k \in calls
    /\ calls' = calls \ {k}
    /\ UNCHANGED <<dbVars, proc, payment, timer, old, inputs, faults>>

\* The service restarts: everything in memory is gone, the timer too.
Restart ==
    /\ Fault
    /\ proc' = [p \in Proc |-> Stopped]
    /\ calls' = {}
    /\ timer' = FALSE
    /\ UNCHANGED <<dbVars, payment, old, inputs>>

-----------------------------------------------------------------------------
(* Specification *)

Step(p) ==
    \/ ReadTransition(p) \/ AppendHistory(p) \/ SaveTransition(p) \/ StoreEvent(p)
    \/ SaveRefused(p)
    \/ ReadPayment(p) \/ SavePayment(p)
    \/ ReadCancel(p)
    \/ ReadAccept(p) \/ SaveAccept(p)
    \/ ReadRedispatch(p) \/ ClearDriverId(p) \/ StoreRetryEvent(p) \/ ReadTimeout(p)

SagaStep == CreatePayment \/ ReserveDriver

Next ==
    \/ CreateDelivery \/ SagaStep
    \/ \E p \in Proc : Step(p)
    \/ ReceiveDriverEvent \/ CompletePayment \/ ReceivePaymentEvent
    \/ \E u \in User : UserRequest(u)
    \/ TenMinutesPass \/ FireTimer \/ ScheduleRetry
    \/ \E k \in Call : AnswerCall(k)
    \/ Restart

\* Node runs every pending continuation, timers fire and the scheduler ticks.
\* No message, request or payment has to come.
Fairness ==
    /\ \A p \in Proc : WF_vars(Step(p))
    /\ WF_vars(SagaStep)
    /\ WF_vars(TenMinutesPass) /\ WF_vars(FireTimer) /\ WF_vars(ScheduleRetry)
    /\ \A k \in Call : WF_vars(AnswerCall(k))

Spec == Init /\ [][Next]_vars /\ Fairness

-----------------------------------------------------------------------------
(* Properties *)

Command == [op : {"transition", "payment", "cancel", "accept", "redispatch", "timeout", "retry",
                  "askPayment", "reserve"},
            to : Status \cup PaymentStatus \cup {"none"}, by : Driver \cup {NoDriver}]

\* Every variable has its type, and a process holds a copy to save only of a
\* row that exists.
TypeOK ==
    /\ row \in Row
    /\ hist \subseteq Status /\ reached \subseteq Status
    /\ outbox \subseteq Event
    /\ \A p \in Proc :
          /\ DOMAIN proc[p] = {"todo", "catch", "pc", "base", "copy"}
          /\ \A i \in DOMAIN proc[p].todo : proc[p].todo[i] \in Command
          /\ \A i \in DOMAIN proc[p].catch : proc[p].catch[i] \in Command
          /\ proc[p].pc \in {"read", "append", "save", "emit"}
          /\ proc[p].base \in Row /\ proc[p].copy \in Row
          /\ ~Idle(p) => row.status # "NONE"
    /\ payment \in Payment /\ calls \subseteq Call
    /\ timer \in BOOLEAN /\ old \in BOOLEAN /\ stale \in BOOLEAN /\ byHand \in BOOLEAN
    /\ inputs \in Nat /\ faults \in 0..MaxFaults

\* The status history never misses a status that the row has had, and no event
\* is stored for a status that was not saved first, wherever a restart cuts
\* the three writes of transition apart.
AuditTrail ==
    /\ reached \subseteq hist \cup {"CREATED"}
    /\ \A e \in outbox : \E s \in reached : statusToKafkaTopic(s) = e

\* The row moves along the state machine as long as no save has replaced a
\* row that changed since it was read.
LegalUnlessStale ==
    [][row'.status # row.status /\ row.status # "NONE" =>
          row'.status \in transitions[row.status] \/ stale']_vars

\* No driver is searched for before payment-service has the money, or the
\* authorization to take it: a checkout link is not enough.  One way round it
\* is left open: transitionDelivery takes any status of everybody who may
\* update deliveries, so that PAYMENT_CONFIRMED can be reported by hand.
DispatchIsPaid ==
    "delivery.created" \in outbox => payment \in {"authorized", "captured"} \/ byHand

\* A delivery does not search for a driver for ever: the scheduler keeps
\* coming back and cancels it after ten minutes, restarts or not.
SearchTerminates == <>[]~Searching

\* Without a fault, every status that is announced at all gets its event into
\* the outbox in the end.
EventsReachOutbox ==
    <>[]({statusToKafkaTopic(s) : s \in reached} \subseteq outbox \cup {"none"} \/ faults > 0)

\* "Capture escrow funds on completion", says transition, and cancel cancels
\* the authorization: then money does not stay in escrow.  Not so: the calls
\* do not name the payment.
EscrowSettles ==
    <>[](row.status \in {"DELIVERED", "COMPLETED", "CANCELLED"} => payment # "authorized" \/ faults > 0)

\* "No driver found within 10 minutes", says the cancellation by the timer.
\* Not so: the timeout is only held off in the one status DRIVER_ACCEPTED.
TimeoutSparesPickedUp ==
    [][row.status # "CANCELLED" /\ row'.status = "CANCELLED" /\ proc["timer"].pc = "save"
           /\ proc'["timer"].pc # "save"
       => "PICKED_UP" \notin reached]_vars

=============================================================================
