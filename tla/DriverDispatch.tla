--------------------------- MODULE DriverDispatch ---------------------------
(***************************************************************************)
(* Reservation of drivers in driver-service: the driver and assignment     *)
(* documents in MongoDB, the per-driver lock in Redis, the request         *)
(* handlers that read, change and replace whole documents, and the two     *)
(* background workers (offer expiry and reconciliation).                   *)
(*                                                                         *)
(* Every database call is a step of its own: a handler keeps in `job` the  *)
(* copy of the document it has read, and its save replaces the document by *)
(* that copy (ReplaceOne with upsert, no version check).  Only             *)
(* reserveDriver takes the lock.                                           *)
(*                                                                         *)
(* `races` is a history variable: the ways in which a driver's document    *)
(* was written against the protocol of reserveDriver.                      *)
(***************************************************************************)
EXTENDS Naturals, FiniteSets

CONSTANTS
    Driver,
    Delivery,
    Req,            \* request handlers that can run at once
    Topics,         \* the Kafka topics somebody reads in this instance
    Scenes          \* what may happen in a behaviour: see Scene

\* The administrative and profile edits: read the document, save a copy.
EditOps == {"GoOnline", "GoOffline", "Block", "Unblock", "Activate",
            "Deactivate", "Suspend", "UpdateProfile"}

\* ReserveDriver and AssignDriver over gRPC, delivery.created from Kafka,
\* selfAcceptDelivery over GraphQL.
ReserveOps == {"ReserveDriver", "DeliveryCreated", "SelfAccept"}

AllOps == EditOps \cup ReserveOps \cup {"AcceptAssignment", "RejectAssignment", "ReleaseDriver"}

\* The topics of the assignment events and of driver.no_driver_available.
Topic == {"offered", "accepted", "rejected", "expired", "released", "noDriver"}

\* The kinds of request that arrive and the deliveries they are about,
\* whether the 30 s TTL may pass while the holder is still at work, and the
\* bound on failing calls and dying handlers.
Scene == [ops : SUBSET AllOps, deliveries : SUBSET Delivery, ttl : BOOLEAN, faults : Nat]

ASSUME DispatchAssumption ==
    /\ Driver # {} /\ Delivery # {}
    /\ Scenes # {} /\ \A s \in Scenes : s \in Scene
    /\ Topics \subseteq Topic
    /\ "free" \notin Req

DriverStatus == {"OFFLINE", "AVAILABLE", "BUSY", "SUSPENDED"}
DriverDoc == [status : DriverStatus, blocked : BOOLEAN, active : BOOLEAN]

\* ACTIVE and CANCELLED are statuses of the domain that no handler writes.
AssignmentStatus == {"NONE", "OFFERED", "ACCEPTED", "COMPLETED", "REJECTED", "EXPIRED"}
ActiveStatus == {"OFFERED", "ACCEPTED"}

\* An assignment's id is deliveryId-driverId.
Assignment == Delivery \X Driver
DriverOf(a) == a[2]

ReservePC == {"locked", "busy", "offer", "rollback", "unlock"}
JobPC == ReservePC \cup {"idle", "pick", "report", "selfAccept", "accept", "reject", "editRead", "editSave",
                         "acceptSave", "rejectSave", "complete", "freeRead", "freeSave"}

VARIABLES
    scene,      \* chosen from Scenes at the start
    doc,        \* drivers collection
    asg,        \* assignments collection: status per id, "NONE" if absent
    late,       \* offers whose expiresAt has passed
    lock,       \* lock:driver:<id>, the handler that set it or "free"
    published,  \* Kafka events: the topic and the delivery the event is about
    job,        \* what each request handler is doing
    exp,        \* assignment expiry worker
    rec,        \* reconciliation worker
    faults,
    races

vars == <<doc, asg, late, lock, published, job, exp, rec, faults, races>>

AnyDriver == CHOOSE d \in Driver : TRUE
AnyDelivery == CHOOSE x \in Delivery : TRUE
NewDoc == [status |-> "OFFLINE", blocked |-> FALSE, active |-> TRUE]

Idle == [pc |-> "idle", op |-> "none", d |-> AnyDriver, x |-> AnyDelivery,
         copy |-> NewDoc, rest |-> {}, ok |-> FALSE]
IdleExpiry == [pc |-> "idle", found |-> {}, ids |-> {}, id |-> <<AnyDelivery, AnyDriver>>,
               to |-> "NONE", copy |-> NewDoc]
IdleReconcile == [pc |-> "idle", todo |-> {}, d |-> AnyDriver, snap |-> [d \in Driver |-> NewDoc]]

\* Registered drivers, offline and in good standing.
Init ==
    /\ scene \in Scenes
    /\ doc = [d \in Driver |-> NewDoc]
    /\ asg = [a \in Assignment |-> "NONE"]
    /\ late = {}
    /\ lock = [d \in Driver |-> "free"]
    /\ published = {}
    /\ job = [r \in Req |-> Idle]
    /\ exp = IdleExpiry
    /\ rec = IdleReconcile
    /\ faults = 0
    /\ races = [d \in Driver |-> {}]

-----------------------------------------------------------------------------
(* Repositories *)

\* FindActiveByDriver returns one of these, or nothing.
ActiveOf(d) == {a \in Assignment : DriverOf(a) = d /\ asg[a] \in ActiveStatus}

\* Drivers that rejected the delivery or let its offer expire.
RejectedDrivers(x) == {d \in Driver : asg[<<x, d>>] \in {"REJECTED", "EXPIRED"}}

\* The driver works for a delivery, or its reservation is between the save
\* of BUSY and the save of the offer.
Engaged(d) ==
    \/ ActiveOf(d) # {}
    \/ \E r \in Req : job[r].d = d /\ job[r].pc = "offer"

\* DriverRepository.Save: the whole document is replaced.
SaveDriver(d, new) ==
    /\ doc' = [doc EXCEPT ![d] = new]
    /\ races' = IF new.status = "AVAILABLE" /\ Engaged(d)
                THEN [races EXCEPT ![d] = @ \cup {"freed"}] ELSE races

\* Bug: a repeated offer keeps the expiresAt of the first.
SaveAssignmentKeepsExpiry(a, s) ==
    /\ asg' = [asg EXCEPT ![a] = s]
    /\ UNCHANGED late

\* AssignmentRepository.Save and UpdateStatus.  Only an open offer can be
\* late, and a new offer has a new expiresAt.
SaveAssignment(a, s) ==
    /\ asg' = [asg EXCEPT ![a] = s]
    /\ late' = late \ {a}

\* A call fails; the bound keeps the instance finite.
Fault ==
    /\ faults < scene.faults
    /\ faults' = faults + 1

\* Kafka publication is best effort: an error is logged and forgotten.
Publish(topic, x) ==
    published' = IF topic \in Topics THEN published \cup {<<topic, x>>} ELSE published

Announce(topic, x) ==
    \/ Publish(topic, x) /\ UNCHANGED faults
    \/ Fault /\ UNCHANGED published

Goto(r, label) == job' = [job EXCEPT ![r].pc = label]
Return(r) == job' = [job EXCEPT ![r] = Idle]

Mine(r) == <<job[r].x, job[r].d>>
At(r, label) == job[r].pc = label

\* authorizeActiveDriver
Authorized(d) == doc[d].active /\ ~doc[d].blocked /\ doc[d].status # "SUSPENDED"

-----------------------------------------------------------------------------
(* reserveDriver and its callers *)

StartReserve(r, op, d, x, rest) ==
    /\ At(r, "idle")
    /\ op \in scene.ops
    /\ job' = [job EXCEPT ![r] = [Idle EXCEPT !.pc = "pick", !.op = op, !.d = d, !.x = x,
                                              !.rest = rest]]

\* gRPC ReserveDriver and AssignDriver.
ReserveRequest(r, d, x) ==
    /\ StartReserve(r, "ReserveDriver", d, x, {})
    /\ UNCHANGED <<doc, asg, late, lock, published, exp, rec, faults, races>>

\* selfAcceptDelivery: the driver must look available, then reserves itself.
SelfAcceptRequest(r, d, x) ==
    /\ Authorized(d) /\ doc[d].status = "AVAILABLE"
    /\ StartReserve(r, "SelfAccept", d, x, {})
    /\ UNCHANGED <<doc, asg, late, lock, published, exp, rec, faults, races>>

\* FindAvailableDrivers, without the drivers that already declined.
Candidates(declined) ==
    {d \in Driver \ declined : doc[d].status = "AVAILABLE" /\ ~doc[d].blocked /\ doc[d].active}

\* handleMessage of the delivery.created consumer: candidates are tried in
\* the order of their rank, here any order.  When the drivers that declined
\* cannot be looked up, nobody is excluded.  A failing search changes nothing
\* and the message comes again.
DeliveryCreated(r, x) ==
    /\ At(r, "idle")
    /\ "DeliveryCreated" \in scene.ops
    /\ \E declined \in {RejectedDrivers(x), {}} :
          /\ \/ declined = RejectedDrivers(x) /\ UNCHANGED faults
             \/ declined = {} /\ Fault
          /\ \/ /\ Candidates(declined) = {}
                /\ job' = [job EXCEPT ![r] = [Idle EXCEPT !.pc = "report", !.x = x,
                                                          !.op = "DeliveryCreated"]]
             \/ \E d \in Candidates(declined) :
                  StartReserve(r, "DeliveryCreated", d, x, Candidates(declined) \ {d})
    /\ UNCHANGED <<doc, asg, late, lock, published, exp, rec, races>>

\* What the caller of reserveDriver does with the answer: the consumer tries
\* its next candidate or gives up, selfAcceptDelivery goes on to accept.
AfterReserve(r, ok) ==
    \/ /\ ~ok /\ job[r].op = "DeliveryCreated"
       /\ \E d \in job[r].rest :
             job' = [job EXCEPT ![r] = [Idle EXCEPT !.pc = "pick", !.op = "DeliveryCreated",
                                          !.d = d, !.x = job[r].x, !.rest = job[r].rest \ {d}]]
    \/ ~ok /\ job[r].op = "DeliveryCreated" /\ job[r].rest = {} /\ Goto(r, "report")
    \/ ok /\ job[r].op = "SelfAccept" /\ Goto(r, "selfAccept")
    \/ ~ok /\ job[r].op # "DeliveryCreated" /\ Return(r)
    \/ ok /\ job[r].op # "SelfAccept" /\ Return(r)

\* Bug: the consumer does not report that it found nobody.
ReportNoDriverSilent(r) ==
    /\ At(r, "report")
    /\ Return(r)
    /\ UNCHANGED <<doc, asg, late, lock, published, exp, rec, faults, races>>

\* driver.no_driver_available
ReportNoDriver(r) ==
    /\ At(r, "report")
    /\ Announce("noDriver", job[r].x)
    /\ Return(r)
    /\ UNCHANGED <<doc, asg, late, lock, exp, rec, races>>

\* Bug: the lock is set without NX.
AcquireAlways(d) == TRUE

\* SETNX succeeds.
Acquire(d) == lock[d] = "free"

LockDriver(r) ==
    /\ At(r, "pick")
    /\ LET d == job[r].d IN
       IF Acquire(d)
       THEN /\ lock' = [lock EXCEPT ![d] = r]
            /\ Goto(r, "locked")
       ELSE /\ AfterReserve(r, FALSE)
            /\ UNCHANGED lock
    /\ UNCHANGED <<doc, asg, late, published, exp, rec, faults, races>>

\* Redis does not answer: reserveDriver returns the error without the lock.
LockError(r) ==
    /\ At(r, "pick")
    /\ Fault
    /\ AfterReserve(r, FALSE)
    /\ UNCHANGED <<doc, asg, late, lock, published, exp, rec, races>>

\* Bug: the status read under the lock is not looked at.
ReservableUnchecked(v) == ~v.blocked /\ v.active

\* The driver read under the lock is AVAILABLE, and Driver.Reserve allows it.
Reservable(v) == v.status = "AVAILABLE" /\ ~v.blocked /\ v.active

ReadDriver(r) ==
    /\ At(r, "locked")
    /\ \/ LET v == doc[job[r].d] IN
          /\ IF Reservable(v)
             THEN job' = [job EXCEPT ![r].pc = "busy", ![r].copy = [v EXCEPT !.status = "BUSY"]]
             ELSE Goto(r, "unlock")
          /\ UNCHANGED faults
       \/ Fault /\ Goto(r, "unlock")
    /\ UNCHANGED <<doc, asg, late, lock, published, exp, rec, races>>

\* Bug: BUSY is never saved.
SaveBusyForgotten(r) ==
    /\ At(r, "busy")
    /\ Goto(r, "offer")
    /\ UNCHANGED <<doc, asg, late, lock, published, exp, rec, faults, races>>

\* The save of BUSY succeeds, or fails after or before it was applied.
SaveBusy(r) ==
    /\ At(r, "busy")
    /\ \/ /\ SaveDriver(job[r].d, job[r].copy)
          /\ Goto(r, "offer")
          /\ UNCHANGED faults
       \/ /\ SaveDriver(job[r].d, job[r].copy) \/ UNCHANGED <<doc, races>>
          /\ Goto(r, "unlock")
          /\ Fault
    /\ UNCHANGED <<asg, late, lock, published, exp, rec>>

\* The offer overwrites whatever the same pair had before.
SaveOffer(r) ==
    /\ At(r, "offer")
    /\ \/ /\ SaveAssignment(Mine(r), "OFFERED")
          /\ job' = [job EXCEPT ![r].pc = "unlock", ![r].ok = TRUE]
          /\ Announce("offered", job[r].x)
       \/ /\ SaveAssignment(Mine(r), "OFFERED") \/ UNCHANGED <<asg, late>>
          /\ Goto(r, "rollback")
          /\ Fault
          /\ UNCHANGED published
    /\ UNCHANGED <<doc, lock, exp, rec, races>>

\* The assignment could not be saved: the driver is put back, the outcome
\* of that save is ignored.
Rollback(r) ==
    /\ At(r, "rollback")
    /\ Goto(r, "unlock")
    /\ \/ /\ SaveDriver(job[r].d, [job[r].copy EXCEPT !.status = "AVAILABLE"])
          /\ UNCHANGED faults
       \/ Fault /\ UNCHANGED <<doc, races>>
    /\ UNCHANGED <<asg, late, lock, published, exp, rec>>

\* The deferred Release deletes the key, whoever owns it by now; its error
\* is dropped.
UnlockDriver(r) ==
    /\ At(r, "unlock")
    /\ \/ lock' = [lock EXCEPT ![job[r].d] = "free"] /\ UNCHANGED faults
       \/ Fault /\ UNCHANGED lock
    /\ AfterReserve(r, job[r].ok)
    /\ UNCHANGED <<doc, asg, late, published, exp, rec, races>>

\* Handlers inside the critical section of a driver.
InCritical(d) == {r \in Req : job[r].d = d /\ job[r].pc \in ReservePC}

\* Bug: the key is stored without a TTL.
NoTTL(d) == lock[d] # "free" /\ scene.ttl /\ lock[d] \in InCritical(d)

\* May Redis drop the key now?  After a crash of its owner it does so in any
\* case, while the owner is at work only in the instances that say so.
TTLPasses(d) == lock[d] # "free" /\ (scene.ttl \/ lock[d] \notin InCritical(d))

LockExpires(d) ==
    /\ TTLPasses(d)
    /\ lock' = [lock EXCEPT ![d] = "free"]
    /\ races' = IF InCritical(d) # {} THEN [races EXCEPT ![d] = @ \cup {"lock"}] ELSE races
    /\ UNCHANGED <<doc, asg, late, published, job, exp, rec, faults>>

-----------------------------------------------------------------------------
(* The driver's decision *)

DecisionRequest(r, op, a) ==
    /\ At(r, "idle")
    /\ op \in scene.ops
    /\ Authorized(DriverOf(a))
    /\ asg[a] # "NONE"
    /\ job' = [job EXCEPT ![r] = [Idle EXCEPT !.op = op, !.x = a[1], !.d = a[2],
                                  !.pc = IF op = "AcceptAssignment" THEN "accept" ELSE "reject"]]
    /\ UNCHANGED <<doc, asg, late, lock, published, exp, rec, faults, races>>

\* The command reads the assignment again; the expiry time is not looked at.
\* selfAcceptDelivery announces also an offer that was accepted meanwhile.
ReadOffer(r) ==
    /\ job[r].pc \in {"accept", "reject", "selfAccept"}
    /\ IF asg[Mine(r)] = "OFFERED"
       THEN Goto(r, IF At(r, "reject") THEN "rejectSave" ELSE "acceptSave")
       ELSE Return(r)
    /\ IF At(r, "selfAccept") /\ asg[Mine(r)] = "ACCEPTED"
       THEN Announce("accepted", job[r].x)
       ELSE UNCHANGED <<published, faults>>
    /\ UNCHANGED <<doc, asg, late, lock, exp, rec, races>>

\* The copy read as OFFERED replaces the document as ACCEPTED.
SaveAccepted(r) ==
    /\ At(r, "acceptSave")
    /\ SaveAssignment(Mine(r), "ACCEPTED")
    /\ races' = IF asg[Mine(r)] \notin ActiveStatus
                THEN [races EXCEPT ![job[r].d] = @ \cup {"accept"}] ELSE races
    /\ Announce("accepted", job[r].x)
    /\ Return(r)
    /\ UNCHANGED <<doc, lock, exp, rec>>

\* RejectAssignmentCommand holds no driver repository: the driver stays BUSY.
SaveRejected(r) ==
    /\ At(r, "rejectSave")
    /\ SaveAssignment(Mine(r), "REJECTED")
    /\ Announce("rejected", job[r].x)
    /\ Return(r)
    /\ UNCHANGED <<doc, lock, exp, rec, races>>

-----------------------------------------------------------------------------
(* ReleaseDriver over gRPC: any active assignment of the driver is completed *)

ReleaseRequest(r, d) ==
    /\ At(r, "idle")
    /\ "ReleaseDriver" \in scene.ops
    /\ \E a \in ActiveOf(d) :
          job' = [job EXCEPT ![r] = [Idle EXCEPT !.op = "ReleaseDriver", !.x = a[1], !.d = d,
                                                 !.pc = "complete"]]
    /\ UNCHANGED <<doc, asg, late, lock, published, exp, rec, faults, races>>

CompleteAssignment(r) ==
    /\ At(r, "complete")
    /\ SaveAssignment(Mine(r), "COMPLETED")
    /\ Goto(r, "freeRead")
    /\ UNCHANGED <<doc, lock, published, exp, rec, faults, races>>

ReadReleased(r) ==
    /\ At(r, "freeRead")
    /\ job' = [job EXCEPT ![r].pc = "freeSave",
                          ![r].copy = [doc[job[r].d] EXCEPT !.status = "AVAILABLE"]]
    /\ UNCHANGED <<doc, asg, late, lock, published, exp, rec, faults, races>>

SaveReleased(r) ==
    /\ At(r, "freeSave")
    /\ SaveDriver(job[r].d, job[r].copy)
    /\ Return(r)
    /\ UNCHANGED <<asg, late, lock, published, exp, rec, faults>>

-----------------------------------------------------------------------------
(* Edits of the driver document *)

\* Only the driver's own requests go through authorizeActiveDriver.
EditRequest(r, op, d) ==
    /\ At(r, "idle")
    /\ op \in scene.ops \cap EditOps
    /\ op \in {"GoOnline", "GoOffline"} => Authorized(d)
    /\ job' = [job EXCEPT ![r] = [Idle EXCEPT !.pc = "editRead", !.op = op, !.d = d]]
    /\ UNCHANGED <<doc, asg, late, lock, published, exp, rec, faults, races>>

EditAllowed(op, v) ==
    /\ op = "GoOnline" => v.status = "OFFLINE"
    /\ op = "GoOffline" => v.status = "AVAILABLE"

Edited(op, v) ==
    CASE op = "GoOnline"      -> [v EXCEPT !.status = "AVAILABLE"]
      [] op = "GoOffline"     -> [v EXCEPT !.status = "OFFLINE"]
      [] op = "Block"         -> [v EXCEPT !.blocked = TRUE]
      [] op = "Unblock"       -> [v EXCEPT !.blocked = FALSE]
      [] op = "Activate"      -> [v EXCEPT !.active = TRUE]
      [] op = "Deactivate"    -> [v EXCEPT !.active = FALSE,
                                           !.status = IF @ = "AVAILABLE" THEN "OFFLINE" ELSE @]
      [] op = "Suspend"       -> [v EXCEPT !.status = "SUSPENDED"]
      [] op = "UpdateProfile" -> v

ReadForEdit(r) ==
    /\ At(r, "editRead")
    /\ LET v == doc[job[r].d] IN
       IF EditAllowed(job[r].op, v)
       THEN job' = [job EXCEPT ![r].pc = "editSave", ![r].copy = Edited(job[r].op, v)]
       ELSE Return(r)
    /\ UNCHANGED <<doc, asg, late, lock, published, exp, rec, faults, races>>

SaveEdit(r) ==
    /\ At(r, "editSave")
    /\ SaveDriver(job[r].d, job[r].copy)
    /\ Return(r)
    /\ UNCHANGED <<asg, late, lock, published, exp, rec, faults>>

\* A call outside reserveDriver fails and its handler returns the error.
Abort(r) ==
    /\ job[r].pc \notin ReservePC \cup {"idle", "pick"}
    /\ Fault
    /\ Return(r)
    /\ UNCHANGED <<doc, asg, late, lock, published, exp, rec, races>>

\* The process stops and starts again: every handler and worker is cut off
\* where it was, the locks stay in Redis until their TTL.
Restart ==
    /\ Fault
    /\ job' = [r \in Req |-> Idle]
    /\ exp' = IdleExpiry
    /\ rec' = IdleReconcile
    /\ UNCHANGED <<doc, asg, late, lock, published, races>>

-----------------------------------------------------------------------------
(* The assignment expiry worker *)

\* 30 s after the offer its expiresAt has passed.
OfferLapses(a) ==
    /\ asg[a] = "OFFERED" /\ a \notin late
    /\ late' = late \cup {a}
    /\ UNCHANGED <<doc, asg, lock, published, job, exp, rec, faults, races>>

\* Bug: the expiry query looks for the wrong status.
NothingOverdue == {}

\* The Find of ExpireOffers.
Overdue == {a \in late : asg[a] = "OFFERED"}

ExpireFind ==
    /\ exp.pc = "idle"
    /\ Overdue # {}
    /\ exp' = [exp EXCEPT !.pc = "mark", !.found = Overdue]
    /\ UNCHANGED <<doc, asg, late, lock, published, job, rec, faults, races>>

\* The update names the id only, not the status that was read, and its error
\* is dropped: the id is reported as expired whatever happened to it.
ExpireMark ==
    /\ exp.pc = "mark"
    /\ \E a \in exp.found :
          /\ \/ SaveAssignment(a, "EXPIRED") /\ UNCHANGED faults
             \/ Fault /\ UNCHANGED <<asg, late>>
          /\ exp' = [exp EXCEPT !.found = @ \ {a}, !.ids = @ \cup {a},
                                !.pc = IF exp.found = {a} THEN "release" ELSE "mark"]
    /\ UNCHANGED <<doc, lock, published, job, rec, races>>

\* The loop of checkExpiredAssignments is done with assignment a.
NextExpired(a) ==
    exp' = IF exp.ids = {a} THEN IdleExpiry
           ELSE [IdleExpiry EXCEPT !.pc = "release", !.ids = exp.ids \ {a}]

\* ReleaseDriverByAssignment: a terminal assignment is left alone, a read
\* error is logged.
ReleaseRead(a) ==
    /\ exp.pc = "release" /\ a \in exp.ids
    /\ \/ /\ asg[a] \in ActiveStatus
          /\ exp' = [exp EXCEPT !.pc = "save", !.id = a,
                                !.to = IF asg[a] = "ACCEPTED" THEN "COMPLETED" ELSE "EXPIRED"]
          /\ UNCHANGED faults
       \/ asg[a] \notin ActiveStatus /\ NextExpired(a) /\ UNCHANGED faults
       \/ Fault /\ NextExpired(a)
    /\ UNCHANGED <<doc, asg, late, lock, published, job, rec, races>>

ReleaseSave ==
    /\ exp.pc = "save"
    /\ \/ /\ SaveAssignment(exp.id, exp.to)
          /\ exp' = [exp EXCEPT !.pc = "driver"]
          /\ UNCHANGED faults
       \/ Fault /\ NextExpired(exp.id) /\ UNCHANGED <<asg, late>>
    /\ UNCHANGED <<doc, lock, published, job, rec, races>>

\* What ReleaseDriverByAssignment publishes for the status it wrote.
ReleaseEvent == IF exp.to = "EXPIRED" THEN "expired" ELSE "released"

\* An error of this read only skips the driver, the event still goes out.
ReleaseReadDriver ==
    /\ exp.pc = "driver"
    /\ \/ /\ exp' = [exp EXCEPT !.pc = "free",
                                !.copy = [doc[DriverOf(exp.id)] EXCEPT !.status = "AVAILABLE"]]
          /\ UNCHANGED <<published, faults>>
       \/ /\ Fault
          /\ Publish(ReleaseEvent, exp.id[1])
          /\ NextExpired(exp.id)
    /\ UNCHANGED <<doc, asg, late, lock, job, rec, races>>

ReleaseFree ==
    /\ exp.pc = "free"
    /\ \/ SaveDriver(DriverOf(exp.id), exp.copy) /\ Announce(ReleaseEvent, exp.id[1])
       \/ Fault /\ UNCHANGED <<doc, races, published>>
    /\ NextExpired(exp.id)
    /\ UNCHANGED <<asg, late, lock, job, rec>>

-----------------------------------------------------------------------------
(* The reconciliation worker *)

\* FindByStatus returns copies of the BUSY documents.
ReconcileList ==
    /\ rec.pc = "idle"
    /\ LET busy == {d \in Driver : doc[d].status = "BUSY"} IN
       /\ busy # {}
       /\ rec' = [rec EXCEPT !.pc = "check", !.todo = busy, !.snap = doc]
    /\ UNCHANGED <<doc, asg, late, lock, published, job, exp, faults, races>>

NextBusy(d) ==
    rec' = IF rec.todo = {d} THEN IdleReconcile
           ELSE [rec EXCEPT !.pc = "check", !.todo = @ \ {d}]

\* Bug: the driver is repaired only when the lookup fails.
RepairOnErrorOnly(d) == FALSE

\* FindActiveByDriver answers that there is none.
Unassigned(d) == ActiveOf(d) = {}

\* A failing lookup counts as "no active assignment".
ReconcileCheck(d) ==
    /\ rec.pc = "check" /\ d \in rec.todo
    /\ \/ /\ IF Unassigned(d)
             THEN rec' = [rec EXCEPT !.pc = "repair", !.d = d]
             ELSE NextBusy(d)
          /\ UNCHANGED faults
       \/ Fault /\ rec' = [rec EXCEPT !.pc = "repair", !.d = d]
    /\ UNCHANGED <<doc, asg, late, lock, published, job, exp, races>>

\* The copy of the listing replaces the document; the error is dropped.
ReconcileRepair ==
    /\ rec.pc = "repair"
    /\ \/ /\ SaveDriver(rec.d, [rec.snap[rec.d] EXCEPT !.status = "AVAILABLE"])
          /\ UNCHANGED faults
       \/ Fault /\ UNCHANGED <<doc, races>>
    /\ NextBusy(rec.d)
    /\ UNCHANGED <<asg, late, lock, published, job, exp>>

-----------------------------------------------------------------------------
(* Specification *)

\* A request reaches an idle handler.
Arrive(r) ==
    \/ \E d \in Driver, x \in scene.deliveries : ReserveRequest(r, d, x) \/ SelfAcceptRequest(r, d, x)
    \/ \E x \in scene.deliveries : DeliveryCreated(r, x)
    \/ \E op \in {"AcceptAssignment", "RejectAssignment"}, a \in Assignment : DecisionRequest(r, op, a)
    \/ \E d \in Driver : ReleaseRequest(r, d)
    \/ \E op \in EditOps, d \in Driver : EditRequest(r, op, d)

\* The next call of a running handler.
Proceed(r) ==
    \/ ReportNoDriver(r)
    \/ LockDriver(r) \/ ReadDriver(r) \/ SaveBusy(r) \/ SaveOffer(r) \/ Rollback(r) \/ UnlockDriver(r)
    \/ ReadOffer(r) \/ SaveAccepted(r) \/ SaveRejected(r)
    \/ CompleteAssignment(r) \/ ReadReleased(r) \/ SaveReleased(r)
    \/ ReadForEdit(r) \/ SaveEdit(r)

Expiry ==
    \/ ExpireFind \/ ExpireMark \/ ReleaseSave \/ ReleaseReadDriver \/ ReleaseFree
    \/ \E a \in Assignment : ReleaseRead(a)

Reconcile ==
    \/ ReconcileList \/ ReconcileRepair
    \/ \E d \in Driver : ReconcileCheck(d)

Next ==
    /\ \/ \E r \in Req : Arrive(r) \/ Proceed(r) \/ LockError(r) \/ Abort(r)
       \/ \E d \in Driver : LockExpires(d)
       \/ \E a \in Assignment : OfferLapses(a)
       \/ Expiry
       \/ Reconcile
       \/ Restart
    /\ UNCHANGED scene

\* Handlers and workers keep running and time passes; no request has to come.
Fairness ==
    /\ \A r \in Req : WF_vars(Proceed(r))
    /\ \A d \in Driver : WF_vars(LockExpires(d))
    /\ \A a \in Assignment : WF_vars(OfferLapses(a))
    /\ WF_vars(Expiry)
    /\ WF_vars(Reconcile)

Spec == Init /\ [][Next]_<<vars, scene>> /\ Fairness

-----------------------------------------------------------------------------
(* Properties *)

JobRecord == [pc : JobPC, op : AllOps \cup {"none"}, d : Driver, x : Delivery, copy : DriverDoc,
              rest : SUBSET Driver, ok : BOOLEAN]

\* Every variable has its type, only open offers can be overdue, and a handler
\* inside reserveDriver was started by one of its callers.
TypeOK ==
    /\ scene \in Scenes
    /\ doc \in [Driver -> DriverDoc]
    /\ asg \in [Assignment -> AssignmentStatus]
    /\ late \subseteq {a \in Assignment : asg[a] = "OFFERED"}
    /\ lock \in [Driver -> Req \cup {"free"}]
    /\ published \subseteq Topics \X Delivery
    /\ job \in [Req -> JobRecord]
    /\ \A r \in Req : job[r].pc \in ReservePC \cup {"pick", "report", "selfAccept"} => job[r].op \in ReserveOps
    /\ exp \in [pc : {"idle", "mark", "release", "save", "driver", "free"},
                found : SUBSET Assignment, ids : SUBSET Assignment, id : Assignment,
                to : AssignmentStatus, copy : DriverDoc]
    /\ rec \in [pc : {"idle", "check", "repair"}, todo : SUBSET Driver, d : Driver,
                snap : [Driver -> DriverDoc]]
    /\ faults \in 0..scene.faults
    /\ races \in [Driver -> SUBSET {"freed", "lock", "accept"}]

OneActive(d) == \A a, b \in ActiveOf(d) : a = b

\* reserveDriver keeps its promise of one active assignment per driver except
\* after one of three races: a save that put an engaged driver back to
\* AVAILABLE, a lock whose TTL ran out inside the critical section, or an
\* acceptance written over an offer that had ended in the meantime.
ReservationSafe == \A d \in Driver : races[d] = {} => OneActive(d)

\* As long as the TTL outlasts the critical section, two handlers are never
\* between Acquire and Release for the same driver.
LockMutex ==
    \A d \in Driver : "lock" \notin races[d] =>
        \A r, q \in InCritical(d) : r = q

\* An engaged driver is offered no further delivery: while its races are
\* empty and an assignment of it is active, its document does not say
\* AVAILABLE.
EngagedNotOffered ==
    \A d \in Driver : races[d] = {} /\ Engaged(d) => doc[d].status # "AVAILABLE"

\* The reconciliation worker ends every period in which a driver is BUSY
\* without an active assignment, whichever failure or rejection led to it.
StuckRepaired ==
    \A d \in Driver : []<>~(doc[d].status = "BUSY" /\ ActiveOf(d) = {})

\* An offer that is past its expiry does not stay open.
OffersResolve ==
    \A a \in Assignment : (a \in late /\ asg[a] = "OFFERED") ~> asg[a] # "OFFERED"

\* No lock is held for ever, even when its owner died.
LockEventuallyFree ==
    \A d \in Driver : []<>(lock[d] = "free")

\* Every delivery.created that the consumer takes is answered by an offer or
\* by driver.no_driver_available, unless a call fails.
DeliveryAnswered ==
    \A x \in Delivery :
        (\E r \in Req : job[r].op = "DeliveryCreated" /\ job[r].x = x)
            ~> (<<"offered", x>> \in published \/ <<"noDriver", x>> \in published \/ faults > 0)

\* README: "Atomically reserve a driver".  Not so: see the run.
NoDoubleBooking == \A d \in Driver : OneActive(d)

\* README: the expiry worker "publishes driver.assignment.expired" for the
\* offers it expires.  Not so: ExpireOffers has already written EXPIRED when
\* ReleaseDriverByAssignment looks at the status.
ExpiredIsAnnounced ==
    \A a \in Assignment : asg[a] = "EXPIRED" ~> <<"expired", a[1]>> \in published

=============================================================================
