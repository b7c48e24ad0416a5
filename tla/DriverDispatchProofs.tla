------------------------ MODULE DriverDispatchProofs ------------------------
(***************************************************************************)
(* Proofs about DriverDispatch, for any number of drivers, deliveries,     *)
(* request handlers and failing calls, and for every mix of requests.      *)
(*                                                                         *)
(* The invariant has a typing half and a locking half.  Most actions are   *)
(* harmless for the locking half (Harmless below): they enter no critical  *)
(* section, give no driver a new active assignment and free no engaged     *)
(* driver without recording the race.  The others are the steps of         *)
(* reserveDriver itself and the expiry of its lock.                        *)
(***************************************************************************)
EXTENDS DriverDispatch, TLAPS

\* What the handlers and workers read and write in MongoDB, Redis and Kafka.
StoreTypes ==
    /\ scene \in Scenes
    /\ doc \in [Driver -> DriverDoc]
    /\ asg \in [Assignment -> AssignmentStatus]
    /\ late \subseteq {a \in Assignment : asg[a] = "OFFERED"}
    /\ lock \in [Driver -> Req \cup {"free"}]
    /\ published \subseteq Topics \X Delivery
    /\ faults \in 0..scene.faults
    /\ races \in [Driver -> SUBSET {"freed", "lock", "accept"}]

\* A record a handler can hold: only callers of reserveDriver are inside it,
\* and only edits go through ReadForEdit.
JobOK(j) ==
    /\ j \in JobRecord
    /\ j.pc \in ReservePC \cup {"pick", "report", "selfAccept"} => j.op \in ReserveOps
    /\ j.pc = "editRead" => j.op \in EditOps

JobTypes ==
    /\ job = [r \in Req |-> job[r]]
    /\ \A r \in Req : JobOK(job[r])

ExpiryRecord == [pc : {"idle", "mark", "release", "save", "driver", "free"},
                 found : SUBSET Assignment, ids : SUBSET Assignment, id : Assignment,
                 to : AssignmentStatus, copy : DriverDoc]
ReconcileRecord == [pc : {"idle", "check", "repair"}, todo : SUBSET Driver, d : Driver,
                    snap : [Driver -> DriverDoc]]

\* The expiry worker only ever ends an assignment.
WorkerTypes ==
    /\ exp \in ExpiryRecord
    /\ exp.pc = "save" => exp.to \in {"COMPLETED", "EXPIRED"}
    /\ rec \in ReconcileRecord

TypeInv == StoreTypes /\ JobTypes /\ WorkerTypes

\* As long as the TTL outlasts the critical section, whoever is inside it
\* owns the lock.
LockHeld ==
    \A d \in Driver : "lock" \notin races[d] =>
        \A r \in Req : job[r].d = d /\ job[r].pc \in ReservePC => lock[d] = r

\* reserveDriver saves the document it has read with the status BUSY.
CopyIsBusy ==
    \A r \in Req : job[r].pc \in {"busy", "offer"} => job[r].copy.status = "BUSY"

\* A driver found AVAILABLE under the lock gets no assignment from anybody
\* else before its own offer is saved.
ReservedIsFree ==
    \A r \in Req : job[r].pc \in {"busy", "offer"} /\ races[job[r].d] = {} => ActiveOf(job[r].d) = {}

LockInv == LockHeld /\ CopyIsBusy /\ ReservedIsFree /\ EngagedNotOffered /\ ReservationSafe

\* The inductive invariant.
DispatchInv == TypeInv /\ LockInv

-----------------------------------------------------------------------------
(* Facts about the operators *)

LEMMA AnyIsMember == AnyDriver \in Driver /\ AnyDelivery \in Delivery
BY DispatchAssumption DEF AnyDriver, AnyDelivery

LEMMA AssignmentParts ==
    /\ \A x \in Delivery, d \in Driver : <<x, d>> \in Assignment /\ DriverOf(<<x, d>>) = d
    /\ \A a \in Assignment : a[1] \in Delivery /\ a[2] \in Driver /\ DriverOf(a) = a[2]
                             /\ a = <<a[1], a[2]>>
BY DEF Assignment, DriverOf

LEMMA SceneParts ==
    ASSUME NEW s \in Scenes
    PROVE  s.ops \subseteq AllOps /\ s.deliveries \subseteq Delivery /\ s.faults \in Nat
BY DispatchAssumption DEF Scene

LEMMA NewDocType == NewDoc \in DriverDoc
BY DEF NewDoc, DriverDoc, DriverStatus

\* An update of a driver document is a driver document.
LEMMA DocUpdate ==
    ASSUME NEW v \in DriverDoc, NEW s \in DriverStatus, NEW b \in BOOLEAN
    PROVE  /\ [v EXCEPT !.status = s] \in DriverDoc
           /\ [v EXCEPT !.blocked = b] \in DriverDoc
           /\ [v EXCEPT !.active = b] \in DriverDoc
           /\ [v EXCEPT !.active = b, !.status = s] \in DriverDoc
           /\ [v EXCEPT !.status = s].status = s
BY DEF DriverDoc

LEMMA IdleJob ==
    JobOK(Idle) /\ Idle.pc = "idle" /\ Idle.op = "none" /\ Idle.rest = {} /\ Idle.copy = NewDoc
BY AnyIsMember, NewDocType DEF JobOK, JobRecord, Idle, JobPC, ReservePC

\* The whole of a handler's step: its record is replaced by another one.
LEMMA JobStep ==
    ASSUME JobTypes, NEW r \in Req, NEW j, JobOK(j), job' = [job EXCEPT ![r] = j]
    PROVE  JobTypes'
BY DEF JobTypes

\* Goto and Return replace the record by one that is in order.
LEMMA GotoStep ==
    ASSUME JobTypes, NEW r \in Req, NEW l \in JobPC, Goto(r, l),
           l \in ReservePC \cup {"pick", "report", "selfAccept"} => job[r].op \in ReserveOps,
           l # "editRead"
    PROVE  /\ JobTypes'
           /\ job'[r].pc = l /\ job'[r].d = job[r].d /\ job'[r].x = job[r].x
           /\ job'[r].copy = job[r].copy
           /\ \A q \in Req : q # r => job'[q] = job[q]
BY DEF JobTypes, JobOK, JobRecord, Goto

LEMMA ReturnStep ==
    ASSUME JobTypes, NEW r \in Req, Return(r)
    PROVE  /\ JobTypes'
           /\ job'[r] = Idle
           /\ \A q \in Req : q # r => job'[q] = job[q]
BY IdleJob DEF JobTypes, Return

\* Two fields of the record change: the label and the copy.
LEMMA CopyStep ==
    ASSUME JobTypes, NEW r \in Req, NEW l \in JobPC, NEW v \in DriverDoc,
           job' = [job EXCEPT ![r].pc = l, ![r].copy = v],
           l \in ReservePC \cup {"pick", "report", "selfAccept"} => job[r].op \in ReserveOps,
           l # "editRead"
    PROVE  /\ JobTypes'
           /\ job'[r].pc = l /\ job'[r].d = job[r].d /\ job'[r].copy = v
           /\ \A q \in Req : q # r => job'[q] = job[q]
BY DEF JobTypes, JobOK, JobRecord

\* The fields of a handler's record.
LEMMA JobParts ==
    ASSUME JobTypes, NEW r \in Req
    PROVE  /\ job[r].pc \in JobPC /\ job[r].d \in Driver /\ job[r].x \in Delivery
           /\ job[r].copy \in DriverDoc /\ job[r].rest \subseteq Driver
           /\ Mine(r) \in Assignment /\ DriverOf(Mine(r)) = job[r].d
           /\ job[r].pc \in ReservePC \cup {"pick", "report", "selfAccept"} => job[r].op \in ReserveOps
           /\ job[r].pc = "editRead" => job[r].op \in EditOps
<1>1. JobOK(job[r]) /\ job[r] \in JobRecord
  BY DEF JobTypes, JobOK
<1>2. job[r].d \in Driver /\ job[r].x \in Delivery
  BY <1>1 DEF JobRecord
<1>. QED
  BY <1>1, <1>2, AssignmentParts DEF JobOK, JobRecord, Mine

LEMMA FaultStep ==
    ASSUME StoreTypes, Fault, UNCHANGED scene
    PROVE  faults' \in 0..scene'.faults
BY SceneParts DEF StoreTypes, Fault

LEMMA PublishStep ==
    ASSUME StoreTypes, NEW topic, NEW x \in Delivery, Publish(topic, x)
    PROVE  published' \subseteq Topics \X Delivery
BY DEF StoreTypes, Publish

LEMMA AnnounceStep ==
    ASSUME StoreTypes, NEW topic, NEW x \in Delivery, Announce(topic, x), UNCHANGED scene
    PROVE  published' \subseteq Topics \X Delivery /\ faults' \in 0..scene'.faults
BY FaultStep, PublishStep DEF StoreTypes, Announce

\* A save of a driver document keeps the types and the recorded races, and a
\* driver put back to AVAILABLE is not engaged or the race is recorded.
LEMMA SaveDriverStep ==
    ASSUME StoreTypes, NEW d \in Driver, NEW new \in DriverDoc, SaveDriver(d, new)
    PROVE  /\ doc' \in [Driver -> DriverDoc]
           /\ races' \in [Driver -> SUBSET {"freed", "lock", "accept"}]
           /\ doc'[d] = new
           /\ \A e \in Driver : e # d => doc'[e] = doc[e] /\ races'[e] = races[e]
           /\ races[d] \subseteq races'[d]
           /\ new.status = "AVAILABLE" /\ Engaged(d) => races'[d] # {}
           /\ "lock" \in races'[d] => "lock" \in races[d]
BY DEF StoreTypes, SaveDriver

\* A save of an assignment changes the status of that one, which is no longer
\* late.
LEMMA SaveAssignmentStep ==
    ASSUME StoreTypes, NEW a \in Assignment, NEW s \in AssignmentStatus, SaveAssignment(a, s)
    PROVE  /\ asg' \in [Assignment -> AssignmentStatus]
           /\ late' \subseteq {b \in Assignment : asg'[b] = "OFFERED"}
           /\ asg'[a] = s
           /\ \A b \in Assignment : b # a => asg'[b] = asg[b]
BY DEF StoreTypes, SaveAssignment

-----------------------------------------------------------------------------
(* Steps that are harmless for the locking half of the invariant *)

Harmless ==
    /\ lock' = lock
    /\ \A r \in Req : job'[r].pc \in ReservePC =>
          job'[r].pc = job[r].pc /\ job'[r].d = job[r].d /\ job'[r].copy = job[r].copy
    /\ \A d \in Driver : races[d] \subseteq races'[d]
    /\ \A a \in Assignment : races'[DriverOf(a)] = {} /\ asg'[a] \in ActiveStatus => asg[a] \in ActiveStatus
    /\ \A d \in Driver : races'[d] = {} /\ Engaged(d) /\ doc'[d].status = "AVAILABLE"
                            => doc[d].status = "AVAILABLE"

LEMMA HarmlessKeeps ==
    ASSUME DispatchInv, TypeInv', Harmless
    PROVE  LockInv'
<1>. USE DEF DispatchInv, LockInv
<1>1. \A d \in Driver : races'[d] = {} => races[d] = {} /\ ActiveOf(d)' \subseteq ActiveOf(d)
  BY DEF Harmless, ActiveOf
<1>2. \A r \in Req : job[r].d \in Driver /\ job'[r].d \in Driver
  BY DEF TypeInv, JobTypes, JobOK, JobRecord
<1>3. LockHeld'
  BY DEF Harmless, LockHeld
<1>4. CopyIsBusy'
  BY DEF Harmless, CopyIsBusy, ReservePC
<1>5. ReservedIsFree'
  BY <1>1, <1>2 DEF Harmless, ReservedIsFree, ReservePC
<1>6. \A d \in Driver : races'[d] = {} /\ Engaged(d)' => Engaged(d)
  BY <1>1 DEF Harmless, Engaged, ReservePC
<1>7. EngagedNotOffered'
  BY <1>1, <1>6 DEF Harmless, EngagedNotOffered
<1>8. ReservationSafe'
  BY <1>1 DEF ReservationSafe, OneActive
<1>. QED
  BY <1>3, <1>4, <1>5, <1>7, <1>8

-----------------------------------------------------------------------------
(* Steps of the handlers outside the critical section *)

\* A handler outside the critical section of reserveDriver moves on, without
\* a save.
LEMMA HandlerStep ==
    ASSUME DispatchInv, NEW r \in Req, NEW j, JobOK(j), j.pc \notin ReservePC,
           job' = [job EXCEPT ![r] = j],
           published' \subseteq Topics \X Delivery, faults' \in 0..scene'.faults,
           UNCHANGED <<scene, doc, asg, late, lock, exp, rec, races>>
    PROVE  DispatchInv'
<1>1. TypeInv'
  BY JobStep DEF DispatchInv, TypeInv, StoreTypes, WorkerTypes
<1>2. Harmless
  BY DEF Harmless, DispatchInv, TypeInv, JobTypes
<1>. QED
  BY <1>1, <1>2, HarmlessKeeps DEF DispatchInv

\* What the callers of reserveDriver do with its answer.
LEMMA AfterReserveStep ==
    ASSUME JobTypes, NEW r \in Req, NEW ok \in BOOLEAN, AfterReserve(r, ok),
           job[r].pc \in ReservePC \cup {"pick"}
    PROVE  \E j : JobOK(j) /\ j.pc \notin ReservePC /\ job' = [job EXCEPT ![r] = j]
<1>. USE JobParts
<1>. JobOK(job[r]) /\ r \in DOMAIN job /\ job[r] \in JobRecord
  BY DEF JobTypes, JobOK
<1>1. ASSUME NEW d \in job[r].rest, job[r].op = "DeliveryCreated",
             job' = [job EXCEPT ![r] = [Idle EXCEPT !.pc = "pick", !.op = "DeliveryCreated",
                                          !.d = d, !.x = job[r].x, !.rest = job[r].rest \ {d}]]
      PROVE  \E j : JobOK(j) /\ j.pc \notin ReservePC /\ job' = [job EXCEPT ![r] = j]
  <2>1. "pick" \in JobPC /\ "DeliveryCreated" \in AllOps /\ "DeliveryCreated" \in ReserveOps /\ d \in Driver
        /\ "pick" \notin ReservePC /\ job[r].rest \ {d} \in SUBSET Driver
    BY DEF JobPC, AllOps, ReserveOps, ReservePC
  <2>2. LET j == [Idle EXCEPT !.pc = "pick", !.op = "DeliveryCreated", !.d = d, !.x = job[r].x,
                              !.rest = job[r].rest \ {d}] IN
        JobOK(j) /\ j.pc = "pick"
    BY <2>1, AnyIsMember, NewDocType DEF JobOK, JobRecord, Idle
  <2>. QED
    BY <1>1, <2>1, <2>2
<1>2. ASSUME NEW l \in {"report", "selfAccept"}, Goto(r, l)
      PROVE  \E j : JobOK(j) /\ j.pc \notin ReservePC /\ job' = [job EXCEPT ![r] = j]
  <2>1. job' = [job EXCEPT ![r] = [job[r] EXCEPT !.pc = l]]
    BY <1>2 DEF Goto
  <2>2. JobOK([job[r] EXCEPT !.pc = l]) /\ [job[r] EXCEPT !.pc = l].pc = l
    BY DEF JobOK, JobRecord, JobPC, ReservePC
  <2>. QED
    BY <2>1, <2>2 DEF ReservePC
<1>3. ASSUME Return(r)
      PROVE  \E j : JobOK(j) /\ j.pc \notin ReservePC /\ job' = [job EXCEPT ![r] = j]
  BY <1>3, IdleJob DEF Return, ReservePC
<1>. QED
  BY <1>1, <1>2, <1>3 DEF AfterReserve

\* Every request that reaches an idle handler.
LEMMA ArriveKeeps ==
    ASSUME DispatchInv, NEW r \in Req, Arrive(r), UNCHANGED scene
    PROVE  DispatchInv'
<1>. USE DEF DispatchInv, TypeInv
<1>0. /\ published \subseteq Topics \X Delivery /\ faults \in 0..scene.faults
      /\ scene.ops \subseteq AllOps /\ scene.deliveries \subseteq Delivery
  BY SceneParts DEF StoreTypes
<1>1. ASSUME NEW op \in ReserveOps, NEW d \in Driver, NEW x \in Delivery, NEW rest \in SUBSET Driver,
             StartReserve(r, op, d, x, rest), faults' \in 0..scene'.faults,
             UNCHANGED <<doc, asg, late, lock, published, exp, rec, races>>
      PROVE  DispatchInv'
  <2>1. "pick" \in JobPC /\ "pick" \notin ReservePC /\ op \in AllOps
    BY DEF JobPC, ReservePC, AllOps
  <2>2. LET j == [Idle EXCEPT !.pc = "pick", !.op = op, !.d = d, !.x = x, !.rest = rest] IN
        JobOK(j) /\ j.pc = "pick"
    BY <2>1, AnyIsMember, NewDocType DEF JobOK, JobRecord, Idle
  <2>. QED
    BY <1>0, <1>1, <2>1, <2>2, HandlerStep DEF StartReserve
<1>2. ASSUME NEW d \in Driver, NEW x \in scene.deliveries, ReserveRequest(r, d, x) \/ SelfAcceptRequest(r, d, x)
      PROVE  DispatchInv'
  BY <1>0, <1>1, <1>2 DEF ReserveRequest, SelfAcceptRequest, ReserveOps
<1>3. ASSUME NEW x \in scene.deliveries, DeliveryCreated(r, x)
      PROVE  DispatchInv'
  <2>1. faults' \in 0..scene'.faults
    BY <1>0, <1>3, FaultStep DEF DeliveryCreated
  <2>2. PICK declined \in {RejectedDrivers(x), {}} :
           \/ job' = [job EXCEPT ![r] = [Idle EXCEPT !.pc = "report", !.x = x, !.op = "DeliveryCreated"]]
           \/ \E d \in Candidates(declined) :
                  StartReserve(r, "DeliveryCreated", d, x, Candidates(declined) \ {d})
    BY <1>3 DEF DeliveryCreated
  <2>3. CASE job' = [job EXCEPT ![r] = [Idle EXCEPT !.pc = "report", !.x = x, !.op = "DeliveryCreated"]]
    <3>1. LET j == [Idle EXCEPT !.pc = "report", !.x = x, !.op = "DeliveryCreated"] IN
          JobOK(j) /\ j.pc \notin ReservePC
      BY <1>0, AnyIsMember, NewDocType DEF JobOK, JobRecord, Idle, JobPC, ReservePC, AllOps, ReserveOps
    <3>. QED
      BY <1>0, <1>3, <2>1, <2>3, <3>1, HandlerStep DEF DeliveryCreated
  <2>4. ASSUME NEW d \in Candidates(declined),
               StartReserve(r, "DeliveryCreated", d, x, Candidates(declined) \ {d})
        PROVE  DispatchInv'
    <3>1. d \in Driver /\ Candidates(declined) \ {d} \in SUBSET Driver /\ "DeliveryCreated" \in ReserveOps
      BY DEF Candidates, ReserveOps
    <3>. QED
      BY <1>0, <1>1, <1>3, <2>1, <2>4, <3>1 DEF DeliveryCreated
  <2>. QED
    BY <2>2, <2>3, <2>4
<1>4. ASSUME NEW op \in {"AcceptAssignment", "RejectAssignment"}, NEW a \in Assignment, DecisionRequest(r, op, a)
      PROVE  DispatchInv'
  <2>1. LET j == [Idle EXCEPT !.op = op, !.x = a[1], !.d = a[2],
                              !.pc = IF op = "AcceptAssignment" THEN "accept" ELSE "reject"] IN
        JobOK(j) /\ j.pc \notin ReservePC
    BY AssignmentParts, AnyIsMember, NewDocType DEF JobOK, JobRecord, Idle, JobPC, ReservePC, AllOps
  <2>. QED
    BY <1>0, <1>4, <2>1, HandlerStep DEF DecisionRequest
<1>5. ASSUME NEW d \in Driver, ReleaseRequest(r, d)
      PROVE  DispatchInv'
  <2>1. PICK a \in ActiveOf(d) :
           job' = [job EXCEPT ![r] = [Idle EXCEPT !.op = "ReleaseDriver", !.x = a[1], !.d = d, !.pc = "complete"]]
    BY <1>5 DEF ReleaseRequest
  <2>2. a[1] \in Delivery
    BY AssignmentParts DEF ActiveOf
  <2>3. LET j == [Idle EXCEPT !.op = "ReleaseDriver", !.x = a[1], !.d = d, !.pc = "complete"] IN
        JobOK(j) /\ j.pc \notin ReservePC
    BY <2>2, AnyIsMember, NewDocType DEF JobOK, JobRecord, Idle, JobPC, ReservePC, AllOps
  <2>. QED
    BY <1>0, <1>5, <2>1, <2>3, HandlerStep DEF ReleaseRequest
<1>6. ASSUME NEW op \in EditOps, NEW d \in Driver, EditRequest(r, op, d)
      PROVE  DispatchInv'
  <2>1. LET j == [Idle EXCEPT !.pc = "editRead", !.op = op, !.d = d] IN
        JobOK(j) /\ j.pc \notin ReservePC
    BY AnyIsMember, NewDocType DEF JobOK, JobRecord, Idle, JobPC, ReservePC, AllOps
  <2>. QED
    BY <1>0, <1>6, <2>1, HandlerStep DEF EditRequest
<1>. QED
  BY <1>2, <1>3, <1>4, <1>5, <1>6 DEF Arrive

\* The consumer reports that it found nobody.
LEMMA ReportNoDriverKeeps ==
    ASSUME DispatchInv, NEW r \in Req, ReportNoDriver(r), UNCHANGED scene
    PROVE  DispatchInv'
<1>. USE DEF DispatchInv, TypeInv
<1>1. published' \subseteq Topics \X Delivery /\ faults' \in 0..scene'.faults
  BY JobParts, AnnounceStep DEF ReportNoDriver
<1>. QED
  BY <1>1, IdleJob, HandlerStep DEF ReportNoDriver, Return, ReservePC

\* Redis does not answer the SETNX.
LEMMA LockErrorKeeps ==
    ASSUME DispatchInv, NEW r \in Req, LockError(r), UNCHANGED scene
    PROVE  DispatchInv'
<1>. USE DEF DispatchInv, TypeInv
<1>1. published' \subseteq Topics \X Delivery /\ faults' \in 0..scene'.faults
  BY FaultStep DEF LockError, StoreTypes
<1>2. PICK j : JobOK(j) /\ j.pc \notin ReservePC /\ job' = [job EXCEPT ![r] = j]
  BY AfterReserveStep DEF LockError, At
<1>. QED
  BY <1>1, <1>2, HandlerStep DEF LockError

\* A handler outside reserveDriver returns an error.
LEMMA AbortKeeps ==
    ASSUME DispatchInv, NEW r \in Req, Abort(r), UNCHANGED scene
    PROVE  DispatchInv'
<1>. USE DEF DispatchInv, TypeInv
<1>1. published' \subseteq Topics \X Delivery /\ faults' \in 0..scene'.faults
  BY FaultStep DEF Abort, StoreTypes
<1>. QED
  BY <1>1, IdleJob, HandlerStep DEF Abort, Return, ReservePC

\* The labels outside reserveDriver that a handler moves to after a read.
LaterPC == JobPC \ (ReservePC \cup {"pick", "report", "selfAccept", "editRead"})

LEMMA RelabelledJob ==
    ASSUME JobTypes, NEW r \in Req, NEW l \in LaterPC, NEW v \in DriverDoc,
           \/ Goto(r, l)
           \/ job' = [job EXCEPT ![r].pc = l, ![r].copy = v]
    PROVE  \E j : JobOK(j) /\ j.pc \notin ReservePC /\ job' = [job EXCEPT ![r] = j]
<1>. job[r] \in JobRecord /\ r \in DOMAIN job /\ l \notin ReservePC
  BY DEF JobTypes, JobOK, LaterPC
<1>1. CASE Goto(r, l)
  <2>1. JobOK([job[r] EXCEPT !.pc = l]) /\ [job[r] EXCEPT !.pc = l].pc = l
    BY DEF JobOK, JobRecord, LaterPC
  <2>2. job' = [job EXCEPT ![r] = [job[r] EXCEPT !.pc = l]]
    BY <1>1 DEF Goto
  <2>. QED
    BY <2>1, <2>2
<1>2. CASE job' = [job EXCEPT ![r].pc = l, ![r].copy = v]
  <2>1. JobOK([job[r] EXCEPT !.pc = l, !.copy = v]) /\ [job[r] EXCEPT !.pc = l, !.copy = v].pc = l
    BY DEF JobOK, JobRecord, LaterPC
  <2>2. job' = [job EXCEPT ![r] = [job[r] EXCEPT !.pc = l, !.copy = v]]
    BY <1>2
  <2>. QED
    BY <2>1, <2>2
<1>. QED
  BY <1>1, <1>2

\* The driver's decision reads the assignment.
LEMMA ReadOfferKeeps ==
    ASSUME DispatchInv, NEW r \in Req, ReadOffer(r), UNCHANGED scene
    PROVE  DispatchInv'
<1>. USE DEF DispatchInv, TypeInv
<1>1. published' \subseteq Topics \X Delivery /\ faults' \in 0..scene'.faults
  BY JobParts, AnnounceStep DEF ReadOffer, StoreTypes
<1>2. ASSUME NEW l \in {"rejectSave", "acceptSave"}, Goto(r, l)
      PROVE  DispatchInv'
  <2>1. l \in LaterPC
    BY DEF LaterPC, JobPC, ReservePC
  <2>2. PICK j : JobOK(j) /\ j.pc \notin ReservePC /\ job' = [job EXCEPT ![r] = j]
    BY <1>2, <2>1, RelabelledJob, NewDocType
  <2>. QED
    BY <1>1, <2>2, HandlerStep DEF ReadOffer
<1>3. CASE Return(r)
  BY <1>1, <1>3, IdleJob, HandlerStep DEF ReadOffer, Return, ReservePC
<1>. QED
  BY <1>2, <1>3 DEF ReadOffer

\* ReleaseDriver reads the document it will save as AVAILABLE.
LEMMA ReadReleasedKeeps ==
    ASSUME DispatchInv, NEW r \in Req, ReadReleased(r), UNCHANGED scene
    PROVE  DispatchInv'
<1>. USE DEF DispatchInv, TypeInv
<1>. DEFINE v == [doc[job[r].d] EXCEPT !.status = "AVAILABLE"]
<1>1. v \in DriverDoc
  BY JobParts DEF StoreTypes, DriverDoc, DriverStatus
<1>2. "freeSave" \in LaterPC
  BY DEF LaterPC, JobPC, ReservePC
<1>3. job' = [job EXCEPT ![r].pc = "freeSave", ![r].copy = v]
  BY DEF ReadReleased
<1>. HIDE DEF v
<1>4. PICK j : JobOK(j) /\ j.pc \notin ReservePC /\ job' = [job EXCEPT ![r] = j]
  BY <1>1, <1>2, <1>3, RelabelledJob
<1>. QED
  BY <1>4, HandlerStep DEF ReadReleased, StoreTypes

\* Every edit yields a driver document.
LEMMA EditedType ==
    ASSUME NEW op \in EditOps, NEW v \in DriverDoc
    PROVE  Edited(op, v) \in DriverDoc
BY DEF EditOps, Edited, DriverDoc, DriverStatus

LEMMA ReadForEditKeeps ==
    ASSUME DispatchInv, NEW r \in Req, ReadForEdit(r), UNCHANGED scene
    PROVE  DispatchInv'
<1>. USE DEF DispatchInv, TypeInv
<1>. DEFINE v == Edited(job[r].op, doc[job[r].d])
<1>1. v \in DriverDoc
  BY JobParts, EditedType DEF ReadForEdit, At, StoreTypes
<1>2. "editSave" \in LaterPC
  BY DEF LaterPC, JobPC, ReservePC
<1>3. CASE job' = [job EXCEPT ![r].pc = "editSave", ![r].copy = v]
  <2>. HIDE DEF v
  <2>1. PICK j : JobOK(j) /\ j.pc \notin ReservePC /\ job' = [job EXCEPT ![r] = j]
    BY <1>1, <1>2, <1>3, RelabelledJob
  <2>. QED
    BY <2>1, HandlerStep DEF ReadForEdit, StoreTypes
<1>4. CASE Return(r)
  BY <1>4, IdleJob, HandlerStep DEF ReadForEdit, Return, StoreTypes, ReservePC
<1>. QED
  BY <1>3, <1>4 DEF ReadForEdit

\* An acceptance either keeps an active assignment active or records the race.
LEMMA SaveAcceptedKeeps ==
    ASSUME DispatchInv, NEW r \in Req, SaveAccepted(r), UNCHANGED scene
    PROVE  DispatchInv'
<1>. USE DEF DispatchInv, TypeInv
<1>1. published' \subseteq Topics \X Delivery /\ faults' \in 0..scene'.faults
  BY JobParts, AnnounceStep DEF SaveAccepted
<1>2. JobTypes' /\ job'[r] = Idle /\ \A q \in Req : q # r => job'[q] = job[q]
  BY ReturnStep DEF SaveAccepted
<1>3. /\ asg' \in [Assignment -> AssignmentStatus]
      /\ late' \subseteq {b \in Assignment : asg'[b] = "OFFERED"}
      /\ \A b \in Assignment : b # Mine(r) => asg'[b] = asg[b]
  BY JobParts, SaveAssignmentStep DEF SaveAccepted, AssignmentStatus
<1>4. /\ races' \in [Driver -> SUBSET {"freed", "lock", "accept"}]
      /\ \A d \in Driver : races[d] \subseteq races'[d]
      /\ asg[Mine(r)] \notin ActiveStatus => races'[job[r].d] # {}
  BY JobParts DEF SaveAccepted, StoreTypes
<1>5. TypeInv'
  BY <1>1, <1>2, <1>3, <1>4 DEF SaveAccepted, StoreTypes, WorkerTypes
<1>6. Harmless
  BY <1>2, <1>3, <1>4, JobParts, IdleJob DEF SaveAccepted, Harmless, ReservePC
<1>. QED
  BY <1>5, <1>6, HarmlessKeeps

\* An assignment that ends, with the handler's record outside reserveDriver.
LEMMA EndingIsHarmless ==
    ASSUME TypeInv, NEW a \in Assignment, NEW s \in AssignmentStatus \ ActiveStatus, SaveAssignment(a, s),
           \A q \in Req : job'[q].pc \in ReservePC => job'[q] = job[q],
           UNCHANGED <<doc, lock, races>>
    PROVE  Harmless
BY SaveAssignmentStep DEF TypeInv, Harmless

LEMMA SaveRejectedKeeps ==
    ASSUME DispatchInv, NEW r \in Req, SaveRejected(r), UNCHANGED scene
    PROVE  DispatchInv'
<1>. USE DEF DispatchInv, TypeInv
<1>1. published' \subseteq Topics \X Delivery /\ faults' \in 0..scene'.faults
  BY JobParts, AnnounceStep DEF SaveRejected
<1>2. JobTypes' /\ job'[r] = Idle /\ \A q \in Req : q # r => job'[q] = job[q]
  BY ReturnStep DEF SaveRejected
<1>3. Mine(r) \in Assignment /\ "REJECTED" \in AssignmentStatus \ ActiveStatus
  BY JobParts DEF AssignmentStatus, ActiveStatus
<1>4. TypeInv'
  BY <1>1, <1>2, <1>3, SaveAssignmentStep DEF SaveRejected, StoreTypes, WorkerTypes
<1>5. Harmless
  BY <1>2, <1>3, EndingIsHarmless, IdleJob DEF SaveRejected, ReservePC
<1>. QED
  BY <1>4, <1>5, HarmlessKeeps

LEMMA CompleteAssignmentKeeps ==
    ASSUME DispatchInv, NEW r \in Req, CompleteAssignment(r), UNCHANGED scene
    PROVE  DispatchInv'
<1>. USE DEF DispatchInv, TypeInv
<1>1. "freeRead" \in JobPC /\ "freeRead" \notin ReservePC \cup {"pick", "report", "selfAccept", "editRead"}
  BY DEF JobPC, ReservePC
<1>2. JobTypes' /\ job'[r].pc = "freeRead" /\ \A q \in Req : q # r => job'[q] = job[q]
  BY <1>1, GotoStep DEF CompleteAssignment
<1>3. Mine(r) \in Assignment /\ "COMPLETED" \in AssignmentStatus \ ActiveStatus
  BY JobParts DEF AssignmentStatus, ActiveStatus
<1>4. TypeInv'
  BY <1>2, <1>3, SaveAssignmentStep DEF CompleteAssignment, StoreTypes, WorkerTypes
<1>5. Harmless
  BY <1>1, <1>2, <1>3, EndingIsHarmless DEF CompleteAssignment
<1>. QED
  BY <1>4, <1>5, HarmlessKeeps

\* Saving a driver document, with the handlers outside reserveDriver.
LEMMA SavingIsHarmless ==
    ASSUME TypeInv, NEW d \in Driver, NEW new \in DriverDoc, SaveDriver(d, new),
           \A q \in Req : job'[q].pc \in ReservePC => job'[q] = job[q],
           UNCHANGED <<asg, lock>>
    PROVE  Harmless
BY SaveDriverStep DEF TypeInv, Harmless

\* SaveReleased and SaveEdit: the handler saves its copy and returns.
LEMMA SaveCopyKeeps ==
    ASSUME DispatchInv, NEW r \in Req, SaveReleased(r) \/ SaveEdit(r), UNCHANGED scene
    PROVE  DispatchInv'
<1>. USE DEF DispatchInv, TypeInv
<1>1. SaveDriver(job[r].d, job[r].copy) /\ Return(r) /\ UNCHANGED <<asg, late, lock, published, exp, rec, faults>>
  BY DEF SaveReleased, SaveEdit
<1>2. job[r].d \in Driver /\ job[r].copy \in DriverDoc
  BY JobParts
<1>3. JobTypes' /\ job'[r] = Idle /\ \A q \in Req : q # r => job'[q] = job[q]
  BY <1>1, ReturnStep
<1>4. TypeInv'
  BY <1>1, <1>2, <1>3, SaveDriverStep DEF StoreTypes, WorkerTypes
<1>5. Harmless
  BY <1>1, <1>2, <1>3, SavingIsHarmless, IdleJob DEF ReservePC
<1>. QED
  BY <1>4, <1>5, HarmlessKeeps

-----------------------------------------------------------------------------
(* The critical section of reserveDriver *)

\* Acquire: the new owner finds nobody inside.
LEMMA LockDriverKeeps ==
    ASSUME DispatchInv, NEW r \in Req, LockDriver(r), UNCHANGED scene
    PROVE  DispatchInv'
<1>. USE DEF DispatchInv, TypeInv
<1>. DEFINE d == job[r].d
<1>0. d \in Driver /\ job[r].op \in ReserveOps
  BY JobParts DEF LockDriver, At
<1>1. CASE lock[d] = "free" /\ lock' = [lock EXCEPT ![d] = r] /\ Goto(r, "locked")
  <2>1. "locked" \in JobPC /\ "locked" # "editRead"
    BY DEF JobPC, ReservePC
  <2>2. /\ JobTypes' /\ job'[r].pc = "locked" /\ job'[r].d = d
        /\ \A q \in Req : q # r => job'[q] = job[q]
    BY <1>0, <1>1, <2>1, GotoStep
  <2>3. TypeInv'
    BY <1>0, <1>1, <2>2 DEF LockDriver, StoreTypes, WorkerTypes
  <2>4. \A e \in Driver : lock'[e] = IF e = d THEN r ELSE lock[e]
    BY <1>0, <1>1 DEF StoreTypes
  <2>5. LockHeld'
    BY <1>1, <2>2, <2>4, DispatchAssumption DEF LockDriver, LockInv, LockHeld
  <2>6. CopyIsBusy' /\ ReservedIsFree'
    BY <2>2 DEF LockDriver, LockInv, CopyIsBusy, ReservedIsFree, ActiveOf
  <2>7. ReservationSafe'
    BY DEF LockDriver, LockInv, ReservationSafe, OneActive, ActiveOf
  <2>8. EngagedNotOffered'
    BY <2>2 DEF LockDriver, LockInv, EngagedNotOffered, Engaged, ActiveOf
  <2>. QED
    BY <2>3, <2>5, <2>6, <2>7, <2>8 DEF LockInv
<1>2. CASE AfterReserve(r, FALSE) /\ UNCHANGED lock
  <2>1. PICK j : JobOK(j) /\ j.pc \notin ReservePC /\ job' = [job EXCEPT ![r] = j]
    BY <1>2, AfterReserveStep DEF LockDriver, At
  <2>. QED
    BY <1>2, <2>1, HandlerStep DEF LockDriver, StoreTypes
<1>. QED
  BY <1>1, <1>2 DEF LockDriver, Acquire

\* The owner leaves for the deferred Release without having written.
LEMMA GiveUpKeeps ==
    ASSUME DispatchInv, NEW r \in Req, job[r].pc \in ReservePC, Goto(r, "unlock"),
           faults' \in 0..scene'.faults, UNCHANGED <<scene, doc, asg, late, lock, published, exp, rec, races>>
    PROVE  DispatchInv'
<1>. USE DEF DispatchInv, TypeInv
<1>1. "unlock" \in JobPC /\ "unlock" # "editRead" /\ job[r].op \in ReserveOps
  BY JobParts DEF JobPC, ReservePC
<1>2. /\ JobTypes' /\ job'[r].pc = "unlock" /\ job'[r].d = job[r].d
      /\ \A q \in Req : q # r => job'[q] = job[q]
  BY <1>1, GotoStep
<1>3. TypeInv'
  BY <1>2 DEF StoreTypes, WorkerTypes
<1>4. LockHeld'
  BY <1>2 DEF LockInv, LockHeld
<1>5. CopyIsBusy' /\ ReservedIsFree'
  BY <1>2 DEF LockInv, CopyIsBusy, ReservedIsFree, ActiveOf
<1>6. ReservationSafe'
  BY DEF LockInv, ReservationSafe, OneActive, ActiveOf
<1>7. EngagedNotOffered'
  BY <1>2 DEF LockInv, EngagedNotOffered, Engaged, ActiveOf
<1>. QED
  BY <1>3, <1>4, <1>5, <1>6, <1>7 DEF LockInv

\* A driver that is read as AVAILABLE is not engaged, so it has no active
\* assignment.
LEMMA ReadDriverKeeps ==
    ASSUME DispatchInv, NEW r \in Req, ReadDriver(r), UNCHANGED scene
    PROVE  DispatchInv'
<1>. USE DEF DispatchInv, TypeInv
<1>. DEFINE d == job[r].d
            v == [doc[d] EXCEPT !.status = "BUSY"]
<1>0. d \in Driver /\ job[r].op \in ReserveOps /\ job[r].pc = "locked"
  BY JobParts DEF ReadDriver, At, ReservePC
<1>1. CASE Reservable(doc[d]) /\ job' = [job EXCEPT ![r].pc = "busy", ![r].copy = v] /\ UNCHANGED faults
  <2>1. v \in DriverDoc /\ v.status = "BUSY"
    BY <1>0 DEF StoreTypes, DriverDoc, DriverStatus
  <2>2. "busy" \in JobPC /\ "busy" # "editRead"
    BY DEF JobPC, ReservePC
  <2>3. /\ JobTypes' /\ job'[r].pc = "busy" /\ job'[r].d = d /\ job'[r].copy.status = "BUSY"
        /\ \A q \in Req : q # r => job'[q] = job[q]
    <3>. HIDE DEF v
    <3>. QED
      BY <1>0, <1>1, <2>1, <2>2, CopyStep, ZenonT(60)
  <2>4. TypeInv'
    BY <1>1, <2>3 DEF ReadDriver, StoreTypes, WorkerTypes
  <2>5. LockHeld'
    BY <1>0, <2>3 DEF ReadDriver, LockInv, LockHeld, ReservePC
  <2>6. CopyIsBusy'
    BY <2>3 DEF LockInv, CopyIsBusy
  <2>7. races[d] = {} => ActiveOf(d) = {}
    BY <1>0, <1>1 DEF LockInv, EngagedNotOffered, Engaged, Reservable
  <2>8. ReservedIsFree'
    BY <2>3, <2>7 DEF ReadDriver, LockInv, ReservedIsFree, ActiveOf
  <2>9. ReservationSafe'
    BY DEF ReadDriver, LockInv, ReservationSafe, OneActive, ActiveOf
  <2>10. EngagedNotOffered'
    BY <2>3 DEF ReadDriver, LockInv, EngagedNotOffered, Engaged, ActiveOf
  <2>. QED
    BY <2>4, <2>5, <2>6, <2>8, <2>9, <2>10 DEF LockInv
<1>2. CASE Goto(r, "unlock") /\ UNCHANGED faults
  BY <1>0, <1>2, GiveUpKeeps DEF ReadDriver, StoreTypes, ReservePC
<1>3. CASE Fault /\ Goto(r, "unlock")
  BY <1>0, <1>3, FaultStep, GiveUpKeeps DEF ReadDriver, ReservePC
<1>. QED
  BY <1>1, <1>2, <1>3 DEF ReadDriver

\* The owner saves a document of its driver, which is BUSY when an offer
\* follows.
LEMMA OwnerSaveKeeps ==
    ASSUME DispatchInv, NEW r \in Req, NEW new \in DriverDoc, NEW l \in {"offer", "unlock"},
           job[r].pc \in ReservePC, SaveDriver(job[r].d, new), Goto(r, l),
           l = "offer" => job[r].pc = "busy" /\ new.status = "BUSY",
           faults' \in 0..scene'.faults, UNCHANGED <<scene, asg, late, lock, published, exp, rec>>
    PROVE  DispatchInv'
<1>. USE DEF DispatchInv, TypeInv
<1>. DEFINE d == job[r].d
<1>1. l \in JobPC /\ l # "editRead" /\ job[r].op \in ReserveOps /\ d \in Driver /\ l \in ReservePC
  BY JobParts DEF JobPC, ReservePC
<1>2. /\ JobTypes' /\ job'[r].pc = l /\ job'[r].d = d /\ job'[r].copy = job[r].copy
      /\ \A q \in Req : q # r => job'[q] = job[q]
  BY <1>1, GotoStep
<1>3. /\ doc'[d] = new
      /\ \A e \in Driver : e # d => doc'[e] = doc[e] /\ races'[e] = races[e]
      /\ races[d] \subseteq races'[d]
      /\ new.status = "AVAILABLE" /\ Engaged(d) => races'[d] # {}
      /\ "lock" \in races'[d] => "lock" \in races[d]
      /\ doc' \in [Driver -> DriverDoc]
      /\ races' \in [Driver -> SUBSET {"freed", "lock", "accept"}]
  BY <1>1, SaveDriverStep
<1>4. TypeInv'
  BY <1>2, <1>3 DEF StoreTypes, WorkerTypes
<1>5. \A e \in Driver : (races'[e] = {} => races[e] = {}) /\ ActiveOf(e)' = ActiveOf(e)
  BY <1>3 DEF ActiveOf
<1>6. LockHeld'
  BY <1>1, <1>2, <1>3 DEF LockInv, LockHeld
<1>7. CopyIsBusy'
  BY <1>2 DEF LockInv, CopyIsBusy
<1>8. \A q \in Req : job[q].d \in Driver /\ job'[q].d \in Driver
  BY <1>2, JobParts DEF JobTypes, JobOK, JobRecord
<1>9. ReservedIsFree'
  BY <1>2, <1>5, <1>8 DEF LockInv, ReservedIsFree
<1>10. ReservationSafe'
  BY <1>5 DEF LockInv, ReservationSafe, OneActive
<1>11. EngagedNotOffered'
  <2>. SUFFICES ASSUME NEW e \in Driver, races'[e] = {}, Engaged(e)' PROVE doc'[e].status # "AVAILABLE"
    BY DEF EngagedNotOffered
  <2>1. CASE e = d /\ l = "offer"
    BY <1>3, <2>1
  <2>2. CASE e # d \/ l # "offer"
    <3>1. Engaged(e)
      BY <1>2, <1>5, <2>2 DEF Engaged
    <3>. QED
      BY <1>3, <1>5, <3>1 DEF LockInv, EngagedNotOffered
  <2>. QED
    BY <2>1, <2>2
<1>. QED
  BY <1>4, <1>6, <1>7, <1>9, <1>10, <1>11 DEF LockInv

LEMMA SaveBusyKeeps ==
    ASSUME DispatchInv, NEW r \in Req, SaveBusy(r), UNCHANGED scene
    PROVE  DispatchInv'
<1>. USE DEF DispatchInv, TypeInv
<1>0. job[r].pc = "busy" /\ job[r].pc \in ReservePC /\ job[r].copy \in DriverDoc /\ job[r].copy.status = "BUSY"
  BY JobParts DEF SaveBusy, At, LockInv, CopyIsBusy, ReservePC
<1>1. CASE SaveDriver(job[r].d, job[r].copy) /\ Goto(r, "offer") /\ UNCHANGED faults
  BY <1>0, <1>1, OwnerSaveKeeps DEF SaveBusy, StoreTypes
<1>2. CASE SaveDriver(job[r].d, job[r].copy) /\ Goto(r, "unlock") /\ Fault
  BY <1>0, <1>2, FaultStep, OwnerSaveKeeps DEF SaveBusy
<1>3. CASE UNCHANGED <<doc, races>> /\ Goto(r, "unlock") /\ Fault
  BY <1>0, <1>3, FaultStep, GiveUpKeeps DEF SaveBusy
<1>. QED
  BY <1>1, <1>2, <1>3 DEF SaveBusy

LEMMA RollbackKeeps ==
    ASSUME DispatchInv, NEW r \in Req, Rollback(r), UNCHANGED scene
    PROVE  DispatchInv'
<1>. USE DEF DispatchInv, TypeInv
<1>. DEFINE v == [job[r].copy EXCEPT !.status = "AVAILABLE"]
<1>0. job[r].pc \in ReservePC /\ v \in DriverDoc
  BY JobParts DEF Rollback, At, ReservePC, DriverDoc, DriverStatus
<1>1. CASE SaveDriver(job[r].d, v) /\ UNCHANGED faults
  <2>. HIDE DEF v
  <2>. QED
    BY <1>0, <1>1, OwnerSaveKeeps DEF Rollback, StoreTypes
<1>2. CASE Fault /\ UNCHANGED <<doc, races>>
  BY <1>0, <1>2, FaultStep, GiveUpKeeps DEF Rollback
<1>. QED
  BY <1>1, <1>2 DEF Rollback

\* The offer: the owner of the lock is alone with a driver that has no active
\* assignment.
LEMMA SaveOfferKeeps ==
    ASSUME DispatchInv, NEW r \in Req, SaveOffer(r), UNCHANGED scene
    PROVE  DispatchInv'
<1>. USE DEF DispatchInv, TypeInv
<1>0. PICK d \in Driver :
      /\ d = job[r].d /\ Mine(r) \in Assignment /\ DriverOf(Mine(r)) = d /\ job[r].x \in Delivery
      /\ job[r].op \in ReserveOps /\ job[r].pc = "offer"
  BY JobParts DEF SaveOffer, At, ReservePC
<1>1. published' \subseteq Topics \X Delivery /\ faults' \in 0..scene'.faults
  BY <1>0, AnnounceStep, FaultStep DEF SaveOffer, StoreTypes
<1>2. /\ asg' \in [Assignment -> AssignmentStatus]
      /\ late' \subseteq {b \in Assignment : asg'[b] = "OFFERED"}
      /\ \A b \in Assignment : b # Mine(r) => asg'[b] = asg[b]
  <2>1. CASE SaveAssignment(Mine(r), "OFFERED")
    BY <1>0, <2>1, SaveAssignmentStep DEF AssignmentStatus
  <2>2. CASE UNCHANGED <<asg, late>>
    BY <2>2 DEF StoreTypes
  <2>. QED
    BY <2>1, <2>2 DEF SaveOffer
<1>3. /\ JobTypes' /\ job'[r].pc \in {"unlock", "rollback"} /\ job'[r].d = d
      /\ \A q \in Req : q # r => job'[q] = job[q]
  <2>1. CASE job' = [job EXCEPT ![r].pc = "unlock", ![r].ok = TRUE]
    BY <1>0, <2>1, SMTT(30) DEF JobTypes, JobOK, JobRecord, JobPC, ReservePC
  <2>2. CASE Goto(r, "rollback")
    <3>1. "rollback" \in JobPC /\ "rollback" # "editRead"
      BY DEF JobPC, ReservePC
    <3>. QED
      BY <1>0, <2>2, <3>1, GotoStep
  <2>. QED
    BY <2>1, <2>2 DEF SaveOffer
<1>4. TypeInv'
  BY <1>1, <1>2, <1>3 DEF SaveOffer, StoreTypes, WorkerTypes
<1>5. LockHeld'
  BY <1>0, <1>3 DEF SaveOffer, LockInv, LockHeld, ReservePC
<1>6. CopyIsBusy'
  BY <1>3 DEF LockInv, CopyIsBusy
<1>7. \A e \in Driver : e # d => ActiveOf(e)' = ActiveOf(e)
  BY <1>0, <1>2 DEF ActiveOf
<1>8. races[d] = {} => \A b \in ActiveOf(d)' : b = Mine(r)
  <2>1. races[d] = {} => ActiveOf(d) = {}
    BY <1>0 DEF LockInv, ReservedIsFree
  <2>. QED
    BY <1>2, <2>1 DEF ActiveOf
<1>9. \A q \in Req : races[d] = {} /\ q # r /\ job[q].pc \in ReservePC => job[q].d # d
  BY <1>0 DEF LockInv, LockHeld, ReservePC
<1>10. ReservedIsFree'
  BY <1>3, <1>7, <1>9, JobParts DEF SaveOffer, LockInv, ReservedIsFree, ReservePC
<1>11. ReservationSafe'
  <2>. SUFFICES ASSUME NEW e \in Driver, races[e] = {}, NEW a \in ActiveOf(e)', NEW b \in ActiveOf(e)'
                PROVE  a = b
    BY DEF SaveOffer, ReservationSafe, OneActive
  <2>1. CASE e = d
    BY <1>8, <2>1
  <2>2. CASE e # d
    BY <1>7, <2>2 DEF LockInv, ReservationSafe, OneActive
  <2>. QED
    BY <2>1, <2>2
<1>12. \A e \in Driver : Engaged(e)' => Engaged(e)
  BY <1>0, <1>3, <1>7 DEF Engaged
<1>13. EngagedNotOffered'
  BY <1>12 DEF SaveOffer, LockInv, EngagedNotOffered
<1>. QED
  BY <1>4, <1>5, <1>6, <1>10, <1>11, <1>13 DEF LockInv

\* Release deletes the key whoever owns it: that is the caller itself unless
\* its TTL has passed.
LEMMA UnlockDriverKeeps ==
    ASSUME DispatchInv, NEW r \in Req, UnlockDriver(r), UNCHANGED scene
    PROVE  DispatchInv'
<1>. USE DEF DispatchInv, TypeInv
<1>. DEFINE d == job[r].d
<1>0. d \in Driver /\ job[r].pc \in ReservePC /\ job[r].ok \in BOOLEAN
  BY JobParts DEF UnlockDriver, At, ReservePC, JobTypes, JobOK, JobRecord
<1>1. PICK j : JobOK(j) /\ j.pc \notin ReservePC /\ job' = [job EXCEPT ![r] = j]
  BY <1>0, AfterReserveStep DEF UnlockDriver
<1>2. JobTypes' /\ job'[r].pc \notin ReservePC /\ \A q \in Req : q # r => job'[q] = job[q]
  BY <1>1, JobStep DEF JobTypes
<1>3. faults' \in 0..scene'.faults
  BY FaultStep DEF UnlockDriver, StoreTypes
<1>4. lock' \in [Driver -> Req \cup {"free"}] /\ \A e \in Driver : e # d => lock'[e] = lock[e]
  BY <1>0 DEF UnlockDriver, StoreTypes
<1>5. TypeInv'
  BY <1>2, <1>3, <1>4 DEF UnlockDriver, StoreTypes, WorkerTypes
<1>6. LockHeld'
  BY <1>0, <1>2, <1>4 DEF UnlockDriver, LockInv, LockHeld
<1>7. CopyIsBusy' /\ ReservedIsFree'
  BY <1>2 DEF UnlockDriver, LockInv, CopyIsBusy, ReservedIsFree, ActiveOf, ReservePC
<1>8. ReservationSafe'
  BY DEF UnlockDriver, LockInv, ReservationSafe, OneActive, ActiveOf
<1>9. EngagedNotOffered'
  BY <1>2 DEF UnlockDriver, LockInv, EngagedNotOffered, Engaged, ActiveOf, ReservePC
<1>. QED
  BY <1>5, <1>6, <1>7, <1>8, <1>9 DEF LockInv

\* Redis drops the key: with somebody inside, the race is recorded.
LEMMA LockExpiresKeeps ==
    ASSUME DispatchInv, NEW d \in Driver, LockExpires(d), UNCHANGED scene
    PROVE  DispatchInv'
<1>. USE DEF DispatchInv, TypeInv
<1>1. /\ lock' \in [Driver -> Req \cup {"free"}]
      /\ \A e \in Driver : e # d => lock'[e] = lock[e] /\ races'[e] = races[e]
      /\ races' \in [Driver -> SUBSET {"freed", "lock", "accept"}]
      /\ races[d] \subseteq races'[d]
      /\ InCritical(d) # {} => "lock" \in races'[d]
  BY DEF LockExpires, StoreTypes
<1>2. \A e \in Driver : races'[e] = {} => races[e] = {}
  BY <1>1
<1>3. TypeInv'
  BY <1>1 DEF LockExpires, StoreTypes, WorkerTypes, JobTypes, JobOK
<1>4. LockHeld'
  BY <1>1 DEF LockExpires, LockInv, LockHeld, InCritical
<1>5. CopyIsBusy' /\ ReservedIsFree'
  BY <1>2, JobParts DEF LockExpires, LockInv, CopyIsBusy, ReservedIsFree, ActiveOf
<1>6. ReservationSafe'
  BY <1>2 DEF LockExpires, LockInv, ReservationSafe, OneActive, ActiveOf
<1>7. EngagedNotOffered'
  BY <1>2 DEF LockExpires, LockInv, EngagedNotOffered, Engaged, ActiveOf
<1>. QED
  BY <1>3, <1>4, <1>5, <1>6, <1>7 DEF LockInv

-----------------------------------------------------------------------------
(* The process and its workers *)

LEMMA IdleWorkers ==
    IdleExpiry \in ExpiryRecord /\ IdleExpiry.pc = "idle" /\ IdleReconcile \in ReconcileRecord
BY AnyIsMember, NewDocType, AssignmentParts
   DEF IdleExpiry, IdleReconcile, ExpiryRecord, ReconcileRecord, AssignmentStatus

\* Restart: nobody is left in a critical section, the locks stay.
LEMMA RestartKeeps ==
    ASSUME DispatchInv, Restart, UNCHANGED scene
    PROVE  DispatchInv'
<1>. USE DEF DispatchInv, TypeInv
<1>1. TypeInv'
  BY FaultStep, IdleJob, IdleWorkers DEF Restart, StoreTypes, JobTypes, WorkerTypes
<1>2. Harmless
  BY IdleJob DEF Restart, Harmless, ReservePC
<1>. QED
  BY <1>1, <1>2, HarmlessKeeps

\* Time passes for an offer.
LEMMA OfferLapsesKeeps ==
    ASSUME DispatchInv, NEW a \in Assignment, OfferLapses(a), UNCHANGED scene
    PROVE  DispatchInv'
<1>. USE DEF DispatchInv, TypeInv
<1>1. TypeInv'
  BY DEF OfferLapses, StoreTypes, JobTypes, JobOK, WorkerTypes
<1>2. Harmless
  BY DEF OfferLapses, Harmless
<1>. QED
  BY <1>1, <1>2, HarmlessKeeps

\* A worker's step: the handlers and the locks stay, an assignment may end, a
\* driver may be saved.
LEMMA WorkerStep ==
    ASSUME DispatchInv, WorkerTypes', published' \subseteq Topics \X Delivery, faults' \in 0..scene'.faults,
           UNCHANGED <<scene, lock, job>>,
           \/ UNCHANGED <<doc, races, asg, late>>
           \/ /\ \E a \in Assignment, s \in AssignmentStatus \ ActiveStatus : SaveAssignment(a, s)
              /\ UNCHANGED <<doc, races>>
           \/ /\ \E d \in Driver, new \in DriverDoc : SaveDriver(d, new)
              /\ UNCHANGED <<asg, late>>
    PROVE  DispatchInv'
<1>. USE DEF DispatchInv, TypeInv
<1>1. JobTypes'
  BY DEF JobTypes, JobOK
<1>2. CASE UNCHANGED <<doc, races, asg, late>>
  <2>1. TypeInv'
    BY <1>1, <1>2 DEF StoreTypes
  <2>2. Harmless
    BY <1>2 DEF Harmless
  <2>. QED
    BY <2>1, <2>2, HarmlessKeeps
<1>3. ASSUME NEW a \in Assignment, NEW s \in AssignmentStatus \ ActiveStatus, SaveAssignment(a, s),
             UNCHANGED <<doc, races>>
      PROVE  DispatchInv'
  <2>1. TypeInv'
    BY <1>1, <1>3, SaveAssignmentStep DEF StoreTypes
  <2>2. Harmless
    BY <1>3, EndingIsHarmless
  <2>. QED
    BY <2>1, <2>2, HarmlessKeeps
<1>4. ASSUME NEW d \in Driver, NEW new \in DriverDoc, SaveDriver(d, new), UNCHANGED <<asg, late>>
      PROVE  DispatchInv'
  <2>1. TypeInv'
    BY <1>1, <1>4, SaveDriverStep DEF StoreTypes
  <2>2. Harmless
    BY <1>4, SavingIsHarmless
  <2>. QED
    BY <2>1, <2>2, HarmlessKeeps
<1>. QED
  BY <1>2, <1>3, <1>4

\* NextExpired leaves the worker idle or at its next id.
LEMMA NextExpiredStep ==
    ASSUME WorkerTypes, NEW a, NextExpired(a), UNCHANGED rec
    PROVE  WorkerTypes'
<1>1. CASE exp' = IdleExpiry
  BY <1>1, IdleWorkers DEF WorkerTypes
<1>2. CASE exp' = [IdleExpiry EXCEPT !.pc = "release", !.ids = exp.ids \ {a}]
  <2>1. exp.ids \ {a} \in SUBSET Assignment
    BY DEF WorkerTypes, ExpiryRecord
  <2>2. exp' \in ExpiryRecord /\ exp'.pc = "release"
    BY <1>2, <2>1, AnyIsMember, NewDocType, AssignmentParts DEF IdleExpiry, ExpiryRecord, AssignmentStatus
  <2>. QED
    BY <2>2 DEF WorkerTypes
<1>. QED
  BY <1>1, <1>2 DEF NextExpired

LEMMA NextBusyStep ==
    ASSUME WorkerTypes, NEW d \in Driver, NextBusy(d), UNCHANGED exp
    PROVE  WorkerTypes'
<1>1. CASE rec' = IdleReconcile
  BY <1>1, IdleWorkers DEF WorkerTypes
<1>2. CASE rec' = [rec EXCEPT !.pc = "check", !.todo = @ \ {d}]
  BY <1>2 DEF WorkerTypes, ReconcileRecord
<1>. QED
  BY <1>1, <1>2 DEF NextBusy

\* The fields of the expiry worker.
LEMMA ExpiryParts ==
    ASSUME WorkerTypes
    PROVE  /\ exp.id \in Assignment /\ exp.id[1] \in Delivery /\ DriverOf(exp.id) \in Driver
           /\ exp.copy \in DriverDoc /\ exp.found \subseteq Assignment /\ exp.ids \subseteq Assignment
<1>1. exp.id \in Assignment /\ exp.copy \in DriverDoc /\ exp.found \subseteq Assignment /\ exp.ids \subseteq Assignment
  BY DEF WorkerTypes, ExpiryRecord
<1>. QED
  BY <1>1, AssignmentParts

\* The assignment expiry worker, step by step.
LEMMA ExpiryKeeps ==
    ASSUME DispatchInv, Expiry, UNCHANGED scene
    PROVE  DispatchInv'
<1>. USE DEF DispatchInv, TypeInv
<1>0. published \subseteq Topics \X Delivery /\ faults \in 0..scene.faults
  BY DEF StoreTypes
<1>1. CASE ExpireFind
  <2>1. Overdue \subseteq Assignment
    BY DEF Overdue, StoreTypes
  <2>2. WorkerTypes'
    BY <1>1, <2>1 DEF ExpireFind, WorkerTypes, ExpiryRecord
  <2>. QED
    BY <1>0, <1>1, <2>2, WorkerStep DEF ExpireFind
<1>2. CASE ExpireMark
  <2>1. PICK a \in exp.found :
           /\ \/ SaveAssignment(a, "EXPIRED") /\ UNCHANGED faults
              \/ Fault /\ UNCHANGED <<asg, late>>
           /\ exp' = [exp EXCEPT !.found = @ \ {a}, !.ids = @ \cup {a},
                                 !.pc = IF exp.found = {a} THEN "release" ELSE "mark"]
    BY <1>2 DEF ExpireMark
  <2>2. a \in Assignment /\ "EXPIRED" \in AssignmentStatus \ ActiveStatus
    BY ExpiryParts DEF AssignmentStatus, ActiveStatus
  <2>3. WorkerTypes'
    BY <1>2, <2>1, <2>2 DEF ExpireMark, WorkerTypes, ExpiryRecord
  <2>4. faults' \in 0..scene'.faults
    BY <1>0, <2>1, FaultStep
  <2>. QED
    BY <1>0, <1>2, <2>1, <2>2, <2>3, <2>4, WorkerStep DEF ExpireMark
<1>3. ASSUME NEW a \in Assignment, ReleaseRead(a)
      PROVE  DispatchInv'
  <2>1. faults' \in 0..scene'.faults
    BY <1>0, <1>3, FaultStep DEF ReleaseRead
  <2>2. WorkerTypes'
    <3>1. CASE exp' = [exp EXCEPT !.pc = "save", !.id = a,
                                  !.to = IF asg[a] = "ACCEPTED" THEN "COMPLETED" ELSE "EXPIRED"]
      BY <1>3, <3>1 DEF ReleaseRead, WorkerTypes, ExpiryRecord, AssignmentStatus
    <3>2. CASE NextExpired(a)
      BY <1>3, <3>2, NextExpiredStep DEF ReleaseRead
    <3>. QED
      BY <1>3, <3>1, <3>2 DEF ReleaseRead
  <2>. QED
    BY <1>0, <1>3, <2>1, <2>2, WorkerStep DEF ReleaseRead
<1>4. CASE ReleaseSave
  <2>1. CASE SaveAssignment(exp.id, exp.to) /\ exp' = [exp EXCEPT !.pc = "driver"] /\ UNCHANGED faults
    <3>1. exp.id \in Assignment /\ exp.to \in AssignmentStatus \ ActiveStatus
      BY <1>4, ExpiryParts DEF ReleaseSave, WorkerTypes, AssignmentStatus, ActiveStatus
    <3>2. WorkerTypes'
      BY <1>4, <2>1 DEF ReleaseSave, WorkerTypes, ExpiryRecord
    <3>. QED
      BY <1>0, <1>4, <2>1, <3>1, <3>2, WorkerStep DEF ReleaseSave
  <2>2. CASE Fault /\ NextExpired(exp.id) /\ UNCHANGED <<asg, late>>
    <3>1. WorkerTypes' /\ faults' \in 0..scene'.faults
      BY <1>4, <2>2, NextExpiredStep, FaultStep DEF ReleaseSave
    <3>. QED
      BY <1>0, <1>4, <2>2, <3>1, WorkerStep DEF ReleaseSave
  <2>. QED
    BY <1>4, <2>1, <2>2 DEF ReleaseSave
<1>5. CASE ReleaseReadDriver
  <2>1. CASE /\ exp' = [exp EXCEPT !.pc = "free", !.copy = [doc[DriverOf(exp.id)] EXCEPT !.status = "AVAILABLE"]]
             /\ UNCHANGED <<published, faults>>
    <3>1. [doc[DriverOf(exp.id)] EXCEPT !.status = "AVAILABLE"] \in DriverDoc
      BY ExpiryParts DEF StoreTypes, DriverDoc, DriverStatus
    <3>2. WorkerTypes'
      BY <1>5, <2>1, <3>1 DEF ReleaseReadDriver, WorkerTypes, ExpiryRecord
    <3>. QED
      BY <1>0, <1>5, <2>1, <3>2, WorkerStep DEF ReleaseReadDriver
  <2>2. CASE Fault /\ Publish(ReleaseEvent, exp.id[1]) /\ NextExpired(exp.id)
    <3>1. WorkerTypes' /\ faults' \in 0..scene'.faults
      BY <1>5, <2>2, NextExpiredStep, FaultStep DEF ReleaseReadDriver
    <3>2. published' \subseteq Topics \X Delivery
      BY <2>2, ExpiryParts, PublishStep
    <3>. QED
      BY <1>5, <3>1, <3>2, WorkerStep DEF ReleaseReadDriver
  <2>. QED
    BY <1>5, <2>1, <2>2 DEF ReleaseReadDriver
<1>6. CASE ReleaseFree
  <2>1. WorkerTypes'
    BY <1>6, NextExpiredStep DEF ReleaseFree
  <2>2. CASE SaveDriver(DriverOf(exp.id), exp.copy) /\ Announce(ReleaseEvent, exp.id[1])
    <3>1. published' \subseteq Topics \X Delivery /\ faults' \in 0..scene'.faults
      BY <2>2, ExpiryParts, AnnounceStep
    <3>. QED
      BY <1>6, <2>1, <2>2, <3>1, ExpiryParts, WorkerStep DEF ReleaseFree
  <2>3. CASE Fault /\ UNCHANGED <<doc, races, published>>
    BY <1>0, <1>6, <2>1, <2>3, FaultStep, WorkerStep DEF ReleaseFree
  <2>. QED
    BY <1>6, <2>2, <2>3 DEF ReleaseFree
<1>. QED
  BY <1>1, <1>2, <1>3, <1>4, <1>5, <1>6 DEF Expiry

\* The reconciliation worker, step by step.
LEMMA ReconcileKeeps ==
    ASSUME DispatchInv, Reconcile, UNCHANGED scene
    PROVE  DispatchInv'
<1>. USE DEF DispatchInv, TypeInv
<1>0. published \subseteq Topics \X Delivery /\ faults \in 0..scene.faults
  BY DEF StoreTypes
<1>1. CASE ReconcileList
  <2>1. WorkerTypes'
    BY <1>1 DEF ReconcileList, StoreTypes, WorkerTypes, ReconcileRecord
  <2>. QED
    BY <1>0, <1>1, <2>1, WorkerStep DEF ReconcileList
<1>2. ASSUME NEW d \in Driver, ReconcileCheck(d)
      PROVE  DispatchInv'
  <2>1. faults' \in 0..scene'.faults
    BY <1>0, <1>2, FaultStep DEF ReconcileCheck
  <2>2. WorkerTypes'
    <3>1. CASE rec' = [rec EXCEPT !.pc = "repair", !.d = d]
      BY <1>2, <3>1 DEF ReconcileCheck, WorkerTypes, ReconcileRecord
    <3>2. CASE NextBusy(d)
      BY <1>2, <3>2, NextBusyStep DEF ReconcileCheck
    <3>. QED
      BY <1>2, <3>1, <3>2 DEF ReconcileCheck
  <2>. QED
    BY <1>0, <1>2, <2>1, <2>2, WorkerStep DEF ReconcileCheck
<1>3. CASE ReconcileRepair
  <2>1. rec.d \in Driver /\ [rec.snap[rec.d] EXCEPT !.status = "AVAILABLE"] \in DriverDoc
    BY DEF WorkerTypes, ReconcileRecord, DriverDoc, DriverStatus
  <2>2. WorkerTypes'
    BY <1>3, <2>1, NextBusyStep DEF ReconcileRepair
  <2>3. CASE SaveDriver(rec.d, [rec.snap[rec.d] EXCEPT !.status = "AVAILABLE"]) /\ UNCHANGED faults
    <3>1. \E d \in Driver, new \in DriverDoc : SaveDriver(d, new)
      BY <2>1, <2>3
    <3>. QED
      BY <1>0, <1>3, <2>2, <2>3, <3>1, WorkerStep DEF ReconcileRepair
  <2>4. CASE Fault /\ UNCHANGED <<doc, races>>
    BY <1>0, <1>3, <2>2, <2>4, FaultStep, WorkerStep DEF ReconcileRepair
  <2>. QED
    BY <1>3, <2>3, <2>4 DEF ReconcileRepair
<1>. QED
  BY <1>1, <1>2, <1>3 DEF Reconcile

-----------------------------------------------------------------------------
(* Theorems *)

LEMMA InitInv == ASSUME Init PROVE DispatchInv
<1>1. TypeInv
  BY IdleJob, IdleWorkers, NewDocType, SceneParts
     DEF Init, TypeInv, StoreTypes, JobTypes, WorkerTypes, AssignmentStatus
<1>2. \A d \in Driver : ActiveOf(d) = {}
  BY DEF Init, ActiveOf, ActiveStatus
<1>3. LockInv
  BY <1>2, IdleJob DEF Init, LockInv, LockHeld, CopyIsBusy, ReservedIsFree, EngagedNotOffered,
                       ReservationSafe, OneActive, Engaged, NewDoc, ReservePC
<1>. QED
  BY <1>1, <1>3 DEF DispatchInv

\* Every step of the specification keeps the inductive invariant.
LEMMA NextInv == ASSUME DispatchInv, [Next]_<<vars, scene>> PROVE DispatchInv'
<1>1. CASE UNCHANGED <<vars, scene>>
  BY <1>1 DEF vars, DispatchInv, TypeInv, StoreTypes, JobTypes, JobOK, WorkerTypes, LockInv, LockHeld,
              CopyIsBusy, ReservedIsFree, EngagedNotOffered, ReservationSafe, OneActive, Engaged, ActiveOf
<1>2. ASSUME NEW r \in Req, Proceed(r), UNCHANGED scene PROVE DispatchInv'
  BY <1>2, ReportNoDriverKeeps, LockDriverKeeps, ReadDriverKeeps, SaveBusyKeeps, SaveOfferKeeps,
     RollbackKeeps, UnlockDriverKeeps, ReadOfferKeeps, SaveAcceptedKeeps, SaveRejectedKeeps,
     CompleteAssignmentKeeps, ReadReleasedKeeps, ReadForEditKeeps, SaveCopyKeeps DEF Proceed
<1>3. CASE Next
  BY <1>2, <1>3, ArriveKeeps, LockErrorKeeps, AbortKeeps, LockExpiresKeeps, OfferLapsesKeeps,
     ExpiryKeeps, ReconcileKeeps, RestartKeeps DEF Next
<1>. QED
  BY <1>1, <1>3

\* The inductive invariant holds in every behaviour of driver-service's
\* reservation protocol.
THEOREM DispatchInvariant == Spec => []DispatchInv
BY InitInv, NextInv, PTL DEF Spec

\* TypeOK: the documents, locks, events and the handlers' and workers' records
\* have their types, only open offers are overdue, and only callers of
\* reserveDriver are inside it.
THEOREM TypeCorrect == Spec => []TypeOK
<1>1. DispatchInv => TypeOK
  <2>1. TypeInv => job \in [Req -> JobRecord]
    BY DEF TypeInv, JobTypes, JobOK
  <2>. QED
    BY <2>1 DEF DispatchInv, TypeInv, StoreTypes, JobTypes, JobOK, WorkerTypes, ExpiryRecord, ReconcileRecord, TypeOK
<1>. QED
  BY <1>1, DispatchInvariant, PTL

\* LockMutex: reserveDriver's lock admits one handler per driver for as long
\* as its TTL outlasts the critical section, although Release deletes the key
\* whoever owns it.
THEOREM MutualExclusion == Spec => []LockMutex
<1>1. DispatchInv => LockMutex
  BY DEF DispatchInv, LockInv, LockHeld, LockMutex, InCritical
<1>. QED
  BY <1>1, DispatchInvariant, PTL

\* EngagedNotOffered: without a recorded race a driver with an active
\* assignment, or whose offer is being saved, is not AVAILABLE to the next
\* reservation.
THEOREM EngagedIsBusy == Spec => []EngagedNotOffered
<1>1. DispatchInv => EngagedNotOffered
  BY DEF DispatchInv, LockInv
<1>. QED
  BY <1>1, DispatchInvariant, PTL

\* ReservationSafe: reserveDriver gives a driver one active assignment unless
\* one of the three recorded races has happened to it.
THEOREM OneActiveAssignment == Spec => []ReservationSafe
<1>1. DispatchInv => ReservationSafe
  BY DEF DispatchInv, LockInv
<1>. QED
  BY <1>1, DispatchInvariant, PTL
=============================================================================
