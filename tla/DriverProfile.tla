---------------------------- MODULE DriverProfile ----------------------------
(***************************************************************************)
(* driver-service around the reservation (see DriverDispatch): driver      *)
(* registration with the role kept by user-service, reviews and the rating *)
(* stored in the driver's document, candidate search over Redis GEO and    *)
(* MongoDB, and the GraphQL and gRPC reads.  A call that writes, and every *)
(* call of a handler that writes, is a step, and so are the count and the  *)
(* find of a page of reviews; any other read-only handler is one step,     *)
(* since what it joins never changes between its reads.                    *)
(***************************************************************************)
EXTENDS Integers, Sequences, FiniteSets

CONSTANTS DpHandler,    \* requests that run at the same time
          DpRuns,       \* [docs, roles, geo, delivery, todo, faults, restarts]: the collections at the
                        \* start, the deliveries, the requests to come, the budget of faults
          DpGeoCount,   \* drivers that a GEO search returns at most
          DpRank,       \* DispatchPolicy.candidateCount
          DpPage,       \* the default page of reviews
          DpMaxPage     \* the largest page of reviews

DpRequest ==
    [op : STRING, user : STRING, admin : BOOLEAN, target : STRING, d : Nat, x : STRING, stars : Int,
     radius : Int, kind : STRING, limit : Int, grpc : BOOLEAN, what : STRING]
DpFreshDoc ==
    [user : STRING, status : {"OFFLINE", "AVAILABLE", "BUSY", "SUSPENDED"}, active : BOOLEAN,
     blocked : BOOLEAN, kind : STRING, sum : {0}, n : {0}]

\* Who has a profile at the start, before any review, has the role as well.
ASSUME DpAssumption ==
    /\ \A run \in DpRuns :
          /\ {"docs", "roles", "geo", "delivery", "todo", "faults", "restarts"} \subseteq DOMAIN run
          /\ run.docs \in Seq(DpFreshDoc) /\ run.todo \in Seq(DpRequest)
          /\ \A d \in DOMAIN run.docs : run.docs[d].user \in DOMAIN run.roles /\ run.roles[run.docs[d].user] = "driver"
    /\ DpGeoCount \in Nat /\ DpRank \in Nat /\ DpPage \in Nat \ {0} /\ DpMaxPage \in Nat \ {0}

VARIABLES dpRun,
          dpDoc,        \* drivers collection, a driver's id is its position
          dpRole,       \* user-service: the role of each user
          dpRev,        \* reviews collection in the order of createdAt
          dpMemo,       \* DriverLoader: the document each id was first loaded with
          dpJob,        \* what each handler is doing
          dpSaid,       \* the last answer of a read-only handler
          dpWalk,       \* a client paging through a driver's reviews
          dpMade        \* drivers whose driver.created was published

dpVars == <<dpRun, dpDoc, dpRole, dpRev, dpMemo, dpJob, dpSaid, dpWalk, dpMade>>

DpIdle == [pc |-> "idle", user |-> "", d |-> 0, x |-> "", stars |-> 0, active |-> FALSE,
           copy |-> 0, sum |-> 0, n |-> 0]
\* An answer: the drivers whose profile it shows, and those whose assignments
\* or reviews it shows.
DpSilent == [code |-> 0, user |-> "", admin |-> FALSE, profile |-> {}, private |-> {}, items |-> <<>>]
\* torn: a review arrived between the count and the find of a page.
DpNoWalk == [pc |-> "idle", d |-> 0, page |-> 0, limit |-> 0, start |-> {}, seen |-> {}, total |-> 0, torn |-> FALSE]

\* A driver's document; Rating is sum / n and RatingCount is n.
DpNewDoc(user, active) ==
    [user |-> user, status |-> "OFFLINE", active |-> active, blocked |-> FALSE,
     kind |-> "CAR", sum |-> 0, n |-> 0]

DpInit ==
    /\ dpRun \in DpRuns
    /\ dpDoc = dpRun.docs
    /\ dpRole = dpRun.roles
    /\ dpRev = <<>>
    /\ dpMemo = [d \in {} |-> 0]
    /\ dpJob = [r \in DpHandler |-> DpIdle]
    /\ dpSaid = DpSilent
    /\ dpWalk = DpNoWalk
    /\ dpMade = {}

DpSpend(field) == dpRun[field] > 0 /\ dpRun' = [dpRun EXCEPT ![field] = @ - 1]
DpFault == DpSpend("faults")
DpFine == UNCHANGED dpRun

DpAt(r, pc) == dpJob[r].pc = pc
DpGo(r, pc) == dpJob' = [dpJob EXCEPT ![r].pc = pc]
DpDone(r) == dpJob' = [dpJob EXCEPT ![r] = DpIdle]

\* A request of kind op is the next to arrive.
DpTake(op) == dpRun.todo # <<>> /\ Head(dpRun.todo).op = op /\ dpRun' = [dpRun EXCEPT !.todo = Tail(@)]
DpAsked == Head(dpRun.todo)

-----------------------------------------------------------------------------
(* Repositories *)

DpKnown(d) == d \in DOMAIN dpDoc

\* FindByUserID returns one of these documents, or nil.
FindByUserID(user) == {d \in DOMAIN dpDoc : dpDoc[d].user = user}

FindByIDs(ids) == {d \in ids : DpKnown(d)}

\* Available, in good standing and of the right kind; the location in the
\* name plays no part.
FindAvailableByLocation(kind) ==
    {d \in DOMAIN dpDoc : /\ dpDoc[d].status = "AVAILABLE" /\ ~dpDoc[d].blocked /\ dpDoc[d].active
                          /\ kind \in {"", dpDoc[d].kind}}

FindByStatus(s) == {d \in DOMAIN dpDoc : dpDoc[d].status = s}

\* assignmentRepo.FindByID and FindByDeliveryID: an assignment names its
\* driver; 0 when there is none.
AssignedDriver(x) == dpRun.delivery[x].assigned

\* FindActiveByDriver
ActiveDeliveries(d) == {x \in DOMAIN dpRun.delivery : AssignedDriver(x) = d}

ReviewsOf(d) == {i \in DOMAIN dpRev : dpRev[i].d = d}

\* The place of a review among those of the driver, the newest being the first.
DpPlace(i, d) == Cardinality({j \in ReviewsOf(d) : j >= i})

ReviewFindByDeliveryID(x) == {i \in DOMAIN dpRev : dpRev[i].x = x}

\* FindByDriverID: newest first, skip and limit.
FindByDriverID(d, skip, limit) == {i \in ReviewsOf(d) : DpPlace(i, d) > skip /\ DpPlace(i, d) <= skip + limit}

\* The stars of some reviews, counted one by one.
DpStars(revs) == Cardinality({v \in revs \X (1 .. 5) : v[2] <= dpRev[v[1]].stars})

CalculateAverageRating(d) == [sum |-> DpStars(ReviewsOf(d)), n |-> Cardinality(ReviewsOf(d))]

\* UpdateRating sets the two fields and leaves the rest of the document.
UpdateRating(d, avg) == dpDoc' = [dpDoc EXCEPT ![d].sum = avg.sum, ![d].n = avg.n]

DpReview(r) == [d |-> dpJob[r].d, user |-> dpJob[r].user, x |-> dpJob[r].x, stars |-> dpJob[r].stars]

-----------------------------------------------------------------------------
(* registerDriver *)

\* An administrator may register somebody else and activates the profile at
\* once; a user applies for itself.
RegisterTarget(q) == IF q.admin /\ q.target # "" THEN q.target ELSE q.user

RegisterDriver(r) ==
    /\ DpAt(r, "idle") /\ DpTake("register")
    /\ IF ~DpAsked.admin /\ DpAsked.user = "" THEN UNCHANGED dpJob
       ELSE dpJob' = [dpJob EXCEPT ![r] = [DpIdle EXCEPT !.pc = "regFind", !.user = RegisterTarget(DpAsked),
                                                        !.active = DpAsked.admin]]
    /\ UNCHANGED <<dpDoc, dpRole, dpRev, dpMade>>

\* user-service knows the user.
DpUser(r) == dpJob[r].user \in DOMAIN dpRole

\* A profile that is found ends the request; an error does not.
RegisterFind(r) ==
    /\ DpAt(r, "regFind")
    /\ \/ /\ DpFine
          /\ IF FindByUserID(dpJob[r].user) # {} THEN DpDone(r) ELSE DpGo(r, "regRole")
       \/ DpFault /\ DpGo(r, "regRole")
    /\ UNCHANGED <<dpDoc, dpRole, dpRev, dpMade>>

\* GetUser: a user that is a driver already is refused; an error, or a user
\* that is not known, is ignored.
RegisterRole(r) ==
    /\ DpAt(r, "regRole")
    /\ \/ DpFine /\ IF DpUser(r) /\ dpRole[dpJob[r].user] = "driver" THEN DpDone(r) ELSE DpGo(r, "regUpdate")
       \/ DpFault /\ DpGo(r, "regUpdate")
    /\ UNCHANGED <<dpDoc, dpRole, dpRev, dpMade>>

\* Bug: a role that could not be updated is only logged.
UpdateUserRoleLogged(r) ==
    /\ DpAt(r, "regUpdate")
    /\ \/ DpUser(r) /\ DpFine /\ dpRole' = [dpRole EXCEPT ![dpJob[r].user] = "driver"] /\ DpGo(r, "regSave")
       \/ DpFault /\ UNCHANGED dpRole /\ DpGo(r, "regSave")
    /\ UNCHANGED <<dpDoc, dpRev, dpMade>>

\* user-service stores the role in lower case.  An answer that is lost fails
\* the request although the role is stored.
UpdateUserRole(r) ==
    /\ DpAt(r, "regUpdate")
    /\ \/ DpUser(r) /\ DpFine /\ dpRole' = [dpRole EXCEPT ![dpJob[r].user] = "driver"] /\ DpGo(r, "regSave")
       \/ DpUser(r) /\ DpFault /\ dpRole' \in {dpRole, [dpRole EXCEPT ![dpJob[r].user] = "driver"]} /\ DpDone(r)
       \/ ~DpUser(r) /\ DpFine /\ UNCHANGED dpRole /\ DpDone(r)
    /\ UNCHANGED <<dpDoc, dpRev, dpMade>>

\* Save: no index on userId is created at startup, so a second profile of a
\* user is stored as well.  The event is best effort.
RegisterSave(r) ==
    /\ DpAt(r, "regSave")
    /\ DpDone(r)
    /\ \/ /\ dpDoc' = Append(dpDoc, DpNewDoc(dpJob[r].user, dpJob[r].active))
          /\ \/ DpFine /\ dpMade' = dpMade \cup {Len(dpDoc) + 1}
             \/ DpFault /\ UNCHANGED dpMade
       \/ DpFault /\ UNCHANGED <<dpDoc, dpMade>>
    /\ UNCHANGED <<dpRole, dpRev>>

-----------------------------------------------------------------------------
(* rateDriver *)

\* The resolver's bounds on the rating; without a user the review is written
\* for "user-client".
RateDriver(r) ==
    /\ DpAt(r, "idle") /\ DpTake("rate")
    /\ IF DpAsked.stars \notin 1 .. 5 THEN UNCHANGED dpJob
       ELSE dpJob' = [dpJob EXCEPT ![r] = [DpIdle EXCEPT !.pc = "rateFind", !.d = DpAsked.d, !.x = DpAsked.x,
                                             !.user = IF DpAsked.user = "" THEN "user-client" ELSE DpAsked.user,
                                             !.stars = DpAsked.stars]]
    /\ UNCHANGED <<dpDoc, dpRole, dpRev, dpMade>>

\* Is driver d the one that delivered x: by its id, by its user's id, or by
\* the assignment.  A driver that is not known is only asked for its user
\* when the delivery names another one, which ends the request in an error.
DriverMatches(d, x) ==
    LET v == dpRun.delivery[x]
        named == v.driver # 0 \/ v.driverUser # ""
    IN \/ v.driver = d
       \/ v.driverUser # "" /\ DpKnown(d) /\ v.driverUser = dpDoc[d].user
       \/ (~named \/ DpKnown(d)) /\ AssignedDriver(x) = d

\* The delivery must be known, belong to the user and have been brought by
\* the driver.
RateAllowed(r) ==
    /\ dpJob[r].x \in DOMAIN dpRun.delivery
    /\ dpRun.delivery[dpJob[r].x].customer = dpJob[r].user
    /\ DriverMatches(dpJob[r].d, dpJob[r].x)

RateFind(r) ==
    /\ DpAt(r, "rateFind")
    /\ \/ DpFine /\ IF RateAllowed(r) THEN DpGo(r, "rateSeen") ELSE DpDone(r)
       \/ DpFault /\ DpDone(r)
    /\ UNCHANGED <<dpDoc, dpRole, dpRev, dpMade>>

RateSeen(r) ==
    /\ DpAt(r, "rateSeen")
    /\ DpFine
    /\ IF ReviewFindByDeliveryID(dpJob[r].x) # {} THEN DpDone(r) ELSE DpGo(r, "rateSave")
    /\ UNCHANGED <<dpDoc, dpRole, dpRev, dpMade>>

\* Create: the index on deliveryId is never created, the insert succeeds.
RateSave(r) ==
    /\ DpAt(r, "rateSave")
    /\ \/ DpFine /\ dpRev' = Append(dpRev, DpReview(r)) /\ DpGo(r, "rateAvg")
       \/ DpFault /\ UNCHANGED dpRev /\ DpDone(r)
    /\ UNCHANGED <<dpDoc, dpRole, dpMade>>

\* From here on an error leaves the review stored and is not reported.
RateAverage(r) ==
    /\ DpAt(r, "rateAvg")
    /\ \/ /\ DpFine
          /\ LET avg == CalculateAverageRating(dpJob[r].d)
             IN dpJob' = [dpJob EXCEPT ![r].pc = "rateStore", ![r].sum = avg.sum, ![r].n = avg.n]
       \/ DpFault /\ DpDone(r)
    /\ UNCHANGED <<dpDoc, dpRole, dpRev, dpMade>>

RateStore(r) ==
    /\ DpAt(r, "rateStore")
    /\ DpDone(r)
    /\ \/ /\ DpFine
          /\ IF DpKnown(dpJob[r].d) THEN UpdateRating(dpJob[r].d, dpJob[r]) ELSE UNCHANGED dpDoc
       \/ DpFault /\ UNCHANGED dpDoc
    /\ UNCHANGED <<dpRole, dpRev, dpMade>>

-----------------------------------------------------------------------------
(* Handlers that read a document and save all of it: blockDriver stands for *)
(* the edits of DriverDispatch.                                             *)

BlockDriver(r) ==
    /\ DpAt(r, "idle") /\ DpTake("block")
    /\ IF DpAsked.admin /\ DpKnown(DpAsked.d)
       THEN dpJob' = [dpJob EXCEPT ![r] = [DpIdle EXCEPT !.pc = "blockSave", !.d = DpAsked.d,
                                                        !.copy = [dpDoc[DpAsked.d] EXCEPT !.blocked = TRUE]]]
       ELSE UNCHANGED dpJob
    /\ UNCHANGED <<dpDoc, dpRole, dpRev, dpMade>>

BlockSave(r) ==
    /\ DpAt(r, "blockSave")
    /\ DpDone(r)
    /\ \/ DpFine /\ dpDoc' = [dpDoc EXCEPT ![dpJob[r].d] = dpJob[r].copy]
       \/ DpFault /\ UNCHANGED dpDoc
    /\ UNCHANGED <<dpRole, dpRev, dpMade>>

-----------------------------------------------------------------------------
(* FindAvailableDrivers *)

DpAtMost(limit, n) == IF n < limit THEN n ELSE limit

\* GEOSearchDrivers: the nearest within the radius, at most DpGeoCount, a
\* busy driver taking the place of an available one.
GEOSearchDrivers(radius) ==
    LET near == {d \in DOMAIN dpRun.geo : dpRun.geo[d] <= radius}
    IN {S \in SUBSET near : /\ Cardinality(S) = DpAtMost(DpGeoCount, Cardinality(near))
                            /\ \A d \in S, e \in near \ S : dpRun.geo[d] <= dpRun.geo[e]}

\* The candidates and the distance each is shown at: drivers that Redis knows
\* to be near or, when none of them can be offered the delivery, every
\* available driver wherever it is, at distance 0 and with one score for all.
DpCandidates(found, kind) ==
    LET near == FindByIDs(found) \cap FindAvailableByLocation(kind)
    IN IF near # {} THEN [d \in near |-> dpRun.geo[d]] ELSE [d \in FindAvailableByLocation(kind) |-> 0]

\* RankCandidates: by score, at most candidateCount; the sort is not stable,
\* and drivers with the same score come in any order.
RankCandidates(dist) ==
    {s \in [1 .. DpAtMost(DpRank, Cardinality(DOMAIN dist)) -> DOMAIN dist] :
        /\ \A i, j \in DOMAIN s : i < j => s[i] # s[j] /\ dist[s[i]] <= dist[s[j]]
        /\ \A i \in DOMAIN s, d \in DOMAIN dist : dist[d] < dist[s[i]] => \E j \in DOMAIN s : s[j] = d}

\* What Redis may answer, nothing when it is down.
FindAvailableDrivers(radius, kind) ==
    {DpCandidates(found, kind) : found \in GEOSearchDrivers(IF radius <= 0 THEN 10 ELSE radius) \cup {{}}}

\* DriverLoader keeps the first document it has loaded of every driver.
Loaded(ids) == [d \in ids \cup DOMAIN dpMemo |-> IF d \in DOMAIN dpMemo THEN dpMemo[d] ELSE dpDoc[d]]

\* nearbyDrivers: candidates with the rating and the block of the loader.
DpNearbyDrivers(q, dist, ranked) ==
    LET shown == DpAtMost(IF q.limit > 0 THEN q.limit ELSE 50, Len(ranked))
        docs == Loaded({ranked[i] : i \in 1 .. shown})
    IN /\ dpMemo' = docs
       /\ dpSaid' = [DpSilent EXCEPT !.code = 200, !.user = q.user, !.admin = q.admin,
                        !.items = [i \in 1 .. shown |-> [d |-> ranked[i], blocked |-> docs[ranked[i]].blocked,
                                                         dist |-> dist[ranked[i]]]]]

\* gRPC FindAvailableDrivers: the same search for a delivery.
GrpcFindAvailable(q, dist, ranked) ==
    /\ UNCHANGED dpMemo
    /\ dpSaid' = IF q.x = "" THEN [DpSilent EXCEPT !.code = 400]
                 ELSE [DpSilent EXCEPT !.code = 200,
                         !.items = [i \in DOMAIN ranked |-> [d |-> ranked[i], blocked |-> FALSE,
                                                             dist |-> dist[ranked[i]]]]]

DpSearch ==
    /\ DpTake("search")
    /\ \E dist \in FindAvailableDrivers(DpAsked.radius, DpAsked.kind) : \E ranked \in RankCandidates(dist) :
          IF DpAsked.grpc THEN GrpcFindAvailable(DpAsked, dist, ranked) ELSE DpNearbyDrivers(DpAsked, dist, ranked)
    /\ UNCHANGED <<dpDoc, dpRole, dpRev, dpJob, dpWalk, dpMade>>

-----------------------------------------------------------------------------
(* Reads *)

\* authorizeActiveDriver: the caller's profile, if it may work.
DpAuthorized(user) ==
    {d \in FindByUserID(user) : user # "" /\ dpDoc[d].active /\ ~dpDoc[d].blocked /\ dpDoc[d].status # "SUSPENDED"}

DpOwns(q, d) == q.admin \/ (DpKnown(d) /\ dpDoc[d].user = q.user)

DpReply(q, code, private) ==
    [code |-> code, user |-> q.user, admin |-> q.admin, profile |-> {}, private |-> private, items |-> <<>>]

\* The whole driver, its status and whether it is blocked included.
DpProfile(q, code, shown) == [DpReply(q, code, {}) EXCEPT !.profile = shown]

\* driver(id) asks nobody who they are.
DpDriverQuery(q) == DpProfile(q, IF DpKnown(q.d) THEN 200 ELSE 404, FindByIDs({q.d}))

MyDriverProfile(q) ==
    DpProfile(q, IF q.user = "" THEN 401 ELSE IF FindByUserID(q.user) = {} THEN 404 ELSE 200,
              IF q.user = "" THEN {} ELSE FindByUserID(q.user))

DriverActiveAssignment(q) ==
    LET own == DpAuthorized(q.user)
        target == IF q.d # 0 THEN {q.d} ELSE own
    IN IF q.d # 0 /\ ~DpOwns(q, q.d) THEN DpReply(q, 403, {})
       ELSE IF target = {} THEN DpReply(q, 401, {})
       ELSE DpReply(q, 200, {d \in target : ActiveDeliveries(d) # {}})

\* The profile and the delivery that is under way.
DriverStatus(q) ==
    IF ~DpKnown(q.d) THEN DpReply(q, 404, {})
    ELSE IF ~DpOwns(q, q.d) THEN DpReply(q, 403, {}) ELSE [DpReply(q, 200, {q.d}) EXCEPT !.profile = {q.d}]

AssignmentQuery(q) ==
    IF q.x \notin DOMAIN dpRun.delivery \/ AssignedDriver(q.x) = 0 THEN DpReply(q, 404, {})
    ELSE IF ~DpOwns(q, AssignedDriver(q.x)) THEN DpReply(q, 403, {})
    ELSE DpReply(q, 200, {AssignedDriver(q.x)})

\* The one assignment FindByDeliveryID returns stands for all attempts.
DispatchAttempts(q) ==
    IF ~q.admin THEN DpReply(q, 403, {})
    ELSE DpReply(q, 200, IF q.x \in DOMAIN dpRun.delivery THEN {AssignedDriver(q.x)} \ {0} ELSE {})

\* availableDeliveries: an error of delivery-service gives an empty list.
AvailableDeliveries(q) == DpReply(q, IF DpAuthorized(q.user) = {} THEN 403 ELSE 200, {})

\* gRPC GetDriver and GetDriverStatus answer the other services.
GrpcGetDriver(q) ==
    [DpProfile(q, IF q.d = 0 THEN 400 ELSE IF DpKnown(q.d) THEN 200 ELSE 404, FindByIDs({q.d})) EXCEPT !.admin = TRUE]

\* ValidateID of a driver's or of a user's id.
ValidateID(q) ==
    [DpReply(q, CASE q.d # 0 -> IF DpKnown(q.d) THEN 200 ELSE 404
                  [] q.d = 0 /\ q.user # "" -> IF FindByUserID(q.user) # {} THEN 200 ELSE 404
                  [] OTHER -> 400, {}) EXCEPT !.admin = TRUE]

DpRead ==
    /\ DpTake("read")
    /\ LET q == DpAsked IN
       \/ q.what = "driver" /\ dpSaid' = DpDriverQuery(q)
       \/ q.what = "me" /\ dpSaid' = MyDriverProfile(q)
       \/ q.what = "active" /\ dpSaid' = DriverActiveAssignment(q)
       \/ q.what = "status" /\ dpSaid' = DriverStatus(q)
       \/ q.what = "assignment" /\ dpSaid' = AssignmentQuery(q)
       \/ q.what = "attempts" /\ dpSaid' = DispatchAttempts(q)
       \/ q.what = "open" /\ dpSaid' = AvailableDeliveries(q)
       \/ q.what = "get" /\ dpSaid' = GrpcGetDriver(q)
       \/ q.what = "validate" /\ dpSaid' = ValidateID(q)
    /\ UNCHANGED <<dpDoc, dpRole, dpRev, dpMemo, dpJob, dpWalk, dpMade>>

\* GetDriverReviewsHandler: a page of reviews and the rating of the document.
DpLimit(limit) == IF limit < 1 THEN DpPage ELSE IF limit > DpMaxPage THEN DpMaxPage ELSE limit

GetDriverReviews(d, page, limit) == FindByDriverID(d, (page - 1) * DpLimit(limit), DpLimit(limit))

DpPaging == dpWalk.pc \in {"count", "find"}

\* driverReviews, for the driver and administrators.
DpReviewsFirst ==
    /\ ~DpPaging /\ DpTake("reviews")
    /\ IF ~DpOwns(DpAsked, DpAsked.d)
       THEN dpSaid' = DpReply(DpAsked, 403, {}) /\ UNCHANGED dpWalk
       ELSE IF ~DpKnown(DpAsked.d)
       THEN dpSaid' = DpReply(DpAsked, 500, {}) /\ UNCHANGED dpWalk
       ELSE /\ dpSaid' = DpReply(DpAsked, 200, {DpAsked.d})
            /\ dpWalk' = [DpNoWalk EXCEPT !.pc = "count", !.d = DpAsked.d, !.page = 1, !.limit = DpAsked.limit,
                                          !.start = ReviewsOf(DpAsked.d)]
    /\ UNCHANGED <<dpDoc, dpRole, dpRev, dpMemo, dpJob, dpMade>>

\* FindByDriverID counts the reviews ...
DpReviewsCount ==
    /\ dpWalk.pc = "count" /\ DpFine
    /\ dpWalk' = [dpWalk EXCEPT !.pc = "find", !.total = Cardinality(ReviewsOf(dpWalk.d))]
    /\ UNCHANGED <<dpDoc, dpRole, dpRev, dpMemo, dpJob, dpSaid, dpMade>>

\* ... and then finds the page; the client asks for the next one while
\* nextPage, which follows from the count, says there is one.
DpReviewsNext ==
    /\ dpWalk.pc = "find" /\ DpFine
    /\ LET more == dpWalk.page * DpLimit(dpWalk.limit) < dpWalk.total
       IN dpWalk' = [dpWalk EXCEPT !.pc = IF more THEN "count" ELSE "done",
                                   !.page = IF more THEN @ + 1 ELSE @,
                                   !.seen = @ \cup GetDriverReviews(dpWalk.d, dpWalk.page, dpWalk.limit),
                                   !.torn = @ \/ dpWalk.total # Cardinality(ReviewsOf(dpWalk.d))]
    /\ UNCHANGED <<dpDoc, dpRole, dpRev, dpMemo, dpJob, dpSaid, dpMade>>

\* Either of them fails, and the page is answered with an error.
DpReviewsFail ==
    /\ DpPaging /\ DpFault
    /\ dpWalk' = [dpWalk EXCEPT !.pc = "failed"]
    /\ UNCHANGED <<dpDoc, dpRole, dpRev, dpMemo, dpJob, dpSaid, dpMade>>

\* heartbeat_monitor counts the available drivers in its log and changes nothing.
HeartbeatCheck ==
    /\ DpTake("heartbeat")
    /\ dpSaid' = [DpSilent EXCEPT !.admin = TRUE, !.profile = FindByStatus("AVAILABLE")]
    /\ UNCHANGED <<dpDoc, dpRole, dpRev, dpMemo, dpJob, dpWalk, dpMade>>

\* The process stops: handlers end where they are, the loader starts empty.
DpRestart ==
    /\ DpSpend("restarts")
    /\ dpJob' = [r \in DpHandler |-> DpIdle]
    /\ dpMemo' = [d \in {} |-> 0]
    /\ UNCHANGED <<dpDoc, dpRole, dpRev, dpSaid, dpWalk, dpMade>>

DpStep(r) ==
    /\ \/ RegisterDriver(r) \/ RegisterFind(r) \/ RegisterRole(r) \/ UpdateUserRole(r) \/ RegisterSave(r)
       \/ RateDriver(r) \/ RateFind(r) \/ RateSeen(r) \/ RateSave(r) \/ RateAverage(r) \/ RateStore(r)
       \/ BlockDriver(r) \/ BlockSave(r)
    /\ UNCHANGED <<dpMemo, dpSaid, dpWalk>>

DpReviewsStep == DpReviewsFirst \/ DpReviewsCount \/ DpReviewsNext \/ DpReviewsFail

DpNext ==
    \/ \E r \in DpHandler : DpStep(r)
    \/ DpSearch \/ DpRead \/ DpReviewsStep \/ HeartbeatCheck \/ DpRestart

DpSpec == DpInit /\ [][DpNext]_dpVars

-----------------------------------------------------------------------------
(* Properties *)

\* Documents, reviews and handlers are well formed.
DpTypeOK ==
    /\ \A d \in DOMAIN dpDoc : dpDoc[d].status \in {"OFFLINE", "AVAILABLE", "BUSY", "SUSPENDED"}
    /\ \A i \in DOMAIN dpRev : dpRev[i].stars \in 1 .. 5
    /\ \A r \in DpHandler : dpJob[r].pc \in {"idle", "regFind", "regRole", "regUpdate", "regSave", "rateFind",
                                             "rateSeen", "rateSave", "rateAvg", "rateStore", "blockSave"}
    /\ DOMAIN dpMemo \subseteq DOMAIN dpDoc /\ dpMade \subseteq DOMAIN dpDoc

\* Whoever has a driver profile has the role of a driver in user-service,
\* whichever call of the registration failed or overlapped another (the
\* converse does not hold: a failed save leaves the role behind).
DpProfileHasRole == \A d \in DOMAIN dpDoc : dpRole[dpDoc[d].user] = "driver"

\* The rating shown for a driver is the average of reviews that customers
\* wrote about this driver, however the steps of concurrent reviews and of
\* whole-document saves interleave (it may miss the latest ones).
DpRatingBacked ==
    \A d \in DOMAIN dpDoc :
        \E S \in SUBSET DOMAIN dpRev :
            /\ \A i \in S : dpRev[i].d = d /\ dpRun.delivery[dpRev[i].x].customer = dpRev[i].user
            /\ dpDoc[d].n = Cardinality(S)
            /\ dpDoc[d].sum = DpStars(S)

\* Paging through a driver's reviews, newest first, leaves no hole: of the
\* reviews that were there at the start, whatever is newer than one that was
\* seen was seen as well, although reviews arrive meanwhile.  The last page
\* shows the oldest of them, unless a review arrived between the count and
\* the find of a page, which may end the pages too early.
DpWalkComplete ==
    /\ \A i, j \in dpWalk.start : j \in dpWalk.seen /\ i > j => i \in dpWalk.seen
    /\ dpWalk.pc = "done" /\ ~dpWalk.torn => dpWalk.start \subseteq dpWalk.seen

\* The assignments and the reviews of a driver are shown to the driver and to
\* administrators only, whichever query asks; its profile, with its status
\* and whether it is blocked, driver(id) shows to anybody.
DpPrivate == dpSaid.admin \/ \A d \in dpSaid.private : dpDoc[d].user = dpSaid.user

\* A search shows nobody twice and nearer drivers first, and a distance it
\* shows is the driver's own, whichever of its two sources it took them from.
DpNearestFirst ==
    /\ \A i, j \in DOMAIN dpSaid.items : i < j => /\ dpSaid.items[i].d # dpSaid.items[j].d
                                                  /\ dpSaid.items[i].dist <= dpSaid.items[j].dist
    /\ \A i \in DOMAIN dpSaid.items : dpSaid.items[i].dist = 0 \/ dpSaid.items[i].dist = dpRun.geo[dpSaid.items[i].d]
=============================================================================
