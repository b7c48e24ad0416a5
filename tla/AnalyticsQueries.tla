-------------------------- MODULE AnalyticsQueries --------------------------
(* What analytics-service answers: the GraphQL and gRPC doors with their     *)
(* parsing and their cache, the paged tables, and the worker pool with the   *)
(* live ticker and the reconciliation pass, while rows keep arriving and     *)
(* the process shuts down.  How rows get there is AnalyticsIngestion.        *)
EXTENDS Integers, Sequences, FiniteSets

CONSTANTS AqRuns,          \* [rows, coming, walk, asks, ticks]: the start of a behaviour
          AqDefaultLimit,  \* DefaultLimit
          AqMaxLimit,      \* MaxLimit
          AqTopLimit,      \* the limit of topDrivers when none is given
          AqMaxRange,      \* MaxQueryRange
          AqWindow,        \* WindowHours
          AqWarn,          \* FreshWarnSeconds
          AqDegraded,      \* FreshDegradedSeconds
          AqNow            \* the clock of the behaviour

VARIABLES aqRows,    \* ClickHouse: the rows of every table, [id, kind, at]
          aqComing,  \* the rows that may still arrive
          aqWalk,    \* a client that follows nextPage through a table
          aqAsks,    \* the requests still to come
          aqCache,   \* Redis: [key, question]
          aqGiven,   \* history: [who, asked, question] of every answer with data
          aqMain,    \* main: "serving", "stopping" in Pool.Stop, "closed" after the defers
          aqJob,     \* the goroutine of every job: "idle", "running", "gone"
          aqPass,    \* the reconciliation pass under way
          aqTicks    \* ticks left

aqVars == <<aqRows, aqComing, aqWalk, aqAsks, aqCache, aqGiven, aqMain, aqJob, aqPass, aqTicks>>

\* The types of event, one per domain and the one the tables disagree about.
AqIngested == {"delivery.created", "payment.captured", "payment.completed", "notification.sent"}

AqTable == {"raw_events", "fact_delivery_events", "issues"}

\* Rows of every table, those of raw_events as the ingestion lets them in.
AqRowsOK(rows) ==
    /\ rows = [t \in AqTable |-> rows[t]]
    /\ \A t \in AqTable : IsFiniteSet(rows[t]) /\ \A r \in rows[t] : r.at \in Nat
    /\ \A r \in rows["raw_events"] : r.kind \in AqIngested

ASSUME AqAssumption ==
    /\ AqDefaultLimit \in 1..AqMaxLimit /\ AqTopLimit \in 1..AqMaxLimit /\ AqMaxLimit \in Nat
    /\ {AqMaxRange, AqWindow, AqNow} \subseteq Nat /\ AqWarn \in 0..AqDegraded
    /\ \A run \in AqRuns :
          /\ AqRowsOK(run.rows) /\ AqRowsOK(run.coming) /\ run.ticks \in Nat
          /\ run.walk.pc = "ask" => run.walk.table \in AqTable /\ {run.walk.page.n, run.walk.limit.n} \subseteq Int
          /\ run.walk.pc \in {"none", "ask"}

-----------------------------------------------------------------------------
(* Requests.  A value of a request is [src, n]: it comes with the variables, *)
(* stands as a literal in the query text, or is absent.                      *)

ClampPage(n) == IF n < 1 THEN 1 ELSE n
ClampLimit(n) == IF n <= 0 THEN AqDefaultLimit ELSE IF n > AqMaxLimit THEN AqMaxLimit ELSE n
ClampTopLimit(n) == IF n <= 0 THEN AqTopLimit ELSE IF n > AqMaxLimit THEN AqMaxLimit ELSE n

\* The pattern of a literal has digits only, so a negative literal is not seen.
AqSeen(v) == v.src = "vars" \/ (v.src = "literal" /\ v.n >= 0)

ParsePage(r) == [page |-> IF AqSeen(r.page) THEN ClampPage(r.page.n) ELSE 1,
                 limit |-> IF AqSeen(r.limit) THEN ClampLimit(r.limit.n) ELSE AqDefaultLimit]
ParseLimit(v) == IF AqSeen(v) THEN ClampTopLimit(v.n) ELSE AqTopLimit

\* Mutant: the reconciliation was not told of payment.completed either.
KnownEventTypesShort == AqIngested \ {"payment.completed"}
KnownEventTypes == AqIngested
EventTypeEnum == AqIngested \ {"payment.completed"}

\* "" is no filter; anything outside the table is an error.
NormalizeEventType(s) == IF s \in EventTypeEnum \cup {""} THEN {s} ELSE {}
ValidateSeverity(s) == IF s \in {"ERROR", "WARNING", "INFO", ""} THEN {s} ELSE {}
NormalizeProvider(s) == IF s \in {"STRIPE", "PAYPAL", "CASH", ""} THEN {s} ELSE {}
AqFilter(table, s) == IF table = "raw_events" THEN NormalizeEventType(s) ELSE ValidateSeverity(s)

AqGranularity == {"HOUR", "DAY", "WEEK", "MONTH"}

\* Mutant: the order of the two ends is not looked at.
RangeValidateUnordered(r) == r.to - r.from <= AqMaxRange /\ r.gran \in AqGranularity
RangeValidate(r) == /\ r.from <= r.to
                    /\ r.to - r.from <= AqMaxRange
                    /\ r.gran \in AqGranularity

\* A time is a number, or -1 when it is missing or does not parse.
ParseRange(q) == q.from >= 0 /\ q.to >= 0 /\ RangeValidate(q)

\* gRPC: a missing end (-1) is the last day; one that does not parse (-2) is refused.
GrpcRange(q) == [from |-> IF q.from = -1 THEN AqNow - 1 ELSE q.from,
                 to |-> IF q.to = -1 THEN AqNow ELSE q.to, gran |-> "DAY"]

\* The question a request asks of the repository, {} when it is refused.
AqQuestion(q) ==
    LET r == IF q.door = "grpc" THEN GrpcRange(q)
             ELSE [from |-> q.from, to |-> q.to, gran |-> q.gran]
        filter == CASE q.op = "topDrivers" -> {ParseLimit(q.limit)}
                    [] q.op = "paymentAnalytics" -> NormalizeProvider(q.filter)
                    [] OTHER -> {q.filter}
    IN  IF IF q.door = "grpc" THEN q.from # -2 /\ q.to # -2 /\ RangeValidate(r) ELSE ParseRange(r)
        THEN {[op |-> q.op, range |-> r, filter |-> f] : f \in filter}
        ELSE {}

-----------------------------------------------------------------------------
(* The doors *)

AqNoWalk == [pc |-> "none"]

AqInit ==
    /\ \E run \in AqRuns :
        /\ aqRows = run.rows /\ aqComing = run.coming /\ aqWalk = run.walk
        /\ aqAsks = run.asks /\ aqTicks = run.ticks
    /\ aqCache = {} /\ aqGiven = {}
    /\ aqMain = "serving"
    /\ aqJob = [j \in {"reconciliation", "live_ticker"} |-> "idle"]
    /\ aqPass = [pc |-> "none"]

\* A federation or __typename probe is answered before the role is looked at.
Probe(q) == q.door = "graphql" /\ q.text # "plain"
Admitted(q) == q.door = "grpc" \/ q.role = "admin"

\* Mutant: the filter is left out of the key.
CacheKeyNoFilter(q, a) == <<a.op, q.scope, a.range>>
CacheKey(q, a) == <<a.op, q.scope, a.range, a.filter>>

\* fetchCached: the answer of the key when there is one, else of the
\* repository, which is then stored.
AqAnswerFrom(q, a) ==
    LET hit == {c \in aqCache : c.key = CacheKey(q, a)}
        given == IF hit = {} THEN a ELSE (CHOOSE c \in hit : TRUE).question
    IN  /\ aqGiven' = aqGiven \cup {[who |-> <<q.door, q.role>>, asked |-> a, question |-> given]}
        /\ aqCache' = IF hit = {} THEN aqCache \cup {[key |-> CacheKey(q, a), question |-> a]}
                      ELSE aqCache

AqRequest(q) ==
    /\ aqMain = "serving" /\ q \in aqAsks /\ aqAsks' = aqAsks \ {q}
    /\ \/ /\ (Probe(q) \/ ~Admitted(q) \/ AqQuestion(q) = {})
          /\ UNCHANGED <<aqGiven, aqCache>>
       \/ /\ ~Probe(q) /\ Admitted(q)
          /\ \E a \in AqQuestion(q) : AqAnswerFrom(q, a)
    /\ UNCHANGED <<aqRows, aqComing, aqWalk, aqMain, aqJob, aqPass, aqTicks>>

\* The time to live of the cache.
AqExpire(c) ==
    /\ c \in aqCache /\ aqCache' = aqCache \ {c}
    /\ UNCHANGED <<aqRows, aqComing, aqWalk, aqAsks, aqGiven, aqMain, aqJob, aqPass, aqTicks>>

-----------------------------------------------------------------------------
(* Rows arrive, a fact after its raw event; a client walks a table.          *)

AqArrive(table, row) ==
    /\ row \in aqComing[table]
    /\ table = "fact_delivery_events" => \E e \in aqRows["raw_events"] : e.id = row.id
    /\ aqRows' = [aqRows EXCEPT ![table] = @ \cup {row}]
    /\ aqComing' = [aqComing EXCEPT ![table] = @ \ {row}]
    /\ aqWalk' = IF aqWalk.pc = "counted" /\ aqWalk.table = table
                 THEN [aqWalk EXCEPT !.torn = TRUE] ELSE aqWalk
    /\ UNCHANGED <<aqAsks, aqCache, aqGiven, aqMain, aqJob, aqPass, aqTicks>>

AqMatches(w) == {r \in aqRows[w.table] : w.filter \in {"", r.kind} /\ r.at >= w.from}

\* ORDER BY time DESC: rows of one time come in any order.
AqOrders(S) == {s \in [1..Cardinality(S) -> S] :
                    \A i, j \in DOMAIN s : i < j => s[i] # s[j] /\ s[i].at >= s[j].at}

\* The repository clamps again: a limit above the maximum would be the default there.
AqRepoLimit(limit) == IF limit <= 0 \/ limit > AqMaxLimit THEN AqDefaultLimit ELSE limit

\* Mutant: a page is taken for the last one a page too early.
PaginateEarly(total, page, limit) == IF (page + 1) * limit <= total THEN page + 1 ELSE 0
Paginate(total, page, limit) == IF page * limit < total THEN page + 1 ELSE 0

\* The request of the walk, parsed; a refused filter ends it.
AqWalkStart ==
    /\ aqWalk.pc = "ask"
    /\ LET p == ParsePage(aqWalk)
           w == [pc |-> "count", table |-> aqWalk.table, filter |-> aqWalk.filter,
                 from |-> aqWalk.from, next |-> p.page, limit |-> AqRepoLimit(p.limit),
                 total |-> 0, first |-> p.page, start |-> {}, got |-> {}, torn |-> FALSE]
       IN  aqWalk' = IF AqFilter(w.table, w.filter) = {} THEN AqNoWalk
                     ELSE [w EXCEPT !.start = AqMatches(w)]

AqCount ==
    /\ aqWalk.pc = "count"
    /\ aqWalk' = [aqWalk EXCEPT !.pc = "counted", !.total = Cardinality(AqMatches(aqWalk))]

AqSelect ==
    /\ aqWalk.pc = "counted"
    /\ \E s \in AqOrders(AqMatches(aqWalk)) :
        LET offset == (aqWalk.next - 1) * aqWalk.limit
            next == Paginate(aqWalk.total, aqWalk.next, aqWalk.limit)
        IN  aqWalk' = [aqWalk EXCEPT !.next = next, !.pc = IF next = 0 THEN "done" ELSE "count",
                  !.got = @ \cup {s[i] : i \in {k \in DOMAIN s : k > offset /\ k <= offset + aqWalk.limit}}]

AqWalkStep ==
    /\ AqWalkStart \/ AqCount \/ AqSelect
    /\ UNCHANGED <<aqRows, aqComing, aqAsks, aqCache, aqGiven, aqMain, aqJob, aqPass, aqTicks>>

-----------------------------------------------------------------------------
(* The worker pool *)

\* A goroutine's select takes any ready case: a tick may win over the closed channel.
PoolTick(j) ==
    /\ aqJob[j] = "idle" /\ aqTicks > 0 /\ aqTicks' = aqTicks - 1
    /\ aqJob' = [aqJob EXCEPT ![j] = "running"]
    /\ aqPass' = IF j = "reconciliation" THEN [pc |-> "freshness"] ELSE aqPass
    /\ UNCHANGED <<aqCache, aqMain>>

\* gradeFreshness, with an empty table taken for healthy.
GradeFreshness ==
    LET age == AqNow - (CHOOSE t \in {r.at : r \in aqRows["raw_events"]} :
                            \A r \in aqRows["raw_events"] : r.at <= t)
    IN  IF aqRows["raw_events"] = {} THEN "healthy"
        ELSE IF age >= AqDegraded THEN "degraded"
        ELSE IF age >= AqWarn THEN "warning" ELSE "healthy"

InWindow(table) == {r \in aqRows[table] : r.at \in AqNow - AqWindow..AqNow}

\* Check: one statement after the other, each on the tables as they then are.
CheckStep ==
    /\ aqJob["reconciliation"] = "running"
    /\ \/ /\ aqPass.pc = "freshness"
          /\ aqPass' = [pc |-> "raw", fresh |-> GradeFreshness]
       \/ /\ aqPass.pc = "raw"
          /\ aqPass' = [pc |-> "fact", fresh |-> aqPass.fresh,
                        raw |-> Cardinality(InWindow("raw_events"))]
       \/ /\ aqPass.pc = "fact"
          /\ aqPass' = [pc |-> "types", fresh |-> aqPass.fresh,
                        gap |-> Cardinality(InWindow("fact_delivery_events")) < aqPass.raw]
       \/ /\ aqPass.pc = "types"
          /\ aqPass' = [pc |-> "report", fresh |-> aqPass.fresh, gap |-> aqPass.gap,
                        unknown |-> {r.kind : r \in InWindow("raw_events")} \ KnownEventTypes,
                        issues |-> Cardinality(aqRows["issues"])]
    /\ UNCHANGED <<aqCache, aqMain, aqJob, aqTicks>>

\* ReconciliationWorker.Run: the level the report is logged at.
Verdict(p) == CASE p.gap \/ p.fresh = "degraded" -> "action required"
                [] p.fresh = "warning" \/ p.unknown # {} -> "attention"
                [] OTHER -> "healthy"

\* The job returns; a failed statement or a recovered panic ends it early.
PoolReturn(j) ==
    /\ aqJob[j] = "running"
    /\ aqJob' = [aqJob EXCEPT ![j] = "idle"]
    /\ aqPass' = IF j # "reconciliation" THEN aqPass
                 ELSE IF aqPass.pc = "report" THEN [pc |-> "none", said |-> Verdict(aqPass)]
                 ELSE [pc |-> "none"]
    /\ UNCHANGED <<aqCache, aqMain, aqTicks>>

\* live_ticker: platformOverview of the last hour, through the same cache.
LiveTicker ==
    LET a == [op |-> "platformOverview", filter |-> "",
              range |-> [from |-> AqNow - 1, to |-> AqNow, gran |-> "HOUR"]]
    IN  /\ aqJob["live_ticker"] = "running" /\ RangeValidate(a.range)
        /\ AqAnswerFrom([door |-> "nats", role |-> "none", scope |-> "nats"], a)
        /\ UNCHANGED <<aqRows, aqComing, aqWalk, aqAsks, aqMain, aqJob, aqPass, aqTicks>>

PoolLeave(j) ==
    /\ aqMain # "serving" /\ aqJob[j] = "idle"
    /\ aqJob' = [aqJob EXCEPT ![j] = "gone"]
    /\ UNCHANGED <<aqCache, aqMain, aqPass, aqTicks>>

\* The signal, after which the defers run: pool.Stop closes the channel first.
AqSignal ==
    /\ aqMain = "serving" /\ aqMain' = "stopping"
    /\ UNCHANGED <<aqCache, aqJob, aqPass, aqTicks>>

\* Mutant: Stop does not wait for the group.
PoolStopNoWait == aqMain = "stopping"
PoolStop == aqMain = "stopping" /\ \A j \in DOMAIN aqJob : aqJob[j] = "gone"

\* Stop has returned: the publisher, the gRPC server and ClickHouse are closed.
AqClose ==
    /\ PoolStop /\ aqMain' = "closed"
    /\ UNCHANGED <<aqCache, aqJob, aqPass, aqTicks>>

AqPoolStep ==
    /\ \/ \E j \in DOMAIN aqJob : PoolTick(j) \/ PoolReturn(j) \/ PoolLeave(j)
       \/ CheckStep \/ AqSignal \/ AqClose
    /\ UNCHANGED <<aqRows, aqComing, aqWalk, aqAsks, aqGiven>>

AqNext ==
    \/ \E q \in aqAsks : AqRequest(q)
    \/ \E c \in aqCache : AqExpire(c)
    \/ \E t \in DOMAIN aqComing : \E r \in aqComing[t] : AqArrive(t, r)
    \/ AqWalkStep \/ LiveTicker \/ AqPoolStep

AqSpec == AqInit /\ [][AqNext]_aqVars

-----------------------------------------------------------------------------
(* Properties *)

\* The walk, the jobs of the pool and the reconciliation pass are well formed.
AqTypeOK ==
    /\ aqMain \in {"serving", "stopping", "closed"}
    /\ \A j \in DOMAIN aqJob : aqJob[j] \in {"idle", "running", "gone"}
    /\ aqWalk.pc \in {"none", "ask", "count", "counted", "done"}
    /\ aqPass.pc \in {"none", "freshness", "raw", "fact", "types", "report"}
    /\ aqTicks \in Nat

\* A client that follows nextPage from the first page has, at the end, every
\* row that was there when it began and shares its time with no other row,
\* however many rows arrive in between, as long as none arrives between the
\* count and the select of one page.
AqWalkComplete ==
    aqWalk.pc = "done" /\ aqWalk.first = 1 /\ ~aqWalk.torn =>
        \A r \in aqWalk.start :
            (\A q \in AqMatches(aqWalk) : q.at = r.at => q = r) => r \in aqWalk.got

\* Every answer is the answer to the question that was asked, whoever filled
\* the cache; its range is in order and within the maximum, through whichever
\* door it came; and a client of the GraphQL door who got one is an admin.
AqAnswersMatch ==
    \A g \in aqGiven :
        /\ g.question = g.asked
        /\ g.asked.range.from <= g.asked.range.to
        /\ g.asked.range.to - g.asked.range.from <= AqMaxRange
        /\ g.who[1] = "graphql" => g.who[2] = "admin"

\* No job runs once the connections it uses are closed: Stop has waited for
\* a job that a tick started after the channel was closed.
AqJobsEndFirst == aqMain = "closed" => \A j \in DOMAIN aqJob : aqJob[j] = "gone"

\* The reconciliation never meets a type of event that the ingestion lets in.
AqNothingUnknown == aqPass.pc = "report" => aqPass.unknown = {}

=============================================================================
