----------------------------- MODULE GoPackages -----------------------------
(***************************************************************************)
(* packages/go: what the Go services share.  Four parts that have no state *)
(* in common, one of which a behaviour is about (gpPart):                  *)
(*   ids     snowflake: one generator, a clock that may be stepped back;   *)
(*   limit   ratelimiter: callers that share a sliding window in Redis;    *)
(*   conn    rabbitmq.Connection: goroutines that open channels, Close;    *)
(*   door    auth, middleware and the websocket guard chain: one call.     *)
(***************************************************************************)
EXTENDS Integers, Sequences, FiniteSets

CONSTANTS
    GpSequences,    \* 2^12: ids of one millisecond
    GpRooms,        \* 2^SequenceBits for the settings tried: what workerID leaves free below it
    GpIds,          \* bound: ids issued
    GpWorker,       \* worker and datacenter bits of the generator
    GpWorkers,      \* 2^10: values of those bits
    GpCaller,       \* callers of the rate limiter
    GpRequests,     \* caller -> the user id, forwarded address and peer it calls with
    GpCalls,        \* bound: calls of each
    GpLimit,        \* requests of a window
    GpWindow,       \* length of the window
    GpHorizon,      \* bound: ticks of the clock
    GpRoutine,      \* goroutines that call Connection.Channel
    GpAttempts,     \* Config.MaxAttempts
    GpBreaks,       \* bound: connections that break
    GpTokens,       \* tokens tried
    GpMetadata,     \* metadata of gRPC calls tried: x-user-id and x-user-role, "" for none
    GpMessages      \* websocket messages tried

ASSUME GpAssumption ==
    /\ GpSequences \in Nat \ {0} /\ GpWorkers \in Nat /\ GpWorker \in 0..GpWorkers - 1
    /\ GpRooms \subseteq 1..GpSequences
    /\ GpLimit \in Nat \ {0} /\ GpWindow \in Nat
    /\ GpAttempts \in Nat \ {0} /\ GpBreaks \in Nat
    /\ \A m \in GpMessages : m.limiter \in {"free", "full", "error"}

VARIABLES
    gpPart,     \* the part this behaviour is about
    gpClock,    \* the clock, in ms, and whether it was ever stepped back
    gpFlake,    \* Snowflake: timestamp and sequence; the room of its SequenceBits
    gpIssued,   \* what the ids returned were made of, in order
    gpCall,     \* callers of Limit
    gpSet,      \* per key, the sorted set and when it expires
    gpAllowed,  \* requests whose handler was run
    gpGo,       \* goroutines in Channel
    gpLink,     \* Connection: conn (0 for nil) and closed; open sockets; the next one; faults
    gpDoor      \* the decision taken

gpVars == <<gpPart, gpClock, gpFlake, gpIssued, gpCall, gpSet, gpAllowed, gpGo, gpLink, gpDoor>>
gpIdVars == <<gpFlake, gpIssued>>
gpLimitVars == <<gpCall, gpSet, gpAllowed>>
gpConnVars == <<gpGo, gpLink>>

GpAway == [at |-> "idle", now |-> 0, n |-> 0]

\* The window a request counts in: its user's, else that of its first address.
GpKey(q) ==
    IF q.user /= "" THEN <<"user", q.user>>
    ELSE IF q.forwarded /= "" THEN <<"ip", q.forwarded>> ELSE <<"ip", q.peer>>
GpKeyOf(c) == GpKey(GpRequests[c])

GpInit ==
    /\ gpPart \in {"ids", "limit", "conn", "door"}
    /\ gpClock = [now |-> 1, back |-> FALSE]
    /\ \E room \in GpRooms : gpFlake = [timestamp |-> 1, sequence |-> 0, room |-> room]
    /\ gpIssued = <<>>
    /\ gpCall = [c \in GpCaller |-> GpAway]
    /\ gpSet = [k \in {GpKeyOf(c) : c \in GpCaller} |-> [members |-> {}, expires |-> 0]]
    /\ gpAllowed = {}
    /\ gpGo = [r \in GpRoutine |-> [at |-> "start", tries |-> 0, conn |-> 0, again |-> FALSE]]
    /\ gpLink = [conn |-> 0, closed |-> FALSE, open |-> {}, next |-> 1, breaks |-> GpBreaks, panic |-> FALSE]
    /\ gpDoor = [kind |-> "none"]

GpTick ==
    /\ gpPart \in {"ids", "limit"} /\ gpClock.now < GpHorizon
    /\ gpClock' = [gpClock EXCEPT !.now = @ + 1]
    /\ UNCHANGED <<gpPart, gpIdVars, gpLimitVars, gpConnVars, gpDoor>>

-----------------------------------------------------------------------------
(* snowflake *)

\* The bitwise or of two numbers of at most 22 bits.
GpBit(x, i) == (x \div 2^i) % 2 = 1
GpOr(x, y) == CHOOSE z \in 0..(x + y) : \A i \in 0..21 : GpBit(z, i) <=> GpBit(x, i) \/ GpBit(y, i)

\* workerID was shifted by SequenceBits, the timestamp always by 22: a sequence that outgrows
\* its room is or-ed into the bits of the worker.
GpLow(f) == IF f.sequence < f.room THEN GpWorker * f.room + f.sequence ELSE GpOr(GpWorker * f.room, f.sequence)
GpId(f) == f.timestamp * (GpWorkers * GpSequences) + GpLow(f)

\* The layout of twelve bits, whatever the generator's.
Parse(id) == [timestamp |-> id \div (GpSequences * GpWorkers),
              worker |-> (id \div GpSequences) % GpWorkers, sequence |-> id % GpSequences]

\* The clock is adjusted (NTP): once.
GpStepBack ==
    /\ gpPart = "ids" /\ ~gpClock.back /\ gpClock.now > 1
    /\ gpClock' = [now |-> gpClock.now - 1, back |-> TRUE]
    /\ UNCHANGED <<gpPart, gpIdVars, gpLimitVars, gpConnVars, gpDoor>>

\* The timestamp and the sequence of the next id.
GpMoment(now, sequence) == [timestamp |-> now, sequence |-> sequence, room |-> gpFlake.room]
GpNextHasty ==
    IF gpClock.now = gpFlake.timestamp THEN GpMoment(gpClock.now, (gpFlake.sequence + 1) % GpSequences)
    ELSE GpMoment(gpClock.now, 0)

\* A millisecond that is used up is waited out, under the mutex: after 2^12 ids, whatever
\* SequenceBits says.
GpNext1 ==
    IF gpClock.now /= gpFlake.timestamp THEN GpMoment(gpClock.now, 0)
    ELSE IF gpFlake.sequence + 1 < GpSequences THEN GpMoment(gpClock.now, gpFlake.sequence + 1)
         ELSE GpMoment(gpClock.now + 1, 0)

NextID ==
    /\ gpPart = "ids" /\ Len(gpIssued) < GpIds
    /\ gpFlake' = GpNext1
    /\ gpClock' = [gpClock EXCEPT !.now = gpFlake'.timestamp]
    /\ gpIssued' = Append(gpIssued, gpFlake')
    /\ UNCHANGED <<gpPart, gpLimitVars, gpConnVars, gpDoor>>

-----------------------------------------------------------------------------
(* ratelimiter *)

LimitStart(c) ==
    /\ gpPart = "limit" /\ gpCall[c].at = "idle" /\ gpCall[c].n < GpCalls
    /\ gpCall' = [gpCall EXCEPT ![c] = [at |-> "read", now |-> gpClock.now, n |-> @.n + 1]]
    /\ UNCHANGED <<gpPart, gpClock, gpIdVars, gpSet, gpAllowed, gpConnVars, gpDoor>>

\* clearBefore: scores up to this one leave the window.
ClearBeforeEarly(now) == now - GpWindow + 1
ClearBefore(now) == now - GpWindow

\* The interceptor and the middleware run the handler only for an allowed request: an error
\* of the limiter refuses too.
GpRefuses(count, err) == err \/ count >= GpLimit

\* One transaction: ZREMRANGEBYSCORE, ZCARD, ZADD, EXPIRE; it may fail, applied or not.
\* Without a free place the own member is taken out again, by a call of its own.
Limit(c) ==
    LET now == gpCall[c].now
        set == gpSet[GpKeyOf(c)]
        stored == IF gpClock.now >= set.expires THEN {} ELSE set.members
        kept == {e \in stored : e.score > ClearBefore(now)}
        mine == [score |-> now, who |-> c, n |-> gpCall[c].n]
        after == [members |-> kept \cup {mine}, expires |-> gpClock.now + GpWindow]
    IN /\ gpPart = "limit" /\ gpCall[c].at = "read"
       /\ \E err \in BOOLEAN :
             /\ gpSet' \in {[gpSet EXCEPT ![GpKeyOf(c)] = after]} \cup (IF err THEN {gpSet} ELSE {})
             /\ IF GpRefuses(Cardinality(kept), err)
                THEN /\ gpCall' = [gpCall EXCEPT ![c].at = IF err THEN "idle" ELSE "refused"]
                     /\ UNCHANGED gpAllowed
                ELSE /\ gpCall' = [gpCall EXCEPT ![c].at = "idle"]
                     /\ gpAllowed' = gpAllowed \cup {mine}
       /\ UNCHANGED <<gpPart, gpClock, gpIdVars, gpConnVars, gpDoor>>

\* The removal may fail: nobody looks.
LimitZRem(c) ==
    /\ gpPart = "limit" /\ gpCall[c].at = "refused"
    /\ \/ gpSet' = [gpSet EXCEPT ![GpKeyOf(c)].members = {e \in @ : e.who /= c \/ e.n /= gpCall[c].n}]
       \/ UNCHANGED gpSet
    /\ gpCall' = [gpCall EXCEPT ![c].at = "idle"]
    /\ UNCHANGED <<gpPart, gpClock, gpIdVars, gpAllowed, gpConnVars, gpDoor>>

-----------------------------------------------------------------------------
(* rabbitmq.Connection; one action per critical section *)

GpGoes(r, at) == gpGo' = [gpGo EXCEPT ![r].at = at]
GpConnStep == UNCHANGED <<gpPart, gpClock, gpIdVars, gpLimitVars, gpDoor>>

\* A successful dial replaces conn; the socket it replaces is not closed.
GpDialed == [gpLink EXCEPT !.conn = gpLink.next, !.open = @ \cup {gpLink.next}, !.next = @ + 1]

\* One attempt of the loop: the first one checks for a connection that is up.
GpAttempt(r) ==
    \/ gpLink' = GpDialed /\ GpGoes(r, "take")
    \/ gpGo' = [gpGo EXCEPT ![r].at = "sleep", ![r].tries = @ + 1] /\ UNCHANGED gpLink

ensureConnLocked(r) ==
    /\ gpPart = "conn" /\ gpGo[r].at = "start"
    /\ \/ gpLink.closed /\ GpGoes(r, "failed") /\ UNCHANGED gpLink
       \/ ~gpLink.closed /\ gpLink.conn \in gpLink.open /\ GpGoes(r, "take") /\ UNCHANGED gpLink
       \/ ~gpLink.closed /\ gpLink.conn \notin gpLink.open /\ GpAttempt(r)
    /\ GpConnStep

\* The mutex is free during the back-off; afterwards closed is looked at again, conn is not.
GpWakeBlind(r) ==
    IF gpGo[r].tries >= GpAttempts THEN GpGoes(r, "failed") /\ UNCHANGED gpLink ELSE GpAttempt(r)
GpWake(r) ==
    IF gpLink.closed \/ gpGo[r].tries >= GpAttempts
    THEN GpGoes(r, "failed") /\ UNCHANGED gpLink ELSE GpAttempt(r)

ensureConn(r) ==
    /\ gpPart = "conn" /\ gpGo[r].at = "sleep"
    /\ GpWake(r)
    /\ GpConnStep

\* conn := c.conn, in a critical section of its own: another goroutine may have set it to nil.
ChannelTake(r) ==
    /\ gpPart = "conn" /\ gpGo[r].at = "take"
    /\ gpGo' = [gpGo EXCEPT ![r].conn = gpLink.conn, ![r].at = "open"]
    /\ UNCHANGED gpLink /\ GpConnStep

\* conn.Channel(): a nil conn panics; a broken or half-open one is an error, which the first
\* time drops conn, whoever's it is, and tries again.
Channel(r) ==
    /\ gpPart = "conn" /\ gpGo[r].at = "open"
    /\ \/ /\ gpGo[r].conn = 0
          /\ gpLink' = [gpLink EXCEPT !.panic = TRUE] /\ GpGoes(r, "failed")
       \/ gpGo[r].conn \in gpLink.open /\ GpGoes(r, "done") /\ UNCHANGED gpLink
       \/ /\ gpGo[r].conn /= 0 /\ (gpGo[r].conn \notin gpLink.open \/ gpLink.breaks > 0)
          /\ IF gpGo[r].again THEN GpGoes(r, "failed") /\ UNCHANGED gpLink
             ELSE /\ gpLink' = [gpLink EXCEPT !.conn = 0, !.breaks = IF gpGo[r].conn \in gpLink.open THEN @ - 1 ELSE @]
                  /\ gpGo' = [gpGo EXCEPT ![r] = [at |-> "start", tries |-> 0, conn |-> 0, again |-> TRUE]]
    /\ GpConnStep

GpBreak(k) ==
    /\ gpPart = "conn" /\ k \in gpLink.open /\ gpLink.breaks > 0
    /\ gpLink' = [gpLink EXCEPT !.open = @ \ {k}, !.breaks = @ - 1]
    /\ UNCHANGED gpGo /\ GpConnStep

Close ==
    /\ gpPart = "conn" /\ ~gpLink.closed
    /\ gpLink' = [gpLink EXCEPT !.closed = TRUE, !.open = @ \ {gpLink.conn}]
    /\ UNCHANGED gpGo /\ GpConnStep

-----------------------------------------------------------------------------
(* auth, middleware, websocket *)

\* A token: how it is carried, its algorithm, whether the signature is ours, its claims.
GpUserID(t) == IF t.sub /= "" THEN t.sub ELSE t.id

Authenticate(t) ==
    /\ t.carried = "bearer" /\ t.alg = "HS256" /\ t.signed
    /\ ~(t.exp > 0 /\ gpClock.now >= t.exp)
    /\ GpUserID(t) /= ""

\* admin, and only for view_user.
HasPermission(role, permission) == role = "admin" /\ permission = "view_user"

\* The permissions of the middleware that the roles differ in.
RolePermissionsMap ==
    [admin |-> {"view_user", "cancel_delivery", "assign_driver"}, user |-> {"create_delivery", "cancel_delivery"},
     driver |-> {"assign_driver"}]

\* The header of an HTTP request, for view_user.
AuthenticateCall(t) ==
    /\ gpPart = "door" /\ gpDoor.kind = "none"
    /\ gpDoor' = [kind |-> "token", token |-> t, ok |-> Authenticate(t),
                  view |-> Authenticate(t) /\ HasPermission(t.role, "view_user")]
    /\ UNCHANGED <<gpPart, gpClock, gpIdVars, gpLimitVars, gpConnVars>>

\* A gRPC call is taken to come from the user its metadata names: no token is looked at.
AuthInterceptor(md) == IF md.user = "" THEN "Unauthenticated" ELSE "OK"

RequireRoleInterceptor(md, roles) ==
    IF md.role = "" THEN "Unauthenticated" ELSE IF md.role \in roles THEN "OK" ELSE "PermissionDenied"

RequirePermissionInterceptor(md, required) ==
    CASE required = {} -> "OK"
      [] required /= {} /\ md.role = "" -> "Unauthenticated"
      [] OTHER -> IF md.role \in DOMAIN RolePermissionsMap /\ RolePermissionsMap[md.role] \cap required /= {}
                  THEN "OK" ELSE "PermissionDenied"

\* The three in a chain, the second one only where roles are asked for.
GrpcCall(md, roles, required) ==
    LET checks == <<AuthInterceptor(md), IF roles = {} THEN "OK" ELSE RequireRoleInterceptor(md, roles),
                    RequirePermissionInterceptor(md, required)>>
    IN /\ gpPart = "door" /\ gpDoor.kind = "none"
       /\ gpDoor' = [kind |-> "grpc", md |-> md, roles |-> roles, required |-> required,
                     code |-> IF checks[1] /= "OK" THEN checks[1] ELSE IF checks[2] /= "OK" THEN checks[2] ELSE checks[3]]
       /\ UNCHANGED <<gpPart, gpClock, gpIdVars, gpLimitVars, gpConnVars>>

\* The handshake: the token of the header, else of the query.  A bad one closes with 4401 and
\* has no user; whether the service reads on is its own affair, so messages of such a socket
\* reach the chain too.
GpExtractToken(m) == IF m.header /= "" THEN m.header ELSE m.query
GpWsAuth(m) == IF GpExtractToken(m) = "good" THEN "u1" ELSE ""

\* JSON with a type.
GpParses(m) == m.frame = "typed"

RunValidateFirst(m, user) ==
    CASE ~m.valid -> "INVALID_MESSAGE"
      [] m.valid /\ user = "" -> "UNAUTHENTICATED"
      [] m.valid /\ user /= "" /\ m.action /= "" /\ m.limiter = "full" -> "RATE_LIMITED"
      [] OTHER -> "OK"
\* WsGuardChain.Run: the user, then the limiter if the type has an action, then the validator.
Run(m, user) ==
    CASE user = "" -> "UNAUTHENTICATED"
      [] user /= "" /\ m.action /= "" /\ m.limiter = "error" -> "INTERNAL_ERROR"
      [] user /= "" /\ m.action /= "" /\ m.limiter = "full" -> "RATE_LIMITED"
      [] user /= "" /\ (m.action = "" \/ m.limiter = "free") /\ ~m.valid -> "INVALID_MESSAGE"
      [] OTHER -> "OK"

\* The close code of a handshake or a message without a user.
WsCloseUnauthorized == 4401

\* The exception filter closes the socket for these, even for the retryable RATE_LIMITED.
terminalCloseCode(code) ==
    CASE code = "UNAUTHENTICATED" -> WsCloseUnauthorized
      [] code = "FORBIDDEN" -> 4403
      [] code = "RATE_LIMITED" -> 4408
      [] code = "TOO_LARGE" -> 4413
      [] OTHER -> 0

\* The exception filter closes only after the error has been written.
HandleMessageGuarded(m) ==
    LET code == IF GpParses(m) THEN Run(m, GpWsAuth(m)) ELSE "INVALID_MESSAGE" IN
    /\ gpPart = "door" /\ gpDoor.kind = "none"
    /\ \E told \in BOOLEAN :
          gpDoor' = [kind |-> "message", m |-> m, code |-> code, told |-> told,
                     closes |-> IF told THEN terminalCloseCode(code) ELSE 0]
    /\ UNCHANGED <<gpPart, gpClock, gpIdVars, gpLimitVars, gpConnVars>>

-----------------------------------------------------------------------------

GpNext ==
    \/ GpTick \/ GpStepBack \/ NextID
    \/ \E c \in GpCaller : LimitStart(c) \/ Limit(c) \/ LimitZRem(c)
    \/ \E r \in GpRoutine : ensureConnLocked(r) \/ ensureConn(r) \/ ChannelTake(r) \/ Channel(r)
    \/ \E k \in gpLink.open : GpBreak(k)
    \/ Close
    \/ \E t \in GpTokens : AuthenticateCall(t)
    \/ \E md \in GpMetadata, roles \in {{}, {"admin"}, {"admin", "driver"}},
          required \in {{}, {"view_user"}, {"assign_driver"}} : GrpcCall(md, roles, required)
    \/ \E m \in GpMessages : HandleMessageGuarded(m)

GpSpec == GpInit /\ [][GpNext]_gpVars

-----------------------------------------------------------------------------
(* Properties *)

\* The generator, the callers, the goroutines and the link are well formed.
GpTypeOK ==
    /\ gpFlake.timestamp \in Nat /\ gpFlake.sequence \in 0..GpSequences - 1
    /\ \A c \in GpCaller : gpCall[c].at \in {"idle", "read", "refused"}
    /\ \A k \in DOMAIN gpSet : \A e \in gpSet[k].members : e.score \in Nat
    /\ \A r \in GpRoutine : /\ gpGo[r].at \in {"start", "sleep", "take", "open", "done", "failed"}
                            /\ gpGo[r].tries \in 0..GpAttempts
    /\ gpLink.conn \in 0..gpLink.next - 1 /\ gpLink.open \subseteq 1..gpLink.next - 1

\* As long as the clock is not stepped back, the ids whose sequence has room below the worker
\* are issued in increasing order, so never twice (NextID across a used-up millisecond): all
\* of them with twelve SequenceBits, with fewer only the first 2^SequenceBits of a millisecond.
\* With twelve, Parse recovers the parts.
GpIdsIncrease ==
    /\ ~gpClock.back =>
          \A i, j \in DOMAIN gpIssued :
              i < j /\ gpIssued[i].sequence < gpIssued[i].room /\ gpIssued[j].sequence < gpIssued[j].room
                  => GpId(gpIssued[i]) < GpId(gpIssued[j])
    /\ gpIssued /= <<>> /\ gpFlake.room = GpSequences =>
          Parse(GpId(gpIssued[Len(gpIssued)])) =
              [timestamp |-> gpFlake.timestamp, worker |-> GpWorker, sequence |-> gpFlake.sequence]

\* At any moment, of the requests stamped within the last window no more than the limit
\* of one key have been allowed, although callers read the clock before others run their pipeline,
\* refused members stay in the set for a while, and the key expires on its own.
GpWithinLimit ==
    \A k \in DOMAIN gpSet :
        Cardinality({e \in gpAllowed : GpKeyOf(e.who) = k /\ e.score > gpClock.now - GpWindow}) <= GpLimit

\* Once Close has returned, the connection in use is not open, and no goroutine that was
\* in its back-off makes it so (ensureConnLocked looks at closed again after the sleep).
GpClosedStays == gpLink.closed => gpLink.conn \notin gpLink.open

\* A bearer token is accepted only when signed with the configured key, unexpired and with a
\* user.  A gRPC call passes only when its metadata, which nobody verifies, names a user and,
\* where asked for, one of the roles and a role with one of the permissions.  A message passes
\* only for a user, within the rate of its action and valid; an unauthenticated one is told so
\* whatever else is wrong with it, and no socket is closed over a
\* message that could not be told why.
GpDoorHolds ==
    /\ gpDoor.kind = "token" =>
          /\ gpDoor.ok => gpDoor.token.signed /\ gpDoor.token.alg = "HS256" /\ GpUserID(gpDoor.token) /= ""
          /\ gpDoor.view => gpDoor.ok /\ gpDoor.token.role = "admin"
    /\ gpDoor.kind = "grpc" /\ gpDoor.code = "OK" =>
          /\ gpDoor.md.user /= ""
          /\ gpDoor.roles /= {} => gpDoor.md.role \in gpDoor.roles
          /\ gpDoor.required /= {} => \E p \in gpDoor.required : p \in RolePermissionsMap[gpDoor.md.role]
    /\ gpDoor.kind = "message" =>
          /\ gpDoor.closes /= 0 => gpDoor.told
          /\ GpParses(gpDoor.m) => (GpWsAuth(gpDoor.m) = "" /\ gpDoor.told <=> gpDoor.closes = WsCloseUnauthorized)
          /\ gpDoor.code = "OK" => /\ GpWsAuth(gpDoor.m) /= "" /\ gpDoor.m.valid
                                   /\ gpDoor.m.action /= "" => gpDoor.m.limiter = "free"

=============================================================================
