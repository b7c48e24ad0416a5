-------------------------- MODULE RealtimeGateway --------------------------
(* realtime-service: nodes hold WebSockets, Redis holds who is connected and *)
(* who follows which delivery, Kafka events are fanned out over NATS to the  *)
(* sockets of every node, and clients send subscriptions, locations and      *)
(* commands.  Every Redis call is awaited, so the steps of a registration, a *)
(* disconnect and of the message handlers interleave, and a node may crash   *)
(* between any two of them.                                                  *)
EXTENDS Integers, Sequences, FiniteSets

CONSTANTS RtRuns,       \* what may happen: see RtInit
          RtNode, RtSocket, RtDelivery,
          RtNodeOf,     \* the node a socket connects to
          RtUserOf,     \* its user
          RtRoleOf,     \* a user's role
          RtParty,      \* pairs of user and delivery the services answer yes for
          RtEvents,     \* the Kafka events: [kind, delivery, user] by id
          RtThreshold   \* CIRCUIT_FAILURE_THRESHOLD

ASSUME RtAssumption ==
    /\ DOMAIN RtEvents \cap {"presence", "loc", "note", "pay"} = {}
    /\ \A r \in RtRuns :
          /\ {"ready", "msgs", "topic", "outside"} \subseteq DOMAIN r
          /\ r.ready \subseteq RtSocket /\ DOMAIN r.msgs = RtSocket
          /\ \A s \in RtSocket :
                /\ r.msgs[s] \in Seq({r.msgs[s][i] : i \in DOMAIN r.msgs[s]})
                /\ \A i \in DOMAIN r.msgs[s] :
                      /\ r.msgs[s][i].type \in
                            {"subscribe", "unsubscribe", "location", "command", "ping", "bad"}
                      /\ r.msgs[s][i].type = "subscribe" => r.msgs[s][i].delivery \in RtDelivery
          /\ r.topic \in Seq({r.topic[i] : i \in DOMAIN r.topic})
          /\ r.outside \in Seq({r.outside[i] : i \in DOMAIN r.outside})
          /\ \A i \in DOMAIN r.outside : r.outside[i].ev \in {"note", "pay"}

VARIABLES rtRun,        \* the run: messages still to come, and the budget of faults
          rtSock,       \* per socket: the transport, the next step of handleConnection
                        \* and of handleDisconnect, and whether its heartbeat is recent
          rtRegistry,   \* ConnectionRegistry: the sockets in the nodes' memories
          rtRedis,      \* Redis: the sockets under conn, user, role and node keys
          rtPres,       \* Redis: presence of a user
          rtGeo,        \* Redis: drivers in the location index
          rtSubs,       \* Redis: subscribers and its reverse index, as pairs
          rtH,          \* the message handlers in progress, by socket and message
          rtClaim,      \* Redis: the commands claimed
          rtFwd,        \* commands forwarded on NATS, and how often
          rtCache,      \* Redis: authorizations cached
          rtCircuit,    \* the circuit breakers of the gRPC client
          rtK,          \* the Kafka handler of a node
          rtOff,        \* the committed offset
          rtSeen,       \* Redis: events marked as processed
          rtInbox,      \* NATS messages a node has not handled yet
          rtGot,        \* frames written to a socket, per event
          rtFaulted     \* history: what a Redis error was swallowed for

rtSockVars == <<rtSock, rtRegistry, rtRedis, rtPres, rtGeo>>
rtHandVars == <<rtSubs, rtH, rtClaim, rtFwd, rtCache, rtCircuit>>
rtBusVars  == <<rtK, rtOff, rtSeen, rtGot>>
rtVars == <<rtRun, rtSockVars, rtHandVars, rtBusVars, rtInbox, rtFaulted>>

RtKey == {"conn", "user", "role", "node"}
RtName == {"delivery", "driver"}
RtId == DOMAIN RtEvents \cup {"presence", "loc", "note", "pay"}
RtIdle == [pc |-> "idle", i |-> 0]
RtMsg(subject, ev, d, u, flat) ==
    [subject |-> subject, ev |-> ev, delivery |-> d, user |-> u, flat |-> flat]

\* Sockets in ready have connected before the run begins.
RtInit ==
    /\ rtRun \in RtRuns
    /\ rtSock = [s \in RtSocket |->
                   IF s \in rtRun.ready
                   THEN [conn |-> "open", reg |-> "done", dis |-> "idle", fresh |-> TRUE]
                   ELSE [conn |-> "new", reg |-> "new", dis |-> "idle", fresh |-> FALSE]]
    /\ rtRegistry = rtRun.ready
    /\ rtRedis = [k \in RtKey |-> rtRun.ready]
    /\ rtPres = [u \in {RtUserOf[s] : s \in RtSocket} |->
                   IF \E s \in rtRun.ready : RtUserOf[s] = u THEN "ONLINE" ELSE "none"]
    /\ rtGeo = {}
    /\ rtSubs = [fwd |-> {}, back |-> {}]
    /\ rtH = [s \in RtSocket |-> <<>>]
    /\ rtClaim = {} /\ rtFwd = [c \in rtRun.ids |-> 0]
    /\ rtCache = {} /\ rtCircuit = [b \in RtNode \X RtName |-> [state |-> "CLOSED", fails |-> 0]]
    /\ rtK = [n \in RtNode |-> RtIdle] /\ rtOff = 0 /\ rtSeen = {}
    /\ rtInbox = [n \in RtNode |-> <<>>]
    /\ rtGot = [s \in RtSocket |-> [e \in RtId |-> 0]]
    /\ rtFaulted = {}

RtFault(f) == rtRun[f] > 0 /\ rtRun' = [rtRun EXCEPT ![f] = @ - 1]
RtFree == UNCHANGED rtRun
RtAt(s, handler, pc) == rtSock[s][handler] = pc
RtGoto(s, handler, pc) == rtSock' = [rtSock EXCEPT ![s][handler] = pc]
RtEmit(m) == rtInbox' = [n \in RtNode |-> Append(rtInbox[n], m)]

-----------------------------------------------------------------------------
(* Connections.  RtConnect, RtStore and RtPresence hold the frame conditions *)

\* The transport is open and handleConnection awaits the verification of the token.
HandleConnection(s) ==
    /\ RtAt(s, "conn", "new") /\ s \in rtRun.socks
    /\ rtSock' = [rtSock EXCEPT ![s].conn = "open", ![s].reg = "auth"]
    /\ RtFree

\* A bad token or a foreign origin: the socket is closed and never registered.
RejectConnection(s) ==
    /\ RtAt(s, "reg", "auth") /\ RtFault("rejects")
    /\ rtSock' = [rtSock EXCEPT ![s].conn = "closed", ![s].reg = "rejected"]

\* The client goes away.
ClientCloses(s) ==
    /\ RtAt(s, "conn", "open") /\ RtFault("closes")
    /\ RtGoto(s, "conn", "closed")

\* handleDisconnect: a socket without data has nothing to be cleaned up.
HandleDisconnect(s) ==
    /\ RtAt(s, "conn", "closed") /\ RtAt(s, "dis", "idle")
    /\ RtGoto(s, "dis", IF s \in rtRegistry THEN "subs" ELSE "done")
    /\ RtFree

\* An error of the cleanup is not caught: the disconnect ends and the registry
\* keeps the socket.
CleanupFails(s) ==
    /\ RtAt(s, "dis", "subs") /\ RtFault("redis")
    /\ RtGoto(s, "dis", "done")

\* The store's errors are caught: the keys that were left stay as they are.
StoreUnregisterFails(s) ==
    /\ rtSock[s].dis \in RtKey /\ RtFault("redis")
    /\ RtGoto(s, "dis", "count")

UserSockets(u) == {s \in rtRedis.user : RtUserOf[s] = u}

\* userConnectionCount: the user is offline when no socket is left.
UserConnectionCount(s) ==
    /\ RtAt(s, "dis", "count")
    /\ RtGoto(s, "dis", IF UserSockets(RtUserOf[s]) = {} THEN "offline" ELSE "drop")
    /\ RtFree

\* Its error counts as zero sockets.
CountFails(s) ==
    /\ RtAt(s, "dis", "count") /\ RtFault("redis")
    /\ RtGoto(s, "dis", "offline")

\* The sweep closes what it finds stale; close on a closed socket does nothing.
CheckStaleConnections(s) ==
    /\ s \in rtRegistry /\ ~rtSock[s].fresh /\ RtAt(s, "conn", "open")
    /\ RtGoto(s, "conn", "closed")
    /\ RtFree

RtConnect(s) ==
    /\ \/ HandleConnection(s) \/ RejectConnection(s) \/ ClientCloses(s)
       \/ HandleDisconnect(s) \/ CleanupFails(s) \/ StoreUnregisterFails(s)
       \/ UserConnectionCount(s) \/ CountFails(s) \/ CheckStaleConnections(s)
    /\ UNCHANGED <<rtRegistry, rtRedis, rtPres, rtGeo, rtHandVars, rtBusVars, rtInbox, rtFaulted>>

\* attach: the data is put on the socket, which may have been closed meanwhile.
Attach(s) ==
    /\ RtAt(s, "reg", "auth")
    /\ rtSock' = [rtSock EXCEPT ![s].reg = "conn", ![s].fresh = TRUE]
    /\ rtRegistry' = rtRegistry \cup {s}
    /\ RtFree /\ UNCHANGED <<rtRedis, rtSubs, rtFaulted>>

\* The store writes its four keys one after the other.
RtNextKey == [conn |-> "user", user |-> "role", role |-> "node"]

StoreRegister(s) ==
    /\ rtSock[s].reg \in RtKey
    /\ rtRedis' = [rtRedis EXCEPT ![rtSock[s].reg] = @ \cup {s}]
    /\ RtGoto(s, "reg", IF RtAt(s, "reg", "node") THEN "online" ELSE RtNextKey[rtSock[s].reg])
    /\ RtFree /\ UNCHANGED <<rtRegistry, rtSubs, rtFaulted>>

\* An error is logged and the keys that were left are never written.
StoreRegisterFails(s) ==
    /\ rtSock[s].reg \in RtKey /\ RtFault("redis")
    /\ RtGoto(s, "reg", "online")
    /\ rtFaulted' = rtFaulted \cup {s}
    /\ UNCHANGED <<rtRegistry, rtRedis, rtSubs>>

\* removeSocketFromAllSubscriptions goes by the reverse index.
CleanupSocket(s) ==
    /\ RtAt(s, "dis", "subs")
    /\ rtSubs' = [fwd  |-> rtSubs.fwd \ {p \in rtSubs.back : p[1] = s},
                  back |-> {p \in rtSubs.back : p[1] # s}]
    /\ RtGoto(s, "dis", "conn")
    /\ RtFree /\ UNCHANGED <<rtRegistry, rtRedis, rtFaulted>>

\* A plausible slip: the user's whole key is deleted, not the one member.
StoreUnregisterAll(s) ==
    /\ rtSock[s].dis \in RtKey
    /\ rtRedis' = [rtRedis EXCEPT ![rtSock[s].dis] = {x \in @ : RtUserOf[x] # RtUserOf[s]}]
    /\ RtGoto(s, "dis", IF RtAt(s, "dis", "node") THEN "count" ELSE RtNextKey[rtSock[s].dis])
    /\ RtFree /\ UNCHANGED <<rtRegistry, rtSubs, rtFaulted>>

StoreUnregister(s) ==
    /\ rtSock[s].dis \in RtKey
    /\ rtRedis' = [rtRedis EXCEPT ![rtSock[s].dis] = @ \ {s}]
    /\ RtGoto(s, "dis", IF RtAt(s, "dis", "node") THEN "count" ELSE RtNextKey[rtSock[s].dis])
    /\ RtFree /\ UNCHANGED <<rtRegistry, rtSubs, rtFaulted>>

RegistryRemove(s) ==
    /\ RtAt(s, "dis", "drop")
    /\ RtGoto(s, "dis", "done")
    /\ rtRegistry' = rtRegistry \ {s}
    /\ RtFree /\ UNCHANGED <<rtRedis, rtSubs, rtFaulted>>

RtStore(s) ==
    /\ \/ Attach(s) \/ StoreRegister(s) \/ StoreRegisterFails(s)
       \/ CleanupSocket(s) \/ StoreUnregister(s) \/ RegistryRemove(s)
    /\ UNCHANGED <<rtPres, rtGeo, rtH, rtClaim, rtFwd, rtCache, rtCircuit, rtBusVars, rtInbox>>

\* setState, and a broadcast when the state read before was another one.  The
\* broadcast is the bare record, without the type and data of a fan-out message.
SetPresence(u, state) ==
    /\ rtPres' = [rtPres EXCEPT ![u] = state]
    /\ IF rtPres[u] = state THEN UNCHANGED rtInbox
       ELSE RtEmit(RtMsg("presence", "presence", "", u, TRUE))

SetOnline(s) ==
    /\ RtAt(s, "reg", "online")
    /\ RtGoto(s, "reg", "done")
    /\ SetPresence(RtUserOf[s], "ONLINE")
    /\ RtFree /\ UNCHANGED <<rtRedis, rtGeo>>

SetOffline(s) ==
    /\ RtAt(s, "dis", "offline")
    /\ RtGoto(s, "dis", "geo")
    /\ SetPresence(RtUserOf[s], "OFFLINE")
    /\ RtFree /\ UNCHANGED <<rtRedis, rtGeo>>

\* removeDriverGeoLocation, for drivers only.
RemoveDriverGeoLocation(s) ==
    /\ RtAt(s, "dis", "geo")
    /\ rtGeo' = IF RtRoleOf[RtUserOf[s]] = "driver" THEN rtGeo \ {RtUserOf[s]} ELSE rtGeo
    /\ RtGoto(s, "dis", "drop")
    /\ RtFree /\ UNCHANGED <<rtRedis, rtPres, rtInbox>>

\* Time passes without a ping: the connection key expires, and so does presence,
\* which no ping renews.
HeartbeatLapses(s) ==
    /\ rtSock[s].fresh /\ RtFault("lapses")
    /\ RtGoto(s, "fresh", FALSE)
    /\ rtRedis' = [rtRedis EXCEPT !.conn = @ \ {s}]
    /\ rtPres' = [rtPres EXCEPT ![RtUserOf[s]] = "none"]
    /\ UNCHANGED <<rtGeo, rtInbox>>

RtPresence(s) ==
    /\ SetOnline(s) \/ SetOffline(s) \/ RemoveDriverGeoLocation(s) \/ HeartbeatLapses(s)
    /\ UNCHANGED <<rtRegistry, rtHandVars, rtBusVars, rtFaulted>>

-----------------------------------------------------------------------------
(* Authorization: a positive answer is cached, every failure denies *)

\* Each node has a breaker for each of the two services.
Breaker(h) == <<RtNodeOf[h[1]], IF RtRoleOf[RtUserOf[h[1]]] = "driver" THEN "driver" ELSE "delivery">>

\* onSuccess: the failures are forgotten and a half-open circuit closes.
OnSuccess(b) ==
    rtCircuit' = [rtCircuit EXCEPT ![b] = [fails |-> 0, state |->
                    IF @.state = "HALF_OPEN" THEN "CLOSED" ELSE @.state]]

\* onError: the failures are never forgotten by a probe, so one failed probe reopens.
OnError(b) ==
    rtCircuit' = [rtCircuit EXCEPT ![b] = [fails |-> @.fails + 1, state |->
                    IF @.fails + 1 >= RtThreshold THEN "OPEN" ELSE @.state]]

-----------------------------------------------------------------------------
(* Message handlers.  Several of a socket's handlers run at the same time    *)

Handlers == UNION {{s} \X DOMAIN rtH[s] : s \in RtSocket}
RtM(h) == rtH[h[1]][h[2]]
RtHAt(h, pc) == RtM(h).pc = pc
RtHGoto(h, pc) == rtH' = [rtH EXCEPT ![h[1]][h[2]].pc = pc]
RtU(h) == RtUserOf[h[1]]
RtPair(h) == <<h[1], RtM(h).delivery>>

\* WsExceptionFilter: FORBIDDEN, UNAUTHENTICATED and RATE_LIMITED close the socket.
Catch(h) ==
    /\ RtHGoto(h, "done")
    /\ rtSock' = [rtSock EXCEPT ![h[1]].conn = "closed"]

\* What each type of message begins with once the guards have passed it.
RtFirst == [subscribe |-> "auth", unsubscribe |-> "rem1", location |-> "validate",
            command |-> "claim", ping |-> "ping", bad |-> "done"]

\* The adapter hands a frame to its handler, which runs the guard chain first: a
\* socket that is not attached yet is not authenticated.
RouteMessage(s) ==
    /\ RtAt(s, "conn", "open") /\ rtRun.msgs[s] # <<>>
    /\ rtRun' = [rtRun EXCEPT !.msgs[s] = Tail(@)]
    /\ LET m == Head(rtRun.msgs[s]) IN
       IF s \in rtRegistry
       THEN /\ rtH' = [rtH EXCEPT ![s] = Append(@, [pc |-> RtFirst[m.type], type |-> m.type,
                                                    delivery |-> m.delivery, id |-> m.id])]
            /\ UNCHANGED rtSock
       ELSE RtGoto(s, "conn", "closed") /\ UNCHANGED rtH
    /\ UNCHANGED <<rtCircuit, rtCache>>

\* rateLimitStep, of the messages that have a rate action.
RateLimitStep(h) ==
    /\ RtM(h).type \in {"subscribe", "unsubscribe", "command"}
    /\ RtHAt(h, RtFirst[RtM(h).type]) /\ RtFault("limits")
    /\ Catch(h)
    /\ UNCHANGED <<rtCircuit, rtCache>>

HandlePing(h) ==
    /\ RtHAt(h, "ping") /\ RtHGoto(h, "done")
    /\ RtGoto(h[1], "fresh", TRUE)
    /\ RtFree /\ UNCHANGED <<rtCircuit, rtCache>>

\* A location that is malformed, too old or from the future is answered with an error.
ValidateLocation(h) ==
    /\ RtHAt(h, "validate")
    /\ RtHGoto(h, IF RtM(h).id = "invalid" THEN "done" ELSE "auth")
    /\ RtFree /\ UNCHANGED <<rtSock, rtCircuit, rtCache>>

\* claim, by SET NX; an error counts as new.
Claim(h) ==
    /\ RtHAt(h, "claim")
    /\ rtClaim' = rtClaim \cup {RtM(h).id}
    /\ RtHGoto(h, IF RtM(h).id \in rtClaim THEN "done" ELSE "auth")
    /\ RtFree /\ UNCHANGED <<rtSubs, rtGeo, rtFwd, rtInbox, rtFaulted>>

ClaimFails(h) ==
    /\ RtHAt(h, "claim") /\ RtFault("redis")
    /\ RtHGoto(h, "auth")
    /\ rtFaulted' = rtFaulted \cup {RtM(h).id}
    /\ UNCHANGED <<rtClaim, rtSubs, rtGeo, rtFwd, rtInbox>>

\* What the handlers go on with.
RtGranted == [subscribe |-> "add1", location |-> "throttle", command |-> "forward"]

\* The roles that are answered without asking: an admin may do all but send
\* locations, and only a driver sends locations and commands.
RtAdmitted(h) == RtRoleOf[RtU(h)] = "admin" /\ RtM(h).type # "location"
Refused(h) == /\ RtM(h).type \in {"location", "command"}
              /\ RtRoleOf[RtU(h)] # "driver" /\ ~RtAdmitted(h)

\* canSubscribeToDelivery, canSendLocationUpdate and canSendCommand.
Authorize(h) ==
    /\ RtHAt(h, "auth") /\ RtFree
    /\ IF Refused(h)
       THEN Catch(h) /\ UNCHANGED rtCircuit
       ELSE IF RtAdmitted(h) \/ <<RtU(h), RtM(h).delivery>> \in rtCache
       THEN RtHGoto(h, RtGranted[RtM(h).type]) /\ UNCHANGED <<rtSock, rtCircuit>>
       ELSE /\ RtHGoto(h, "call") /\ UNCHANGED rtSock
            /\ rtCircuit' = [rtCircuit EXCEPT ![Breaker(h)].state =
                               IF @ = "OPEN" THEN "HALF_OPEN" ELSE @]
    /\ UNCHANGED rtCache

HandleSubscribe(h) == RtM(h).type = "subscribe" /\ Authorize(h)
HandleLocationUpdate(h) == RtM(h).type = "location" /\ Authorize(h)
HandleCommand(h) == RtM(h).type = "command" /\ Authorize(h)

\* canAttempt refuses while an open circuit has not cooled down: null, which is no.
CircuitRefuses(h) ==
    /\ RtHAt(h, "auth") /\ RtFree
    /\ ~Refused(h) /\ ~RtAdmitted(h) /\ <<RtU(h), RtM(h).delivery>> \notin rtCache
    /\ rtCircuit[Breaker(h)].state = "OPEN"
    /\ Catch(h)
    /\ UNCHANGED <<rtCircuit, rtCache>>

\* A plausible slip: whoever asks is subscribed, and the answer is cached.
IsPartyAny(h) ==
    /\ RtHAt(h, "call") /\ RtFree
    /\ OnSuccess(Breaker(h))
    /\ rtCache' = rtCache \cup {<<RtU(h), RtM(h).delivery>>}
    /\ RtHGoto(h, RtGranted[RtM(h).type])
    /\ UNCHANGED rtSock

\* isParticipant and isAssignedDriver: the service's answer.
IsParty(h) ==
    /\ RtHAt(h, "call") /\ RtFree
    /\ OnSuccess(Breaker(h))
    /\ LET p == <<RtU(h), RtM(h).delivery>> IN
       IF p \in RtParty
       THEN /\ rtCache' = rtCache \cup {p}
            /\ RtHGoto(h, RtGranted[RtM(h).type]) /\ UNCHANGED rtSock
       ELSE Catch(h) /\ UNCHANGED rtCache

\* invoke: an error or the deadline resolves to null.
InvokeFails(h) ==
    /\ RtHAt(h, "call") /\ RtFault("grpc")
    /\ OnError(Breaker(h)) /\ Catch(h)
    /\ UNCHANGED rtCache

\* addSubscriber and removeSubscriber: the set, then the reverse index.
AddSubscriber(h) ==
    /\ \/ /\ RtHAt(h, "add1") /\ RtHGoto(h, "add2")
          /\ rtSubs' = [rtSubs EXCEPT !.fwd = @ \cup {RtPair(h)}]
       \/ /\ RtHAt(h, "add2") /\ RtHGoto(h, "done")
          /\ rtSubs' = [rtSubs EXCEPT !.back = @ \cup {RtPair(h)}]
    /\ RtFree /\ UNCHANGED <<rtClaim, rtGeo, rtFwd, rtInbox, rtFaulted>>

RemoveSubscriber(h) ==
    /\ \/ /\ RtHAt(h, "rem1") /\ RtHGoto(h, "rem2")
          /\ rtSubs' = [rtSubs EXCEPT !.fwd = @ \ {RtPair(h)}]
       \/ /\ RtHAt(h, "rem2") /\ RtHGoto(h, "done")
          /\ rtSubs' = [rtSubs EXCEPT !.back = @ \ {RtPair(h)}]
    /\ RtFree /\ UNCHANGED <<rtClaim, rtGeo, rtFwd, rtInbox, rtFaulted>>

\* The token bucket: a location too many is answered and dropped.
Throttle(h) ==
    /\ RtHAt(h, "throttle")
    /\ \/ RtFree /\ RtHGoto(h, "geo")
       \/ RtFault("limits") /\ RtHGoto(h, "done")
    /\ UNCHANGED <<rtSock, rtCircuit, rtCache>>

GeoAdd(h) ==
    /\ RtHAt(h, "geo") /\ RtHGoto(h, "publish")
    /\ rtGeo' = rtGeo \cup {RtU(h)}
    /\ RtFree /\ UNCHANGED <<rtClaim, rtSubs, rtFwd, rtInbox, rtFaulted>>

\* The location goes out as the bare record, without type and data.
PublishLocation(h) ==
    /\ RtHAt(h, "publish") /\ RtHGoto(h, "done")
    /\ \/ RtFree /\ RtEmit(RtMsg("location", "loc", RtM(h).delivery, RtU(h), TRUE))
       \/ RtFault("nats") /\ UNCHANGED rtInbox
    /\ UNCHANGED <<rtClaim, rtSubs, rtGeo, rtFwd, rtFaulted>>

\* The command goes to the domain service; without NATS the client is told to
\* try again, though the claim stays.
Forward(h) ==
    /\ RtHAt(h, "forward") /\ RtHGoto(h, "done")
    /\ \/ RtFree /\ rtFwd' = [rtFwd EXCEPT ![RtM(h).id] = @ + 1]
       \/ RtFault("nats") /\ UNCHANGED rtFwd
    /\ UNCHANGED <<rtClaim, rtSubs, rtGeo, rtInbox, rtFaulted>>

RtGuarded ==
    /\ \/ \E s \in RtSocket : RouteMessage(s)
       \/ \E h \in Handlers :
            \/ RateLimitStep(h) \/ HandlePing(h) \/ ValidateLocation(h)
            \/ HandleSubscribe(h) \/ HandleLocationUpdate(h) \/ HandleCommand(h)
            \/ CircuitRefuses(h) \/ IsParty(h) \/ InvokeFails(h) \/ Throttle(h)
    /\ UNCHANGED <<rtClaim, rtSubs, rtGeo, rtFwd, rtInbox, rtFaulted>>

RtHandle ==
    /\ \/ RtGuarded
       \/ /\ \E h \in Handlers :
               \/ Claim(h) \/ ClaimFails(h) \/ AddSubscriber(h) \/ RemoveSubscriber(h)
               \/ GeoAdd(h) \/ PublishLocation(h) \/ Forward(h)
          /\ UNCHANGED <<rtSock, rtCircuit, rtCache>>
    /\ UNCHANGED <<rtRegistry, rtRedis, rtPres, rtBusVars>>

-----------------------------------------------------------------------------
(* From Kafka to the sockets *)

RtMaxOf(a, b) == IF a > b THEN a ELSE b
RtTopic == rtRun.topic

\* A node is given the next event, or, after a rebalance, one that was given before.
RtEachMessage(n) ==
    /\ rtK[n] = RtIdle
    /\ \E i \in 1..Len(RtTopic) :
         /\ i <= rtOff + 1
         /\ IF i = rtOff + 1 /\ \A x \in RtNode : rtK[x].i # i
            THEN RtFree ELSE RtFault("redeliver")
         /\ rtK' = [rtK EXCEPT ![n] =
                     [i |-> i, pc |-> CASE RtTopic[i] = "malformed" -> "dlq"
                                        [] RtTopic[i] = "unknown" -> "commit"
                                        [] OTHER -> "dedup"]]
    /\ UNCHANGED <<rtOff, rtSeen, rtGot, rtInbox, rtFaulted, rtSock>>

RtEv(n) == RtTopic[rtK[n].i]

\* A plausible slip: the mark is looked for and never made.
RtDedupUnmarked(n) ==
    /\ rtK[n].pc = "dedup"
    /\ rtK' = [rtK EXCEPT ![n].pc = IF RtEv(n) \in rtSeen THEN "commit" ELSE "publish"]
    /\ RtFree /\ UNCHANGED <<rtOff, rtSeen, rtGot, rtInbox, rtFaulted, rtSock>>

\* isDuplicate, by SET NX.
RtDedup(n) ==
    /\ rtK[n].pc = "dedup"
    /\ rtK' = [rtK EXCEPT ![n].pc = IF RtEv(n) \in rtSeen THEN "commit" ELSE "publish"]
    /\ rtSeen' = rtSeen \cup {RtEv(n)}
    /\ RtFree /\ UNCHANGED <<rtOff, rtGot, rtInbox, rtFaulted, rtSock>>

\* Its error counts as new.
RtDedupFails(n) ==
    /\ rtK[n].pc = "dedup" /\ RtFault("redis")
    /\ rtK' = [rtK EXCEPT ![n].pc = "publish"]
    /\ rtFaulted' = rtFaulted \cup {RtEv(n)}
    /\ UNCHANGED <<rtOff, rtSeen, rtGot, rtInbox, rtSock>>

\* toClientEvent and the fan-out subject of the handler.
ToClientEvent(e) ==
    LET v == RtEvents[e] IN RtMsg(v.kind, e, v.delivery, v.user, FALSE)

\* handle: without NATS the event is lost, its mark stays.
RtPublish(n) ==
    /\ rtK[n].pc = "publish"
    /\ rtK' = [rtK EXCEPT ![n].pc = "commit"]
    /\ \/ RtFree /\ RtEmit(ToClientEvent(RtEv(n)))
       \/ RtFault("nats") /\ UNCHANGED rtInbox
    /\ UNCHANGED <<rtOff, rtSeen, rtGot, rtFaulted, rtSock>>

\* routeToDlq; its failure is logged, so the offset moves on either way.
RouteToDlq(n) ==
    /\ rtK[n].pc = "dlq"
    /\ rtK' = [rtK EXCEPT ![n].pc = "commit"]
    /\ RtFree /\ UNCHANGED <<rtOff, rtSeen, rtGot, rtInbox, rtFaulted, rtSock>>

RtCommit(n) ==
    /\ rtK[n].pc = "commit"
    /\ rtOff' = RtMaxOf(rtOff, rtK[n].i)
    /\ rtK' = [rtK EXCEPT ![n] = RtIdle]
    /\ RtFree /\ UNCHANGED <<rtSeen, rtGot, rtInbox, rtFaulted, rtSock>>

\* The RabbitMQ broadcast: no duplicates are looked for, and errors are acked.
BroadcastEvent ==
    /\ rtRun.broadcast # <<>>
    /\ rtRun' = [rtRun EXCEPT !.broadcast = Tail(@)]
    /\ RtEmit([ToClientEvent(Head(rtRun.broadcast)) EXCEPT !.ev = "note", !.subject = "status"])
    /\ UNCHANGED <<rtK, rtOff, rtSeen, rtGot, rtFaulted, rtSock>>

\* Notifications and payments come from other services.
Outside ==
    /\ rtRun.outside # <<>>
    /\ rtRun' = [rtRun EXCEPT !.outside = Tail(@)]
    /\ RtEmit(Head(rtRun.outside))
    /\ UNCHANGED <<rtK, rtOff, rtSeen, rtGot, rtFaulted, rtSock>>

\* getLocalSocketsByUser, getLocalSocketsByRole and getLocalConnection.
Local(n) == {s \in rtRegistry : RtNodeOf[s] = n}
LocalSocketsByUser(n, u) == {s \in Local(n) : RtUserOf[s] = u}
LocalSocketsByRole(n, r) == {s \in Local(n) : RtRoleOf[RtUserOf[s]] = r}
GetDeliverySubscribers(d) == {p[1] : p \in {q \in rtSubs.fwd : q[2] = d}}

\* The delivery's subscribers, and the customer the event names, each once.
FanoutToDeliverySubscribers(n, m) ==
    IF m.flat THEN {}
    ELSE (GetDeliverySubscribers(m.delivery) \cap Local(n)) \cup LocalSocketsByUser(n, m.user)

\* handleMessage: the user of a notification is taken from the subscription's
\* pattern, where it is a wildcard, and so is nobody.
FanoutTargets(n, m) ==
    CASE m.subject = "offer" -> LocalSocketsByUser(n, m.user)
      [] m.subject = "notification" -> {}
      [] m.subject = "payment" -> LocalSocketsByUser(n, m.user)
      [] m.subject = "presence" -> LocalSocketsByRole(n, "admin")
      [] OTHER -> FanoutToDeliverySubscribers(n, m)

\* send: nothing is written to a socket that is not open, and one whose buffer is
\* full is closed instead.
SocketSend(m, targets, slow) ==
    /\ rtGot' = [s \in RtSocket |->
         IF s \in targets \ slow /\ RtAt(s, "conn", "open")
         THEN [rtGot[s] EXCEPT ![m.ev] = @ + 1] ELSE rtGot[s]]
    /\ rtSock' = [s \in RtSocket |->
         IF s \in slow THEN [rtSock[s] EXCEPT !.conn = "closed"] ELSE rtSock[s]]

\* Messages of one subject are handled in order, those of different ones in any.
NatsHandleMessage(n) ==
    \E i \in DOMAIN rtInbox[n] :
      LET m == rtInbox[n][i]
          targets == FanoutTargets(n, m) IN
      /\ \A j \in 1..(i - 1) : rtInbox[n][j].subject # m.subject
      /\ rtInbox' = [rtInbox EXCEPT ![n] = SubSeq(@, 1, i - 1) \o SubSeq(@, i + 1, Len(@))]
      /\ \/ RtFree /\ SocketSend(m, targets, {})
         \/ \E s \in targets : /\ RtAt(s, "conn", "open") /\ RtFault("slow")
                               /\ SocketSend(m, targets, {s})
      /\ UNCHANGED <<rtK, rtOff, rtSeen, rtFaulted>>

RtBus ==
    /\ \/ \E n \in RtNode : \/ RtEachMessage(n) \/ RtDedup(n) \/ RtDedupFails(n) \/ RtPublish(n)
                            \/ RouteToDlq(n) \/ RtCommit(n) \/ NatsHandleMessage(n)
       \/ BroadcastEvent \/ Outside
    /\ UNCHANGED <<rtRegistry, rtRedis, rtPres, rtGeo, rtHandVars>>

\* A node dies: its sockets, its handlers and its memory are gone, and what it has
\* written to Redis stays.
RtCrash(n) ==
    /\ RtFault("crashes")
    /\ rtSock' = [s \in RtSocket |->
         IF RtNodeOf[s] = n /\ rtSock[s].conn # "new"
         THEN [conn |-> "closed", reg |-> "dead", dis |-> "dead", fresh |-> FALSE] ELSE rtSock[s]]
    /\ rtRegistry' = {s \in rtRegistry : RtNodeOf[s] # n}
    /\ rtH' = [s \in RtSocket |-> IF RtNodeOf[s] = n THEN <<>> ELSE rtH[s]]
    /\ rtK' = [rtK EXCEPT ![n] = RtIdle]
    /\ rtInbox' = [rtInbox EXCEPT ![n] = <<>>]
    /\ rtCircuit' = [b \in RtNode \X RtName |->
                       IF b[1] = n THEN [state |-> "CLOSED", fails |-> 0] ELSE rtCircuit[b]]
    /\ UNCHANGED <<rtRedis, rtPres, rtGeo, rtSubs, rtClaim, rtFwd, rtCache, rtOff,
                   rtSeen, rtGot, rtFaulted>>

RtNext ==
    \/ \E s \in RtSocket : RtConnect(s) \/ RtStore(s) \/ RtPresence(s)
    \/ RtHandle \/ RtBus
    \/ \E n \in RtNode : RtCrash(n)

RtSpec == RtInit /\ [][RtNext]_rtVars

-----------------------------------------------------------------------------
(* Properties *)

\* Sockets, handlers, the store and what each node has received are well formed.
RtTypeOK ==
    /\ \A s \in RtSocket : /\ rtSock[s].conn \in {"new", "open", "closed"}
                           /\ rtSock[s].fresh \in BOOLEAN
                           /\ \A e \in RtId : rtGot[s][e] \in Nat
    /\ rtRegistry \subseteq RtSocket
    /\ \A k \in RtKey : rtRedis[k] \subseteq RtSocket
    /\ rtSubs.fwd \cup rtSubs.back \subseteq RtSocket \X RtDelivery
    /\ \A b \in RtNode \X RtName : rtCircuit[b].state \in {"CLOSED", "OPEN", "HALF_OPEN"}
    /\ rtOff \in 0..Len(RtTopic)

\* A socket whose registration is over, and which is still open, is in its node's
\* memory and under the Redis keys of its user, role and node, whatever the other
\* sockets of its user do: only its own disconnect takes it away.
RtLiveIsReachable ==
    \A s \in RtSocket :
      (RtAt(s, "reg", "done") /\ RtAt(s, "conn", "open") /\ s \notin rtFaulted) =>
        s \in rtRegistry /\ \A k \in RtKey \ {"conn"} : s \in rtRedis[k]

\* An event of Kafka is written to a socket at most once and a command is forwarded
\* at most once, over redeliveries, rebalances and clients that repeat a command,
\* unless Redis failed to answer for that very event or command.
RtAtMostOnce ==
    /\ \A s \in RtSocket, e \in DOMAIN RtEvents : rtGot[s][e] > 1 => e \in rtFaulted
    /\ \A c \in DOMAIN rtFwd : rtFwd[c] > 1 => c \in rtFaulted

\* A socket is written an event only when its user may see it: a party of the
\* delivery, an admin, or the user the event is addressed to.
RtOnlyParties ==
    \A s \in RtSocket, e \in DOMAIN RtEvents : rtGot[s][e] > 0 =>
      \/ RtRoleOf[RtUserOf[s]] = "admin"
      \/ RtEvents[e].user = RtUserOf[s]
      \/ <<RtUserOf[s], RtEvents[e].delivery>> \in RtParty

\* What LocationService says of its last step: a location goes to every node and
\* there to the subscribers of the delivery that are connected.
RtLocationFanout ==
    [][\A n \in RtNode : \A i \in DOMAIN rtInbox[n] :
         LET m == rtInbox[n][i] IN
         (m.subject = "location" /\ rtInbox'[n] = SubSeq(rtInbox[n], 1, i - 1)
                                      \o SubSeq(rtInbox[n], i + 1, Len(rtInbox[n])))
         => \A s \in GetDeliverySubscribers(m.delivery) \cap Local(n) :
              RtAt(s, "conn", "open") =>
                rtGot'[s][m.ev] > rtGot[s][m.ev] \/ rtSock'[s].conn = "closed"]_rtVars

=============================================================================
