---------------------------- MODULE RequestProofs ----------------------------
(***************************************************************************)
(* Proofs about services that answer clients.                              *)
(*                                                                         *)
(* RealtimeGateway, for any number of nodes, sockets, users, deliveries    *)
(* and Kafka records, whatever closes, lapses, crashes or is delivered     *)
(* again.  The invariant has a part for each of the three promises, which  *)
(* share little: what keeps a socket in the tables (RgSockets), what a     *)
(* message handler past its claim or its authorization still guarantees    *)
(* (RgHands), and where an event is between its mark in Redis and the      *)
(* frames of a socket (RgBus).                                             *)
(*                                                                         *)
(* PaymentOperations, for any requests, replicas and limits: what a        *)
(* publisher, a call to Stripe and a recovery worker hold between their    *)
(* steps still agrees with the tables (PoOutOK, PoPayOK, PoRecOK).         *)
(*                                                                         *)
(* DriverProfile, for any documents, roles, deliveries and requests: what  *)
(* a handler has found out and not yet stored still holds when it stores   *)
(* it (DpFits).                                                            *)
(*                                                                         *)
(* Both lists that are read page by page grow at the front only, so an     *)
(* element moves down the pages, never up (PlaceGrows).                    *)
(*                                                                         *)
(* AnalyticsQueries, for any rows, requests and jobs: rows arrive anywhere *)
(* in a table, and still only move the others down; the key of a cached    *)
(* answer tells its question apart (AqKeyTells).                           *)
(***************************************************************************)
EXTENDS RealtimeGateway, PaymentOperations, DriverProfile, AnalyticsQueries, DataLemmas, SequenceTheorems

-----------------------------------------------------------------------------
(* realtime-service: sockets *)

RgSock == [conn : {"new", "open", "closed"},
           reg : {"new", "auth", "rejected", "conn", "user", "role", "node", "online", "done", "dead"},
           dis : {"idle", "subs", "conn", "user", "role", "node", "count", "offline", "geo", "drop",
                  "done", "dead"},
           fresh : BOOLEAN]

\* An open socket is not being cleaned up, and its registration has left it wherever it has
\* passed, unless Redis failed for it.
RgLive(s) ==
    /\ rtSock[s].conn = "new" => rtSock[s].reg = "new" /\ rtSock[s].dis = "idle"
    /\ rtSock[s].conn = "open" =>
          /\ rtSock[s].dis = "idle"
          /\ rtSock[s].reg \in RtKey \cup {"online", "done"} => s \in rtRegistry
          /\ s \notin rtFaulted =>
               /\ rtSock[s].reg \in {"role", "node", "online", "done"} => s \in rtRedis["user"]
               /\ rtSock[s].reg \in {"node", "online", "done"} => s \in rtRedis["role"]
               /\ rtSock[s].reg \in {"online", "done"} => s \in rtRedis["node"]

RgSockets ==
    /\ rtSock \in [RtSocket -> RgSock] /\ rtRedis \in [RtKey -> SUBSET RtSocket]
    /\ \A s \in RtSocket : RgLive(s)

RgKeeps(s) ==
    /\ s \in rtRegistry => s \in rtRegistry'
    /\ \A k \in {"user", "role", "node"} : s \in rtRedis[k] => s \in rtRedis'[k]
    /\ s \in rtFaulted => s \in rtFaulted'

LEMMA RgLiveStays ==
    ASSUME NEW s \in RtSocket, RgLive(s), RgKeeps(s), rtSock'[s].conn = rtSock[s].conn,
           rtSock'[s].reg = rtSock[s].reg, rtSock'[s].dis = rtSock[s].dis
    PROVE  RgLive(s)'
  BY DEF RgLive, RgKeeps

LEMMA RgLiveClosed ==
    ASSUME NEW s \in RtSocket, rtSock'[s].conn = "closed"
    PROVE  RgLive(s)'
  BY DEF RgLive

\* A step of one socket.
LEMMA RgSocketStep ==
    ASSUME RgSockets, NEW s \in RtSocket, rtSock' \in [RtSocket -> RgSock],
           rtRedis' \in [RtKey -> SUBSET RtSocket],
           \A t \in RtSocket \ {s} : rtSock'[t] = rtSock[t] /\ RgKeeps(t), RgLive(s)'
    PROVE  RgSockets'
  <1>1. \A t \in RtSocket \ {s} : RgLive(t)'
    BY RgLiveStays DEF RgSockets
  <1> QED
    BY <1>1 DEF RgSockets

\* What the steps of handleConnection and handleDisconnect do to the socket itself.
LEMMA RgConnect ==
    ASSUME RgSockets, NEW s \in RtSocket, RtConnect(s)
    PROVE  RgSockets'
  <1>u. UNCHANGED <<rtRegistry, rtRedis, rtFaulted>>
    BY DEF RtConnect
  <1>i. rtSock[s] \in RgSock /\ RgLive(s) /\ rtSock \in [RtSocket -> RgSock]
    BY DEF RgSockets
  <1>1. ASSUME NEW r \in RgSock, rtSock' = [rtSock EXCEPT ![s] = r],
               \/ r.conn = "closed"
               \/ r.conn = "open" /\ r.reg = "auth" /\ r.dis = "idle"
        PROVE  RgSockets'
    <2>1. rtSock' \in [RtSocket -> RgSock] /\ rtSock'[s] = r
          /\ \A t \in RtSocket \ {s} : rtSock'[t] = rtSock[t]
      BY <1>1, <1>i
    <2>2. RgLive(s)'
      BY <1>1, <2>1 DEF RgLive, RtKey
    <2>3. \A t \in RtSocket : RgKeeps(t)
      BY <1>u DEF RgKeeps
    <2> QED
      BY <1>u, <2>1, <2>2, <2>3, RgSocketStep DEF RgSockets
  <1>2. CASE HandleConnection(s)
    <2>r. PICK r : r = [rtSock[s] EXCEPT !.conn = "open", !.reg = "auth"]
      OBVIOUS
    <2>1. rtSock' = [rtSock EXCEPT ![s] = r]
      BY <1>2, <1>i, <2>r DEF HandleConnection
    <2>2. r \in RgSock /\ r.conn = "open" /\ r.reg = "auth" /\ r.dis = rtSock[s].dis
      BY <1>i, <2>r DEF RgSock
    <2>3. r.dis = "idle"
      BY <1>2, <1>i, <2>2 DEF HandleConnection, RgLive, RtAt
    <2> QED
      BY <1>1, <2>1, <2>2, <2>3
  <1>3. CASE RejectConnection(s)
    <2>r. PICK r : r = [rtSock[s] EXCEPT !.conn = "closed", !.reg = "rejected"]
      OBVIOUS
    <2>1. rtSock' = [rtSock EXCEPT ![s] = r]
      BY <1>3, <1>i, <2>r DEF RejectConnection
    <2>2. r \in RgSock /\ r.conn = "closed"
      BY <1>i, <2>r DEF RgSock
    <2> QED
      BY <1>1, <2>1, <2>2
  <1>4. CASE ClientCloses(s) \/ CheckStaleConnections(s)
    <2>r. PICK r : r = [rtSock[s] EXCEPT !.conn = "closed"]
      OBVIOUS
    <2>1. rtSock' = [rtSock EXCEPT ![s] = r]
      BY <1>4, <2>r DEF ClientCloses, CheckStaleConnections, RtGoto
    <2>2. r \in RgSock /\ r.conn = "closed"
      BY <1>i, <2>r DEF RgSock
    <2> QED
      BY <1>1, <2>1, <2>2
  <1>5. CASE HandleDisconnect(s) \/ CleanupFails(s) \/ StoreUnregisterFails(s)
             \/ UserConnectionCount(s) \/ CountFails(s)
    <2>1. PICK x \in {"subs", "done", "count", "offline", "drop"} : RtGoto(s, "dis", x)
      BY <1>5 DEF HandleDisconnect, CleanupFails, StoreUnregisterFails, UserConnectionCount, CountFails
    <2>r. PICK r : r = [rtSock[s] EXCEPT !.dis = x]
      OBVIOUS
    <2>2. rtSock' = [rtSock EXCEPT ![s] = r]
      BY <2>1, <2>r DEF RtGoto
    <2>3. r \in RgSock /\ r.conn = rtSock[s].conn
      BY <1>i, <2>r DEF RgSock
    <2>4. rtSock[s].dis /= "idle" \/ rtSock[s].conn = "closed"
      BY <1>5 DEF HandleDisconnect, CleanupFails, StoreUnregisterFails, UserConnectionCount, CountFails,
                  RtAt, RtKey
    <2>5. r.conn = "closed"
      BY <1>i, <2>3, <2>4 DEF RgLive, RgSock
    <2> QED
      BY <1>1, <2>2, <2>3, <2>5
  <1> QED
    BY <1>2, <1>3, <1>4, <1>5 DEF RtConnect

LEMMA RgStore ==
    ASSUME RgSockets, NEW s \in RtSocket, RtStore(s)
    PROVE  RgSockets'
  <1>i. rtSock[s] \in RgSock /\ RgLive(s) /\ rtSock \in [RtSocket -> RgSock]
        /\ rtRedis \in [RtKey -> SUBSET RtSocket]
    BY DEF RgSockets
  <1>1. ASSUME NEW r \in RgSock, rtSock' = [rtSock EXCEPT ![s] = r],
               rtRedis' \in [RtKey -> SUBSET RtSocket], RgLive(s)',
               \A t \in RtSocket \ {s} : RgKeeps(t)
        PROVE  RgSockets'
    BY <1>1, <1>i, RgSocketStep
  <1>2. CASE Attach(s)
    <2>r. PICK r : r = [rtSock[s] EXCEPT !.reg = "conn", !.fresh = TRUE]
      OBVIOUS
    <2>1. rtSock' = [rtSock EXCEPT ![s] = r]
      BY <1>2, <1>i, <2>r DEF Attach
    <2>2. r \in RgSock /\ r.conn = rtSock[s].conn /\ r.reg = "conn" /\ r.dis = rtSock[s].dis
      BY <1>i, <2>r DEF RgSock
    <2>3. rtSock'[s] = r /\ s \in rtRegistry' /\ rtSock[s].reg = "auth"
      BY <1>2, <1>i, <2>1 DEF Attach, RtAt
    <2>4. RgLive(s)'
      BY <2>2, <2>3, <1>i DEF RgLive
    <2>5. \A t \in RtSocket : RgKeeps(t)
      BY <1>2 DEF Attach, RgKeeps
    <2>6. rtRedis' \in [RtKey -> SUBSET RtSocket]
      BY <1>2, <1>i DEF Attach
    <2> QED
      BY <1>1, <2>1, <2>2, <2>4, <2>5, <2>6
  <1>3. CASE StoreRegister(s)
    <2>k. PICK k \in RtKey : k = rtSock[s].reg
      BY <1>3 DEF StoreRegister
    <2>x. PICK x : x = IF k = "node" THEN "online" ELSE RtNextKey[k]
      OBVIOUS
    <2>0. /\ k = "conn" => x = "user"
          /\ k = "user" => x = "role"
          /\ k = "role" => x = "node"
          /\ k = "node" => x = "online"
      BY <2>x DEF RtNextKey
    <2>1. RtGoto(s, "reg", x) /\ rtRedis' = [rtRedis EXCEPT ![k] = @ \cup {s}]
          /\ UNCHANGED <<rtRegistry, rtFaulted>>
      BY <1>3, <2>k, <2>x DEF StoreRegister, RtAt
    <2>r. PICK r : r = [rtSock[s] EXCEPT !.reg = x]
      OBVIOUS
    <2>2. rtSock' = [rtSock EXCEPT ![s] = r] /\ rtSock'[s] = r
      BY <1>i, <2>1, <2>r DEF RtGoto
    <2>3. r \in RgSock /\ r.conn = rtSock[s].conn /\ r.reg = x /\ r.dis = rtSock[s].dis
      BY <1>i, <2>r, <2>0 DEF RgSock, RtKey
    <2>4. rtRedis' \in [RtKey -> SUBSET RtSocket] /\ s \in rtRedis'[k]
          /\ \A t \in RtSocket : \A j \in RtKey : t \in rtRedis[j] => t \in rtRedis'[j]
      BY <1>i, <2>1
    <2>5. RgLive(s)'
      BY <1>i, <2>k, <2>0, <2>1, <2>2, <2>3, <2>4 DEF RgLive, RtKey
    <2>6. \A t \in RtSocket : RgKeeps(t)
      BY <2>1, <2>4 DEF RgKeeps, RtKey
    <2> QED
      BY <1>1, <2>2, <2>3, <2>4, <2>5, <2>6
  <1>4. CASE StoreRegisterFails(s)
    <2>r. PICK r : r = [rtSock[s] EXCEPT !.reg = "online"]
      OBVIOUS
    <2>1. /\ RtGoto(s, "reg", "online") /\ UNCHANGED <<rtRegistry, rtRedis>>
          /\ rtFaulted' = rtFaulted \cup {s} /\ rtSock[s].reg \in RtKey
      BY <1>4 DEF StoreRegisterFails
    <2>2. rtSock' = [rtSock EXCEPT ![s] = r] /\ rtSock'[s] = r
      BY <1>i, <2>1, <2>r DEF RtGoto
    <2>3. r \in RgSock /\ r.conn = rtSock[s].conn /\ r.reg = "online" /\ r.dis = rtSock[s].dis
      BY <1>i, <2>r DEF RgSock
    <2>4. RgLive(s)'
      BY <1>i, <2>1, <2>2, <2>3 DEF RgLive, RtKey
    <2>5. \A t \in RtSocket : RgKeeps(t)
      BY <2>1 DEF RgKeeps
    <2> QED
      BY <1>1, <1>i, <2>1, <2>2, <2>3, <2>4, <2>5
  <1>5. CASE CleanupSocket(s) \/ StoreUnregister(s) \/ RegistryRemove(s)
    <2>1. PICK x \in {"conn", "user", "role", "node", "count", "done"} : RtGoto(s, "dis", x)
      BY <1>5 DEF CleanupSocket, StoreUnregister, RegistryRemove, RtAt, RtNextKey, RtKey
    <2>r. PICK r : r = [rtSock[s] EXCEPT !.dis = x]
      OBVIOUS
    <2>2. rtSock' = [rtSock EXCEPT ![s] = r] /\ rtSock'[s] = r
      BY <1>i, <2>1, <2>r DEF RtGoto
    <2>3. r \in RgSock /\ r.conn = rtSock[s].conn
      BY <1>i, <2>r DEF RgSock
    <2>4. rtSock[s].dis /= "idle"
      BY <1>5 DEF CleanupSocket, StoreUnregister, RegistryRemove, RtAt, RtKey
    <2>5. r.conn = "closed"
      BY <1>i, <2>3, <2>4 DEF RgLive, RgSock
    <2>6. RgLive(s)'
      BY <2>2, <2>5, RgLiveClosed
    <2>7. rtRedis' \in [RtKey -> SUBSET RtSocket]
      BY <1>5, <1>i DEF CleanupSocket, StoreUnregister, RegistryRemove
    <2>8. \A t \in RtSocket \ {s} : RgKeeps(t)
      BY <1>5, <1>i DEF CleanupSocket, StoreUnregister, RegistryRemove, RgKeeps, RtKey
    <2> QED
      BY <1>1, <2>2, <2>3, <2>6, <2>7, <2>8
  <1> QED
    BY <1>2, <1>3, <1>4, <1>5 DEF RtStore

LEMMA RgPresence ==
    ASSUME RgSockets, NEW s \in RtSocket, RtPresence(s)
    PROVE  RgSockets'
  <1>i. rtSock[s] \in RgSock /\ RgLive(s) /\ rtSock \in [RtSocket -> RgSock]
        /\ rtRedis \in [RtKey -> SUBSET RtSocket]
    BY DEF RgSockets
  <1>1. \A t \in RtSocket : RgKeeps(t)
    BY <1>i DEF RtPresence, SetOnline, SetOffline, RemoveDriverGeoLocation, HeartbeatLapses, RgKeeps, RtKey
  <1>2. rtRedis' \in [RtKey -> SUBSET RtSocket]
    BY <1>i DEF RtPresence, SetOnline, SetOffline, RemoveDriverGeoLocation, HeartbeatLapses, RtKey
  <1>3. ASSUME NEW r \in RgSock, rtSock' = [rtSock EXCEPT ![s] = r], RgLive(s)'
        PROVE  RgSockets'
    BY <1>1, <1>2, <1>3, <1>i, RgSocketStep
  <1>4. CASE SetOnline(s)
    <2>r. PICK r : r = [rtSock[s] EXCEPT !.reg = "done"]
      OBVIOUS
    <2>1. rtSock' = [rtSock EXCEPT ![s] = r] /\ rtSock'[s] = r
      BY <1>4, <1>i, <2>r DEF SetOnline, RtGoto
    <2>2. r \in RgSock /\ r.conn = rtSock[s].conn /\ r.reg = "done" /\ r.dis = rtSock[s].dis
      BY <1>i, <2>r DEF RgSock
    <2>3. rtSock[s].reg = "online"
      BY <1>4 DEF SetOnline, RtAt
    <2>4. RgLive(s)'
      BY <1>1, <1>i, <2>1, <2>2, <2>3 DEF RgLive, RgKeeps
    <2> QED
      BY <1>3, <2>1, <2>2, <2>4
  <1>5. CASE SetOffline(s) \/ RemoveDriverGeoLocation(s)
    <2>1. PICK x \in {"geo", "drop"} : RtGoto(s, "dis", x)
      BY <1>5 DEF SetOffline, RemoveDriverGeoLocation
    <2>r. PICK r : r = [rtSock[s] EXCEPT !.dis = x]
      OBVIOUS
    <2>2. rtSock' = [rtSock EXCEPT ![s] = r] /\ rtSock'[s] = r
      BY <1>i, <2>1, <2>r DEF RtGoto
    <2>3. r \in RgSock /\ r.conn = rtSock[s].conn
      BY <1>i, <2>r DEF RgSock
    <2>4. rtSock[s].dis /= "idle"
      BY <1>5 DEF SetOffline, RemoveDriverGeoLocation, RtAt
    <2>5. r.conn = "closed"
      BY <1>i, <2>3, <2>4 DEF RgLive, RgSock
    <2> QED
      BY <1>3, <2>2, <2>3, <2>5, RgLiveClosed
  <1>6. CASE HeartbeatLapses(s)
    <2>r. PICK r : r = [rtSock[s] EXCEPT !.fresh = FALSE]
      OBVIOUS
    <2>1. rtSock' = [rtSock EXCEPT ![s] = r] /\ rtSock'[s] = r
      BY <1>6, <1>i, <2>r DEF HeartbeatLapses, RtGoto
    <2>2. r \in RgSock /\ r.conn = rtSock[s].conn /\ r.reg = rtSock[s].reg /\ r.dis = rtSock[s].dis
      BY <1>i, <2>r DEF RgSock
    <2>3. RgLive(s)'
      BY <1>1, <1>i, <2>1, <2>2, RgLiveStays
    <2> QED
      BY <1>3, <2>1, <2>2, <2>3
  <1> QED
    BY <1>4, <1>5, <1>6 DEF RtPresence

\* A handler leaves the socket alone, closes it or renews its heartbeat.
LEMMA RgTouch ==
    ASSUME RgSockets, NEW s \in RtSocket, UNCHANGED <<rtRegistry, rtRedis>>, rtFaulted \subseteq rtFaulted',
           \/ UNCHANGED rtSock
           \/ rtSock' = [rtSock EXCEPT ![s].conn = "closed"]
           \/ rtSock' = [rtSock EXCEPT ![s].fresh = TRUE]
    PROVE  RgSockets'
  <1>i. rtSock[s] \in RgSock /\ RgLive(s) /\ rtSock \in [RtSocket -> RgSock]
        /\ rtRedis' \in [RtKey -> SUBSET RtSocket]
    BY DEF RgSockets
  <1>1. \A t \in RtSocket : RgKeeps(t)
    BY DEF RgKeeps
  <1>2. CASE UNCHANGED rtSock
    BY <1>1, <1>2, <1>i, RgLiveStays DEF RgSockets
  <1>3. CASE rtSock' = [rtSock EXCEPT ![s].conn = "closed"]
    <2>r. PICK r : r = [rtSock[s] EXCEPT !.conn = "closed"]
      OBVIOUS
    <2>1. r \in RgSock /\ r.conn = "closed"
      BY <1>i, <2>r DEF RgSock
    <2>2. rtSock' = [rtSock EXCEPT ![s] = r]
      BY <1>3, <2>r
    <2> QED
      BY <1>1, <1>i, <2>1, <2>2, RgLiveClosed, RgSocketStep
  <1>4. CASE rtSock' = [rtSock EXCEPT ![s].fresh = TRUE]
    <2>r. PICK r : r = [rtSock[s] EXCEPT !.fresh = TRUE]
      OBVIOUS
    <2>1. r \in RgSock /\ r.conn = rtSock[s].conn /\ r.reg = rtSock[s].reg /\ r.dis = rtSock[s].dis
      BY <1>i, <2>r DEF RgSock
    <2>2. rtSock' = [rtSock EXCEPT ![s] = r]
      BY <1>4, <2>r
    <2> QED
      BY <1>1, <1>i, <2>1, <2>2, RgLiveStays, RgSocketStep
  <1> QED
    BY <1>2, <1>3, <1>4

LEMMA RgHandlerSocket ==
    ASSUME NEW h \in Handlers
    PROVE  h[1] \in RtSocket /\ h[2] \in DOMAIN rtH[h[1]] /\ h = <<h[1], h[2]>>
  BY DEF Handlers

LEMMA RgHandleSockets ==
    ASSUME RgSockets, RtHandle
    PROVE  RgSockets'
  <1>1. UNCHANGED <<rtRegistry, rtRedis>>
    BY DEF RtHandle
  <1>2. CASE RtGuarded
    <2>1. UNCHANGED rtFaulted
      BY <1>2 DEF RtGuarded
    <2>2. ASSUME NEW s \in RtSocket, RouteMessage(s) PROVE RgSockets'
      <3>1. UNCHANGED rtSock \/ rtSock' = [rtSock EXCEPT ![s].conn = "closed"]
        BY <2>2 DEF RouteMessage, RtGoto
      <3> QED
        BY <1>1, <2>1, <3>1, RgTouch
    <2>3. ASSUME NEW h \in Handlers,
                 \/ RateLimitStep(h) \/ HandlePing(h) \/ ValidateLocation(h)
                 \/ HandleSubscribe(h) \/ HandleLocationUpdate(h) \/ HandleCommand(h)
                 \/ CircuitRefuses(h) \/ IsParty(h) \/ InvokeFails(h) \/ Throttle(h)
          PROVE  RgSockets'
      <3>0. h[1] \in RtSocket
        BY RgHandlerSocket
      <3>1. UNCHANGED rtSock \/ Catch(h) \/ RtGoto(h[1], "fresh", TRUE)
        BY <2>3 DEF RateLimitStep, HandlePing, ValidateLocation, HandleSubscribe, HandleLocationUpdate,
                    HandleCommand, Authorize, CircuitRefuses, IsParty, InvokeFails, Throttle
      <3>2. \/ UNCHANGED rtSock
            \/ rtSock' = [rtSock EXCEPT ![h[1]].conn = "closed"]
            \/ rtSock' = [rtSock EXCEPT ![h[1]].fresh = TRUE]
        BY <3>1 DEF Catch, RtGoto
      <3> QED
        BY <1>1, <2>1, <3>0, <3>2, RgTouch
    <2> QED
      BY <1>2, <2>2, <2>3 DEF RtGuarded
  <1>3. ASSUME NEW h \in Handlers, UNCHANGED rtSock,
               \/ Claim(h) \/ ClaimFails(h) \/ AddSubscriber(h) \/ RemoveSubscriber(h)
               \/ GeoAdd(h) \/ PublishLocation(h) \/ Forward(h)
        PROVE  RgSockets'
    <2>1. rtFaulted \subseteq rtFaulted'
      BY <1>3 DEF Claim, ClaimFails, AddSubscriber, RemoveSubscriber, GeoAdd, PublishLocation, Forward
    <2> QED
      BY <1>1, <1>3, <2>1, RgHandlerSocket, RgTouch
  <1> QED
    BY <1>2, <1>3 DEF RtHandle

LEMMA RgBusSockets ==
    ASSUME RgSockets, RtBus
    PROVE  RgSockets'
  <1>1. UNCHANGED <<rtRegistry, rtRedis>>
    BY DEF RtBus
  <1>2. CASE UNCHANGED rtSock
    <2>1. rtFaulted \subseteq rtFaulted'
      BY DEF RtBus, RtEachMessage, RtDedup, RtDedupFails, RtPublish, RouteToDlq, RtCommit,
             NatsHandleMessage, BroadcastEvent, Outside
    <2>2. \A t \in RtSocket : RgKeeps(t)
      BY <1>1, <2>1 DEF RgKeeps
    <2> QED
      BY <1>1, <1>2, <2>2, RgLiveStays DEF RgSockets
  <1>3. ASSUME NEW n \in RtNode, NatsHandleMessage(n) PROVE RgSockets'
    <2>1. PICK m, targets, slow : SocketSend(m, targets, slow)
      BY <1>3 DEF NatsHandleMessage
    <2>2. UNCHANGED rtFaulted
      BY <1>3 DEF NatsHandleMessage
    <2>3. \A t \in RtSocket : RgKeeps(t)
      BY <1>1, <2>2 DEF RgKeeps
    <2>4. rtSock' = [s \in RtSocket |->
                       IF s \in slow THEN [rtSock[s] EXCEPT !.conn = "closed"] ELSE rtSock[s]]
      BY <2>1 DEF SocketSend
    <2>5. ASSUME NEW s \in RtSocket PROVE rtSock'[s] \in RgSock /\ RgLive(s)'
      <3>1. CASE s \in slow
        <4>1. rtSock'[s] = [rtSock[s] EXCEPT !.conn = "closed"] /\ rtSock[s] \in RgSock
          BY <3>1, <2>4 DEF RgSockets
        <4>2. rtSock'[s] \in RgSock /\ rtSock'[s].conn = "closed"
          BY <4>1 DEF RgSock
        <4> QED
          BY <4>2, RgLiveClosed
      <3>2. CASE s \notin slow
        BY <3>2, <2>3, <2>4, RgLiveStays DEF RgSockets
      <3> QED
        BY <3>1, <3>2
    <2>6. rtSock' \in [RtSocket -> RgSock]
      BY <2>4, <2>5
    <2> QED
      BY <1>1, <2>5, <2>6 DEF RgSockets
  <1> QED
    BY <1>2, <1>3 DEF RtBus, RtEachMessage, RtDedup, RtDedupFails, RtPublish, RouteToDlq, RtCommit,
                      BroadcastEvent, Outside

LEMMA RgCrashSockets ==
    ASSUME RgSockets, NEW n \in RtNode, RtCrash(n)
    PROVE  RgSockets'
  <1>1. rtSock' = [s \in RtSocket |->
                     IF RtNodeOf[s] = n /\ rtSock[s].conn # "new"
                     THEN [conn |-> "closed", reg |-> "dead", dis |-> "dead", fresh |-> FALSE] ELSE rtSock[s]]
    BY DEF RtCrash
  <1>2. UNCHANGED <<rtRedis, rtFaulted>> /\ rtRegistry' = {s \in rtRegistry : RtNodeOf[s] # n}
    BY DEF RtCrash
  <1>3. ASSUME NEW s \in RtSocket PROVE rtSock'[s] \in RgSock /\ RgLive(s)'
    <2>1. CASE RtNodeOf[s] = n /\ rtSock[s].conn # "new"
      <3>1. rtSock'[s] \in RgSock /\ rtSock'[s].conn = "closed"
        BY <2>1, <1>1 DEF RgSock
      <3> QED
        BY <3>1, RgLiveClosed
    <2>2. CASE rtSock[s].conn = "new"
      BY <2>2, <1>1 DEF RgSockets, RgLive
    <2>3. CASE RtNodeOf[s] /= n
      <3>1. RgKeeps(s)
        BY <2>3, <1>2 DEF RgKeeps
      <3> QED
        BY <2>3, <3>1, <1>1, RgLiveStays DEF RgSockets
    <2> QED
      BY <2>1, <2>2, <2>3
  <1>4. rtSock' \in [RtSocket -> RgSock]
    BY <1>1, <1>3
  <1> QED
    BY <1>2, <1>3, <1>4 DEF RgSockets

LEMMA RgSocketsInit == RtInit => RgSockets
  <1> SUFFICES ASSUME RtInit PROVE RgSockets
    OBVIOUS
  <1>1. rtRun \in RtRuns /\ rtRun.ready \subseteq RtSocket
    BY RtAssumption DEF RtInit
  <1>2. rtSock = [s \in RtSocket |->
                   IF s \in rtRun.ready
                   THEN [conn |-> "open", reg |-> "done", dis |-> "idle", fresh |-> TRUE]
                   ELSE [conn |-> "new", reg |-> "new", dis |-> "idle", fresh |-> FALSE]]
        /\ rtRegistry = rtRun.ready /\ rtRedis = [k \in RtKey |-> rtRun.ready]
    BY DEF RtInit
  <1>3. rtSock \in [RtSocket -> RgSock] /\ rtRedis \in [RtKey -> SUBSET RtSocket]
    BY <1>1, <1>2 DEF RgSock
  <1>4. ASSUME NEW s \in RtSocket PROVE RgLive(s)
    <2>1. CASE s \in rtRun.ready
      BY <2>1, <1>2 DEF RgLive, RtKey
    <2>2. CASE s \notin rtRun.ready
      BY <2>2, <1>2 DEF RgLive
    <2> QED
      BY <2>1, <2>2
  <1> QED
    BY <1>3, <1>4 DEF RgSockets

LEMMA RgSocketsStep == RgSockets /\ [RtNext]_rtVars => RgSockets'
  <1> SUFFICES ASSUME RgSockets, [RtNext]_rtVars PROVE RgSockets'
    OBVIOUS
  <1>1. CASE UNCHANGED rtVars
    <2>1. UNCHANGED <<rtSock, rtRegistry, rtRedis, rtFaulted>>
      BY <1>1 DEF rtVars, rtSockVars
    <2>2. \A t \in RtSocket : RgKeeps(t)
      BY <2>1 DEF RgKeeps
    <2> QED
      BY <2>1, <2>2, RgLiveStays DEF RgSockets
  <1> QED
    BY <1>1, RgConnect, RgStore, RgPresence, RgHandleSockets, RgBusSockets, RgCrashSockets DEF RtNext

\* A socket whose registration is over and which is open is where the fan-out looks for it.
LEMMA RgReachable == RgSockets => RtLiveIsReachable
  BY DEF RgSockets, RgLive, RtLiveIsReachable, RtAt, RtKey

-----------------------------------------------------------------------------
(* The run: messages to come keep their form and the topic its events *)

RgKind == {"subscribe", "unsubscribe", "location", "command", "ping", "bad"}

RgMessage(m) == m.type \in RgKind /\ (m.type = "subscribe" => m.delivery \in RtDelivery)

RgRun ==
    /\ {"msgs", "topic", "outside"} \subseteq DOMAIN rtRun /\ DOMAIN rtRun.msgs = RtSocket
    /\ Len(rtRun.topic) \in Nat
    /\ \A s \in RtSocket : \E M : rtRun.msgs[s] \in Seq(M) /\ \A m \in M : RgMessage(m)
    /\ \E M : rtRun.outside \in Seq(M) /\ \A m \in M : m.ev \in {"note", "pay"}

RgRunKept == RgRun' /\ rtRun'.topic = rtRun.topic

LEMMA RgRunField ==
    ASSUME RgRun, NEW f, f \notin {"msgs", "topic", "outside"}, NEW x, rtRun' = [rtRun EXCEPT ![f] = x]
    PROVE  RgRunKept
  <1>1. rtRun'.msgs = rtRun.msgs /\ rtRun'.topic = rtRun.topic /\ rtRun'.outside = rtRun.outside
        /\ DOMAIN rtRun' = DOMAIN rtRun
    BY DEF RgRun
  <1> QED
    BY <1>1 DEF RgRun, RgRunKept

RgFaults == {"rejects", "closes", "lapses", "redis", "limits", "grpc", "nats", "redeliver", "slow", "crashes"}

LEMMA RgFault ==
    ASSUME RgRun, RtFree \/ \E f \in RgFaults : RtFault(f)
    PROVE  RgRunKept
  <1>1. CASE RtFree
    BY <1>1 DEF RtFree, RgRun, RgRunKept
  <1>2. ASSUME NEW f \in RgFaults, RtFault(f) PROVE RgRunKept
    <2>1. PICK x : x = rtRun[f] - 1
      OBVIOUS
    <2>2. rtRun' = [rtRun EXCEPT ![f] = x]
      BY <1>2, <2>1 DEF RtFault
    <2>3. f \notin {"msgs", "topic", "outside"}
      BY DEF RgFaults
    <2> QED
      BY <2>2, <2>3, RgRunField
  <1> QED
    BY <1>1, <1>2

\* A message that is taken off a sequence, and what is left.
LEMMA RgTail ==
    ASSUME NEW M, NEW q \in Seq(M), q /= <<>>
    PROVE  Head(q) \in M /\ Tail(q) \in Seq(M)
  BY HeadTailProperties

LEMMA RgRoute ==
    ASSUME RgRun, NEW s \in RtSocket, RouteMessage(s)
    PROVE  RgRunKept /\ RgMessage(Head(rtRun.msgs[s]))
  <1>1. PICK M : rtRun.msgs[s] \in Seq(M) /\ \A m \in M : RgMessage(m)
    BY DEF RgRun
  <1>q. PICK q : q = rtRun.msgs[s]
    OBVIOUS
  <1>2. q \in Seq(M) /\ q /= <<>> /\ rtRun' = [rtRun EXCEPT !.msgs[s] = Tail(@)]
    BY <1>1, <1>q DEF RouteMessage
  <1>3. Head(q) \in M /\ Tail(q) \in Seq(M)
    BY <1>2, RgTail
  <1>f. PICK f : f = [rtRun.msgs EXCEPT ![s] = Tail(q)]
    OBVIOUS
  <1>4. rtRun' = [rtRun EXCEPT !.msgs = f]
    BY <1>2, <1>q, <1>f
  <1>5. /\ rtRun'.msgs = f /\ rtRun'.topic = rtRun.topic /\ rtRun'.outside = rtRun.outside
        /\ DOMAIN rtRun' = DOMAIN rtRun
    BY <1>4 DEF RgRun
  <1>6. DOMAIN f = RtSocket /\ f[s] = Tail(q) /\ \A t \in RtSocket \ {s} : f[t] = rtRun.msgs[t]
    BY <1>f DEF RgRun
  <1>7. \A t \in RtSocket : \E N : f[t] \in Seq(N) /\ \A m \in N : RgMessage(m)
    BY <1>1, <1>3, <1>6 DEF RgRun
  <1> QED
    BY <1>1, <1>3, <1>q, <1>5, <1>6, <1>7 DEF RgRun, RgRunKept

LEMMA RgOutside ==
    ASSUME RgRun, Outside
    PROVE  RgRunKept /\ Head(rtRun.outside).ev \in {"note", "pay"}
  <1>1. PICK M : rtRun.outside \in Seq(M) /\ \A m \in M : m.ev \in {"note", "pay"}
    BY DEF RgRun
  <1>q. PICK q : q = rtRun.outside
    OBVIOUS
  <1>2. q \in Seq(M) /\ q /= <<>> /\ rtRun' = [rtRun EXCEPT !.outside = Tail(q)]
    BY <1>1, <1>q DEF Outside
  <1>3. Head(q) \in M /\ Tail(q) \in Seq(M)
    BY <1>2, RgTail
  <1>4. /\ rtRun'.msgs = rtRun.msgs /\ rtRun'.topic = rtRun.topic /\ rtRun'.outside = Tail(q)
        /\ DOMAIN rtRun' = DOMAIN rtRun
    BY <1>2 DEF RgRun
  <1> QED
    BY <1>1, <1>3, <1>q, <1>4 DEF RgRun, RgRunKept

LEMMA RgBroadcast ==
    ASSUME RgRun, BroadcastEvent
    PROVE  RgRunKept
  <1>1. PICK x : x = Tail(rtRun.broadcast)
    OBVIOUS
  <1>2. rtRun' = [rtRun EXCEPT !["broadcast"] = x]
    BY <1>1 DEF BroadcastEvent
  <1> QED
    BY <1>2, RgRunField

LEMMA RgRunStep == RgRun /\ [RtNext]_rtVars => RgRunKept
  <1> SUFFICES ASSUME RgRun, [RtNext]_rtVars PROVE RgRunKept
    OBVIOUS
  <1>1. CASE UNCHANGED rtVars
    BY <1>1, RgFault DEF rtVars, RtFree
  <1>2. ASSUME NEW s \in RtSocket, RtConnect(s) \/ RtStore(s) \/ RtPresence(s) PROVE RgRunKept
    <2>1. RtFree \/ RtFault("rejects") \/ RtFault("closes") \/ RtFault("redis") \/ RtFault("lapses")
      BY <1>2 DEF RtConnect, RtStore, RtPresence, HandleConnection, RejectConnection, ClientCloses,
                  HandleDisconnect, CleanupFails, StoreUnregisterFails, UserConnectionCount, CountFails,
                  CheckStaleConnections, Attach, StoreRegister, StoreRegisterFails, CleanupSocket,
                  StoreUnregister, RegistryRemove, SetOnline, SetOffline, RemoveDriverGeoLocation,
                  HeartbeatLapses
    <2> QED
      BY <2>1, RgFault DEF RgFaults
  <1>3. CASE RtHandle
    <2>1. ASSUME NEW h \in Handlers,
                 \/ RateLimitStep(h) \/ HandlePing(h) \/ ValidateLocation(h)
                 \/ HandleSubscribe(h) \/ HandleLocationUpdate(h) \/ HandleCommand(h)
                 \/ CircuitRefuses(h) \/ IsParty(h) \/ InvokeFails(h) \/ Throttle(h)
                 \/ Claim(h) \/ ClaimFails(h) \/ AddSubscriber(h) \/ RemoveSubscriber(h)
                 \/ GeoAdd(h) \/ PublishLocation(h) \/ Forward(h)
          PROVE  RgRunKept
      <3>1. RtFree \/ RtFault("limits") \/ RtFault("grpc") \/ RtFault("redis") \/ RtFault("nats")
        BY <2>1 DEF RateLimitStep, HandlePing, ValidateLocation, HandleSubscribe, HandleLocationUpdate,
                    HandleCommand, Authorize, CircuitRefuses, IsParty, InvokeFails, Throttle, Claim,
                    ClaimFails, AddSubscriber, RemoveSubscriber, GeoAdd, PublishLocation, Forward
      <3> QED
        BY <3>1, RgFault DEF RgFaults
    <2> QED
      BY <1>3, <2>1, RgRoute DEF RtHandle, RtGuarded
  <1>4. CASE RtBus
    <2>1. ASSUME NEW n \in RtNode,
                 \/ RtEachMessage(n) \/ RtDedup(n) \/ RtDedupFails(n) \/ RtPublish(n)
                 \/ RouteToDlq(n) \/ RtCommit(n) \/ NatsHandleMessage(n)
          PROVE  RgRunKept
      <3>1. RtFree \/ RtFault("redeliver") \/ RtFault("redis") \/ RtFault("nats") \/ RtFault("slow")
        BY <2>1 DEF RtEachMessage, RtDedup, RtDedupFails, RtPublish, RouteToDlq, RtCommit, NatsHandleMessage
      <3> QED
        BY <3>1, RgFault DEF RgFaults
    <2> QED
      BY <1>4, <2>1, RgBroadcast, RgOutside DEF RtBus
  <1>5. ASSUME NEW n \in RtNode, RtCrash(n) PROVE RgRunKept
    BY <1>5, RgFault DEF RtCrash, RgFaults
  <1> QED
    BY <1>1, <1>2, <1>3, <1>4, <1>5 DEF RtNext

LEMMA RgRunInit == RtInit => RgRun
  <1> SUFFICES ASSUME RtInit PROVE RgRun
    OBVIOUS
  <1>r. PICK r \in RtRuns : r = rtRun
    BY DEF RtInit
  <1>2. ASSUME NEW s \in RtSocket
        PROVE  \E M : r.msgs[s] \in Seq(M) /\ \A m \in M : RgMessage(m)
    <2>1. /\ r.msgs[s] \in Seq({r.msgs[s][i] : i \in DOMAIN r.msgs[s]})
          /\ \A i \in DOMAIN r.msgs[s] : RgMessage(r.msgs[s][i])
      BY RtAssumption DEF RgMessage, RgKind
    <2>q. PICK q : q = r.msgs[s]
      OBVIOUS
    <2>m. PICK M : M = {q[i] : i \in DOMAIN q}
      OBVIOUS
    <2>2. q \in Seq(M) /\ \A m \in M : RgMessage(m)
      BY <2>1, <2>q, <2>m
    <2> QED
      BY <2>2, <2>q
  <1>3. \E M : r.outside \in Seq(M) /\ \A m \in M : m.ev \in {"note", "pay"}
    <2>1. /\ r.outside \in Seq({r.outside[i] : i \in DOMAIN r.outside})
          /\ \A i \in DOMAIN r.outside : r.outside[i].ev \in {"note", "pay"}
      BY RtAssumption
    <2>q. PICK q : q = r.outside
      OBVIOUS
    <2>m. PICK M : M = {q[i] : i \in DOMAIN q}
      OBVIOUS
    <2>2. q \in Seq(M) /\ \A m \in M : m.ev \in {"note", "pay"}
      BY <2>1, <2>q, <2>m
    <2> QED
      BY <2>2, <2>q
  <1>4. {"msgs", "topic", "outside"} \subseteq DOMAIN r /\ DOMAIN r.msgs = RtSocket
    BY RtAssumption
  <1>5. Len(r.topic) \in Nat
    <2>1. r.topic \in Seq({r.topic[i] : i \in DOMAIN r.topic})
      BY RtAssumption
    <2>q. PICK q, M : q = r.topic /\ M = {r.topic[i] : i \in DOMAIN r.topic}
      OBVIOUS
    <2>2. q \in Seq(M)
      BY <2>1, <2>q
    <2> QED
      BY <2>2, <2>q, LenProperties
  <1> QED
    BY <1>r, <1>2, <1>3, <1>4, <1>5 DEF RgRun

-----------------------------------------------------------------------------
(* Message handlers: commands and authorization *)

RgPc == {"auth", "rem1", "rem2", "validate", "claim", "ping", "done", "call", "add1", "add2", "throttle",
         "forward", "geo", "publish"}
RgRow(D) == [pc : RgPc, type : RgKind, delivery : D, id : D]
RgHTypes == \E D : rtH \in [RtSocket -> Seq(RgRow(D))]

\* The user of the socket may see the delivery.
RgAllowed(s, d) == RtRoleOf[RtUserOf[s]] = "admin" \/ <<RtUserOf[s], d>> \in RtParty

\* What the place of a handler says of its message.
RgHandlerOK(s, x) ==
    /\ x.pc = "validate" => x.type = "location"
    /\ x.pc \in {"claim", "forward"} => x.type = "command"
    /\ x.pc \in {"auth", "call"} => x.type \in {"subscribe", "location", "command"}
    /\ x.pc \in {"add1", "add2"} => RgAllowed(s, x.delivery) /\ x.type = "subscribe"
    /\ x.type = "subscribe" => x.delivery \in RtDelivery

RgHandlers == \A h \in Handlers : RgHandlerOK(h[1], RtM(h))

RgAccess ==
    /\ rtCache \subseteq RtParty
    /\ DOMAIN rtSubs = {"fwd", "back"} /\ \A p \in rtSubs.fwd : RgAllowed(p[1], p[2])
    /\ rtSubs.fwd \subseteq RtSocket \X RtDelivery /\ rtSubs.back \subseteq RtSocket \X RtDelivery

\* The handler has passed the claim for the command c.
RgPast == {"auth", "call", "forward"}
RgRuns(x, c) == x.type = "command" /\ x.id = c /\ x.pc \in RgPast

\* A command that was forwarded, or will be, has been claimed, by one handler.
RgCommand(c) ==
    /\ rtFwd[c] \in Nat
    /\ c \notin rtFaulted =>
         /\ rtFwd[c] \in {0, 1} /\ (rtFwd[c] = 1 => c \in rtClaim)
         /\ \A h \in Handlers : RgRuns(RtM(h), c) => rtFwd[c] = 0 /\ c \in rtClaim
         /\ \A g, h \in Handlers : RgRuns(RtM(g), c) /\ RgRuns(RtM(h), c) => g = h

RgCommands ==
    /\ rtFwd = [c \in DOMAIN rtFwd |-> rtFwd[c]]
    /\ \A c \in DOMAIN rtFwd : RgCommand(c)

RgHands == RgHTypes /\ RgHandlers /\ RgAccess /\ RgCommands

\* The row of a handler.
LEMMA RgHRow ==
    ASSUME RgHTypes, NEW h \in Handlers
    PROVE  /\ RtM(h).pc \in RgPc /\ RtM(h).type \in RgKind
           /\ h[1] \in RtSocket /\ h[2] \in DOMAIN rtH[h[1]] /\ h = <<h[1], h[2]>>
  <1>1. PICK D : rtH \in [RtSocket -> Seq(RgRow(D))]
    BY DEF RgHTypes
  <1>2. h[1] \in RtSocket /\ h[2] \in DOMAIN rtH[h[1]] /\ h = <<h[1], h[2]>>
    BY RgHandlerSocket
  <1>q. PICK q : q = rtH[h[1]]
    OBVIOUS
  <1>3. q \in Seq(RgRow(D)) /\ h[2] \in 1..Len(q)
    BY <1>1, <1>2, <1>q, LenProperties
  <1>4. q[h[2]] \in RgRow(D)
    BY <1>3, ElementOfSeq
  <1> QED
    BY <1>2, <1>4, <1>q DEF RtM, RgRow

\* One handler moves on.
LEMMA RgGoto ==
    ASSUME RgHTypes, NEW h \in Handlers, NEW x \in RgPc, RtHGoto(h, x)
    PROVE  /\ RgHTypes' /\ Handlers' = Handlers
           /\ RtM(h)'.pc = x /\ RtM(h)'.type = RtM(h).type
           /\ RtM(h)'.delivery = RtM(h).delivery /\ RtM(h)'.id = RtM(h).id
           /\ \A g \in Handlers \ {h} : RtM(g)' = RtM(g)
  <1>1. PICK D : rtH \in [RtSocket -> Seq(RgRow(D))]
    BY DEF RgHTypes
  <1>s. PICK s, i : s = h[1] /\ i = h[2]
    OBVIOUS
  <1>2. s \in RtSocket /\ i \in DOMAIN rtH[s] /\ h = <<s, i>>
    BY <1>s, RgHandlerSocket
  <1>q. PICK q : q = rtH[s]
    OBVIOUS
  <1>3. q \in Seq(RgRow(D)) /\ i \in 1..Len(q)
    BY <1>1, <1>2, <1>q, LenProperties
  <1>4. q[i] \in RgRow(D)
    BY <1>3, ElementOfSeq
  <1>r. PICK r : r = [q[i] EXCEPT !.pc = x]
    OBVIOUS
  <1>5. r \in RgRow(D) /\ r.pc = x /\ r.type = q[i].type /\ r.delivery = q[i].delivery /\ r.id = q[i].id
    BY <1>4, <1>r DEF RgRow
  <1>p. PICK p : p = [q EXCEPT ![i] = r]
    OBVIOUS
  <1>6. /\ p \in Seq(RgRow(D)) /\ Len(p) = Len(q) /\ p[i] = r
        /\ \A j \in 1..Len(q) \ {i} : p[j] = q[j]
    BY <1>3, <1>5, <1>p, ExceptSeq
  <1>7. DOMAIN p = DOMAIN q
    BY <1>p
  <1>8. rtH' = [rtH EXCEPT ![s] = p]
    BY <1>s, <1>q, <1>r, <1>p DEF RtHGoto
  <1>9. rtH' \in [RtSocket -> Seq(RgRow(D))] /\ rtH'[s] = p /\ \A t \in RtSocket \ {s} : rtH'[t] = rtH[t]
    BY <1>1, <1>2, <1>6, <1>8
  <1>10. Handlers' = Handlers
    <2>1. \A t \in RtSocket : DOMAIN rtH'[t] = DOMAIN rtH[t]
      BY <1>7, <1>9, <1>q
    <2> QED
      BY <2>1 DEF Handlers
  <1>11. RtM(h) = q[i] /\ RtM(h)' = r
    BY <1>s, <1>q, <1>6, <1>9 DEF RtM
  <1>12. ASSUME NEW g \in Handlers \ {h} PROVE RtM(g)' = RtM(g)
    <2>1. g[1] \in RtSocket /\ g[2] \in DOMAIN rtH[g[1]] /\ g = <<g[1], g[2]>>
      BY RgHandlerSocket
    <2>2. CASE g[1] /= s
      BY <2>1, <2>2, <1>9 DEF RtM
    <2>3. CASE g[1] = s
      <3>1. g[2] /= i /\ g[2] \in DOMAIN q
        BY <2>1, <2>3, <1>2, <1>q
      <3>2. p[g[2]] = q[g[2]]
        BY <3>1, <1>p
      <3> QED
        BY <3>2, <2>3, <1>9, <1>q DEF RtM
    <2> QED
      BY <2>2, <2>3
  <1> QED
    BY <1>5, <1>9, <1>10, <1>11, <1>12 DEF RgHTypes

\* What a step of a handler may do.
RgMoves(h, x) ==
    /\ RtHGoto(h, x) /\ x \in RgPc /\ x \notin {"validate", "claim"}
    /\ x = "forward" => RtM(h).type = "command"
    /\ x \in {"auth", "call"} => RtM(h).type \in {"subscribe", "location", "command"}
    /\ x \in {"add1", "add2"} => RgAllowed(h[1], RtM(h).delivery) /\ RtM(h).type = "subscribe"
    /\ rtClaim \subseteq rtClaim' /\ rtFaulted \subseteq rtFaulted'
    /\ \/ /\ UNCHANGED rtFwd
          /\ RtM(h).type = "command" /\ x \in RgPast =>
               \/ RtM(h).pc \in RgPast
               \/ RtM(h).id \notin rtClaim /\ RtM(h).id \in rtClaim'
               \/ RtM(h).id \in rtFaulted'
       \/ /\ RtM(h).pc = "forward" /\ x = "done"
          /\ rtFwd' = [rtFwd EXCEPT ![RtM(h).id] = @ + 1]

LEMMA RgMoveHandlers ==
    ASSUME RgHTypes, RgHandlers, NEW h \in Handlers, NEW x, RgMoves(h, x)
    PROVE  RgHTypes' /\ RgHandlers'
  <1>1. x \in RgPc /\ RtHGoto(h, x)
    BY DEF RgMoves
  <1>2. /\ RgHTypes' /\ Handlers' = Handlers
        /\ RtM(h)'.pc = x /\ RtM(h)'.type = RtM(h).type /\ RtM(h)'.delivery = RtM(h).delivery
        /\ \A g \in Handlers \ {h} : RtM(g)' = RtM(g)
    BY <1>1, RgGoto
  <1>3. PICK y : y = RtM(h)'
    OBVIOUS
  <1>a. PICK a : a = RtM(h)
    OBVIOUS
  <1>b. RgHandlerOK(h[1], a)
    BY <1>a DEF RgHandlers
  <1>4. RgHandlerOK(h[1], y)
    BY <1>2, <1>3, <1>a, <1>b DEF RgMoves, RgHandlerOK
  <1>5. \A g \in Handlers : RgHandlerOK(g[1], RtM(g)')
    BY <1>2, <1>3, <1>4 DEF RgHandlers
  <1>6. \A g \in Handlers' : RgHandlerOK(g[1], RtM(g))'
    BY <1>2, <1>5 DEF RgHandlerOK, RgAllowed
  <1> QED
    BY <1>2, <1>6 DEF RgHandlers

LEMMA RgMoveCommands ==
    ASSUME RgHTypes, RgHandlers, RgCommands, NEW h \in Handlers, NEW x, RgMoves(h, x)
    PROVE  RgCommands'
  <1>1. x \in RgPc /\ RtHGoto(h, x) /\ rtClaim \subseteq rtClaim' /\ rtFaulted \subseteq rtFaulted'
    BY DEF RgMoves
  <1>2. /\ Handlers' = Handlers
        /\ RtM(h)'.pc = x /\ RtM(h)'.type = RtM(h).type /\ RtM(h)'.id = RtM(h).id
        /\ \A g \in Handlers \ {h} : RtM(g)' = RtM(g)
    BY <1>1, RgGoto
  <1>a. PICK a, b : a = RtM(h) /\ b = RtM(h)'
    OBVIOUS
  <1>b. b.pc = x /\ b.type = a.type /\ b.id = a.id
    BY <1>2, <1>a
  <1>3. DOMAIN rtFwd' = DOMAIN rtFwd /\ rtFwd' = [c \in DOMAIN rtFwd |-> rtFwd'[c]]
    BY DEF RgMoves, RgCommands
  <1>4. ASSUME NEW c \in DOMAIN rtFwd
        PROVE  /\ rtFwd'[c] \in Nat
               /\ c \notin rtFaulted' =>
                    /\ rtFwd'[c] \in {0, 1} /\ (rtFwd'[c] = 1 => c \in rtClaim')
                    /\ \A g \in Handlers : RgRuns(RtM(g)', c) => rtFwd'[c] = 0 /\ c \in rtClaim'
                    /\ \A f, g \in Handlers : RgRuns(RtM(f)', c) /\ RgRuns(RtM(g)', c) => f = g
    <2>1. RgCommand(c)
      BY <1>4 DEF RgCommands
    <2>2. CASE UNCHANGED rtFwd /\ (RgRuns(b, c) => RgRuns(a, c))
      <3>1. \A g \in Handlers : RgRuns(RtM(g)', c) => RgRuns(RtM(g), c)
        BY <2>2, <1>2, <1>a
      <3> QED
        BY <2>1, <2>2, <3>1, <1>1 DEF RgCommand
    <2>3. CASE UNCHANGED rtFwd /\ RgRuns(b, c) /\ ~RgRuns(a, c)
      <3>1. (c \notin rtClaim /\ c \in rtClaim') \/ c \in rtFaulted'
        BY <2>3, <1>a, <1>b DEF RgMoves, RgRuns, RgPast
      <3>2. CASE c \in rtFaulted'
        BY <3>2, <2>1, <2>3 DEF RgCommand
      <3>3. CASE c \notin rtFaulted' /\ c \notin rtClaim /\ c \in rtClaim'
        <4>1. c \notin rtFaulted /\ rtFwd[c] = 0
          BY <3>3, <1>1, <2>1 DEF RgCommand
        <4>2. \A g \in Handlers : ~RgRuns(RtM(g), c)
          BY <3>3, <4>1, <2>1 DEF RgCommand
        <4>3. \A g \in Handlers : RgRuns(RtM(g)', c) => g = h
          BY <4>2, <1>2
        <4> QED
          BY <3>3, <4>1, <4>3, <2>3
      <3> QED
        BY <3>1, <3>2, <3>3
    <2>4. CASE /\ RtM(h).pc = "forward" /\ x = "done"
               /\ rtFwd' = [rtFwd EXCEPT ![RtM(h).id] = @ + 1]
      <3>0. a.pc = "forward" /\ x = "done" /\ rtFwd' = [rtFwd EXCEPT ![a.id] = @ + 1]
        BY <2>4, <1>a
      <3>1. ~RgRuns(b, c) /\ a.type = "command"
        BY <3>0, <1>a, <1>b DEF RgRuns, RgPast, RgHandlers, RgHandlerOK
      <3>2. CASE a.id /= c
        <4>1. rtFwd'[c] = rtFwd[c]
          BY <3>0, <3>2
        <4>2. \A g \in Handlers : RgRuns(RtM(g)', c) => RgRuns(RtM(g), c)
          BY <3>1, <1>2, <1>a
        <4> QED
          BY <4>1, <4>2, <2>1, <1>1 DEF RgCommand
      <3>3. CASE a.id = c
        <4>1. RgRuns(a, c)
          BY <3>0, <3>1, <3>3 DEF RgRuns, RgPast
        <4>2. rtFwd[c] \in Nat /\ rtFwd'[c] = rtFwd[c] + 1
          BY <3>0, <3>3, <2>1 DEF RgCommand
        <4>3. CASE c \in rtFaulted'
          BY <4>2, <4>3
        <4>4. CASE c \notin rtFaulted'
          <5>1. c \notin rtFaulted
            BY <4>4, <1>1
          <5>2. rtFwd[c] = 0 /\ c \in rtClaim
            BY <5>1, <4>1, <1>a, <2>1 DEF RgCommand
          <5>3. \A g \in Handlers : RgRuns(RtM(g), c) => g = h
            BY <5>1, <4>1, <1>a, <2>1 DEF RgCommand
          <5>4. \A g \in Handlers : ~RgRuns(RtM(g)', c)
            BY <5>3, <3>1, <1>2, <1>a
          <5>5. rtFwd'[c] = 1
            BY <5>2, <4>2
          <5> QED
            BY <5>2, <5>4, <5>5, <1>1
        <4> QED
          BY <4>3, <4>4
      <3> QED
        BY <3>2, <3>3
    <2> QED
      BY <2>2, <2>3, <2>4 DEF RgMoves
  <1>5. \A c \in DOMAIN rtFwd : RgCommand(c)'
    BY <1>2, <1>4 DEF RgCommand, RgRuns
  <1> QED
    BY <1>3, <1>5 DEF RgCommands

\* A message gets a handler of its own, or closes a socket that is not attached.
LEMMA RgNewHandler ==
    ASSUME RgHTypes, RgHandlers, RgCommands, RgRun, NEW s \in RtSocket, RouteMessage(s),
           UNCHANGED <<rtClaim, rtFwd, rtFaulted>>
    PROVE  RgHTypes' /\ RgHandlers' /\ RgCommands'
  <1>m. PICK m : m = Head(rtRun.msgs[s])
    OBVIOUS
  <1>1. m.type \in RgKind /\ (m.type = "subscribe" => m.delivery \in RtDelivery)
    BY <1>m, RgRoute DEF RgMessage
  <1>r. PICK r : r = [pc |-> RtFirst[m.type], type |-> m.type, delivery |-> m.delivery, id |-> m.id]
    OBVIOUS
  <1>2. r.pc \in RgPc /\ r.type \in RgKind /\ ~(r.type = "command" /\ r.pc \in RgPast)
        /\ RgHandlerOK(s, r) /\ r \in [pc : RgPc, type : RgKind, delivery : {m.delivery}, id : {m.id}]
    BY <1>1, <1>r DEF RtFirst, RgKind, RgPc, RgPast, RgHandlerOK
  <1>3. CASE UNCHANGED rtH
    <2>1. Handlers' = Handlers /\ \A h \in Handlers : RtM(h)' = RtM(h)
      BY <1>3 DEF Handlers, RtM
    <2>2. \A c \in DOMAIN rtFwd : RgCommand(c)'
      BY <2>1 DEF RgCommands, RgCommand
    <2> QED
      BY <1>3, <2>1, <2>2 DEF RgHTypes, RgHandlers, RgHandlerOK, RgAllowed, RgCommands
  <1>4. CASE rtH' = [rtH EXCEPT ![s] = Append(rtH[s], r)]
    <2>1. PICK D : rtH \in [RtSocket -> Seq(RgRow(D))]
      BY DEF RgHTypes
    <2>e. PICK E : E = D \cup {m.delivery, m.id}
      OBVIOUS
    <2>2. RgRow(D) \subseteq RgRow(E) /\ r \in RgRow(E)
      BY <1>2, <2>e DEF RgRow
    <2>q. PICK q : q = rtH[s]
      OBVIOUS
    <2>3. \A t \in RtSocket : rtH[t] \in Seq(RgRow(E))
      BY <2>1, <2>2, SeqMonotonic
    <2>p. PICK p : p = Append(q, r)
      OBVIOUS
    <2>4. /\ p \in Seq(RgRow(E)) /\ Len(p) = Len(q) + 1 /\ p[Len(q) + 1] = r
          /\ \A j \in 1..Len(q) : p[j] = q[j]
      BY <2>2, <2>3, <2>q, <2>p, AppendProperties
    <2>5. Len(q) \in Nat /\ DOMAIN q = 1..Len(q) /\ DOMAIN p = 1..Len(q) + 1
      BY <2>3, <2>4, <2>q, LenProperties
    <2>6. rtH' = [t \in RtSocket |-> rtH'[t]] /\ rtH'[s] = p /\ \A t \in RtSocket \ {s} : rtH'[t] = rtH[t]
      BY <1>4, <2>1, <2>q, <2>p
    <2>7. RgHTypes'
      <3>1. \A t \in RtSocket : rtH'[t] \in Seq(RgRow(E))
        BY <2>3, <2>4, <2>6
      <3>2. rtH' \in [RtSocket -> Seq(RgRow(E))]
        BY <3>1, <2>6
      <3> QED
        BY <3>2 DEF RgHTypes
    <2>8. ASSUME NEW h \in Handlers' PROVE (h \in Handlers /\ RtM(h)' = RtM(h)) \/ (h[1] = s /\ RtM(h)' = r)
      <3>1. h[1] \in RtSocket /\ h[2] \in DOMAIN rtH'[h[1]] /\ h = <<h[1], h[2]>>
        BY DEF Handlers
      <3>2. CASE h[1] /= s
        <4>1. rtH'[h[1]] = rtH[h[1]]
          BY <3>1, <3>2, <2>6
        <4> QED
          BY <3>1, <4>1 DEF Handlers, RtM
      <3>3. CASE h[1] = s /\ h[2] = Len(q) + 1
        BY <3>3, <2>4, <2>6 DEF RtM
      <3>4. CASE h[1] = s /\ h[2] /= Len(q) + 1
        <4>1. h[2] \in 1..Len(q)
          BY <3>1, <3>4, <2>5, <2>6
        <4>2. p[h[2]] = q[h[2]] /\ h[2] \in DOMAIN rtH[s]
          BY <4>1, <2>4, <2>5, <2>q
        <4>3. h \in Handlers
          BY <3>1, <3>4, <4>2 DEF Handlers
        <4> QED
          BY <4>2, <4>3, <3>4, <2>6, <2>q DEF RtM
      <3> QED
        BY <3>2, <3>3, <3>4
    <2>9. RgHandlers'
      <3>1. \A h \in Handlers' : RgHandlerOK(h[1], RtM(h)')
        BY <2>8, <1>2 DEF RgHandlers
      <3> QED
        BY <3>1 DEF RgHandlers, RgHandlerOK, RgAllowed
    <2>10. \A c \in DOMAIN rtFwd : \A h \in Handlers' : RgRuns(RtM(h)', c) => h \in Handlers /\ RgRuns(RtM(h), c)
      BY <2>8, <1>2 DEF RgRuns
    <2>11. \A c \in DOMAIN rtFwd : RgCommand(c)'
      <3> SUFFICES ASSUME NEW c \in DOMAIN rtFwd PROVE RgCommand(c)'
        OBVIOUS
      <3>1. RgCommand(c)
        BY DEF RgCommands
      <3>2. \A h \in Handlers' : RgRuns(RtM(h), c)' => h \in Handlers /\ RgRuns(RtM(h), c)
        BY <2>10 DEF RgRuns
      <3> QED
        BY <3>1, <3>2 DEF RgCommand
    <2> QED
      BY <2>7, <2>9, <2>11 DEF RgCommands
  <1> QED
    BY <1>3, <1>4, <1>m, <1>r DEF RouteMessage

\* Every step of a handler is such a move, and nobody who may not see a delivery follows it.
LEMMA RgGuardedMoves ==
    ASSUME RgHTypes, RgHandlers, RgAccess, NEW h \in Handlers,
           \/ RateLimitStep(h) \/ HandlePing(h) \/ ValidateLocation(h)
           \/ HandleSubscribe(h) \/ HandleLocationUpdate(h) \/ HandleCommand(h)
           \/ CircuitRefuses(h) \/ IsParty(h) \/ InvokeFails(h) \/ Throttle(h),
           UNCHANGED <<rtClaim, rtSubs, rtFwd, rtFaulted>>
    PROVE  RgAccess' /\ \E x : RgMoves(h, x)
  <1>a. PICK a : a = RtM(h)
    OBVIOUS
  <1>1. a.pc \in RgPc /\ a.type \in RgKind /\ RgHandlerOK(h[1], a) /\ h[1] \in RtSocket
    BY <1>a, RgHRow DEF RgHandlers
  <1>2. RtHGoto(h, "done") => RgMoves(h, "done")
    BY DEF RgMoves, RgPc, RgPast
  <1>3. UNCHANGED rtCache => RgAccess'
    BY DEF RgAccess, RgAllowed
  <1>4. CASE RateLimitStep(h) \/ HandlePing(h) \/ CircuitRefuses(h) \/ InvokeFails(h)
    BY <1>4, <1>2, <1>3 DEF RateLimitStep, HandlePing, CircuitRefuses, InvokeFails, Catch
  <1>5. CASE ValidateLocation(h)
    <2>1. a.type = "location" /\ UNCHANGED rtCache /\ (RtHGoto(h, "done") \/ RtHGoto(h, "auth"))
      BY <1>5, <1>1, <1>a DEF ValidateLocation, RtHAt, RgHandlerOK
    <2>2. RtHGoto(h, "auth") => RgMoves(h, "auth")
      BY <2>1, <1>a DEF RgMoves, RgPc, RgPast
    <2> QED
      BY <2>1, <2>2, <1>2, <1>3
  <1>6. ASSUME a.pc \in {"auth", "call"}, RgAllowed(h[1], a.delivery), RtHGoto(h, RtGranted[a.type])
        PROVE  \E x : RgMoves(h, x)
    <2>1. a.type \in {"subscribe", "location", "command"}
      BY <1>6, <1>1 DEF RgHandlerOK
    <2>x. PICK x : x = RtGranted[a.type]
      OBVIOUS
    <2>2. /\ x \in {"add1", "throttle", "forward"}
          /\ (x = "forward" => a.type = "command") /\ (x = "add1" => a.type = "subscribe")
      BY <2>1, <2>x DEF RtGranted
    <2>3. RgMoves(h, x)
      BY <2>2, <2>x, <1>6, <1>a DEF RgMoves, RgPc, RgPast
    <2> QED
      BY <2>3
  <1>7. CASE Authorize(h)
    <2>1. a.pc = "auth" /\ a.type \in {"subscribe", "location", "command"} /\ UNCHANGED rtCache
      BY <1>7, <1>1, <1>a DEF Authorize, RtHAt, RgHandlerOK
    <2>2. RtHGoto(h, "call") => RgMoves(h, "call")
      BY <2>1, <1>a DEF RgMoves, RgPc, RgPast
    <2>3. RtAdmitted(h) \/ <<RtU(h), a.delivery>> \in rtCache => RgAllowed(h[1], a.delivery)
      BY DEF RtAdmitted, RgAllowed, RtU, RgAccess
    <2>4. \/ RtHGoto(h, "done") \/ RtHGoto(h, "call")
          \/ RgAllowed(h[1], a.delivery) /\ RtHGoto(h, RtGranted[a.type])
      BY <1>7, <2>3, <1>a DEF Authorize, Catch
    <2> QED
      BY <2>1, <2>2, <2>4, <1>2, <1>3, <1>6
  <1>8. CASE IsParty(h)
    <2>1. a.pc = "call"
      BY <1>8, <1>a DEF IsParty, RtHAt
    <2>2. \/ RtHGoto(h, "done") /\ UNCHANGED rtCache
          \/ /\ <<RtU(h), a.delivery>> \in RtParty /\ RtHGoto(h, RtGranted[a.type])
             /\ rtCache' = rtCache \cup {<<RtU(h), a.delivery>>}
      BY <1>8, <1>a DEF IsParty, Catch
    <2>3. CASE /\ <<RtU(h), a.delivery>> \in RtParty /\ RtHGoto(h, RtGranted[a.type])
               /\ rtCache' = rtCache \cup {<<RtU(h), a.delivery>>}
      <3>1. RgAllowed(h[1], a.delivery)
        BY <2>3 DEF RgAllowed, RtU
      <3>2. RgAccess'
        BY <2>3 DEF RgAccess, RgAllowed
      <3> QED
        BY <2>1, <2>3, <3>1, <3>2, <1>6
    <2> QED
      BY <2>2, <2>3, <1>2, <1>3
  <1>9. CASE Throttle(h)
    <2>1. RtHGoto(h, "geo") => RgMoves(h, "geo")
      BY DEF RgMoves, RgPc, RgPast
    <2> QED
      BY <2>1, <1>9, <1>2, <1>3 DEF Throttle
  <1> QED
    BY <1>4, <1>5, <1>7, <1>8, <1>9 DEF HandleSubscribe, HandleLocationUpdate, HandleCommand

LEMMA RgOpenMoves ==
    ASSUME RgHTypes, RgHandlers, RgAccess, NEW h \in Handlers,
           \/ Claim(h) \/ ClaimFails(h) \/ AddSubscriber(h) \/ RemoveSubscriber(h)
           \/ GeoAdd(h) \/ PublishLocation(h) \/ Forward(h),
           UNCHANGED rtCache
    PROVE  RgAccess' /\ \E x : RgMoves(h, x)
  <1>a. PICK a : a = RtM(h)
    OBVIOUS
  <1>1. a.pc \in RgPc /\ a.type \in RgKind /\ RgHandlerOK(h[1], a) /\ h[1] \in RtSocket
    BY <1>a, RgHRow DEF RgHandlers
  <1>2. UNCHANGED <<rtClaim, rtFwd, rtFaulted>> /\ RtHGoto(h, "done") => RgMoves(h, "done")
    BY DEF RgMoves, RgPc, RgPast
  <1>3. UNCHANGED rtSubs => RgAccess'
    BY DEF RgAccess, RgAllowed
  <1>4. CASE Claim(h)
    <2>1. /\ a.type = "command" /\ rtClaim' = rtClaim \cup {a.id} /\ UNCHANGED <<rtFwd, rtSubs, rtFaulted>>
          /\ RtHGoto(h, "done") \/ (RtHGoto(h, "auth") /\ a.id \notin rtClaim)
      BY <1>4, <1>1, <1>a DEF Claim, RtHAt, RgHandlerOK
    <2>2. RtHGoto(h, "done") => RgMoves(h, "done")
      BY <2>1 DEF RgMoves, RgPc, RgPast
    <2>3. RtHGoto(h, "auth") /\ a.id \notin rtClaim => RgMoves(h, "auth")
      BY <2>1, <1>a DEF RgMoves, RgPc, RgPast
    <2> QED
      BY <2>1, <2>2, <2>3, <1>3
  <1>5. CASE ClaimFails(h)
    <2>1. /\ a.type = "command" /\ rtFaulted' = rtFaulted \cup {a.id} /\ UNCHANGED <<rtFwd, rtSubs, rtClaim>>
          /\ RtHGoto(h, "auth")
      BY <1>5, <1>1, <1>a DEF ClaimFails, RtHAt, RgHandlerOK
    <2>2. RgMoves(h, "auth")
      BY <2>1, <1>a DEF RgMoves, RgPc, RgPast
    <2> QED
      BY <2>1, <2>2, <1>3
  <1>6. CASE AddSubscriber(h)
    <2>1. UNCHANGED <<rtClaim, rtFwd, rtFaulted>>
      BY <1>6 DEF AddSubscriber
    <2>2. CASE /\ RtHAt(h, "add1") /\ RtHGoto(h, "add2")
               /\ rtSubs' = [rtSubs EXCEPT !.fwd = @ \cup {RtPair(h)}]
      <3>1. RgAllowed(h[1], a.delivery) /\ a.type = "subscribe" /\ a.delivery \in RtDelivery
        BY <2>2, <1>1, <1>a DEF RtHAt, RgHandlerOK
      <3>2. RgMoves(h, "add2")
        BY <2>1, <2>2, <3>1, <1>a DEF RgMoves, RgPc, RgPast
      <3>p. PICK p : p = <<h[1], a.delivery>>
        OBVIOUS
      <3>3. /\ rtSubs' = [rtSubs EXCEPT !.fwd = @ \cup {p}] /\ RgAllowed(p[1], p[2])
            /\ p \in RtSocket \X RtDelivery
        BY <2>2, <3>1, <3>p, <1>1, <1>a DEF RtPair
      <3>4. /\ DOMAIN rtSubs' = {"fwd", "back"} /\ rtSubs'.fwd = rtSubs.fwd \cup {p}
            /\ rtSubs'.back = rtSubs.back
        BY <3>3 DEF RgAccess
      <3>5. \A y \in rtSubs'.fwd : RgAllowed(y[1], y[2])
        BY <3>3, <3>4 DEF RgAccess
      <3> QED
        BY <3>2, <3>3, <3>4, <3>5 DEF RgAccess, RgAllowed
    <2>3. CASE /\ RtHAt(h, "add2") /\ RtHGoto(h, "done")
               /\ rtSubs' = [rtSubs EXCEPT !.back = @ \cup {RtPair(h)}]
      <3>p. PICK p : p = <<h[1], a.delivery>>
        OBVIOUS
      <3>1. rtSubs' = [rtSubs EXCEPT !.back = @ \cup {p}] /\ p \in RtSocket \X RtDelivery
        BY <2>3, <3>p, <1>1, <1>a DEF RtPair, RtHAt, RgHandlerOK
      <3>2. /\ DOMAIN rtSubs' = {"fwd", "back"} /\ rtSubs'.fwd = rtSubs.fwd
            /\ rtSubs'.back = rtSubs.back \cup {p}
        BY <3>1 DEF RgAccess
      <3> QED
        BY <2>1, <2>3, <3>1, <3>2, <1>2 DEF RgAccess, RgAllowed
    <2> QED
      BY <1>6, <2>2, <2>3 DEF AddSubscriber
  <1>7. CASE RemoveSubscriber(h)
    <2>1. UNCHANGED <<rtClaim, rtFwd, rtFaulted>> /\ (RtHGoto(h, "rem2") \/ RtHGoto(h, "done"))
      BY <1>7 DEF RemoveSubscriber
    <2>2. RtHGoto(h, "rem2") => RgMoves(h, "rem2")
      BY <2>1 DEF RgMoves, RgPc, RgPast
    <2>3. /\ DOMAIN rtSubs' = {"fwd", "back"} /\ rtSubs'.fwd \subseteq rtSubs.fwd
          /\ rtSubs'.back \subseteq rtSubs.back
      BY <1>7 DEF RemoveSubscriber, RgAccess
    <2> QED
      BY <2>1, <2>2, <2>3, <1>2 DEF RgAccess, RgAllowed
  <1>8. CASE GeoAdd(h)
    <2>1. RtHGoto(h, "publish") /\ UNCHANGED <<rtClaim, rtSubs, rtFwd, rtFaulted>>
      BY <1>8 DEF GeoAdd
    <2>2. RgMoves(h, "publish")
      BY <2>1 DEF RgMoves, RgPc, RgPast
    <2> QED
      BY <2>1, <2>2, <1>3
  <1>9. CASE PublishLocation(h)
    BY <1>9, <1>2, <1>3 DEF PublishLocation
  <1>10. CASE Forward(h)
    <2>1. /\ a.pc = "forward" /\ RtHGoto(h, "done") /\ UNCHANGED <<rtClaim, rtSubs, rtFaulted>>
          /\ UNCHANGED rtFwd \/ rtFwd' = [rtFwd EXCEPT ![RtM(h).id] = @ + 1]
      BY <1>10, <1>a DEF Forward, RtHAt
    <2>2. rtFwd' = [rtFwd EXCEPT ![RtM(h).id] = @ + 1] => RgMoves(h, "done")
      BY <2>1, <1>a DEF RgMoves, RgPc, RgPast
    <2> QED
      BY <2>1, <2>2, <1>2, <1>3
  <1> QED
    BY <1>4, <1>5, <1>6, <1>7, <1>8, <1>9, <1>10

\* The steps of the others take handlers and followers away at most.
LEMMA RgHandsQuiet ==
    ASSUME RgHands, RgHTypes', Handlers' \subseteq Handlers, \A h \in Handlers' : RtM(h)' = RtM(h),
           UNCHANGED <<rtClaim, rtFwd, rtCache>>, rtFaulted \subseteq rtFaulted',
           DOMAIN rtSubs' = {"fwd", "back"}, rtSubs'.fwd \subseteq rtSubs.fwd,
           rtSubs'.back \subseteq rtSubs.back
    PROVE  RgHands'
  <1>1. RgHandlers'
    <2>1. \A h \in Handlers' : RgHandlerOK(h[1], RtM(h)')
      BY DEF RgHands, RgHandlers
    <2> QED
      BY <2>1 DEF RgHandlers, RgHandlerOK, RgAllowed
  <1>2. RgAccess'
    BY DEF RgHands, RgAccess, RgAllowed
  <1>3. ASSUME NEW c \in DOMAIN rtFwd PROVE RgCommand(c)'
    <2>1. RgCommand(c)
      BY DEF RgHands, RgCommands
    <2>2. \A h \in Handlers' : RgRuns(RtM(h), c)' => RgRuns(RtM(h), c)
      BY DEF RgRuns
    <2> QED
      BY <2>1, <2>2 DEF RgCommand
  <1>4. RgCommands'
    BY <1>3 DEF RgHands, RgCommands
  <1> QED
    BY <1>1, <1>2, <1>4 DEF RgHands

LEMMA RgHandsInit == RtInit => RgHands
  <1> SUFFICES ASSUME RtInit PROVE RgHands
    OBVIOUS
  <1>1. rtH = [s \in RtSocket |-> <<>>]
    BY DEF RtInit
  <1>2. rtH \in [RtSocket -> Seq(RgRow({}))]
    BY <1>1
  <1>3. Handlers = {}
    BY <1>1 DEF Handlers
  <1>4. rtFwd = [c \in rtRun.ids |-> 0] /\ rtCache = {} /\ rtSubs = [fwd |-> {}, back |-> {}]
    BY DEF RtInit
  <1>5. RgCommands
    BY <1>3, <1>4 DEF RgCommands, RgCommand
  <1> QED
    BY <1>2, <1>3, <1>4, <1>5 DEF RgHands, RgHTypes, RgHandlers, RgAccess

LEMMA RgHandsStep == RgHands /\ RgRun /\ [RtNext]_rtVars => RgHands'
  <1> SUFFICES ASSUME RgHands, RgRun, [RtNext]_rtVars PROVE RgHands'
    OBVIOUS
  <1>0. ASSUME UNCHANGED <<rtH, rtClaim, rtFwd, rtCache>>, rtFaulted \subseteq rtFaulted',
               DOMAIN rtSubs' = {"fwd", "back"}, rtSubs'.fwd \subseteq rtSubs.fwd,
               rtSubs'.back \subseteq rtSubs.back
        PROVE  RgHands'
    <2>1. RgHTypes' /\ Handlers' = Handlers /\ \A h \in Handlers : RtM(h)' = RtM(h)
      BY <1>0 DEF RgHands, RgHTypes, Handlers, RtM
    <2> QED
      BY <1>0, <2>1, RgHandsQuiet
  <1>a. DOMAIN rtSubs = {"fwd", "back"}
    BY DEF RgHands, RgAccess
  <1>1. CASE UNCHANGED rtVars
    BY <1>0, <1>1, <1>a DEF rtVars, rtHandVars
  <1>2. ASSUME NEW s \in RtSocket, RtConnect(s) \/ RtStore(s) \/ RtPresence(s) PROVE RgHands'
    <2>1. CASE RtConnect(s) \/ RtPresence(s)
      BY <1>0, <1>a, <2>1 DEF RtConnect, RtPresence, rtHandVars
    <2>2. CASE RtStore(s)
      <3>1. UNCHANGED <<rtH, rtClaim, rtFwd, rtCache>> /\ rtFaulted \subseteq rtFaulted'
        BY <2>2 DEF RtStore, Attach, StoreRegister, StoreRegisterFails, CleanupSocket, StoreUnregister,
                    RegistryRemove
      <3>2. \/ UNCHANGED rtSubs
            \/ rtSubs' = [fwd  |-> rtSubs.fwd \ {p \in rtSubs.back : p[1] = s},
                          back |-> {p \in rtSubs.back : p[1] # s}]
        BY <2>2 DEF RtStore, Attach, StoreRegister, StoreRegisterFails, CleanupSocket, StoreUnregister,
                    RegistryRemove
      <3>3. /\ DOMAIN rtSubs' = {"fwd", "back"} /\ rtSubs'.fwd \subseteq rtSubs.fwd
            /\ rtSubs'.back \subseteq rtSubs.back
        BY <3>2, <1>a
      <3> QED
        BY <3>1, <3>3, <1>0
    <2> QED
      BY <1>2, <2>1, <2>2
  <1>3. CASE RtHandle
    <2>1. ASSUME NEW h \in Handlers, RgAccess', \E x : RgMoves(h, x) PROVE RgHands'
      <3>1. PICK x : RgMoves(h, x)
        BY <2>1
      <3> QED
        BY <2>1, <3>1, RgMoveHandlers, RgMoveCommands DEF RgHands
    <2>2. CASE RtGuarded
      <3>1. UNCHANGED <<rtClaim, rtSubs, rtFwd, rtFaulted>>
        BY <2>2 DEF RtGuarded
      <3>2. ASSUME NEW s \in RtSocket, RouteMessage(s) PROVE RgHands'
        <4>1. RgHTypes' /\ RgHandlers' /\ RgCommands'
          BY <3>1, <3>2, RgNewHandler DEF RgHands
        <4>2. RgAccess'
          BY <3>1, <3>2 DEF RouteMessage, RgHands, RgAccess, RgAllowed
        <4> QED
          BY <4>1, <4>2 DEF RgHands
      <3>3. ASSUME NEW h \in Handlers,
                   \/ RateLimitStep(h) \/ HandlePing(h) \/ ValidateLocation(h)
                   \/ HandleSubscribe(h) \/ HandleLocationUpdate(h) \/ HandleCommand(h)
                   \/ CircuitRefuses(h) \/ IsParty(h) \/ InvokeFails(h) \/ Throttle(h)
            PROVE  RgHands'
        BY <3>1, <3>3, <2>1, RgGuardedMoves DEF RgHands
      <3> QED
        BY <2>2, <3>2, <3>3 DEF RtGuarded
    <2>3. ASSUME NEW h \in Handlers,
                 \/ Claim(h) \/ ClaimFails(h) \/ AddSubscriber(h) \/ RemoveSubscriber(h)
                 \/ GeoAdd(h) \/ PublishLocation(h) \/ Forward(h),
                 UNCHANGED rtCache
          PROVE  RgHands'
      BY <2>3, <2>1, RgOpenMoves DEF RgHands
    <2> QED
      BY <1>3, <2>2, <2>3 DEF RtHandle
  <1>4. CASE RtBus
    <2>1. UNCHANGED rtHandVars /\ rtFaulted \subseteq rtFaulted'
      BY <1>4 DEF RtBus, RtEachMessage, RtDedup, RtDedupFails, RtPublish, RouteToDlq, RtCommit,
                  NatsHandleMessage, BroadcastEvent, Outside
    <2> QED
      BY <2>1, <1>0, <1>a DEF rtHandVars
  <1>5. ASSUME NEW n \in RtNode, RtCrash(n) PROVE RgHands'
    <2>1. PICK D : rtH \in [RtSocket -> Seq(RgRow(D))]
      BY DEF RgHands, RgHTypes
    <2>2. rtH' = [s \in RtSocket |-> IF RtNodeOf[s] = n THEN <<>> ELSE rtH[s]]
      BY <1>5 DEF RtCrash
    <2>3. \A s \in RtSocket : rtH'[s] = <<>> \/ rtH'[s] = rtH[s]
      BY <2>2
    <2>4. rtH' \in [RtSocket -> Seq(RgRow(D))]
      BY <2>1, <2>2
    <2>5. ASSUME NEW h \in Handlers' PROVE h \in Handlers /\ RtM(h)' = RtM(h)
      <3>1. h[1] \in RtSocket /\ h[2] \in DOMAIN rtH'[h[1]] /\ h = <<h[1], h[2]>>
        BY DEF Handlers
      <3>2. rtH'[h[1]] = rtH[h[1]]
        BY <3>1, <2>3
      <3> QED
        BY <3>1, <3>2 DEF Handlers, RtM
    <2>6. UNCHANGED <<rtClaim, rtFwd, rtCache, rtSubs, rtFaulted>>
      BY <1>5 DEF RtCrash
    <2>7. RgHTypes'
      BY <2>4 DEF RgHTypes
    <2> QED
      BY <2>5, <2>6, <2>7, <1>a, RgHandsQuiet
  <1> QED
    BY <1>1, <1>2, <1>3, <1>4, <1>5 DEF RtNext

-----------------------------------------------------------------------------
(* Events: from the mark in Redis to the frames of a socket *)

RgKPc == {"idle", "dlq", "commit", "dedup", "publish"}
RgBox == \E M : rtInbox \in [RtNode -> Seq(M)]
RgBusTypes ==
    /\ rtK \in [RtNode -> [pc : RgKPc, i : Int]]
    /\ rtGot \in [RtSocket -> [RtId -> Nat]]
    /\ RgBox

\* The message of an event is the one made from it.
RgMail ==
    \A n \in RtNode : \A i \in DOMAIN rtInbox[n] :
      rtInbox[n][i].ev \in DOMAIN RtEvents => rtInbox[n][i] = ToClientEvent(rtInbox[n][i].ev)

\* The node is about to publish the event e.
RgPublishes(n, e) == rtK[n].pc = "publish" /\ RtEv(n) = e

\* The places of e among the messages a node has not handled yet.
RgCopies(n, e) == {i \in DOMAIN rtInbox[n] : rtInbox[n][i].ev = e}

\* Nobody has published the event e.
RgUnsent(e) ==
    /\ \A n \in RtNode : RgCopies(n, e) = {}
    /\ \A s \in RtSocket : rtGot[s][e] = 0

\* An event is published by the one node that has made its mark, and a node that
\* has not handled its copy has written it to none of its sockets.
RgOnce(e) ==
    e \notin rtFaulted =>
      /\ e \notin rtSeen => RgUnsent(e) /\ \A n \in RtNode : ~RgPublishes(n, e)
      /\ \A n \in RtNode : RgPublishes(n, e) => RgUnsent(e)
      /\ \A n, x \in RtNode : RgPublishes(n, e) /\ RgPublishes(x, e) => n = x
      /\ \A n \in RtNode : \A i, j \in RgCopies(n, e) : i = j
      /\ \A s \in RtSocket : rtGot[s][e] \in {0, 1}
      /\ \A s \in RtSocket : RtNodeOf[s] \in RtNode /\ RgCopies(RtNodeOf[s], e) # {} => rtGot[s][e] = 0

\* Only those who may see the event have been written it.
RgSeenBy(e) ==
    \A s \in RtSocket : rtGot[s][e] > 0 =>
      \/ RtRoleOf[RtUserOf[s]] = "admin"
      \/ RtEvents[e].user = RtUserOf[s]
      \/ <<RtUserOf[s], RtEvents[e].delivery>> \in RtParty

RgBus == RgBusTypes /\ RgMail /\ \A e \in DOMAIN RtEvents : RgOnce(e) /\ RgSeenBy(e)

\* A step that does not make the mark of e, publish it or handle a copy of it.
LEMMA RgOnceKept ==
    ASSUME NEW e \in DOMAIN RtEvents, RgOnce(e),
           rtSeen \subseteq rtSeen', rtFaulted \subseteq rtFaulted',
           \A n \in RtNode : RgPublishes(n, e)' => RgPublishes(n, e),
           \A n \in RtNode : RgCopies(n, e) = {} => RgCopies(n, e)' = {},
           \A n \in RtNode : (\A i, j \in RgCopies(n, e) : i = j)
                               => \A i, j \in RgCopies(n, e)' : i = j,
           \A s \in RtSocket : rtGot'[s][e] = rtGot[s][e]
    PROVE  RgOnce(e)'
  <1> SUFFICES ASSUME e \notin rtFaulted'
               PROVE  /\ e \notin rtSeen' => RgUnsent(e)' /\ \A n \in RtNode : ~RgPublishes(n, e)'
                      /\ \A n \in RtNode : RgPublishes(n, e)' => RgUnsent(e)'
                      /\ \A n, x \in RtNode : RgPublishes(n, e)' /\ RgPublishes(x, e)' => n = x
                      /\ \A n \in RtNode : \A i, j \in RgCopies(n, e)' : i = j
                      /\ \A s \in RtSocket : rtGot'[s][e] \in {0, 1}
                      /\ \A s \in RtSocket : RtNodeOf[s] \in RtNode /\ RgCopies(RtNodeOf[s], e)' # {}
                                               => rtGot'[s][e] = 0
    BY DEF RgOnce
  <1>1. e \notin rtFaulted
    OBVIOUS
  <1>2. RgUnsent(e) => RgUnsent(e)'
    BY DEF RgUnsent
  <1>3. /\ e \notin rtSeen => RgUnsent(e) /\ \A n \in RtNode : ~RgPublishes(n, e)
        /\ \A n \in RtNode : RgPublishes(n, e) => RgUnsent(e)
        /\ \A n, x \in RtNode : RgPublishes(n, e) /\ RgPublishes(x, e) => n = x
        /\ \A n \in RtNode : \A i, j \in RgCopies(n, e) : i = j
        /\ \A s \in RtSocket : rtGot[s][e] \in {0, 1}
        /\ \A s \in RtSocket : RtNodeOf[s] \in RtNode /\ RgCopies(RtNodeOf[s], e) # {} => rtGot[s][e] = 0
    BY <1>1 DEF RgOnce
  <1>4. \A n \in RtNode : \A i, j \in RgCopies(n, e)' : i = j
    BY <1>3
  <1>5. \A s \in RtSocket : RtNodeOf[s] \in RtNode /\ RgCopies(RtNodeOf[s], e)' # {} => rtGot'[s][e] = 0
    BY <1>3
  <1>6. e \notin rtSeen' => RgUnsent(e)' /\ \A n \in RtNode : ~RgPublishes(n, e)'
    BY <1>2, <1>3
  <1>7. \A n \in RtNode : RgPublishes(n, e)' => RgUnsent(e)'
    BY <1>2, <1>3
  <1>8. \A n, x \in RtNode : RgPublishes(n, e)' /\ RgPublishes(x, e)' => n = x
    BY <1>3
  <1> QED
    BY <1>3, <1>4, <1>5, <1>6, <1>7, <1>8

\* A message more for every node.
LEMMA RgEmit ==
    ASSUME RgBox, NEW m, RtEmit(m)
    PROVE  /\ RgBox'
           /\ \A n \in RtNode :
                /\ DOMAIN rtInbox[n] = 1..Len(rtInbox[n]) /\ Len(rtInbox[n]) \in Nat
                /\ DOMAIN rtInbox'[n] = 1..(Len(rtInbox[n]) + 1)
                /\ rtInbox'[n][Len(rtInbox[n]) + 1] = m
                /\ \A i \in DOMAIN rtInbox[n] : rtInbox'[n][i] = rtInbox[n][i]
  <1>1. PICK M : rtInbox \in [RtNode -> Seq(M)]
    BY DEF RgBox
  <1>2. PICK N : N = M \cup {m}
    OBVIOUS
  <1>3. ASSUME NEW n \in RtNode
        PROVE  /\ rtInbox'[n] \in Seq(N)
               /\ DOMAIN rtInbox[n] = 1..Len(rtInbox[n]) /\ Len(rtInbox[n]) \in Nat
               /\ DOMAIN rtInbox'[n] = 1..(Len(rtInbox[n]) + 1)
               /\ rtInbox'[n][Len(rtInbox[n]) + 1] = m
               /\ \A i \in DOMAIN rtInbox[n] : rtInbox'[n][i] = rtInbox[n][i]
    <2>q. PICK q, p : q = rtInbox[n] /\ p = Append(q, m)
      OBVIOUS
    <2>1. q \in Seq(N)
      BY <1>1, <1>2, <2>q, SeqMonotonic
    <2>2. p \in Seq(N) /\ Len(p) = Len(q) + 1 /\ p[Len(q) + 1] = m /\ \A i \in 1..Len(q) : p[i] = q[i]
      BY <2>1, <2>q, <1>2, AppendProperties
    <2>3. Len(q) \in Nat /\ DOMAIN q = 1..Len(q) /\ DOMAIN p = 1..Len(p)
      BY <2>1, <2>2, LenProperties
    <2>4. rtInbox'[n] = p
      BY <2>q DEF RtEmit
    <2> QED
      BY <2>2, <2>3, <2>4, <2>q
  <1>4. rtInbox' \in [RtNode -> Seq(N)]
    BY <1>3 DEF RtEmit
  <1> QED
    BY <1>3, <1>4 DEF RgBox

\* A message taken out of a mailbox.
LEMMA RgTakeOut ==
    ASSUME NEW M, NEW q \in Seq(M), NEW k \in 1..Len(q), NEW p,
           p = SubSeq(q, 1, k - 1) \o SubSeq(q, k + 1, Len(q))
    PROVE  /\ p \in Seq(M)
           /\ \A i \in DOMAIN p : \E j \in DOMAIN q :
                p[i] = q[j] /\ j # k /\ ((i < k /\ j = i) \/ (i >= k /\ j = i + 1))
  <1>l. PICK l, c, d : l = Len(q) /\ c = k - 1 /\ d = k + 1
    OBVIOUS
  <1>1. DOMAIN q = 1..l /\ l \in Nat
    BY <1>l, LenProperties
  <1>2. k \in Int /\ 1 <= k /\ k <= l
    BY <1>l, <1>1
  <1>3. c \in Nat /\ c = k - 1 /\ d \in Nat /\ d = k + 1
    BY <1>l, <1>2
  <1>a. PICK a, b : a = SubSeq(q, 1, c) /\ b = SubSeq(q, d, l)
    OBVIOUS
  <1>4. p = a \o b
    BY <1>a, <1>l
  <1>5. \A i \in 1..l : q[i] \in M
    BY <1>l, ElementOfSeq
  <1>6. /\ a \in Seq(M) /\ Len(a) = (IF 1 <= c THEN c - 1 + 1 ELSE 0)
        /\ \A i \in 1..(c - 1 + 1) : a[i] = q[1 + i - 1]
    <2>1. \A i \in 1..c : q[i] \in M
      BY <1>1, <1>2, <1>3, <1>5
    <2> QED
      BY <1>a, <1>3, <2>1, SubSeqProperties
  <1>7. /\ b \in Seq(M) /\ Len(b) = (IF d <= l THEN l - d + 1 ELSE 0)
        /\ \A i \in 1..(l - d + 1) : b[i] = q[d + i - 1]
    <2>1. \A i \in d..l : q[i] \in M
      BY <1>1, <1>2, <1>3, <1>5
    <2> QED
      BY <1>a, <1>1, <1>3, <2>1, SubSeqProperties
  <1>m. PICK m, o : m = Len(a) /\ o = Len(b)
    OBVIOUS
  <1>8. m = c
    BY <1>m, <1>6, <1>3
  <1>9. o = l - k
    <2>1. o = (IF d <= l THEN l - d + 1 ELSE 0)
      BY <1>m, <1>7
    <2> QED
      BY <2>1, <1>1, <1>2, <1>3
  <1>10. /\ p \in Seq(M) /\ Len(p) = m + o
         /\ \A i \in 1..(m + o) : p[i] = IF i <= m THEN a[i] ELSE b[i - m]
    <2>1. a \in Seq(M) /\ b \in Seq(M)
      BY <1>6, <1>7
    <2>2. /\ a \o b \in Seq(M) /\ Len(a \o b) = Len(a) + Len(b)
          /\ \A i \in 1..(Len(a) + Len(b)) : (a \o b)[i] = IF i <= Len(a) THEN a[i] ELSE b[i - Len(a)]
      BY <2>1, ConcatProperties
    <2> QED
      BY <2>2, <1>4, <1>m, Zenon
  <1>11. m + o = l - 1
    BY <1>1, <1>2, <1>3, <1>8, <1>9
  <1>12. DOMAIN p = 1..(l - 1)
    <2>1. DOMAIN p = 1..Len(p)
      BY <1>10, LenProperties
    <2> QED
      BY <2>1, <1>10, <1>11
  <1>13. ASSUME NEW i \in 1..(l - 1)
         PROVE  \E j \in 1..l : p[i] = q[j] /\ j # k /\ ((i < k /\ j = i) \/ (i >= k /\ j = i + 1))
    <2>1. i \in Int /\ 1 <= i /\ i <= l - 1 /\ i \in 1..l /\ i + 1 \in 1..l
      BY <1>1
    <2>2. p[i] = IF i <= m THEN a[i] ELSE b[i - m]
      BY <1>10, <1>11
    <2>3. CASE i < k
      <3>1. i <= m /\ i \in 1..(c - 1 + 1) /\ 1 + i - 1 = i
        BY <2>1, <2>3, <1>2, <1>3, <1>8
      <3>2. p[i] = q[i]
        BY <2>2, <3>1, <1>6
      <3>3. i # k
        BY <2>1, <2>3, <1>2
      <3> QED
        BY <2>1, <2>3, <3>2, <3>3
    <2>4. CASE i >= k
      <3>1. ~(i <= m) /\ i - m \in 1..(l - d + 1) /\ d + (i - m) - 1 = i + 1 /\ i + 1 # k
        BY <2>1, <2>4, <1>1, <1>2, <1>3, <1>8
      <3>x. PICK x : x = i - m
        OBVIOUS
      <3>2. p[i] = b[x] /\ b[x] = q[d + x - 1]
        BY <2>2, <3>1, <3>x, <1>7
      <3>3. p[i] = q[i + 1]
        BY <3>1, <3>2, <3>x
      <3> QED
        BY <2>1, <2>4, <3>1, <3>3
    <2>5. i < k \/ i >= k
      BY <2>1, <1>2
    <2> QED
      BY <2>3, <2>4, <2>5, Zenon
  <1> QED
    BY <1>1, <1>10, <1>12, <1>13, Zenon

\* What a message more does to the copies of an event, and to what the messages are.
LEMMA RgEmitMail ==
    ASSUME RgBox, RgMail, NEW m, RtEmit(m), m.ev \in DOMAIN RtEvents => m = ToClientEvent(m.ev)
    PROVE  /\ RgBox' /\ RgMail'
           /\ \A e \in DOMAIN RtEvents, n \in RtNode : m.ev # e => RgCopies(n, e)' \subseteq RgCopies(n, e)
           /\ \A e \in DOMAIN RtEvents, n \in RtNode : RgCopies(n, e) = {}
                                                        => \A i, j \in RgCopies(n, e)' : i = j
  <1>1. RgBox'
    BY RgEmit
  <1>2. ASSUME NEW n \in RtNode, NEW i \in DOMAIN rtInbox'[n]
        PROVE  \/ i \in DOMAIN rtInbox[n] /\ rtInbox'[n][i] = rtInbox[n][i]
               \/ i = Len(rtInbox[n]) + 1 /\ rtInbox'[n][i] = m
    <2>1. /\ DOMAIN rtInbox[n] = 1..Len(rtInbox[n]) /\ Len(rtInbox[n]) \in Nat
          /\ DOMAIN rtInbox'[n] = 1..(Len(rtInbox[n]) + 1)
          /\ rtInbox'[n][Len(rtInbox[n]) + 1] = m
          /\ \A j \in DOMAIN rtInbox[n] : rtInbox'[n][j] = rtInbox[n][j]
      BY RgEmit
    <2>2. i \in DOMAIN rtInbox[n] \/ i = Len(rtInbox[n]) + 1
      BY <2>1
    <2> QED
      BY <2>1, <2>2
  <1>3. RgMail'
    <2>1. \A n \in RtNode : \A i \in DOMAIN rtInbox'[n] :
            rtInbox'[n][i].ev \in DOMAIN RtEvents => rtInbox'[n][i] = ToClientEvent(rtInbox'[n][i].ev)
      BY <1>2 DEF RgMail
    <2> QED
      BY <2>1 DEF RgMail, ToClientEvent, RtMsg
  <1>4. ASSUME NEW e \in DOMAIN RtEvents, NEW n \in RtNode, m.ev # e
        PROVE  RgCopies(n, e)' \subseteq RgCopies(n, e)
    BY <1>2, <1>4 DEF RgCopies
  <1>5. ASSUME NEW e \in DOMAIN RtEvents, NEW n \in RtNode, RgCopies(n, e) = {}
        PROVE  \A i, j \in RgCopies(n, e)' : i = j
    <2>1. \A i \in RgCopies(n, e)' : i = Len(rtInbox[n]) + 1
      BY <1>2, <1>5 DEF RgCopies
    <2> QED
      BY <2>1
  <1> QED
    BY <1>1, <1>3, <1>4, <1>5

\* The steps that have nothing to do with events.
LEMMA RgBusQuiet ==
    ASSUME RgBus, UNCHANGED <<rtK, rtSeen, rtGot>>, rtFaulted \subseteq rtFaulted', rtRun'.topic = rtRun.topic,
           \/ UNCHANGED rtInbox
           \/ \E m : RtEmit(m) /\ m.ev \notin DOMAIN RtEvents
    PROVE  RgBus'
  <1>1. /\ RgBox' /\ RgMail'
        /\ \A e \in DOMAIN RtEvents, n \in RtNode : RgCopies(n, e)' \subseteq RgCopies(n, e)
    <2>1. CASE UNCHANGED rtInbox
      BY <2>1 DEF RgBus, RgBusTypes, RgBox, RgMail, RgCopies, ToClientEvent, RtMsg
    <2>2. ASSUME NEW m, RtEmit(m), m.ev \notin DOMAIN RtEvents
          PROVE  /\ RgBox' /\ RgMail'
                 /\ \A e \in DOMAIN RtEvents, n \in RtNode : RgCopies(n, e)' \subseteq RgCopies(n, e)
      <3>1. \A e \in DOMAIN RtEvents : m.ev # e
        BY <2>2
      <3> QED
        BY <2>2, <3>1, RgEmitMail DEF RgBus, RgBusTypes
    <2> QED
      BY <2>1, <2>2
  <1>2. \A e \in DOMAIN RtEvents, n \in RtNode : RgPublishes(n, e)' => RgPublishes(n, e)
    BY DEF RgPublishes, RtEv, RtTopic
  <1>3. ASSUME NEW e \in DOMAIN RtEvents PROVE RgOnce(e)' /\ RgSeenBy(e)'
    <2>1. RgOnce(e) /\ RgSeenBy(e)
      BY DEF RgBus
    <2>2. \A n \in RtNode : RgCopies(n, e) = {} => RgCopies(n, e)' = {}
      BY <1>1
    <2>3. \A n \in RtNode : (\A i, j \in RgCopies(n, e) : i = j) => \A i, j \in RgCopies(n, e)' : i = j
      BY <1>1
    <2>4. RgOnce(e)'
      BY <2>1, <2>2, <2>3, <1>2, RgOnceKept
    <2> QED
      BY <2>1, <2>4 DEF RgSeenBy
  <1> QED
    BY <1>1, <1>3 DEF RgBus, RgBusTypes

\* The Kafka handler of a node moves on without publishing or marking anything.
LEMMA RgBusMoves ==
    ASSUME RgBus, RgRun, NEW n \in RtNode,
           RtEachMessage(n) \/ RouteToDlq(n) \/ RtCommit(n) \/ RtDedupFails(n), RgRunKept
    PROVE  RgBus'
  <1>1. UNCHANGED <<rtGot, rtSeen, rtInbox>> /\ rtFaulted \subseteq rtFaulted'
    BY DEF RtEachMessage, RouteToDlq, RtCommit, RtDedupFails
  <1>2. PICK x : rtK' = [rtK EXCEPT ![n] = x] /\ x \in [pc : RgKPc, i : Int]
                 /\ (x.pc = "publish" => RtDedupFails(n) /\ x.i = rtK[n].i)
    <2>1. CASE RtEachMessage(n)
      <3>1. PICK i \in 1..Len(RtTopic) :
                rtK' = [rtK EXCEPT ![n] =
                     [i |-> i, pc |-> CASE RtTopic[i] = "malformed" -> "dlq"
                                        [] RtTopic[i] = "unknown" -> "commit"
                                        [] OTHER -> "dedup"]]
        BY <2>1 DEF RtEachMessage
      <3>2. PICK c : c = CASE RtTopic[i] = "malformed" -> "dlq" [] RtTopic[i] = "unknown" -> "commit"
                           [] OTHER -> "dedup"
        OBVIOUS
      <3>3. c \in {"dlq", "commit", "dedup"}
        <4>1. CASE RtTopic[i] = "malformed" /\ RtTopic[i] # "unknown"
          BY <3>2, <4>1
        <4>2. CASE RtTopic[i] = "unknown" /\ RtTopic[i] # "malformed"
          BY <3>2, <4>2
        <4>3. CASE RtTopic[i] # "unknown" /\ RtTopic[i] # "malformed"
          BY <3>2, <4>3
        <4> QED
          BY <4>1, <4>2, <4>3
      <3>4. rtK' = [rtK EXCEPT ![n] = [i |-> i, pc |-> c]]
        BY <3>1, <3>2, Zenon
      <3>5. PICK y : y = [i |-> i, pc |-> c]
        OBVIOUS
      <3>6. rtK' = [rtK EXCEPT ![n] = y] /\ y.pc # "publish" /\ y \in [pc : RgKPc, i : Int]
        BY <3>3, <3>4, <3>5 DEF RgKPc
      <3> QED
        BY <3>6
    <2>2. CASE RtCommit(n)
      <3>1. rtK' = [rtK EXCEPT ![n] = RtIdle] /\ RtIdle.pc # "publish" /\ RtIdle \in [pc : RgKPc, i : Int]
        BY <2>2 DEF RtCommit, RtIdle, RgKPc
      <3> QED
        BY <3>1
    <2>3. CASE RouteToDlq(n)
      <3>1. PICK x : x = [rtK[n] EXCEPT !.pc = "commit"]
        OBVIOUS
      <3>2. rtK' = [rtK EXCEPT ![n] = x] /\ x \in [pc : RgKPc, i : Int] /\ x.pc = "commit"
        BY <2>3, <3>1 DEF RouteToDlq, RgBus, RgBusTypes, RgKPc
      <3> QED
        BY <3>2
    <2>4. CASE RtDedupFails(n)
      <3>1. PICK x : x = [rtK[n] EXCEPT !.pc = "publish"]
        OBVIOUS
      <3>2. rtK' = [rtK EXCEPT ![n] = x] /\ x \in [pc : RgKPc, i : Int] /\ x.i = rtK[n].i
        BY <2>4, <3>1 DEF RtDedupFails, RgBus, RgBusTypes, RgKPc
      <3> QED
        BY <3>2, <2>4
    <2> QED
      BY <2>1, <2>2, <2>3, <2>4
  <1>3. rtK' \in [RtNode -> [pc : RgKPc, i : Int]] /\ rtK'[n] = x /\ \A y \in RtNode \ {n} : rtK'[y] = rtK[y]
    BY <1>2 DEF RgBus, RgBusTypes
  <1>4. RgBusTypes' /\ RgMail'
    BY <1>1, <1>3 DEF RgBus, RgBusTypes, RgBox, RgMail, ToClientEvent, RtMsg
  <1>t. rtRun'.topic = rtRun.topic
    BY DEF RgRunKept
  <1>5. ASSUME NEW e \in DOMAIN RtEvents PROVE RgOnce(e)' /\ RgSeenBy(e)'
    <2>1. RgOnce(e) /\ RgSeenBy(e)
      BY DEF RgBus
    <2>2. CASE e \in rtFaulted'
      BY <2>1, <2>2, <1>1 DEF RgOnce, RgSeenBy
    <2>3. CASE e \notin rtFaulted'
      <3>1. ~RgPublishes(n, e)'
        <4> SUFFICES ASSUME x.pc = "publish" PROVE RtEv(n)' # e
          BY <1>3 DEF RgPublishes
        <4>1. rtFaulted' = rtFaulted \cup {RtEv(n)} /\ x.i = rtK[n].i
          BY <1>2 DEF RtDedupFails
        <4>2. RtEv(n)' = RtEv(n)
          BY <4>1, <1>3, <1>t DEF RtEv, RtTopic
        <4> QED
          BY <4>1, <4>2, <2>3
      <3>2. \A y \in RtNode : RgPublishes(y, e)' => RgPublishes(y, e)
        BY <3>1, <1>3, <1>t DEF RgPublishes, RtEv, RtTopic
      <3>3. \A y \in RtNode : RgCopies(y, e)' = RgCopies(y, e)
        BY <1>1 DEF RgCopies
      <3>4. RgOnce(e)'
        BY <2>1, <3>2, <3>3, <1>1, RgOnceKept
      <3> QED
        BY <2>1, <3>4, <1>1 DEF RgSeenBy
    <2> QED
      BY <2>2, <2>3
  <1> QED
    BY <1>4, <1>5 DEF RgBus

\* isDuplicate makes the mark and, where it is new, lets the node publish.
LEMMA RgBusDedup ==
    ASSUME RgBus, NEW n \in RtNode, RtDedup(n), RgRunKept
    PROVE  RgBus'
  <1>1. /\ UNCHANGED <<rtGot, rtInbox, rtFaulted>> /\ rtSeen' = rtSeen \cup {RtEv(n)}
        /\ rtRun'.topic = rtRun.topic
    BY DEF RtDedup, RgRunKept
  <1>c. PICK c : c = IF RtEv(n) \in rtSeen THEN "commit" ELSE "publish"
    OBVIOUS
  <1>x. PICK x : x = [rtK[n] EXCEPT !.pc = c]
    OBVIOUS
  <1>2. /\ rtK' = [rtK EXCEPT ![n] = x] /\ x \in [pc : RgKPc, i : Int] /\ x.i = rtK[n].i
        /\ x.pc = "publish" => RtEv(n) \notin rtSeen
    BY <1>c, <1>x DEF RtDedup, RgBus, RgBusTypes, RgKPc
  <1>3. rtK' \in [RtNode -> [pc : RgKPc, i : Int]] /\ rtK'[n] = x /\ \A y \in RtNode \ {n} : rtK'[y] = rtK[y]
    BY <1>2 DEF RgBus, RgBusTypes
  <1>4. RgBusTypes' /\ RgMail'
    BY <1>1, <1>3 DEF RgBus, RgBusTypes, RgBox, RgMail, ToClientEvent, RtMsg
  <1>e. RtEv(n)' = RtEv(n)
    BY <1>1, <1>2, <1>3 DEF RtEv, RtTopic
  <1>5. ASSUME NEW e \in DOMAIN RtEvents PROVE RgOnce(e)' /\ RgSeenBy(e)'
    <2>1. RgOnce(e) /\ RgSeenBy(e)
      BY DEF RgBus
    <2>2. \A y \in RtNode : RgCopies(y, e)' = RgCopies(y, e)
      BY <1>1 DEF RgCopies
    <2>3. \A y \in RtNode \ {n} : RgPublishes(y, e)' => RgPublishes(y, e)
      BY <1>1, <1>3 DEF RgPublishes, RtEv, RtTopic
    <2>4. RgPublishes(n, e)' => e = RtEv(n) /\ e \notin rtSeen
      BY <1>2, <1>3, <1>e DEF RgPublishes
    <2>5. CASE ~RgPublishes(n, e)'
      <3>1. \A y \in RtNode : RgPublishes(y, e)' => RgPublishes(y, e)
        BY <2>3, <2>5
      <3> QED
        BY <2>1, <2>2, <3>1, <1>1, RgOnceKept DEF RgSeenBy
    <2>6. CASE RgPublishes(n, e)' /\ e \notin rtFaulted
      <3>1. RgUnsent(e) /\ \A y \in RtNode : ~RgPublishes(y, e)
        BY <2>1, <2>4, <2>6 DEF RgOnce
      <3>2. RgUnsent(e)'
        BY <3>1, <2>2, <1>1 DEF RgUnsent
      <3>3. \A y \in RtNode : RgPublishes(y, e)' => y = n
        BY <2>3, <3>1
      <3>4. e \in rtSeen'
        BY <2>4, <2>6, <1>1
      <3>5. (\A y \in RtNode : RgCopies(y, e)' = {}) /\ \A s \in RtSocket : rtGot'[s][e] = 0
        BY <3>2 DEF RgUnsent
      <3>6. RgOnce(e)'
        BY <3>2, <3>3, <3>4, <3>5 DEF RgOnce
      <3> QED
        BY <2>1, <3>6, <1>1 DEF RgSeenBy
    <2>7. CASE e \in rtFaulted
      BY <2>1, <2>7, <1>1 DEF RgOnce, RgSeenBy
    <2> QED
      BY <2>5, <2>6, <2>7
  <1> QED
    BY <1>4, <1>5 DEF RgBus

\* handle publishes the event for every node, or loses it.
LEMMA RgBusPublish ==
    ASSUME RgBus, NEW n \in RtNode, RtPublish(n), RgRunKept
    PROVE  RgBus'
  <1>1. UNCHANGED <<rtGot, rtSeen, rtFaulted>> /\ rtRun'.topic = rtRun.topic
    BY DEF RtPublish, RgRunKept
  <1>x. PICK x : x = [rtK[n] EXCEPT !.pc = "commit"]
    OBVIOUS
  <1>2. rtK' = [rtK EXCEPT ![n] = x] /\ x \in [pc : RgKPc, i : Int] /\ x.pc = "commit" /\ rtK[n].pc = "publish"
    BY <1>x DEF RtPublish, RgBus, RgBusTypes, RgKPc
  <1>3. rtK' \in [RtNode -> [pc : RgKPc, i : Int]] /\ rtK'[n] = x /\ \A y \in RtNode \ {n} : rtK'[y] = rtK[y]
    BY <1>2 DEF RgBus, RgBusTypes
  <1>m. PICK m, v : v = RtEv(n) /\ m = ToClientEvent(v)
    OBVIOUS
  <1>4. m.ev = v
    BY <1>m DEF ToClientEvent, RtMsg
  <1>5. UNCHANGED rtInbox \/ RtEmit(m)
    BY <1>m DEF RtPublish
  <1>6. /\ RgBox' /\ RgMail'
        /\ \A e \in DOMAIN RtEvents, y \in RtNode : v # e => RgCopies(y, e)' \subseteq RgCopies(y, e)
        /\ \A e \in DOMAIN RtEvents, y \in RtNode : RgCopies(y, e) = {} => \A i, j \in RgCopies(y, e)' : i = j
    <2>1. CASE UNCHANGED rtInbox
      BY <2>1 DEF RgBus, RgBusTypes, RgBox, RgMail, RgCopies, ToClientEvent, RtMsg
    <2>2. CASE RtEmit(m)
      <3>1. m = ToClientEvent(m.ev)
        BY <1>m, <1>4
      <3> QED
        BY <2>2, <3>1, <1>4, RgEmitMail DEF RgBus, RgBusTypes
    <2> QED
      BY <1>5, <2>1, <2>2
  <1>7. \A e : ~RgPublishes(n, e)'
    BY <1>2, <1>3 DEF RgPublishes
  <1>8. ASSUME NEW e \in DOMAIN RtEvents PROVE RgOnce(e)' /\ RgSeenBy(e)'
    <2>1. RgOnce(e) /\ RgSeenBy(e)
      BY DEF RgBus
    <2>2. \A y \in RtNode : RgPublishes(y, e)' => RgPublishes(y, e) /\ y # n
      BY <1>1, <1>3, <1>7 DEF RgPublishes, RtEv, RtTopic
    <2>3. CASE v # e
      <3>1. \A y \in RtNode : RgCopies(y, e)' \subseteq RgCopies(y, e)
        BY <1>6, <2>3
      <3>2. \A y \in RtNode : RgCopies(y, e) = {} => RgCopies(y, e)' = {}
        BY <3>1
      <3>3. \A y \in RtNode : (\A i, j \in RgCopies(y, e) : i = j) => \A i, j \in RgCopies(y, e)' : i = j
        BY <3>1
      <3>4. RgOnce(e)'
        BY <2>1, <2>2, <3>2, <3>3, <1>1, RgOnceKept
      <3> QED
        BY <2>1, <3>4, <1>1 DEF RgSeenBy
    <2>4. CASE v = e /\ e \notin rtFaulted
      <3>1. RgPublishes(n, e)
        BY <2>4, <1>2, <1>m DEF RgPublishes
      <3>2. RgUnsent(e) /\ e \in rtSeen /\ \A y \in RtNode : RgPublishes(y, e) => y = n
        BY <2>1, <2>4, <3>1 DEF RgOnce
      <3>3. \A y \in RtNode : ~RgPublishes(y, e)'
        BY <2>2, <3>2
      <3>4. (\A y \in RtNode : RgCopies(y, e) = {}) /\ \A s \in RtSocket : rtGot'[s][e] = 0
        BY <3>2, <1>1 DEF RgUnsent
      <3>5. \A y \in RtNode : \A i, j \in RgCopies(y, e)' : i = j
        BY <3>4, <1>6
      <3>6. RgOnce(e)'
        BY <3>2, <3>3, <3>4, <3>5, <1>1 DEF RgOnce
      <3> QED
        BY <2>1, <3>6, <1>1 DEF RgSeenBy
    <2>5. CASE e \in rtFaulted
      BY <2>1, <2>5, <1>1 DEF RgOnce, RgSeenBy
    <2> QED
      BY <2>3, <2>4, <2>5
  <1>9. RgBusTypes'
    BY <1>1, <1>3, <1>6 DEF RgBus, RgBusTypes
  <1> QED
    BY <1>6, <1>8, <1>9 DEF RgBus

\* A message goes to sockets of the node that handles it, each for one of three reasons.
LEMMA RgTargets ==
    ASSUME NEW n \in RtNode, NEW m, NEW s \in FanoutTargets(n, m)
    PROVE  /\ RtNodeOf[s] = n
           /\ \/ RtUserOf[s] = m.user \/ RtRoleOf[RtUserOf[s]] = "admin"
              \/ \E p \in rtSubs.fwd : p[1] = s /\ p[2] = m.delivery
  <1>1. CASE m.subject = "offer" \/ m.subject = "payment"
    <2>1. s \in LocalSocketsByUser(n, m.user)
      BY <1>1 DEF FanoutTargets
    <2> QED
      BY <2>1 DEF LocalSocketsByUser, Local
  <1>2. CASE m.subject = "notification"
    BY <1>2 DEF FanoutTargets
  <1>3. CASE m.subject = "presence"
    <2>1. s \in LocalSocketsByRole(n, "admin")
      BY <1>3 DEF FanoutTargets
    <2> QED
      BY <2>1 DEF LocalSocketsByRole, Local
  <1>4. CASE m.subject \notin {"offer", "payment", "notification", "presence"}
    <2>1. s \in FanoutToDeliverySubscribers(n, m)
      BY <1>4 DEF FanoutTargets
    <2>2. s \in GetDeliverySubscribers(m.delivery) \cap Local(n) \/ s \in LocalSocketsByUser(n, m.user)
      BY <2>1 DEF FanoutToDeliverySubscribers
    <2> QED
      BY <2>2 DEF GetDeliverySubscribers, LocalSocketsByUser, Local
  <1> QED
    BY <1>1, <1>2, <1>3, <1>4

\* A node handles a message: it is gone from the mailbox and counted where it was written.
LEMMA RgBusHandle ==
    ASSUME RgBus, RgAccess, NEW n \in RtNode, NatsHandleMessage(n), RgRunKept
    PROVE  RgBus'
  <1>1. PICK M : rtInbox \in [RtNode -> Seq(M)]
    BY DEF RgBus, RgBusTypes, RgBox
  <1>k. PICK k \in DOMAIN rtInbox[n] :
          LET m == rtInbox[n][k]
              targets == FanoutTargets(n, m) IN
          /\ rtInbox' = [rtInbox EXCEPT ![n] = SubSeq(@, 1, k - 1) \o SubSeq(@, k + 1, Len(@))]
          /\ \/ RtFree /\ SocketSend(m, targets, {})
             \/ \E s \in targets : /\ RtAt(s, "conn", "open") /\ RtFault("slow")
                                   /\ SocketSend(m, targets, {s})
          /\ UNCHANGED <<rtK, rtOff, rtSeen, rtFaulted>>
    BY DEF NatsHandleMessage
  <1>q. PICK q, p : q = rtInbox[n] /\ p = SubSeq(q, 1, k - 1) \o SubSeq(q, k + 1, Len(q))
    OBVIOUS
  <1>m. PICK m, T : m = rtInbox[n][k] /\ T = FanoutTargets(n, m)
    OBVIOUS
  <1>2. q \in Seq(M) /\ k \in 1..Len(q) /\ m = q[k]
    BY <1>1, <1>q, <1>m, LenProperties
  <1>3. /\ p \in Seq(M)
        /\ \A i \in DOMAIN p : \E j \in DOMAIN q :
             p[i] = q[j] /\ j # k /\ ((i < k /\ j = i) \/ (i >= k /\ j = i + 1))
    <2>1. q \in Seq(M)
      BY <1>2
    <2>2. k \in 1..Len(q)
      BY <1>2
    <2>3. p = SubSeq(q, 1, k - 1) \o SubSeq(q, k + 1, Len(q))
      BY <1>q
    <2>4. \A x \in 1..Len(q) : \A a : a = SubSeq(q, 1, x - 1) \o SubSeq(q, x + 1, Len(q)) =>
            /\ a \in Seq(M)
            /\ \A i \in DOMAIN a : \E j \in DOMAIN q :
                 a[i] = q[j] /\ j # x /\ ((i < x /\ j = i) \/ (i >= x /\ j = i + 1))
      BY <2>1, RgTakeOut, Zenon
    <2>5. \A a : a = SubSeq(q, 1, k - 1) \o SubSeq(q, k + 1, Len(q)) =>
            /\ a \in Seq(M)
            /\ \A i \in DOMAIN a : \E j \in DOMAIN q :
                 a[i] = q[j] /\ j # k /\ ((i < k /\ j = i) \/ (i >= k /\ j = i + 1))
      BY <2>2, <2>4, Zenon
    <2> QED
      BY <2>3, <2>5, Zenon
  <1>4. rtInbox' = [rtInbox EXCEPT ![n] = p]
    BY <1>k, <1>q
  <1>5. /\ rtInbox' \in [RtNode -> Seq(M)] /\ rtInbox'[n] = p
        /\ \A y \in RtNode \ {n} : rtInbox'[y] = rtInbox[y]
    BY <1>1, <1>3, <1>4
  <1>6. PICK z : rtGot' = [s \in RtSocket |->
                   IF s \in T \ z /\ RtAt(s, "conn", "open")
                   THEN [rtGot[s] EXCEPT ![m.ev] = @ + 1] ELSE rtGot[s]]
    <2>1. PICK z : SocketSend(m, T, z)
      BY <1>k, <1>m
    <2> QED
      BY <2>1 DEF SocketSend
  <1>7. UNCHANGED <<rtK, rtSeen, rtFaulted>> /\ rtRun'.topic = rtRun.topic
    BY <1>k DEF RgRunKept
  <1>8. rtGot' \in [RtSocket -> [RtId -> Nat]]
    <2>1. \A s \in RtSocket : rtGot[s] \in [RtId -> Nat]
      BY DEF RgBus, RgBusTypes
    <2>2. ASSUME NEW s \in RtSocket PROVE [rtGot[s] EXCEPT ![m.ev] = @ + 1] \in [RtId -> Nat]
      <3>1. PICK g, v : g = rtGot[s] /\ v = m.ev
        OBVIOUS
      <3>2. g \in [RtId -> Nat]
        BY <2>1, <3>1
      <3>3. [g EXCEPT ![v] = g[v] + 1] \in [RtId -> Nat]
        <4>w. PICK w : w = g[v] + 1
          OBVIOUS
        <4>1. CASE v \in RtId
          <5>1. w \in Nat
            BY <3>2, <4>1, <4>w
          <5> QED
            BY <3>2, <5>1, <4>w
        <4>2. CASE v \notin RtId
          BY <3>2, <4>2, <4>w
        <4> QED
          BY <4>1, <4>2
      <3> QED
        BY <3>1, <3>3
    <2> QED
      BY <2>1, <2>2, <1>6
  <1>9. \A s \in RtSocket, e \in RtId :
          \/ rtGot'[s][e] = rtGot[s][e]
          \/ e = m.ev /\ s \in T /\ rtGot'[s][e] = rtGot[s][e] + 1
    <2> SUFFICES ASSUME NEW s \in RtSocket, NEW e \in RtId
                 PROVE  \/ rtGot'[s][e] = rtGot[s][e]
                        \/ e = m.ev /\ s \in T /\ rtGot'[s][e] = rtGot[s][e] + 1
      OBVIOUS
    <2>1. PICK g : g = rtGot[s]
      OBVIOUS
    <2>2. g \in [RtId -> Nat]
      BY <2>1 DEF RgBus, RgBusTypes
    <2>3. rtGot'[s] = g \/ (s \in T /\ rtGot'[s] = [g EXCEPT ![m.ev] = @ + 1])
      BY <2>1, <1>6
    <2> QED
      BY <2>1, <2>2, <2>3
  <1>10. RgBusTypes'
    BY <1>5, <1>7, <1>8 DEF RgBus, RgBusTypes, RgBox
  <1>11. RgMail'
    <2>1. \A i \in DOMAIN q : q[i].ev \in DOMAIN RtEvents => q[i] = ToClientEvent(q[i].ev)
      BY <1>q DEF RgBus, RgMail
    <2>2. \A i \in DOMAIN p : p[i].ev \in DOMAIN RtEvents => p[i] = ToClientEvent(p[i].ev)
      BY <1>3, <2>1
    <2>3. \A y \in RtNode : \A i \in DOMAIN rtInbox'[y] :
            rtInbox'[y][i].ev \in DOMAIN RtEvents => rtInbox'[y][i] = ToClientEvent(rtInbox'[y][i].ev)
      BY <2>2, <1>5, ZenonT(60) DEF RgBus, RgMail
    <2> QED
      BY <2>3 DEF RgMail, ToClientEvent, RtMsg
  <1>12. ASSUME NEW e \in DOMAIN RtEvents PROVE RgOnce(e)' /\ RgSeenBy(e)'
    <2>1. RgOnce(e) /\ RgSeenBy(e) /\ e \in RtId
      BY DEF RgBus, RtId
    <2>2. \A y \in RtNode : RgPublishes(y, e)' => RgPublishes(y, e)
      BY <1>7 DEF RgPublishes, RtEv, RtTopic
    <2>c. PICK c, d : c = {i \in DOMAIN q : q[i].ev = e} /\ d = {i \in DOMAIN p : p[i].ev = e}
      OBVIOUS
    <2>d. /\ RgCopies(n, e) = c /\ RgCopies(n, e)' = d
          /\ \A y \in RtNode \ {n} : RgCopies(y, e)' = RgCopies(y, e)
      BY <2>c, <1>q, <1>5 DEF RgCopies
    <2>e. \A i \in d : \E j \in c : j # k /\ ((i < k /\ j = i) \/ (i >= k /\ j = i + 1))
      BY <2>c, <1>3
    <2>f. d \subseteq Int /\ k \in Int
      <3>1. DOMAIN p = 1..Len(p)
        BY <1>3, LenProperties
      <3> QED
        BY <3>1, <2>c, <1>2
    <2>g. (\A i, j \in c : i = j) => \A i, j \in d : i = j
      <3> SUFFICES ASSUME \A i, j \in c : i = j, NEW i \in d, NEW j \in d PROVE i = j
        OBVIOUS
      <3>1. PICK x \in c : x # k /\ ((i < k /\ x = i) \/ (i >= k /\ x = i + 1))
        BY <2>e
      <3>2. PICK y \in c : y # k /\ ((j < k /\ y = j) \/ (j >= k /\ y = j + 1))
        BY <2>e
      <3>3. x = y
        OBVIOUS
      <3> QED
        BY <3>1, <3>2, <3>3, <2>f
    <2>3. RgSeenBy(e)'
      <3> SUFFICES ASSUME NEW s \in RtSocket, rtGot'[s][e] > 0
                   PROVE  \/ RtRoleOf[RtUserOf[s]] = "admin" \/ RtEvents[e].user = RtUserOf[s]
                          \/ <<RtUserOf[s], RtEvents[e].delivery>> \in RtParty
        BY DEF RgSeenBy
      <3>1. CASE rtGot'[s][e] = rtGot[s][e]
        BY <3>1, <2>1 DEF RgSeenBy
      <3>2. CASE e = m.ev /\ s \in T
        <4>1. m = ToClientEvent(e)
          BY <3>2, <1>m DEF RgBus, RgMail
        <4>2. m.user = RtEvents[e].user /\ m.delivery = RtEvents[e].delivery
          BY <4>1 DEF ToClientEvent, RtMsg
        <4>3. \/ RtUserOf[s] = m.user \/ RtRoleOf[RtUserOf[s]] = "admin"
              \/ \E y \in rtSubs.fwd : y[1] = s /\ y[2] = m.delivery
          BY <3>2, <1>m, RgTargets
        <4>4. ASSUME NEW y \in rtSubs.fwd, y[1] = s, y[2] = m.delivery
              PROVE  RtRoleOf[RtUserOf[s]] = "admin" \/ <<RtUserOf[s], RtEvents[e].delivery>> \in RtParty
          BY <4>2, <4>4 DEF RgAccess, RgAllowed
        <4> QED
          BY <4>2, <4>3, <4>4
      <3> QED
        BY <3>1, <3>2, <2>1, <1>9
    <2>4. CASE m.ev # e
      <3>1. \A s \in RtSocket : rtGot'[s][e] = rtGot[s][e]
        BY <2>1, <2>4, <1>9
      <3>2. \A y \in RtNode : RgCopies(y, e) = {} => RgCopies(y, e)' = {}
        BY <2>d, <2>e
      <3>3. \A y \in RtNode : (\A i, j \in RgCopies(y, e) : i = j) => \A i, j \in RgCopies(y, e)' : i = j
        BY <2>d, <2>g
      <3> QED
        BY <2>1, <2>2, <2>3, <3>1, <3>2, <3>3, <1>7, RgOnceKept
    <2>5. CASE m.ev = e /\ e \notin rtFaulted
      <3>1. k \in c
        BY <2>5, <2>c, <1>2, <1>k, <1>q
      <3>2. ~RgUnsent(e)
        BY <3>1, <2>d DEF RgUnsent
      <3>3. e \in rtSeen /\ \A y \in RtNode : ~RgPublishes(y, e)
        BY <2>1, <2>5, <3>2 DEF RgOnce
      <3>4. /\ \A y \in RtNode : \A i, j \in RgCopies(y, e) : i = j
            /\ \A s \in RtSocket : rtGot[s][e] \in {0, 1}
            /\ \A s \in RtSocket : RtNodeOf[s] \in RtNode /\ RgCopies(RtNodeOf[s], e) # {} => rtGot[s][e] = 0
        BY <2>1, <2>5 DEF RgOnce
      <3>5. d = {}
        BY <3>1, <3>4, <2>d, <2>e
      <3>6. \A s \in T : RtNodeOf[s] = n
        BY <1>m, RgTargets
      <3>7. \A s \in RtSocket \cap T : rtGot[s][e] = 0
        BY <3>1, <3>4, <3>6, <2>d
      <3>8. \A s \in RtSocket : rtGot'[s][e] \in {0, 1}
        BY <3>4, <3>7, <2>1, <1>9
      <3>9. \A s \in RtSocket : RtNodeOf[s] # n => rtGot'[s][e] = rtGot[s][e]
        BY <3>6, <2>1, <1>9
      <3>10. \A s \in RtSocket : RtNodeOf[s] \in RtNode /\ RgCopies(RtNodeOf[s], e)' # {} => rtGot'[s][e] = 0
        BY <3>4, <3>5, <3>9, <2>d
      <3>11. \A y \in RtNode : \A i, j \in RgCopies(y, e)' : i = j
        BY <3>4, <3>5, <2>d
      <3>12. \A y \in RtNode : ~RgPublishes(y, e)'
        BY <3>3, <2>2
      <3>13. e \in rtSeen'
        BY <3>3, <1>7
      <3>14. RgOnce(e)'
        BY <3>8, <3>10, <3>11, <3>12, <3>13 DEF RgOnce
      <3> QED
        BY <2>3, <3>14
    <2>6. CASE e \in rtFaulted
      <3>1. e \in rtFaulted'
        BY <2>6, <1>7
      <3>2. RgOnce(e)'
        BY <3>1 DEF RgOnce
      <3> QED
        BY <2>3, <3>2
    <2> QED
      BY <2>4, <2>5, <2>6
  <1> QED
    BY <1>10, <1>11, <1>12 DEF RgBus

\* A crash takes a node's mailbox and its Kafka handler away.
LEMMA RgBusCrash ==
    ASSUME RgBus, NEW n \in RtNode, RtCrash(n), RgRunKept
    PROVE  RgBus'
  <1>1. /\ UNCHANGED <<rtGot, rtSeen, rtFaulted>> /\ rtRun'.topic = rtRun.topic
        /\ rtK' = [rtK EXCEPT ![n] = RtIdle] /\ rtInbox' = [rtInbox EXCEPT ![n] = <<>>]
    BY DEF RtCrash, RgRunKept
  <1>2. PICK M : rtInbox \in [RtNode -> Seq(M)]
    BY DEF RgBus, RgBusTypes, RgBox
  <1>3. /\ rtInbox' \in [RtNode -> Seq(M)] /\ rtInbox'[n] = <<>>
        /\ \A y \in RtNode \ {n} : rtInbox'[y] = rtInbox[y]
    BY <1>1, <1>2
  <1>4. /\ rtK' \in [RtNode -> [pc : RgKPc, i : Int]] /\ rtK'[n].pc = "idle"
        /\ \A y \in RtNode \ {n} : rtK'[y] = rtK[y]
    <2>1. RtIdle \in [pc : RgKPc, i : Int] /\ RtIdle.pc = "idle"
      BY DEF RtIdle, RgKPc
    <2> QED
      BY <1>1, <2>1 DEF RgBus, RgBusTypes
  <1>5. RgBusTypes'
    BY <1>1, <1>3, <1>4 DEF RgBus, RgBusTypes, RgBox
  <1>6. RgMail'
    <2>1. \A y \in RtNode : \A i \in DOMAIN rtInbox'[y] :
            rtInbox'[y][i].ev \in DOMAIN RtEvents => rtInbox'[y][i] = ToClientEvent(rtInbox'[y][i].ev)
      <3>1. \A i \in DOMAIN rtInbox'[n] : FALSE
        BY <1>3
      <3> QED
        BY <3>1, <1>3 DEF RgBus, RgMail
    <2> QED
      BY <2>1 DEF RgMail, ToClientEvent, RtMsg
  <1>7. ASSUME NEW e \in DOMAIN RtEvents PROVE RgOnce(e)' /\ RgSeenBy(e)'
    <2>1. RgOnce(e) /\ RgSeenBy(e)
      BY DEF RgBus
    <2>2. \A y \in RtNode : RgPublishes(y, e)' => RgPublishes(y, e)
      BY <1>1, <1>4 DEF RgPublishes, RtEv, RtTopic
    <2>3. \A y \in RtNode : RgCopies(y, e)' \subseteq RgCopies(y, e)
      BY <1>3 DEF RgCopies
    <2>4. \A y \in RtNode : RgCopies(y, e) = {} => RgCopies(y, e)' = {}
      BY <2>3
    <2>5. \A y \in RtNode : (\A i, j \in RgCopies(y, e) : i = j) => \A i, j \in RgCopies(y, e)' : i = j
      BY <2>3
    <2>6. RgOnce(e)'
      BY <2>1, <2>2, <2>4, <2>5, <1>1, RgOnceKept
    <2> QED
      BY <2>1, <2>6, <1>1 DEF RgSeenBy
  <1> QED
    BY <1>5, <1>6, <1>7 DEF RgBus

LEMMA RgBusInit == RtInit => RgBus
  <1> SUFFICES ASSUME RtInit PROVE RgBus
    OBVIOUS
  <1>1. /\ rtK = [n \in RtNode |-> RtIdle] /\ rtInbox = [n \in RtNode |-> <<>>]
        /\ rtGot = [s \in RtSocket |-> [e \in RtId |-> 0]]
    BY DEF RtInit
  <1>2. RgBusTypes
    <2>1. rtInbox \in [RtNode -> Seq({})]
      BY <1>1
    <2>2. rtK \in [RtNode -> [pc : RgKPc, i : Int]]
      BY <1>1 DEF RtIdle, RgKPc
    <2> QED
      BY <2>1, <2>2, <1>1 DEF RgBusTypes, RgBox
  <1>3. RgMail
    BY <1>1 DEF RgMail
  <1>4. ASSUME NEW e \in DOMAIN RtEvents PROVE RgOnce(e) /\ RgSeenBy(e)
    <2>1. \A n \in RtNode : ~RgPublishes(n, e) /\ RgCopies(n, e) = {}
      BY <1>1 DEF RgPublishes, RgCopies, RtIdle
    <2>2. \A s \in RtSocket : rtGot[s][e] = 0
      BY <1>1 DEF RtId
    <2> QED
      BY <2>1, <2>2 DEF RgOnce, RgSeenBy, RgUnsent
  <1> QED
    BY <1>2, <1>3, <1>4 DEF RgBus

LEMMA RgBusStep == RgBus /\ RgRun /\ RgAccess /\ [RtNext]_rtVars => RgBus'
  <1> SUFFICES ASSUME RgBus, RgRun, RgAccess, [RtNext]_rtVars PROVE RgBus'
    OBVIOUS
  <1>r. RgRunKept /\ rtRun'.topic = rtRun.topic
    BY RgRunStep DEF RgRunKept
  <1>p. \A u, d : /\ RtMsg("presence", "presence", "", u, TRUE).ev \notin DOMAIN RtEvents
                  /\ RtMsg("location", "loc", d, u, TRUE).ev \notin DOMAIN RtEvents
    BY RtAssumption DEF RtMsg
  <1>n. {"note", "pay"} \cap DOMAIN RtEvents = {}
    BY RtAssumption
  <1>1. CASE UNCHANGED rtVars
    BY <1>1, <1>r, RgBusQuiet DEF rtVars, rtBusVars
  <1>2. ASSUME NEW s \in RtSocket, RtConnect(s) \/ RtStore(s) PROVE RgBus'
    <2>1. UNCHANGED <<rtBusVars, rtInbox>> /\ rtFaulted \subseteq rtFaulted'
      BY <1>2 DEF RtConnect, RtStore, Attach, StoreRegister, StoreRegisterFails, CleanupSocket,
                  StoreUnregister, RegistryRemove
    <2> QED
      BY <2>1, <1>r, RgBusQuiet DEF rtBusVars
  <1>3. ASSUME NEW s \in RtSocket, RtPresence(s) PROVE RgBus'
    <2>1. UNCHANGED <<rtBusVars, rtFaulted>>
      BY <1>3 DEF RtPresence
    <2>2. UNCHANGED rtInbox \/ RtEmit(RtMsg("presence", "presence", "", RtUserOf[s], TRUE))
      BY <1>3 DEF RtPresence, SetOnline, SetOffline, SetPresence, RemoveDriverGeoLocation, HeartbeatLapses
    <2>3. UNCHANGED rtInbox \/ \E m : RtEmit(m) /\ m.ev \notin DOMAIN RtEvents
      BY <2>2, <1>p
    <2> QED
      BY <2>1, <2>3, <1>r, RgBusQuiet DEF rtBusVars
  <1>4. CASE RtHandle
    <2>1. UNCHANGED rtBusVars /\ rtFaulted \subseteq rtFaulted'
      BY <1>4 DEF RtHandle, RtGuarded, Claim, ClaimFails, AddSubscriber, RemoveSubscriber, GeoAdd,
                  PublishLocation, Forward
    <2>2. \/ UNCHANGED rtInbox
          \/ \E h \in Handlers : RtEmit(RtMsg("location", "loc", RtM(h).delivery, RtU(h), TRUE))
      BY <1>4 DEF RtHandle, RtGuarded, Claim, ClaimFails, AddSubscriber, RemoveSubscriber, GeoAdd,
                  PublishLocation, Forward
    <2>3. UNCHANGED rtInbox \/ \E m : RtEmit(m) /\ m.ev \notin DOMAIN RtEvents
      BY <2>2, <1>p
    <2> QED
      BY <2>1, <2>3, <1>r, RgBusQuiet DEF rtBusVars
  <1>5. ASSUME NEW n \in RtNode,
               \/ RtEachMessage(n) \/ RtDedup(n) \/ RtDedupFails(n) \/ RtPublish(n)
               \/ RouteToDlq(n) \/ RtCommit(n) \/ NatsHandleMessage(n)
        PROVE  RgBus'
    BY <1>5, <1>r, RgBusMoves, RgBusDedup, RgBusPublish, RgBusHandle
  <1>6. CASE BroadcastEvent
    <2>v. PICK v : v = ToClientEvent(Head(rtRun.broadcast))
      OBVIOUS
    <2>m. PICK m : m = [v EXCEPT !.ev = "note", !.subject = "status"]
      OBVIOUS
    <2>1. RtEmit(m) /\ UNCHANGED <<rtK, rtSeen, rtGot, rtFaulted>>
      BY <1>6, <2>v, <2>m DEF BroadcastEvent
    <2>2. m.ev = "note"
      BY <2>v, <2>m DEF ToClientEvent, RtMsg
    <2>3. m.ev \notin DOMAIN RtEvents
      BY <2>2, <1>n
    <2> QED
      BY <2>1, <2>3, <1>r, RgBusQuiet
  <1>7. CASE Outside
    <2>m. PICK m : m = Head(rtRun.outside)
      OBVIOUS
    <2>1. RtEmit(m) /\ UNCHANGED <<rtK, rtSeen, rtGot, rtFaulted>>
      BY <1>7, <2>m DEF Outside
    <2>2. m.ev \in {"note", "pay"}
      BY <1>7, <2>m, RgOutside
    <2>3. m.ev \notin DOMAIN RtEvents
      BY <2>2, <1>n
    <2> QED
      BY <2>1, <2>3, <1>r, RgBusQuiet
  <1>8. ASSUME NEW n \in RtNode, RtCrash(n) PROVE RgBus'
    BY <1>8, <1>r, RgBusCrash
  <1> QED
    BY <1>1, <1>2, <1>3, <1>4, <1>5, <1>6, <1>7, <1>8 DEF RtNext, RtBus

-----------------------------------------------------------------------------
(* The inductive invariant of the gateway *)

RgInv == RgSockets /\ RgRun /\ RgHands /\ RgBus

LEMMA RgInvInit == RtInit => RgInv
  BY RgSocketsInit, RgRunInit, RgHandsInit, RgBusInit DEF RgInv

LEMMA RgInvStep == RgInv /\ [RtNext]_rtVars => RgInv'
  <1> SUFFICES ASSUME RgInv, [RtNext]_rtVars PROVE RgInv'
    OBVIOUS
  <1>1. RgSockets'
    BY RgSocketsStep DEF RgInv
  <1>2. RgRun'
    BY RgRunStep DEF RgInv, RgRunKept
  <1>3. RgHands'
    BY RgHandsStep DEF RgInv
  <1>4. RgBus'
    BY RgBusStep DEF RgInv, RgHands
  <1> QED
    BY <1>1, <1>2, <1>3, <1>4 DEF RgInv

LEMMA RgInvImplies == RgInv => RtLiveIsReachable /\ RtAtMostOnce /\ RtOnlyParties
  <1> SUFFICES ASSUME RgInv PROVE RtLiveIsReachable /\ RtAtMostOnce /\ RtOnlyParties
    OBVIOUS
  <1>1. RtLiveIsReachable
    BY RgReachable DEF RgInv
  <1>2. ASSUME NEW s \in RtSocket, NEW e \in DOMAIN RtEvents, rtGot[s][e] > 1 PROVE e \in rtFaulted
    BY <1>2 DEF RgInv, RgBus, RgOnce
  <1>3. ASSUME NEW c \in DOMAIN rtFwd, rtFwd[c] > 1 PROVE c \in rtFaulted
    <2>1. RgCommand(c)
      BY DEF RgInv, RgHands, RgCommands
    <2> QED
      BY <1>3, <2>1 DEF RgCommand
  <1>4. RtOnlyParties
    BY DEF RgInv, RgBus, RgSeenBy, RtOnlyParties
  <1> QED
    BY <1>1, <1>2, <1>3, <1>4 DEF RtAtMostOnce

\* What the type invariant asks beyond that.  An event is given to a node, and its offset
\* committed, only from the topic, and a breaker is in one of its three states.
RvState == [state : {"CLOSED", "OPEN", "HALF_OPEN"}, fails : Nat]
RvCircuits == rtCircuit \in [RtNode \X RtName -> RvState]
RvOffsets == rtOff \in 0..Len(RtTopic) /\ \A n \in RtNode : rtK[n].i \in 0..Len(RtTopic)
RvInv == RgInv /\ rtRegistry \subseteq RtSocket /\ RvCircuits /\ RvOffsets

LEMMA RvInvInit == RtInit => RvInv
  <1> SUFFICES ASSUME RtInit PROVE RvInv
    OBVIOUS
  <1>1. RgInv
    BY RgInvInit
  <1>2. rtRegistry \subseteq RtSocket
    BY RtAssumption DEF RtInit
  <1>3. RvCircuits
    <2>1. PICK z : z = 0
      OBVIOUS
    <2>2. [state |-> "CLOSED", fails |-> z] \in RvState
      BY <2>1 DEF RvState
    <2>3. rtCircuit = [b \in RtNode \X RtName |-> [state |-> "CLOSED", fails |-> z]]
      BY <2>1 DEF RtInit
    <2> QED
      BY <2>2, <2>3 DEF RvCircuits
  <1>4. RvOffsets
    <2>1. Len(RtTopic) \in Nat
      BY <1>1 DEF RgInv, RgRun, RtTopic
    <2>2. rtOff = 0 /\ \A n \in RtNode : rtK[n].i = 0
      BY DEF RtInit, RtIdle
    <2> QED
      BY <2>1, <2>2 DEF RvOffsets
  <1> QED
    BY <1>1, <1>2, <1>3, <1>4 DEF RvInv

\* The breaker of a call records what came of it.
LEMMA RvBreaker ==
    ASSUME RvCircuits, NEW b, OnSuccess(b) \/ OnError(b)
           \/ rtCircuit' = [rtCircuit EXCEPT ![b].state = IF @ = "OPEN" THEN "HALF_OPEN" ELSE @]
    PROVE  RvCircuits'
  <1>1. CASE b \notin RtNode \X RtName
    <2>1. rtCircuit' = rtCircuit
      BY <1>1 DEF OnSuccess, OnError, RvCircuits
    <2> QED
      BY <2>1 DEF RvCircuits
  <1>2. CASE b \in RtNode \X RtName
    <2>c. PICK c : c = rtCircuit[b]
      OBVIOUS
    <2>1. c \in RvState
      BY <1>2, <2>c DEF RvCircuits
    <2>2. CASE OnSuccess(b)
      <3>d. PICK d : d = [fails |-> 0, state |-> IF c.state = "HALF_OPEN" THEN "CLOSED" ELSE c.state]
        OBVIOUS
      <3>1. d \in RvState
        BY <2>1, <3>d DEF RvState
      <3>2. rtCircuit' = [rtCircuit EXCEPT ![b] = d]
        BY <2>2, <2>c, <3>d DEF OnSuccess
      <3> QED
        BY <3>1, <3>2 DEF RvCircuits
    <2>3. CASE OnError(b)
      <3>d. PICK d : d = [fails |-> c.fails + 1,
                          state |-> IF c.fails + 1 >= RtThreshold THEN "OPEN" ELSE c.state]
        OBVIOUS
      <3>1. d \in RvState
        BY <2>1, <3>d DEF RvState
      <3>2. rtCircuit' = [rtCircuit EXCEPT ![b] = d]
        BY <2>3, <2>c, <3>d DEF OnError
      <3> QED
        BY <3>1, <3>2 DEF RvCircuits
    <2>4. CASE rtCircuit' = [rtCircuit EXCEPT ![b].state = IF @ = "OPEN" THEN "HALF_OPEN" ELSE @]
      <3>x. PICK x : x = (IF c.state = "OPEN" THEN "HALF_OPEN" ELSE c.state)
        OBVIOUS
      <3>d. PICK d : d = [c EXCEPT !.state = x]
        OBVIOUS
      <3>1. d \in RvState
        BY <2>1, <3>x, <3>d DEF RvState
      <3>2. rtCircuit' = [rtCircuit EXCEPT ![b] = d]
        BY <2>4, <2>c, <3>x, <3>d
      <3> QED
        BY <3>1, <3>2 DEF RvCircuits
    <2> QED
      BY <2>2, <2>3, <2>4
  <1> QED
    BY <1>1, <1>2

LEMMA RvCircuitsStep ==
    ASSUME RvCircuits, [RtNext]_rtVars
    PROVE  RvCircuits'
  <1>0. UNCHANGED rtCircuit => RvCircuits'
    BY DEF RvCircuits
  <1>1. CASE UNCHANGED rtVars
    BY <1>0, <1>1 DEF rtVars, rtHandVars
  <1>2. ASSUME NEW s \in RtSocket, RtConnect(s) \/ RtStore(s) \/ RtPresence(s) PROVE RvCircuits'
    BY <1>0, <1>2 DEF RtConnect, RtStore, RtPresence, rtHandVars
  <1>3. CASE RtHandle
    <2>1. ASSUME NEW h \in Handlers,
                 \/ RateLimitStep(h) \/ HandlePing(h) \/ ValidateLocation(h)
                 \/ CircuitRefuses(h) \/ Throttle(h)
          PROVE  RvCircuits'
      BY <1>0, <2>1 DEF RateLimitStep, HandlePing, ValidateLocation, CircuitRefuses, Throttle
    <2>2. ASSUME NEW h \in Handlers, Authorize(h) \/ IsParty(h) \/ InvokeFails(h) PROVE RvCircuits'
      <3>1. \/ UNCHANGED rtCircuit \/ OnSuccess(Breaker(h)) \/ OnError(Breaker(h))
            \/ rtCircuit' = [rtCircuit EXCEPT ![Breaker(h)].state = IF @ = "OPEN" THEN "HALF_OPEN" ELSE @]
        BY <2>2 DEF Authorize, IsParty, InvokeFails
      <3> QED
        BY <3>1, <1>0, RvBreaker
    <2> QED
      BY <1>3, <1>0, <2>1, <2>2 DEF RtHandle, RtGuarded, RouteMessage, HandleSubscribe,
                                    HandleLocationUpdate, HandleCommand
  <1>4. CASE RtBus
    BY <1>0, <1>4 DEF RtBus, rtHandVars
  <1>5. ASSUME NEW n \in RtNode, RtCrash(n) PROVE RvCircuits'
    <2>1. PICK z : z = 0
      OBVIOUS
    <2>2. rtCircuit' = [b \in RtNode \X RtName |->
                          IF b[1] = n THEN [state |-> "CLOSED", fails |-> z] ELSE rtCircuit[b]]
      BY <1>5, <2>1 DEF RtCrash
    <2>3. [state |-> "CLOSED", fails |-> z] \in RvState
      BY <2>1 DEF RvState
    <2> QED
      BY <2>2, <2>3 DEF RvCircuits
  <1> QED
    BY <1>1, <1>2, <1>3, <1>4, <1>5 DEF RtNext

LEMMA RvOffsetsStep ==
    ASSUME RgInv, RvOffsets, [RtNext]_rtVars
    PROVE  RvOffsets'
  <1>t. RtTopic' = RtTopic /\ Len(RtTopic) \in Nat
    BY RgRunStep DEF RgInv, RgRun, RgRunKept, RtTopic
  <1>k. rtK \in [RtNode -> [pc : RgKPc, i : Int]]
    BY DEF RgInv, RgBus, RgBusTypes
  <1>0. UNCHANGED <<rtK, rtOff>> => RvOffsets'
    BY <1>t DEF RvOffsets
  <1>1. CASE UNCHANGED rtVars
    BY <1>0, <1>1 DEF rtVars, rtBusVars
  <1>2. ASSUME NEW s \in RtSocket, RtConnect(s) \/ RtStore(s) \/ RtPresence(s) PROVE RvOffsets'
    BY <1>0, <1>2 DEF RtConnect, RtStore, RtPresence, rtBusVars
  <1>3. CASE RtHandle
    BY <1>0, <1>3 DEF RtHandle, rtBusVars
  <1>4. ASSUME NEW n \in RtNode, NEW k, rtK' = [rtK EXCEPT ![n] = k], k.i \in 0..Len(RtTopic),
               rtOff' \in 0..Len(RtTopic)
        PROVE  RvOffsets'
    <2>1. \A x \in RtNode : rtK'[x] = IF x = n THEN k ELSE rtK[x]
      BY <1>4, <1>k
    <2> QED
      BY <1>4, <1>t, <2>1 DEF RvOffsets
  <1>5. CASE RtBus
    <2>1. ASSUME NEW n \in RtNode, RtEachMessage(n) PROVE RvOffsets'
      <3>1. PICK k : k.i \in 1..Len(RtTopic) /\ rtK' = [rtK EXCEPT ![n] = k]
        <4>1. PICK i \in 1..Len(RtTopic) : \E p : rtK' = [rtK EXCEPT ![n] = [i |-> i, pc |-> p]]
          BY <2>1 DEF RtEachMessage
        <4>p. PICK p : rtK' = [rtK EXCEPT ![n] = [i |-> i, pc |-> p]]
          BY <4>1
        <4>k. PICK k : k = [i |-> i, pc |-> p]
          OBVIOUS
        <4> QED
          BY <4>1, <4>p, <4>k
      <3>2. k.i \in 0..Len(RtTopic) /\ rtOff' \in 0..Len(RtTopic)
        BY <2>1, <3>1, <1>t DEF RtEachMessage, RvOffsets
      <3> QED
        BY <3>1, <3>2, <1>4
    <2>2. ASSUME NEW n \in RtNode, RtDedup(n) \/ RtDedupFails(n) \/ RtPublish(n) \/ RouteToDlq(n)
          PROVE  RvOffsets'
      <3>1. PICK p : rtK' = [rtK EXCEPT ![n].pc = p]
        BY <2>2 DEF RtDedup, RtDedupFails, RtPublish, RouteToDlq
      <3>o. rtOff' = rtOff
        BY <2>2 DEF RtDedup, RtDedupFails, RtPublish, RouteToDlq
      <3>k. PICK k : k = [rtK[n] EXCEPT !.pc = p]
        OBVIOUS
      <3>2. rtK' = [rtK EXCEPT ![n] = k] /\ k.i = rtK[n].i
        BY <3>1, <3>k, <1>k
      <3> QED
        BY <3>2, <3>o, <1>4 DEF RvOffsets
    <2>3. ASSUME NEW n \in RtNode, RtCommit(n) PROVE RvOffsets'
      <3>k. PICK k : k = RtIdle
        OBVIOUS
      <3>1. rtK' = [rtK EXCEPT ![n] = k] /\ k.i = 0 /\ rtOff' = RtMaxOf(rtOff, rtK[n].i)
        BY <2>3, <3>k DEF RtCommit, RtIdle
      <3>2. rtOff' \in 0..Len(RtTopic) /\ 0 \in 0..Len(RtTopic)
        BY <3>1, <1>t DEF RvOffsets, RtMaxOf
      <3> QED
        BY <3>1, <3>2, <1>4
    <2>4. ASSUME NEW n \in RtNode, NatsHandleMessage(n) PROVE RvOffsets'
      BY <2>4, <1>0 DEF NatsHandleMessage
    <2>5. CASE BroadcastEvent \/ Outside
      BY <2>5, <1>0 DEF BroadcastEvent, Outside
    <2> QED
      BY <1>5, <2>1, <2>2, <2>3, <2>4, <2>5 DEF RtBus
  <1>6. ASSUME NEW n \in RtNode, RtCrash(n) PROVE RvOffsets'
    <2>k. PICK k : k = RtIdle
      OBVIOUS
    <2>1. rtK' = [rtK EXCEPT ![n] = k] /\ k.i = 0 /\ rtOff' = rtOff
      BY <1>6, <2>k DEF RtCrash, RtIdle
    <2>2. rtOff' \in 0..Len(RtTopic) /\ 0 \in 0..Len(RtTopic)
      BY <2>1, <1>t DEF RvOffsets
    <2> QED
      BY <2>1, <2>2, <1>4
  <1> QED
    BY <1>1, <1>2, <1>3, <1>5, <1>6 DEF RtNext

LEMMA RvInvStep == RvInv /\ [RtNext]_rtVars => RvInv'
  <1> SUFFICES ASSUME RvInv, [RtNext]_rtVars PROVE RvInv'
    OBVIOUS
  <1>1. RgInv'
    BY RgInvStep DEF RvInv
  <1>2. RvCircuits' /\ RvOffsets'
    BY RvCircuitsStep, RvOffsetsStep DEF RvInv
  <1>3. rtRegistry' \subseteq RtSocket
    <2>1. CASE UNCHANGED rtVars
      BY <2>1 DEF rtVars, rtSockVars, RvInv
    <2>2. ASSUME NEW s \in RtSocket, RtConnect(s) \/ RtStore(s) \/ RtPresence(s)
          PROVE  rtRegistry' \subseteq RtSocket
      <3>1. UNCHANGED rtRegistry \/ rtRegistry' = rtRegistry \cup {s} \/ rtRegistry' = rtRegistry \ {s}
        BY <2>2 DEF RtConnect, RtStore, RtPresence, Attach, StoreRegister, StoreRegisterFails,
                    CleanupSocket, StoreUnregister, RegistryRemove
      <3> QED
        BY <3>1 DEF RvInv
    <2>3. CASE RtHandle \/ RtBus
      BY <2>3 DEF RtHandle, RtBus, RvInv
    <2>4. ASSUME NEW n \in RtNode, RtCrash(n) PROVE rtRegistry' \subseteq RtSocket
      BY <2>4 DEF RtCrash, RvInv
    <2> QED
      BY <2>1, <2>2, <2>3, <2>4 DEF RtNext
  <1> QED
    BY <1>1, <1>2, <1>3 DEF RvInv

LEMMA RvInvImplies == RvInv => RtTypeOK
  <1> SUFFICES ASSUME RvInv PROVE RtTypeOK
    OBVIOUS
  <1>1. ASSUME NEW s \in RtSocket
        PROVE  /\ rtSock[s].conn \in {"new", "open", "closed"} /\ rtSock[s].fresh \in BOOLEAN
               /\ \A e \in RtId : rtGot[s][e] \in Nat
    <2>1. rtSock[s] \in RgSock
      BY DEF RvInv, RgInv, RgSockets
    <2>2. rtGot[s] \in [RtId -> Nat]
      BY DEF RvInv, RgInv, RgBus, RgBusTypes
    <2> QED
      BY <2>1, <2>2 DEF RgSock
  <1>2. \A k \in RtKey : rtRedis[k] \subseteq RtSocket
    BY DEF RvInv, RgInv, RgSockets
  <1>3. rtSubs.fwd \cup rtSubs.back \subseteq RtSocket \X RtDelivery
    BY DEF RvInv, RgInv, RgHands, RgAccess
  <1>4. \A b \in RtNode \X RtName : rtCircuit[b].state \in {"CLOSED", "OPEN", "HALF_OPEN"}
    <2>1. \A b \in RtNode \X RtName : rtCircuit[b] \in RvState
      BY DEF RvInv, RvCircuits
    <2> QED
      BY <2>1 DEF RvState
  <1> QED
    BY <1>1, <1>2, <1>3, <1>4 DEF RtTypeOK, RvInv, RvOffsets

\* realtime-service: sockets, Redis keys, subscriptions, breakers, the committed offset and the
\* frames a socket was written are well formed for any number of nodes and any faults; subscriptions
\* are of sockets that exist to deliveries that were asked for, and no offset is beyond the topic.
THEOREM GatewayIsWellFormed == RtSpec => []RtTypeOK
  <1> QED
    BY RvInvInit, RvInvStep, RvInvImplies, PTL DEF RtSpec

\* realtime-service: for any number of nodes, sockets, events and faults, a registered socket that
\* is still open is in its node's memory and under its user's, role's and node's keys in Redis
\* unless the store failed for it; an event is written to a socket, and a command forwarded, at
\* most once over redeliveries, rebalances and repeated commands unless Redis did not answer for
\* it; and an event is written only to those who may see it.
THEOREM GatewaySafe == RtSpec => [](RtLiveIsReachable /\ RtAtMostOnce /\ RtOnlyParties)
  <1> QED
    BY RgInvInit, RgInvStep, RgInvImplies, PTL DEF RtSpec

-----------------------------------------------------------------------------
(* payment-service: the outbox, the attempts and the reads *)

\* Strings; the provers know of a literal only that it differs from others.
PoText == STRING \cup {"", "refused", "payment.created", "payment.authorized", "requires_payment_method",
                      "requires_capture", "canceled", "TIMEOUT", "DECLINED", "RATE_LIMITED", "PERMANENT",
                      "AUTH_ERROR", "TEMPORARY", "UNKNOWN"}

\* The requests still to come are requests.
PoRunOK ==
    /\ {"requests", "reads", "walks"} \subseteq DOMAIN poRun
    /\ poRun.requests \in Seq(PoCreateRequest) /\ poRun.reads \in Seq(PoReadRequest)
    /\ poRun.walks \in Seq(PoWalkRequest)

\* A replica serves only when the database exists, which is never dropped.
PoBootOK ==
    /\ poDb \in BOOLEAN
    /\ poBoot \in [PoReplica -> [pc : {"ping", "create", "connect", "up"}, left : Int]]
    /\ \A r \in PoReplica : PoUp(r) => poDb

\* A row that a publisher is about to mark is one that Kafka holds.
PoOutOK ==
    /\ poOut \in Seq([type : PoText, state : {"new", "published", "old", "gone"}])
    /\ poTopic \in Seq(Nat)
    /\ Len(poTopic) = Len(poOut)
    /\ poPub \in [PoReplica -> [pc : {"idle", "publish", "mark"}, batch : SUBSET Nat]]
    /\ \A r \in PoReplica :
          /\ poPub[r].batch \subseteq DOMAIN poOut
          /\ poPub[r].pc # "idle" => poPub[r].batch # {}
          /\ poPub[r].pc = "mark" => poTopic[PoOldest(poPub[r].batch)] > 0
    /\ PoNothingLost

PoPayment == [user : PoText, status : {"PENDING", "AUTHORIZED", "FAILED"}, intent : Nat]
PoAttempt == [status : {"none", "PROCESSING", "UNKNOWN", "SUCCEEDED", "FAILED"}, tx : Nat]
PoIntentRow == [key : PoText, status : PoText]
PoCallRow == [pc : {"idle", "created", "attempt", "intent", "session", "record", "save", "refused", "fail", "announce"},
              p : Nat, key : PoText, tx : Nat, err : PoText]

\* A call that has not yet recorded an answer of Stripe as a success.
PoEarly == {"created", "attempt", "intent", "session", "record", "refused", "fail"}

\* A call names a payment that exists, PENDING until the call has written it,
\* and, once it has one, an intent that exists.
PoCallOK(c, pays, intents) ==
    /\ c \in PoCallRow
    /\ c.pc # "idle" => c.p \in DOMAIN pays
    /\ c.pc \in PoEarly \cup {"save"} => pays[c.p].status = "PENDING"
    /\ c.pc \in {"session", "record", "save"} => c.tx \in DOMAIN intents

\* The attempt of a call succeeds by that call only, with the intent it holds.
PoCallFits(c, atts) ==
    /\ c.pc \in PoEarly => atts[c.p].status # "SUCCEEDED"
    /\ c.pc = "save" => (atts[c.p].status = "SUCCEEDED" => atts[c.p].tx = c.tx)

\* The attempt a is fit to stand beside the payment y.
PoBacked(a, y, intents) ==
    /\ a \in PoAttempt
    /\ a.status = "UNKNOWN" => a.tx = 0
    /\ a.status = "SUCCEEDED" =>
          /\ a.tx \in DOMAIN intents
          /\ y.status = "PENDING" \/ (y.status = "AUTHORIZED" /\ y.intent = a.tx)

\* Payments, attempts, intents and the call agree, between any two of their writes.
PoPayOK ==
    /\ poPay \in Seq(PoPayment) /\ poAtt \in Seq(PoAttempt) /\ Len(poAtt) = Len(poPay)
    /\ poIntent \in Seq(PoIntentRow)
    /\ PoCallOK(poCall, poPay, poIntent)
    /\ PoCallFits(poCall, poAtt)
    /\ \A p \in DOMAIN poAtt : PoBacked(poAtt[p], poPay[p], poIntent)

\* What the recovery workers have read: attempts that exist, without a transaction.
PoRecOK ==
    /\ poRec \in [PoReplica -> SUBSET [job : {"reconcile", "stuck"}, p : Nat, tx : {0}]]
    /\ \A r \in PoReplica : \A a \in poRec[r] : a.p \in DOMAIN poAtt

\* PoRowsOf and PoPlace for payments pays.
PoRowsIn(pays, u) == {p \in DOMAIN pays : u = "admin" \/ pays[p].user = u}
PoPlaceIn(pays, p, u) == Cardinality({q \in PoRowsIn(pays, u) : q >= p})

PoWalkRow == [pc : {"idle", "page", "select", "done"}, user : PoText, limit : Int, page : Nat,
              start : SUBSET Nat, seen : SUBSET Nat, code : {0, 200, 400, 401, 403, 404, 500},
              total : Nat, torn : BOOLEAN]

\* The pages read so far hold the rows of the start as far down the list as
\* the offset has come; new payments only move them further down.
PoWalkGood(w, pays) ==
    /\ w \in PoWalkRow
    /\ w.seen \subseteq DOMAIN pays
    /\ w.user \notin {"admin", ""} => \A p \in w.seen : pays[p].user = w.user
    /\ w.pc # "idle" => w.start \subseteq PoRowsIn(pays, w.user)
    /\ \A p \in w.start, q \in w.start : q \in w.seen /\ p > q => p \in w.seen
    /\ w.pc \in {"page", "select"} =>
          /\ w.page > 0
          /\ \A p \in w.start : PoPlaceIn(pays, p, w.user) <= (w.page - 1) * PoLimit(w.limit) => p \in w.seen
    /\ w.pc = "done" /\ w.code = 200 /\ ~ w.torn /\ w.limit <= PoMaxLimit => w.start \subseteq w.seen

PoWalkOK == PoWalkGood(poWalk, poPay)

PoInv == PoRunOK /\ PoBootOK /\ PoOutOK /\ PoPayOK /\ PoRecOK /\ PoWalkOK

\* Rows are published oldest first.
LEMMA PoOldestIn ==
    ASSUME NEW S, S \subseteq Nat, S # {}
    PROVE  PoOldest(S) \in S /\ \A f \in S : PoOldest(S) <= f
  BY LeastNat, Zenon DEF PoOldest

\* The rows a page query answers with are rows, and there are finitely many.
LEMMA PoRowsFinite ==
    ASSUME NEW u, DOMAIN poPay = 1 .. Len(poPay), Len(poPay) \in Nat
    PROVE  /\ PoRowsOf(u) \subseteq 1 .. Len(poPay)
           /\ IsFiniteSet(PoRowsOf(u))
           /\ Cardinality(PoRowsOf(u)) \in Nat
  <1>1. PoRowsOf(u) \subseteq 1 .. Len(poPay)
    BY DEF PoRowsOf
  <1>2. IsFiniteSet(1 .. Len(poPay))
    BY FS_Interval
  <1> QED
    BY <1>1, <1>2, FS_Subset, FS_CardinalityType

\* The service starts with the invariant.
LEMMA PoInvInit == PoInit => PoInv
  <1> SUFFICES ASSUME PoInit PROVE PoInv
    OBVIOUS
  <1>1. poRun \in PoRunType
    BY PoAssumption DEF PoInit
  <1>2. PoBootOK
    <2>1. poDb = ~ ("boot" \in poRun.on)
      BY DEF PoInit, PoOn
    <2>2. poBoot = [r \in PoReplica |-> [pc |-> IF "boot" \in poRun.on THEN "ping" ELSE "up", left |-> PoMaxPings]]
      BY DEF PoInit, PoOn
    <2>3. PoMaxPings \in Int
      BY PoAssumption
    <2> QED
      BY <2>1, <2>2, <2>3 DEF PoBootOK, PoUp
  <1>3. PoOutOK
    <2>1. poRun.rows \in Seq(STRING)
      BY <1>1 DEF PoRunType
    <2> DEFINE T == [type : PoText, state : {"new", "published", "old", "gone"}]
               n == Len(poRun.rows)
    <2>2. /\ DOMAIN poRun.rows = 1 .. n /\ n \in Nat
          /\ \A i \in 1 .. n : poRun.rows[i] \in STRING
      BY <2>1
    <2>3. poOut = [i \in 1 .. n |-> [type |-> poRun.rows[i], state |-> "new"]]
      BY <2>2 DEF PoInit
    <2>4. \A i \in 1 .. n : poOut[i] \in T /\ poOut[i].state = "new"
      BY <2>2, <2>3 DEF PoText
    <2>5. poOut \in Seq(T) /\ Len(poOut) = n /\ DOMAIN poOut = 1 .. n
      <3> HIDE DEF T, n
      <3> QED
        BY <2>2, <2>3, <2>4
    <2>6. poTopic \in Seq(Nat) /\ Len(poTopic) = n
      BY <2>1, <2>2 DEF PoInit
    <2>7. poPub \in [PoReplica -> [pc : {"idle", "publish", "mark"}, batch : SUBSET Nat]]
      BY DEF PoIdlePub, PoInit
    <2>8. \A r \in PoReplica : poPub[r].batch = {} /\ poPub[r].pc = "idle"
      BY DEF PoIdlePub, PoInit
    <2>9. PoNothingLost
      BY <2>4, <2>5 DEF PoNothingLost
    <2> QED
      BY <2>5, <2>6, <2>7, <2>8, <2>9 DEF PoOutOK
  <1>4. PoPayOK
    <2>1. poPay = <<>> /\ poAtt = <<>> /\ poIntent = <<>>
      BY DEF PoInit
    <2>2. PICK zero : zero = 0 /\ zero \in Nat
      OBVIOUS
    <2>3. PICK c : c = poCall
      OBVIOUS
    <2>4. c = [pc |-> "idle", p |-> zero, key |-> "", tx |-> zero, err |-> ""] /\ "" \in PoText
      BY <2>2, <2>3 DEF PoInit, PoNoCall, PoText
    <2>5. c \in PoCallRow /\ c.pc = "idle"
      BY <2>2, <2>4 DEF PoCallRow
    <2>6. PoCallOK(c, poPay, poIntent) /\ PoCallFits(c, poAtt)
      BY <2>5 DEF PoCallOK, PoCallFits, PoEarly
    <2> QED
      BY <2>1, <2>3, <2>6 DEF PoPayOK
  <1>5. PoRecOK
    BY DEF PoRecOK, PoInit
  <1>6. PoWalkOK
    <2>1. poWalk = PoNoWalk
      BY DEF PoInit
    <2>2. poWalk \in PoWalkRow
      <3>1. "" \in PoText
        BY DEF PoText
      <3>2. PICK zero : zero = 0
        OBVIOUS
      <3>3. PICK none : none = {}
        OBVIOUS
      <3>4. poWalk = [pc |-> "idle", user |-> "", limit |-> zero, page |-> zero, start |-> none,
                      seen |-> none, code |-> zero, total |-> zero, torn |-> FALSE]
        BY <2>1, <3>2, <3>3 DEF PoNoWalk
      <3>5. zero \in Nat /\ zero \in Int /\ zero \in {0, 200, 400, 401, 403, 404, 500} /\ none \in SUBSET Nat
        BY <3>2, <3>3
      <3> HIDE <3>2, <3>3
      <3> QED
        BY <3>1, <3>4, <3>5 DEF PoWalkRow
    <2>3. poWalk.seen = {} /\ poWalk.pc = "idle" /\ poWalk.start = {}
      BY <2>1 DEF PoNoWalk
    <2> QED
      BY <2>2, <2>3 DEF PoWalkOK, PoWalkGood
  <1>7. PoRunOK
    BY <1>1 DEF PoRunOK, PoRunType
  <1> QED
    BY <1>2, <1>3, <1>4, <1>5, <1>6, <1>7 DEF PoInv

\* A budget that is spent leaves the requests alone.
LEMMA PoRunKept ==
    ASSUME PoRunOK, NEW f, f \notin {"requests", "reads", "walks"}, NEW x, poRun' = [poRun EXCEPT ![f] = x]
    PROVE  PoRunOK'
  BY DEF PoRunOK

\* Requests are taken one by one.
LEMMA PoRunStep ==
    ASSUME PoRunOK, [PoNext]_poVars
    PROVE  PoRunOK'
  <1>1. ASSUME NEW f \in {"pays", "crashes", "faults"}, PoSpend(f) PROVE PoRunOK'
    <2>1. PICK x : x = poRun[f] - 1
      OBVIOUS
    <2>2. poRun' = [poRun EXCEPT ![f] = x]
      BY <1>1, <2>1 DEF PoSpend
    <2> QED
      BY <2>2, PoRunKept
  <1>2. ASSUME PoFine PROVE PoRunOK'
    BY <1>2 DEF PoFine, PoRunOK
  <1>3. ASSUME PoFault PROVE PoRunOK'
    BY <1>1, <1>3 DEF PoFault
  <1>4. CASE \E r \in PoReplica : PoBootStep(r) \/ PoCrash(r)
    BY <1>4, <1>1, <1>2, <1>3 DEF PoBootStep, PoCrash, EnsureDatabaseExists, CreateDatabase, PoConnect
  <1>5. CASE PoCallStep
    <2>1. CASE PoCreatePayment
      <3>1. poRun' = [poRun EXCEPT !.requests = Tail(@)] /\ Len(poRun.requests) > 0
        BY <2>1 DEF PoCreatePayment
      <3> QED
        BY <3>1 DEF PoRunOK
    <2>2. CASE PoInsertCreated \/ PoInsertAuthorized
      BY <2>2, <1>2, <1>3 DEF PoInsertCreated, PoInsertAuthorized, PoInsert
    <2>3. CASE PoCreateAttempt \/ PoRefused \/ PoAuthorized
      BY <2>3, <1>2, <1>3 DEF PoCreateAttempt, PoRefused, PoAuthorized, PoWriteAttempt
    <2>4. CASE PoFailPayment \/ PoSavePayment \/ AuthorizeIntent \/ AuthorizeSession
      BY <2>4, <1>2, <1>3 DEF PoFailPayment, PoSavePayment, AuthorizeIntent, AuthorizeSession
    <2> QED
      BY <1>5, <2>1, <2>2, <2>3, <2>4 DEF PoCallStep
  <1>6. CASE PoCustomer
    BY <1>6, <1>1 DEF PoCustomer
  <1>7. CASE PoOutboxStep
    BY <1>7, <1>2, <1>3 DEF PoOutboxStep, PoFetch, PublishOne, PoMarkPublished, PoCleanupRun, PoAge
  <1>8. CASE PoAttemptStep
    BY <1>8, <1>2 DEF PoAttemptStep, PoFine
  <1>9. CASE PoReadStep
    <2>1. CASE PoReadPayment
      <3>1. poRun' = [poRun EXCEPT !.reads = Tail(@)] /\ Len(poRun.reads) > 0
        BY <2>1 DEF PoReadPayment
      <3> QED
        BY <3>1 DEF PoRunOK
    <2>2. CASE PoWalkStart
      <3>1. poRun' = [poRun EXCEPT !.walks = Tail(@)] /\ Len(poRun.walks) > 0
        BY <2>2 DEF PoWalkStart
      <3> QED
        BY <3>1 DEF PoRunOK
    <2> QED
      BY <1>9, <1>2, <1>3, <2>1, <2>2 DEF PoReadStep, PoCountRows, PoWalkPage
  <1>10. CASE UNCHANGED poVars
    BY <1>10 DEF poVars, PoRunOK
  <1> QED
    BY <1>4, <1>5, <1>6, <1>7, <1>8, <1>9, <1>10 DEF PoNext

\* The database is made before a replica serves.
LEMMA PoBootStepOK ==
    ASSUME PoBootOK, [PoNext]_poVars
    PROVE  PoBootOK'
  <1> USE DEF PoBootOK, PoUp
  <1>1. ASSUME NEW r \in PoReplica, EnsureDatabaseExists(r) PROVE PoBootOK'
    BY <1>1, PoAssumption DEF EnsureDatabaseExists, PoPingFails, PoBootTo
  <1>2. ASSUME NEW r \in PoReplica, CreateDatabase(r) PROVE PoBootOK'
    BY <1>2, PoAssumption DEF CreateDatabase, PoBootTo
  <1>3. ASSUME NEW r \in PoReplica, PoConnect(r) PROVE PoBootOK'
    BY <1>3, PoAssumption DEF PoConnect, PoPingFails, PoBootTo
  <1>4. ASSUME NEW r \in PoReplica, PoCrash(r) PROVE PoBootOK'
    BY <1>4, PoAssumption DEF PoCrash, PoBootTo
  <1>5. ASSUME UNCHANGED <<poDb, poBoot>> PROVE PoBootOK'
    BY <1>5
  <1>6. PoCallStep \/ PoCustomer \/ PoOutboxStep \/ PoAttemptStep \/ PoReadStep \/ UNCHANGED poVars
          => UNCHANGED <<poDb, poBoot>>
    BY DEF PoCallStep, PoCustomer, PoOutboxStep, PoAttemptStep, PoReadStep, poVars
  <1> QED
    BY <1>1, <1>2, <1>3, <1>4, <1>5, <1>6 DEF PoNext, PoBootStep

\* A new row that the service inserts is to be published.
LEMMA PoInsertKeeps ==
    ASSUME PoOutOK, NEW t \in PoText, PoInsert(t), UNCHANGED poPub
    PROVE  PoOutOK'
  <1>1. CASE UNCHANGED <<poOut, poTopic>>
    BY <1>1 DEF PoOutOK, PoNothingLost
  <1>2. CASE poOut' = Append(poOut, [type |-> t, state |-> "new"]) /\ poTopic' = Append(poTopic, 0)
    <2> DEFINE T == [type : PoText, state : {"new", "published", "old", "gone"}]
    <2>0. PICK new : new = [type |-> t, state |-> "new"]
      OBVIOUS
    <2>1. new \in T /\ new.state = "new"
      BY <2>0
    <2>2. poOut \in Seq(T) /\ poOut' = Append(poOut, new) /\ Len(poOut) \in Nat
      BY <2>0, <1>2 DEF PoOutOK
    <2>a. poTopic \in Seq(Nat) /\ Len(poTopic) = Len(poOut)
      BY DEF PoOutOK
    <2> HIDE DEF T
    <2>3. poOut' \in Seq(T) /\ DOMAIN poOut' = 1 .. (Len(poOut) + 1) /\ DOMAIN poOut = 1 .. Len(poOut)
      BY <2>1, <2>2, Appended
    <2>4. \A e \in DOMAIN poOut' : poOut'[e] = new \/ (e \in DOMAIN poOut /\ poOut'[e] = poOut[e])
      <3>1. \A e \in 1 .. Len(poOut) : poOut'[e] = poOut[e]
        BY <2>1, <2>2, Appended
      <3>2. poOut'[Len(poOut) + 1] = new
        BY <2>1, <2>2, Appended
      <3> QED
        BY <2>2, <2>3, <3>1, <3>2
    <2>5. poTopic' \in Seq(Nat) /\ \A e \in DOMAIN poOut : poTopic'[e] = poTopic[e]
      BY <2>a, <2>3, <1>2
    <2>6. Len(poTopic') = Len(poOut')
      BY <2>a, <2>2, <1>2
    <2>7. PoNothingLost'
      BY <2>1, <2>4, <2>5 DEF PoNothingLost, PoOutOK
    <2>8. \A r \in PoReplica : /\ poPub'[r].batch \subseteq DOMAIN poOut'
                               /\ poPub'[r].pc # "idle" => poPub'[r].batch # {}
                               /\ poPub'[r].pc = "mark" => poTopic'[PoOldest(poPub'[r].batch)] > 0
      <3> SUFFICES ASSUME NEW r \in PoReplica
                   PROVE  /\ poPub[r].batch \subseteq DOMAIN poOut'
                          /\ poPub[r].pc # "idle" => poPub[r].batch # {}
                          /\ poPub[r].pc = "mark" => poTopic'[PoOldest(poPub[r].batch)] > 0
        OBVIOUS
      <3>1. /\ poPub[r].batch \subseteq DOMAIN poOut /\ poPub[r].batch \subseteq Nat
            /\ poPub[r].pc # "idle" => poPub[r].batch # {}
            /\ poPub[r].pc = "mark" => poTopic[PoOldest(poPub[r].batch)] > 0
        BY DEF PoOutOK
      <3>2. poPub[r].pc = "mark" => PoOldest(poPub[r].batch) \in poPub[r].batch
        BY <3>1, PoOldestIn
      <3> QED
        BY <3>1, <3>2, <2>3, <2>5
    <2> QED
      BY <2>3, <2>5, <2>6, <2>7, <2>8 DEF PoOutOK, T
  <1> QED
    BY <1>1, <1>2 DEF PoInsert

PoRow == [type : PoText, state : {"new", "published", "old", "gone"}]
PoPublisher == [pc : {"idle", "publish", "mark"}, batch : SUBSET Nat]

\* A publisher works on rows that exist, and marks one that Kafka holds.
PoPubOK(w, topic) ==
    /\ w \in PoPublisher
    /\ w.batch \subseteq DOMAIN poOut
    /\ w.pc # "idle" => w.batch # {}
    /\ w.pc = "mark" => topic[PoOldest(w.batch)] > 0

\* Kafka forgets nothing, so rows and publishers that change as they may keep the invariant.
LEMMA PoOutSet ==
    ASSUME PoOutOK, poOut' \in Seq(PoRow), Len(poOut') = Len(poOut),
           poTopic' \in Seq(Nat), Len(poTopic') = Len(poOut),
           \A e \in DOMAIN poOut : poTopic'[e] >= poTopic[e],
           \A e \in DOMAIN poOut : poOut'[e].state # "new" => poTopic'[e] > 0,
           NEW r \in PoReplica, NEW w, PoPubOK(w, poTopic'), poPub' = [poPub EXCEPT ![r] = w]
    PROVE  PoOutOK'
  <1>1. DOMAIN poOut' = DOMAIN poOut /\ DOMAIN poOut \subseteq Nat
    BY DEF PoOutOK
  <1>2. PoNothingLost'
    BY <1>1 DEF PoNothingLost
  <1>3. poPub' \in [PoReplica -> PoPublisher]
    BY DEF PoOutOK, PoPubOK, PoPublisher
  <1>4. ASSUME NEW q \in PoReplica
        PROVE  /\ poPub'[q].batch \subseteq DOMAIN poOut'
               /\ poPub'[q].pc # "idle" => poPub'[q].batch # {}
               /\ poPub'[q].pc = "mark" => poTopic'[PoOldest(poPub'[q].batch)] > 0
    <2>1. CASE q = r
      <3>1. poPub'[q] = w
        BY <2>1 DEF PoOutOK
      <3> QED
        BY <3>1, <1>1 DEF PoPubOK
    <2>2. CASE q # r
      <3>1. poPub'[q] = poPub[q]
        BY <2>2 DEF PoOutOK
      <3>2. /\ poPub[q].batch \subseteq DOMAIN poOut
            /\ poPub[q].pc # "idle" => poPub[q].batch # {}
            /\ poPub[q].pc = "mark" => poTopic[PoOldest(poPub[q].batch)] > 0
        BY DEF PoOutOK
      <3>3. poPub[q].pc = "mark" => PoOldest(poPub[q].batch) \in DOMAIN poOut
        BY <3>2, <1>1, PoOldestIn
      <3>4. \A e \in DOMAIN poOut : poTopic[e] \in Nat /\ poTopic'[e] \in Nat
        BY <1>1 DEF PoOutOK
      <3>5. poPub[q].pc = "mark" => poTopic'[PoOldest(poPub[q].batch)] > 0
        BY <3>2, <3>3, <3>4
      <3> QED
        BY <3>1, <3>2, <3>5, <1>1
    <2> QED
      BY <2>1, <2>2
  <1> QED
    BY <1>2, <1>3, <1>4 DEF PoOutOK, PoRow, PoPublisher

\* Kafka stores one more copy of an event.
LEMMA PoStored ==
    ASSUME PoOutOK, NEW e \in DOMAIN poOut, KafkaStores(e)
    PROVE  /\ poTopic' \in Seq(Nat) /\ Len(poTopic') = Len(poOut)
           /\ \A i \in DOMAIN poOut : poTopic'[i] >= poTopic[i]
           /\ poTopic'[e] > 0
  <1>1. poTopic \in Seq(Nat) /\ DOMAIN poTopic = DOMAIN poOut /\ Len(poTopic) = Len(poOut)
    BY DEF PoOutOK
  <1>2. poTopic' = [poTopic EXCEPT ![e] = @ + 1]
    BY DEF KafkaStores
  <1> QED
    BY <1>1, <1>2

\* What the rest of a batch leaves a publisher to do.
LEMMA PoNextRowOK ==
    ASSUME PoOutOK, NEW r \in PoReplica, poPub[r].pc # "idle", PoNextRow(r), NEW topic
    PROVE  \E w : PoPubOK(w, topic) /\ poPub' = [poPub EXCEPT ![r] = w]
  <1> DEFINE rest == poPub[r].batch \ {PoOldest(poPub[r].batch)}
             w == IF rest = {} THEN PoIdlePub ELSE [pc |-> "publish", batch |-> rest]
  <1>1. poPub' = [poPub EXCEPT ![r] = w]
    BY DEF PoNextRow
  <1>2. rest \subseteq DOMAIN poOut /\ rest \subseteq Nat
    BY DEF PoOutOK
  <1>3. CASE rest = {}
    <2>1. w = PoIdlePub
      BY <1>3
    <2>2. PoPubOK(PoIdlePub, topic)
      BY DEF PoPubOK, PoIdlePub, PoPublisher
    <2> QED
      BY <1>1, <2>1, <2>2
  <1>4. CASE rest # {}
    <2> HIDE DEF rest
    <2>1. w = [pc |-> "publish", batch |-> rest]
      BY <1>4
    <2>2. PoPubOK(w, topic)
      BY <2>1, <1>2, <1>4 DEF PoPubOK, PoPublisher
    <2> QED
      BY <1>1, <2>2
  <1> QED
    BY <1>3, <1>4

\* The outbox workers keep the promise of the outbox.
LEMMA PoOutboxKeeps ==
    ASSUME PoOutOK, PoOutboxStep
    PROVE  PoOutOK'
  <1>0. /\ poOut \in Seq(PoRow) /\ DOMAIN poOut \subseteq Nat /\ DOMAIN poOut = 1 .. Len(poOut) /\ Len(poOut) \in Nat
        /\ poTopic \in Seq(Nat) /\ DOMAIN poTopic = DOMAIN poOut /\ Len(poTopic) = Len(poOut)
        /\ \A e \in DOMAIN poOut : poTopic[e] \in Nat /\ poTopic[e] >= poTopic[e]
        /\ \A e \in DOMAIN poOut : poOut[e].state # "new" => poTopic[e] > 0
        /\ \A e \in DOMAIN poOut : poOut[e] \in PoRow
    <2>1. poOut \in Seq(PoRow) /\ poTopic \in Seq(Nat) /\ Len(poTopic) = Len(poOut)
      BY DEF PoOutOK, PoRow
    <2>2. DOMAIN poOut = 1 .. Len(poOut) /\ Len(poOut) \in Nat /\ DOMAIN poTopic = DOMAIN poOut
      BY <2>1
    <2>3. \A e \in DOMAIN poOut : poTopic[e] \in Nat /\ poOut[e] \in PoRow
      BY <2>1, <2>2
    <2> QED
      BY <2>1, <2>2, <2>3 DEF PoOutOK, PoNothingLost
  <1>1. ASSUME NEW r \in PoReplica, poPub[r].pc # "idle"
        PROVE  PoOldest(poPub[r].batch) \in DOMAIN poOut
    BY <1>1, PoOldestIn DEF PoOutOK
  <1>2. ASSUME NEW r \in PoReplica, PoFetch(r) PROVE PoOutOK'
    <2> DEFINE w == [pc |-> "publish", batch |-> FetchUnpublished]
    <2>1. FetchUnpublished \subseteq DOMAIN poOut /\ FetchUnpublished # {}
      BY <1>2 DEF PoFetch, FetchUnpublished, Unpublished
    <2>2. PoPubOK(w, poTopic')
      BY <2>1, <1>0 DEF PoPubOK, PoPublisher
    <2>3. poPub' = [poPub EXCEPT ![r] = w] /\ poOut' = poOut /\ poTopic' = poTopic
      BY <1>2 DEF PoFetch
    <2> HIDE DEF w
    <2> QED
      BY <1>0, <2>2, <2>3, PoOutSet
  <1>3. ASSUME NEW r \in PoReplica, PublishOne(r) PROVE PoOutOK'
    <2>1. poPub[r].pc = "publish" /\ poOut' = poOut
      BY <1>3 DEF PublishOne
    <2>2. PICK e \in DOMAIN poOut : e = PoOldest(poPub[r].batch)
      BY <1>1, <2>1
    <2>3. CASE KafkaStores(e) /\ poPub' = [poPub EXCEPT ![r].pc = "mark"]
      <3> DEFINE w == [pc |-> "mark", batch |-> poPub[r].batch]
      <3>1. poPub' = [poPub EXCEPT ![r] = w]
        <4>1. poPub[r] \in PoPublisher
          BY DEF PoOutOK, PoPublisher
        <4>2. w = [poPub[r] EXCEPT !.pc = "mark"]
          BY <4>1 DEF PoPublisher
        <4> QED
          BY <4>2, <2>3
      <3>2. PoPubOK(w, poTopic')
        BY <2>1, <2>2, <2>3, PoStored DEF PoPubOK, PoPublisher, PoOutOK
      <3>3. \A i \in DOMAIN poOut : poOut'[i].state # "new" => poTopic'[i] > 0
        <4>1. \A i \in DOMAIN poOut : poTopic'[i] \in Nat /\ poTopic'[i] >= poTopic[i]
          BY <2>3, PoStored, <1>0
        <4> QED
          BY <4>1, <1>0, <2>1
      <3> HIDE DEF w
      <3> QED
        BY <1>0, <2>1, <3>1, <3>2, <3>3, <2>3, PoStored, PoOutSet
    <2>4. CASE (KafkaStores(e) \/ poTopic' = poTopic) /\ PoNextRow(r)
      <3>1. PICK topic : topic = poTopic'
        OBVIOUS
      <3>2. PICK w : PoPubOK(w, topic) /\ poPub' = [poPub EXCEPT ![r] = w]
        BY <2>1, <2>4, PoNextRowOK
      <3>3. /\ poTopic' \in Seq(Nat) /\ Len(poTopic') = Len(poOut)
            /\ \A i \in DOMAIN poOut : poTopic'[i] >= poTopic[i]
        BY <2>4, <1>0, PoStored
      <3>4. \A i \in DOMAIN poOut : poOut'[i].state # "new" => poTopic'[i] > 0
        <4>1. \A i \in DOMAIN poOut : poTopic'[i] \in Nat
          BY <3>3, <1>0
        <4> QED
          BY <4>1, <3>3, <1>0, <2>1
      <3> QED
        BY <1>0, <2>1, <3>1, <3>2, <3>3, <3>4, PoOutSet
    <2> QED
      BY <1>3, <2>2, <2>3, <2>4 DEF PublishOne
  <1>4. ASSUME NEW r \in PoReplica, PoMarkPublished(r) PROVE PoOutOK'
    <2>1. poPub[r].pc = "mark" /\ poTopic' = poTopic /\ PoNextRow(r)
      BY <1>4 DEF PoMarkPublished
    <2>2. PICK e \in DOMAIN poOut : e = PoOldest(poPub[r].batch)
      BY <1>1, <2>1
    <2>3. PICK w : PoPubOK(w, poTopic) /\ poPub' = [poPub EXCEPT ![r] = w]
      BY <2>1, PoNextRowOK
    <2>4. poTopic[e] > 0
      BY <2>1, <2>2 DEF PoOutOK
    <2>5. CASE poOut' = poOut
      BY <1>0, <2>1, <2>3, <2>5, PoOutSet
    <2>6. CASE poOut' = [poOut EXCEPT ![e].state = IF @ = "gone" THEN @ ELSE "published"]
      <3>1. PICK row : row = [poOut[e] EXCEPT !.state = IF @ = "gone" THEN @ ELSE "published"]
        OBVIOUS
      <3>2. row \in PoRow
        BY <3>1, <1>0 DEF PoRow
      <3>3. poOut' = [poOut EXCEPT ![e] = row]
        BY <2>6, <3>1
      <3>4. poOut' \in Seq(PoRow) /\ Len(poOut') = Len(poOut)
        BY <3>2, <3>3, <1>0
      <3>5. \A i \in DOMAIN poOut : poOut'[i].state # "new" => poTopic[i] > 0
        BY <2>4, <3>3, <1>0
      <3> QED
        BY <1>0, <2>1, <2>3, <3>4, <3>5, PoOutSet
    <2> QED
      BY <1>4, <2>2, <2>5, <2>6 DEF PoMarkPublished
  <1>5. ASSUME NEW r \in PoReplica, poTopic' = poTopic, poPub' = poPub, poOut' \in Seq(PoRow), Len(poOut') = Len(poOut),
               \A e \in DOMAIN poOut : poOut[e].state = "new" => poOut'[e].state = "new"
        PROVE  PoOutOK'
    <2>1. PICK w : w = poPub[r]
      OBVIOUS
    <2>2. PoPubOK(w, poTopic) /\ poPub' = [poPub EXCEPT ![r] = w]
      BY <1>5, <2>1 DEF PoOutOK, PoPubOK, PoPublisher
    <2> QED
      BY <1>0, <1>5, <2>2, PoOutSet
  <1>6. ASSUME NEW r \in PoReplica, PoCleanupRun PROVE PoOutOK'
    <2>1. poOut' = [i \in DOMAIN poOut |-> [poOut[i] EXCEPT !.state = IF @ = "old" THEN "gone" ELSE @]]
      BY <1>6 DEF PoCleanupRun, Cleanup
    <2>2. ASSUME NEW i \in DOMAIN poOut
          PROVE  poOut'[i] \in PoRow /\ (poOut[i].state = "new" => poOut'[i].state = "new")
      BY <2>1, <1>0 DEF PoRow
    <2>3. poOut' \in Seq(PoRow) /\ Len(poOut') = Len(poOut)
      <3>1. poOut' \in [1 .. Len(poOut) -> PoRow]
        BY <2>1, <2>2, <1>0
      <3> QED
        BY <3>1, <1>0
    <2> QED
      BY <2>2, <2>3, <1>5, <1>6 DEF PoCleanupRun
  <1>7. ASSUME PoAge PROVE PoOutOK'
    <2>1. PICK e \in DOMAIN poOut : poOut[e].state = "published" /\ poOut' = [poOut EXCEPT ![e].state = "old"]
      BY <1>7 DEF PoAge
    <2>2. PICK row : row = [poOut[e] EXCEPT !.state = "old"]
      OBVIOUS
    <2>3. row \in PoRow
      BY <2>2, <1>0 DEF PoRow
    <2>4. poOut' = [poOut EXCEPT ![e] = row]
      BY <2>1, <2>2
    <2>5. poOut' \in Seq(PoRow) /\ Len(poOut') = Len(poOut)
      BY <2>3, <2>4, <1>0
    <2>6. \A i \in DOMAIN poOut : poOut[i].state = "new" => poOut'[i].state = "new"
      BY <2>1, <2>4, <1>0
    <2>7. poTopic' = poTopic /\ poPub' = poPub
      BY <1>7 DEF PoAge
    <2>8. CASE PoReplica = {}
      <3>1. PoNothingLost'
        BY <2>1, <2>4, <2>5, <2>7, <1>0 DEF PoNothingLost
      <3> QED
        BY <2>5, <2>7, <2>8, <3>1 DEF PoOutOK, PoRow
    <2> QED
      BY <2>5, <2>6, <2>7, <2>8, <1>5
  <1> QED
    BY <1>2, <1>3, <1>4, <1>6, <1>7 DEF PoOutboxStep

\* The promise of the outbox: every step keeps it.
LEMMA PoOutStep ==
    ASSUME PoOutOK, [PoNext]_poVars
    PROVE  PoOutOK'
  <1>1. ASSUME UNCHANGED <<poOut, poTopic, poPub>> PROVE PoOutOK'
    BY <1>1 DEF PoOutOK, PoNothingLost
  <1>2. ASSUME NEW r \in PoReplica, PoCrash(r) PROVE PoOutOK'
    <2>1. poPub' = [poPub EXCEPT ![r] = PoIdlePub] /\ poOut' = poOut /\ poTopic' = poTopic
      BY <1>2 DEF PoCrash
    <2>2. PoPubOK(PoIdlePub, poTopic)
      BY DEF PoPubOK, PoIdlePub, PoPublisher
    <2>3. poOut \in Seq(PoRow) /\ poTopic \in Seq(Nat) /\ Len(poTopic) = Len(poOut)
      BY DEF PoOutOK, PoRow
    <2>4. DOMAIN poTopic = DOMAIN poOut
      BY <2>3
    <2>5. \A e \in DOMAIN poOut : poTopic[e] >= poTopic[e]
      BY <2>3, <2>4
    <2>6. \A e \in DOMAIN poOut : poOut[e].state # "new" => poTopic[e] > 0
      BY DEF PoOutOK, PoNothingLost
    <2> QED
      BY <2>1, <2>2, <2>3, <2>5, <2>6, PoOutSet
  <1>3. CASE PoCallStep
    <2>1. CASE PoInsertCreated \/ PoInsertAuthorized
      <3>1. "payment.created" \in PoText /\ "payment.authorized" \in PoText
        BY DEF PoText
      <3>2. UNCHANGED poPub
        BY <1>3 DEF PoCallStep
      <3> QED
        BY <2>1, <3>1, <3>2, PoInsertKeeps DEF PoInsertCreated, PoInsertAuthorized
    <2>2. CASE ~ (PoInsertCreated \/ PoInsertAuthorized)
      BY <1>1, <1>3, <2>2 DEF PoCallStep, PoCreatePayment, PoCreateAttempt, PoRefused, PoFailPayment, PoAuthorized,
                              PoSavePayment
    <2> QED
      BY <2>1, <2>2
  <1>4. (\E r \in PoReplica : PoBootStep(r)) \/ PoCustomer \/ PoAttemptStep \/ PoReadStep \/ UNCHANGED poVars
          => UNCHANGED <<poOut, poTopic, poPub>>
    BY DEF PoBootStep, PoCustomer, PoAttemptStep, PoReadStep, poVars
  <1> QED
    BY <1>1, <1>2, <1>3, <1>4, PoOutboxKeeps DEF PoNext

-----------------------------------------------------------------------------
(* Payments and attempts *)

\* The parts of PoPayOK.
LEMMA PoPayParts ==
    PoPayOK <=> /\ poPay \in Seq(PoPayment) /\ poAtt \in Seq(PoAttempt) /\ Len(poAtt) = Len(poPay)
                /\ poIntent \in Seq(PoIntentRow)
                /\ PoCallOK(poCall, poPay, poIntent)
                /\ PoCallFits(poCall, poAtt)
                /\ \A p \in DOMAIN poAtt : PoBacked(poAtt[p], poPay[p], poIntent)
  BY DEF PoPayOK

\* What the parts say of the lengths.
LEMMA PoPayFacts ==
    ASSUME PoPayOK
    PROVE  /\ poPay \in Seq(PoPayment) /\ poAtt \in Seq(PoAttempt)
           /\ poIntent \in Seq(PoIntentRow) /\ poCall \in PoCallRow
           /\ Len(poAtt) = Len(poPay) /\ Len(poPay) \in Nat /\ Len(poIntent) \in Nat
           /\ DOMAIN poPay = 1 .. Len(poPay) /\ DOMAIN poAtt = 1 .. Len(poPay)
           /\ DOMAIN poIntent = 1 .. Len(poIntent)
  <1>1. poPay \in Seq(PoPayment) /\ poAtt \in Seq(PoAttempt) /\ Len(poAtt) = Len(poPay)
        /\ poIntent \in Seq(PoIntentRow) /\ poCall \in PoCallRow
    BY PoPayParts DEF PoCallOK
  <1> QED
    BY <1>1

\* The primed form of PoPayParts.
LEMMA PoPayMade ==
    ASSUME poPay' \in Seq(PoPayment), poAtt' \in Seq(PoAttempt), Len(poAtt') = Len(poPay'),
           poIntent' \in Seq(PoIntentRow), PoCallOK(poCall', poPay', poIntent'), PoCallFits(poCall', poAtt'),
           \A p \in DOMAIN poAtt' : PoBacked(poAtt'[p], poPay'[p], poIntent')
    PROVE  PoPayOK'
  BY DEF PoPayOK, PoPayment, PoAttempt, PoIntentRow, PoCallRow, PoCallOK, PoCallFits, PoBacked

\* Intents only become more: calls and attempts stay as good as they were.
LEMMA PoIntentsGrow ==
    ASSUME PoPayOK, UNCHANGED poStore, poIntent' \in Seq(PoIntentRow), Len(poIntent') >= Len(poIntent),
           PoCallOK(poCall', poPay, poIntent'), PoCallFits(poCall', poAtt)
    PROVE  PoPayOK'
  <1>1. DOMAIN poIntent \subseteq DOMAIN poIntent' /\ Len(poIntent') \in Nat
    BY PoPayFacts
  <1>2. \A p \in DOMAIN poAtt : PoBacked(poAtt[p], poPay[p], poIntent')
    BY <1>1, PoPayParts DEF PoBacked
  <1> QED
    BY <1>2, PoPayFacts, PoPayMade DEF poStore

\* An attempt is written.
LEMMA PoAttemptSet ==
    ASSUME PoPayOK, UNCHANGED <<poPay, poIntent>>, NEW p \in DOMAIN poPay, NEW a,
           PoBacked(a, poPay[p], poIntent), poAtt' = [poAtt EXCEPT ![p] = a],
           NEW c, c = poCall', PoCallOK(c, poPay, poIntent),
           c.pc \in PoEarly => (IF p = c.p THEN a ELSE poAtt[c.p]).status # "SUCCEEDED",
           c.pc = "save" => LET b == IF p = c.p THEN a ELSE poAtt[c.p] IN b.status = "SUCCEEDED" => b.tx = c.tx
    PROVE  PoPayOK'
  <1>1. a \in PoAttempt
    BY DEF PoBacked
  <1>2. poAtt' \in Seq(PoAttempt) /\ Len(poAtt') = Len(poAtt) /\ DOMAIN poAtt' = DOMAIN poAtt
        /\ poAtt'[p] = a /\ \A q \in DOMAIN poAtt : q # p => poAtt'[q] = poAtt[q]
    BY <1>1, PoPayFacts
  <1>3. ASSUME NEW q \in DOMAIN poAtt PROVE PoBacked(poAtt'[q], poPay[q], poIntent)
    <2>1. CASE q = p
      BY <2>1, <1>2
    <2>2. CASE q # p
      BY <2>2, <1>2, PoPayParts
    <2> QED
      BY <2>1, <2>2
  <1>4. PICK atts : atts = poAtt'
    OBVIOUS
  <1>5. PoCallFits(c, atts)
    <2>1. c.pc # "idle" => c.p \in DOMAIN poAtt
      BY PoPayFacts DEF PoCallOK
    <2>2. c.pc # "idle" => atts[c.p] = IF p = c.p THEN a ELSE poAtt[c.p]
      BY <1>2, <1>4, <2>1
    <2> QED
      BY <2>2 DEF PoCallFits, PoEarly
  <1>6. poPay \in Seq(PoPayment) /\ poIntent \in Seq(PoIntentRow) /\ Len(poAtt) = Len(poPay)
    BY PoPayFacts
  <1>7. poPay' = poPay /\ poIntent' = poIntent
    OBVIOUS
  <1>8. PoCallOK(poCall', poPay', poIntent') /\ PoCallFits(poCall', poAtt')
    BY <1>4, <1>5, <1>7
  <1>9. \A q \in DOMAIN poAtt' : PoBacked(poAtt'[q], poPay'[q], poIntent')
    BY <1>2, <1>3, <1>7
  <1> QED
    BY <1>2, <1>6, <1>7, <1>8, <1>9, PoPayMade

\* A payment is written: the call that does so has no other write to come.
LEMMA PoPaymentSet ==
    ASSUME PoPayOK, UNCHANGED <<poAtt, poIntent>>, NEW p \in DOMAIN poPay, NEW y \in PoPayment,
           PoBacked(poAtt[p], y, poIntent), poPay' = [poPay EXCEPT ![p] = y],
           NEW c \in PoCallRow, c = poCall', c.pc \in {"idle", "announce"}, c.pc # "idle" => c.p \in DOMAIN poPay
    PROVE  PoPayOK'
  <1>1. /\ poPay' \in Seq(PoPayment) /\ Len(poPay') = Len(poPay) /\ DOMAIN poPay' = DOMAIN poPay
        /\ poPay'[p] = y /\ \A q \in DOMAIN poPay : q # p => poPay'[q] = poPay[q]
    BY PoPayFacts
  <1>2. ASSUME NEW q \in DOMAIN poAtt PROVE PoBacked(poAtt[q], poPay'[q], poIntent)
    <2>0. q \in DOMAIN poPay
      BY PoPayFacts
    <2>1. CASE q = p
      BY <2>1, <1>1
    <2>2. CASE q # p
      BY <2>0, <2>2, <1>1, PoPayParts
    <2> QED
      BY <2>1, <2>2
  <1>3. PICK pays : pays = poPay'
    OBVIOUS
  <1>4. PoCallOK(c, pays, poIntent) /\ PoCallFits(c, poAtt)
    BY <1>1, <1>3 DEF PoCallOK, PoCallFits, PoEarly
  <1>5. poAtt \in Seq(PoAttempt) /\ poIntent \in Seq(PoIntentRow) /\ Len(poAtt) = Len(poPay)
    BY PoPayFacts
  <1>6. poAtt' = poAtt /\ poIntent' = poIntent
    OBVIOUS
  <1>7. PoCallOK(poCall', poPay', poIntent') /\ PoCallFits(poCall', poAtt')
    BY <1>3, <1>4, <1>6
  <1>8. \A q \in DOMAIN poAtt' : PoBacked(poAtt'[q], poPay'[q], poIntent')
    BY <1>2, <1>6
  <1> QED
    BY <1>1, <1>5, <1>6, <1>7, <1>8, PoPayMade

\* No call is under way.
LEMMA PoNoCallOK ==
    /\ PoNoCall \in PoCallRow /\ PoNoCall.pc = "idle"
    /\ PoCallOK(PoNoCall, poPay, poIntent) /\ PoCallFits(PoNoCall, poAtt)
  <1>1. PICK zero : zero = 0 /\ zero \in Nat
    OBVIOUS
  <1>2. PICK c : c = PoNoCall
    OBVIOUS
  <1>3. c = [pc |-> "idle", p |-> zero, key |-> "", tx |-> zero, err |-> ""]
    BY <1>1, <1>2 DEF PoNoCall
  <1>4. "" \in PoText
    BY DEF PoText
  <1>5. c \in PoCallRow /\ c.pc = "idle"
    BY <1>1, <1>3, <1>4 DEF PoCallRow
  <1> QED
    BY <1>2, <1>5 DEF PoCallOK, PoCallFits, PoEarly

\* A new intent is one more.
LEMMA PoNewIntentOK ==
    ASSUME PoPayOK, NEW k \in PoText
    PROVE  /\ NewIntent(k) \in Seq(PoIntentRow)
           /\ Len(NewIntent(k)) = Len(poIntent) + 1
           /\ Len(poIntent) + 1 \in DOMAIN NewIntent(k)
  <1>1. PICK row : row = [key |-> k, status |-> "requires_payment_method"]
    OBVIOUS
  <1>2. row \in PoIntentRow
    <2>1. "requires_payment_method" \in PoText
      BY DEF PoText
    <2> QED
      BY <1>1, <2>1 DEF PoIntentRow
  <1>3. NewIntent(k) = Append(poIntent, row)
    BY <1>1 DEF NewIntent
  <1>4. poIntent \in Seq(PoIntentRow) /\ Len(poIntent) \in Nat
    BY PoPayFacts
  <1>5. DOMAIN Append(poIntent, row) = 1 .. (Len(poIntent) + 1)
    BY <1>2, <1>4, Appended
  <1> QED
    BY <1>2, <1>3, <1>4, <1>5, Appended

\* createPayment writes its payment; there is no attempt beside it yet.
LEMMA PoCreateKeeps ==
    ASSUME PoPayOK, PoRunOK, PoCreatePayment
    PROVE  PoPayOK'
  <1>1. PICK q \in PoCreateRequest : q = Head(poRun.requests)
    BY DEF PoCreatePayment, PoRunOK
  <1>2. PICK zero : zero = 0 /\ zero \in Nat
    OBVIOUS
  <1>3. PICK y : y = [user |-> q.user, status |-> "PENDING", intent |-> zero]
    OBVIOUS
  <1>4. PICK a : a = [status |-> "none", tx |-> zero]
    OBVIOUS
  <1>5. q.user \in PoText /\ q.key \in PoText
    BY DEF PoCreateRequest, PoText
  <1>6. y \in PoPayment /\ a \in PoAttempt /\ a.status = "none" /\ y.status = "PENDING"
    BY <1>2, <1>3, <1>4, <1>5 DEF PoPayment, PoAttempt
  <1> DEFINE n == Len(poPay)
  <1>7. poIntent' = poIntent
    BY DEF PoCreatePayment
  <1>a. CASE UNCHANGED <<poStore, poCall>>
    <2>1. PoCallOK(poCall', poPay, poIntent') /\ PoCallFits(poCall', poAtt)
      BY <1>a, <1>7, PoPayParts
    <2>2. poIntent' \in Seq(PoIntentRow) /\ Len(poIntent') >= Len(poIntent)
      BY <1>7, PoPayFacts
    <2> QED
      BY <2>1, <2>2, <1>a, PoIntentsGrow
  <1>b. CASE /\ PoInsertPayment(q.user)
             /\ poAtt' = Append(poAtt, PoNoAttempt)
             /\ poCall' = [PoNoCall EXCEPT !.pc = "created", !.p = n + 1, !.key = q.key]
    <2>1. poPay' = Append(poPay, y) /\ poAtt' = Append(poAtt, a)
      BY <1>b, <1>2, <1>3, <1>4 DEF PoInsertPayment, PoNoAttempt
    <2>2. /\ poPay' \in Seq(PoPayment) /\ poAtt' \in Seq(PoAttempt) /\ Len(poAtt') = Len(poPay')
          /\ DOMAIN poPay' = 1 .. (n + 1) /\ DOMAIN poAtt' = 1 .. (n + 1) /\ n \in Nat
          /\ \A e \in 1 .. n : poPay'[e] = poPay[e] /\ poAtt'[e] = poAtt[e]
          /\ poAtt'[n + 1] = a /\ poPay'[n + 1] = y
      BY <1>6, <2>1, PoPayFacts, Appended
    <2>3. \A p \in DOMAIN poAtt' : PoBacked(poAtt'[p], poPay'[p], poIntent')
      <3>1. \A p \in 1 .. n : PoBacked(poAtt'[p], poPay'[p], poIntent')
        BY <1>7, <2>2, PoPayFacts, PoPayParts
      <3>2. \A y2 : PoBacked(a, y2, poIntent')
        BY <1>6 DEF PoBacked
      <3>3. \A p \in 1 .. (n + 1) : p \in 1 .. n \/ p = n + 1
        BY <2>2
      <3> QED
        BY <2>2, <3>1, <3>2, <3>3
    <2>4. PICK m : m = n + 1
      OBVIOUS
    <2>5. PICK c : c = poCall'
      OBVIOUS
    <2>6. PICK pays : pays = poPay'
      OBVIOUS
    <2>7. PICK atts : atts = poAtt'
      OBVIOUS
    <2>8. c = [pc |-> "created", p |-> m, key |-> q.key, tx |-> zero, err |-> ""]
      BY <1>b, <1>2, <2>4, <2>5 DEF PoNoCall
    <2>9. m \in Nat /\ m \in DOMAIN pays /\ pays[m].status = "PENDING" /\ atts[m].status = "none" /\ "" \in PoText
      BY <1>6, <2>2, <2>4, <2>6, <2>7 DEF PoText
    <2> HIDE <1>2
    <2>10. c \in PoCallRow /\ c.pc = "created" /\ c.p = m
      BY <1>2, <1>5, <2>8, <2>9 DEF PoCallRow
    <2>11. PoCallOK(c, pays, poIntent) /\ PoCallFits(c, atts)
      BY <2>9, <2>10 DEF PoCallOK, PoCallFits, PoEarly
    <2>12. PoCallOK(poCall', poPay', poIntent') /\ PoCallFits(poCall', poAtt')
      BY <2>11, <2>5, <2>6, <2>7, <1>7
    <2>13. poIntent' \in Seq(PoIntentRow)
      BY <1>7, PoPayFacts
    <2> QED
      BY <2>2, <2>3, <2>12, <2>13, PoPayMade
  <1> QED
    BY <1>1, <1>a, <1>b DEF PoCreatePayment

\* The call moves on; the store stays.
LEMMA PoCallMoves ==
    ASSUME PoPayOK, UNCHANGED poStore, poIntent' \in Seq(PoIntentRow), Len(poIntent') >= Len(poIntent),
           NEW pc \in PoEarly, NEW tx \in Nat, NEW err \in PoText,
           poCall.pc \in PoEarly, poCall' = [poCall EXCEPT !.pc = pc, !.tx = tx, !.err = err],
           pc \in {"session", "record"} => tx \in DOMAIN poIntent'
    PROVE  PoPayOK'
  <1>1. PoCallOK(poCall, poPay, poIntent) /\ PoCallFits(poCall, poAtt)
    BY PoPayParts
  <1>2. poCall' \in PoCallRow /\ poCall'.pc = pc /\ poCall'.p = poCall.p /\ poCall'.tx = tx
    BY <1>1 DEF PoCallOK, PoCallRow, PoEarly
  <1>3. PICK c : c = poCall'
    OBVIOUS
  <1>4. PICK intents : intents = poIntent'
    OBVIOUS
  <1>5. PoCallOK(c, poPay, intents) /\ PoCallFits(c, poAtt)
    BY <1>1, <1>2, <1>3, <1>4 DEF PoCallOK, PoCallFits, PoEarly
  <1> QED
    BY <1>3, <1>4, <1>5, PoIntentsGrow

\* paymentintent.New and session.New only add intents and note their number.
LEMMA PoAuthorizeKeeps ==
    ASSUME PoPayOK, AuthorizeIntent \/ AuthorizeSession, UNCHANGED poStore
    PROVE  PoPayOK'
  <1>1. poCall \in PoCallRow /\ poIntent \in Seq(PoIntentRow) /\ Len(poIntent) \in Nat
        /\ DOMAIN poIntent = 1 .. Len(poIntent)
    BY PoPayFacts
  <1>2. poCall.key \in PoText /\ poCall.tx \in Nat /\ poCall.err \in PoText
    BY <1>1 DEF PoCallRow
  <1>k. "" \in PoText /\ \A e : NormalizeStripeError(e) \in PoText
    BY DEF PoText, NormalizeStripeError
  <1>3. NewIntent(poCall.key) \in Seq(PoIntentRow) /\ Len(NewIntent(poCall.key)) = Len(poIntent) + 1
        /\ Len(poIntent) + 1 \in DOMAIN NewIntent(poCall.key)
    BY <1>2, PoNewIntentOK
  <1>4. NewIntent("") \in Seq(PoIntentRow) /\ Len(NewIntent("")) = Len(poIntent) + 1
        /\ Len(poIntent) + 1 \in DOMAIN NewIntent("")
    BY <1>k, PoNewIntentOK
  <1>5. CASE AuthorizeIntent
    <2>0. poCall.pc \in PoEarly /\ {"session", "record", "refused"} \subseteq PoEarly
      BY <1>5 DEF AuthorizeIntent, PoEarly
    <2>1. CASE IntentsOf(poCall.key) # {} /\ UNCHANGED poIntent
               /\ poCall' = [poCall EXCEPT !.pc = "session", !.tx = CHOOSE i \in IntentsOf(poCall.key) : TRUE]
      <3>1. PICK i : i = CHOOSE j \in IntentsOf(poCall.key) : TRUE
        OBVIOUS
      <3>2. i \in DOMAIN poIntent
        BY <2>1, <3>1 DEF IntentsOf
      <3>3. poCall' = [poCall EXCEPT !.pc = "session", !.tx = i, !.err = poCall.err]
        BY <2>1, <3>1, <1>1 DEF PoCallRow
      <3>4. poIntent' \in Seq(PoIntentRow) /\ Len(poIntent') >= Len(poIntent) /\ i \in DOMAIN poIntent' /\ i \in Nat
        BY <3>2, <1>1, <2>1
      <3> QED
        BY <3>3, <3>4, <1>2, <2>0, PoCallMoves
    <2>2. CASE poIntent' = NewIntent(poCall.key)
               /\ poCall' = [poCall EXCEPT !.pc = "session", !.tx = Len(poIntent) + 1]
      <3>3. poCall' = [poCall EXCEPT !.pc = "session", !.tx = Len(poIntent) + 1, !.err = poCall.err]
        BY <2>2, <1>1 DEF PoCallRow
      <3>4. poIntent' \in Seq(PoIntentRow) /\ Len(poIntent') >= Len(poIntent) /\ Len(poIntent) + 1 \in DOMAIN poIntent'
            /\ Len(poIntent) + 1 \in Nat
        BY <1>1, <1>3, <2>2
      <3> QED
        BY <3>3, <3>4, <1>2, <2>0, PoCallMoves
    <2>3. ASSUME NEW e \in PoStripeErrors, poIntent' = NewIntent(poCall.key) \/ poIntent' = poIntent,
                 poCall' = [poCall EXCEPT !.pc = "refused", !.err = NormalizeStripeError(e)]
          PROVE  PoPayOK'
      <3>1. PICK err \in PoText : err = NormalizeStripeError(e)
        BY <1>k
      <3>2. poCall' = [poCall EXCEPT !.pc = "refused", !.tx = poCall.tx, !.err = err]
        BY <2>3, <3>1, <1>1 DEF PoCallRow
      <3>3. poIntent' \in Seq(PoIntentRow) /\ Len(poIntent') >= Len(poIntent)
        BY <1>1, <1>3, <2>3
      <3> QED
        BY <3>2, <3>3, <1>2, <2>0, PoCallMoves
    <2> QED
      BY <1>5, <2>1, <2>2, <2>3 DEF AuthorizeIntent
  <1>6. CASE AuthorizeSession
    <2>0. poCall.pc \in PoEarly /\ {"session", "record", "refused"} \subseteq PoEarly /\ poCall.tx \in DOMAIN poIntent
      BY <1>6, PoPayParts DEF AuthorizeSession, PoCallOK, PoEarly
    <2>1. CASE poIntent' = NewIntent("") /\ poCall' = [poCall EXCEPT !.pc = "record", !.tx = Len(poIntent) + 1]
      <3>3. poCall' = [poCall EXCEPT !.pc = "record", !.tx = Len(poIntent) + 1, !.err = poCall.err]
        BY <2>1, <1>1 DEF PoCallRow
      <3>4. poIntent' \in Seq(PoIntentRow) /\ Len(poIntent') >= Len(poIntent) /\ Len(poIntent) + 1 \in DOMAIN poIntent'
            /\ Len(poIntent) + 1 \in Nat
        <4>1. poIntent' = NewIntent("")
          BY <2>1
        <4>2. Len(poIntent) + 1 >= Len(poIntent) /\ Len(poIntent) + 1 \in Nat
          BY <1>1
        <4> QED
          BY <1>4, <4>1, <4>2, Zenon
      <3> QED
        BY <3>3, <3>4, <1>2, <2>0, PoCallMoves
    <2>2. CASE UNCHANGED poIntent /\ poCall' = [poCall EXCEPT !.pc = "record"]
      <3>1. poCall' = [poCall EXCEPT !.pc = "record", !.tx = poCall.tx, !.err = poCall.err]
        BY <2>2, <1>1 DEF PoCallRow
      <3>2. poIntent' \in Seq(PoIntentRow) /\ Len(poIntent') >= Len(poIntent) /\ poCall.tx \in DOMAIN poIntent'
        BY <2>0, <1>1, <2>2
      <3> QED
        BY <3>1, <3>2, <2>0, <1>2, PoCallMoves
    <2> QED
      BY <1>6, <2>1, <2>2 DEF AuthorizeSession
  <1> QED
    BY <1>5, <1>6

\* UpdateStatus, whatever comes of it, leaves the attempt or writes it.
LEMMA PoWritten ==
    ASSUME PoPayOK, NEW p \in DOMAIN poPay, NEW b, poAtt' = poAtt \/ poAtt' = PoUpdateAttempt(p, b)
    PROVE  \E a \in {poAtt[p], b} : poAtt' = [poAtt EXCEPT ![p] = a]
  <1>1. DOMAIN poAtt = DOMAIN poPay /\ poAtt = [q \in DOMAIN poAtt |-> poAtt[q]]
    BY PoPayFacts
  <1>2. poAtt = [poAtt EXCEPT ![p] = poAtt[p]]
    BY <1>1
  <1>3. PICK a : a = IF poAtt[p] = PoNoAttempt THEN poAtt[p] ELSE b
    OBVIOUS
  <1>4. PoUpdateAttempt(p, b) = [poAtt EXCEPT ![p] = a]
    BY <1>3 DEF PoUpdateAttempt
  <1> QED
    BY <1>2, <1>3, <1>4

\* What a call finds on its payment and its attempt.
LEMMA PoCallFacts ==
    ASSUME PoPayOK, poCall.pc # "idle"
    PROVE  /\ poCall \in PoCallRow /\ poCall.p \in DOMAIN poPay /\ poPay[poCall.p] \in PoPayment
           /\ poAtt[poCall.p] \in PoAttempt /\ PoBacked(poAtt[poCall.p], poPay[poCall.p], poIntent)
           /\ poCall.pc \in PoEarly \cup {"save"} => poPay[poCall.p].status = "PENDING"
           /\ poCall.pc \in PoEarly => poAtt[poCall.p].status # "SUCCEEDED"
           /\ poCall.pc = "save" /\ poAtt[poCall.p].status = "SUCCEEDED" => poAtt[poCall.p].tx = poCall.tx
           /\ poCall.pc \in {"record", "save"} => poCall.tx \in DOMAIN poIntent
  <1>1. poCall.p \in DOMAIN poPay
    BY PoPayParts DEF PoCallOK
  <1>2. poCall.p \in DOMAIN poAtt
    BY <1>1, PoPayFacts
  <1>3. poPay[poCall.p] \in PoPayment /\ poAtt[poCall.p] \in PoAttempt /\ poCall \in PoCallRow
    BY <1>1, <1>2, PoPayFacts
  <1> QED
    BY <1>1, <1>2, <1>3, PoPayParts DEF PoCallOK, PoCallFits

\* The attempt is created, refused or recorded: its row changes or not, the payment never.
LEMMA PoRecordKeeps ==
    ASSUME PoPayOK, PoCreateAttempt \/ PoRefused \/ PoAuthorized
    PROVE  PoPayOK'
  <1>0. poCall.pc \in PoEarly /\ poCall.pc # "idle" /\ UNCHANGED <<poPay, poIntent>>
    BY DEF PoCreateAttempt, PoRefused, PoAuthorized, PoEarly
  <1>1. PICK p \in DOMAIN poPay : p = poCall.p
    BY <1>0, PoCallFacts
  <1>2. /\ poCall \in PoCallRow /\ poAtt[p].status # "SUCCEEDED" /\ poPay[p].status = "PENDING"
        /\ PoBacked(poAtt[p], poPay[p], poIntent)
    BY <1>0, <1>1, PoCallFacts
  <1>3. PICK zero : zero = 0 /\ zero \in Nat
    OBVIOUS
  <1>4. PICK c : c = poCall'
    OBVIOUS
  <1>5. ASSUME NEW s \in {"PROCESSING", "FAILED", "UNKNOWN"}, NEW b, b = [status |-> s, tx |-> zero]
        PROVE  PoBacked(b, poPay[p], poIntent) /\ b.status # "SUCCEEDED"
    BY <1>3, <1>5 DEF PoBacked, PoAttempt
  <1>6. ASSUME NEW pc \in PoEarly \cup {"save"}, c = [poCall EXCEPT !.pc = pc],
               pc \in {"session", "record", "save"} => poCall.tx \in DOMAIN poIntent
        PROVE  PoCallOK(c, poPay, poIntent) /\ c.pc = pc /\ c.p = p /\ c.tx = poCall.tx
    <2>1. c \in PoCallRow /\ c.pc = pc /\ c.p = p /\ c.tx = poCall.tx
      BY <1>1, <1>2, <1>6 DEF PoCallRow, PoEarly
    <2> QED
      BY <2>1, <1>2, <1>6 DEF PoCallOK
  <1>7. CASE PoCreateAttempt
    <2>1. PICK b : b = [status |-> "PROCESSING", tx |-> zero]
      OBVIOUS
    <2>2. poAtt' = poAtt \/ poAtt' = [poAtt EXCEPT ![p] = b]
      BY <1>7, <1>1, <1>3, <2>1 DEF PoCreateAttempt, PoWriteAttempt, PoNewAttempt
    <2>3. poAtt = [poAtt EXCEPT ![p] = poAtt[p]]
      BY PoPayFacts
    <2>4. PICK a \in {poAtt[p], b} : poAtt' = [poAtt EXCEPT ![p] = a]
      BY <2>2, <2>3
    <2>5. PoBacked(a, poPay[p], poIntent) /\ a.status # "SUCCEEDED"
      BY <1>2, <1>5, <2>1, <2>4
    <2>6. c = [poCall EXCEPT !.pc = "intent"] /\ "intent" \in PoEarly
      BY <1>7, <1>4 DEF PoCreateAttempt, PoEarly
    <2>7. PoCallOK(c, poPay, poIntent) /\ c.pc = "intent" /\ c.p = p
      BY <1>6, <2>6
    <2> QED
      BY <1>0, <1>4, <2>4, <2>5, <2>7, PoAttemptSet
  <1>8. CASE PoRefused
    <2>1. PICK b : b = [status |-> IF poCall.err = "TIMEOUT" THEN "UNKNOWN" ELSE "FAILED", tx |-> zero]
      OBVIOUS
    <2>2. poAtt' = poAtt \/ poAtt' = PoUpdateAttempt(p, b)
      BY <1>8, <1>1, <1>3, <2>1 DEF PoRefused, PoWriteAttempt, PoMarkUnknown, PoFail
    <2>3. PICK a \in {poAtt[p], b} : poAtt' = [poAtt EXCEPT ![p] = a]
      BY <2>2, PoWritten
    <2>4. PoBacked(a, poPay[p], poIntent) /\ a.status # "SUCCEEDED"
      BY <1>2, <1>5, <2>1, <2>3
    <2>5. PoCallOK(c, poPay, poIntent) /\ c.pc # "save" /\ (c.pc # "idle" => c.p = p)
      <3>1. CASE c = PoNoCall
        BY <3>1, PoNoCallOK
      <3>2. CASE c = [poCall EXCEPT !.pc = "fail"]
        <4>1. "fail" \in PoEarly
          BY DEF PoEarly
        <4> QED
          BY <3>2, <4>1, <1>6
      <3> QED
        BY <1>8, <1>4, <3>1, <3>2 DEF PoRefused
    <2>6. c.pc \in PoEarly => c.p = p
      BY <2>5 DEF PoEarly
    <2> QED
      BY <1>0, <1>4, <2>3, <2>4, <2>5, <2>6, PoAttemptSet
  <1>9. CASE PoAuthorized
    <2>1. PICK t : t = poCall.tx
      OBVIOUS
    <2>2. t \in Nat /\ t \in DOMAIN poIntent
      BY <1>9, <2>1, PoCallFacts DEF PoAuthorized, PoCallRow
    <2>3. PICK b : b = [status |-> "SUCCEEDED", tx |-> t]
      OBVIOUS
    <2>4. poAtt' = poAtt \/ poAtt' = PoUpdateAttempt(p, b)
      BY <1>9, <1>1, <2>1, <2>3 DEF PoAuthorized, PoWriteAttempt, PoSucceed
    <2>5. PICK a \in {poAtt[p], b} : poAtt' = [poAtt EXCEPT ![p] = a]
      BY <2>4, PoWritten
    <2>6. PoBacked(a, poPay[p], poIntent) /\ (a.status = "SUCCEEDED" => a.tx = t)
      <3>1. PoBacked(b, poPay[p], poIntent) /\ b.tx = t
        BY <2>2, <2>3, <1>2 DEF PoBacked, PoAttempt
      <3> QED
        BY <3>1, <2>5, <1>2
    <2>7. c = [poCall EXCEPT !.pc = "save"]
      BY <1>9, <1>4 DEF PoAuthorized
    <2>8. PoCallOK(c, poPay, poIntent) /\ c.pc = "save" /\ c.p = p /\ c.tx = t
      BY <1>6, <2>1, <2>2, <2>7
    <2>9. c.pc \notin PoEarly
      BY <2>8 DEF PoEarly
    <2> QED
      BY <1>0, <1>4, <2>5, <2>6, <2>8, <2>9, PoAttemptSet
  <1> QED
    BY <1>7, <1>8, <1>9

\* The payment is written after its attempt: FAILED where that has not succeeded,
\* AUTHORIZED with the intent that was recorded.
LEMMA PoSaveKeeps ==
    ASSUME PoPayOK, PoFailPayment \/ PoSavePayment
    PROVE  PoPayOK'
  <1>0. poCall.pc \in {"fail", "save"} /\ UNCHANGED <<poAtt, poIntent>>
    BY DEF PoFailPayment, PoSavePayment
  <1>1. PICK p \in DOMAIN poPay : p = poCall.p
    BY <1>0, PoCallFacts
  <1>2. poCall \in PoCallRow /\ poPay[p] \in PoPayment /\ PoBacked(poAtt[p], poPay[p], poIntent)
    BY <1>0, <1>1, PoCallFacts
  <1>3. PICK c : c = poCall'
    OBVIOUS
  <1>4. c \in PoCallRow /\ c.pc \in {"idle", "announce"} /\ (c.pc # "idle" => c.p \in DOMAIN poPay)
    <2>1. CASE c = PoNoCall
      BY <2>1, PoNoCallOK
    <2>2. CASE c = [poCall EXCEPT !.pc = "announce"]
      BY <2>2, <1>1, <1>2 DEF PoCallRow
    <2> QED
      BY <2>1, <2>2, <1>3 DEF PoFailPayment, PoSavePayment
  <1>5. ASSUME NEW y \in PoPayment, PoBacked(poAtt[p], y, poIntent), poPay' = [poPay EXCEPT ![p] = y] PROVE PoPayOK'
    BY <1>0, <1>3, <1>4, <1>5, PoPaymentSet
  <1>6. CASE UNCHANGED poPay
    <2>1. PICK y \in PoPayment : y = poPay[p]
      BY <1>2
    <2>2. poPay' = [poPay EXCEPT ![p] = y]
      BY <1>6, <2>1, PoPayFacts
    <2> QED
      BY <1>2, <1>5, <2>1, <2>2
  <1>7. CASE PoFailPayment /\ ~ UNCHANGED poPay
    <2>1. PICK y : y = [poPay[p] EXCEPT !.status = "FAILED"]
      OBVIOUS
    <2>2. y \in PoPayment
      BY <2>1, <1>2 DEF PoPayment
    <2>3. poPay' = [poPay EXCEPT ![p] = y]
      BY <1>7, <1>1, <2>1 DEF PoFailPayment
    <2>4. poAtt[p].status # "SUCCEEDED"
      BY <1>7, <1>1, PoCallFacts DEF PoFailPayment, PoEarly
    <2>5. PoBacked(poAtt[p], y, poIntent)
      BY <1>2, <2>4 DEF PoBacked
    <2> QED
      BY <1>5, <2>2, <2>3, <2>5
  <1>8. CASE PoSavePayment /\ ~ UNCHANGED poPay
    <2>1. PICK t : t = poCall.tx
      OBVIOUS
    <2>2. PICK y : y = [[poPay[p] EXCEPT !.status = "AUTHORIZED"] EXCEPT !.intent = t]
      OBVIOUS
    <2>3. t \in Nat
      BY <2>1, <1>2 DEF PoCallRow
    <2>4. y \in PoPayment /\ y.intent = t /\ y.status = "AUTHORIZED"
      BY <2>2, <2>3, <1>2 DEF PoPayment
    <2>5. poPay' = [poPay EXCEPT ![p] = y]
      BY <1>8, <1>1, <1>2, <2>1, <2>2, PoPayFacts DEF PoSavePayment
    <2>6. poAtt[p].status = "SUCCEEDED" => poAtt[p].tx = t
      BY <1>8, <1>1, <2>1, PoCallFacts DEF PoSavePayment
    <2>7. PoBacked(poAtt[p], y, poIntent)
      BY <1>2, <2>4, <2>6 DEF PoBacked
    <2> QED
      BY <1>5, <2>4, <2>5, <2>7
  <1> QED
    BY <1>6, <1>7, <1>8

\* An attempt without a transaction is never reconciled into a success, and
\* a stuck one becomes unknown.
LEMMA PoAttemptKeeps ==
    ASSUME PoPayOK, PoRecOK, PoAttemptStep
    PROVE  PoPayOK' /\ PoRecOK'
  <1>0. poPay' = poPay /\ poIntent' = poIntent /\ poCall' = poCall
    BY DEF PoAttemptStep
  <1>f. /\ poPay \in Seq(PoPayment) /\ DOMAIN poPay = 1 .. Len(poPay) /\ DOMAIN poAtt = 1 .. Len(poPay)
        /\ poAtt \in Seq(PoAttempt) /\ PoCallOK(poCall, poPay, poIntent)
        /\ \A p \in DOMAIN poAtt : poAtt[p] \in PoAttempt
    BY PoPayFacts, PoPayParts
  <1>1. PICK r \in PoReplica : PoFindAttempts(r) \/ ReconcileOne(r) \/ PoMarkStuck(r)
    BY DEF PoAttemptStep
  <1>2. ASSUME UNCHANGED poAtt PROVE PoPayOK'
    BY <1>0, <1>2 DEF PoPayOK
  <1>3. ASSUME DOMAIN poAtt' = DOMAIN poAtt, NEW found,
               found \subseteq [job : {"reconcile", "stuck"}, p : Nat, tx : {0}],
               \A a \in found : a.p \in DOMAIN poAtt,
               poRec' = [poRec EXCEPT ![r] = found]
        PROVE  PoRecOK'
    <2>1. poRec' \in [PoReplica -> SUBSET [job : {"reconcile", "stuck"}, p : Nat, tx : {0}]]
      BY <1>3 DEF PoRecOK
    <2>2. \A q \in PoReplica : poRec'[q] = poRec[q] \/ poRec'[q] = found
      BY <1>3 DEF PoRecOK
    <2>3. \A q \in PoReplica : \A a \in poRec'[q] : a.p \in DOMAIN poAtt'
      BY <1>3, <2>2 DEF PoRecOK
    <2> QED
      BY <2>1, <2>3 DEF PoRecOK
  <1>4. CASE PoFindAttempts(r)
    <2>1. PICK found \in {FindUnknown, FindStuckAttempts} : poRec' = [poRec EXCEPT ![r] = found]
      BY <1>4 DEF PoFindAttempts
    <2>2. UNCHANGED poAtt
      BY <1>4 DEF PoFindAttempts
    <2>3. ASSUME NEW a \in FindUnknown
          PROVE  a \in [job : {"reconcile", "stuck"}, p : Nat, tx : {0}] /\ a.p \in DOMAIN poAtt
      <3>1. PICK p \in DOMAIN poAtt : poAtt[p].status = "UNKNOWN" /\ a = [job |-> "reconcile", p |-> p, tx |-> poAtt[p].tx]
        BY <2>3 DEF FindUnknown
      <3>2. PICK t : t = poAtt[p].tx
        OBVIOUS
      <3>3. t \in {0} /\ p \in Nat
        BY <3>1, <3>2, <1>f, PoPayParts DEF PoBacked
      <3>4. a = [job |-> "reconcile", p |-> p, tx |-> t]
        BY <3>1, <3>2
      <3> QED
        BY <3>3, <3>4
    <2>4. ASSUME NEW a \in FindStuckAttempts
          PROVE  a \in [job : {"reconcile", "stuck"}, p : Nat, tx : {0}] /\ a.p \in DOMAIN poAtt
      <3>1. PICK p \in DOMAIN poAtt : a = [job |-> "stuck", p |-> p, tx |-> 0]
        BY <2>4 DEF FindStuckAttempts
      <3>2. PICK t : t = 0 /\ t \in {0}
        OBVIOUS
      <3>3. a = [job |-> "stuck", p |-> p, tx |-> t] /\ p \in Nat
        BY <3>1, <3>2, <1>f
      <3> QED
        BY <3>2, <3>3
    <2>5. found \subseteq [job : {"reconcile", "stuck"}, p : Nat, tx : {0}] /\ \A a \in found : a.p \in DOMAIN poAtt
      BY <2>1, <2>3, <2>4
    <2> QED
      BY <1>2, <1>3, <2>1, <2>2, <2>5
  <1>5. ASSUME NEW a \in poRec[r]
        PROVE  /\ a \in [job : {"reconcile", "stuck"}, p : Nat, tx : {0}] /\ a.tx = 0 /\ a.p \in DOMAIN poAtt
               /\ poRec[r] \ {a} \subseteq [job : {"reconcile", "stuck"}, p : Nat, tx : {0}]
               /\ \A b \in poRec[r] \ {a} : b.p \in DOMAIN poAtt
    BY DEF PoRecOK
  <1>6. CASE ReconcileOne(r)
    <2>1. PICK a \in poRec[r] :
             /\ poRec' = [poRec EXCEPT ![r] = @ \ {a}]
             /\ poAtt' = IF GetStatus(a.tx) \notin {"SUCCEEDED", "AUTHORIZED", "FAILED", "CANCELED"} THEN poAtt
                         ELSE PoUpdateAttempt(a.p, Reconciled(GetStatus(a.tx), a.tx))
      BY <1>6 DEF ReconcileOne
    <2>2. GetStatus(a.tx) = "error"
      BY <1>5 DEF GetStatus
    <2>3. poAtt' = poAtt
      BY <2>1, <2>2
    <2>4. PICK found : found = poRec[r] \ {a}
      OBVIOUS
    <2> QED
      BY <1>2, <1>3, <1>5, <2>1, <2>3, <2>4
  <1>7. CASE PoMarkStuck(r)
    <2>1. PICK a \in poRec[r] :
             /\ poRec' = [poRec EXCEPT ![r] = @ \ {a}]
             /\ poAtt' \in {poAtt, PoUpdateAttempt(a.p, PoMarkUnknown)}
      BY <1>7 DEF PoMarkStuck
    <2>2. PICK zero : zero = 0 /\ zero \in Nat
      OBVIOUS
    <2>3. PICK p \in DOMAIN poPay : p = a.p
      BY <1>5, <1>f
    <2>4. PICK b : b = [status |-> "UNKNOWN", tx |-> zero]
      OBVIOUS
    <2>5. poAtt' = poAtt \/ poAtt' = PoUpdateAttempt(p, b)
      BY <2>1, <2>2, <2>3, <2>4 DEF PoMarkUnknown
    <2>6. PICK w \in {poAtt[p], b} : poAtt' = [poAtt EXCEPT ![p] = w]
      BY <2>5, PoWritten
    <2>7. w = poAtt[p] \/ w.status # "SUCCEEDED"
      BY <2>4, <2>6
    <2>8. PoBacked(w, poPay[p], poIntent)
      <3>1. PoBacked(b, poPay[p], poIntent)
        BY <2>2, <2>4 DEF PoBacked, PoAttempt
      <3>2. PoBacked(poAtt[p], poPay[p], poIntent)
        BY <1>f, PoPayParts
      <3> QED
        BY <2>6, <3>1, <3>2
    <2>9. PoPayOK'
      <3>1. PICK c : c = poCall
        OBVIOUS
      <3>2. c = poCall' /\ PoCallOK(c, poPay, poIntent) /\ PoCallFits(c, poAtt)
        BY <3>1, <1>0, PoPayParts
      <3>3. c.pc \in PoEarly => (IF p = c.p THEN w ELSE poAtt[c.p]).status # "SUCCEEDED"
        BY <2>7, <3>2 DEF PoCallFits
      <3>4. c.pc = "save" => LET d == IF p = c.p THEN w ELSE poAtt[c.p] IN d.status = "SUCCEEDED" => d.tx = c.tx
        BY <2>7, <3>2 DEF PoCallFits
      <3> QED
        BY <1>0, <2>6, <2>8, <3>2, <3>3, <3>4, PoAttemptSet
    <2>10. DOMAIN poAtt' = DOMAIN poAtt
      BY <2>6
    <2>11. PICK found : found = poRec[r] \ {a}
      OBVIOUS
    <2> QED
      BY <1>3, <1>5, <2>1, <2>9, <2>10, <2>11
  <1> QED
    BY <1>1, <1>4, <1>6, <1>7

\* Payments are only added; their users stay.
LEMMA PoPayGrows ==
    ASSUME PoPayOK, [PoNext]_poVars
    PROVE  /\ DOMAIN poPay \subseteq DOMAIN poPay'
           /\ \A p \in DOMAIN poPay : poPay'[p].user = poPay[p].user
  <1>f. /\ poPay \in Seq(PoPayment) /\ DOMAIN poPay = 1 .. Len(poPay) /\ Len(poPay) \in Nat
        /\ \A p \in DOMAIN poPay : poPay[p] \in PoPayment
    BY PoPayFacts
  <1>0. ASSUME NEW p \in DOMAIN poPay, NEW y, y.user = poPay[p].user, poPay' = [poPay EXCEPT ![p] = y]
        PROVE  /\ DOMAIN poPay \subseteq DOMAIN poPay'
               /\ \A q \in DOMAIN poPay : poPay'[q].user = poPay[q].user
    BY <1>0
  <1>1. CASE PoCreatePayment /\ ~ UNCHANGED poPay
    <2>1. PICK y : poPay' = Append(poPay, y)
      BY <1>1 DEF PoCreatePayment, PoInsertPayment, poStore
    <2>2. DOMAIN poPay' = 1 .. (Len(poPay) + 1)
      BY <2>1, <1>f
    <2>3. \A p \in 1 .. Len(poPay) : poPay'[p] = poPay[p]
      BY <2>1, <1>f
    <2> QED
      BY <2>2, <2>3, <1>f
  <1>2. CASE (PoFailPayment \/ PoSavePayment) /\ ~ UNCHANGED poPay
    <2>1. poCall.p \in DOMAIN poPay
      BY <1>2, PoPayParts DEF PoCallOK, PoFailPayment, PoSavePayment
    <2>2. PICK p \in DOMAIN poPay : p = poCall.p
      BY <2>1
    <2>3. CASE PoFailPayment
      <3>1. PICK y : y = [poPay[p] EXCEPT !.status = "FAILED"]
        OBVIOUS
      <3>2. y.user = poPay[p].user
        BY <3>1, <1>f DEF PoPayment
      <3>3. poPay' = [poPay EXCEPT ![p] = y]
        BY <2>2, <2>3, <3>1, <1>2 DEF PoFailPayment
      <3> QED
        BY <3>2, <3>3, <1>0
    <2>4. CASE PoSavePayment
      <3>1. PICK t : t = poCall.tx
        OBVIOUS
      <3>2. PICK y : y = [[poPay[p] EXCEPT !.status = "AUTHORIZED"] EXCEPT !.intent = t]
        OBVIOUS
      <3>3. y.user = poPay[p].user
        BY <3>2, <1>f DEF PoPayment
      <3>4. poPay' = [poPay EXCEPT ![p] = y]
        BY <2>2, <2>4, <3>1, <3>2, <1>f, <1>2 DEF PoSavePayment
      <3> QED
        BY <3>3, <3>4, <1>0
    <2> QED
      BY <1>2, <2>3, <2>4
  <1>3. CASE UNCHANGED poPay
    BY <1>3
  <1>4. PoCallStep => PoCreatePayment \/ PoFailPayment \/ PoSavePayment \/ UNCHANGED poPay
    BY DEF PoCallStep, PoInsertCreated, PoCreateAttempt, PoRefused, PoAuthorized, PoInsertAuthorized, poStore
  <1>5. (\E r \in PoReplica : PoBootStep(r) \/ PoCrash(r)) \/ PoCustomer \/ PoOutboxStep \/ PoAttemptStep
        \/ PoReadStep \/ UNCHANGED poVars => UNCHANGED poPay
    BY DEF PoBootStep, PoCrash, PoCustomer, PoOutboxStep, PoAttemptStep, PoReadStep, poVars, poStore
  <1> QED
    BY <1>1, <1>2, <1>3, <1>4, <1>5 DEF PoNext

\* Every payment has its attempt.
LEMMA PoPayPairs ==
    ASSUME PoPayOK'
    PROVE  DOMAIN poAtt' = DOMAIN poPay'
  BY DEF PoPayOK

\* Payments, attempts, calls and workers keep their invariant.
LEMMA PoPayStep ==
    ASSUME PoPayOK, PoRecOK, PoRunOK, [PoNext]_poVars
    PROVE  PoPayOK' /\ PoRecOK'
  <1>f. /\ poPay \in Seq(PoPayment) /\ Len(poPay) \in Nat /\ DOMAIN poPay = 1 .. Len(poPay)
        /\ DOMAIN poAtt = 1 .. Len(poPay) /\ poIntent \in Seq(PoIntentRow) /\ Len(poIntent) \in Nat
        /\ DOMAIN poIntent = 1 .. Len(poIntent)
        /\ poCall \in PoCallRow
    BY PoPayFacts
  <1>1. ASSUME UNCHANGED <<poStore, poIntent, poCall>> PROVE PoPayOK'
    BY <1>1 DEF poStore, PoPayOK
  <1>2. ASSUME UNCHANGED poRec, PoPayOK' PROVE PoRecOK'
    <2>1. DOMAIN poAtt \subseteq DOMAIN poAtt'
      BY <1>2, <1>f, PoPayGrows, PoPayPairs
    <2> QED
      BY <2>1, <1>2 DEF PoRecOK
  <1>3. CASE PoCallStep
    <2>0. UNCHANGED poRec
      BY <1>3 DEF PoCallStep
    <2>1. CASE PoCreatePayment
      BY <2>0, <2>1, PoCreateKeeps, <1>2
    <2>2. ASSUME UNCHANGED poStore, PoPayOK' PROVE PoPayOK' /\ PoRecOK'
      BY <2>0, <2>2, <1>2, <1>f DEF poStore
    <2>3. CASE PoInsertCreated
      <3>1. UNCHANGED <<poStore, poIntent>> /\ {poCall.pc, "attempt"} \subseteq PoEarly
        BY <2>3 DEF PoInsertCreated, PoEarly
      <3>2. poCall' = [poCall EXCEPT !.pc = "attempt", !.tx = poCall.tx, !.err = poCall.err]
        BY <2>3, <1>f DEF PoInsertCreated, PoCallRow
      <3>3. poIntent' \in Seq(PoIntentRow) /\ Len(poIntent') >= Len(poIntent) /\ poCall.tx \in Nat /\ poCall.err \in PoText
        BY <3>1, <1>f DEF PoCallRow
      <3>4. PoPayOK'
        BY <3>1, <3>2, <3>3, PoCallMoves
      <3> QED
        BY <2>2, <3>1, <3>4
    <2>4. CASE PoInsertAuthorized
      <3>1. UNCHANGED <<poStore, poIntent>> /\ poCall' = PoNoCall
        BY <2>4 DEF PoInsertAuthorized
      <3>2. poIntent' \in Seq(PoIntentRow) /\ Len(poIntent') >= Len(poIntent)
        BY <3>1, <1>f
      <3>3. PoCallOK(poCall', poPay, poIntent') /\ PoCallFits(poCall', poAtt)
        BY <3>1, PoNoCallOK
      <3> QED
        BY <2>2, <3>1, <3>2, <3>3, PoIntentsGrow
    <2>5. CASE PoCreateAttempt \/ PoRefused \/ PoAuthorized
      BY <2>0, <2>5, PoRecordKeeps, <1>2
    <2>6. CASE PoFailPayment \/ PoSavePayment
      BY <2>0, <2>6, PoSaveKeeps, <1>2
    <2>7. CASE (AuthorizeIntent \/ AuthorizeSession) /\ UNCHANGED poStore
      BY <2>2, <2>7, PoAuthorizeKeeps
    <2> QED
      BY <1>3, <2>1, <2>3, <2>4, <2>5, <2>6, <2>7 DEF PoCallStep
  <1>4. CASE PoCustomer
    <2>1. PICK i \in DOMAIN poIntent, s \in {"requires_capture", "canceled"} :
             poIntent' = [poIntent EXCEPT ![i].status = s]
      BY <1>4 DEF PoCustomer
    <2>2. PICK row : row = [poIntent[i] EXCEPT !.status = s]
      OBVIOUS
    <2>3. row \in PoIntentRow
      <3>1. s \in PoText
        BY DEF PoText
      <3>2. poIntent[i] \in PoIntentRow
        BY <1>f
      <3> QED
        BY <2>2, <3>1, <3>2 DEF PoIntentRow
    <2>4. poIntent' = [poIntent EXCEPT ![i] = row]
      BY <2>1, <2>2
    <2>5. poIntent' \in Seq(PoIntentRow) /\ Len(poIntent') = Len(poIntent) /\ DOMAIN poIntent' = DOMAIN poIntent
      BY <2>3, <2>4, <1>f
    <2>6. UNCHANGED <<poStore, poCall, poRec>>
      BY <1>4 DEF PoCustomer
    <2>7. PoCallOK(poCall', poPay, poIntent') /\ PoCallFits(poCall', poAtt)
      <3>1. PICK intents : intents = poIntent'
        OBVIOUS
      <3>2. PoCallOK(poCall, poPay, intents) /\ PoCallFits(poCall, poAtt)
        BY <3>1, <2>5, PoPayParts DEF PoCallOK
      <3> QED
        BY <3>1, <3>2, <2>6
    <2>8. PoPayOK'
      BY <2>5, <2>6, <2>7, <1>f, PoIntentsGrow
    <2> QED
      BY <2>6, <2>8, <1>2, <1>f DEF poStore
  <1>5. CASE PoAttemptStep
    BY <1>5, PoAttemptKeeps
  <1>6. ASSUME NEW r \in PoReplica, PoCrash(r) PROVE PoPayOK' /\ PoRecOK'
    <2>1. UNCHANGED <<poStore, poIntent>> /\ poCall' \in {PoNoCall, poCall} /\ poRec' = [poRec EXCEPT ![r] = {}]
      BY <1>6 DEF PoCrash
    <2>2. /\ poIntent' \in Seq(PoIntentRow) /\ Len(poIntent') >= Len(poIntent)
          /\ PoCallOK(poCall', poPay, poIntent') /\ PoCallFits(poCall', poAtt)
      BY <2>1, <1>f, PoNoCallOK, PoPayParts
    <2>3. PoPayOK'
      BY <2>1, <2>2, PoIntentsGrow
    <2>4. PoRecOK'
      <3>1. poRec' \in [PoReplica -> SUBSET [job : {"reconcile", "stuck"}, p : Nat, tx : {0}]]
        BY <2>1 DEF PoRecOK
      <3>2. \A q \in PoReplica : poRec'[q] \subseteq poRec[q]
        BY <2>1 DEF PoRecOK
      <3> QED
        BY <2>1, <3>1, <3>2 DEF PoRecOK, poStore
    <2> QED
      BY <2>3, <2>4
  <1>7. (\E r \in PoReplica : PoBootStep(r)) \/ PoOutboxStep \/ PoReadStep \/ UNCHANGED poVars
          => UNCHANGED <<poStore, poIntent, poCall, poRec>>
    BY DEF PoBootStep, PoOutboxStep, PoReadStep, poVars
  <1>8. ASSUME UNCHANGED <<poStore, poIntent, poCall, poRec>> PROVE PoPayOK' /\ PoRecOK'
    BY <1>1, <1>2, <1>8, <1>f DEF poStore
  <1> QED
    BY <1>3, <1>4, <1>5, <1>6, <1>7, <1>8 DEF PoNext

-----------------------------------------------------------------------------
(* Reads *)

\* PoRowsIn is PoRowsOf for the payments there are.
LEMMA PoRowsHere ==
    /\ \A u : PoRowsOf(u) = PoRowsIn(poPay, u)
    /\ \A p, u : PoPlace(p, u) = PoPlaceIn(poPay, p, u)
  BY DEF PoRowsOf, PoRowsIn, PoPlace, PoPlaceIn

\* The rows of a user and those from one of them on are finitely many.
LEMMA PoPlaceFinite ==
    ASSUME NEW pays, NEW n \in Nat, DOMAIN pays = 1 .. n, NEW u, NEW p
    PROVE  /\ IsFiniteSet(PoRowsIn(pays, u)) /\ Cardinality(PoRowsIn(pays, u)) \in Nat
           /\ PoPlaceIn(pays, p, u) \in Nat
           /\ PoPlaceIn(pays, p, u) <= Cardinality(PoRowsIn(pays, u))
           /\ p \in PoRowsIn(pays, u) => PoPlaceIn(pays, p, u) > 0
  <1>1. PoRowsIn(pays, u) \subseteq 1 .. n
    BY DEF PoRowsIn
  <1> QED
    BY <1>1, PlaceFinite DEF PoPlaceIn

\* A payment that is added moves a row further down, never up.
LEMMA PoPlaceGrows ==
    ASSUME NEW pays, NEW n \in Nat, DOMAIN pays = 1 .. n, NEW more, NEW m \in Nat, DOMAIN more = 1 .. m, n <= m,
           \A p \in 1 .. n : more[p].user = pays[p].user, NEW u, NEW p
    PROVE  /\ PoRowsIn(pays, u) \subseteq PoRowsIn(more, u)
           /\ PoPlaceIn(pays, p, u) <= PoPlaceIn(more, p, u)
  <1>1. PoRowsIn(pays, u) \subseteq PoRowsIn(more, u) /\ PoRowsIn(more, u) \subseteq 1 .. m
    BY DEF PoRowsIn
  <1> QED
    BY <1>1, PlaceGrows DEF PoPlaceIn

\* Of two rows the newer comes first.
LEMMA PoPlaceOrder ==
    ASSUME NEW pays, NEW n \in Nat, DOMAIN pays = 1 .. n, NEW u, NEW p \in Nat, NEW q \in Nat, p > q
    PROVE  PoPlaceIn(pays, p, u) <= PoPlaceIn(pays, q, u)
  <1> DEFINE F(x) == {z \in PoRowsIn(pays, u) : z >= x}
  <1>1. PoRowsIn(pays, u) \subseteq 1 .. n
    BY DEF PoRowsIn
  <1>2. F(p) \subseteq F(q)
    BY <1>1
  <1>3. IsFiniteSet(F(q))
    BY <1>1, PlaceFinite
  <1> QED
    BY <1>2, <1>3, FS_Subset DEF PoPlaceIn

\* A page has rows.
LEMMA PoLimitOK ==
    ASSUME NEW l \in Int
    PROVE  PoLimit(l) \in Nat /\ PoLimit(l) > 0 /\ (l \in 1 .. PoMaxLimit => PoLimit(l) = l)
  BY PoAssumption DEF PoLimit

\* A walk stays good when payments are added.
LEMMA PoWalkKept ==
    ASSUME NEW pays, NEW n \in Nat, DOMAIN pays = 1 .. n, NEW more, NEW m \in Nat, DOMAIN more = 1 .. m, n <= m,
           \A p \in 1 .. n : more[p].user = pays[p].user, NEW w, PoWalkGood(w, pays)
    PROVE  PoWalkGood(w, more)
  <1>1. \A p : /\ PoRowsIn(pays, w.user) \subseteq PoRowsIn(more, w.user)
               /\ PoPlaceIn(pays, p, w.user) <= PoPlaceIn(more, p, w.user)
               /\ PoPlaceIn(pays, p, w.user) \in Nat /\ PoPlaceIn(more, p, w.user) \in Nat
    BY PoPlaceGrows, PoPlaceFinite
  <1>2. w.seen \subseteq DOMAIN more /\ (w.user \notin {"admin", ""} => \A p \in w.seen : more[p].user = w.user)
    <2>0. 1 .. n \subseteq 1 .. m
      OBVIOUS
    <2>1. w.seen \subseteq 1 .. n /\ 1 .. n \subseteq 1 .. m
      BY <2>0 DEF PoWalkGood
    <2>2. \A p \in w.seen : more[p].user = pays[p].user
      BY <2>1
    <2>3. w.user \notin {"admin", ""} => \A p \in w.seen : pays[p].user = w.user
      BY DEF PoWalkGood
    <2> QED
      BY <2>1, <2>2, <2>3
  <1>3. w.pc # "idle" => w.start \subseteq PoRowsIn(more, w.user)
    BY <1>1 DEF PoWalkGood
  <1>4. ASSUME w.pc \in {"page", "select"}
        PROVE  \A p \in w.start : PoPlaceIn(more, p, w.user) <= (w.page - 1) * PoLimit(w.limit) => p \in w.seen
    <2>1. w.page \in Nat /\ w.limit \in Int
      BY DEF PoWalkGood, PoWalkRow
    <2>2. (w.page - 1) * PoLimit(w.limit) \in Int
      <3>0. \A l \in Int : PoLimit(l) \in Int
        BY PoLimitOK, PoAssumption
      <3>1. PoLimit(w.limit) \in Int
        BY <2>1, <3>0, Zenon
      <3>2. PICK k \in Int : k = PoLimit(w.limit)
        BY <3>1
      <3>3. (w.page - 1) * k \in Int
        BY <2>1, <3>2
      <3> QED
        BY <3>2, <3>3
    <2>3. ASSUME NEW p \in w.start, PoPlaceIn(more, p, w.user) <= (w.page - 1) * PoLimit(w.limit)
          PROVE  p \in w.seen
      <3>1. PICK e : e = (w.page - 1) * PoLimit(w.limit) /\ e \in Int
        BY <2>2
      <3>2. PoPlaceIn(pays, p, w.user) <= e
        BY <1>1, <2>3, <3>1
      <3> QED
        BY <1>4, <3>1, <3>2 DEF PoWalkGood
    <2> QED
      BY <2>3
  <1> QED
    BY <1>2, <1>3, <1>4 DEF PoWalkGood

\* payment(id) answers 200 only to the owner, an administrator and a caller without identity.
LEMMA PoOwnerOnly ==
    ASSUME NEW u, NEW p, PoPaymentCode(u, p) = 200
    PROVE  p \in DOMAIN poPay /\ u \in {"admin", "", poPay[p].user}
  <1>1. PoLoad(p) = {} <=> p \notin DOMAIN poPay
    BY DEF PoLoad
  <1> DEFINE S == {"admin", "", poPay[p].user}
  <1>2. PoPaymentCode(u, p) = IF u = "refused" THEN 401 ELSE IF p = 0 THEN 400 ELSE IF PoLoad(p) = {} THEN 404
                              ELSE IF u \in S THEN 200 ELSE 403
    BY Zenon DEF PoPaymentCode
  <1>3. PoLoad(p) # {} /\ u \in S
    <2> HIDE DEF S
    <2> QED
      BY <1>2
  <1> QED
    BY <1>1, <1>3, Zenon

\* payment(id) and the gRPC reads answer with a payment only if it is there,
\* and the query only to its owner, an administrator or a caller without identity.
LEMMA PoReadKeeps ==
    ASSUME PoRunOK, PoReadPayment, NEW n \in Nat, DOMAIN poPay = 1 .. n
    PROVE  PoWalkGood(poWalk', poPay)
  <1>1. PICK q \in PoReadRequest : q = Head(poRun.reads)
    BY DEF PoReadPayment, PoRunOK
  <1> DEFINE c0 == IF q.grpc THEN PoGrpcCode(q.p)
                   ELSE IF PoIsProbe(q) /\ PoIdentity(q) # "refused" THEN 0
                   ELSE PoPaymentCode(PoIdentity(q), q.p)
             u0 == IF q.grpc THEN "" ELSE PoIdentity(q)
  <1>2. q.p \in Nat /\ q.header \in PoText /\ q.token \in PoText
    BY DEF PoReadRequest, PoText
  <1>3. u0 \in PoText
    <2>1. "" \in PoText /\ "refused" \in PoText
      BY DEF PoText
    <2> QED
      BY <1>2, <2>1 DEF PoIdentity
  <1>4. c0 \in {0, 200, 400, 401, 403, 404}
    <2>1. \A u, p : PoPaymentCode(u, p) \in {200, 400, 401, 403, 404} /\ PoGrpcCode(p) \in {200, 404}
      BY DEF PoGrpcCode, PoPaymentCode
    <2> QED
      BY <2>1
  <1>5. c0 = 200 => q.p \in DOMAIN poPay /\ (u0 \notin {"admin", ""} => poPay[q.p].user = u0)
    <2>1. PoGrpcCode(q.p) = 200 => q.p \in DOMAIN poPay
      BY DEF PoGrpcCode, PoLoad
    <2>2. PICK u : u = PoIdentity(q)
      OBVIOUS
    <2>3. PoPaymentCode(u, q.p) = 200 => q.p \in DOMAIN poPay /\ u \in {"admin", "", poPay[q.p].user}
      <3> SUFFICES ASSUME PoPaymentCode(u, q.p) = 200
                   PROVE  q.p \in DOMAIN poPay /\ u \in {"admin", "", poPay[q.p].user}
        BY Zenon
      <3>1. PICK p : p = q.p
        OBVIOUS
      <3>2. p \in DOMAIN poPay /\ u \in {"admin", "", poPay[p].user}
        <4>1. PoPaymentCode(u, p) = 200
          BY <3>1, Zenon
        <4> QED
          BY <4>1, PoOwnerOnly, ZenonT(40)
      <3> QED
        BY <3>1, <3>2, Zenon
    <2>4. CASE q.grpc
      BY <2>1, <2>4
    <2>5. CASE ~ q.grpc /\ PoIsProbe(q) /\ u # "refused"
      <3>1. c0 = 0
        BY <2>2, <2>5
      <3> HIDE DEF c0, u0
      <3> QED
        <4>1. c0 # 200
          BY <3>1
        <4> QED
          BY <4>1, Zenon
    <2>6. CASE ~ q.grpc /\ ~ (PoIsProbe(q) /\ u # "refused")
      BY <2>2, <2>3, <2>6
    <2> QED
      BY <2>4, <2>5, <2>6
  <1>6. PICK c \in {0, 200, 400, 401, 403, 404} : c = c0
    BY <1>4
  <1>7. PICK u \in PoText : u = u0
    BY <1>3
  <1> DEFINE seen == IF c = 200 THEN {q.p} ELSE {}
  <1>8. poWalk' = [PoNoWalk EXCEPT !.user = u, !.code = c, !.seen = seen]
    BY <1>1, <1>6, <1>7, ZenonT(40) DEF PoReadPayment
  <1>9. PICK zero : zero = 0 /\ zero \in Nat
    OBVIOUS
  <1>10. PICK none : none = {}
    OBVIOUS
  <1>11. poWalk' = [pc |-> "idle", user |-> u, limit |-> zero, page |-> zero, start |-> none, seen |-> seen, code |-> c,
                    total |-> zero, torn |-> FALSE]
    <2> HIDE DEF seen
    <2> QED
      BY <1>8, <1>9, <1>10 DEF PoNoWalk
  <1>12. seen \subseteq DOMAIN poPay /\ (u \notin {"admin", ""} => \A p \in seen : poPay[p].user = u)
    <2>1. CASE c = 200
      <3>1. q.p \in DOMAIN poPay /\ (u \notin {"admin", ""} => poPay[q.p].user = u)
        <4> HIDE DEF c0, u0
        <4> QED
          BY <1>5, <1>6, <1>7, <2>1, Zenon
      <3> QED
        BY <2>1, <3>1, ZenonT(40)
    <2>2. CASE c # 200
      <3>1. seen = {}
        BY <2>2, Zenon
      <3> QED
        BY <3>1, ZenonT(40)
    <2> QED
      BY <2>1, <2>2
  <1>13. seen \in SUBSET Nat /\ none \in SUBSET Nat /\ zero \in Int
    BY <1>9, <1>10, <1>2
  <1> HIDE <1>9, <1>10 DEF c0, u0, seen
  <1>14. zero \in Nat /\ \A p : p \notin none
    BY <1>9, <1>10
  <1>15. PICK w : w = poWalk'
    OBVIOUS
  <1>16. w \in PoWalkRow
    <2>1. c \in {0, 200, 400, 401, 403, 404, 500}
      OBVIOUS
    <2> QED
      BY <2>1, <1>11, <1>13, <1>14, <1>15 DEF PoWalkRow
  <1>17. w.pc = "idle" /\ w.seen = seen /\ w.user = u /\ \A p : p \notin w.start
    BY <1>11, <1>14, <1>15
  <1>18. PoWalkGood(w, poPay)
    BY <1>12, <1>16, <1>17, ZenonT(40) DEF PoWalkGood
  <1> QED
    BY <1>15, <1>18

\* A walk begins with nothing seen, before the first row.
LEMMA PoWalkStarts ==
    ASSUME PoRunOK, PoWalkStart, NEW n \in Nat, DOMAIN poPay = 1 .. n
    PROVE  PoWalkGood(poWalk', poPay)
  <1>1. PICK q \in PoWalkRequest : q = Head(poRun.walks)
    BY DEF PoWalkStart, PoRunOK
  <1>2. PICK u \in PoText : u = q.user
    BY DEF PoWalkRequest, PoText
  <1>3. PICK l \in Int : l = q.limit
    BY DEF PoWalkRequest
  <1>4. PICK start : start = PoRowsIn(poPay, u)
    OBVIOUS
  <1>5. PICK none : none = {}
    OBVIOUS
  <1>6. PICK one : one = 1
    OBVIOUS
  <1>7. PICK c \in {0, 200, 400, 401, 403, 404, 500} : c = 200
    OBVIOUS
  <1>z. PICK zero \in Nat : zero = 0
    OBVIOUS
  <1>8. poWalk' = [pc |-> "page", user |-> u, limit |-> l, page |-> one, start |-> start, seen |-> none, code |-> c,
                   total |-> zero, torn |-> FALSE]
    BY <1>1, <1>2, <1>3, <1>4, <1>5, <1>6, <1>7, <1>z, PoRowsHere DEF PoWalkStart
  <1>9. one \in Nat /\ one - 1 = 0 /\ one > 0 /\ none \in SUBSET Nat /\ start \in SUBSET Nat
    BY <1>4, <1>5, <1>6 DEF PoRowsIn
  <1>10. \A p \in start : PoPlaceIn(poPay, p, u) > 0 /\ PoPlaceIn(poPay, p, u) \in Nat
    BY <1>4, PoPlaceFinite
  <1>11. none \subseteq DOMAIN poPay /\ \A p \in none : poPay[p].user = u
    BY <1>5
  <1> HIDE <1>5, <1>6, <1>7, <1>z
  <1>12. PICK w : w = poWalk'
    OBVIOUS
  <1>13. w \in PoWalkRow
    BY <1>8, <1>9, <1>12 DEF PoWalkRow
  <1>14. w.pc = "page" /\ w.seen = none /\ w.user = u /\ w.start = start /\ w.page = one /\ w.limit = l
    BY <1>8, <1>12
  <1>15. (w.page - 1) * PoLimit(w.limit) = 0
    BY <1>9, <1>14, PoLimitOK
  <1>16. \A p \in w.start : ~ (PoPlaceIn(poPay, p, w.user) <= (w.page - 1) * PoLimit(w.limit))
    BY <1>10, <1>14, <1>15
  <1>17. PoWalkGood(w, poPay)
    <2>1. w.seen \subseteq DOMAIN poPay /\ \A p \in w.seen : poPay[p].user = w.user
      BY <1>11, <1>14
    <2>2. w.start \subseteq PoRowsIn(poPay, w.user) /\ w.page > 0 /\ w.pc = "page"
      BY <1>4, <1>9, <1>14
    <2>3. \A p \in w.start : PoPlaceIn(poPay, p, w.user) <= (w.page - 1) * PoLimit(w.limit) => p \in w.seen
      BY <1>16
    <2>4. \A p : p \notin w.seen
      BY <1>5, <1>14
    <2> HIDE <1>14
    <2> QED
      BY <1>13, <2>1, <2>2, <2>3, <2>4 DEF PoWalkGood
  <1> QED
    BY <1>12, <1>17

\* COUNT only notes a number, and a query that fails ends the walk with an error.
LEMMA PoWalkCounts ==
    ASSUME PoWalkGood(poWalk, poPay), NEW n \in Nat, DOMAIN poPay = 1 .. n, poWalk.pc \in {"page", "select"},
           PoPageFails \/ PoCountRows
    PROVE  PoWalkGood(poWalk', poPay)
  <1>1. PICK w : w = poWalk
    OBVIOUS
  <1>2. PICK v : v = poWalk'
    OBVIOUS
  <1>3. w \in PoWalkRow
    BY <1>1 DEF PoWalkGood
  <1>r. /\ w = [pc |-> w.pc, user |-> w.user, limit |-> w.limit, page |-> w.page, start |-> w.start, seen |-> w.seen,
                code |-> w.code, total |-> w.total, torn |-> w.torn]
        /\ w.user \in PoText /\ w.limit \in Int /\ w.page \in Nat /\ w.start \in SUBSET Nat /\ w.seen \in SUBSET Nat
        /\ w.total \in Nat /\ w.torn \in BOOLEAN /\ w.code \in {0, 200, 400, 401, 403, 404, 500}
    BY <1>3 DEF PoWalkRow
  <1>4. CASE PoPageFails
    <2>1. PICK c \in {0, 200, 400, 401, 403, 404, 500} : c = 500
      OBVIOUS
    <2>2. v = [w EXCEPT !.pc = "done", !.code = c]
      BY <1>1, <1>2, <1>4, <2>1 DEF PoPageFails
    <2>w. v = [pc |-> "done", user |-> w.user, limit |-> w.limit, page |-> w.page, start |-> w.start, seen |-> w.seen,
               code |-> c, total |-> w.total, torn |-> w.torn]
      BY <1>r, <2>2
    <2>3. v \in PoWalkRow
      BY <1>r, <2>w DEF PoWalkRow
    <2>4. /\ v.pc = "done" /\ v.code = c /\ v.user = w.user /\ v.start = w.start /\ v.seen = w.seen
      BY <2>w
    <2>6. v.code # 200
      BY <2>1, <2>4
    <2>5. PoWalkGood(v, poPay)
      <3>1. /\ w.seen \subseteq DOMAIN poPay
            /\ w.user \notin {"admin", ""} => \A p \in w.seen : poPay[p].user = w.user
            /\ w.start \subseteq PoRowsIn(poPay, w.user)
            /\ \A p \in w.start, q \in w.start : q \in w.seen /\ p > q => p \in w.seen
        BY <1>1, ZenonT(40) DEF PoWalkGood
      <3>2. v.pc \notin {"page", "select"}
        BY <2>4
      <3>3. v.seen \subseteq DOMAIN poPay
        BY <2>4, <3>1
      <3>4. v.user \notin {"admin", ""} => \A p \in v.seen : poPay[p].user = v.user
        BY <2>4, <3>1, ZenonT(40)
      <3>5. v.start \subseteq PoRowsIn(poPay, v.user)
        BY <2>4, <3>1
      <3>6. \A p \in v.start, q \in v.start : q \in v.seen /\ p > q => p \in v.seen
        BY <2>4, <3>1
      <3> QED
        BY <2>3, <2>6, <3>2, <3>3, <3>4, <3>5, <3>6, Zenon DEF PoWalkGood
    <2> QED
      BY <1>2, <2>5
  <1>5. CASE PoCountRows /\ ~ PoPageFails
    <2>1. PICK t : t = Cardinality(PoRowsOf(w.user))
      OBVIOUS
    <2>2. t \in Nat
      BY <2>1, PoRowsHere, PoPlaceFinite
    <2>3. v = [w EXCEPT !.pc = "select", !.total = t]
      BY <1>1, <1>2, <1>5, <2>1 DEF PoCountRows
    <2>w. v = [pc |-> "select", user |-> w.user, limit |-> w.limit, page |-> w.page, start |-> w.start, seen |-> w.seen,
               code |-> w.code, total |-> t, torn |-> w.torn]
      BY <1>r, <2>3
    <2>4. v \in PoWalkRow
      BY <1>r, <2>2, <2>w DEF PoWalkRow
    <2>5. /\ v.pc = "select" /\ v.user = w.user /\ v.start = w.start /\ v.seen = w.seen /\ v.page = w.page
          /\ v.limit = w.limit
      BY <2>w
    <2>6. w.pc \in {"page", "select"}
      BY <1>1
    <2>7. PoWalkGood(v, poPay)
      <3>1. /\ w.seen \subseteq DOMAIN poPay
            /\ w.user \notin {"admin", ""} => \A p \in w.seen : poPay[p].user = w.user
            /\ w.start \subseteq PoRowsIn(poPay, w.user)
            /\ \A p \in w.start, q \in w.start : q \in w.seen /\ p > q => p \in w.seen
            /\ w.page > 0
            /\ \A p \in w.start : PoPlaceIn(poPay, p, w.user) <= (w.page - 1) * PoLimit(w.limit) => p \in w.seen
        BY <1>1, <2>6 DEF PoWalkGood
      <3> QED
        BY <2>4, <2>5, <3>1 DEF PoWalkGood
    <2> QED
      BY <1>2, <2>7
  <1> QED
    BY <1>4, <1>5

\* A page of a walk lists the rows whose places the offset has reached, and,
\* unless it was torn, the last page is the one that reaches the last place.
LEMMA PoWalkPages ==
    ASSUME PoWalkGood(poWalk, poPay), PoWalkPage, ~ PoPageFails, NEW n \in Nat, DOMAIN poPay = 1 .. n
    PROVE  PoWalkGood(poWalk', poPay)
  <1>1. PICK w : w = poWalk
    OBVIOUS
  <1>2. /\ w \in PoWalkRow
        /\ w.pc = "select" /\ w.page > 0 /\ w.start \subseteq PoRowsIn(poPay, w.user)
        /\ w.seen \subseteq DOMAIN poPay
        /\ w.user \notin {"admin", ""} => \A p \in w.seen : poPay[p].user = w.user
    BY <1>1, ZenonT(40) DEF PoWalkGood, PoWalkPage
  <1> DEFINE lim == PoLimit(w.limit)
  <1>3. \A p \in w.start : PoPlaceIn(poPay, p, w.user) <= (w.page - 1) * lim => p \in w.seen
    BY <1>1, <1>2 DEF PoWalkGood
  <1>h. \A p \in w.start, q \in w.start : q \in w.seen /\ p > q => p \in w.seen
    BY <1>1 DEF PoWalkGood
  <1>t. w.page \in Nat /\ w.limit \in Int /\ w.start \in SUBSET Nat /\ w.seen \in SUBSET Nat /\ w.total \in Nat
        /\ w.torn \in BOOLEAN
    BY <1>2 DEF PoWalkRow
  <1>u. /\ w.page > 0 /\ w.start \subseteq PoRowsIn(poPay, w.user) /\ w.seen \subseteq DOMAIN poPay
        /\ w.user \notin {"admin", ""} => \A p \in w.seen : poPay[p].user = w.user
    BY <1>2
  <1>l. lim \in Nat /\ lim > 0 /\ (w.limit \in 1 .. PoMaxLimit => lim = w.limit)
    BY <1>t, PoLimitOK
  <1> DEFINE list == PoList(w.user, w.page, w.limit)
             more == PoHasNext(w.page, w.limit, w.total)
             seen == w.seen \cup list
             page == IF more THEN w.page + 1 ELSE w.page
             pc == IF more THEN "page" ELSE "done"
             size == Cardinality(PoRowsIn(poPay, w.user))
             torn == w.torn \/ size # w.total
  <1>4. poWalk' = [w EXCEPT !.seen = seen, !.page = page, !.pc = pc, !.torn = torn]
    BY <1>1, <1>2, PoRowsHere DEF PoWalkPage
  <1>5. list \subseteq PoRowsIn(poPay, w.user)
    BY PoRowsHere DEF PoList
  <1>6. /\ seen \subseteq DOMAIN poPay /\ seen \in SUBSET Nat
        /\ w.user \notin {"admin", ""} => \A p \in seen : poPay[p].user = w.user
    <2>1. list \subseteq DOMAIN poPay /\ (w.user \notin {"admin", ""} => \A p \in list : poPay[p].user = w.user)
      BY <1>5 DEF PoRowsIn
    <2>2. seen \subseteq DOMAIN poPay
      BY <1>u, <2>1
    <2>3. seen \in SUBSET Nat
      BY <2>2
    <2>4. w.user \notin {"admin", ""} => \A p \in seen : poPay[p].user = w.user
      <3> HIDE DEF list
      <3> QED
        BY <1>u, <2>1
    <2> QED
      BY <2>2, <2>3, <2>4, Zenon
  <1> HIDE DEF lim
  <1>7. w.page * lim \in Int /\ (w.page - 1) * lim \in Int /\ w.page * lim = (w.page - 1) * lim + lim
    <2>1. w.page \in Int /\ lim \in Int
      BY <1>t, <1>l
    <2> QED
      BY <2>1
  <1>8. more <=> w.page * w.limit < w.total
    BY DEF PoHasNext
  <1>9. size \in Nat /\ \A p \in w.start : /\ PoPlaceIn(poPay, p, w.user) \in Nat
                                          /\ PoPlaceIn(poPay, p, w.user) > 0
                                          /\ PoPlaceIn(poPay, p, w.user) <= size
    BY <1>u, PoPlaceFinite
  <1>10. ASSUME NEW p \in w.start, PoPlaceIn(poPay, p, w.user) <= w.page * lim
         PROVE  p \in seen
    <2>2. CASE PoPlaceIn(poPay, p, w.user) <= (w.page - 1) * lim
      BY <1>3, <1>10, <2>2
    <2>3. CASE ~ (PoPlaceIn(poPay, p, w.user) <= (w.page - 1) * lim)
      <3>1. PICK from \in Int : from = (w.page - 1) * lim
        BY <1>7
      <3>2. PICK place \in Nat : place = PoPlaceIn(poPay, p, w.user)
        BY <1>9
      <3>3. place > from /\ place <= from + lim
        BY <1>7, <1>l, <1>10, <2>3, <3>1, <3>2
      <3>4. p \in PoRowsOf(w.user) /\ PoPlace(p, w.user) = place
        BY <1>2, <3>2, PoRowsHere
      <3>5. p \in list
        BY <3>1, <3>3, <3>4 DEF PoList, lim
      <3> QED
        BY <3>5
    <2> QED
      BY <2>2, <2>3
  <1>o. ASSUME NEW p \in w.start, NEW q \in w.start, q \in seen, p > q PROVE p \in seen
    <2>1. CASE q \in w.seen
      BY <1>h, <1>o, <2>1
    <2>2. CASE q \in list
      <3>1. PICK from \in Int : from = (w.page - 1) * lim
        BY <1>7
      <3>2. PICK there \in Nat : there = PoPlaceIn(poPay, q, w.user)
        BY <1>9
      <3>3. PICK here \in Nat : here = PoPlaceIn(poPay, p, w.user)
        BY <1>9
      <3>4. there <= from + lim
        BY <2>2, <3>1, <3>2, PoRowsHere DEF PoList, lim
      <3>5. p \in Nat /\ q \in Nat
        BY <1>t
      <3>6. here <= there
        BY <1>o, <3>2, <3>3, <3>5, PoPlaceOrder
      <3>7. here <= w.page * lim
        BY <1>7, <1>l, <3>1, <3>4, <3>6
      <3> QED
        BY <1>10, <3>3, <3>7
    <2> QED
      BY <1>o, <2>1, <2>2
  <1>11. ASSUME ~ more, ~ torn, w.limit <= PoMaxLimit PROVE w.start \subseteq seen
    <2>0. size = w.total
      BY <1>11
    <2>1. CASE w.limit < 1
      <3>1. w.page * w.limit <= 0 /\ w.page * w.limit \in Int
        <4>1. w.page \in Nat /\ w.limit \in Int
          BY <1>t
        <4> QED
          BY <4>1, <2>1
      <3>2. size = 0
        BY <1>8, <1>9, <1>11, <2>0, <3>1
      <3>3. w.start = {}
        BY <1>9, <3>2
      <3> QED
        BY <3>3
    <2>2. CASE ~ (w.limit < 1)
      <3>1. w.limit \in 1 .. PoMaxLimit
        BY <1>t, <1>11, <2>2, PoAssumption
      <3>2. \A p \in w.start : PoPlaceIn(poPay, p, w.user) <= w.page * lim
        BY <1>7, <1>8, <1>9, <1>l, <1>11, <2>0, <3>1
      <3> QED
        BY <1>10, <3>2
    <2> QED
      BY <2>1, <2>2
  <1>12. page \in Nat /\ page > 0 /\ (more => page - 1 = w.page)
    <2> HIDE DEF more
    <2>1. PICK k \in Nat : k = w.page /\ k > 0
      BY <1>t, <1>u
    <2>2. CASE more
      <3>1. page = k + 1
        BY <2>1, <2>2
      <3> QED
        BY <2>1, <3>1
    <2>3. CASE ~ more
      <3>1. page = k
        BY <2>1, <2>3
      <3> QED
        BY <2>1, <2>3, <3>1
    <2> QED
      BY <2>2, <2>3
  <1>13. (pc = "page" <=> more) /\ (pc = "done" <=> ~ more) /\ pc \in {"page", "done"} /\ torn \in BOOLEAN
    BY <1>t
  <1> HIDE DEF list, more, seen, page, pc, size, torn
  <1>14. PICK v : v = poWalk'
    OBVIOUS
  <1>15. /\ v.user = w.user /\ v.limit = w.limit /\ v.start = w.start
         /\ v.seen = seen /\ v.page = page /\ v.pc = pc /\ v.torn = torn
         /\ v \in PoWalkRow
    <2>2. v = [w EXCEPT !.seen = seen, !.page = page, !.pc = pc, !.torn = torn]
      BY <1>4, <1>14
    <2>3. seen \in SUBSET Nat /\ page \in Nat /\ pc \in {"idle", "page", "select", "done"} /\ torn \in BOOLEAN
      BY <1>6, <1>12, <1>13
    <2>4. v = [pc |-> pc, user |-> w.user, limit |-> w.limit, page |-> page, start |-> w.start, seen |-> seen,
               code |-> w.code, total |-> w.total, torn |-> torn]
      BY <1>2, <2>2 DEF PoWalkRow
    <2>5. /\ w.user \in PoText /\ w.limit \in Int /\ w.start \in SUBSET Nat
          /\ w.code \in {0, 200, 400, 401, 403, 404, 500} /\ w.total \in Nat
      BY <1>2 DEF PoWalkRow
    <2>6. v \in PoWalkRow
      BY <2>3, <2>4, <2>5 DEF PoWalkRow
    <2> QED
      BY <2>4, <2>6
  <1>16. PoWalkGood(v, poPay)
    <2>1. v.seen \subseteq DOMAIN poPay /\ (v.user \notin {"admin", ""} => \A p \in v.seen : poPay[p].user = v.user)
      BY <1>6, <1>15, ZenonT(40)
    <2>2. v.start \subseteq PoRowsIn(poPay, v.user)
      BY <1>u, <1>15
    <2>3. ASSUME v.pc \in {"page", "select"}
          PROVE  /\ v.page > 0
                 /\ \A p \in v.start : PoPlaceIn(poPay, p, v.user) <= (v.page - 1) * PoLimit(v.limit) => p \in v.seen
      <3>1. v.page - 1 = w.page /\ v.page > 0
        BY <1>12, <1>13, <1>15, <2>3
      <3>2. PoLimit(v.limit) = lim
        BY <1>15 DEF lim
      <3> QED
        BY <3>1, <3>2, <1>10, <1>15
    <2>4. v.pc = "done" /\ ~ v.torn /\ v.limit <= PoMaxLimit => v.start \subseteq v.seen
      BY <1>11, <1>13, <1>15
    <2>5. \A p \in v.start, q \in v.start : q \in v.seen /\ p > q => p \in v.seen
      BY <1>o, <1>15
    <2>6. v \in PoWalkRow
      BY <1>15
    <2> QED
      BY <2>1, <2>2, <2>3, <2>4, <2>5, <2>6 DEF PoWalkGood
  <1> QED
    BY <1>14, <1>16

\* Every step leaves the walk good.
LEMMA PoWalkStep ==
    ASSUME PoWalkOK, PoPayOK, PoPayOK', PoRunOK, [PoNext]_poVars
    PROVE  PoWalkOK'
  <1>1. DOMAIN poPay = 1 .. Len(poPay) /\ Len(poPay) \in Nat
    BY PoPayFacts
  <1>2. CASE PoReadStep
    <2>1. poPay' = poPay
      BY <1>2 DEF PoReadStep, poStore
    <2>2. PoWalkGood(poWalk', poPay)
      <3>1. CASE PoReadPayment
        BY <1>1, <3>1, PoReadKeeps
      <3>2. CASE PoWalkStart
        BY <1>1, <3>2, PoWalkStarts
      <3>3. CASE PoCountRows
        BY <1>1, <3>3, PoWalkCounts DEF PoCountRows, PoWalkOK
      <3>4. CASE PoWalkPage
        <4>1. CASE PoPageFails
          BY <1>1, <3>4, <4>1, PoWalkCounts DEF PoWalkPage, PoWalkOK
        <4>2. CASE ~ PoPageFails
          BY <1>1, <3>4, <4>2, PoWalkPages DEF PoWalkOK
        <4> QED
          BY <4>1, <4>2
      <3> QED
        BY <1>2, <3>1, <3>2, <3>3, <3>4 DEF PoReadStep
    <2> QED
      BY <2>1, <2>2 DEF PoWalkOK
  <1>3. CASE UNCHANGED poWalk
    <2>1. PICK more : more = poPay'
      OBVIOUS
    <2>2. PICK m \in Nat : DOMAIN more = 1 .. m
      BY <2>1 DEF PoPayOK
    <2>3. DOMAIN poPay \subseteq DOMAIN more /\ \A p \in DOMAIN poPay : more[p].user = poPay[p].user
      BY <2>1, PoPayGrows
    <2>4. Len(poPay) <= m
      BY <1>1, <2>2, <2>3
    <2>5. PoWalkGood(poWalk, more)
      BY <1>1, <2>2, <2>3, <2>4, PoWalkKept DEF PoWalkOK
    <2> QED
      BY <1>3, <2>1, <2>5 DEF PoWalkOK
  <1>4. ASSUME NEW r \in PoReplica, PoCrash(r), ~ UNCHANGED poWalk PROVE PoWalkOK'
    <2>1. poPay' = poPay /\ poWalk.pc = "select" /\ PoPageFails
      BY <1>4 DEF PoCrash, poStore
    <2>2. PoWalkGood(poWalk', poPay)
      BY <1>1, <2>1, PoWalkCounts DEF PoWalkOK
    <2> QED
      BY <2>1, <2>2 DEF PoWalkOK
  <1>5. (\E r \in PoReplica : PoBootStep(r)) \/ PoCallStep \/ PoCustomer \/ PoOutboxStep
        \/ PoAttemptStep \/ UNCHANGED poVars => UNCHANGED poWalk
    BY DEF PoBootStep, PoCallStep, PoCustomer, PoOutboxStep, PoAttemptStep, poVars
  <1> QED
    BY <1>2, <1>3, <1>4, <1>5 DEF PoNext

\* The invariant is inductive.
LEMMA PoInvStep == PoInv /\ [PoNext]_poVars => PoInv'
  BY PoRunStep, PoBootStepOK, PoOutStep, PoPayStep, PoWalkStep DEF PoInv

\* What the service promises follows from the invariant.
LEMMA PoInvImplies == PoInv => PoTypeOK /\ PoNothingLost /\ PoWalkComplete /\ PoSuccessIsBacked
  <1> SUFFICES ASSUME PoInv PROVE PoTypeOK /\ PoNothingLost /\ PoWalkComplete /\ PoSuccessIsBacked
    OBVIOUS
  <1>1. PoNothingLost /\ PoSuccessIsBacked
    BY DEF PoInv, PoOutOK, PoPayOK, PoBacked, PoSuccessIsBacked
  <1>2. PoWalkComplete
    BY DEF PoInv, PoWalkOK, PoWalkGood, PoWalkComplete
  <1>3. PoTypeOK
    <2>1. \A r \in PoReplica : poBoot[r].pc \in {"ping", "create", "connect", "up"} /\ (PoUp(r) => poDb)
      BY DEF PoInv, PoBootOK
    <2>2. \A r \in PoReplica : poPub[r].pc \in {"idle", "publish", "mark"} /\ poPub[r].batch \subseteq DOMAIN poOut
      BY DEF PoInv, PoOutOK
    <2>3. \A p \in DOMAIN poPay : poPay[p].status \in {"PENDING", "AUTHORIZED", "FAILED"}
      <3>1. \A p \in DOMAIN poPay : poPay[p] \in PoPayment
        BY PoPayFacts DEF PoInv
      <3> QED
        BY <3>1 DEF PoPayment
    <2>4. \A p \in DOMAIN poAtt : poAtt[p].status \in {"none", "PROCESSING", "UNKNOWN", "SUCCEEDED", "FAILED"}
      <3>1. \A p \in DOMAIN poAtt : poAtt[p] \in PoAttempt
        BY PoPayFacts DEF PoInv
      <3> QED
        BY <3>1 DEF PoAttempt
    <2>5. \A e \in DOMAIN poOut : poOut[e].state \in {"new", "published", "old", "gone"} /\ poTopic[e] \in Nat
      <3>1. poOut \in Seq(PoRow) /\ poTopic \in Seq(Nat) /\ Len(poTopic) = Len(poOut)
        BY DEF PoInv, PoOutOK, PoRow
      <3>2. \A e \in DOMAIN poOut : poOut[e] \in PoRow /\ poTopic[e] \in Nat
        BY <3>1
      <3> QED
        BY <3>2 DEF PoRow
    <2>6. poWalk.pc \in {"idle", "page", "select", "done"} /\ poWalk.code \in {0, 200, 400, 401, 403, 404, 500}
      BY DEF PoInv, PoWalkOK, PoWalkGood, PoWalkRow
    <2> QED
      BY <2>1, <2>2, <2>3, <2>4, <2>5, <2>6 DEF PoTypeOK
  <1> QED
    BY <1>1, <1>2, <1>3

\* payment-service, with any number of replicas, whatever of its writes fails or is cut off by a
\* crash: no row of the outbox is lost; an attempt that counts as SUCCEEDED has an intent at
\* Stripe, under a payment that is authorized with it or still PENDING; and a client that pages
\* finds no hole, has seen every payment of the start when no page was torn between its COUNT and
\* its SELECT, and none of another user.
THEOREM PaymentOperationsSafe == PoSpec => [](PoTypeOK /\ PoNothingLost /\ PoWalkComplete /\ PoSuccessIsBacked)
  <1> QED
    BY PoInvInit, PoInvStep, PoInvImplies, PTL DEF PoSpec

-----------------------------------------------------------------------------
(* driver-service: profiles, reviews, searches and reads *)

\* Strings; the provers know of a literal only that it differs from others.
DpText == STRING \cup {"", "CAR", "user-client"}

DpStates == {"OFFLINE", "AVAILABLE", "BUSY", "SUSPENDED"}
DpPcs == {"idle", "regFind", "regRole", "regUpdate", "regSave", "rateFind", "rateSeen", "rateSave", "rateAvg",
          "rateStore", "blockSave"}
DpDocument == [user : DpText, status : DpStates, active : BOOLEAN, blocked : BOOLEAN, kind : DpText, sum : Nat, n : Nat]
DpReviewRow == [d : Nat, user : DpText, x : DpText, stars : 1 .. 5]
DpJobRow == [pc : DpPcs, user : DpText, d : Nat, x : DpText, stars : Int, active : BOOLEAN,
             copy : DpDocument \cup {0}, sum : Nat, n : Nat]

\* The sum and the number are those of some reviews of driver d.
DpStarsIn(revs, S) == Cardinality({v \in S \X (1 .. 5) : v[2] <= revs[v[1]].stars})
DpBacked(sum, n, d, revs) ==
    \E S \in SUBSET DOMAIN revs :
       (\A i \in S : revs[i].d = d) /\ n = Cardinality(S) /\ sum = DpStarsIn(revs, S)

\* What a handler has found out and not yet stored still holds.
DpFits(j, docs, role, revs, delivery) ==
    /\ j \in DpJobRow
    /\ j.pc = "regSave" => j.user \in DOMAIN role /\ role[j.user] = "driver"
    /\ j.pc \in {"rateFind", "rateSeen", "rateSave"} => j.stars \in 1 .. 5
    /\ j.pc \in {"rateSeen", "rateSave"} => delivery[j.x].customer = j.user
    /\ j.pc = "rateStore" => DpBacked(j.sum, j.n, j.d, revs)
    /\ j.pc = "blockSave" => /\ j.d \in DOMAIN docs /\ j.copy \in DpDocument /\ j.copy.user = docs[j.d].user
                             /\ DpBacked(j.copy.sum, j.copy.n, j.d, revs)

\* The requests to come are requests.
DpRunOK == {"todo", "delivery", "geo", "faults", "restarts"} \subseteq DOMAIN dpRun /\ dpRun.todo \in Seq(DpRequest)

\* Whoever has a profile has the role; a rating is that of reviews.
DpDocOK ==
    /\ dpDoc \in Seq(DpDocument)
    /\ \A d \in DOMAIN dpDoc :
          /\ dpDoc[d].user \in DOMAIN dpRole /\ dpRole[dpDoc[d].user] = "driver"
          /\ DpBacked(dpDoc[d].sum, dpDoc[d].n, d, dpRev)

\* A review is written by the customer of its delivery.
DpRevOK ==
    /\ dpRev \in Seq(DpReviewRow)
    /\ \A i \in DOMAIN dpRev : dpRun.delivery[dpRev[i].x].customer = dpRev[i].user

DpJobOK ==
    /\ dpJob = [r \in DpHandler |-> dpJob[r]]
    /\ \A r \in DpHandler : DpFits(dpJob[r], dpDoc, dpRole, dpRev, dpRun.delivery)

DpTablesOK == DOMAIN dpMemo \subseteq DOMAIN dpDoc /\ dpMade \subseteq DOMAIN dpDoc

\* An answer shows private data of existing drivers to them only.
DpSaidOK ==
    /\ dpSaid.admin \/ (dpSaid.private \subseteq DOMAIN dpDoc /\ \A d \in dpSaid.private : dpDoc[d].user = dpSaid.user)
    /\ DpNearestFirst

\* The reviews of d in revs, and their places.
DpOfIn(revs, d) == {i \in DOMAIN revs : revs[i].d = d}
DpPlaceIn(revs, i, d) == Cardinality({j \in DpOfIn(revs, d) : j >= i})

\* What a client keeps of its pages.
DpWalkRow == [pc : {"idle", "count", "find", "done", "failed"}, d : Nat, page : Nat, limit : Int,
              start : SUBSET Nat, seen : SUBSET Nat, total : Nat, torn : BOOLEAN]

\* The pages read so far hold the reviews of the start as far down the list as
\* the offset has come; new reviews only move them further down.
DpWalkGood(w, revs) ==
    /\ w \in DpWalkRow
    /\ w.pc # "idle" => w.start \subseteq DpOfIn(revs, w.d)
    /\ \A i \in w.start, j \in w.start : j \in w.seen /\ i > j => i \in w.seen
    /\ w.pc \in {"count", "find"} =>
          /\ w.page > 0
          /\ \A i \in w.start : DpPlaceIn(revs, i, w.d) <= (w.page - 1) * DpLimit(w.limit) => i \in w.seen
    /\ w.pc = "done" /\ ~ w.torn => w.start \subseteq w.seen

DpInv == DpRunOK /\ DpDocOK /\ DpRevOK /\ DpJobOK /\ DpTablesOK /\ DpSaidOK /\ DpWalkGood(dpWalk, dpRev)

\* Stars are counted in natural numbers.
LEMMA DpStarsNat ==
    ASSUME NEW revs, NEW n \in Nat, DOMAIN revs = 1 .. n, NEW S \in SUBSET DOMAIN revs
    PROVE  Cardinality(S) \in Nat /\ DpStarsIn(revs, S) \in Nat
  <1> DEFINE V == {v \in S \X (1 .. 5) : v[2] <= revs[v[1]].stars}
  <1>1. IsFiniteSet(1 .. n) /\ IsFiniteSet(1 .. 5)
    <2>1. 1 \in Int /\ 5 \in Int /\ n \in Int
      OBVIOUS
    <2> QED
      BY <2>1, FS_Interval
  <1>2. IsFiniteSet(S) /\ Cardinality(S) \in Nat
    BY <1>1, FS_Subset, FS_CardinalityType
  <1>3. IsFiniteSet(S \X (1 .. 5))
    BY <1>1, <1>2, FS_Product
  <1>4. IsFiniteSet(V)
    BY <1>3, FS_Subset
  <1> QED
    BY <1>2, <1>4, FS_CardinalityType DEF DpStarsIn

\* New reviews do not change the ratings made before them.
LEMMA DpBackedGrows ==
    ASSUME NEW revs, NEW more, DOMAIN revs \subseteq DOMAIN more, \A i \in DOMAIN revs : more[i] = revs[i],
           NEW sum, NEW n, NEW d, DpBacked(sum, n, d, revs)
    PROVE  DpBacked(sum, n, d, more)
  <1>1. PICK S \in SUBSET DOMAIN revs :
           (\A i \in S : revs[i].d = d) /\ n = Cardinality(S) /\ sum = DpStarsIn(revs, S)
    BY DEF DpBacked
  <1>2. \A v \in S \X (1 .. 5) : more[v[1]] = revs[v[1]]
    OBVIOUS
  <1>3. {v \in S \X (1 .. 5) : v[2] <= revs[v[1]].stars} = {v \in S \X (1 .. 5) : v[2] <= more[v[1]].stars}
    BY <1>2
  <1>4. DpStarsIn(more, S) = DpStarsIn(revs, S)
    BY <1>3 DEF DpStarsIn
  <1>5. S \in SUBSET DOMAIN more /\ \A i \in S : more[i].d = d
    BY <1>1
  <1> QED
    BY <1>1, <1>4, <1>5 DEF DpBacked

\* What a handler knows stays true while the collections grow.
LEMMA DpFitsGrows ==
    ASSUME NEW j, NEW docs, NEW role, NEW revs, NEW delivery, DpFits(j, docs, role, revs, delivery),
           NEW docs2, DOMAIN docs \subseteq DOMAIN docs2, \A d \in DOMAIN docs : docs2[d].user = docs[d].user,
           NEW role2, DOMAIN role2 = DOMAIN role, \A u \in DOMAIN role : role[u] = "driver" => role2[u] = "driver",
           NEW revs2, DOMAIN revs \subseteq DOMAIN revs2, \A i \in DOMAIN revs : revs2[i] = revs[i]
    PROVE  DpFits(j, docs2, role2, revs2, delivery)
  <1>1. \A sum, n, d : DpBacked(sum, n, d, revs) => DpBacked(sum, n, d, revs2)
    BY DpBackedGrows
  <1>2. j.pc = "rateStore" => DpBacked(j.sum, j.n, j.d, revs2)
    BY <1>1 DEF DpFits
  <1>3. j.pc = "blockSave" => /\ j.d \in DOMAIN docs2 /\ j.copy \in DpDocument /\ j.copy.user = docs2[j.d].user
                              /\ DpBacked(j.copy.sum, j.copy.n, j.d, revs2)
    BY <1>1 DEF DpFits
  <1>4. j.pc = "regSave" => j.user \in DOMAIN role2 /\ role2[j.user] = "driver"
    BY DEF DpFits
  <1> QED
    BY <1>2, <1>3, <1>4 DEF DpFits

\* A handler that does nothing.
LEMMA DpIdleFits ==
    ASSUME NEW docs, NEW role, NEW revs, NEW delivery
    PROVE  DpFits(DpIdle, docs, role, revs, delivery) /\ DpIdle \in DpJobRow
  <1>1. PICK zero : zero = 0 /\ zero \in Nat
    OBVIOUS
  <1>2. PICK none : none = 0 /\ none \in DpDocument \cup {0}
    OBVIOUS
  <1>3. DpIdle = [pc |-> "idle", user |-> "", d |-> zero, x |-> "", stars |-> zero, active |-> FALSE,
                  copy |-> none, sum |-> zero, n |-> zero]
    BY <1>1, <1>2 DEF DpIdle
  <1>4. zero \in Nat /\ zero \in Int /\ none \in DpDocument \cup {0} /\ "" \in DpText /\ "idle" \in DpPcs
    BY <1>1, <1>2 DEF DpText, DpPcs
  <1> HIDE <1>1, <1>2
  <1>5. DpIdle \in DpJobRow
    BY <1>3, <1>4 DEF DpJobRow
  <1>6. DpIdle.pc = "idle"
    BY <1>3
  <1> QED
    BY <1>5, <1>6 DEF DpFits

\* The service starts with the invariant.
LEMMA DpInvInit == DpInit => DpInv
  <1> SUFFICES ASSUME DpInit PROVE DpInv
    OBVIOUS
  <1>1. /\ {"docs", "roles", "geo", "delivery", "todo", "faults", "restarts"} \subseteq DOMAIN dpRun
        /\ dpRun.docs \in Seq(DpFreshDoc) /\ dpRun.todo \in Seq(DpRequest)
        /\ \A d \in DOMAIN dpRun.docs : /\ dpRun.docs[d].user \in DOMAIN dpRun.roles
                                        /\ dpRun.roles[dpRun.docs[d].user] = "driver"
    BY DpAssumption DEF DpInit
  <1>2. DpRunOK
    BY <1>1 DEF DpRunOK
  <1>3. dpRev = << >> /\ dpRev \in Seq(DpReviewRow) /\ DOMAIN dpRev = {}
    BY DEF DpInit
  <1>4. DpDocOK
    <2>1. dpDoc \in Seq(DpFreshDoc) /\ dpDoc = dpRun.docs /\ dpRole = dpRun.roles
      BY <1>1 DEF DpInit
    <2>2. DpFreshDoc \subseteq DpDocument
      <3>0. \A z \in {0} : z \in Nat
        OBVIOUS
      <3>1. STRING \subseteq DpText
        BY DEF DpText
      <3>2. ASSUME NEW y \in DpFreshDoc PROVE y \in DpDocument
        <4>1. y.sum \in Nat /\ y.n \in Nat /\ y.user \in DpText /\ y.kind \in DpText
          <5>1. y.sum \in {0} /\ y.n \in {0} /\ y.user \in STRING /\ y.kind \in STRING
            BY DEF DpFreshDoc
          <5> QED
            BY <3>0, <3>1, <5>1
        <4>2. y = [user |-> y.user, status |-> y.status, active |-> y.active, blocked |-> y.blocked,
                   kind |-> y.kind, sum |-> y.sum, n |-> y.n]
              /\ y.status \in DpStates /\ y.active \in BOOLEAN /\ y.blocked \in BOOLEAN
          BY DEF DpFreshDoc, DpStates
        <4> QED
          BY <4>1, <4>2 DEF DpDocument
      <3> QED
        BY <3>2
    <2>3. dpDoc \in Seq(DpDocument)
      BY <2>1, <2>2
    <2>4. ASSUME NEW d \in DOMAIN dpDoc
          PROVE  DpBacked(dpDoc[d].sum, dpDoc[d].n, d, dpRev)
      <3>1. dpDoc[d] \in DpFreshDoc
        BY <2>1
      <3>2. dpDoc[d].sum = 0 /\ dpDoc[d].n = 0
        BY <3>1 DEF DpFreshDoc
      <3>3. Cardinality({}) = 0
        BY FS_EmptySet
      <3>4. DpStarsIn(dpRev, {}) = 0
        <4>1. {v \in {} \X (1 .. 5) : v[2] <= dpRev[v[1]].stars} = {}
          OBVIOUS
        <4> QED
          BY <3>3, <4>1 DEF DpStarsIn
      <3>5. {} \in SUBSET DOMAIN dpRev
        OBVIOUS
      <3> QED
        BY <3>2, <3>3, <3>4, <3>5 DEF DpBacked
    <2> QED
      BY <1>1, <2>1, <2>3, <2>4 DEF DpDocOK
  <1>5. DpRevOK
    BY <1>3 DEF DpRevOK
  <1>6. DpJobOK
    BY DpIdleFits DEF DpInit, DpJobOK
  <1>7. DpTablesOK
    BY DEF DpTablesOK, DpInit
  <1>8. DpSaidOK
    <2>1. PICK none : none = {}
      OBVIOUS
    <2>2. dpSaid.private = {} /\ dpSaid.items = << >>
      BY DEF DpInit, DpSilent
    <2> QED
      BY <2>2 DEF DpSaidOK, DpNearestFirst
  <1>9. DpWalkGood(dpWalk, dpRev)
    <2>1. PICK zero : zero = 0 /\ zero \in Nat
      OBVIOUS
    <2>2. PICK none : none = {}
      OBVIOUS
    <2>3. dpWalk = [pc |-> "idle", d |-> zero, page |-> zero, limit |-> zero, start |-> none, seen |-> none,
                    total |-> zero, torn |-> FALSE]
      BY <2>1, <2>2 DEF DpInit, DpNoWalk
    <2>4. zero \in Nat /\ zero \in Int /\ none \in SUBSET Nat
      BY <2>1, <2>2
    <2>5. dpWalk \in DpWalkRow /\ dpWalk.pc = "idle" /\ dpWalk.start = none
      <3> HIDE <2>1, <2>2
      <3> QED
        BY <2>3, <2>4 DEF DpWalkRow
    <2>6. \A i : i \notin dpWalk.start
      BY <2>2, <2>5
    <2> QED
      BY <2>5, <2>6 DEF DpWalkGood
  <1> QED
    BY <1>2, <1>4, <1>5, <1>6, <1>7, <1>8, <1>9 DEF DpInv

\* What the deliveries and Redis hold does not change, and requests are taken one by one.
LEMMA DpRunStep ==
    ASSUME DpRunOK, [DpNext]_dpVars
    PROVE  DpRunOK' /\ dpRun'.delivery = dpRun.delivery /\ dpRun'.geo = dpRun.geo
  <1> DEFINE Kept == DpRunOK' /\ dpRun'.delivery = dpRun.delivery /\ dpRun'.geo = dpRun.geo
  <1>1. ASSUME NEW f \in {"faults", "restarts"}, DpSpend(f) PROVE Kept
    <2>1. PICK x : x = dpRun[f] - 1
      OBVIOUS
    <2>2. dpRun' = [dpRun EXCEPT ![f] = x]
      BY <1>1, <2>1 DEF DpSpend
    <2> QED
      BY <2>2 DEF DpRunOK
  <1>2. DpFine => Kept
    BY DEF DpFine, DpRunOK
  <1>3. DpFault => Kept
    BY <1>1 DEF DpFault
  <1>4. ASSUME NEW op, DpTake(op) PROVE Kept
    <2>1. PICK rest : rest = Tail(dpRun.todo)
      OBVIOUS
    <2>2. dpRun' = [dpRun EXCEPT !.todo = rest]
      BY <1>4, <2>1 DEF DpTake
    <2>3. rest \in Seq(DpRequest)
      BY <1>4, <2>1 DEF DpTake, DpRunOK
    <2> QED
      BY <2>2, <2>3 DEF DpRunOK
  <1> HIDE DEF Kept
  <1>5. ASSUME NEW r \in DpHandler, DpStep(r) PROVE Kept
    <2>1. CASE RegisterDriver(r) \/ RateDriver(r) \/ BlockDriver(r)
      BY <2>1, <1>4 DEF RegisterDriver, RateDriver, BlockDriver
    <2>2. CASE RegisterFind(r) \/ RegisterRole(r) \/ UpdateUserRole(r) \/ RegisterSave(r)
      BY <2>2, <1>2, <1>3 DEF RegisterFind, RegisterRole, UpdateUserRole, RegisterSave
    <2>3. CASE RateFind(r) \/ RateSeen(r) \/ RateSave(r) \/ RateAverage(r) \/ RateStore(r) \/ BlockSave(r)
      BY <2>3, <1>2, <1>3 DEF RateFind, RateSeen, RateSave, RateAverage, RateStore, BlockSave
    <2> QED
      BY <1>5, <2>1, <2>2, <2>3 DEF DpStep
  <1>6. DpSearch \/ DpRead \/ DpReviewsStep \/ HeartbeatCheck \/ DpRestart => Kept
    <2>1. DpReviewsStep => Kept
      BY <1>2, <1>3, <1>4 DEF DpReviewsStep, DpReviewsFirst, DpReviewsCount, DpReviewsNext, DpReviewsFail
    <2> QED
      BY <2>1, <1>1, <1>2, <1>4 DEF DpSearch, DpRead, HeartbeatCheck, DpRestart
  <1>7. UNCHANGED dpVars => Kept
    BY <1>2 DEF DpFine, dpVars
  <1> QED
    BY <1>5, <1>6, <1>7 DEF DpNext, Kept

\* The collections only grow: users, roles of drivers and reviews stay.
DpGrown ==
    /\ DOMAIN dpDoc \subseteq DOMAIN dpDoc' /\ \A d \in DOMAIN dpDoc : dpDoc'[d].user = dpDoc[d].user
    /\ DOMAIN dpRole' = DOMAIN dpRole /\ \A u \in DOMAIN dpRole : dpRole[u] = "driver" => dpRole'[u] = "driver"
    /\ DOMAIN dpRev \subseteq DOMAIN dpRev' /\ \A i \in DOMAIN dpRev : dpRev'[i] = dpRev[i]

\* A handler takes up the row j; the others go on.
LEMMA DpJobSet ==
    ASSUME DpJobOK, DpGrown, dpRun'.delivery = dpRun.delivery, NEW r \in DpHandler, NEW j,
           DpFits(j, dpDoc', dpRole', dpRev', dpRun.delivery), dpJob' = [dpJob EXCEPT ![r] = j]
    PROVE  DpJobOK'
  <1>1. PICK docs, role, revs, del : docs = dpDoc' /\ role = dpRole' /\ revs = dpRev' /\ del = dpRun.delivery
    OBVIOUS
  <1>2. ASSUME NEW q \in DpHandler PROVE DpFits(dpJob[q], docs, role, revs, del)
    <2>1. DpFits(dpJob[q], dpDoc, dpRole, dpRev, del)
      BY <1>1 DEF DpJobOK
    <2>2. /\ DOMAIN dpDoc \subseteq DOMAIN docs /\ \A d \in DOMAIN dpDoc : docs[d].user = dpDoc[d].user
          /\ DOMAIN role = DOMAIN dpRole /\ \A u \in DOMAIN dpRole : dpRole[u] = "driver" => role[u] = "driver"
          /\ DOMAIN dpRev \subseteq DOMAIN revs /\ \A i \in DOMAIN dpRev : revs[i] = dpRev[i]
      BY <1>1 DEF DpGrown
    <2> QED
      BY <2>1, <2>2, DpFitsGrows
  <1>3. DpFits(j, docs, role, revs, del)
    BY <1>1
  <1>4. dpJob' = [q \in DpHandler |-> dpJob'[q]] /\ \A q \in DpHandler : dpJob'[q] = IF q = r THEN j ELSE dpJob[q]
    BY DEF DpJobOK
  <1>5. \A q \in DpHandler : DpFits(dpJob'[q], docs, role, revs, del)
    BY <1>2, <1>3, <1>4
  <1> QED
    BY <1>1, <1>4, <1>5 DEF DpJobOK

\* No handler moves.
LEMMA DpJobKept ==
    ASSUME DpJobOK, DpGrown, dpRun'.delivery = dpRun.delivery, UNCHANGED dpJob
    PROVE  DpJobOK'
  <1>1. PICK docs, role, revs, del : docs = dpDoc' /\ role = dpRole' /\ revs = dpRev' /\ del = dpRun.delivery
    OBVIOUS
  <1>2. ASSUME NEW q \in DpHandler PROVE DpFits(dpJob[q], docs, role, revs, del)
    <2>1. DpFits(dpJob[q], dpDoc, dpRole, dpRev, del)
      BY <1>1 DEF DpJobOK
    <2>2. /\ DOMAIN dpDoc \subseteq DOMAIN docs /\ \A d \in DOMAIN dpDoc : docs[d].user = dpDoc[d].user
          /\ DOMAIN role = DOMAIN dpRole /\ \A u \in DOMAIN dpRole : dpRole[u] = "driver" => role[u] = "driver"
          /\ DOMAIN dpRev \subseteq DOMAIN revs /\ \A i \in DOMAIN dpRev : revs[i] = dpRev[i]
      BY <1>1 DEF DpGrown
    <2> QED
      BY <2>1, <2>2, DpFitsGrows
  <1> QED
    BY <1>1, <1>2 DEF DpJobOK

\* A row of a handler with another pc.
LEMMA DpMoves ==
    ASSUME NEW j \in DpJobRow, NEW pc \in DpPcs
    PROVE  LET k == [j EXCEPT !.pc = pc]
           IN  /\ k \in DpJobRow /\ k.pc = pc /\ k.user = j.user /\ k.d = j.d /\ k.x = j.x /\ k.stars = j.stars
               /\ k.active = j.active /\ k.copy = j.copy /\ k.sum = j.sum /\ k.n = j.n
  BY DEF DpJobRow

\* A handler goes on or ends while the collections may grow.
LEMMA DpGoes ==
    ASSUME DpJobOK, DpGrown, dpRun'.delivery = dpRun.delivery, NEW r \in DpHandler, NEW pc \in DpPcs,
           DpGo(r, pc), pc # "rateStore", pc # "blockSave",
           pc = "regSave" => dpJob[r].user \in DOMAIN dpRole' /\ dpRole'[dpJob[r].user] = "driver",
           pc \in {"rateFind", "rateSeen", "rateSave"} => dpJob[r].stars \in 1 .. 5,
           pc \in {"rateSeen", "rateSave"} => dpRun.delivery[dpJob[r].x].customer = dpJob[r].user
    PROVE  DpJobOK'
  <1>1. PICK k : k = [dpJob[r] EXCEPT !.pc = pc]
    OBVIOUS
  <1>2. dpJob' = [dpJob EXCEPT ![r] = k]
    BY <1>1 DEF DpGo
  <1>3. dpJob[r] \in DpJobRow
    BY DEF DpJobOK, DpFits
  <1>4. k \in DpJobRow /\ k.pc = pc /\ k.user = dpJob[r].user /\ k.x = dpJob[r].x /\ k.stars = dpJob[r].stars
    BY <1>1, <1>3, DpMoves
  <1>5. DpFits(k, dpDoc', dpRole', dpRev', dpRun.delivery)
    BY <1>4 DEF DpFits
  <1> QED
    BY <1>2, <1>5, DpJobSet

\* A handler ends.
LEMMA DpEnds ==
    ASSUME DpJobOK, DpGrown, dpRun'.delivery = dpRun.delivery, NEW r \in DpHandler, DpDone(r)
    PROVE  DpJobOK'
  <1>1. DpFits(DpIdle, dpDoc', dpRole', dpRev', dpRun.delivery)
    BY DpIdleFits
  <1> QED
    BY <1>1, DpJobSet DEF DpDone

\* The documents stay while the other collections grow.
LEMMA DpDocsKept ==
    ASSUME DpDocOK, DpGrown, UNCHANGED dpDoc
    PROVE  DpDocOK'
  <1>1. PICK revs : revs = dpRev'
    OBVIOUS
  <1>2. ASSUME NEW d \in DOMAIN dpDoc PROVE DpBacked(dpDoc[d].sum, dpDoc[d].n, d, revs)
    <2>1. DpBacked(dpDoc[d].sum, dpDoc[d].n, d, dpRev)
      BY DEF DpDocOK
    <2>2. DOMAIN dpRev \subseteq DOMAIN revs /\ \A i \in DOMAIN dpRev : revs[i] = dpRev[i]
      BY <1>1 DEF DpGrown
    <2> QED
      BY <2>1, <2>2, DpBackedGrows
  <1>3. \A d \in DOMAIN dpDoc : dpDoc[d].user \in DOMAIN dpRole' /\ dpRole'[dpDoc[d].user] = "driver"
    BY DEF DpDocOK, DpGrown
  <1> QED
    BY <1>1, <1>2, <1>3 DEF DpDocOK

\* One document is written.
LEMMA DpDocSet ==
    ASSUME DpDocOK, UNCHANGED <<dpRole, dpRev>>, NEW d \in DOMAIN dpDoc, NEW y \in DpDocument,
           y.user = dpDoc[d].user, DpBacked(y.sum, y.n, d, dpRev), dpDoc' = [dpDoc EXCEPT ![d] = y]
    PROVE  DpDocOK' /\ DpGrown
  <1>1. dpDoc \in Seq(DpDocument)
    BY DEF DpDocOK
  <1>2. dpDoc' \in Seq(DpDocument) /\ DOMAIN dpDoc' = DOMAIN dpDoc
        /\ \A e \in DOMAIN dpDoc : dpDoc'[e] = IF e = d THEN y ELSE dpDoc[e]
    BY <1>1
  <1>3. PICK docs : docs = dpDoc'
    OBVIOUS
  <1>4. ASSUME NEW e \in DOMAIN dpDoc
        PROVE  /\ docs[e].user = dpDoc[e].user
               /\ docs[e].user \in DOMAIN dpRole /\ dpRole[docs[e].user] = "driver"
               /\ DpBacked(docs[e].sum, docs[e].n, e, dpRev)
    <2>1. CASE e = d
      BY <1>2, <1>3, <2>1 DEF DpDocOK
    <2>2. CASE e # d
      BY <1>2, <1>3, <2>2 DEF DpDocOK
    <2> QED
      BY <2>1, <2>2
  <1>5. DpGrown
    BY <1>2, <1>3, <1>4 DEF DpGrown
  <1>6. DpDocOK'
    BY <1>2, <1>3, <1>4 DEF DpDocOK
  <1> QED
    BY <1>5, <1>6

\* Everything that is stored, and the handlers that store it.
DpStoreOK == DpDocOK /\ DpRevOK /\ DpJobOK /\ DpTablesOK
DpQuiet == UNCHANGED <<dpDoc, dpRole, dpRev>>

\* Nothing is stored.
LEMMA DpQuietKeeps ==
    ASSUME DpStoreOK, DpQuiet, dpRun'.delivery = dpRun.delivery
    PROVE  DpGrown /\ DpDocOK' /\ DpRevOK'
  <1>1. DpGrown
    BY DEF DpGrown, DpQuiet
  <1>2. DpRevOK'
    BY DEF DpRevOK, DpQuiet, DpStoreOK
  <1> QED
    BY <1>1, <1>2, DpDocsKept DEF DpStoreOK, DpQuiet

\* A request is the first of those to come.
LEMMA DpAskedOK ==
    ASSUME DpRunOK, NEW op, DpTake(op)
    PROVE  DpAsked \in DpRequest
  BY DEF DpRunOK, DpTake, DpAsked

\* The mutations begin.
LEMMA DpBeginKeeps ==
    ASSUME DpStoreOK, DpRunOK, NEW r \in DpHandler, RegisterDriver(r) \/ RateDriver(r) \/ BlockDriver(r),
           dpRun'.delivery = dpRun.delivery
    PROVE  DpQuiet /\ DpJobOK' /\ UNCHANGED dpMade
  <1>1. DpQuiet /\ UNCHANGED dpMade
    BY DEF RegisterDriver, RateDriver, BlockDriver, DpQuiet
  <1>2. DpGrown /\ DpJobOK
    BY <1>1, DpQuietKeeps DEF DpStoreOK
  <1>3. PICK q \in DpRequest : q = DpAsked
    BY DpAskedOK DEF RegisterDriver, RateDriver, BlockDriver
  <1>4. /\ q.user \in DpText /\ q.target \in DpText /\ q.x \in DpText /\ q.d \in Nat /\ q.admin \in BOOLEAN
        /\ q.stars \in Int
    BY DEF DpRequest, DpText
  <1>5. /\ DpIdle \in DpJobRow /\ DpIdle.user \in DpText /\ DpIdle.d \in Nat /\ DpIdle.x \in DpText
        /\ DpIdle.stars \in Int /\ DpIdle.active \in BOOLEAN /\ DpIdle.copy \in DpDocument \cup {0}
    BY DpIdleFits DEF DpJobRow
  <1>6. UNCHANGED dpJob => DpJobOK'
    BY <1>2, DpJobKept
  <1>7. CASE RegisterDriver(r)
    <2>1. PICK u \in DpText : u = RegisterTarget(q)
      BY <1>4 DEF RegisterTarget
    <2>2. PICK j : j = [DpIdle EXCEPT !.pc = "regFind", !.user = u, !.active = q.admin]
      OBVIOUS
    <2>4. "regFind" \in DpPcs
      BY DEF DpPcs
    <2>5. j \in DpJobRow /\ j.pc = "regFind"
      BY <1>4, <1>5, <2>2, <2>4 DEF DpJobRow
    <2>6. DpFits(j, dpDoc', dpRole', dpRev', dpRun.delivery)
      BY <2>5 DEF DpFits
    <2>7. UNCHANGED dpJob \/ dpJob' = [dpJob EXCEPT ![r] = j]
      BY <1>3, <1>7, <2>1, <2>2 DEF RegisterDriver
    <2> QED
      BY <1>1, <1>2, <1>6, <2>6, <2>7, DpJobSet
  <1>8. CASE RateDriver(r)
    <2>1. PICK u \in DpText : u = IF q.user = "" THEN "user-client" ELSE q.user
      <3>1. "user-client" \in DpText
        BY DEF DpText
      <3> QED
        BY <1>4, <3>1
    <2>2. PICK j : j = [DpIdle EXCEPT !.pc = "rateFind", !.d = q.d, !.x = q.x, !.user = u, !.stars = q.stars]
      OBVIOUS
    <2>4. "rateFind" \in DpPcs
      BY DEF DpPcs
    <2>5. j \in DpJobRow /\ j.pc = "rateFind" /\ j.stars = q.stars
      BY <1>4, <1>5, <2>2, <2>4 DEF DpJobRow
    <2>6. q.stars \in 1 .. 5 => DpFits(j, dpDoc', dpRole', dpRev', dpRun.delivery)
      BY <2>5 DEF DpFits
    <2>7. UNCHANGED dpJob \/ (q.stars \in 1 .. 5 /\ dpJob' = [dpJob EXCEPT ![r] = j])
      BY <1>3, <1>8, <2>1, <2>2 DEF RateDriver
    <2> QED
      BY <1>1, <1>2, <1>6, <2>6, <2>7, DpJobSet
  <1>9. CASE BlockDriver(r)
    <2>1. CASE DpKnown(q.d)
      <3>1. q.d \in DOMAIN dpDoc /\ dpDoc[q.d] \in DpDocument /\ DpBacked(dpDoc[q.d].sum, dpDoc[q.d].n, q.d, dpRev)
        BY <2>1 DEF DpKnown, DpStoreOK, DpDocOK
      <3>2. PICK y : y = [dpDoc[q.d] EXCEPT !.blocked = TRUE]
        OBVIOUS
      <3>3. y \in DpDocument /\ y.user = dpDoc[q.d].user /\ y.sum = dpDoc[q.d].sum /\ y.n = dpDoc[q.d].n
        BY <3>1, <3>2 DEF DpDocument
      <3>4. PICK j : j = [DpIdle EXCEPT !.pc = "blockSave", !.d = q.d, !.copy = y]
        OBVIOUS
      <3>6. "blockSave" \in DpPcs /\ y \in DpDocument \cup {0}
        BY <3>3 DEF DpPcs
      <3>7. j \in DpJobRow /\ j.pc = "blockSave" /\ j.d = q.d /\ j.copy = y
        BY <1>4, <1>5, <3>4, <3>6 DEF DpJobRow
      <3>8. DpFits(j, dpDoc, dpRole, dpRev, dpRun.delivery)
        BY <3>1, <3>3, <3>7 DEF DpFits
      <3>9. DpFits(j, dpDoc', dpRole', dpRev', dpRun.delivery)
        BY <1>1, <3>8 DEF DpQuiet
      <3>10. UNCHANGED dpJob \/ dpJob' = [dpJob EXCEPT ![r] = j]
        BY <1>3, <1>9, <3>2, <3>4 DEF BlockDriver
      <3> QED
        BY <1>1, <1>2, <1>6, <3>9, <3>10, DpJobSet
    <2>2. CASE ~ DpKnown(q.d)
      BY <1>1, <1>3, <1>6, <1>9, <2>2 DEF BlockDriver
    <2> QED
      BY <2>1, <2>2
  <1> QED
    BY <1>1, <1>7, <1>8, <1>9

\* The handlers look something up.
LEMMA DpLookupKeeps ==
    ASSUME DpStoreOK, NEW r \in DpHandler, RegisterFind(r) \/ RegisterRole(r) \/ RateFind(r) \/ RateSeen(r),
           dpRun'.delivery = dpRun.delivery
    PROVE  DpQuiet /\ DpJobOK' /\ UNCHANGED dpMade
  <1>1. DpQuiet /\ UNCHANGED dpMade
    BY DEF RegisterFind, RegisterRole, RateFind, RateSeen, DpQuiet
  <1>2. DpGrown /\ DpJobOK
    BY <1>1, DpQuietKeeps DEF DpStoreOK
  <1>3. DpDone(r) => DpJobOK'
    BY <1>2, DpEnds
  <1>4. {"regRole", "regUpdate", "rateSeen", "rateSave"} \subseteq DpPcs
    BY DEF DpPcs
  <1>5. DpGo(r, "regRole") \/ DpGo(r, "regUpdate") => DpJobOK'
    BY <1>2, <1>4, DpGoes
  <1>6. DpFits(dpJob[r], dpDoc, dpRole, dpRev, dpRun.delivery)
    BY <1>2 DEF DpJobOK
  <1>7. CASE RegisterFind(r) \/ RegisterRole(r)
    <2>1. RegisterFind(r) => DpDone(r) \/ DpGo(r, "regRole")
      BY Zenon DEF RegisterFind
    <2>2. RegisterRole(r) => DpDone(r) \/ DpGo(r, "regUpdate")
      BY Zenon DEF RegisterRole
    <2> QED
      BY <1>1, <1>3, <1>5, <1>7, <2>1, <2>2
  <1>8. CASE RateFind(r)
    <2>1. dpJob[r].stars \in 1 .. 5
      BY <1>6, <1>8 DEF RateFind, DpAt, DpFits
    <2>2. RateAllowed(r) => dpRun.delivery[dpJob[r].x].customer = dpJob[r].user
      BY DEF RateAllowed
    <2>3. RateAllowed(r) /\ DpGo(r, "rateSeen") => DpJobOK'
      BY <1>2, <1>4, <2>1, <2>2, DpGoes
    <2>4. DpDone(r) \/ (RateAllowed(r) /\ DpGo(r, "rateSeen"))
      BY <1>8, Zenon DEF RateFind
    <2> QED
      BY <1>1, <1>3, <2>3, <2>4
  <1>9. CASE RateSeen(r)
    <2>1. dpJob[r].stars \in 1 .. 5 /\ dpRun.delivery[dpJob[r].x].customer = dpJob[r].user
      BY <1>6, <1>9 DEF RateSeen, DpAt, DpFits
    <2>2. DpGo(r, "rateSave") => DpJobOK'
      BY <1>2, <1>4, <2>1, DpGoes
    <2>3. DpDone(r) \/ DpGo(r, "rateSave")
      BY <1>9, Zenon DEF RateSeen
    <2> QED
      BY <1>1, <1>3, <2>2, <2>3
  <1> QED
    BY <1>1, <1>7, <1>8, <1>9

\* The average of a driver's reviews is that of some reviews of the driver.
LEMMA DpAverageBacked ==
    ASSUME DpRevOK, NEW d \in Nat
    PROVE  LET avg == CalculateAverageRating(d)
           IN  avg.sum \in Nat /\ avg.n \in Nat /\ DpBacked(avg.sum, avg.n, d, dpRev)
  <1> DEFINE S == ReviewsOf(d)
  <1>1. Len(dpRev) \in Nat /\ DOMAIN dpRev = 1 .. Len(dpRev)
    BY DEF DpRevOK
  <1>2. S \in SUBSET DOMAIN dpRev /\ \A i \in S : dpRev[i].d = d
    BY DEF ReviewsOf
  <1>3. Cardinality(S) \in Nat /\ DpStarsIn(dpRev, S) \in Nat
    BY <1>1, <1>2, DpStarsNat
  <1>4. DpStars(S) = DpStarsIn(dpRev, S)
    BY DEF DpStars, DpStarsIn
  <1>5. CalculateAverageRating(d).sum = DpStarsIn(dpRev, S) /\ CalculateAverageRating(d).n = Cardinality(S)
    BY <1>4 DEF CalculateAverageRating
  <1> HIDE DEF S
  <1> QED
    BY <1>2, <1>3, <1>5 DEF DpBacked

\* The average is computed.
LEMMA DpAverageKeeps ==
    ASSUME DpStoreOK, NEW r \in DpHandler, RateAverage(r), dpRun'.delivery = dpRun.delivery
    PROVE  DpQuiet /\ DpJobOK' /\ UNCHANGED dpMade
  <1>1. DpQuiet /\ UNCHANGED dpMade
    BY DEF RateAverage, DpQuiet
  <1>2. DpGrown /\ DpJobOK
    BY <1>1, DpQuietKeeps DEF DpStoreOK
  <1>3. DpDone(r) => DpJobOK'
    BY <1>2, DpEnds
  <1>4. dpJob[r] \in DpJobRow
    BY <1>2 DEF DpJobOK, DpFits
  <1>5. PICK row \in DpJobRow : row = dpJob[r]
    BY <1>4
  <1>6. row.d \in Nat
    BY DEF DpJobRow
  <1>7. PICK sum \in Nat, n \in Nat : /\ sum = CalculateAverageRating(row.d).sum
                                      /\ n = CalculateAverageRating(row.d).n
                                      /\ DpBacked(sum, n, row.d, dpRev)
    BY <1>6, DpAverageBacked DEF DpStoreOK
  <1>8. PICK j : j = [row EXCEPT !.pc = "rateStore", !.sum = sum, !.n = n]
    OBVIOUS
  <1>9. "rateStore" \in DpPcs
    BY DEF DpPcs
  <1>10. j \in DpJobRow /\ j.pc = "rateStore" /\ j.d = row.d /\ j.sum = sum /\ j.n = n
    BY <1>8, <1>9 DEF DpJobRow
  <1>11. DpFits(j, dpDoc', dpRole', dpRev', dpRun.delivery)
    BY <1>1, <1>7, <1>10 DEF DpFits, DpQuiet
  <1>12. DpDone(r) \/ dpJob' = [dpJob EXCEPT ![r] = j]
    <2>1. dpJob' = [dpJob EXCEPT ![r].pc = "rateStore", ![r].sum = sum, ![r].n = n] \/ DpDone(r)
      BY <1>5, <1>7 DEF RateAverage
    <2>2. [dpJob EXCEPT ![r].pc = "rateStore", ![r].sum = sum, ![r].n = n] = [dpJob EXCEPT ![r] = j]
      <3>1. dpJob = [q \in DpHandler |-> dpJob[q]]
        BY <1>2 DEF DpJobOK
      <3> QED
        BY <3>1, <1>5, <1>8 DEF DpJobRow
    <2> QED
      BY <2>1, <2>2
  <1> QED
    BY <1>1, <1>2, <1>3, <1>11, <1>12, DpJobSet

\* user-service stores the role.
LEMMA DpRoleKeeps ==
    ASSUME DpStoreOK, NEW r \in DpHandler, UpdateUserRole(r), dpRun'.delivery = dpRun.delivery
    PROVE  DpDocOK' /\ DpRevOK' /\ DpJobOK' /\ UNCHANGED <<dpDoc, dpRev, dpMade>>
  <1>1. UNCHANGED <<dpDoc, dpRev, dpMade>>
    BY DEF UpdateUserRole
  <1>2. dpRole' = dpRole \/ (DpUser(r) /\ dpRole' = [dpRole EXCEPT ![dpJob[r].user] = "driver"])
    BY DEF UpdateUserRole
  <1>3. DOMAIN dpRole' = DOMAIN dpRole /\ \A u \in DOMAIN dpRole : dpRole[u] = "driver" => dpRole'[u] = "driver"
    BY <1>2
  <1>4. DpGrown
    BY <1>1, <1>3 DEF DpGrown
  <1>5. DpJobOK
    BY DEF DpStoreOK
  <1>6. DpDone(r) => DpJobOK'
    BY <1>4, <1>5, DpEnds
  <1>7. DpUser(r) /\ dpRole' = [dpRole EXCEPT ![dpJob[r].user] = "driver"] /\ DpGo(r, "regSave") => DpJobOK'
    <2>1. SUFFICES ASSUME DpUser(r), dpRole' = [dpRole EXCEPT ![dpJob[r].user] = "driver"], DpGo(r, "regSave")
                   PROVE  DpJobOK'
      OBVIOUS
    <2>2. dpJob[r].user \in DOMAIN dpRole' /\ dpRole'[dpJob[r].user] = "driver"
      BY <2>1 DEF DpUser
    <2>3. "regSave" \in DpPcs
      BY DEF DpPcs
    <2> QED
      BY <1>4, <1>5, <2>1, <2>2, <2>3, DpGoes
  <1>8. DpJobOK'
    BY <1>6, <1>7 DEF UpdateUserRole
  <1>9. DpDocOK'
    BY <1>1, <1>4, DpDocsKept DEF DpStoreOK
  <1>10. DpRevOK'
    BY <1>1 DEF DpRevOK, DpStoreOK
  <1> QED
    BY <1>1, <1>8, <1>9, <1>10
\* A profile is saved; a user that has the role gets it.
LEMMA DpRegisterKeeps ==
    ASSUME DpStoreOK, NEW r \in DpHandler, RegisterSave(r), dpRun'.delivery = dpRun.delivery
    PROVE  /\ DpDocOK' /\ DpRevOK' /\ DpJobOK' /\ UNCHANGED dpRev
           /\ DOMAIN dpDoc \subseteq DOMAIN dpDoc' /\ \A d \in DOMAIN dpDoc : dpDoc'[d].user = dpDoc[d].user
           /\ dpMade' \subseteq DOMAIN dpDoc'
  <1>1. UNCHANGED <<dpRole, dpRev>> /\ DpDone(r) /\ DpJobOK /\ DpDocOK /\ DpTablesOK
    BY DEF RegisterSave, DpStoreOK
  <1>2. PICK y : y = DpNewDoc(dpJob[r].user, dpJob[r].active)
    OBVIOUS
  <1>3. \/ UNCHANGED <<dpDoc, dpMade>>
        \/ dpDoc' = Append(dpDoc, y) /\ dpMade' \subseteq dpMade \cup {Len(dpDoc) + 1}
    BY <1>2 DEF RegisterSave
  <1>4. CASE UNCHANGED <<dpDoc, dpMade>>
    <2>1. DpQuiet
      BY <1>1, <1>4 DEF DpQuiet
    <2>2. DpGrown /\ DpDocOK' /\ DpRevOK'
      BY <2>1, DpQuietKeeps
    <2>3. DpJobOK'
      BY <1>1, <2>2, DpEnds
    <2>4. dpMade' \subseteq DOMAIN dpDoc'
      BY <1>1, <1>4 DEF DpTablesOK
    <2> QED
      BY <1>1, <1>4, <2>2, <2>3, <2>4
  <1>5. CASE dpDoc' = Append(dpDoc, y) /\ dpMade' \subseteq dpMade \cup {Len(dpDoc) + 1}
    <2>1. DpFits(dpJob[r], dpDoc, dpRole, dpRev, dpRun.delivery) /\ dpJob[r].pc = "regSave"
      BY <1>1 DEF DpJobOK, RegisterSave, DpAt
    <2>2. /\ dpJob[r].user \in DpText /\ dpJob[r].active \in BOOLEAN
          /\ dpJob[r].user \in DOMAIN dpRole /\ dpRole[dpJob[r].user] = "driver"
      BY <2>1 DEF DpFits, DpJobRow
    <2>3. PICK zero : zero = 0 /\ zero \in Nat
      OBVIOUS
    <2>4. PICK u \in DpText, a \in BOOLEAN : u = dpJob[r].user /\ a = dpJob[r].active
      BY <2>2
    <2>5. y = [user |-> u, status |-> "OFFLINE", active |-> a, blocked |-> FALSE, kind |-> "CAR",
               sum |-> zero, n |-> zero]
      BY <1>2, <2>3, <2>4 DEF DpNewDoc
    <2>6. zero \in Nat /\ "OFFLINE" \in DpStates /\ "CAR" \in DpText
      BY <2>3 DEF DpStates, DpText
    <2>7. y \in DpDocument /\ y.user = u /\ y.sum = zero /\ y.n = zero
      <3> HIDE <2>3
      <3> QED
        BY <2>5, <2>6 DEF DpDocument
    <2>8. DpBacked(y.sum, y.n, Len(dpDoc) + 1, dpRev)
      <3>1. {} \in SUBSET DOMAIN dpRev /\ Cardinality({}) = 0
        BY FS_EmptySet
      <3>2. {v \in {} \X (1 .. 5) : v[2] <= dpRev[v[1]].stars} = {}
        OBVIOUS
      <3>3. DpStarsIn(dpRev, {}) = 0
        BY <3>1, <3>2 DEF DpStarsIn
      <3> QED
        BY <2>3, <2>7, <3>1, <3>3 DEF DpBacked
    <2>9. dpDoc \in Seq(DpDocument)
      BY <1>1 DEF DpDocOK
    <2>10. /\ dpDoc' \in Seq(DpDocument) /\ Len(dpDoc) \in Nat
           /\ DOMAIN dpDoc = 1 .. Len(dpDoc) /\ DOMAIN dpDoc' = 1 .. (Len(dpDoc) + 1)
           /\ \A i \in 1 .. Len(dpDoc) : dpDoc'[i] = dpDoc[i]
           /\ dpDoc'[Len(dpDoc) + 1] = y
      BY <1>5, <2>7, <2>9, Appended
    <2>11. DpGrown
      BY <1>1, <2>10 DEF DpGrown
    <2>12. PICK n \in Nat : n = Len(dpDoc)
      BY <2>10
    <2>d. PICK docs : docs = dpDoc'
      OBVIOUS
    <2>13. ASSUME NEW d \in 1 .. (n + 1)
           PROVE  /\ docs[d].user \in DOMAIN dpRole /\ dpRole[docs[d].user] = "driver"
                  /\ DpBacked(docs[d].sum, docs[d].n, d, dpRev)
      <3>1. CASE d \in 1 .. n
        BY <1>1, <2>10, <2>12, <2>d, <3>1 DEF DpDocOK
      <3>2. CASE d = n + 1
        BY <2>2, <2>4, <2>7, <2>8, <2>10, <2>12, <2>d, <3>2
      <3> QED
        BY <3>1, <3>2
    <2>14. DpDocOK'
      BY <1>1, <2>10, <2>12, <2>d, <2>13 DEF DpDocOK
    <2>15. DpRevOK'
      BY <1>1 DEF DpRevOK, DpStoreOK
    <2>16. DpJobOK'
      BY <1>1, <2>11, DpEnds
    <2>17. dpMade' \subseteq DOMAIN dpDoc'
      BY <1>1, <1>5, <2>10 DEF DpTablesOK
    <2> QED
      BY <1>1, <2>11, <2>14, <2>15, <2>16, <2>17 DEF DpGrown
  <1> QED
    BY <1>3, <1>4, <1>5

\* A review is saved; it is one of the customer of its delivery.
LEMMA DpReviewKeeps ==
    ASSUME DpStoreOK, NEW r \in DpHandler, RateSave(r), dpRun'.delivery = dpRun.delivery
    PROVE  /\ DpDocOK' /\ DpRevOK' /\ DpJobOK' /\ UNCHANGED <<dpDoc, dpMade>>
           /\ DOMAIN dpRev \subseteq DOMAIN dpRev' /\ \A i \in DOMAIN dpRev : dpRev'[i] = dpRev[i]
  <1>1. UNCHANGED <<dpDoc, dpRole, dpMade>> /\ DpJobOK /\ DpDocOK /\ DpRevOK
    BY DEF RateSave, DpStoreOK
  <1>2. PICK e : e = DpReview(r)
    OBVIOUS
  <1>3. DpFits(dpJob[r], dpDoc, dpRole, dpRev, dpRun.delivery) /\ dpJob[r].pc = "rateSave"
    BY <1>1 DEF DpJobOK, RateSave, DpAt
  <1>4. /\ dpJob[r].user \in DpText /\ dpJob[r].x \in DpText /\ dpJob[r].d \in Nat /\ dpJob[r].stars \in 1 .. 5
        /\ dpRun.delivery[dpJob[r].x].customer = dpJob[r].user
    BY <1>3 DEF DpFits, DpJobRow
  <1>5. e \in DpReviewRow /\ e.x = dpJob[r].x /\ e.user = dpJob[r].user
    BY <1>2, <1>4 DEF DpReview, DpReviewRow
  <1>6. CASE UNCHANGED dpRev /\ DpDone(r)
    <2>1. DpQuiet
      BY <1>1, <1>6 DEF DpQuiet
    <2>2. DpGrown /\ DpDocOK' /\ DpRevOK'
      BY <2>1, DpQuietKeeps
    <2>3. DpJobOK'
      BY <1>1, <1>6, <2>2, DpEnds
    <2> QED
      BY <1>1, <1>6, <2>2, <2>3
  <1>7. CASE dpRev' = Append(dpRev, e) /\ DpGo(r, "rateAvg")
    <2>1. dpRev \in Seq(DpReviewRow)
      BY <1>1 DEF DpRevOK
    <2>2. /\ dpRev' \in Seq(DpReviewRow) /\ Len(dpRev) \in Nat
          /\ DOMAIN dpRev = 1 .. Len(dpRev) /\ DOMAIN dpRev' = 1 .. (Len(dpRev) + 1)
          /\ \A i \in 1 .. Len(dpRev) : dpRev'[i] = dpRev[i]
          /\ dpRev'[Len(dpRev) + 1] = e
      BY <1>5, <1>7, <2>1, Appended
    <2>3. DpGrown
      BY <1>1, <2>2 DEF DpGrown
    <2>4. PICK n \in Nat : n = Len(dpRev)
      BY <2>2
    <2>v. PICK revs : revs = dpRev'
      OBVIOUS
    <2>5. ASSUME NEW i \in 1 .. (n + 1) PROVE dpRun.delivery[revs[i].x].customer = revs[i].user
      <3>1. CASE i \in 1 .. n
        BY <1>1, <2>2, <2>4, <2>v, <3>1 DEF DpRevOK
      <3>2. CASE i = n + 1
        BY <1>4, <1>5, <2>2, <2>4, <2>v, <3>2
      <3> QED
        BY <3>1, <3>2
    <2>6. DpRevOK'
      BY <2>2, <2>4, <2>v, <2>5 DEF DpRevOK
    <2>7. DpDocOK'
      BY <1>1, <2>3, DpDocsKept
    <2>8. "rateAvg" \in DpPcs
      BY DEF DpPcs
    <2>9. DpJobOK'
      BY <1>1, <1>7, <2>3, <2>8, DpGoes
    <2> QED
      BY <1>1, <2>3, <2>6, <2>7, <2>9 DEF DpGrown
  <1> QED
    BY <1>2, <1>6, <1>7 DEF RateSave

\* A document is saved: a new rating, or the copy with the block.
LEMMA DpSaveKeeps ==
    ASSUME DpStoreOK, NEW r \in DpHandler, RateStore(r) \/ BlockSave(r), dpRun'.delivery = dpRun.delivery
    PROVE  /\ DpDocOK' /\ DpRevOK' /\ DpJobOK' /\ UNCHANGED <<dpRev, dpMade>>
           /\ DOMAIN dpDoc \subseteq DOMAIN dpDoc' /\ \A d \in DOMAIN dpDoc : dpDoc'[d].user = dpDoc[d].user
  <1>1. UNCHANGED <<dpRole, dpRev, dpMade>> /\ DpDone(r) /\ DpJobOK /\ DpDocOK
    BY DEF RateStore, BlockSave, DpStoreOK
  <1>2. DpFits(dpJob[r], dpDoc, dpRole, dpRev, dpRun.delivery) /\ dpJob[r].pc \in {"rateStore", "blockSave"}
    BY <1>1 DEF DpJobOK, RateStore, BlockSave, DpAt
  <1>3. DpDocOK' /\ DpGrown
    <2>1. CASE UNCHANGED dpDoc
      <3>1. DpQuiet
        BY <1>1, <2>1 DEF DpQuiet
      <3> QED
        BY <3>1, DpQuietKeeps
    <2>2. CASE dpJob[r].pc = "rateStore" /\ DpKnown(dpJob[r].d) /\ UpdateRating(dpJob[r].d, dpJob[r])
      <3>1. PICK d \in DOMAIN dpDoc : d = dpJob[r].d
        BY <2>2 DEF DpKnown
      <3>2. PICK sum \in Nat, n \in Nat : sum = dpJob[r].sum /\ n = dpJob[r].n
        BY <1>2 DEF DpFits, DpJobRow
      <3>3. dpDoc[d] \in DpDocument
        BY <1>1 DEF DpDocOK
      <3>4. PICK y : y = [dpDoc[d] EXCEPT !.sum = sum, !.n = n]
        OBVIOUS
      <3>5. y \in DpDocument /\ y.user = dpDoc[d].user /\ y.sum = sum /\ y.n = n
        BY <3>3, <3>4 DEF DpDocument
      <3>6. dpDoc' = [dpDoc EXCEPT ![d] = y]
        <4>1. dpDoc' = [dpDoc EXCEPT ![d].sum = sum, ![d].n = n]
          BY <2>2, <3>1, <3>2 DEF UpdateRating
        <4> QED
          BY <3>3, <3>4, <4>1 DEF DpDocument
      <3>7. DpBacked(y.sum, y.n, d, dpRev)
        BY <1>2, <2>2, <3>1, <3>2, <3>5 DEF DpFits
      <3> QED
        BY <1>1, <3>5, <3>6, <3>7, DpDocSet
    <2>3. CASE dpJob[r].pc = "blockSave" /\ dpDoc' = [dpDoc EXCEPT ![dpJob[r].d] = dpJob[r].copy]
      <3>1. /\ dpJob[r].d \in DOMAIN dpDoc /\ dpJob[r].copy \in DpDocument
            /\ dpJob[r].copy.user = dpDoc[dpJob[r].d].user
            /\ DpBacked(dpJob[r].copy.sum, dpJob[r].copy.n, dpJob[r].d, dpRev)
        BY <1>2, <2>3 DEF DpFits
      <3> QED
        BY <1>1, <2>3, <3>1, DpDocSet
    <2> QED
      BY <2>1, <2>2, <2>3 DEF RateStore, BlockSave, DpAt, UpdateRating
  <1>4. DpRevOK'
    BY <1>1 DEF DpRevOK, DpStoreOK
  <1>5. DpJobOK'
    BY <1>1, <1>3, DpEnds
  <1> QED
    BY <1>1, <1>3, <1>4, <1>5 DEF DpGrown
\* Drivers keep their user, and reviews stay.
DpLasting ==
    /\ DOMAIN dpDoc \subseteq DOMAIN dpDoc' /\ \A d \in DOMAIN dpDoc : dpDoc'[d].user = dpDoc[d].user
    /\ DOMAIN dpRev \subseteq DOMAIN dpRev' /\ \A i \in DOMAIN dpRev : dpRev'[i] = dpRev[i]

\* A step of a handler keeps everything that is stored.
LEMMA DpHandlerKeeps ==
    ASSUME DpStoreOK, DpRunOK, NEW r \in DpHandler, DpStep(r), dpRun'.delivery = dpRun.delivery
    PROVE  DpStoreOK' /\ DpLasting
  <1>1. UNCHANGED dpMemo
    BY DEF DpStep
  <1>2. DpTablesOK
    BY DEF DpStoreOK
  <1>3. DpQuiet /\ DpJobOK' /\ UNCHANGED dpMade => DpStoreOK' /\ DpLasting
    <2>1. SUFFICES ASSUME DpQuiet, DpJobOK', UNCHANGED dpMade PROVE DpStoreOK' /\ DpLasting
      OBVIOUS
    <2>2. DpDocOK' /\ DpRevOK'
      BY <2>1, DpQuietKeeps
    <2>3. DpTablesOK'
      BY <1>1, <1>2, <2>1 DEF DpTablesOK, DpQuiet
    <2>4. DpLasting
      BY <2>1 DEF DpLasting, DpQuiet
    <2> QED
      BY <2>1, <2>2, <2>3, <2>4 DEF DpStoreOK
  <1>4. CASE RegisterDriver(r) \/ RateDriver(r) \/ BlockDriver(r)
    BY <1>3, <1>4, DpBeginKeeps
  <1>5. CASE RegisterFind(r) \/ RegisterRole(r) \/ RateFind(r) \/ RateSeen(r)
    BY <1>3, <1>5, DpLookupKeeps
  <1>6. CASE RateAverage(r)
    BY <1>3, <1>6, DpAverageKeeps
  <1>7. CASE UpdateUserRole(r)
    <2>1. DpDocOK' /\ DpRevOK' /\ DpJobOK' /\ UNCHANGED <<dpDoc, dpRev, dpMade>>
      BY <1>7, DpRoleKeeps
    <2>2. DpTablesOK' /\ DpLasting
      BY <1>1, <1>2, <2>1 DEF DpTablesOK, DpLasting
    <2> QED
      BY <2>1, <2>2 DEF DpStoreOK
  <1>8. CASE RegisterSave(r)
    <2>1. /\ DpDocOK' /\ DpRevOK' /\ DpJobOK' /\ UNCHANGED dpRev
          /\ DOMAIN dpDoc \subseteq DOMAIN dpDoc' /\ \A d \in DOMAIN dpDoc : dpDoc'[d].user = dpDoc[d].user
          /\ dpMade' \subseteq DOMAIN dpDoc'
      BY <1>8, DpRegisterKeeps
    <2>2. DpTablesOK' /\ DpLasting
      BY <1>1, <1>2, <2>1 DEF DpTablesOK, DpLasting
    <2> QED
      BY <2>1, <2>2 DEF DpStoreOK
  <1>9. CASE RateSave(r)
    <2>1. /\ DpDocOK' /\ DpRevOK' /\ DpJobOK' /\ UNCHANGED <<dpDoc, dpMade>>
          /\ DOMAIN dpRev \subseteq DOMAIN dpRev' /\ \A i \in DOMAIN dpRev : dpRev'[i] = dpRev[i]
      BY <1>9, DpReviewKeeps
    <2>2. DpTablesOK' /\ DpLasting
      BY <1>1, <1>2, <2>1 DEF DpTablesOK, DpLasting
    <2> QED
      BY <2>1, <2>2 DEF DpStoreOK
  <1>10. CASE RateStore(r) \/ BlockSave(r)
    <2>1. /\ DpDocOK' /\ DpRevOK' /\ DpJobOK' /\ UNCHANGED <<dpRev, dpMade>>
          /\ DOMAIN dpDoc \subseteq DOMAIN dpDoc' /\ \A d \in DOMAIN dpDoc : dpDoc'[d].user = dpDoc[d].user
      BY <1>10, DpSaveKeeps
    <2>2. DpTablesOK' /\ DpLasting
      BY <1>1, <1>2, <2>1 DEF DpTablesOK, DpLasting
    <2> QED
      BY <2>1, <2>2 DEF DpStoreOK
  <1> QED
    BY <1>4, <1>5, <1>6, <1>7, <1>8, <1>9, <1>10 DEF DpStep

\* A driver that is shown exists.
LEMMA DpCandidatesKnown ==
    ASSUME NEW found, NEW kind
    PROVE  /\ DOMAIN DpCandidates(found, kind) \subseteq DOMAIN dpDoc
           /\ \A d \in DOMAIN DpCandidates(found, kind) :
                 DpCandidates(found, kind)[d] = 0 \/ DpCandidates(found, kind)[d] = dpRun.geo[d]
  <1>1. FindAvailableByLocation(kind) \subseteq DOMAIN dpDoc
    BY DEF FindAvailableByLocation
  <1> DEFINE near == FindByIDs(found) \cap FindAvailableByLocation(kind)
  <1>2. CASE near = {}
    BY <1>1, <1>2 DEF DpCandidates
  <1>3. CASE near # {}
    BY <1>1, <1>3 DEF DpCandidates
  <1> QED
    BY <1>2, <1>3

\* A list shown in part.
LEMMA DpShown ==
    ASSUME NEW limit \in Int, NEW n \in Nat
    PROVE  1 .. DpAtMost(IF limit > 0 THEN limit ELSE 50, n) \subseteq 1 .. n
  BY DEF DpAtMost

\* The ranked drivers are candidates, nobody twice and the nearer first.
LEMMA DpRanked ==
    ASSUME dpDoc \in Seq(DpDocument), NEW dist, DOMAIN dist \subseteq DOMAIN dpDoc, NEW ranked \in RankCandidates(dist)
    PROVE  \E n \in Nat :
              /\ Len(ranked) = n /\ DOMAIN ranked = 1 .. n /\ \A i \in 1 .. n : ranked[i] \in DOMAIN dist
              /\ \A i, j \in 1 .. n : i < j => ranked[i] # ranked[j] /\ dist[ranked[i]] <= dist[ranked[j]]
  <1>1. Len(dpDoc) \in Nat /\ DOMAIN dpDoc = 1 .. Len(dpDoc)
    OBVIOUS
  <1>2. Cardinality(DOMAIN dist) \in Nat
    BY <1>1, PlaceFinite
  <1>3. DpAtMost(DpRank, Cardinality(DOMAIN dist)) \in Nat
    BY <1>2, DpAssumption DEF DpAtMost
  <1>4. PICK n \in Nat : n = DpAtMost(DpRank, Cardinality(DOMAIN dist))
    BY <1>3
  <1>5. /\ ranked \in [1 .. n -> DOMAIN dist]
        /\ \A i, j \in DOMAIN ranked : i < j => ranked[i] # ranked[j] /\ dist[ranked[i]] <= dist[ranked[j]]
    BY <1>4 DEF RankCandidates
  <1>6. ranked \in Seq(DOMAIN dist) /\ Len(ranked) = n
    BY <1>5
  <1> QED
    BY <1>5, <1>6

\* A search, a read or a restart stores nothing but what the loader keeps.
LEMMA DpOtherKeeps ==
    ASSUME DpStoreOK, DpRunOK, DpSearch \/ DpRead \/ DpReviewsStep \/ HeartbeatCheck \/ DpRestart,
           dpRun'.delivery = dpRun.delivery
    PROVE  DpStoreOK' /\ DpLasting
  <1>p. DpReviewsStep => UNCHANGED <<dpDoc, dpRole, dpRev, dpMemo, dpJob, dpMade>>
    BY DEF DpReviewsStep, DpReviewsFirst, DpReviewsCount, DpReviewsNext, DpReviewsFail
  <1>1. DpQuiet /\ UNCHANGED dpMade
    BY <1>p DEF DpSearch, DpRead, HeartbeatCheck, DpRestart, DpQuiet
  <1>2. DpGrown /\ DpDocOK' /\ DpRevOK' /\ DpLasting
    BY <1>1, DpQuietKeeps DEF DpLasting, DpQuiet
  <1>3. DpJobOK /\ DpTablesOK
    BY DEF DpStoreOK
  <1>4. UNCHANGED dpJob => DpJobOK'
    BY <1>2, <1>3, DpJobKept
  <1>5. UNCHANGED dpMemo => DpTablesOK'
    BY <1>1, <1>3 DEF DpTablesOK, DpQuiet
  <1>6. CASE DpSearch
    <2>1. PICK dist \in FindAvailableDrivers(DpAsked.radius, DpAsked.kind) : \E ranked \in RankCandidates(dist) :
             IF DpAsked.grpc THEN GrpcFindAvailable(DpAsked, dist, ranked) ELSE DpNearbyDrivers(DpAsked, dist, ranked)
      BY <1>6 DEF DpSearch
    <2>2. PICK ranked \in RankCandidates(dist) :
             GrpcFindAvailable(DpAsked, dist, ranked) \/ DpNearbyDrivers(DpAsked, dist, ranked)
      BY <2>1, Zenon
    <2>3. DOMAIN dist \subseteq DOMAIN dpDoc
      BY DpCandidatesKnown DEF FindAvailableDrivers
    <2>4. CASE GrpcFindAvailable(DpAsked, dist, ranked)
      BY <1>2, <1>4, <1>5, <1>6, <2>4 DEF GrpcFindAvailable, DpSearch, DpStoreOK
    <2>5. CASE DpNearbyDrivers(DpAsked, dist, ranked)
      <3>1. PICK shown : shown = DpAtMost(IF DpAsked.limit > 0 THEN DpAsked.limit ELSE 50, Len(ranked))
        OBVIOUS
      <3>2. PICK n \in Nat : Len(ranked) = n /\ DOMAIN ranked = 1 .. n /\ \A i \in 1 .. n : ranked[i] \in DOMAIN dist
        BY <2>3, DpRanked DEF DpStoreOK, DpDocOK
      <3>3. DpAsked \in DpRequest
        BY <1>6, DpAskedOK DEF DpSearch
      <3>4. 1 .. shown \subseteq 1 .. n
        BY <3>1, <3>2, <3>3, DpShown DEF DpRequest
      <3>5. {ranked[i] : i \in 1 .. shown} \subseteq DOMAIN dpDoc
        BY <2>3, <3>2, <3>4
      <3>6. dpMemo' = Loaded({ranked[i] : i \in 1 .. shown})
        BY <2>5, <3>1 DEF DpNearbyDrivers
      <3>7. DOMAIN dpMemo' \subseteq DOMAIN dpDoc
        BY <1>3, <3>5, <3>6 DEF Loaded, DpTablesOK
      <3>8. DpTablesOK'
        BY <1>1, <1>3, <3>7 DEF DpTablesOK, DpQuiet
      <3> QED
        BY <1>2, <1>4, <1>6, <3>8 DEF DpSearch, DpStoreOK
    <2> QED
      BY <2>2, <2>4, <2>5
  <1>7. CASE DpRead \/ DpReviewsStep \/ HeartbeatCheck
    BY <1>2, <1>4, <1>5, <1>7, <1>p DEF DpRead, HeartbeatCheck, DpStoreOK
  <1>8. CASE DpRestart
    <2>1. \A r \in DpHandler : DpFits(DpIdle, dpDoc', dpRole', dpRev', dpRun.delivery)
      BY DpIdleFits
    <2>2. DpJobOK'
      BY <1>8, <2>1 DEF DpRestart, DpJobOK
    <2>3. DpTablesOK'
      BY <1>1, <1>3, <1>8 DEF DpRestart, DpTablesOK, DpQuiet
    <2> QED
      BY <1>2, <2>2, <2>3 DEF DpStoreOK
  <1> QED
    BY <1>6, <1>7, <1>8
\* An answer with this private data is right for the user it names.
DpShows(said, docs, geo) ==
    /\ said.admin \/ (said.private \subseteq DOMAIN docs /\ \A d \in said.private : docs[d].user = said.user)
    /\ \A i, j \in DOMAIN said.items : i < j => said.items[i].d # said.items[j].d /\ said.items[i].dist <= said.items[j].dist
    /\ \A i \in DOMAIN said.items : said.items[i].dist = 0 \/ said.items[i].dist = geo[said.items[i].d]

\* Every query answers with private data of the asking driver or to an administrator.
LEMMA DpReplyShows ==
    ASSUME NEW q, NEW code, NEW private,
           q.admin \/ (private \subseteq DOMAIN dpDoc /\ \A d \in private : dpDoc[d].user = q.user)
    PROVE  DpShows(DpReply(q, code, private), dpDoc, dpRun.geo)
  <1>1. PICK none, nobody : none = << >> /\ DOMAIN none = {} /\ nobody = {}
    OBVIOUS
  <1>2. DpReply(q, code, private) = [code |-> code, user |-> q.user, admin |-> q.admin, profile |-> nobody,
                                     private |-> private, items |-> none]
    BY <1>1 DEF DpReply
  <1> QED
    BY <1>1, <1>2 DEF DpShows

\* A profile is not private.
LEMMA DpProfileShows ==
    ASSUME NEW q, NEW code, NEW shown, NEW private,
           q.admin \/ (private \subseteq DOMAIN dpDoc /\ \A d \in private : dpDoc[d].user = q.user)
    PROVE  /\ DpShows([DpReply(q, code, private) EXCEPT !.profile = shown], dpDoc, dpRun.geo)
           /\ private = {} => DpShows([[DpReply(q, code, private) EXCEPT !.profile = shown] EXCEPT !.admin = TRUE],
                                      dpDoc, dpRun.geo)
  <1>1. PICK none, nobody : none = << >> /\ DOMAIN none = {} /\ nobody = {}
    OBVIOUS
  <1>2. DpReply(q, code, private) = [code |-> code, user |-> q.user, admin |-> q.admin, profile |-> nobody,
                                     private |-> private, items |-> none]
    BY <1>1 DEF DpReply
  <1>3. [DpReply(q, code, private) EXCEPT !.profile = shown]
           = [code |-> code, user |-> q.user, admin |-> q.admin, profile |-> shown, private |-> private, items |-> none]
    BY <1>2
  <1>4. PICK x : x = [DpReply(q, code, private) EXCEPT !.profile = shown]
    OBVIOUS
  <1>5. PICK y : y = [x EXCEPT !.admin = TRUE]
    OBVIOUS
  <1>6. x = [code |-> code, user |-> q.user, admin |-> q.admin, profile |-> shown, private |-> private, items |-> none]
    BY <1>3, <1>4
  <1>7. y.admin /\ y.items = none
    BY <1>5, <1>6
  <1>8. DpShows(y, dpDoc, dpRun.geo)
    BY <1>1, <1>7 DEF DpShows
  <1>9. DpShows(x, dpDoc, dpRun.geo)
    BY <1>1, <1>6 DEF DpShows
  <1> QED
    BY <1>4, <1>5, <1>8, <1>9

\* What an answer shows stays right while the documents grow.
LEMMA DpShowsKept ==
    ASSUME DpShows(dpSaid, dpDoc, dpRun.geo), DpLasting, dpRun'.geo = dpRun.geo, UNCHANGED dpSaid
    PROVE  DpSaidOK'
  <1>1. dpSaid.admin \/ (dpSaid.private \subseteq DOMAIN dpDoc' /\ \A d \in dpSaid.private : dpDoc'[d].user = dpSaid.user)
    BY DEF DpShows, DpLasting
  <1> QED
    BY <1>1 DEF DpSaidOK, DpNearestFirst, DpShows

\* A query answers.
LEMMA DpReadShows ==
    ASSUME DpRead, DpRunOK
    PROVE  DpShows(dpSaid', dpDoc, dpRun.geo)
  <1>1. PICK q \in DpRequest : q = DpAsked
    BY DpAskedOK DEF DpRead
  <1>2. PICK said : said = dpSaid'
    OBVIOUS
  <1> SUFFICES DpShows(said, dpDoc, dpRun.geo)
    BY <1>2
  <1>3. ASSUME NEW code, NEW private, said = DpReply(q, code, private),
               q.admin \/ (private \subseteq DOMAIN dpDoc /\ \A d \in private : dpDoc[d].user = q.user)
        PROVE  DpShows(said, dpDoc, dpRun.geo)
    BY <1>3, DpReplyShows
  <1>4. \A code : said = DpReply(q, code, {}) => DpShows(said, dpDoc, dpRun.geo)
    BY <1>3
  <1>5. \A d : DpOwns(q, d) => q.admin \/ (d \in DOMAIN dpDoc /\ dpDoc[d].user = q.user)
    BY DEF DpOwns, DpKnown
  <1>p. ASSUME NEW code, NEW shown, said = DpProfile(q, code, shown) PROVE DpShows(said, dpDoc, dpRun.geo)
    BY <1>p, DpProfileShows DEF DpProfile
  <1>6. CASE said = DpDriverQuery(q) \/ said = AvailableDeliveries(q)
    BY <1>4, <1>6, <1>p DEF DpDriverQuery, AvailableDeliveries
  <1>7. CASE said = MyDriverProfile(q)
    BY <1>7, <1>p, ZenonT(40) DEF MyDriverProfile
  <1>8. CASE said = DriverActiveAssignment(q)
    <2> DEFINE own == DpAuthorized(q.user)
               target == IF q.d # 0 THEN {q.d} ELSE own
               shown == {d \in target : ActiveDeliveries(d) # {}}
    <2>1. own \subseteq DOMAIN dpDoc /\ \A d \in own : dpDoc[d].user = q.user
      BY DEF DpAuthorized, FindByUserID
    <2>2. CASE q.d # 0 /\ ~ DpOwns(q, q.d)
      BY <1>4, <1>8, <2>2 DEF DriverActiveAssignment
    <2>3. CASE ~ (q.d # 0 /\ ~ DpOwns(q, q.d))
      <3>1. q.admin \/ (shown \subseteq DOMAIN dpDoc /\ \A d \in shown : dpDoc[d].user = q.user)
        <4>1. CASE q.d # 0
          BY <1>5, <2>3, <4>1
        <4>2. CASE q.d = 0
          BY <2>1, <4>2
        <4> QED
          BY <4>1, <4>2
      <3>2. said = DpReply(q, 401, {}) \/ said = DpReply(q, 200, shown)
        <4>1. CASE target = {}
          BY <1>8, <2>3, <4>1 DEF DriverActiveAssignment
        <4>2. CASE target # {}
          BY <1>8, <2>3, <4>2 DEF DriverActiveAssignment
        <4> QED
          BY <4>1, <4>2
      <3> HIDE DEF shown
      <3> QED
        BY <1>3, <1>4, <3>1, <3>2
    <2> QED
      BY <2>2, <2>3
  <1>9. CASE said = DriverStatus(q)
    <2>1. CASE ~ DpKnown(q.d) \/ ~ DpOwns(q, q.d)
      BY <1>4, <1>9, <2>1 DEF DriverStatus
    <2>2. CASE DpKnown(q.d) /\ DpOwns(q, q.d)
      <3>1. said = [DpReply(q, 200, {q.d}) EXCEPT !.profile = {q.d}]
        BY <1>9, <2>2 DEF DriverStatus
      <3> QED
        <4>1. q.admin \/ ({q.d} \subseteq DOMAIN dpDoc /\ \A d \in {q.d} : dpDoc[d].user = q.user)
          BY <1>5, <2>2
        <4> QED
          BY <3>1, <4>1, DpProfileShows
    <2> QED
      BY <2>1, <2>2
  <1>10. CASE said = AssignmentQuery(q)
    <2> DEFINE none == q.x \notin DOMAIN dpRun.delivery \/ AssignedDriver(q.x) = 0
    <2>1. CASE none
      BY <1>4, <1>10, <2>1 DEF AssignmentQuery
    <2>2. CASE ~ none /\ ~ DpOwns(q, AssignedDriver(q.x))
      BY <1>4, <1>10, <2>2 DEF AssignmentQuery
    <2>3. CASE ~ none /\ DpOwns(q, AssignedDriver(q.x))
      <3>1. said = DpReply(q, 200, {AssignedDriver(q.x)})
        BY <1>10, <2>3 DEF AssignmentQuery
      <3> QED
        BY <1>3, <1>5, <2>3, <3>1
    <2> QED
      BY <2>1, <2>2, <2>3
  <1>11. CASE said = DispatchAttempts(q)
    <2>1. CASE ~ q.admin
      BY <1>4, <1>11, <2>1 DEF DispatchAttempts
    <2>2. CASE q.admin
      BY <1>3, <1>11, <2>2 DEF DispatchAttempts
    <2> QED
      BY <2>1, <2>2
  <1>12. CASE said = GrpcGetDriver(q) \/ said = ValidateID(q)
    <2>1. CASE said = GrpcGetDriver(q)
      <3>1. PICK code, shown : said = [DpProfile(q, code, shown) EXCEPT !.admin = TRUE]
        BY <2>1, ZenonT(40) DEF GrpcGetDriver
      <3> QED
        BY <3>1, DpProfileShows DEF DpProfile
    <2>2. CASE said = ValidateID(q)
      <3>1. PICK code : said = [DpReply(q, code, {}) EXCEPT !.admin = TRUE]
        BY <2>2, ZenonT(40) DEF ValidateID
      <3>2. PICK none, nobody : none = << >> /\ nobody = {} /\ DOMAIN none = {}
        OBVIOUS
      <3>3. said = [code |-> code, user |-> q.user, admin |-> TRUE, profile |-> nobody, private |-> nobody, items |-> none]
        BY <3>1, <3>2 DEF DpReply
      <3> QED
        BY <3>2, <3>3 DEF DpShows
    <2> QED
      BY <1>12, <2>1, <2>2
  <1>13. \/ said = DpDriverQuery(q) \/ said = AvailableDeliveries(q) \/ said = MyDriverProfile(q)
         \/ said = DriverActiveAssignment(q) \/ said = DriverStatus(q) \/ said = AssignmentQuery(q)
         \/ said = DispatchAttempts(q) \/ said = GrpcGetDriver(q) \/ said = ValidateID(q)
    BY <1>1, <1>2 DEF DpRead
  <1> QED
    BY <1>6, <1>7, <1>8, <1>9, <1>10, <1>11, <1>12, <1>13

\* A search shows nobody twice and the nearer first.
LEMMA DpSearchShows ==
    ASSUME DpSearch, DpRunOK, dpDoc \in Seq(DpDocument)
    PROVE  DpShows(dpSaid', dpDoc, dpRun.geo)
  <1>1. PICK q \in DpRequest : q = DpAsked
    BY DpAskedOK DEF DpSearch
  <1>2. PICK dist \in FindAvailableDrivers(q.radius, q.kind) : \E ranked \in RankCandidates(dist) :
           IF q.grpc THEN GrpcFindAvailable(q, dist, ranked) ELSE DpNearbyDrivers(q, dist, ranked)
    BY <1>1 DEF DpSearch
  <1>3. PICK ranked \in RankCandidates(dist) : GrpcFindAvailable(q, dist, ranked) \/ DpNearbyDrivers(q, dist, ranked)
    BY <1>2, Zenon
  <1>4. DOMAIN dist \subseteq DOMAIN dpDoc /\ \A d \in DOMAIN dist : dist[d] = 0 \/ dist[d] = dpRun.geo[d]
    BY DpCandidatesKnown DEF FindAvailableDrivers
  <1>5. PICK n \in Nat :
           /\ Len(ranked) = n /\ DOMAIN ranked = 1 .. n /\ \A i \in 1 .. n : ranked[i] \in DOMAIN dist
           /\ \A i, j \in 1 .. n : i < j => ranked[i] # ranked[j] /\ dist[ranked[i]] <= dist[ranked[j]]
    BY <1>4, DpRanked
  <1>6. ASSUME NEW said, DOMAIN said.items \subseteq 1 .. n, said.private = {},
               \A i \in DOMAIN said.items : said.items[i].d = ranked[i] /\ said.items[i].dist = dist[ranked[i]]
        PROVE  DpShows(said, dpDoc, dpRun.geo)
    BY <1>4, <1>5, <1>6 DEF DpShows
  <1>7. CASE GrpcFindAvailable(q, dist, ranked)
    <2>1. CASE q.x = ""
      <3>0. dpSaid' = [DpSilent EXCEPT !.code = 400]
        BY <1>7, <2>1 DEF GrpcFindAvailable
      <3>1. PICK none, nobody : none = << >> /\ nobody = {} /\ DOMAIN none = {}
        OBVIOUS
      <3>2. dpSaid' = [code |-> 400, user |-> "", admin |-> FALSE, profile |-> nobody, private |-> nobody, items |-> none]
        <4>1. DpSilent = [code |-> 0, user |-> "", admin |-> FALSE, profile |-> nobody, private |-> nobody, items |-> none]
          BY <3>1 DEF DpSilent
        <4> QED
          BY <3>0, <4>1
      <3>3. dpSaid'.private = {} /\ DOMAIN dpSaid'.items = {}
        BY <3>1, <3>2
      <3> QED
        BY <1>6, <3>3
    <2>2. CASE q.x # ""
      <3>1. PICK items : items = [i \in 1 .. n |-> [d |-> ranked[i], blocked |-> FALSE, dist |-> dist[ranked[i]]]]
        OBVIOUS
      <3>2. dpSaid' = [DpSilent EXCEPT !.code = 200, !.items = items]
        BY <1>5, <1>7, <2>2, <3>1 DEF GrpcFindAvailable
      <3>3. dpSaid'.private = {} /\ dpSaid'.items = items
        BY <3>2 DEF DpSilent
      <3>4. DOMAIN items = 1 .. n /\ \A i \in 1 .. n : items[i].d = ranked[i] /\ items[i].dist = dist[ranked[i]]
        BY <3>1
      <3> QED
        BY <1>6, <3>3, <3>4
    <2> QED
      BY <2>1, <2>2
  <1>8. CASE DpNearbyDrivers(q, dist, ranked)
    <2>1. PICK shown : shown = DpAtMost(IF q.limit > 0 THEN q.limit ELSE 50, Len(ranked))
      OBVIOUS
    <2>2. PICK docs : docs = Loaded({ranked[i] : i \in 1 .. shown})
      OBVIOUS
    <2>3. PICK items : items = [i \in 1 .. shown |-> [d |-> ranked[i], blocked |-> docs[ranked[i]].blocked,
                                                      dist |-> dist[ranked[i]]]]
      OBVIOUS
    <2>4. dpSaid' = [DpSilent EXCEPT !.code = 200, !.user = q.user, !.admin = q.admin, !.items = items]
      BY <1>8, <2>1, <2>2, <2>3 DEF DpNearbyDrivers
    <2>5. dpSaid'.private = {} /\ dpSaid'.items = items
      BY <2>4 DEF DpSilent
    <2>6. 1 .. shown \subseteq 1 .. n
      <3>1. q.limit \in Int
        BY DEF DpRequest
      <3> QED
        BY <1>5, <2>1, <3>1, DpShown
    <2>7. DOMAIN items = 1 .. shown /\ \A i \in 1 .. shown : items[i].d = ranked[i] /\ items[i].dist = dist[ranked[i]]
      BY <2>3
    <2> QED
      BY <1>6, <2>5, <2>6, <2>7
  <1> QED
    BY <1>3, <1>7, <1>8

\* New reviews move a review further down the list, never up.
LEMMA DpWalkKept ==
    ASSUME NEW w, NEW revs, DpWalkGood(w, revs), NEW more, NEW n \in Nat, DOMAIN more = 1 .. n,
           DOMAIN revs \subseteq DOMAIN more, \A i \in DOMAIN revs : more[i] = revs[i]
    PROVE  DpWalkGood(w, more)
  <1>1. /\ w \in DpWalkRow
        /\ w.pc # "idle" => w.start \subseteq DpOfIn(revs, w.d)
        /\ \A i \in w.start, j \in w.start : j \in w.seen /\ i > j => i \in w.seen
        /\ w.pc \in {"count", "find"} => w.page > 0
        /\ w.pc = "done" /\ ~ w.torn => w.start \subseteq w.seen
    BY DEF DpWalkGood
  <1>t. w.page \in Nat /\ w.limit \in Int
    BY <1>1 DEF DpWalkRow
  <1>2. DpOfIn(revs, w.d) \subseteq DpOfIn(more, w.d) /\ DpOfIn(more, w.d) \subseteq 1 .. n
    BY DEF DpOfIn
  <1>3. PICK q \in Int : q = (w.page - 1) * DpLimit(w.limit)
    <2>1. DpLimit(w.limit) \in Nat
      BY <1>t, DpAssumption DEF DpLimit
    <2> QED
      BY <1>t, <2>1
  <1>4. ASSUME w.pc \in {"count", "find"}, NEW i \in w.start, DpPlaceIn(more, i, w.d) <= q PROVE i \in w.seen
    <2>1. DpPlaceIn(revs, i, w.d) <= DpPlaceIn(more, i, w.d)
      BY <1>2, PlaceGrows DEF DpPlaceIn
    <2>2. DpPlaceIn(more, i, w.d) \in Nat
      BY <1>2, PlaceFinite DEF DpPlaceIn
    <2>3. DpPlaceIn(revs, i, w.d) \in Nat
      <3>1. DpOfIn(revs, w.d) \subseteq 1 .. n
        BY <1>2
      <3> QED
        BY <3>1, PlaceFinite DEF DpPlaceIn
    <2>4. DpPlaceIn(revs, i, w.d) <= q
      BY <1>4, <2>1, <2>2, <2>3
    <2>5. \A k \in w.start : DpPlaceIn(revs, k, w.d) <= (w.page - 1) * DpLimit(w.limit) => k \in w.seen
      BY <1>4 DEF DpWalkGood
    <2> QED
      BY <1>3, <2>4, <2>5
  <1>5. w.pc # "idle" => w.start \subseteq DpOfIn(more, w.d)
    BY <1>1, <1>2
  <1>6. w.pc \in {"count", "find"} =>
           \A i \in w.start : DpPlaceIn(more, i, w.d) <= (w.page - 1) * DpLimit(w.limit) => i \in w.seen
    BY <1>3, <1>4
  <1> QED
    BY <1>1, <1>5, <1>6, Zenon DEF DpWalkGood

\* A client asks for the first page.
LEMMA DpWalkStarts ==
    ASSUME DpRunOK, DpReviewsFirst, DpWalkGood(dpWalk, dpRev), NEW n \in Nat, DOMAIN dpRev = 1 .. n
    PROVE  DpWalkGood(dpWalk', dpRev)
  <1>1. PICK q \in DpRequest : q = DpAsked
    BY DpAskedOK DEF DpReviewsFirst
  <1>2. q.d \in Nat /\ q.limit \in Int
    BY DEF DpRequest
  <1>3. PICK start : start = ReviewsOf(q.d)
    OBVIOUS
  <1>4. start = DpOfIn(dpRev, q.d) /\ start \subseteq 1 .. n /\ start \subseteq Nat
    BY <1>3 DEF DpOfIn, ReviewsOf
  <1>5. PICK zero \in Nat, one \in Nat, none \in SUBSET Nat : zero = 0 /\ one = 1 /\ none = {}
    <2>1. 0 \in Nat /\ 1 \in Nat /\ {} \in SUBSET Nat
      OBVIOUS
    <2> QED
      BY <2>1
  <1>6. CASE UNCHANGED dpWalk
    BY <1>6
  <1>7. CASE dpWalk' = [pc |-> "count", d |-> q.d, page |-> one, limit |-> q.limit, start |-> start, seen |-> none,
                        total |-> zero, torn |-> FALSE]
    <2>1. PICK w : w = dpWalk'
      OBVIOUS
    <2>2. /\ w \in DpWalkRow
          /\ w.pc = "count" /\ w.d = q.d /\ w.page = one /\ w.limit = q.limit /\ w.start = start /\ w.seen = none
      <3>1. zero \in Nat /\ one \in Nat /\ none \in SUBSET Nat
        BY <1>5
      <3> HIDE <1>5
      <3> QED
        BY <1>2, <1>4, <1>7, <2>1, <3>1 DEF DpWalkRow
    <2>3. ASSUME NEW i \in start, DpPlaceIn(dpRev, i, q.d) <= (one - 1) * DpLimit(q.limit) PROVE FALSE
      <3>1. DpPlaceIn(dpRev, i, q.d) \in Nat /\ DpPlaceIn(dpRev, i, q.d) > 0
        BY <1>4, PlaceFinite DEF DpPlaceIn
      <3>2. DpLimit(q.limit) \in Nat
        BY <1>2, DpAssumption DEF DpLimit
      <3> QED
        BY <1>5, <2>3, <3>1, <3>2
    <2>4. \A j : j \notin w.seen
      BY <1>5, <2>2
    <2>5. w.page > 0
      BY <1>5, <2>2
    <2>6. \A i \in w.start : ~ (DpPlaceIn(dpRev, i, w.d) <= (w.page - 1) * DpLimit(w.limit))
      BY <2>2, <2>3
    <2>7. w.start \subseteq DpOfIn(dpRev, w.d)
      BY <1>4, <2>2
    <2>8. DpWalkGood(w, dpRev)
      BY <2>2, <2>4, <2>5, <2>6, <2>7, Zenon DEF DpWalkGood
    <2> QED
      BY <2>1, <2>8
  <1> QED
    BY <1>1, <1>3, <1>5, <1>6, <1>7 DEF DpReviewsFirst, DpNoWalk

\* The count only notes a number, and a page that fails ends the walk.
LEMMA DpWalkCounts ==
    ASSUME DpReviewsCount \/ DpReviewsFail, DpWalkGood(dpWalk, dpRev), NEW n \in Nat, DOMAIN dpRev = 1 .. n
    PROVE  DpWalkGood(dpWalk', dpRev)
  <1>1. PICK w : w = dpWalk
    OBVIOUS
  <1>2. PICK v : v = dpWalk'
    OBVIOUS
  <1>3. w \in DpWalkRow /\ w.pc \in {"count", "find"}
    BY <1>1 DEF DpWalkGood, DpReviewsCount, DpReviewsFail, DpPaging
  <1>4. /\ w = [pc |-> w.pc, d |-> w.d, page |-> w.page, limit |-> w.limit, start |-> w.start, seen |-> w.seen,
                total |-> w.total, torn |-> w.torn]
        /\ w.d \in Nat /\ w.page \in Nat /\ w.limit \in Int /\ w.start \in SUBSET Nat /\ w.seen \in SUBSET Nat
        /\ w.total \in Nat /\ w.torn \in BOOLEAN
    BY <1>3 DEF DpWalkRow
  <1>5. /\ w.start \subseteq DpOfIn(dpRev, w.d)
        /\ \A i \in w.start, j \in w.start : j \in w.seen /\ i > j => i \in w.seen
        /\ w.page > 0
        /\ \A i \in w.start : DpPlaceIn(dpRev, i, w.d) <= (w.page - 1) * DpLimit(w.limit) => i \in w.seen
    BY <1>1, <1>3 DEF DpWalkGood
  <1>6. CASE DpReviewsCount
    <2>1. PICK t : t = Cardinality(ReviewsOf(w.d))
      OBVIOUS
    <2>2. t \in Nat
      <3>1. ReviewsOf(w.d) \subseteq 1 .. n
        BY DEF ReviewsOf
      <3> QED
        BY <2>1, <3>1, PlaceFinite
    <2>3. v = [w EXCEPT !.pc = "find", !.total = t]
      BY <1>1, <1>2, <1>6, <2>1 DEF DpReviewsCount
    <2>4. v = [pc |-> "find", d |-> w.d, page |-> w.page, limit |-> w.limit, start |-> w.start, seen |-> w.seen,
               total |-> t, torn |-> w.torn]
      BY <1>4, <2>3
    <2>5. v \in DpWalkRow
      BY <1>4, <2>2, <2>4 DEF DpWalkRow
    <2>6. /\ v.pc = "find" /\ v.d = w.d /\ v.page = w.page /\ v.limit = w.limit /\ v.start = w.start /\ v.seen = w.seen
      BY <2>4
    <2>7. DpWalkGood(v, dpRev)
      BY <1>5, <2>5, <2>6 DEF DpWalkGood
    <2> QED
      BY <1>2, <2>7
  <1>7. CASE DpReviewsFail
    <2>1. v = [w EXCEPT !.pc = "failed"]
      BY <1>1, <1>2, <1>7 DEF DpReviewsFail
    <2>2. v = [pc |-> "failed", d |-> w.d, page |-> w.page, limit |-> w.limit, start |-> w.start, seen |-> w.seen,
               total |-> w.total, torn |-> w.torn]
      BY <1>4, <2>1
    <2>3. v \in DpWalkRow
      BY <1>4, <2>2 DEF DpWalkRow
    <2>4. /\ v.pc = "failed" /\ v.d = w.d /\ v.start = w.start /\ v.seen = w.seen
      BY <2>2
    <2>5. v.pc \notin {"count", "find"} /\ v.pc # "done"
      BY <2>4
    <2>6. v.start \subseteq DpOfIn(dpRev, v.d)
          /\ \A i \in v.start, j \in v.start : j \in v.seen /\ i > j => i \in v.seen
      BY <1>5, <2>4
    <2>7. DpWalkGood(v, dpRev)
      BY <2>3, <2>5, <2>6, Zenon DEF DpWalkGood
    <2> QED
      BY <1>2, <2>7
  <1> QED
    BY <1>6, <1>7

\* A newer review comes before an older one.
LEMMA DpPlaceOrder ==
    ASSUME NEW revs, NEW n \in Nat, DOMAIN revs = 1 .. n, NEW d, NEW i \in Nat, NEW j \in Nat, i > j
    PROVE  DpPlaceIn(revs, i, d) <= DpPlaceIn(revs, j, d)
  <1> DEFINE F(x) == {z \in DpOfIn(revs, d) : z >= x}
  <1>1. DpOfIn(revs, d) \subseteq 1 .. n
    BY DEF DpOfIn
  <1>2. F(i) \subseteq F(j)
    BY <1>1
  <1>3. IsFiniteSet(F(j))
    BY <1>1, PlaceFinite
  <1> QED
    BY <1>2, <1>3, FS_Subset DEF DpPlaceIn

\* A client asks for the next page: what it has passed it has seen.
LEMMA DpWalkPages ==
    ASSUME DpReviewsNext, DpWalkGood(dpWalk, dpRev), NEW n \in Nat, DOMAIN dpRev = 1 .. n
    PROVE  DpWalkGood(dpWalk', dpRev)
  <1>1. PICK w : w = dpWalk
    OBVIOUS
  <1>2. /\ w \in DpWalkRow
        /\ w.pc = "find" /\ w.page > 0 /\ w.start \subseteq DpOfIn(dpRev, w.d)
        /\ \A i \in w.start, j \in w.start : j \in w.seen /\ i > j => i \in w.seen
        /\ \A i \in w.start : DpPlaceIn(dpRev, i, w.d) <= (w.page - 1) * DpLimit(w.limit) => i \in w.seen
    BY <1>1 DEF DpWalkGood, DpReviewsNext
  <1>t. /\ w = [pc |-> w.pc, d |-> w.d, page |-> w.page, limit |-> w.limit, start |-> w.start, seen |-> w.seen,
                total |-> w.total, torn |-> w.torn]
        /\ w.d \in Nat /\ w.page \in Nat /\ w.limit \in Int /\ w.start \in SUBSET Nat /\ w.seen \in SUBSET Nat
        /\ w.total \in Nat /\ w.torn \in BOOLEAN
    BY <1>2 DEF DpWalkRow
  <1>3. PICK size \in Nat \ {0} : size = DpLimit(w.limit)
    BY <1>t, DpAssumption DEF DpLimit
  <1>4. PICK skip \in Nat, page \in Nat \ {0} : page = w.page /\ skip = (page - 1) * size
    <2>1. w.page \in Nat \ {0}
      BY <1>2, <1>t
    <2>2. (w.page - 1) * size \in Nat
      <3>1. w.page - 1 \in Nat
        BY <2>1
      <3>2. \A a, b \in Nat : a * b \in Nat
        OBVIOUS
      <3> QED
        BY <3>1, <3>2
    <2> QED
      BY <2>1, <2>2
  <1>5. page * size = skip + size /\ page + 1 - 1 = page
    <2>1. PICK p \in Nat : p = page - 1
      BY <1>4
    <2>2. (p + 1) * size = p * size + size
      OBVIOUS
    <2> QED
      BY <1>4, <2>1, <2>2, SMTT(30)
  <1>6. PICK revs, all, count : /\ revs = GetDriverReviews(w.d, w.page, w.limit)
                                /\ all = ReviewsOf(w.d) /\ count = Cardinality(all)
    OBVIOUS
  <1>7. all = DpOfIn(dpRev, w.d) /\ all \subseteq 1 .. n
    BY <1>6 DEF DpOfIn, ReviewsOf
  <1>8. \A i : DpPlace(i, w.d) = DpPlaceIn(dpRev, i, w.d)
    BY <1>6, <1>7 DEF DpPlace, DpPlaceIn
  <1>9. revs = {i \in all : DpPlaceIn(dpRev, i, w.d) > skip /\ DpPlaceIn(dpRev, i, w.d) <= skip + size}
    BY <1>3, <1>4, <1>6, <1>8 DEF GetDriverReviews, FindByDriverID
  <1>10. PICK seen : seen = w.seen \cup revs
    OBVIOUS
  <1> DEFINE more == page * size < w.total
  <1>11. PICK pc \in {"count", "done"}, next \in Nat, torn \in BOOLEAN :
             /\ pc = IF more THEN "count" ELSE "done"
             /\ next = IF more THEN page + 1 ELSE page
             /\ torn = (w.torn \/ w.total # count)
    <2>2. PICK torn \in BOOLEAN : torn = (w.torn \/ w.total # count)
      <3>1. CASE w.torn \/ w.total # count
        BY <3>1, Zenon
      <3>2. CASE ~ (w.torn \/ w.total # count)
        BY <3>2, Zenon
      <3> QED
        BY <3>1, <3>2
    <2>3. (IF more THEN "count" ELSE "done") \in {"count", "done"} /\ (IF more THEN page + 1 ELSE page) \in Nat
      OBVIOUS
    <2> QED
      BY <2>2, <2>3
  <1>12. dpWalk' = [w EXCEPT !.pc = pc, !.page = next, !.seen = seen, !.torn = torn]
    <2>1. w.page * DpLimit(w.limit) = page * size
      BY <1>3, <1>4
    <2>2. page = w.page
      BY <1>4
    <2>3. dpWalk' = [dpWalk EXCEPT !.pc = IF dpWalk.page * DpLimit(dpWalk.limit) < dpWalk.total THEN "count" ELSE "done",
                                   !.page = IF dpWalk.page * DpLimit(dpWalk.limit) < dpWalk.total THEN dpWalk.page + 1
                                            ELSE dpWalk.page,
                                   !.seen = dpWalk.seen \cup GetDriverReviews(dpWalk.d, dpWalk.page, dpWalk.limit),
                                   !.torn = dpWalk.torn \/ dpWalk.total # Cardinality(ReviewsOf(dpWalk.d))]
      BY DEF DpReviewsNext
    <2>4. pc = (IF w.page * DpLimit(w.limit) < w.total THEN "count" ELSE "done")
          /\ next = (IF w.page * DpLimit(w.limit) < w.total THEN w.page + 1 ELSE w.page)
      BY <1>11, <2>1, <2>2
    <2>5. seen = w.seen \cup GetDriverReviews(w.d, w.page, w.limit) /\ torn = (w.torn \/ w.total # Cardinality(ReviewsOf(w.d)))
      BY <1>6, <1>10, <1>11
    <2> QED
      BY <1>1, <2>3, <2>4, <2>5, Zenon
  <1>13. PICK v : v = dpWalk'
    OBVIOUS
  <1>w. v = [pc |-> pc, d |-> w.d, page |-> next, limit |-> w.limit, start |-> w.start, seen |-> seen,
             total |-> w.total, torn |-> torn]
    BY <1>t, <1>12, <1>13
  <1>14. /\ v.pc = pc /\ v.d = w.d /\ v.page = next /\ v.limit = w.limit /\ v.start = w.start /\ v.seen = seen
         /\ v.torn = torn
    BY <1>w
  <1>15. v \in DpWalkRow
    <2>1. seen \in SUBSET Nat
      BY <1>t, <1>7, <1>9, <1>10
    <2>2. pc \in {"idle", "count", "find", "done", "failed"}
      BY <1>11
    <2> QED
      BY <1>t, <1>w, <1>11, <2>1, <2>2 DEF DpWalkRow
  <1>16. ASSUME NEW i \in w.start, DpPlaceIn(dpRev, i, w.d) <= skip + size PROVE i \in seen
    <2>1. DpPlaceIn(dpRev, i, w.d) \in Nat
      BY <1>7, PlaceFinite DEF DpPlaceIn
    <2>2. i \in all
      BY <1>2, <1>7
    <2>3. CASE DpPlaceIn(dpRev, i, w.d) <= skip
      BY <1>2, <1>3, <1>4, <1>10, <2>3
    <2>4. CASE DpPlaceIn(dpRev, i, w.d) > skip
      BY <1>9, <1>10, <1>16, <2>2, <2>4
    <2> QED
      BY <2>1, <2>3, <2>4
  <1>h. ASSUME NEW i \in w.start, NEW j \in w.start, j \in seen, i > j PROVE i \in seen
    <2>1. i \in Nat /\ j \in Nat
      BY <1>t
    <2>2. CASE j \in w.seen
      BY <1>2, <1>10, <1>h, <2>2
    <2>3. CASE j \in revs
      <3>1. DpPlaceIn(dpRev, j, w.d) <= skip + size
        BY <1>9, <2>3
      <3>2. DpPlaceIn(dpRev, i, w.d) <= DpPlaceIn(dpRev, j, w.d)
        BY <1>h, <2>1, DpPlaceOrder
      <3>3. DpPlaceIn(dpRev, i, w.d) \in Nat /\ DpPlaceIn(dpRev, j, w.d) \in Nat
        BY <1>7, PlaceFinite DEF DpPlaceIn
      <3>4. DpPlaceIn(dpRev, i, w.d) <= skip + size
        BY <3>1, <3>2, <3>3
      <3> QED
        BY <1>16, <3>4
    <2> QED
      BY <1>h, <1>10, <2>2, <2>3
  <1>s. /\ v.start \subseteq DpOfIn(dpRev, v.d)
        /\ \A i \in v.start, j \in v.start : j \in v.seen /\ i > j => i \in v.seen
    BY <1>2, <1>14, <1>h
  <1>17. DpWalkGood(v, dpRev)
    <2>1. CASE more
      <3>1. next = page + 1 /\ v.pc = "count" /\ v.pc # "done"
        BY <1>11, <1>14, <2>1
      <3>2. \A i \in v.start : DpPlaceIn(dpRev, i, v.d) <= (v.page - 1) * DpLimit(v.limit) => i \in v.seen
        BY <1>3, <1>5, <1>14, <1>16, <3>1
      <3>3. v.page > 0
        BY <1>14, <3>1
      <3> QED
        BY <1>15, <1>s, <3>1, <3>2, <3>3, Zenon DEF DpWalkGood
    <2>2. CASE ~ more
      <3>1. v.pc = "done"
        BY <1>11, <1>14, <2>2
      <3>2. count \in Nat /\ \A i : DpPlaceIn(dpRev, i, w.d) \in Nat /\ DpPlaceIn(dpRev, i, w.d) <= count
        BY <1>6, <1>7, PlaceFinite DEF DpPlaceIn
      <3>3. ASSUME ~ torn PROVE w.start \subseteq seen
        <4>0. w.total = count
          BY <1>11, <3>3, Zenon
        <4>1. count <= skip + size
          <5>1. w.total \in Nat /\ ~ (page * size < w.total)
            BY <1>t, <1>11, <2>2
          <5>2. ~ (skip + size < count)
            BY <1>5, <4>0, <5>1
          <5> QED
            BY <1>3, <1>4, <3>2, <5>2
        <4>2. \A i : DpPlaceIn(dpRev, i, w.d) <= skip + size
          BY <3>2, <4>1
        <4> QED
          BY <1>16, <4>2
      <3>4. ~ v.torn => v.start \subseteq v.seen
        BY <1>14, <3>3
      <3>5. v.pc \notin {"count", "find"}
        BY <3>1
      <3> QED
        BY <1>15, <1>s, <3>4, <3>5, Zenon DEF DpWalkGood
    <2> QED
      BY <2>1, <2>2
  <1> QED
    BY <1>13, <1>17

\* Every step keeps the invariant.
LEMMA DpInvStep == DpInv /\ [DpNext]_dpVars => DpInv'
  <1> SUFFICES ASSUME DpInv, [DpNext]_dpVars PROVE DpInv'
    OBVIOUS
  <1>1. DpRunOK' /\ dpRun'.delivery = dpRun.delivery /\ dpRun'.geo = dpRun.geo
    BY DpRunStep DEF DpInv
  <1>2. DpRunOK /\ DpStoreOK /\ DpSaidOK /\ DpWalkGood(dpWalk, dpRev)
    BY DEF DpInv, DpStoreOK
  <1>3. DpShows(dpSaid, dpDoc, dpRun.geo) /\ dpDoc \in Seq(DpDocument)
    BY <1>2 DEF DpSaidOK, DpNearestFirst, DpShows, DpStoreOK, DpDocOK
  <1>4. CASE UNCHANGED dpVars
    <2>1. DpStoreOK'
      BY <1>2, <1>4 DEF DpStoreOK, DpDocOK, DpRevOK, DpJobOK, DpTablesOK, dpVars
    <2>2. DpSaidOK' /\ DpWalkGood(dpWalk', dpRev')
      BY <1>2, <1>4 DEF DpSaidOK, DpNearestFirst, dpVars
    <2> QED
      BY <1>1, <2>1, <2>2 DEF DpInv, DpStoreOK
  <1>5. CASE DpNext
    <2>1. DpStoreOK' /\ DpLasting
      BY <1>1, <1>2, <1>5, DpHandlerKeeps, DpOtherKeeps DEF DpNext
    <2>2. DpSaidOK'
      <3>1. UNCHANGED dpSaid => DpSaidOK'
        BY <1>1, <1>3, <2>1, DpShowsKept
      <3>2. DpShows(dpSaid', dpDoc, dpRun.geo) /\ UNCHANGED dpDoc => DpSaidOK'
        BY <1>1 DEF DpShows, DpSaidOK, DpNearestFirst
      <3>3. CASE DpSearch \/ DpRead
        <4>1. UNCHANGED dpDoc
          BY <3>3 DEF DpSearch, DpRead
        <4> QED
          BY <1>2, <1>3, <3>2, <3>3, <4>1, DpSearchShows, DpReadShows
      <3>4. CASE DpReviewsFirst
        <4>1. PICK q \in DpRequest : q = DpAsked
          BY <1>2, <3>4, DpAskedOK DEF DpReviewsFirst
        <4>2. CASE ~ DpOwns(q, q.d)
          <5>1. dpSaid' = DpReply(q, 403, {}) /\ UNCHANGED dpDoc
            BY <3>4, <4>1, <4>2 DEF DpReviewsFirst
          <5>2. DpShows(DpReply(q, 403, {}), dpDoc, dpRun.geo)
            BY DpReplyShows
          <5> QED
            BY <3>2, <5>1, <5>2
        <4>3. CASE DpOwns(q, q.d)
          <5>1. UNCHANGED dpDoc
            BY <3>4 DEF DpReviewsFirst
          <5>2. CASE ~ DpKnown(q.d)
            <6>1. dpSaid' = DpReply(q, 500, {})
              BY <3>4, <4>1, <4>3, <5>2 DEF DpReviewsFirst
            <6>2. DpShows(DpReply(q, 500, {}), dpDoc, dpRun.geo)
              BY DpReplyShows
            <6> QED
              BY <3>2, <5>1, <6>1, <6>2
          <5>3. CASE DpKnown(q.d)
            <6>1. dpSaid' = DpReply(q, 200, {q.d})
              BY <3>4, <4>1, <4>3, <5>3 DEF DpReviewsFirst
            <6>2. q.admin \/ ({q.d} \subseteq DOMAIN dpDoc /\ \A d \in {q.d} : dpDoc[d].user = q.user)
              BY <4>3 DEF DpOwns, DpKnown
            <6>3. DpShows(DpReply(q, 200, {q.d}), dpDoc, dpRun.geo)
              BY <6>2, DpReplyShows
            <6> QED
              BY <3>2, <5>1, <6>1, <6>3
          <5> QED
            BY <5>2, <5>3
        <4> QED
          BY <4>2, <4>3
      <3>5. CASE HeartbeatCheck
        <4>1. PICK none, nobody, on : none = << >> /\ DOMAIN none = {} /\ nobody = {} /\ on = FindByStatus("AVAILABLE")
          OBVIOUS
        <4>2. dpSaid' = [code |-> 0, user |-> "", admin |-> TRUE, profile |-> on, private |-> nobody, items |-> none]
              /\ UNCHANGED dpDoc
          BY <3>5, <4>1 DEF HeartbeatCheck, DpSilent
        <4>3. DpShows(dpSaid', dpDoc, dpRun.geo)
          BY <4>1, <4>2 DEF DpShows
        <4> QED
          BY <3>2, <4>2, <4>3
      <3>6. CASE (\E r \in DpHandler : DpStep(r)) \/ DpReviewsCount \/ DpReviewsNext \/ DpReviewsFail \/ DpRestart
        BY <3>1, <3>6 DEF DpStep, DpReviewsCount, DpReviewsNext, DpReviewsFail, DpRestart
      <3> QED
        BY <1>5, <3>3, <3>4, <3>5, <3>6 DEF DpNext, DpReviewsStep
    <2>3. DpWalkGood(dpWalk', dpRev')
      <3>1. PICK n \in Nat : DOMAIN dpRev' = 1 .. n
        BY <2>1 DEF DpStoreOK, DpRevOK
      <3>2. PICK revs, m : revs = dpRev' /\ m \in Nat /\ DOMAIN dpRev = 1 .. m
        BY <1>2 DEF DpStoreOK, DpRevOK
      <3>3. UNCHANGED dpWalk => DpWalkGood(dpWalk', dpRev')
        <4>1. DOMAIN dpRev \subseteq DOMAIN revs /\ \A i \in DOMAIN dpRev : revs[i] = dpRev[i]
          BY <2>1, <3>2 DEF DpLasting
        <4>2. DpWalkGood(dpWalk, revs)
          BY <1>2, <3>1, <3>2, <4>1, DpWalkKept
        <4> QED
          BY <3>2, <4>2
      <3>4. CASE DpReviewsFirst
        <4>1. DpWalkGood(dpWalk', dpRev) /\ UNCHANGED dpRev
          BY <1>2, <3>2, <3>4, DpWalkStarts DEF DpReviewsFirst
        <4> QED
          BY <4>1
      <3>5. CASE DpReviewsNext
        <4>1. DpWalkGood(dpWalk', dpRev) /\ UNCHANGED dpRev
          BY <1>2, <3>2, <3>5, DpWalkPages DEF DpReviewsNext
        <4> QED
          BY <4>1
      <3>7. CASE DpReviewsCount \/ DpReviewsFail
        <4>1. DpWalkGood(dpWalk', dpRev) /\ UNCHANGED dpRev
          BY <1>2, <3>2, <3>7, DpWalkCounts DEF DpReviewsCount, DpReviewsFail
        <4> QED
          BY <4>1
      <3>6. CASE (\E r \in DpHandler : DpStep(r)) \/ DpSearch \/ DpRead \/ HeartbeatCheck \/ DpRestart
        BY <3>3, <3>6 DEF DpStep, DpSearch, DpRead, HeartbeatCheck, DpRestart
      <3> QED
        BY <1>5, <3>4, <3>5, <3>6, <3>7 DEF DpNext, DpReviewsStep
    <2> QED
      BY <1>1, <2>1, <2>2, <2>3 DEF DpInv, DpStoreOK
  <1> QED
    BY <1>4, <1>5

\* The invariant gives the properties.
LEMMA DpInvImplies ==
    DpInv => DpTypeOK /\ DpProfileHasRole /\ DpRatingBacked /\ DpWalkComplete /\ DpPrivate /\ DpNearestFirst
  <1> SUFFICES ASSUME DpInv
               PROVE  DpTypeOK /\ DpProfileHasRole /\ DpRatingBacked /\ DpWalkComplete /\ DpPrivate /\ DpNearestFirst
    OBVIOUS
  <1>1. DpDocOK /\ DpRevOK /\ DpJobOK /\ DpTablesOK /\ DpSaidOK /\ DpWalkGood(dpWalk, dpRev)
    BY DEF DpInv
  <1>2. DpTypeOK
    <2>1. \A d \in DOMAIN dpDoc : dpDoc[d].status \in DpStates
      <3>1. \A d \in DOMAIN dpDoc : dpDoc[d] \in DpDocument
        BY <1>1 DEF DpDocOK
      <3> QED
        BY <3>1 DEF DpDocument
    <2>2. \A i \in DOMAIN dpRev : dpRev[i].stars \in 1 .. 5
      <3>1. \A i \in DOMAIN dpRev : dpRev[i] \in DpReviewRow
        BY <1>1 DEF DpRevOK
      <3> QED
        BY <3>1 DEF DpReviewRow
    <2>3. \A r \in DpHandler : dpJob[r].pc \in DpPcs
      BY <1>1 DEF DpJobOK, DpFits, DpJobRow
    <2> QED
      BY <1>1, <2>1, <2>2, <2>3 DEF DpTypeOK, DpTablesOK, DpStates, DpPcs
  <1>3. DpProfileHasRole
    BY <1>1 DEF DpProfileHasRole, DpDocOK
  <1>4. DpRatingBacked
    <2>1. SUFFICES ASSUME NEW d \in DOMAIN dpDoc
                   PROVE  \E S \in SUBSET DOMAIN dpRev :
                             /\ \A i \in S : /\ dpRev[i].d = d
                                             /\ dpRun.delivery[dpRev[i].x].customer = dpRev[i].user
                             /\ dpDoc[d].n = Cardinality(S)
                             /\ dpDoc[d].sum = DpStars(S)
      BY DEF DpRatingBacked
    <2>2. PICK S \in SUBSET DOMAIN dpRev :
             (\A i \in S : dpRev[i].d = d) /\ dpDoc[d].n = Cardinality(S) /\ dpDoc[d].sum = DpStarsIn(dpRev, S)
      BY <1>1 DEF DpDocOK, DpBacked
    <2>3. DpStars(S) = DpStarsIn(dpRev, S)
      BY DEF DpStars, DpStarsIn
    <2>4. \A i \in S : dpRun.delivery[dpRev[i].x].customer = dpRev[i].user
      BY <1>1 DEF DpRevOK
    <2> QED
      BY <2>2, <2>3, <2>4
  <1>5. DpWalkComplete
    BY <1>1 DEF DpWalkComplete, DpWalkGood
  <1>6. DpPrivate /\ DpNearestFirst
    BY <1>1 DEF DpPrivate, DpSaidOK
  <1> QED
    BY <1>2, <1>3, <1>4, <1>5, <1>6

\* driver-service, whatever requests overlap and whichever call fails: who has a profile has the
\* role, a rating is the average of reviews written by the customers of the driver's deliveries,
\* paging through reviews leaves no hole and, unless a page was torn, shows all, the assignments and
\* reviews of a driver are shown to the driver and administrators only, and a search shows nobody
\* twice and the nearer drivers first.
THEOREM DriverProfilesSafe ==
    DpSpec => [](DpProfileHasRole /\ DpRatingBacked /\ DpWalkComplete /\ DpPrivate /\ DpNearestFirst)
  <1> QED
    BY DpInvInit, DpInvStep, DpInvImplies, PTL DEF DpSpec

-----------------------------------------------------------------------------
(* analytics-service: queries *)

\* An element of a sorted list that shares its time with no other one stands where the later
\* times end.
LEMMA AqSortedPlace ==
    ASSUME NEW S, IsFiniteSet(S), \A q \in S : q.at \in Nat, NEW s \in AqOrders(S),
           NEW r \in S, \A q \in S : q.at = r.at => q = r
    PROVE  \E i \in DOMAIN s : s[i] = r /\ Cardinality({q \in S : q.at >= r.at}) = i
  <1>1. PICK n \in Nat : n = Cardinality(S)
    BY FS_CardinalityType
  <1>2. /\ s \in [1 .. n -> S] /\ DOMAIN s = 1 .. n
        /\ \A i, j \in 1 .. n : i < j => s[i] # s[j] /\ s[i].at >= s[j].at
    BY <1>1 DEF AqOrders
  <1>3. s \in Injection(1 .. n, S) /\ \A i, j \in 1 .. n : s[i] = s[j] => i = j
    <2>1. \A i, j \in 1 .. n : s[i] = s[j] => i = j
      BY <1>2
    <2> QED
      BY <1>2, <2>1 DEF Injection, IsInjective
  <1>4. Cardinality(1 .. n) = n /\ IsFiniteSet(1 .. n)
    <2>1. IsFiniteSet(1 .. n) /\ Cardinality(1 .. n) = IF 1 > n THEN 0 ELSE n - 1 + 1
      BY FS_Interval
    <2> QED
      BY <2>1
  <1>5. s \in Surjection(1 .. n, S)
    BY <1>1, <1>3, <1>4, FS_Injection
  <1>6. PICK i \in 1 .. n : s[i] = r
    BY <1>5 DEF Surjection
  <1> DEFINE F == {q \in S : q.at >= r.at}
  <1>7. PICK t : t = [j \in 1 .. i |-> s[j]]
    OBVIOUS
  <1>8. \A j \in 1 .. n : s[j].at >= r.at <=> j <= i
    <2> SUFFICES ASSUME NEW j \in 1 .. n PROVE s[j].at >= r.at <=> j <= i
      OBVIOUS
    <2>1. s[j] \in S /\ s[j].at \in Nat /\ r.at \in Nat
      BY <1>2
    <2>2. CASE j = i
      BY <1>6, <2>1, <2>2
    <2>3. CASE j < i
      BY <1>2, <1>6, <2>1, <2>3
    <2>4. CASE j > i
      <3>1. s[i] # s[j] /\ r.at >= s[j].at
        BY <1>2, <1>6, <2>4
      <3>2. s[j].at # r.at
        BY <1>6, <2>1, <3>1
      <3> QED
        BY <2>1, <2>4, <3>1, <3>2
    <2> QED
      BY <2>2, <2>3, <2>4
  <1>9. t \in Bijection(1 .. i, F)
    <2>1. \A j \in 1 .. i : j \in 1 .. n /\ t[j] = s[j]
      BY <1>7
    <2>2. t \in [1 .. i -> F]
      <3>1. ASSUME NEW j \in 1 .. i PROVE s[j] \in F
        <4>1. j \in 1 .. n /\ j <= i
          BY <2>1
        <4>2. s[j].at >= r.at /\ s[j] \in S
          BY <1>2, <1>8, <4>1
        <4> QED
          BY <4>2
      <3> HIDE DEF F
      <3> QED
        BY <1>7, <3>1
    <2>3. t \in Injection(1 .. i, F)
      BY <1>3, <2>1, <2>2 DEF Injection, IsInjective
    <2>4. t \in Surjection(1 .. i, F)
      <3> SUFFICES ASSUME NEW q \in F PROVE \E j \in 1 .. i : t[j] = q
        BY <2>2 DEF Surjection
      <3>1. PICK j \in 1 .. n : s[j] = q
        BY <1>5 DEF Surjection
      <3> QED
        BY <1>8, <2>1, <3>1
    <2> QED
      BY <2>3, <2>4 DEF Bijection
  <1>10. Cardinality(F) = i
    <2>1. ExistsBijection(1 .. i, F)
      BY <1>9 DEF ExistsBijection
    <2>2. Cardinality(1 .. i) = i /\ IsFiniteSet(1 .. i)
      BY FS_Interval
    <2> HIDE DEF F
    <2> QED
      BY <2>1, <2>2, FS_Bijection
  <1> QED
    BY <1>2, <1>6, <1>10

\* The rows a walk is about, in tables rows; the place of one of them, and whether it shares
\* its time with no other.
AqMatchesIn(rows, w) == {r \in rows[w.table] : w.filter \in {"", r.kind} /\ r.at >= w.from}
AqPlaceIn(rows, w, r) == Cardinality({q \in AqMatchesIn(rows, w) : q.at >= r.at})
AqAlone(rows, w, r) == \A q \in AqMatchesIn(rows, w) : q.at = r.at => q = r

AqWalkRec(w) ==
    /\ w = [pc |-> w.pc, table |-> w.table, filter |-> w.filter, from |-> w.from, next |-> w.next,
            limit |-> w.limit, total |-> w.total, first |-> w.first, start |-> w.start,
            got |-> w.got, torn |-> w.torn]
    /\ w.table \in AqTable /\ w.next \in Nat /\ w.limit \in 1 .. AqMaxLimit
    /\ w.torn \in BOOLEAN

\* A walk that began with the first page and was not torn has every row of the pages behind it,
\* and has counted the rows there are.
AqWalkSound(w, rows) ==
    /\ w.start \subseteq AqMatchesIn(rows, w)
    /\ w.pc # "done" => w.next > 0
    /\ w.first = 1 /\ ~ w.torn =>
         /\ w.pc = "counted" => w.total = Cardinality(AqMatchesIn(rows, w))
         /\ w.pc = "done" => \A r \in w.start : AqAlone(rows, w, r) => r \in w.got
         /\ w.pc # "done" =>
              \A r \in w.start : /\ AqAlone(rows, w, r)
                                 /\ AqPlaceIn(rows, w, r) <= (w.next - 1) * w.limit
                                 => r \in w.got

AqUnderway(w) == w.pc \in {"count", "counted", "done"}

AqWalkGood(w, rows) ==
    /\ w.pc \in {"none", "ask", "count", "counted", "done"}
    /\ w.pc = "ask" => w.table \in AqTable /\ {w.page.n, w.limit.n} \subseteq Int
    /\ AqUnderway(w) => AqWalkRec(w) /\ AqWalkSound(w, rows)

\* A record of a question, and the key of one.
AqIsQuestion(a) == a = [op |-> a.op, range |-> a.range, filter |-> a.filter]
AqKeyed(c) ==
    /\ c = [key |-> c.key, question |-> c.question] /\ AqIsQuestion(c.question)
    /\ \E scope : c.key = <<c.question.op, scope, c.question.range, c.question.filter>>

AqDoors ==
    /\ \A c \in aqCache : AqKeyed(c)
    /\ AqAnswersMatch

AqWork ==
    /\ aqMain \in {"serving", "stopping", "closed"} /\ aqTicks \in Nat
    /\ aqJob \in [{"reconciliation", "live_ticker"} -> {"idle", "running", "gone"}]
    /\ AqJobsEndFirst
    /\ aqPass.pc \in {"none", "freshness", "raw", "fact", "types", "report"}
    /\ AqNothingUnknown

AqTables == AqRowsOK(aqRows) /\ AqRowsOK(aqComing)

AqInv == AqTables /\ AqWalkGood(aqWalk, aqRows) /\ AqDoors /\ AqWork

\* The promises follow.
LEMMA AqInvImplies == AqInv => AqTypeOK /\ AqWalkComplete /\ AqAnswersMatch /\ AqJobsEndFirst /\ AqNothingUnknown
  <1> SUFFICES ASSUME AqInv PROVE AqTypeOK /\ AqWalkComplete /\ AqAnswersMatch /\ AqJobsEndFirst /\ AqNothingUnknown
    OBVIOUS
  <1>1. AqTypeOK
    BY DEF AqInv, AqWork, AqTypeOK, AqWalkGood
  <1>2. AqWalkComplete
    <2> SUFFICES ASSUME aqWalk.pc = "done", aqWalk.first = 1, ~ aqWalk.torn, NEW r \in aqWalk.start,
                        \A q \in AqMatches(aqWalk) : q.at = r.at => q = r
                 PROVE  r \in aqWalk.got
      BY DEF AqWalkComplete
    <2>1. AqAlone(aqRows, aqWalk, r)
      BY DEF AqAlone, AqMatches, AqMatchesIn
    <2>2. AqWalkSound(aqWalk, aqRows)
      BY DEF AqInv, AqWalkGood, AqUnderway
    <2> QED
      BY <2>1, <2>2 DEF AqWalkSound
  <1> QED
    BY <1>1, <1>2 DEF AqInv, AqDoors, AqWork

LEMMA AqInvInit == AqInit => AqInv
  <1> SUFFICES ASSUME AqInit PROVE AqInv
    OBVIOUS
  <1>1. PICK run \in AqRuns : /\ aqRows = run.rows /\ aqComing = run.coming /\ aqWalk = run.walk
                              /\ aqAsks = run.asks /\ aqTicks = run.ticks
    BY DEF AqInit
  <1>2. AqTables /\ aqTicks \in Nat
    BY <1>1, AqAssumption DEF AqTables
  <1>3. AqWalkGood(aqWalk, aqRows)
    BY <1>1, AqAssumption DEF AqWalkGood, AqUnderway
  <1>4. AqDoors
    BY DEF AqInit, AqDoors, AqAnswersMatch
  <1>5. AqWork
    <2>1. aqPass.pc = "none"
      BY DEF AqInit
    <2> QED
      BY <1>2, <2>1 DEF AqInit, AqWork, AqJobsEndFirst, AqNothingUnknown
  <1> QED
    BY <1>2, <1>3, <1>4, <1>5 DEF AqInv

-----------------------------------------------------------------------------
(* The doors *)

\* Keys are equal only if the questions are.
LEMMA AqKeyTells ==
    ASSUME NEW c, AqKeyed(c), NEW q, NEW a, AqIsQuestion(a), c.key = CacheKey(q, a)
    PROVE  c.question = a
  <1>1. PICK scope : c.key = <<c.question.op, scope, c.question.range, c.question.filter>>
    BY DEF AqKeyed
  <1>2. PICK k, x, y : k = c.question /\ x = c.key /\ y = CacheKey(q, a)
    OBVIOUS
  <1>3. x = <<k.op, scope, k.range, k.filter>> /\ y = <<a.op, q.scope, a.range, a.filter>> /\ x = y
    BY <1>1, <1>2 DEF CacheKey
  <1>4. k.op = a.op /\ k.range = a.range /\ k.filter = a.filter
    BY <1>3
  <1>5. k = [op |-> k.op, range |-> k.range, filter |-> k.filter]
    BY <1>2 DEF AqKeyed, AqIsQuestion
  <1>6. a = [op |-> a.op, range |-> a.range, filter |-> a.filter]
    BY DEF AqIsQuestion
  <1> QED
    BY <1>2, <1>4, <1>5, <1>6

\* An answer from the cache or from the repository is one to the question.
LEMMA AqAnswered ==
    ASSUME AqDoors, NEW q, NEW a, AqIsQuestion(a), AqAnswerFrom(q, a),
           a.range.from <= a.range.to, a.range.to - a.range.from <= AqMaxRange,
           q.door = "graphql" => q.role = "admin"
    PROVE  AqDoors'
  <1> DEFINE hit == {c \in aqCache : c.key = CacheKey(q, a)}
             given == IF hit = {} THEN a ELSE (CHOOSE c \in hit : TRUE).question
  <1>1. given = a
    <2>1. CASE hit = {}
      BY <2>1
    <2>2. CASE hit # {}
      <3>1. PICK c \in hit : c = CHOOSE d \in hit : TRUE
        BY <2>2
      <3>2. c \in aqCache /\ c.key = CacheKey(q, a)
        OBVIOUS
      <3>3. c.question = a
        BY <3>2, AqKeyTells DEF AqDoors
      <3> QED
        BY <2>2, <3>1, <3>3
    <2> QED
      BY <2>1, <2>2
  <1>2. PICK g : g = [who |-> <<q.door, q.role>>, asked |-> a, question |-> a]
    OBVIOUS
  <1>3. aqGiven' = aqGiven \cup {g}
    BY <1>1, <1>2 DEF AqAnswerFrom
  <1>4. g.asked = a /\ g.question = a /\ g.who[1] = q.door /\ g.who[2] = q.role
    BY <1>2
  <1>5. AqAnswersMatch'
    BY <1>3, <1>4 DEF AqDoors, AqAnswersMatch
  <1>6. PICK d : d = [key |-> CacheKey(q, a), question |-> a]
    OBVIOUS
  <1>7. aqCache' \subseteq aqCache \cup {d}
    BY <1>6 DEF AqAnswerFrom
  <1>8. AqKeyed(d)
    <2>1. d.key = CacheKey(q, a) /\ d.question = a /\ d = [key |-> d.key, question |-> d.question]
      BY <1>6
    <2> QED
      BY <2>1 DEF AqKeyed, CacheKey
  <1> QED
    BY <1>5, <1>7, <1>8 DEF AqDoors

LEMMA AqRequestKeeps ==
    ASSUME AqDoors, NEW q \in aqAsks, AqRequest(q)
    PROVE  AqDoors'
  <1>1. CASE UNCHANGED <<aqGiven, aqCache>>
    BY <1>1 DEF AqDoors, AqAnswersMatch
  <1>2. CASE ~ Probe(q) /\ Admitted(q) /\ \E a \in AqQuestion(q) : AqAnswerFrom(q, a)
    <2>1. PICK a \in AqQuestion(q) : AqAnswerFrom(q, a)
      BY <1>2
    <2> DEFINE r == IF q.door = "grpc" THEN GrpcRange(q)
                    ELSE [from |-> q.from, to |-> q.to, gran |-> q.gran]
    <2>2. \E f : a = [op |-> q.op, range |-> r, filter |-> f] /\ RangeValidate(r)
      <3> HIDE DEF r
      <3> DEFINE fits == IF q.door = "grpc" THEN q.from # -2 /\ q.to # -2 /\ RangeValidate(r) ELSE ParseRange(r)
      <3>1. \E F : AqQuestion(q) = IF fits THEN {[op |-> q.op, range |-> r, filter |-> f] : f \in F} ELSE {}
        BY DEF AqQuestion, r
      <3>2. fits
        BY <2>1, <3>1
      <3>3. RangeValidate(r)
        BY <3>2 DEF ParseRange
      <3> HIDE DEF fits
      <3> QED
        BY <2>1, <3>1, <3>3
    <2>3. AqIsQuestion(a) /\ a.range.from <= a.range.to /\ a.range.to - a.range.from <= AqMaxRange
      <3> HIDE DEF r
      <3> QED
        BY <2>2 DEF AqIsQuestion, RangeValidate
    <2>4. q.door = "graphql" => q.role = "admin"
      BY <1>2 DEF Admitted
    <2> QED
      BY <2>1, <2>3, <2>4, AqAnswered
  <1> QED
    BY <1>1, <1>2 DEF AqRequest

LEMMA AqLiveKeeps ==
    ASSUME AqDoors, LiveTicker
    PROVE  AqDoors'
  <1> DEFINE a == [op |-> "platformOverview", filter |-> "",
                   range |-> [from |-> AqNow - 1, to |-> AqNow, gran |-> "HOUR"]]
             q == [door |-> "nats", role |-> "none", scope |-> "nats"]
  <1>1. AqAnswerFrom(q, a) /\ RangeValidate(a.range)
    BY DEF LiveTicker
  <1>2. AqIsQuestion(a) /\ q.door # "graphql"
    BY DEF AqIsQuestion
  <1>3. a.range.from <= a.range.to /\ a.range.to - a.range.from <= AqMaxRange
    BY <1>1 DEF RangeValidate
  <1> HIDE DEF a, q
  <1> QED
    BY <1>1, <1>2, <1>3, AqAnswered

\* Every step leaves the answers right.
LEMMA AqDoorsStep ==
    ASSUME AqDoors, [AqNext]_aqVars
    PROVE  AqDoors'
  <1>1. CASE UNCHANGED <<aqGiven, aqCache>>
    BY <1>1 DEF AqDoors, AqAnswersMatch
  <1>2. ASSUME NEW c \in aqCache, AqExpire(c) PROVE AqDoors'
    BY <1>2 DEF AqExpire, AqDoors, AqAnswersMatch
  <1>3. \A t \in DOMAIN aqComing : \A r \in aqComing[t] : AqArrive(t, r) => UNCHANGED <<aqGiven, aqCache>>
    BY DEF AqArrive
  <1>4. AqWalkStep => UNCHANGED <<aqGiven, aqCache>>
    BY DEF AqWalkStep
  <1>5. AqPoolStep => UNCHANGED <<aqGiven, aqCache>>
    BY DEF AqPoolStep, PoolTick, PoolReturn, PoolLeave, CheckStep, AqSignal, AqClose
  <1>6. UNCHANGED aqVars => UNCHANGED <<aqGiven, aqCache>>
    BY DEF aqVars
  <1> QED
    BY <1>1, <1>2, <1>3, <1>4, <1>5, <1>6, AqRequestKeeps, AqLiveKeeps DEF AqNext

-----------------------------------------------------------------------------
(* The worker pool *)

\* A reconciliation pass meets the kinds that the tables have.
LEMMA AqCheckKeeps ==
    ASSUME AqTables, AqWork, CheckStep, UNCHANGED aqRows
    PROVE  AqWork'
  <1>1. aqPass'.pc \in {"raw", "fact", "types", "report"} /\ AqNothingUnknown'
    <2>1. CASE aqPass' = [pc |-> "raw", fresh |-> GradeFreshness]
      BY <2>1 DEF AqNothingUnknown
    <2>2. CASE aqPass' = [pc |-> "fact", fresh |-> aqPass.fresh, raw |-> Cardinality(InWindow("raw_events"))]
      BY <2>2 DEF AqNothingUnknown
    <2>3. CASE aqPass' = [pc |-> "types", fresh |-> aqPass.fresh,
                          gap |-> Cardinality(InWindow("fact_delivery_events")) < aqPass.raw]
      BY <2>3 DEF AqNothingUnknown
    <2>4. CASE aqPass' = [pc |-> "report", fresh |-> aqPass.fresh, gap |-> aqPass.gap,
                          unknown |-> {r.kind : r \in InWindow("raw_events")} \ KnownEventTypes,
                          issues |-> Cardinality(aqRows["issues"])]
      <3> DEFINE strange == {r.kind : r \in InWindow("raw_events")} \ KnownEventTypes
      <3>1. strange = {}
        BY DEF InWindow, KnownEventTypes, AqTables, AqRowsOK
      <3>2. aqPass'.pc = "report" /\ aqPass'.unknown = strange
        BY <2>4
      <3> HIDE DEF strange
      <3> QED
        BY <3>1, <3>2 DEF AqNothingUnknown
    <2> QED
      BY <2>1, <2>2, <2>3, <2>4 DEF CheckStep
  <1>2. UNCHANGED <<aqMain, aqJob, aqTicks>>
    BY DEF CheckStep
  <1> QED
    BY <1>1, <1>2 DEF AqWork, AqJobsEndFirst

\* Every step leaves the pool in order.
LEMMA AqWorkStep ==
    ASSUME AqTables, AqWork, [AqNext]_aqVars
    PROVE  AqWork'
  <1>1. CASE UNCHANGED <<aqMain, aqJob, aqPass, aqTicks>>
    BY <1>1 DEF AqWork, AqJobsEndFirst, AqNothingUnknown
  <1>2. CASE AqPoolStep
    <2>1. ASSUME NEW j \in DOMAIN aqJob, PoolTick(j) PROVE AqWork'
      <3>1. aqMain # "closed"
        BY <2>1 DEF PoolTick, AqWork, AqJobsEndFirst
      <3>2. aqPass' = aqPass \/ aqPass' = [pc |-> "freshness"]
        BY <2>1 DEF PoolTick
      <3>3. aqPass'.pc \in {"none", "freshness", "raw", "fact", "types", "report"} /\ AqNothingUnknown'
        BY <3>2 DEF AqWork, AqNothingUnknown
      <3>4. aqTicks' \in Nat /\ aqMain' = aqMain
            /\ aqJob' \in [{"reconciliation", "live_ticker"} -> {"idle", "running", "gone"}]
        BY <2>1 DEF PoolTick, AqWork
      <3> QED
        BY <3>1, <3>3, <3>4 DEF AqWork, AqJobsEndFirst
    <2>2. ASSUME NEW j \in DOMAIN aqJob, PoolReturn(j) PROVE AqWork'
      <3>1. aqMain # "closed"
        BY <2>2 DEF PoolReturn, AqWork, AqJobsEndFirst
      <3>2. \/ aqPass' = aqPass \/ aqPass' = [pc |-> "none"]
            \/ aqPass' = [pc |-> "none", said |-> Verdict(aqPass)]
        BY <2>2 DEF PoolReturn
      <3>3. aqPass'.pc \in {"none", "freshness", "raw", "fact", "types", "report"} /\ AqNothingUnknown'
        BY <3>2 DEF AqWork, AqNothingUnknown
      <3>4. aqTicks' \in Nat /\ aqMain' = aqMain
            /\ aqJob' \in [{"reconciliation", "live_ticker"} -> {"idle", "running", "gone"}]
        BY <2>2 DEF PoolReturn, AqWork
      <3> QED
        BY <3>1, <3>3, <3>4 DEF AqWork, AqJobsEndFirst
    <2>3. ASSUME NEW j \in DOMAIN aqJob, PoolLeave(j) PROVE AqWork'
      BY <2>3 DEF PoolLeave, AqWork, AqJobsEndFirst, AqNothingUnknown
    <2>4. CASE CheckStep
      BY <1>2, <2>4, AqCheckKeeps DEF AqPoolStep
    <2>5. CASE AqSignal
      BY <2>5 DEF AqSignal, AqWork, AqJobsEndFirst, AqNothingUnknown
    <2>6. CASE AqClose
      BY <2>6 DEF AqClose, PoolStop, AqWork, AqJobsEndFirst, AqNothingUnknown
    <2> QED
      BY <1>2, <2>1, <2>2, <2>3, <2>4, <2>5, <2>6 DEF AqPoolStep
  <1>3. AqWalkStep \/ LiveTicker \/ (\E q \in aqAsks : AqRequest(q)) \/ (\E c \in aqCache : AqExpire(c))
        \/ (\E t \in DOMAIN aqComing : \E r \in aqComing[t] : AqArrive(t, r)) \/ UNCHANGED aqVars
        => UNCHANGED <<aqMain, aqJob, aqPass, aqTicks>>
    BY DEF AqWalkStep, LiveTicker, AqRequest, AqExpire, AqArrive, aqVars
  <1> QED
    BY <1>1, <1>2, <1>3 DEF AqNext

-----------------------------------------------------------------------------
(* Tables and walks *)

\* A table that grows by a row, or loses one.
LEMMA AqRowsChange ==
    ASSUME NEW rows, AqRowsOK(rows), NEW t \in AqTable, NEW more, IsFiniteSet(more), \A r \in more : r.at \in Nat,
           t = "raw_events" => \A r \in more : r.kind \in AqIngested
    PROVE  AqRowsOK([rows EXCEPT ![t] = more])
  <1> DEFINE all == [rows EXCEPT ![t] = more]
  <1>1. rows = [u \in AqTable |-> rows[u]]
    BY DEF AqRowsOK
  <1>2. all = [u \in AqTable |-> IF u = t THEN more ELSE rows[u]]
    BY <1>1
  <1>3. \A u \in AqTable : all[u] = IF u = t THEN more ELSE rows[u]
    BY <1>2
  <1>4. all = [u \in AqTable |-> all[u]]
    BY <1>2
  <1> HIDE DEF all
  <1>5. "raw_events" \in AqTable
    BY DEF AqTable
  <1> QED
    BY <1>3, <1>4, <1>5 DEF AqRowsOK

\* A row arrives in one table.
LEMMA AqArrives ==
    ASSUME AqTables, NEW t \in DOMAIN aqComing, NEW r \in aqComing[t], AqArrive(t, r)
    PROVE  /\ AqTables' /\ t \in AqTable
           /\ \A u \in AqTable : aqRows[u] \subseteq aqRows'[u] /\ (u # t => aqRows'[u] = aqRows[u])
  <1>1. DOMAIN aqComing = AqTable /\ t \in AqTable /\ aqRows = [u \in AqTable |-> aqRows[u]]
    BY DEF AqTables, AqRowsOK
  <1>2. aqRows' = [aqRows EXCEPT ![t] = aqRows[t] \cup {r}] /\ aqComing' = [aqComing EXCEPT ![t] = aqComing[t] \ {r}]
    BY DEF AqArrive
  <1>3. IsFiniteSet(aqRows[t] \cup {r}) /\ IsFiniteSet(aqComing[t] \ {r})
    <2>1. IsFiniteSet(aqRows[t]) /\ IsFiniteSet(aqComing[t])
      BY <1>1 DEF AqTables, AqRowsOK
    <2> QED
      BY <2>1, FS_AddElement, FS_RemoveElement
  <1>4. r.at \in Nat /\ (t = "raw_events" => r.kind \in AqIngested)
    BY <1>1 DEF AqTables, AqRowsOK
  <1>5. \A q \in aqRows[t] \cup {r} : q.at \in Nat /\ (t = "raw_events" => q.kind \in AqIngested)
    BY <1>1, <1>4 DEF AqTables, AqRowsOK
  <1>6. \A q \in aqComing[t] \ {r} : q.at \in Nat /\ (t = "raw_events" => q.kind \in AqIngested)
    BY <1>1 DEF AqTables, AqRowsOK
  <1>7. AqRowsOK(aqRows') /\ AqRowsOK(aqComing')
    BY <1>1, <1>2, <1>3, <1>5, <1>6, AqRowsChange DEF AqTables
  <1> QED
    BY <1>1, <1>2, <1>7 DEF AqTables

\* The rows a walk is about are finitely many, and each has a place.
LEMMA AqPlaces ==
    ASSUME NEW rows, AqRowsOK(rows), NEW w, w.table \in AqTable
    PROVE  /\ IsFiniteSet(AqMatchesIn(rows, w)) /\ Cardinality(AqMatchesIn(rows, w)) \in Nat
           /\ \A r : /\ IsFiniteSet({q \in AqMatchesIn(rows, w) : q.at >= r.at})
                     /\ AqPlaceIn(rows, w, r) \in Nat
                     /\ AqPlaceIn(rows, w, r) <= Cardinality(AqMatchesIn(rows, w))
           /\ \A r \in AqMatchesIn(rows, w) : r.at \in Nat /\ AqPlaceIn(rows, w, r) > 0
  <1> DEFINE M == AqMatchesIn(rows, w)
  <1>1. M \subseteq rows[w.table] /\ IsFiniteSet(rows[w.table]) /\ \A r \in M : r.at \in Nat
    BY DEF AqRowsOK, AqMatchesIn
  <1> HIDE DEF M
  <1>2. IsFiniteSet(M) /\ Cardinality(M) \in Nat
    BY <1>1, FS_Subset, FS_CardinalityType
  <1>3. ASSUME NEW r
        PROVE  /\ IsFiniteSet({q \in M : q.at >= r.at}) /\ Cardinality({q \in M : q.at >= r.at}) \in Nat
               /\ Cardinality({q \in M : q.at >= r.at}) <= Cardinality(M)
    <2>1. {q \in M : q.at >= r.at} \subseteq M
      OBVIOUS
    <2> QED
      BY <1>2, <2>1, FS_Subset, FS_CardinalityType
  <1>4. ASSUME NEW r \in M PROVE Cardinality({q \in M : q.at >= r.at}) > 0
    <2> DEFINE F == {q \in M : q.at >= r.at}
    <2>1. r \in F
      BY <1>1
    <2>2. IsFiniteSet(F) /\ Cardinality(F) \in Nat
      BY <1>3
    <2> HIDE DEF F
    <2>3. Cardinality(F) # 0
      BY <2>1, <2>2, FS_EmptySet
    <2>4. PICK n \in Nat : n = Cardinality(F)
      BY <2>2
    <2>5. n > 0
      BY <2>3, <2>4
    <2> QED
      BY <2>4, <2>5 DEF F
  <1> QED
    BY <1>1, <1>2, <1>3, <1>4 DEF M, AqPlaceIn

\* A walk stays good when rows are added, unless they come between its count and its select.
LEMMA AqWalkKept ==
    ASSUME NEW rows, AqRowsOK(rows), NEW more, AqRowsOK(more), NEW w, AqWalkGood(w, rows),
           w.table \in AqTable => rows[w.table] \subseteq more[w.table],
           w.pc = "counted" => rows[w.table] = more[w.table]
    PROVE  AqWalkGood(w, more)
  <1> SUFFICES ASSUME AqUnderway(w) PROVE AqWalkSound(w, more)
    BY DEF AqWalkGood
  <1>1. w.table \in AqTable /\ w.next \in Nat /\ w.limit \in 1 .. AqMaxLimit /\ AqWalkSound(w, rows)
    BY DEF AqWalkGood, AqWalkRec
  <1>2. AqMatchesIn(rows, w) \subseteq AqMatchesIn(more, w)
    BY <1>1 DEF AqMatchesIn
  <1>3. w.pc = "counted" => AqMatchesIn(rows, w) = AqMatchesIn(more, w)
    BY DEF AqMatchesIn
  <1>4. \A r : AqAlone(more, w, r) => AqAlone(rows, w, r)
    BY <1>2 DEF AqAlone
  <1>5. ASSUME NEW r
        PROVE  /\ AqPlaceIn(rows, w, r) <= AqPlaceIn(more, w, r)
               /\ AqPlaceIn(rows, w, r) \in Nat /\ AqPlaceIn(more, w, r) \in Nat
    <2>1. {q \in AqMatchesIn(rows, w) : q.at >= r.at} \subseteq {q \in AqMatchesIn(more, w) : q.at >= r.at}
      BY <1>2
    <2>2. IsFiniteSet({q \in AqMatchesIn(more, w) : q.at >= r.at})
      BY <1>1, AqPlaces
    <2>3. AqPlaceIn(rows, w, r) <= AqPlaceIn(more, w, r)
      BY <2>1, <2>2, FS_Subset DEF AqPlaceIn
    <2> QED
      BY <1>1, <2>3, AqPlaces
  <1>6. PICK e \in Int : e = (w.next - 1) * w.limit
    <2>1. w.next - 1 \in Int /\ w.limit \in Int
      BY <1>1
    <2> QED
      BY <2>1
  <1>7. \A r : AqPlaceIn(more, w, r) <= e => AqPlaceIn(rows, w, r) <= e
    BY <1>5
  <1> QED
    BY <1>1, <1>2, <1>3, <1>4, <1>6, <1>7 DEF AqWalkSound

\* A torn walk promises nothing but its form.
LEMMA AqWalkTorn ==
    ASSUME NEW rows, NEW more, NEW w, AqWalkGood(w, rows), w.pc = "counted", NEW v, v = [w EXCEPT !.torn = TRUE],
           rows[w.table] \subseteq more[w.table]
    PROVE  AqWalkGood(v, more)
  <1>1. AqWalkRec(w) /\ AqWalkSound(w, rows)
    BY DEF AqWalkGood, AqUnderway
  <1>2. v = [pc |-> w.pc, table |-> w.table, filter |-> w.filter, from |-> w.from, next |-> w.next,
             limit |-> w.limit, total |-> w.total, first |-> w.first, start |-> w.start,
             got |-> w.got, torn |-> TRUE]
    BY <1>1 DEF AqWalkRec
  <1>3. /\ v.pc = w.pc /\ v.table = w.table /\ v.filter = w.filter /\ v.from = w.from /\ v.next = w.next
        /\ v.limit = w.limit /\ v.total = w.total /\ v.first = w.first /\ v.start = w.start
        /\ v.got = w.got /\ v.torn = TRUE
    BY <1>2
  <1>4. AqWalkRec(v)
    BY <1>1, <1>2, <1>3 DEF AqWalkRec
  <1>5. AqMatchesIn(rows, w) \subseteq AqMatchesIn(more, v)
    BY <1>3 DEF AqMatchesIn
  <1>6. AqWalkSound(v, more)
    BY <1>1, <1>3, <1>5 DEF AqWalkSound
  <1> QED
    BY <1>3, <1>4, <1>6 DEF AqWalkGood, AqUnderway

LEMMA AqArriveWalk ==
    ASSUME AqTables, AqWalkGood(aqWalk, aqRows), NEW t \in DOMAIN aqComing, NEW r \in aqComing[t], AqArrive(t, r)
    PROVE  AqWalkGood(aqWalk', aqRows')
  <1>1. /\ AqTables' /\ t \in AqTable
        /\ \A u \in AqTable : aqRows[u] \subseteq aqRows'[u] /\ (u # t => aqRows'[u] = aqRows[u])
    BY AqArrives
  <1>2. PICK more : more = aqRows'
    OBVIOUS
  <1>3. AqRowsOK(aqRows) /\ AqRowsOK(more) /\ \A u \in AqTable : aqRows[u] \subseteq more[u]
    BY <1>1, <1>2 DEF AqTables
  <1>4. aqWalk.pc = "counted" => aqWalk.table \in AqTable
    BY DEF AqWalkGood, AqUnderway, AqWalkRec
  <1>5. CASE aqWalk.pc = "counted" /\ aqWalk.table = t
    <2>1. aqWalk' = [aqWalk EXCEPT !.torn = TRUE]
      BY <1>5 DEF AqArrive
    <2> QED
      BY <1>2, <1>3, <1>4, <1>5, <2>1, AqWalkTorn
  <1>6. CASE ~ (aqWalk.pc = "counted" /\ aqWalk.table = t)
    <2>1. aqWalk' = aqWalk
      BY <1>6, Zenon DEF AqArrive
    <2>2. aqWalk.pc = "counted" => aqRows[aqWalk.table] = more[aqWalk.table]
      BY <1>1, <1>2, <1>4, <1>6
    <2> QED
      BY <1>2, <1>3, <2>1, <2>2, AqWalkKept
  <1> QED
    BY <1>5, <1>6

\* The parsed page and limit of a request are accepted by the repository as they are.
LEMMA AqParsed ==
    ASSUME NEW w, {w.page.n, w.limit.n} \subseteq Int
    PROVE  /\ ParsePage(w).page \in Nat /\ ParsePage(w).page > 0
           /\ AqRepoLimit(ParsePage(w).limit) \in 1 .. AqMaxLimit
  <1>1. PICK page \in Nat : page > 0 /\ page = IF AqSeen(w.page) THEN ClampPage(w.page.n) ELSE 1
    <2>1. ClampPage(w.page.n) \in Nat /\ ClampPage(w.page.n) > 0
      BY DEF ClampPage
    <2> QED
      BY <2>1
  <1>2. PICK limit \in 1 .. AqMaxLimit : limit = IF AqSeen(w.limit) THEN ClampLimit(w.limit.n) ELSE AqDefaultLimit
    <2>1. ClampLimit(w.limit.n) \in 1 .. AqMaxLimit /\ AqDefaultLimit \in 1 .. AqMaxLimit
      BY AqAssumption DEF ClampLimit
    <2> QED
      BY <2>1
  <1>3. ParsePage(w).page = page /\ ParsePage(w).limit = limit
    BY <1>1, <1>2 DEF ParsePage
  <1>4. AqRepoLimit(limit) \in 1 .. AqMaxLimit
    BY AqAssumption DEF AqRepoLimit
  <1> QED
    BY <1>1, <1>3, <1>4

LEMMA AqWalkStarts ==
    ASSUME AqTables, AqWalkGood(aqWalk, aqRows), AqWalkStart
    PROVE  AqWalkGood(aqWalk', aqRows)
  <1>1. aqWalk.table \in AqTable /\ {aqWalk.page.n, aqWalk.limit.n} \subseteq Int
    BY DEF AqWalkStart, AqWalkGood
  <1>2. PICK p : p = ParsePage(aqWalk)
    OBVIOUS
  <1>3. p.page \in Nat /\ p.page > 0 /\ AqRepoLimit(p.limit) \in 1 .. AqMaxLimit
    BY <1>1, <1>2, AqParsed
  <1>4. PICK zero, none, n, l : zero = 0 /\ none = {} /\ n = p.page /\ l = AqRepoLimit(p.limit)
    OBVIOUS
  <1>5. PICK w : w = [pc |-> "count", table |-> aqWalk.table, filter |-> aqWalk.filter,
                      from |-> aqWalk.from, next |-> n, limit |-> l,
                      total |-> zero, first |-> n, start |-> none, got |-> none, torn |-> FALSE]
    OBVIOUS
  <1>6. aqWalk' = AqNoWalk \/ aqWalk' = [w EXCEPT !.start = AqMatches(w)]
    BY <1>2, <1>4, <1>5, Zenon DEF AqWalkStart
  <1>7. CASE aqWalk' = AqNoWalk
    BY <1>7 DEF AqNoWalk, AqWalkGood, AqUnderway
  <1>8. CASE aqWalk' = [w EXCEPT !.start = AqMatches(w)]
    <2>1. PICK v, S : v = aqWalk' /\ S = AqMatches(w)
      OBVIOUS
    <2>2. v = [pc |-> "count", table |-> aqWalk.table, filter |-> aqWalk.filter,
               from |-> aqWalk.from, next |-> n, limit |-> l,
               total |-> zero, first |-> n, start |-> S, got |-> none, torn |-> FALSE]
      BY <1>5, <1>8, <2>1
    <2>3. /\ v.pc = "count" /\ v.table = aqWalk.table /\ v.filter = aqWalk.filter /\ v.from = aqWalk.from
          /\ v.next = n /\ v.limit = l /\ v.total = zero /\ v.first = n /\ v.start = S /\ v.got = none
          /\ v.torn = FALSE
      BY <2>2
    <2>4. AqWalkRec(v)
      BY <1>1, <1>3, <1>4, <2>2, <2>3 DEF AqWalkRec
    <2>5. S = AqMatchesIn(aqRows, v)
      <3>1. w.table = aqWalk.table /\ w.filter = aqWalk.filter /\ w.from = aqWalk.from
        BY <1>5
      <3> QED
        BY <2>1, <2>3, <3>1 DEF AqMatches, AqMatchesIn
    <2>6. \A r \in v.start : v.first = 1 => ~ (AqPlaceIn(aqRows, v, r) <= (v.next - 1) * v.limit)
      <3> SUFFICES ASSUME NEW r \in v.start, v.first = 1
                   PROVE  ~ (AqPlaceIn(aqRows, v, r) <= (v.next - 1) * v.limit)
        OBVIOUS
      <3>1. v.table \in AqTable /\ AqRowsOK(aqRows) /\ r \in AqMatchesIn(aqRows, v)
        BY <1>1, <2>3, <2>5 DEF AqTables
      <3>2. PICK k \in Nat : k = AqPlaceIn(aqRows, v, r) /\ k > 0
        BY <3>1, AqPlaces
      <3>3. v.next - 1 = 0 /\ v.limit \in Int
        BY <1>3, <1>4, <2>3
      <3>4. (v.next - 1) * v.limit = 0
        BY <3>3
      <3> QED
        BY <3>2, <3>4
    <2>7. AqWalkSound(v, aqRows)
      BY <1>3, <1>4, <2>3, <2>5, <2>6 DEF AqWalkSound
    <2> QED
      BY <2>1, <2>3, <2>4, <2>7 DEF AqWalkGood, AqUnderway
  <1> QED
    BY <1>6, <1>7, <1>8

LEMMA AqWalkCounts ==
    ASSUME AqWalkGood(aqWalk, aqRows), AqCount
    PROVE  AqWalkGood(aqWalk', aqRows)
  <1>1. PICK w, v, n : w = aqWalk /\ v = aqWalk' /\ n = Cardinality(AqMatchesIn(aqRows, aqWalk))
    OBVIOUS
  <1>2. w.pc = "count" /\ AqWalkRec(w) /\ AqWalkSound(w, aqRows)
    BY <1>1 DEF AqCount, AqWalkGood, AqUnderway
  <1>3. v = [w EXCEPT !.pc = "counted", !.total = n]
    BY <1>1 DEF AqCount, AqMatches, AqMatchesIn
  <1>4. v = [pc |-> "counted", table |-> w.table, filter |-> w.filter, from |-> w.from, next |-> w.next,
             limit |-> w.limit, total |-> n, first |-> w.first, start |-> w.start,
             got |-> w.got, torn |-> w.torn]
    BY <1>2, <1>3 DEF AqWalkRec
  <1>5. /\ v.pc = "counted" /\ v.table = w.table /\ v.filter = w.filter /\ v.from = w.from /\ v.next = w.next
        /\ v.limit = w.limit /\ v.total = n /\ v.first = w.first /\ v.start = w.start
        /\ v.got = w.got /\ v.torn = w.torn
    BY <1>4
  <1>6. AqWalkRec(v)
    BY <1>2, <1>4, <1>5 DEF AqWalkRec
  <1>7. /\ AqMatchesIn(aqRows, v) = AqMatchesIn(aqRows, w) /\ n = Cardinality(AqMatchesIn(aqRows, v))
        /\ \A r : /\ AqAlone(aqRows, v, r) = AqAlone(aqRows, w, r)
                  /\ AqPlaceIn(aqRows, v, r) = AqPlaceIn(aqRows, w, r)
    BY <1>1, <1>5 DEF AqMatchesIn, AqAlone, AqPlaceIn
  <1>8. AqWalkSound(v, aqRows)
    BY <1>2, <1>5, <1>7 DEF AqWalkSound
  <1> QED
    BY <1>1, <1>5, <1>6, <1>8 DEF AqWalkGood, AqUnderway

\* A page gives every row of its places that shares its time with no other.
LEMMA AqPageGives ==
    ASSUME NEW rows, AqRowsOK(rows), NEW w, w.table \in AqTable, NEW M, M = AqMatchesIn(rows, w),
           NEW s \in AqOrders(M), NEW r \in M, AqAlone(rows, w, r),
           NEW from \in Int, NEW to \in Int, AqPlaceIn(rows, w, r) > from, AqPlaceIn(rows, w, r) <= to
    PROVE  r \in {s[i] : i \in {k \in DOMAIN s : k > from /\ k <= to}}
  <1>1. IsFiniteSet(M) /\ \A q \in M : q.at \in Nat
    BY AqPlaces
  <1>2. \A q \in M : q.at = r.at => q = r
    BY DEF AqAlone
  <1>3. PICK i \in DOMAIN s : s[i] = r /\ Cardinality({q \in M : q.at >= r.at}) = i
    BY <1>1, <1>2, AqSortedPlace
  <1>4. i = AqPlaceIn(rows, w, r)
    BY <1>3 DEF AqPlaceIn
  <1> QED
    BY <1>3, <1>4

LEMMA AqWalkSelects ==
    ASSUME AqTables, AqWalkGood(aqWalk, aqRows), AqSelect
    PROVE  AqWalkGood(aqWalk', aqRows)
  <1>1. PICK w, M : w = aqWalk /\ M = AqMatchesIn(aqRows, aqWalk)
    OBVIOUS
  <1>2. w.pc = "counted" /\ AqWalkRec(w) /\ AqWalkSound(w, aqRows) /\ AqRowsOK(aqRows)
    BY <1>1 DEF AqSelect, AqWalkGood, AqUnderway, AqTables
  <1>3. /\ w.next \in Nat /\ w.next > 0 /\ w.limit \in 1 .. AqMaxLimit /\ w.limit \in Nat /\ w.table \in AqTable
        /\ w.start \subseteq M
    BY <1>1, <1>2 DEF AqWalkRec, AqWalkSound
  <1>4. PICK from \in Int, to \in Int : from = (w.next - 1) * w.limit /\ to = w.next * w.limit /\ to = from + w.limit
    <2>1. w.next \in Int /\ w.limit \in Int
      BY <1>3
    <2> QED
      BY <2>1
  <1>5. PICK next : next = Paginate(w.total, w.next, w.limit)
    OBVIOUS
  <1>6. PICK pc : pc = IF next = 0 THEN "done" ELSE "count"
    OBVIOUS
  <1>m. M = AqMatches(aqWalk)
    BY <1>1 DEF AqMatches, AqMatchesIn
  <1>s. PICK s \in AqOrders(M) :
          aqWalk' = [aqWalk EXCEPT !.next = Paginate(aqWalk.total, aqWalk.next, aqWalk.limit),
                !.pc = IF Paginate(aqWalk.total, aqWalk.next, aqWalk.limit) = 0 THEN "done" ELSE "count",
                !.got = @ \cup {s[i] : i \in {k \in DOMAIN s : k > (aqWalk.next - 1) * aqWalk.limit
                                      /\ k <= (aqWalk.next - 1) * aqWalk.limit + aqWalk.limit}}]
    BY <1>m, Zenon DEF AqSelect
  <1>p. PICK page : page = {s[i] : i \in {k \in DOMAIN s : k > from /\ k <= from + w.limit}}
    OBVIOUS
  <1>7. aqWalk' = [w EXCEPT !.next = next, !.pc = pc, !.got = @ \cup page]
    <2>1. page = {s[i] : i \in {k \in DOMAIN s : k > (aqWalk.next - 1) * aqWalk.limit
                              /\ k <= (aqWalk.next - 1) * aqWalk.limit + aqWalk.limit}}
      BY <1>1, <1>4, <1>p
    <2>2. aqWalk' = [aqWalk EXCEPT !.next = Paginate(aqWalk.total, aqWalk.next, aqWalk.limit),
                  !.pc = IF Paginate(aqWalk.total, aqWalk.next, aqWalk.limit) = 0 THEN "done" ELSE "count",
                  !.got = @ \cup page]
      BY <1>s, <2>1, Zenon
    <2> QED
      BY <1>1, <1>5, <1>6, <2>2
  <1>8. PICK v, got : v = aqWalk' /\ got = w.got \cup page
    OBVIOUS
  <1>9. v = [pc |-> pc, table |-> w.table, filter |-> w.filter, from |-> w.from, next |-> next,
             limit |-> w.limit, total |-> w.total, first |-> w.first, start |-> w.start,
             got |-> got, torn |-> w.torn]
    BY <1>2, <1>7, <1>8 DEF AqWalkRec
  <1>10. /\ v.pc = pc /\ v.table = w.table /\ v.filter = w.filter /\ v.from = w.from /\ v.next = next
         /\ v.limit = w.limit /\ v.total = w.total /\ v.first = w.first /\ v.start = w.start
         /\ v.got = got /\ v.torn = w.torn
    BY <1>9
  <1>11. /\ next \in Nat /\ (pc = "count" => next = w.next + 1) /\ (pc = "done" => ~ (to < w.total))
         /\ pc \in {"count", "done"}
    <2>1. next = IF to < w.total THEN w.next + 1 ELSE 0
      BY <1>4, <1>5 DEF Paginate
    <2> QED
      BY <1>3, <1>6, <2>1
  <1>12. AqWalkRec(v)
    BY <1>3, <1>9, <1>10, <1>11, <1>2 DEF AqWalkRec
  <1>13. /\ AqMatchesIn(aqRows, v) = M
         /\ \A r : /\ AqAlone(aqRows, v, r) = AqAlone(aqRows, w, r)
                   /\ AqPlaceIn(aqRows, v, r) = AqPlaceIn(aqRows, w, r)
    BY <1>1, <1>10 DEF AqMatchesIn, AqAlone, AqPlaceIn
  <1>14. ASSUME w.first = 1, ~ w.torn, NEW r \in w.start, AqAlone(aqRows, w, r), AqPlaceIn(aqRows, w, r) <= to
         PROVE  r \in got
    <2>1. PICK place \in Nat : place = AqPlaceIn(aqRows, w, r)
      BY <1>2, <1>3, AqPlaces
    <2>2. CASE place <= from
      <3>1. r \in w.got
        BY <1>2, <1>4, <1>14, <2>1, <2>2 DEF AqWalkSound
      <3> QED
        BY <1>8, <3>1
    <2>3. CASE ~ (place <= from)
      <3>1. place > from /\ place <= to
        BY <1>14, <2>1, <2>3
      <3>2. r \in {s[i] : i \in {k \in DOMAIN s : k > from /\ k <= to}}
        BY <1>1, <1>2, <1>3, <1>14, <2>1, <3>1, AqPageGives
      <3> QED
        BY <1>4, <1>p, <1>8, <3>2
    <2> QED
      BY <2>2, <2>3
  <1>15. ASSUME w.first = 1, ~ w.torn, pc = "done", NEW r \in w.start, AqAlone(aqRows, w, r) PROVE r \in got
    <2>1. PICK place, all : place = AqPlaceIn(aqRows, w, r) /\ all = Cardinality(M)
      OBVIOUS
    <2>2. place \in Nat /\ all \in Nat /\ place <= all
      BY <1>1, <1>2, <1>3, <2>1, AqPlaces
    <2>3. w.total = all
      BY <1>1, <1>2, <1>15, <2>1 DEF AqWalkSound
    <2>4. place <= to
      BY <1>11, <1>15, <2>2, <2>3
    <2> QED
      BY <1>14, <1>15, <2>1, <2>4
  <1>16. pc = "count" => (v.next - 1) * v.limit = to
    <2>1. pc = "count" => v.next - 1 = w.next
      BY <1>3, <1>10, <1>11
    <2> QED
      BY <1>4, <1>10, <2>1
  <1>17. AqWalkSound(v, aqRows)
    <2>1. v.start \subseteq AqMatchesIn(aqRows, v) /\ (v.pc # "done" => v.next > 0)
      BY <1>3, <1>10, <1>11, <1>13
    <2>2. ASSUME v.first = 1, ~ v.torn, v.pc = "done", NEW r \in v.start, AqAlone(aqRows, v, r) PROVE r \in v.got
      BY <1>10, <1>13, <1>15, <2>2
    <2>3. ASSUME v.first = 1, ~ v.torn, v.pc # "done", NEW r \in v.start, AqAlone(aqRows, v, r),
                 AqPlaceIn(aqRows, v, r) <= (v.next - 1) * v.limit
          PROVE  r \in v.got
      <3>1. AqPlaceIn(aqRows, w, r) <= to
        BY <1>10, <1>11, <1>13, <1>16, <2>3
      <3> QED
        BY <1>10, <1>13, <1>14, <2>3, <3>1
    <2>4. v.pc # "counted"
      BY <1>10, <1>11
    <2> QED
      BY <2>1, <2>2, <2>3, <2>4 DEF AqWalkSound
  <1> QED
    BY <1>8, <1>10, <1>11, <1>12, <1>17 DEF AqWalkGood, AqUnderway

\* Every step leaves the tables and the walk good.
LEMMA AqWalkSteps ==
    ASSUME AqTables, AqWalkGood(aqWalk, aqRows), [AqNext]_aqVars
    PROVE  AqTables' /\ AqWalkGood(aqWalk', aqRows')
  <1>1. CASE UNCHANGED <<aqRows, aqComing, aqWalk>>
    BY <1>1 DEF AqTables
  <1>2. CASE AqWalkStep
    <2>1. AqWalkGood(aqWalk', aqRows)
      BY <1>2, AqWalkStarts, AqWalkCounts, AqWalkSelects DEF AqWalkStep
    <2>2. aqRows' = aqRows /\ aqComing' = aqComing
      BY <1>2 DEF AqWalkStep
    <2> QED
      BY <2>1, <2>2 DEF AqTables
  <1>3. ASSUME NEW t \in DOMAIN aqComing, NEW r \in aqComing[t], AqArrive(t, r)
        PROVE  AqTables' /\ AqWalkGood(aqWalk', aqRows')
    BY <1>3, AqArrives, AqArriveWalk
  <1>4. LiveTicker \/ AqPoolStep \/ (\E q \in aqAsks : AqRequest(q)) \/ (\E c \in aqCache : AqExpire(c))
        \/ UNCHANGED aqVars => UNCHANGED <<aqRows, aqComing, aqWalk>>
    BY DEF LiveTicker, AqPoolStep, AqRequest, AqExpire, aqVars
  <1> QED
    BY <1>1, <1>2, <1>3, <1>4 DEF AqNext

LEMMA AqInvStep ==
    ASSUME AqInv, [AqNext]_aqVars
    PROVE  AqInv'
  <1>1. AqTables' /\ AqWalkGood(aqWalk', aqRows')
    BY AqWalkSteps DEF AqInv
  <1>2. AqDoors' /\ AqWork'
    BY AqDoorsStep, AqWorkStep DEF AqInv
  <1> QED
    BY <1>1, <1>2 DEF AqInv

\* analytics-service, queries, for any rows, requests, limits and jobs: a walk over the pages of a
\* table that grows has every row that was there and shares its time with no other; every answer is
\* the one to its question, whoever filled the cache; no job outlives its connections; and the
\* reconciliation knows every kind of event.
THEOREM AnalyticsQueriesSafe ==
    AqSpec => [](AqTypeOK /\ AqWalkComplete /\ AqAnswersMatch /\ AqJobsEndFirst /\ AqNothingUnknown)
  <1>1. AqInit => AqInv
    BY AqInvInit
  <1>2. AqInv /\ [AqNext]_aqVars => AqInv'
    BY AqInvStep
  <1>3. AqInv => AqTypeOK /\ AqWalkComplete /\ AqAnswersMatch /\ AqJobsEndFirst /\ AqNothingUnknown
    BY AqInvImplies
  <1> QED
    BY <1>1, <1>2, <1>3, PTL DEF AqSpec

=============================================================================
