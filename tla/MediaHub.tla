------------------------------ MODULE MediaHub ------------------------------
(***************************************************************************)
(* media-service: the WebSocket hub.  Each connection has a read and a     *)
(* write pump; NATS callbacks (MhSender) push to a user's connections and  *)
(* a cleaner closes the stale ones.  All of them may close a connection.   *)
(*                                                                         *)
(* A callback takes the user's map under the lock and ranges over it       *)
(* after the unlock, and a send may meet a channel that was closed in      *)
(* between.  The runtime ends the process in both cases (it need not       *)
(* notice the first): mhUp then says why.  Frame contents, deadlines and   *)
(* logging are left out; MhMessage is a notification of one user.          *)
(***************************************************************************)
EXTENDS Integers, Sequences, FiniteSets

CONSTANTS
    MhSock,     \* connections
    MhUser,     \* users with a verified token
    MhSender,   \* NATS callbacks running at a time
    MhBuffer,   \* room in Connection.Send
    MhNotices,  \* bound: notifications
    MhFrames    \* bound: frames read from clients and silences of 90 s

ASSUME MhAssumption ==
    /\ MhBuffer \in Nat \ {0} /\ MhNotices \in Nat /\ MhFrames \in Nat
    /\ "nobody" \notin MhUser \cup MhSock

VARIABLES
    mhConn,     \* Connection and its pumps
    mhTable,    \* Hub.connections
    mhSend,     \* sendToUser calls in progress
    mhStale,    \* connections the cleaner has collected and not closed yet
    mhLeft,     \* notifications, frames and silences still to come
    mhUp        \* "up", or what ended the process

mhVars == <<mhConn, mhTable, mhSend, mhStale, mhLeft, mhUp>>

MhNobody == "nobody"

\* A sendToUser call: the addressee, the user whose map it ranges over (nobody once
\* that map was dropped), the connections it must and those it has visited, the one at hand.
MhIdle == [to |-> MhNobody, on |-> MhNobody, due |-> {}, seen |-> {}, at |-> MhNobody,
           closing |-> FALSE]

\* Connection: the once of closeConnection, Send, LastPing and both pumps.
MhNew == [user |-> MhNobody, once |-> "no", send |-> <<>>, shut |-> FALSE, fresh |-> TRUE,
          read |-> "off", write |-> "off", got |-> {}]

MhMemory(conn, table, send, stale) ==
    /\ conn = [c \in MhSock |-> MhNew]
    /\ table = [u \in MhUser |-> {}]
    /\ send = [s \in MhSender |-> MhIdle]
    /\ stale = {}

MhInit ==
    /\ MhMemory(mhConn, mhTable, mhSend, mhStale)
    /\ mhLeft = [notices |-> MhNotices, frames |-> MhFrames]
    /\ mhUp = "up"

\* The process ends: its memory is gone.
MhDies(why) ==
    /\ mhUp' = why
    /\ MhMemory(mhConn', mhTable', mhSend', mhStale')
    /\ UNCHANGED mhLeft

\* A write to the map of u while the range of a callback moves on is a data race.
MhRaces(u) == \E s \in MhSender : mhSend[s].on = u /\ mhSend[s].at = MhNobody

-----------------------------------------------------------------------------
(* Connections *)

registerConnection(c, u) == mhTable' = [mhTable EXCEPT ![u] = @ \cup {c}]

\* Identity comes from the verified claims: u is never what the client says.
ServeWS(c, u) ==
    /\ mhConn[c].user = MhNobody
    /\ \/ /\ registerConnection(c, u)
          /\ mhConn' = [mhConn EXCEPT ![c] = [@ EXCEPT !.user = u, !.read = "wait", !.write = "wait"]]
          /\ UNCHANGED <<mhSend, mhStale, mhLeft, mhUp>>
       \/ MhRaces(u) /\ MhDies("map race")

\* One of the goroutines is in closeConnection(c).
MhCloses(c) ==
    \/ mhConn[c].read = "close"
    \/ mhConn[c].write = "close"
    \/ \E s \in MhSender : mhSend[s].at = c /\ mhSend[s].closing
    \/ c \in mhStale

MhOnceNot(c) == mhConn[c].once /= "running"

\* closeOnce: the first caller runs the body, the others wait for its end.
MhOnce(c) == mhConn[c].once = "no"

\* A map left empty is dropped: the next connection of the user gets a new one.
MhDropMap(u) == [s \in MhSender |-> IF mhSend[s].on = u THEN [mhSend[s] EXCEPT !.on = MhNobody]
                                                       ELSE mhSend[s]]

unregisterAll(c) == mhTable' = [mhTable EXCEPT ![mhConn[c].user] = {}] /\ UNCHANGED mhSend
unregisterConnection(c) ==
    LET u == mhConn[c].user IN
    /\ mhTable' = [mhTable EXCEPT ![u] = @ \ {c}]
    /\ mhSend' = IF mhTable'[u] = {} THEN MhDropMap(u) ELSE mhSend

MhUnregister(c) ==
    /\ MhCloses(c) /\ MhOnce(c)
    /\ \/ /\ unregisterConnection(c)
          /\ mhConn' = [mhConn EXCEPT ![c].once = "running"]
          /\ UNCHANGED <<mhStale, mhLeft, mhUp>>
       \/ MhRaces(mhConn[c].user) /\ MhDies("map race")

\* close(Send), then the socket: a second close of a channel panics.
closeConnection(c) ==
    /\ mhConn[c].once = "running"
    /\ IF mhConn[c].shut
       THEN MhDies("closed twice")
       ELSE /\ mhConn' = [mhConn EXCEPT ![c].once = "done", ![c].shut = TRUE]
            /\ UNCHANGED <<mhTable, mhSend, mhStale, mhLeft, mhUp>>

-----------------------------------------------------------------------------
(* sendToUser, on the goroutine of a NATS subscription *)

handleNATSMessage(s, u) ==
    /\ mhSend[s] = MhIdle /\ mhLeft.notices > 0
    /\ mhLeft' = [mhLeft EXCEPT !.notices = @ - 1]
    /\ mhSend' = [mhSend EXCEPT ![s] = [MhIdle EXCEPT !.to = u, !.due = mhTable[u],
                         !.on = IF mhTable[u] = {} THEN MhNobody ELSE u]]
    /\ UNCHANGED <<mhConn, mhTable, mhStale, mhUp>>

\* Without a userId the message is dropped.
extractUserID(s) ==
    /\ mhSend[s] = MhIdle /\ mhLeft.notices > 0
    /\ mhLeft' = [mhLeft EXCEPT !.notices = @ - 1]
    /\ UNCHANGED <<mhConn, mhTable, mhSend, mhStale, mhUp>>

MhAheadAny(s) == UNION {mhTable[u] : u \in MhUser} \ mhSend[s].seen

\* What is in the map now and was not visited: the range may yield it, and must if it was
\* there from the start.
MhAhead(s) == IF mhSend[s].on = MhNobody THEN {} ELSE mhTable[mhSend[s].on] \ mhSend[s].seen

MhRange(s) ==
    /\ mhSend[s].to /= MhNobody /\ mhSend[s].at = MhNobody
    /\ \/ \E c \in MhAhead(s) :
             mhSend' = [mhSend EXCEPT ![s].seen = @ \cup {c}, ![s].at = c]
       \/ /\ MhAhead(s) \cap mhSend[s].due = {}
          /\ mhSend' = [mhSend EXCEPT ![s] = MhIdle]
    /\ UNCHANGED <<mhConn, mhTable, mhStale, mhLeft, mhUp>>

\* conn.Send <- data: a closed channel panics, a full one closes the connection.
sendToUser(s) ==
    LET c == mhSend[s].at IN
    /\ c /= MhNobody /\ ~mhSend[s].closing
    /\ \/ mhConn[c].shut /\ MhDies("send on closed")
       \/ /\ ~mhConn[c].shut /\ Len(mhConn[c].send) < MhBuffer
          /\ mhConn' = [mhConn EXCEPT ![c].send = Append(@, mhSend[s].to)]
          /\ mhSend' = [mhSend EXCEPT ![s].at = MhNobody]
          /\ UNCHANGED <<mhTable, mhStale, mhLeft, mhUp>>
       \/ /\ ~mhConn[c].shut /\ Len(mhConn[c].send) = MhBuffer
          /\ mhSend' = [mhSend EXCEPT ![s].closing = TRUE]
          /\ UNCHANGED <<mhConn, mhTable, mhStale, mhLeft, mhUp>>

MhSenderClosed(s) ==
    /\ mhSend[s].closing /\ mhConn[mhSend[s].at].once = "done"
    /\ mhSend' = [mhSend EXCEPT ![s].closing = FALSE, ![s].at = MhNobody]
    /\ UNCHANGED <<mhConn, mhTable, mhStale, mhLeft, mhUp>>

-----------------------------------------------------------------------------
(* The pumps *)

MhPumpOnly == UNCHANGED <<mhTable, mhSend, mhStale, mhUp>>

\* The registered handlers: each answers with one message.
MhReplies == {"ping", "subscribe_delivery"}

\* ReadMessage: an error (always, once the socket is closed) ends the pump; a frame over
\* the rate, a malformed one and one of an unknown type are dropped; ping and
\* subscribe_delivery are answered.
readPump(c) ==
    /\ mhConn[c].read = "wait"
    /\ \/ mhConn' = [mhConn EXCEPT ![c].read = "close"] /\ UNCHANGED mhLeft
       \/ /\ mhConn[c].once /= "done" /\ mhLeft.frames > 0
          /\ mhLeft' = [mhLeft EXCEPT !.frames = @ - 1]
          /\ \E type \in MhReplies \cup {"other"} :
                mhConn' = [mhConn EXCEPT ![c].read = IF type \in MhReplies THEN "reply" ELSE @]
       \/ \* the pong handler runs inside ReadMessage
          /\ mhConn[c].once /= "done" /\ ~mhConn[c].fresh
          /\ mhConn' = [mhConn EXCEPT ![c].fresh = TRUE]
          /\ UNCHANGED mhLeft
    /\ MhPumpOnly

\* c.Send <- response: dropped when the buffer is full, a panic when it is closed.
handleMessage(c) ==
    /\ mhConn[c].read = "reply"
    /\ IF mhConn[c].shut
       THEN MhDies("send on closed")
       ELSE /\ mhConn' = [mhConn EXCEPT ![c].read = "wait",
                 ![c].send = IF Len(@) < MhBuffer THEN Append(@, mhConn[c].user) ELSE @]
            /\ MhPumpOnly /\ UNCHANGED mhLeft

\* A message is written, or the write (of a message or of a ping) fails and ends the pump;
\* so does a closed channel once it is drained.
writePump(c) ==
    /\ mhConn[c].write = "wait"
    /\ \/ /\ mhConn[c].send /= <<>> /\ mhConn[c].once /= "done"
          /\ mhConn' = [mhConn EXCEPT ![c].send = Tail(@), ![c].got = @ \cup {Head(mhConn[c].send)}]
       \/ mhConn' = [mhConn EXCEPT ![c].write = "close"]
    /\ MhPumpOnly /\ UNCHANGED mhLeft

\* The deferred closeConnection has returned.
MhPumpEnds(c) ==
    /\ mhConn[c].once = "done"
    /\ \E p \in {"read", "write"} :
          /\ mhConn[c][p] = "close"
          /\ mhConn' = [mhConn EXCEPT ![c][p] = "done"]
    /\ MhPumpOnly /\ UNCHANGED mhLeft

-----------------------------------------------------------------------------
(* The cleaner; both the ages and the pongs are environment *)

MhAge(c) ==
    /\ mhConn[c].once = "no" /\ mhConn[c].user /= MhNobody /\ mhConn[c].fresh /\ mhLeft.frames > 0
    /\ mhConn' = [mhConn EXCEPT ![c].fresh = FALSE]
    /\ mhLeft' = [mhLeft EXCEPT !.frames = @ - 1]
    /\ MhPumpOnly

cleanupStaleConnections ==
    /\ mhStale = {}
    /\ mhStale' = {c \in UNION {mhTable[u] : u \in MhUser} : ~mhConn[c].fresh}
    /\ mhStale' /= {}
    /\ UNCHANGED <<mhConn, mhTable, mhSend, mhLeft, mhUp>>

MhCleaned(c) ==
    /\ c \in mhStale /\ mhConn[c].once = "done"
    /\ mhStale' = mhStale \ {c}
    /\ UNCHANGED <<mhConn, mhTable, mhSend, mhLeft, mhUp>>

MhNext ==
    /\ mhUp = "up"
    /\ \/ \E c \in MhSock, u \in MhUser : ServeWS(c, u)
       \/ \E s \in MhSender, u \in MhUser : handleNATSMessage(s, u)
       \/ \E s \in MhSender : \/ extractUserID(s) \/ MhRange(s)
                               \/ sendToUser(s) \/ MhSenderClosed(s)
       \/ \E c \in MhSock : \/ MhUnregister(c) \/ closeConnection(c) \/ readPump(c)
                             \/ handleMessage(c) \/ writePump(c) \/ MhPumpEnds(c)
                             \/ MhAge(c) \/ MhCleaned(c)
       \/ cleanupStaleConnections

MhSpec == MhInit /\ [][MhNext]_mhVars

-----------------------------------------------------------------------------
(* Properties *)

\* Connections, the table, the callbacks and the cause of an end are well formed.
MhTypeOK ==
    /\ \A c \in MhSock :
          /\ mhConn[c].user \in MhUser \cup {MhNobody}
          /\ mhConn[c].once \in {"no", "running", "done"}
          /\ mhConn[c].send \in Seq(MhUser) /\ Len(mhConn[c].send) <= MhBuffer
          /\ mhConn[c].read \in {"off", "wait", "reply", "close", "done"}
          /\ mhConn[c].write \in {"off", "wait", "close", "done"}
    /\ mhTable \in [MhUser -> SUBSET MhSock]
    /\ \A s \in MhSender : mhSend[s].at \in MhSock \cup {MhNobody}
    /\ mhStale \subseteq MhSock
    /\ mhUp \in {"up", "map race", "send on closed", "closed twice"}

\* The hub's table is exactly the connections nobody has begun to close: a connection of a
\* user stays reachable when another one of the user is torn down, and a closed one is
\* never kept (registerConnection, unregisterConnection and the four callers of
\* closeConnection).
MhTableIsLive ==
    \A u \in MhUser : mhTable[u] = {c \in MhSock : mhConn[c].user = u /\ mhConn[c].once = "no"}

\* However the pumps, the cleaner and the callbacks race, Send is closed once ("the second
\* caller must not close Send again", hub.go).
MhClosedOnce == mhUp /= "closed twice"

\* A client only ever gets messages addressed to the user of its verified token.
MhOwnMessages == \A c \in MhSock : mhConn[c].got \subseteq {mhConn[c].user}

=============================================================================
