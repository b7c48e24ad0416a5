----------------------------- MODULE MCServices -----------------------------
(* The instances of the services that are checked one at a time in one run.  *)
(* A behaviour is about the component that `focus` names: its variables      *)
(* start and move as its own specification says, those of the others are     *)
(* Off.  No step involves two of these components, so the run is the union   *)
(* of their state spaces.                                                    *)
EXTENDS MediaService, AnalyticsIngestion, AnalyticsQueries, RabbitBus, SearchIndex,
        SearchOps, NotificationPipeline, MCRealtime, PaymentOperations, DriverProfile,
        MediaHub, MediaAccess, GoPackages, TLC

VARIABLE focus   \* the component this behaviour is about

-----------------------------------------------------------------------------
(* MediaService *)

MediaUpload(kind, infected, valid, delivery) ==
    [kind |-> kind, infected |-> infected, valid |-> valid, delivery |-> delivery]

\* A clean image and a clean video, an infected video, a document of a delivery, a forged file.
Mixed == {MediaUpload("IMAGE", FALSE, TRUE, FALSE), MediaUpload("VIDEO", TRUE, TRUE, FALSE),
          MediaUpload("VIDEO", FALSE, TRUE, FALSE), MediaUpload("DOCUMENT", FALSE, TRUE, TRUE),
          MediaUpload("IMAGE", FALSE, FALSE, FALSE)}

MediaStart(stage, n, f, d) == [stage |-> stage, calls |-> n, faults |-> f, deliveries |-> d]

\* Requests that race, workers that race, a deletion with its worker, and
\* one upload from end to end.
Phases == {MediaStart("new", 2, 1, 0), MediaStart("uploading", 2, 0, 0), MediaStart("uploading", 1, 1, 0),
           MediaStart("uploaded", 0, 1, 4),
           MediaStart("ready", 1, 1, 3), MediaStart("uploading", 1, 0, 2)}

-----------------------------------------------------------------------------
(* AnalyticsIngestion *)

AnMsg(id,type,form) == [id |-> id, type |-> type, form |-> form]
AnRun(d, p, q, f) == [log |-> [deliveries |-> d, payments |-> p], query |-> q, faults |-> f]
AnCreated == AnMsg(1,"delivery.created","ok")
AnCompleted == AnMsg(2,"delivery.completed","unordered")
AnCaptured == AnMsg(3,"payment.captured","ok")
AnOffer == AnMsg(7,"driver.assignment.accepted","ok")
AnRunSet == {AnRun(<<AnCreated, AnCreated>>, <<AnCaptured>>, "platformOverview", 1),
         AnRun(<<AnCreated, AnCompleted>>, <<>>, "deliveryAnalytics", 2),
         AnRun(<<AnMsg(4,"delivery.deleted","ok"), AnMsg(5,"delivery.created","malformed")>>,
             <<AnMsg(6,"payment.refunded","invalid")>>, "paymentAnalytics", 1),
         AnRun(<<AnMsg(8,"driver.available","ok")>>, <<AnOffer, AnMsg(9,"notification.sent","ok")>>, "driverAnalytics", 1)}
AnTopics == {"deliveries","payments"}

-----------------------------------------------------------------------------
(* AnalyticsQueries *)

AqRow(id, kind, at) == [id |-> id, kind |-> kind, at |-> at]
AqV(src, n) == [src |-> src, n |-> n]
AqNoRows == [t \in {"raw_events", "fact_delivery_events", "issues"} |-> {}]
AqWalkOf(table, filter, from, page, limit) ==
    [pc |-> "ask", table |-> table, filter |-> filter, from |-> from, page |-> page, limit |-> limit]
AqIdleRun == [rows |-> AqNoRows, coming |-> AqNoRows, walk |-> AqNoWalk, asks |-> {}, ticks |-> 0]
AqStored == [AqNoRows EXCEPT
    !["raw_events"] = {AqRow(1, "delivery.created", 5), AqRow(2, "payment.captured", 6),
                       AqRow(3, "delivery.created", 7)},
    !["issues"] = {AqRow(1, "ERROR", 5), AqRow(2, "INFO", 5), AqRow(3, "ERROR", 6)}]
AqMore == [AqNoRows EXCEPT !["raw_events"] = {AqRow(4, "delivery.created", 8), AqRow(5, "delivery.created", 6)},
                           !["issues"] = {AqRow(4, "ERROR", 7)}]
AqWalks == {AqWalkOf("raw_events", "", 0, AqV("none", 0), AqV("vars", 1)),
            AqWalkOf("raw_events", "delivery.created", 0, AqV("vars", -1), AqV("literal", 0)),
            AqWalkOf("raw_events", "delivery.created", 6, AqV("literal", -1), AqV("vars", 9)),
            AqWalkOf("raw_events", "payment.completed", 0, AqV("none", 0), AqV("none", 0)),
            AqWalkOf("issues", "", 0, AqV("none", 0), AqV("literal", -2)),
            AqWalkOf("issues", "ERROR", 0, AqV("literal", 2), AqV("vars", 1)),
            AqWalkOf("issues", "FATAL", 0, AqV("none", 0), AqV("vars", 1))}
AqAsk(door, role, op, from, to, gran, filter) ==
    [door |-> door, role |-> role, text |-> "plain", scope |-> "global", op |-> op, from |-> from,
     to |-> to, gran |-> gran, filter |-> filter, limit |-> AqV("none", 0)]
AqAskSets == {
    {AqAsk("graphql", "admin", "paymentAnalytics", 3, 5, "DAY", "STRIPE"),
     AqAsk("graphql", "admin", "paymentAnalytics", 3, 5, "DAY", ""),
     AqAsk("graphql", "admin", "paymentAnalytics", 3, 5, "DAY", "BITCOIN"),
     AqAsk("graphql", "admin", "deliveryAnalytics", 5, 3, "DAY", "d1")},
    {AqAsk("graphql", "user", "platformOverview", 3, 5, "DAY", ""),
     [AqAsk("graphql", "admin", "platformOverview", 3, 5, "DAY", "") EXCEPT !.text = "_service"],
     AqAsk("grpc", "none", "platformOverview", -1, -1, "", ""),
     AqAsk("grpc", "none", "driverAnalytics", -1, 2, "", "d1"),
     AqAsk("grpc", "none", "driverAnalytics", -2, 2, "", "d1")},
    {[AqAsk("graphql", "admin", "topDrivers", 3, 4, "WEEK", "") EXCEPT !.limit = AqV("vars", n)] :
        n \in {-1, 1, 9}} \cup {AqAsk("graphql", "admin", "topDrivers", 0, 9, "HOUR", ""),
                                AqAsk("graphql", "admin", "topDrivers", 3, -1, "HOUR", "")}}
AqWorkRuns == {[AqIdleRun EXCEPT !.ticks = 2, !.coming =
                  [AqNoRows EXCEPT !["raw_events"] = {AqRow(1, "delivery.created", 8), AqRow(2, k, at)},
                                   !["fact_delivery_events"] = {AqRow(1, "delivery.created", 8)}]] :
                  k \in {"payment.completed"}, at \in {8, 4}}
AqInstances == {[AqIdleRun EXCEPT !.rows = AqStored, !.coming = AqMore, !.walk = w] : w \in AqWalks}
         \cup {[AqIdleRun EXCEPT !.asks = a] : a \in AqAskSets} \cup AqWorkRuns

-----------------------------------------------------------------------------
(* SearchIndex *)

SeEv(e, kind, op, ver, tag, num) ==
    [ent |-> e, kind |-> kind, op |-> op, ver |-> ver, file |-> op = "named", tag |-> tag, num |-> num]
SeEnts == {"a", "b", "c"}
SeRanks == [a |-> 1, b |-> 2, c |-> 3]
SeEmpty == [e \in SeEnts |-> [ver |-> -1]]
SeShelf == [e \in SeEnts |-> [ver |-> 1, kind |-> IF e = "c" THEN "driver" ELSE "delivery", tag |-> "AVAILABLE", num |-> 1, file |-> FALSE]]
SeQ(kind, tag, least, geo, cur) == [kind |-> kind, tag |-> tag, least |-> least, geo |-> geo, cur |-> cur]
SeAll == {SeQ("delivery", "", 0, FALSE, <<>>), SeQ("delivery", "", 0, FALSE, <<1, 1>>),
          SeQ("driver", "", 1, TRUE, <<>>), SeQ("delivery", "", 1, TRUE, <<>>),
          SeQ("driver", "AVAILABLE", 1, FALSE, <<>>),
          SeQ("media", "", 0, FALSE, <<>>), SeQ("user", "", 0, FALSE, <<>>)}
SeC1 == SeEv("a", "delivery", "named", 1, "CREATED", 2)
SeC2 == SeEv("a", "delivery", "upsert", 2, "ASSIGNED", 2)
SeC3 == SeEv("a", "delivery", "upsert", 3, "DONE", 2)
SeRunSet == {
  [log |-> [t1 |-> <<SeC1>>, t2 |-> <<SeC2, SeC3>>], queue |-> {SeC1}, docs |-> SeEmpty, faults |-> 2, pages |-> 0],
  [log |-> [t1 |-> <<SeEv("c", "driver", "named", 1, "BUSY", 1)>>, t2 |-> <<SeEv("c", "driver", "delete", 2, "", 1)>>],
   queue |-> {SeEv("c", "driver", "named", 1, "BUSY", 1)}, docs |-> SeEmpty, faults |-> 3, pages |-> 0],
  [log |-> [t1 |-> <<SeEv("b", "media", "named", 1, "UPLOADING", 1), SeEv("b", "media", "upsert", 1, "READY", 1)>>,
            t2 |-> <<SeEv("c", "user", "upsert", 1, "driver", 1)>>],
   queue |-> {}, docs |-> SeEmpty, faults |-> 1, pages |-> 1],
  [log |-> [t1 |-> <<SeEv("a", "delivery", "upsert", 2, "AVAILABLE", 3)>>, t2 |-> <<>>],
   queue |-> {SeEv("b", "delivery", "delete", 2, "", 1)},
   docs |-> SeShelf, faults |-> 0, pages |-> 2]}

-----------------------------------------------------------------------------
(* NotificationPipeline *)

NoNames == [k |-> "kafka", r1 |-> "rabbitmq", r2 |-> "rabbitmq"]
NoR(k, r1, r2, p, s, x, rd, rs, f) ==
   [inbox |-> [k |-> k, r1 |-> r1, r2 |-> r2], prefs |-> p, scheduled |-> s,
    expires |-> x, reads |-> rd, restarts |-> rs, faults |-> f]
NoNone == [ch \in {} |-> TRUE]
NoRunSet == { NoR(<<"e">>, <<>>, <<>>, [email |-> TRUE, realtime |-> TRUE], TRUE, 0, 1, 0, 1),
              NoR(<<"e">>, <<>>, <<>>, [email |-> TRUE, sms |-> FALSE], TRUE, 1, 1, 0, 2),
              NoR(<<"e">>, <<>>, <<>>, [realtime |-> TRUE], FALSE, 2, 0, 0, 1),
              NoR(<<"e", "e">>, <<>>, <<>>, [sms |-> TRUE], FALSE, 0, 0, 1, 1),
              NoR(<<>>, <<"pw">>, <<"pw">>, [push |-> FALSE], FALSE, 0, 0, 0, 0),
              NoR(<<"e">>, <<>>, <<>>, [push |-> FALSE], FALSE, 0, 0, 0, 0),
              NoR(<<"e">>, <<>>, <<>>, NoNone, FALSE, 0, 0, 0, 2)}

-----------------------------------------------------------------------------
(* PaymentOperations *)

PoQ(u, k) == [user |-> u, key |-> k]
PoR(on, rows, q, rd, w, p, c, f) == [on |-> on, rows |-> rows, requests |-> q, reads |-> rd, walks |-> w, pays |-> p, crashes |-> c, faults |-> f]
PoG(h, t, p, n, g) == [header |-> h, token |-> t, p |-> p, typename |-> n, grpc |-> g]
PoW(u, l) == [user |-> u, limit |-> l]
PoRunSet == {PoR({"boot"}, <<>>, <<>>, <<>>, <<>>, 0, 1, 4),
             PoR({"outbox"}, <<"payment.created", "payment.completed", "payment.authorized">>, <<>>, <<>>, <<>>, 0, 1, 2),
             PoR({"attempts"}, <<>>, <<PoQ("u1", "k1"), PoQ("u1", "k1")>>, <<>>, <<>>, 1, 1, 1),
             PoR({"outbox"}, <<>>, <<PoQ("u1", "k1")>>, <<>>, <<>>, 0, 0, 1),
             PoR({}, <<>>, <<PoQ("u1", "k1"), PoQ("u2", "k2"), PoQ("u1", "k3")>>,
                 <<PoG("u1", "", 2, FALSE, FALSE), PoG("u2", "bad", 0, FALSE, FALSE), PoG("", "bad", 1, FALSE, FALSE),
                   PoG("", "u2", 2, FALSE, FALSE), PoG("u1", "", 1, TRUE, FALSE), PoG("", "", 1, FALSE, TRUE)>>, <<PoW("u1", 1), PoW("admin", 3), PoW("admin", 2)>>, 0, 0, 0),
             PoR({}, <<>>, <<PoQ("u1", "k1"), PoQ("u1", "k2")>>, <<>>, <<PoW("u1", 1)>>, 0, 1, 1)}

-----------------------------------------------------------------------------
(* DriverProfile *)

DpD(u, s, b) == [DpNewDoc(u, TRUE) EXCEPT !.status = s, !.blocked = b]
DpRoles == [u \in {"u1", "u2", "u3"} |-> IF u = "u3" THEN "user" ELSE "driver"]
DpX(c, d, a) == [customer |-> c, driver |-> d, driverUser |-> IF c = "u2" THEN "u1" ELSE "", assigned |-> a]
DpQ(op) == [op |-> op, user |-> "", admin |-> FALSE, target |-> "", d |-> 0, x |-> "", stars |-> 0,
            radius |-> 0, kind |-> "", limit |-> 0, grpc |-> FALSE, what |-> ""]
DpReg(u, a, t) == [DpQ("register") EXCEPT !.user = u, !.admin = a, !.target = t]
DpRate(u, d, x, s) == [DpQ("rate") EXCEPT !.user = u, !.d = d, !.x = x, !.stars = s]
DpBlk(d) == [DpQ("block") EXCEPT !.admin = TRUE, !.d = d]
DpFind(rad, kind, l, g, x) == [DpQ("search") EXCEPT !.radius = rad, !.kind = kind, !.limit = l, !.grpc = g, !.x = x]
DpAsk(w, u, a, d, x) == [DpQ("read") EXCEPT !.what = w, !.user = u, !.admin = a, !.d = d, !.x = x]
DpPages(u, a, d, l) == [DpQ("reviews") EXCEPT !.user = u, !.admin = a, !.d = d, !.limit = l]
DpR(docs, roles, geo, del, todo, f, rs) ==
    [docs |-> docs, roles |-> roles, geo |-> geo, delivery |-> del, todo |-> todo, faults |-> f, restarts |-> rs]
DpTwo == <<DpD("u1", "AVAILABLE", FALSE), DpD("u2", "AVAILABLE", FALSE)>>
DpX1 == "x1" :> DpX("u3", 1, 1) @@ "x2" :> DpX("u3", 0, 1) @@ "x3" :> DpX("u3", 2, 2) @@ "x4" :> DpX("u2", 0, 0) @@ "x5" :> DpX("u3", 9, 0)
DpRunSet ==
    {DpR(<<>>, [u \in {"u1", "u2"} |-> "user"], <<>>, DpX1,
         <<DpReg("u1", FALSE, ""), DpReg("u1", TRUE, "u1"), DpReg("", FALSE, "")>>, 2, 1),
     DpR(DpTwo, DpRoles, <<>>, DpX1,
         <<DpRate("u3", 1, "x1", 5), DpRate("u3", 1, "x1", 4), DpBlk(1), DpRate("u3", 2, "x3", 3), DpRate("u3", 9, "x5", 3), DpQ("block")>>, 1, 1),
     DpR(DpTwo, DpRoles, <<>>, DpX1,
         <<DpRate("u3", 1, "x1", 5), DpRate("u3", 1, "x2", 4), DpRate("u1", 1, "x3", 3), DpRate("u3", 1, "x3", 3), DpRate("u2", 1, "x4", 2), DpRate("", 1, "x1", 0),
           DpPages("u1", FALSE, 1, 1), DpPages("u1", FALSE, 2, 1)>>, 0, 0),
     DpR(DpTwo, DpRoles, <<>>, DpX1,
         <<DpRate("u3", 1, "x1", 5), DpPages("u1", FALSE, 1, 1), DpPages("u9", TRUE, 9, 1)>>, 1, 0),
     DpR(<<DpD("u1", "AVAILABLE", FALSE), DpD("u2", "BUSY", FALSE), DpD("u3", "AVAILABLE", FALSE)>>,
         [u \in {"u1", "u2", "u3"} |-> "driver"], 3 :> 1 @@ 2 :> 2 @@ 1 :> 3, DpX1,
         <<DpReg("u9", FALSE, ""), DpFind(5, "", 0, FALSE, "x"), DpBlk(3), DpFind(2, "", 1, FALSE, "x"), DpFind(5, "CAR", 0, FALSE, "x"),
           DpFind(0, "", 0, TRUE, "x"), DpFind(2, "VAN", 0, TRUE, ""), DpQ("heartbeat")>>, 0, 0),
     DpR(DpTwo, DpRoles, <<>>, DpX1,
         <<DpAsk("driver", "u3", FALSE, 1, ""), DpAsk("me", "u1", FALSE, 0, ""), DpAsk("me", "", FALSE, 0, ""),
           DpAsk("active", "u2", FALSE, 1, ""), DpAsk("active", "u1", FALSE, 0, ""), DpAsk("active", "u3", FALSE, 0, ""),
           DpAsk("status", "u3", FALSE, 2, ""), DpAsk("status", "u3", TRUE, 2, ""), DpAsk("status", "u3", TRUE, 3, ""),
           DpAsk("assignment", "u1", FALSE, 0, "x1"), DpAsk("assignment", "u2", FALSE, 0, "x1"),
           DpAsk("assignment", "u2", FALSE, 0, "x4"), DpAsk("attempts", "u1", FALSE, 0, "x1"),
           DpAsk("attempts", "u1", TRUE, 0, "x1"), DpAsk("open", "u1", FALSE, 0, ""), DpAsk("open", "u3", FALSE, 0, ""),
           DpAsk("get", "", FALSE, 1, ""), DpAsk("get", "", FALSE, 0, ""), DpAsk("validate", "u1", FALSE, 0, ""),
           DpAsk("validate", "u9", FALSE, 3, "")>>, 0, 0)}

-----------------------------------------------------------------------------
(* MediaAccess *)

MaCt(t, s) == [type |-> t, spelling |-> s]
MaUploadSet ==
    {[size |-> n, min |-> 5, ct |-> MaCt("jpeg", "exact"), ext |-> ".jpg", bytes |-> "jpeg", sum |-> "right"] : n \in 0..41}
    \cup [size : {3}, min : {4}, ct : [type : MaTypes \cup {"exe"}, spelling : {"exact", "upper", "param", "blank"}],
          ext : {"", ".jpg", ".mp4", ".pdf"}, bytes : {"jpeg", "mp4", "junk"}, sum : {"", "wrong"}]
MaMkRow(o, s, v) == [owner |-> o, status |-> s, versions |-> v, total |-> 3, done |-> {1, 3}]
MaRowSet == [f1 |-> MaMkRow("u1", "READY", {"thumbnail"}), f2 |-> MaMkRow("u1", "QUARANTINED", {}),
             f3 |-> MaMkRow("u2", "SCANNING", {}), f4 |-> MaMkRow("u1", "DELETED", {})]
MaReadSet ==
    [op : {"media", "status", "url", "ResolveMediaUrl", "GetMedia"}, user : {"", "u1", "u2"}, role : {"user", "admin"},
     id : {"f1", "f2", "f3", "f4", "f9"}, claimed : {"", "u2"}, version : {"", "thumbnail"}, limit : {0}, cursor : {""}]
    \cup [op : {"list"}, user : {"", "u1", "u2"}, role : {"user", "admin"}, id : {"", "u1", "u2"}, claimed : {""},
          version : {""}, limit : {0, 1, 3, 4, 200}, cursor : {"", "x"}]
    \cup [op : {"quota"}, user : {"", "u1"}, role : {"user"}, id : {""}, claimed : {""}, version : {""}, limit : {0, 50}, cursor : {""}]
MaOrd == <<"f4", "f3", "f2", "f1">>

-----------------------------------------------------------------------------
(* GoPackages *)

GpTokenSet == [carried : {"bearer", "none"}, alg : {"HS256", "none"}, signed : BOOLEAN, exp : {0, 1, 9},
               sub : {"", "u1"}, id : {"", "u2"}, role : {"", "user", "admin"}]
GpMetadataSet == [user : {"", "u1"}, role : {"", "admin", "driver", "guest"}]
GpMessageSet == [header : {"", "good", "bad"}, query : {"", "good"}, frame : {"typed", "untyped"}, action : {"", "location"}, limiter : {"free", "full", "error"}, valid : BOOLEAN]
GpReqs == [c \in GpCaller |-> [user |-> IF c = "q3" THEN "" ELSE "u1", forwarded |-> IF c = "q1" THEN "a" ELSE "", peer |-> "b"]]

-----------------------------------------------------------------------------
(* One component at a time *)

Off == "off"

MediaOff ==
    /\ content = Off /\ status = Off /\ session = Off /\ multipart = Off
    /\ files = Off /\ versions = Off /\ lock = Off /\ keys = Off /\ quota = Off
    /\ outbox = Off /\ sent = Off /\ queue = Off /\ job = Off /\ task = Off
    /\ relay = Off /\ sweep = Off /\ calls = Off /\ faults = Off /\ deliveries = Off
    /\ unscanned = Off
AnOff ==
    /\ anLog = Off /\ anCommitted = Off /\ anReader = Off /\ anPending = Off
    /\ anFlush = Off /\ anRows = Off /\ anSeen = Off /\ anDead = Off /\ anCache = Off
    /\ anUp = Off /\ anLost = Off /\ anFaults = Off
AqOff ==
    /\ aqRows = Off /\ aqComing = Off /\ aqWalk = Off /\ aqAsks = Off /\ aqCache = Off
    /\ aqGiven = Off /\ aqMain = Off /\ aqJob = Off /\ aqPass = Off /\ aqTicks = Off
RbOff ==
    /\ rbBy = Off /\ rbPub = Off /\ rbCopies = Off /\ rbHold = Off /\ rbChan = Off
    /\ rbHandled = Off /\ rbFailures = Off /\ rbBreaker = Off /\ rbFaults = Off
    /\ rbStale = Off /\ rbMisread = Off
SeOff ==
    /\ seRun = Off /\ seLog = Off /\ seQueue = Off /\ seWork = Off /\ seDocs = Off
    /\ seDead = Off /\ seLost = Off /\ seRaced = Off /\ seCache = Off /\ seAsk = Off
    /\ seView = Off
SxOff ==
    /\ sxMapped = Off /\ sxAlias = Off /\ sxPlain = Off /\ sxWork = Off
    /\ sxAnswer = Off /\ sxBudget = Off
NoOff ==
    /\ noRun = Off /\ noH = Off /\ noInbox = Off /\ noNotif = Off /\ noDel = Off
    /\ noJob = Off /\ noSent = Off /\ noSweep = Off /\ noExpire = Off /\ noOut = Off
    /\ noBroken = Off
RtOff ==
    /\ rtRun = Off /\ rtSock = Off /\ rtRegistry = Off /\ rtRedis = Off
    /\ rtPres = Off /\ rtGeo = Off /\ rtSubs = Off /\ rtH = Off /\ rtClaim = Off
    /\ rtFwd = Off /\ rtCache = Off /\ rtCircuit = Off /\ rtK = Off /\ rtOff = Off
    /\ rtSeen = Off /\ rtInbox = Off /\ rtGot = Off /\ rtFaulted = Off
PoOff ==
    /\ poRun = Off /\ poDb = Off /\ poBoot = Off /\ poPay = Off /\ poAtt = Off
    /\ poIntent = Off /\ poCall = Off /\ poOut = Off /\ poTopic = Off /\ poPub = Off
    /\ poRec = Off /\ poWalk = Off
DpOff ==
    /\ dpRun = Off /\ dpDoc = Off /\ dpRole = Off /\ dpRev = Off /\ dpMemo = Off
    /\ dpJob = Off /\ dpSaid = Off /\ dpWalk = Off /\ dpMade = Off
MhOff ==
    /\ mhConn = Off /\ mhTable = Off /\ mhSend = Off /\ mhStale = Off /\ mhLeft = Off
    /\ mhUp = Off
MaOff ==
    /\ maAns = Off /\ maDead = Off /\ maReplay = Off /\ maLeft = Off
GpOff ==
    /\ gpPart = Off /\ gpClock = Off /\ gpFlake = Off /\ gpIssued = Off
    /\ gpCall = Off /\ gpSet = Off /\ gpAllowed = Off /\ gpGo = Off /\ gpLink = Off
    /\ gpDoor = Off

SvInit ==
    \/ /\ focus = "media" /\ Init
       /\ AnOff /\ AqOff /\ RbOff /\ SeOff /\ SxOff /\ NoOff /\ RtOff /\ PoOff
       /\ DpOff /\ MhOff /\ MaOff /\ GpOff
    \/ /\ focus = "an" /\ AnInit
       /\ MediaOff /\ AqOff /\ RbOff /\ SeOff /\ SxOff /\ NoOff /\ RtOff /\ PoOff
       /\ DpOff /\ MhOff /\ MaOff /\ GpOff
    \/ /\ focus = "aq" /\ AqInit
       /\ MediaOff /\ AnOff /\ RbOff /\ SeOff /\ SxOff /\ NoOff /\ RtOff /\ PoOff
       /\ DpOff /\ MhOff /\ MaOff /\ GpOff
    \/ /\ focus = "rb" /\ RbInit
       /\ MediaOff /\ AnOff /\ AqOff /\ SeOff /\ SxOff /\ NoOff /\ RtOff /\ PoOff
       /\ DpOff /\ MhOff /\ MaOff /\ GpOff
    \/ /\ focus = "se" /\ SeInit
       /\ MediaOff /\ AnOff /\ AqOff /\ RbOff /\ SxOff /\ NoOff /\ RtOff /\ PoOff
       /\ DpOff /\ MhOff /\ MaOff /\ GpOff
    \/ /\ focus = "sx" /\ SxInit
       /\ MediaOff /\ AnOff /\ AqOff /\ RbOff /\ SeOff /\ NoOff /\ RtOff /\ PoOff
       /\ DpOff /\ MhOff /\ MaOff /\ GpOff
    \/ /\ focus = "no" /\ NoInit
       /\ MediaOff /\ AnOff /\ AqOff /\ RbOff /\ SeOff /\ SxOff /\ RtOff /\ PoOff
       /\ DpOff /\ MhOff /\ MaOff /\ GpOff
    \/ /\ focus = "rt" /\ RtInit
       /\ MediaOff /\ AnOff /\ AqOff /\ RbOff /\ SeOff /\ SxOff /\ NoOff /\ PoOff
       /\ DpOff /\ MhOff /\ MaOff /\ GpOff
    \/ /\ focus = "po" /\ PoInit
       /\ MediaOff /\ AnOff /\ AqOff /\ RbOff /\ SeOff /\ SxOff /\ NoOff /\ RtOff
       /\ DpOff /\ MhOff /\ MaOff /\ GpOff
    \/ /\ focus = "dp" /\ DpInit
       /\ MediaOff /\ AnOff /\ AqOff /\ RbOff /\ SeOff /\ SxOff /\ NoOff /\ RtOff
       /\ PoOff /\ MhOff /\ MaOff /\ GpOff
    \/ /\ focus = "mh" /\ MhInit
       /\ MediaOff /\ AnOff /\ AqOff /\ RbOff /\ SeOff /\ SxOff /\ NoOff /\ RtOff
       /\ PoOff /\ DpOff /\ MaOff /\ GpOff
    \/ /\ focus = "ma" /\ MaInit
       /\ MediaOff /\ AnOff /\ AqOff /\ RbOff /\ SeOff /\ SxOff /\ NoOff /\ RtOff
       /\ PoOff /\ DpOff /\ MhOff /\ GpOff
    \/ /\ focus = "gp" /\ GpInit
       /\ MediaOff /\ AnOff /\ AqOff /\ RbOff /\ SeOff /\ SxOff /\ NoOff /\ RtOff
       /\ PoOff /\ DpOff /\ MhOff /\ MaOff

SvNext ==
    /\ UNCHANGED focus
    /\ \/ /\ focus = "media" /\ Next
          /\ UNCHANGED <<anVars, aqVars, rbVars, seVars, sxVars, noVars, rtVars,
                         poVars, dpVars, mhVars, maVars,
                         gpVars>>
       \/ /\ focus = "an" /\ AnNext
          /\ UNCHANGED <<vars, aqVars, rbVars, seVars, sxVars, noVars, rtVars,
                         poVars, dpVars, mhVars, maVars,
                         gpVars>>
       \/ /\ focus = "aq" /\ AqNext
          /\ UNCHANGED <<vars, anVars, rbVars, seVars, sxVars, noVars, rtVars,
                         poVars, dpVars, mhVars, maVars,
                         gpVars>>
       \/ /\ focus = "rb" /\ RbNext
          /\ UNCHANGED <<vars, anVars, aqVars, seVars, sxVars, noVars, rtVars,
                         poVars, dpVars, mhVars, maVars,
                         gpVars>>
       \/ /\ focus = "se" /\ SeNext
          /\ UNCHANGED <<vars, anVars, aqVars, rbVars, sxVars, noVars, rtVars,
                         poVars, dpVars, mhVars, maVars,
                         gpVars>>
       \/ /\ focus = "sx" /\ SxNext
          /\ UNCHANGED <<vars, anVars, aqVars, rbVars, seVars, noVars, rtVars,
                         poVars, dpVars, mhVars, maVars,
                         gpVars>>
       \/ /\ focus = "no" /\ NoNext
          /\ UNCHANGED <<vars, anVars, aqVars, rbVars, seVars, sxVars, rtVars,
                         poVars, dpVars, mhVars, maVars,
                         gpVars>>
       \/ /\ focus = "rt" /\ RtNext
          /\ UNCHANGED <<vars, anVars, aqVars, rbVars, seVars, sxVars, noVars,
                         poVars, dpVars, mhVars, maVars,
                         gpVars>>
       \/ /\ focus = "po" /\ PoNext
          /\ UNCHANGED <<vars, anVars, aqVars, rbVars, seVars, sxVars, noVars,
                         rtVars, dpVars, mhVars, maVars,
                         gpVars>>
       \/ /\ focus = "dp" /\ DpNext
          /\ UNCHANGED <<vars, anVars, aqVars, rbVars, seVars, sxVars, noVars,
                         rtVars, poVars, mhVars, maVars,
                         gpVars>>
       \/ /\ focus = "mh" /\ MhNext
          /\ UNCHANGED <<vars, anVars, aqVars, rbVars, seVars, sxVars, noVars,
                         rtVars, poVars, dpVars, maVars,
                         gpVars>>
       \/ /\ focus = "ma" /\ MaNext
          /\ UNCHANGED <<vars, anVars, aqVars, rbVars, seVars, sxVars, noVars,
                         rtVars, poVars, dpVars, mhVars,
                         gpVars>>
       \/ /\ focus = "gp" /\ GpNext
          /\ UNCHANGED <<vars, anVars, aqVars, rbVars, seVars, sxVars, noVars,
                         rtVars, poVars, dpVars, mhVars,
                         maVars>>

svVars == <<focus, vars, anVars, aqVars, rbVars, seVars, sxVars, noVars, rtVars, poVars,
            dpVars, mhVars, maVars, gpVars>>

SvSpec == SvInit /\ [][SvNext]_svVars

\* Clients, sockets and goroutines, slots and users of the hub: sets whose
\* members the components do not tell apart.
SvSymmetry == Permutations(Client) \cup Permutations(Slot)

-----------------------------------------------------------------------------
(* Properties: those of the component in focus *)

\* The type invariant of the component in focus.
SvTypeOK ==
    /\ focus = "media" => TypeOK
    /\ focus = "an" => AnTypeOK
    /\ focus = "aq" => AqTypeOK
    /\ focus = "rb" => RbTypeOK
    /\ focus = "se" => SeTypeOK
    /\ focus = "sx" => SxTypeOK
    /\ focus = "no" => NoTypeOK
    /\ focus = "rt" => RtTypeOK
    /\ focus = "po" => PoTypeOK
    /\ focus = "dp" => DpTypeOK
    /\ focus = "mh" => MhTypeOK
    /\ focus = "ma" => MaTypeOK
    /\ focus = "gp" => GpTypeOK

\* Media: an infected file that ClamAV has seen in full is never offered, a listed
\* one is stored, and one worker at a time scans it.
SvMedia == focus = "media" => InfectedContained /\ ScannedByOne /\ ListedIsStored

\* Media: requests, workers and the reconciliation move the status of a media
\* only along allowedTransitions, although none of them but deleteMedia consults it.
SvMediaStatus == [][focus = "media" => StatusStep]_svVars

\* Analytics: what is marked as processed is stored, facts are traceable to
\* raw events, a committed event is accounted for; a walk through a table is
\* complete, answers match their questions, and the jobs end before what they use.
SvAnalytics ==
    /\ focus = "an" => AnSeenIsStored /\ AnFactsAreTraceable /\ AnAccounted
    /\ focus = "aq" => AqWalkComplete /\ AqAnswersMatch /\ AqJobsEndFirst /\ AqNothingUnknown

\* RabbitMQ: a published message is kept until it is handled or dead, unless its
\* publisher took a late confirmation of a failed one for its own, which happens
\* at most once for each failure; a dead message was tried as often as it should.
SvBus == focus = "rb" => RbConfirmedIsKept /\ RbDeadWasRetried

\* Search: the newest version of a document wins, an answer is true of what has
\* not changed since its page was computed, and a
\* replica that is ready is served by the indices with their mappings.
SvSearch ==
    /\ focus = "se" => SeNewestWins /\ SePagesAreTrue
    /\ focus = "sx" => SxReadyIsServed

\* Notifications: one that says SENT went out on every channel, and a delivery
\* that is not finished has a job unless an error or a restart has lost it.
SvNotification == focus = "no" => NoSentIsReal /\ NoUnfinishedHasJob

\* Realtime: a live socket is reachable, an event is shown at most once and
\* only to the parties of its delivery.
SvRealtime == focus = "rt" => RtLiveIsReachable /\ RtAtMostOnce /\ RtOnlyParties

\* Payment operations: no event is lost, pages leave no hole, a success has its intent at Stripe.
SvPayment == focus = "po" => PoNothingLost /\ PoWalkComplete /\ PoSuccessIsBacked

\* Drivers: profiles have the role, ratings their reviews, pages leave no hole,
\* assignments and reviews stay private, and the nearest driver comes first.
SvDrivers ==
    focus = "dp" => /\ DpProfileHasRole /\ DpRatingBacked /\ DpWalkComplete
                    /\ DpPrivate /\ DpNearestFirst

\* The media hub: its tables hold live sockets, a channel is closed once,
\* and a client sees only its own messages.
SvMediaHub == focus = "mh" => MhTableIsLive /\ MhClosedOnce /\ MhOwnMessages

\* Media requests: the parts cover the file, a type is what it claims, media
\* stays private, and a replay counts what it replays.
SvMediaAccess ==
    focus = "ma" => MaPartsCover /\ MaTypeIsTrue /\ MaPrivate /\ MaReplayCounts

\* Shared packages: identifiers with room for their sequence increase, the limiter
\* holds, a closed connection stays closed, and the doors of HTTP, gRPC and
\* WebSocket let in whom they should.
SvPackages ==
    focus = "gp" => GpIdsIncrease /\ GpWithinLimit /\ GpClosedStays /\ GpDoorHolds

=============================================================================
