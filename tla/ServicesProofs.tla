--------------------------- MODULE ServicesProofs ---------------------------
(***************************************************************************)
(* What the proofs about single services say of the specification that     *)
(* puts them side by side: a behaviour about one service starts and moves  *)
(* as the service's own specification says, so the inductive invariant of  *)
(* that service holds in it.                                               *)
(***************************************************************************)
EXTENDS MCServices, MediaServiceProofs, MessagingProofs, RequestProofs

\* The media hub keeps its invariant in every behaviour about it.
LEMMA SvMediaHubInv == SvSpec => [](focus = "mh" => MhInv)
  <1> DEFINE I == focus = "mh" => MhInv
  <1>1. SvInit => I
    BY MhInvInit DEF SvInit
  <1>2. I /\ [SvNext]_svVars => I'
    <2> SUFFICES ASSUME I, [SvNext]_svVars, focus' = "mh" PROVE MhInv'
      OBVIOUS
    <2>1. focus = "mh" /\ [MhNext]_mhVars
      BY DEF SvNext, svVars, mhVars
    <2> QED
      BY <2>1, MhInvStep
  <1> QED
    BY <1>1, <1>2, PTL DEF SvSpec

\* RabbitMQ and its clients keep theirs.
LEMMA SvBusInv == SvSpec => [](focus = "rb" => RbInv)
  <1> DEFINE I == focus = "rb" => RbInv
  <1>1. SvInit => I
    BY RbInvInit DEF SvInit
  <1>2. I /\ [SvNext]_svVars => I'
    <2> SUFFICES ASSUME I, [SvNext]_svVars, focus' = "rb" PROVE RbInv'
      OBVIOUS
    <2>1. focus = "rb" /\ [RbNext]_rbVars
      BY DEF SvNext, svVars, rbVars
    <2> QED
      BY <2>1, RbInvStep
  <1> QED
    BY <1>1, <1>2, PTL DEF SvSpec

\* A step about the media is a step of MediaService.
LEMMA SvMediaStep ==
    ASSUME [SvNext]_svVars, focus' = "media" \/ focus = "media"
    PROVE  focus = "media" /\ focus' = "media" /\ [Next]_vars
  BY DEF SvNext, svVars, vars

\* media-service keeps its invariant.
LEMMA SvMediaInv == SvSpec => [](focus = "media" => MsInv)
  <1> DEFINE I == focus = "media" => MsInv
  <1>1. SvInit => I
    BY MsInvInit DEF SvInit
  <1>2. I /\ [SvNext]_svVars => I'
    <2> SUFFICES ASSUME I, [SvNext]_svVars, focus' = "media" PROVE MsInv'
      OBVIOUS
    <2> QED
      BY SvMediaStep, MsInvStep
  <1> QED
    BY <1>1, <1>2, PTL DEF SvSpec

\* The media hub: however the pumps, the cleaner and the NATS callbacks race, the table holds
\* exactly the connections nobody has begun to close, no Send channel is closed twice, and a
\* client gets only messages addressed to its own user.
THEOREM MediaHubHolds == SvSpec => []SvMediaHub
  <1>1. (focus = "mh" => MhInv) => SvMediaHub
    BY MhInvImplies DEF SvMediaHub
  <1> QED
    BY <1>1, SvMediaHubInv, PTL

\* RabbitMQ: a publication that succeeded is kept until it is handled or dead, unless its success
\* was read from the late confirmation of a failed one, of which there are at most as many as
\* failures; a dead message has used up its retries.
THEOREM BusHolds == SvSpec => []SvBus
  <1>1. (focus = "rb" => RbInv) => SvBus
    BY RbInvImplies DEF SvBus
  <1> QED
    BY <1>1, SvBusInv, PTL

\* media-service: nothing is derived from an infected upload that ClamAV has seen in full, one
\* goroutine at a time scans a media, and what the rows list is stored until its deletion is
\* requested.
THEOREM MediaHolds == SvSpec => []SvMedia
  <1>1. (focus = "media" => MsInv) => SvMedia
    BY MsInvImplies DEF SvMedia
  <1> QED
    BY <1>1, SvMediaInv, PTL

\* media-service: no process takes a media's status off allowedTransitions.
THEOREM MediaStatusHolds == SvSpec => SvMediaStatus
  <1>1. MsStepOK => StatusStep
    BY MsForward DEF StatusStep
  <1>2. (focus = "media" => MsInv) /\ [SvNext]_svVars => [focus = "media" => StatusStep]_svVars
    BY <1>1, SvMediaStep, MsInvStep
  <1> QED
    BY <1>2, SvMediaInv, PTL DEF SvSpec, SvMediaStatus

\* notification-service keeps its invariant.
LEMMA SvNotificationInv == SvSpec => [](focus = "no" => NpInv)
  <1> DEFINE I == focus = "no" => NpInv
  <1>1. SvInit => I
    BY NpInvInit DEF SvInit
  <1>2. I /\ [SvNext]_svVars => I'
    <2> SUFFICES ASSUME I, [SvNext]_svVars, focus' = "no" PROVE NpInv'
      OBVIOUS
    <2>1. focus = "no" /\ [NoNext]_noVars
      BY DEF SvNext, svVars, noVars
    <2> QED
      BY <2>1, NpInvStep
  <1> QED
    BY <1>1, <1>2, PTL DEF SvSpec

\* notification-service: a notification that says SENT has gone out on every channel, although
\* its status is derived from and written over by stale copies, and an unfinished delivery has
\* a job, or somebody about to add it, unless an error of the queue or of the database, a
\* restart, or the retry id that the queue refuses left it without one.
THEOREM NotificationHolds == SvSpec => []SvNotification
  <1>1. (focus = "no" => NpInv) => SvNotification
    BY NpInvImplies DEF SvNotification
  <1> QED
    BY <1>1, SvNotificationInv, PTL

\* realtime-service keeps its invariant.
LEMMA SvRealtimeInv == SvSpec => [](focus = "rt" => RgInv)
  <1> DEFINE I == focus = "rt" => RgInv
  <1>1. SvInit => I
    BY RgInvInit DEF SvInit
  <1>2. I /\ [SvNext]_svVars => I'
    <2> SUFFICES ASSUME I, [SvNext]_svVars, focus' = "rt" PROVE RgInv'
      OBVIOUS
    <2>1. focus = "rt" /\ [RtNext]_rtVars
      BY DEF SvNext, svVars, rtVars
    <2> QED
      BY <2>1, RgInvStep
  <1> QED
    BY <1>1, <1>2, PTL DEF SvSpec

\* realtime-service: a live socket is reachable whatever the other sockets of its user do, an
\* event is shown and a command forwarded at most once, and only to those who may see it.
THEOREM RealtimeHolds == SvSpec => []SvRealtime
  <1>1. (focus = "rt" => RgInv) => SvRealtime
    BY RgInvImplies DEF SvRealtime
  <1> QED
    BY <1>1, SvRealtimeInv, PTL

\* The shared Go packages keep theirs.
LEMMA SvPackagesInv == SvSpec => [](focus = "gp" => GgInv)
  <1> DEFINE I == focus = "gp" => GgInv
  <1>1. SvInit => I
    BY GgInvInit DEF SvInit
  <1>2. I /\ [SvNext]_svVars => I'
    <2> SUFFICES ASSUME I, [SvNext]_svVars, focus' = "gp" PROVE GgInv'
      OBVIOUS
    <2>1. focus = "gp" /\ [GpNext]_gpVars
      BY DEF SvNext, svVars, gpVars
    <2> QED
      BY <2>1, GgInvStep
  <1> QED
    BY <1>1, <1>2, PTL DEF SvSpec

\* packages/go: ids with room for their sequence increase, the sliding window lets no more than
\* the limit through, a closed connection stays closed, a bearer token is verified, a gRPC call
\* needs the user and role its metadata claim, and a message passes the guards in their order.
THEOREM PackagesHold == SvSpec => []SvPackages
  <1>1. (focus = "gp" => GgInv) => SvPackages
    BY GgInvImplies DEF SvPackages
  <1> QED
    BY <1>1, SvPackagesInv, PTL

\* search-service keeps both of its invariants.
LEMMA SvSearchInv == SvSpec => [](/\ focus = "se" => SwInv
                                  /\ focus = "sx" => SiInv)
  <1> DEFINE I == (focus = "se" => SwInv) /\ (focus = "sx" => SiInv)
  <1>1. SvInit => I
    BY SwInvInit, SiInvInit DEF SvInit
  <1>2. I /\ [SvNext]_svVars => I'
    <2> SUFFICES ASSUME I, [SvNext]_svVars PROVE I'
      OBVIOUS
    <2>1. ASSUME focus' = "se" PROVE SwInv'
      <3>1. focus = "se" /\ [SeNext]_seVars
        BY <2>1 DEF SvNext, svVars, seVars
      <3> QED
        BY <3>1, SwInvStep
    <2>2. ASSUME focus' = "sx" PROVE SiInv'
      <3>1. focus = "sx" /\ [SxNext]_sxVars
        BY <2>2 DEF SvNext, svVars, sxVars
      <3> QED
        BY <3>1, SiInvStep
    <2> QED
      BY <2>1, <2>2
  <1> QED
    BY <1>1, <1>2, PTL DEF SvSpec

\* search-service: the document of a delivery or of a driver ends up the newest version
\* published, or at least a published one when writes overlapped, an answer stays true of the
\* documents that have not changed since its page was computed, and a replica that found its
\* indices ready answers from the right mapping.
THEOREM SearchHolds == SvSpec => []SvSearch
  <1>1. (focus = "se" => SwInv) /\ (focus = "sx" => SiInv) => SvSearch
    BY SwInvImplies, SiInvImplies DEF SvSearch
  <1> QED
    BY <1>1, SvSearchInv, PTL

\* payment-service's outbox, attempts and reads keep their invariant.
LEMMA SvPaymentInv == SvSpec => [](focus = "po" => PoInv)
  <1> DEFINE I == focus = "po" => PoInv
  <1>1. SvInit => I
    BY PoInvInit DEF SvInit
  <1>2. I /\ [SvNext]_svVars => I'
    <2> SUFFICES ASSUME I, [SvNext]_svVars, focus' = "po" PROVE PoInv'
      OBVIOUS
    <2>1. focus = "po" /\ [PoNext]_poVars
      BY DEF SvNext, svVars, poVars
    <2> QED
      BY <2>1, PoInvStep
  <1> QED
    BY <1>1, <1>2, PTL DEF SvSpec

\* payment-service: a row of the outbox leaves it only after Kafka has its event, paging leaves
\* no hole and, unless a payment arrived between the COUNT and the SELECT of a page, shows every
\* payment there was, and only the asking user's; an attempt that counts as succeeded has an
\* intent at Stripe, and its payment is authorized with that intent or still PENDING.
THEOREM PaymentOperationsHold == SvSpec => []SvPayment
  <1>1. (focus = "po" => PoInv) => SvPayment
    BY PoInvImplies DEF SvPayment
  <1> QED
    BY <1>1, SvPaymentInv, PTL

\* Driver profiles keep theirs.
LEMMA SvDriversInv == SvSpec => [](focus = "dp" => DpInv)
  <1> DEFINE I == focus = "dp" => DpInv
  <1>1. SvInit => I
    BY DpInvInit DEF SvInit
  <1>2. I /\ [SvNext]_svVars => I'
    <2> SUFFICES ASSUME I, [SvNext]_svVars, focus' = "dp" PROVE DpInv'
      OBVIOUS
    <2>1. focus = "dp" /\ [DpNext]_dpVars
      BY DEF SvNext, svVars, dpVars
    <2> QED
      BY <2>1, DpInvStep
  <1> QED
    BY <1>1, <1>2, PTL DEF SvSpec

\* driver-service: a profile has its role and its rating its reviews however registrations,
\* reviews and whole-document saves overlap and fail, paging through reviews leaves no hole,
\* assignments and reviews are shown to their driver, and a search shows nearer drivers first.
THEOREM DriversHold == SvSpec => []SvDrivers
  <1>1. (focus = "dp" => DpInv) => SvDrivers
    BY DpInvImplies DEF SvDrivers
  <1> QED
    BY <1>1, SvDriversInv, PTL

\* media-service's requests and dead letters keep theirs.
LEMMA SvMediaAccessInv == SvSpec => [](focus = "ma" => MaInv)
  <1> DEFINE I == focus = "ma" => MaInv
  <1>1. SvInit => I
    BY MaInvInit DEF SvInit
  <1>2. I /\ [SvNext]_svVars => I'
    <2> SUFFICES ASSUME I, [SvNext]_svVars, focus' = "ma" PROVE MaInv'
      OBVIOUS
    <2>1. focus = "ma" /\ [MaNext]_maVars
      BY DEF SvNext, svVars, maVars
    <2> QED
      BY <2>1, MaInvStep
  <1> QED
    BY <1>1, <1>2, PTL DEF SvSpec

\* media-service: the parts planned for an upload cover it, its type is what its content type
\* says, nobody is given another user's media, and a replay counts what it puts back.
THEOREM MediaAccessHolds == SvSpec => []SvMediaAccess
  <1>1. (focus = "ma" => MaInv) => SvMediaAccess
    BY MaInvImplies DEF SvMediaAccess
  <1> QED
    BY <1>1, SvMediaAccessInv, PTL


\* analytics-service keeps both of its invariants.
LEMMA SvAnalyticsInv == SvSpec => [](/\ focus = "an" => AiInv
                                     /\ focus = "aq" => AqInv)
  <1> DEFINE I == (focus = "an" => AiInv) /\ (focus = "aq" => AqInv)
  <1>1. SvInit => I
    BY AiInvInit, AqInvInit DEF SvInit
  <1>2. I /\ [SvNext]_svVars => I'
    <2> SUFFICES ASSUME I, [SvNext]_svVars PROVE I'
      OBVIOUS
    <2>1. ASSUME focus' = "an" PROVE AiInv'
      <3>1. focus = "an" /\ [AnNext]_anVars
        BY <2>1 DEF SvNext, svVars, anVars
      <3> QED
        BY <3>1, AiInvStep
    <2>2. ASSUME focus' = "aq" PROVE AqInv'
      <3>1. focus = "aq" /\ [AqNext]_aqVars
        BY <2>2 DEF SvNext, svVars, aqVars
      <3> QED
        BY <3>1, AqInvStep
    <2> QED
      BY <2>1, <2>2
  <1> QED
    BY <1>1, <1>2, PTL DEF SvSpec

\* analytics-service: a mark promises its rows, facts never outnumber their raw events, nothing
\* that was committed is unaccounted for, a walk through a table is complete, an answer is of the
\* question that was asked, and the jobs end before what they use.
THEOREM AnalyticsHolds == SvSpec => []SvAnalytics
  <1>1. (focus = "an" => AiInv) /\ (focus = "aq" => AqInv) => SvAnalytics
    BY AiInvImplies, AqInvImplies DEF SvAnalytics
  <1> QED
    BY <1>1, SvAnalyticsInv, PTL

\* What the type invariants of the gateway, of search-service and of the Go packages need more.
SvTyped == /\ focus = "rt" => RvInv
           /\ focus = "se" => SwInv /\ SuInv
           /\ focus = "sx" => SiInv /\ StInv
           /\ focus = "gp" => GgInv /\ GuInv

LEMMA SvTypesInv == SvSpec => []SvTyped
  <1>1. SvInit => SvTyped
    BY RvInvInit, SwInvInit, SuInvInit, SiInvInit, StInvInit, GgInvInit, GuInvInit DEF SvInit, SvTyped
  <1>2. SvTyped /\ [SvNext]_svVars => SvTyped'
    <2> SUFFICES ASSUME SvTyped, [SvNext]_svVars PROVE SvTyped'
      OBVIOUS
    <2> USE DEF SvTyped
    <2>1. ASSUME focus' = "rt" PROVE RvInv'
      <3>1. focus = "rt" /\ [RtNext]_rtVars
        BY <2>1 DEF SvNext, svVars, rtVars
      <3> QED
        BY <3>1, RvInvStep
    <2>2. ASSUME focus' = "se" PROVE SwInv' /\ SuInv'
      <3>1. focus = "se" /\ [SeNext]_seVars
        BY <2>2 DEF SvNext, svVars, seVars
      <3> QED
        BY <3>1, SwInvStep, SuInvStep
    <2>3. ASSUME focus' = "sx" PROVE SiInv' /\ StInv'
      <3>1. focus = "sx" /\ [SxNext]_sxVars
        BY <2>3 DEF SvNext, svVars, sxVars
      <3> QED
        BY <3>1, SiInvStep, StInvStep
    <2>4. ASSUME focus' = "gp" PROVE GgInv' /\ GuInv'
      <3>1. focus = "gp" /\ [GpNext]_gpVars
        BY <2>4 DEF SvNext, svVars, gpVars
      <3> QED
        BY <3>1, GgInvStep, GuInvStep
    <2> QED
      BY <2>1, <2>2, <2>3, <2>4
  <1> QED
    BY <1>1, <1>2, PTL DEF SvSpec

\* The invariants of the others, whose type invariants they imply.
SvKept == /\ focus = "mh" => MhInv
          /\ focus = "rb" => RbInv
          /\ focus = "media" => MsInv
          /\ focus = "no" => NpInv
          /\ focus = "po" => PoInv
          /\ focus = "dp" => DpInv
          /\ focus = "ma" => MaInv
          /\ focus = "an" => AiInv
          /\ focus = "aq" => AqInv

\* Every service of this specification keeps its state well formed: the rows, records, queues,
\* offsets and program counters of its handlers stay in their sets whatever runs at the same
\* time, fails or is delivered again.
THEOREM TypesHold == SvSpec => []SvTypeOK
  <1>1. SvSpec => []SvKept
    <2>1. /\ focus = "mh" => MhInv
          /\ focus = "rb" => RbInv
          /\ focus = "media" => MsInv
          /\ focus = "no" => NpInv
          /\ focus = "po" => PoInv
          /\ focus = "dp" => DpInv
          /\ focus = "ma" => MaInv
          /\ (focus = "an" => AiInv) /\ (focus = "aq" => AqInv)
          => SvKept
      BY DEF SvKept
    <2> QED
      BY <2>1, SvMediaHubInv, SvBusInv, SvMediaInv, SvNotificationInv, SvPaymentInv, SvDriversInv,
         SvMediaAccessInv, SvAnalyticsInv, PTL
  <1>2. SvKept /\ SvTyped => SvTypeOK
    BY MhInvImplies, RbInvImplies, MsInvImplies, NpInvImplies, PoInvImplies, DpInvImplies,
       MaInvImplies, AiInvImplies, AqInvImplies, RvInvImplies, SuInvImplies, StInvImplies,
       GuInvImplies
    DEF SvKept, SvTyped, SvTypeOK
  <1> QED
    BY <1>1, <1>2, SvTypesInv, PTL
=============================================================================
