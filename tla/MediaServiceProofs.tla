------------------------- MODULE MediaServiceProofs -------------------------
(***************************************************************************)
(* Proofs about media-service.  MediaService: for any number of uploads,   *)
(* requests and worker goroutines, whatever the uploads contain, wherever  *)
(* they start and however many calls fail, locks expire and replicas       *)
(* crash.  MediaHub: for any number of connections, users and callbacks    *)
(* and any size of the Send buffer.  MediaAccess: for any uploads and      *)
(* requests, any media and any dead letters.                               *)
(*                                                                         *)
(* No process of media-service holds anything but what it has read, so the *)
(* invariant says what its program counter still guarantees: MsJobOK of a  *)
(* request, MsTaskOK of a goroutine.  These survive the steps of all the   *)
(* others because rows and objects only move forward (MsStepOK): a media   *)
(* never leaves DELETING and DELETED, never returns to UPLOADED, and its   *)
(* objects are removed only in DELETING and DELETED.                       *)
(***************************************************************************)
EXTENDS MediaService, MediaHub, MediaAccess, FiniteSetTheorems, SequenceTheorems, TLAPS

\* The media is to be deleted, for good.
MsGone(m) == status[m] \in {"DELETING", "DELETED"}

\* Not known to be infected, or let through without a verdict.
MsClean(m) == content[m].infected => m \in unscanned

\* What comes before the scan.
MsEarly == {None, "PENDING", "UPLOADING", "UPLOADED"}

\* The topic media.scan.completed is for these.
MsDerivers == {"image", "video", "compression", "metadata"}

\* The transitions the code makes: nothing moves a media from DELETING to FAILED.
MsTaken == allowedTransitions \ {<<"DELETING", "FAILED">>}

MsSession == [state : UploadStatus \cup {None, "PARTIAL"}, expired : BOOLEAN,
              renewed : BOOLEAN, listed : BOOLEAN]
MsJob == [op : {None, "create", "complete", "abort", "renew", "delete"}, m : Media \cup {None},
          at : Step0, read : MediaStatus \cup {None}]
MsTask == [op : Group \cup {None}, m : Media \cup {None}, read : {None},
           at : {"idle", "start", "scan", "found", "clean", "announce", "ready", "put", "record",
                 "mark", "bytes", "error"}]

MsTypes ==
    /\ content \in [Media -> Contents]
    /\ status \in [Media -> MediaStatus \cup {None}]
    /\ session \in [Media -> MsSession]
    /\ multipart \in [Media -> {None, "open", "filled", "done", "aborted"}]
    /\ files \in [Media -> SUBSET {"original", "truncated", "image", "video", "compression"}]
    /\ versions \in [Media -> SUBSET {"image", "video", "compression", "metadata"}]
    /\ lock \in [Media -> Client \cup {None}]
    /\ keys \subseteq {"create", "complete", "delete"} \X Media
    /\ quota \in [active : Int, used : Int]
    /\ outbox \in [OutboxEvent -> OutboxStatus \cup {None}]
    /\ sent \subseteq {e \in OutboxEvent : outbox[e] # None}
    /\ queue \in [Group -> [Media -> Nat]]
    /\ unscanned \subseteq Media
    /\ calls \in Nat /\ faults \in Nat /\ deliveries \in Nat

MsSweepOK ==
    \/ sweep = Idle
    \/ sweep.m \in Media /\ sweep = [op |-> None, m |-> sweep.m, at |-> sweep.at, read |-> None]
       /\ sweep.at \in {"s3", "session", "media"}

\* What a request knows: only one creates a media, and it does so before the row exists;
\* a status read for a deletion allows it; a verified object is still there.
MsJobOK(j) ==
    /\ j \in MsJob
    /\ j = Idle \/ (j.op /= None /\ j.m \in Media)
    /\ j.op = "create" => <<"create", j.m>> \in keys
    /\ j.op = "create" /\ j.at \in {"multipart", "media"} => status[j.m] = None
    /\ j.op = "delete" /\ j.at = "status" => <<j.read, "DELETING">> \in allowedTransitions
    /\ j.op = "delete" /\ j.at = "outbox" => MsGone(j.m)
    /\ j.op = "complete" /\ j.at \in {"outbox", "status"} => "original" \in files[j.m] \/ MsGone(j.m)

MsOneCreate ==
    \A c, d \in Client : job[c].op = "create" /\ job[d].op = "create" /\ job[c].m = job[d].m => c = d

\* What a goroutine knows: it derives from what the scan let through only, its scan has been claimed, a
\* deletion has been requested, the rendition it records is stored.
MsTaskOK(t) ==
    /\ t \in MsTask
    /\ t = Idle \/ (t.op \in Group /\ t.m \in Media)
    /\ t.op \in MsDerivers => MsClean(t.m)
    /\ t.op = "scanner" /\ t.at \in {"clean", "announce"} => MsClean(t.m)
    /\ t.op = "scanner" /\ t.at \in Scanning => status[t.m] \notin MsEarly
    /\ t.op = "delete" => MsGone(t.m)
    /\ t.op \in {"image", "video", "compression"} /\ t.at = "record" =>
          t.op \in files[t.m] \/ MsGone(t.m)

MsScans(w, m) == task[w].op = "scanner" /\ task[w].at \in Scanning /\ task[w].m = m
MsOneScan == \A m \in Media : \A v, w \in Slot : MsScans(v, m) /\ MsScans(w, m) => v = w

\* The messages and the rows of the outbox say what is true of their media.
MsQueueOK ==
    \A m \in Media : /\ \A g \in MsDerivers : queue[g][m] > 0 => MsClean(m)
                     /\ queue["delete"][m] > 0 => MsGone(m)

MsOutboxOK == \A e \in OutboxEvent : e.type = "delete" /\ outbox[e] # None => MsGone(e.m)

MsRelayOK ==
    /\ relay = [p \in Relay |-> relay[p]]
    /\ \A p \in Relay :
          \/ relay[p] = [e |-> None, at |-> "idle"]
          \/ /\ relay[p].e \in OutboxEvent /\ outbox[relay[p].e] # None
             /\ \E at \in {"publish", "mark"} : relay[p] = [e |-> relay[p].e, at |-> at]

MsInv ==
    /\ MsTypes /\ MsSweepOK
    /\ job = [c \in Client |-> job[c]] /\ \A c \in Client : MsJobOK(job[c])
    /\ task = [w \in Slot |-> task[w]] /\ \A w \in Slot : MsTaskOK(task[w])
    /\ MsOneCreate /\ MsOneScan
    /\ MsQueueOK /\ MsOutboxOK /\ MsRelayOK
    /\ InfectedContained /\ ListedIsStored

-----------------------------------------------------------------------------
(* What every step does to rows and objects *)

\* The insertion of the row, by the request that creates the media.
MsInserted(m) ==
    /\ status[m] = None /\ status'[m] = "PENDING"
    /\ \E c \in Client : /\ job[c].op = "create" /\ job[c].m = m /\ job[c].at = "media"
                         /\ job'[c].at \notin {"multipart", "media"}

MsAdvanced(m) ==
    /\ <<status[m], status'[m]>> \in MsTaken
    /\ status'[m] \in {"PROCESSING", "READY"} => MsClean(m)
    /\ status'[m] = "UPLOADED" => "original" \in files[m]

MsStepOK ==
    /\ UNCHANGED content /\ unscanned \subseteq unscanned'
    /\ \A m \in Media : status'[m] = status[m] \/ MsInserted(m) \/ MsAdvanced(m)
    /\ \A m \in Media : files[m] \subseteq files'[m] \/ MsGone(m)
    /\ \A m \in Media : \/ versions'[m] = versions[m]
                        \/ /\ MsClean(m)
                           /\ versions'[m] \ {"metadata"} \subseteq versions[m] \cup files[m] \/ MsGone(m)
    /\ keys \subseteq keys'
    /\ \A e \in OutboxEvent : outbox[e] # None => outbox'[e] # None

\* Nothing comes back from a deletion, and nothing is scanned twice.
LEMMA MsForward ==
    ASSUME MsStepOK, NEW m \in Media
    PROVE  /\ MsGone(m) => MsGone(m)'
           /\ status[m] \notin MsEarly => status'[m] \notin MsEarly
           /\ status'[m] /= status[m] => \/ status[m] = None /\ status'[m] = "PENDING"
                                         \/ <<status[m], status'[m]>> \in allowedTransitions
  <1>1. CASE status'[m] = status[m]
    BY <1>1 DEF MsGone
  <1>2. CASE MsInserted(m)
    BY <1>2 DEF MsInserted, MsGone, None, MsEarly
  <1>3. CASE MsAdvanced(m)
    BY <1>3 DEF MsAdvanced, MsTaken, allowedTransitions, MsGone, MsEarly, None
  <1> QED
    BY <1>1, <1>2, <1>3 DEF MsStepOK

\* What the media promise survives every step.
LEMMA MsPromises ==
    ASSUME MsInv, MsStepOK
    PROVE  InfectedContained' /\ ListedIsStored'
  <1>1. ASSUME NEW m \in Media, content[m].infected, m \notin unscanned'
        PROVE  status'[m] \notin {"PROCESSING", "READY"} /\ versions'[m] = {}
    <2>0. m \notin unscanned /\ ~MsClean(m)
      BY <1>1 DEF MsStepOK, MsClean
    <2>1. status[m] \notin {"PROCESSING", "READY"} /\ versions[m] = {}
      BY <1>1, <2>0 DEF MsInv, InfectedContained
    <2>2. versions'[m] = {}
      BY <2>0, <2>1 DEF MsStepOK
    <2>3. status'[m] \notin {"PROCESSING", "READY"}
      BY <2>0, <2>1 DEF MsStepOK, MsInserted, MsAdvanced
    <2> QED
      BY <2>2, <2>3
  <1>2. ASSUME NEW m \in Media,
               status'[m] \in {"UPLOADED", "SCANNING", "PROCESSING", "READY", "QUARANTINED"}
        PROVE  "original" \in files'[m]
    <2>1. ~MsGone(m)
      BY <1>2, MsForward DEF MsGone
    <2>2. files[m] \subseteq files'[m]
      BY <2>1 DEF MsStepOK
    <2>3. CASE status'[m] = status[m]
      BY <2>3, <2>2, <1>2 DEF MsInv, ListedIsStored
    <2>4. CASE MsInserted(m)
      BY <2>4, <1>2 DEF MsInserted
    <2>5. CASE MsAdvanced(m)
      <3>1. CASE status'[m] = "UPLOADED"
        BY <3>1, <2>5, <2>2 DEF MsAdvanced
      <3>2. CASE status'[m] /= "UPLOADED"
        <4>1. status[m] \in {"UPLOADED", "SCANNING", "PROCESSING"}
          BY <3>2, <2>5, <1>2 DEF MsAdvanced, MsTaken, allowedTransitions
        <4> QED
          BY <4>1, <2>2 DEF MsInv, ListedIsStored
      <3> QED
        BY <3>1, <3>2
    <2> QED
      BY <2>3, <2>4, <2>5 DEF MsStepOK
  <1>3. ASSUME NEW m \in Media, status'[m] \notin {"DELETING", "DELETED"}
        PROVE  versions'[m] \ {"metadata"} \subseteq files'[m]
    <2>1. ~MsGone(m)
      BY <1>3, MsForward DEF MsGone
    <2>2. files[m] \subseteq files'[m] /\ versions[m] \ {"metadata"} \subseteq files[m]
      BY <2>1 DEF MsStepOK, MsInv, ListedIsStored, MsGone
    <2> QED
      BY <2>1, <2>2 DEF MsStepOK
  <1>4. UNCHANGED content
    BY DEF MsStepOK
  <1> QED
    BY <1>1, <1>2, <1>3, <1>4 DEF InfectedContained, ListedIsStored

\* What a request knows stays true while others move.
LEMMA MsJobStays ==
    ASSUME MsInv, MsStepOK, NEW c \in Client, job'[c] = job[c]
    PROVE  MsJobOK(job[c])'
  <1>j. PICK j : j = job[c]
    OBVIOUS
  <1>1. MsJobOK(j)
    BY <1>j DEF MsInv
  <1>2. j.op = "create" => <<"create", j.m>> \in keys'
    BY <1>1 DEF MsJobOK, MsStepOK
  <1>3. ASSUME j.op = "create", j.at \in {"multipart", "media"} PROVE status'[j.m] = None
    <2>1. j.m \in Media /\ status[j.m] = None
      BY <1>1, <1>3 DEF MsJobOK, Idle, None
    <2>2. ~MsInserted(j.m)
      BY <1>3, <1>j DEF MsInserted, MsInv, MsOneCreate
    <2>3. ~MsAdvanced(j.m)
      BY <2>1 DEF MsAdvanced, MsTaken, allowedTransitions, None
    <2> QED
      BY <2>1, <2>2, <2>3 DEF MsStepOK
  <1>4. j.op = "delete" /\ j.at = "outbox" => MsGone(j.m)'
    <2>1. j.op = "delete" /\ j.at = "outbox" => j.m \in Media /\ MsGone(j.m)
      BY <1>1 DEF MsJobOK, Idle, None
    <2> QED
      BY <2>1, MsForward
  <1>5. j.op = "complete" /\ j.at \in {"outbox", "status"} => "original" \in files'[j.m] \/ MsGone(j.m)'
    <2>1. j.op = "complete" /\ j.at \in {"outbox", "status"} =>
            j.m \in Media /\ ("original" \in files[j.m] \/ MsGone(j.m))
      BY <1>1 DEF MsJobOK, Idle, None
    <2> QED
      BY <2>1, MsForward DEF MsStepOK
  <1>6. MsJobOK(j)'
    BY <1>1, <1>2, <1>3, <1>4, <1>5 DEF MsJobOK
  <1> QED
    BY <1>6, <1>j DEF MsJobOK, MsGone

LEMMA MsTaskStays ==
    ASSUME MsInv, MsStepOK, NEW w \in Slot, task'[w] = task[w]
    PROVE  MsTaskOK(task[w])'
  <1>t. PICK t : t = task[w]
    OBVIOUS
  <1>1. MsTaskOK(t)
    BY <1>t DEF MsInv
  <1>2. t.op \in Group => t.m \in Media
    BY <1>1 DEF MsTaskOK, Idle, None, Group
  <1>3. /\ t.op \in MsDerivers => MsClean(t.m)'
        /\ t.op = "scanner" /\ t.at \in {"clean", "announce"} => MsClean(t.m)'
    BY <1>1 DEF MsTaskOK, MsStepOK, MsClean
  <1>4. t.op = "scanner" /\ t.at \in Scanning => status'[t.m] \notin MsEarly
    BY <1>1, <1>2, MsForward DEF MsTaskOK, Group
  <1>5. t.op = "delete" => MsGone(t.m)'
    BY <1>1, <1>2, MsForward DEF MsTaskOK, Group
  <1>6. t.op \in {"image", "video", "compression"} /\ t.at = "record" =>
          t.op \in files'[t.m] \/ MsGone(t.m)'
    <2>1. t.op \in {"image", "video", "compression"} /\ t.at = "record" =>
            t.m \in Media /\ (t.op \in files[t.m] \/ MsGone(t.m))
      BY <1>1, <1>2 DEF MsTaskOK, Group
    <2> QED
      BY <2>1, MsForward DEF MsStepOK
  <1>7. MsTaskOK(t)'
    BY <1>1, <1>3, <1>4, <1>5, <1>6 DEF MsTaskOK
  <1> QED
    BY <1>7, <1>t DEF MsTaskOK, MsGone, MsClean

LEMMA MsQueueStays ==
    ASSUME MsInv, MsStepOK, UNCHANGED queue
    PROVE  MsQueueOK'
  BY MsForward DEF MsInv, MsQueueOK, MsStepOK, MsClean

LEMMA MsRelayStays ==
    ASSUME MsInv, MsStepOK, UNCHANGED relay
    PROVE  MsRelayOK'
  BY DEF MsInv, MsRelayOK, MsStepOK

LEMMA MsOutboxStays ==
    ASSUME MsInv, MsStepOK, UNCHANGED outbox
    PROVE  MsOutboxOK'
  <1> SUFFICES ASSUME NEW e \in OutboxEvent, e.type = "delete", outbox[e] # None
               PROVE  MsGone(e.m)'
    BY DEF MsOutboxOK, MsGone
  <1>1. MsGone(e.m) /\ e.m \in Media
    BY DEF MsInv, MsOutboxOK, OutboxEvent
  <1> QED
    BY <1>1, MsForward

\* A step of one request.
LEMMA MsRequestStep ==
    ASSUME MsInv, MsStepOK, MsTypes', NEW c \in Client, NEW j,
           job' = [job EXCEPT ![c] = j], MsJobOK(j)',
           j.op = "create" => \/ job[c].op = "create" /\ job[c].m = j.m
                              \/ <<"create", j.m>> \notin keys,
           MsOutboxOK', UNCHANGED requestFrame
    PROVE  MsInv'
  <1>1. /\ job' = [d \in Client |-> job'[d]]
        /\ job'[c] = j /\ \A d \in Client \ {c} : job'[d] = job[d]
    BY DEF MsInv
  <1>2. ASSUME NEW d \in Client PROVE MsJobOK(job[d])'
    <2>1. CASE d = c
      BY <2>1, <1>1 DEF MsJobOK, MsGone
    <2>2. CASE d /= c
      BY <2>2, <1>1, MsJobStays
    <2> QED
      BY <2>1, <2>2
  <1>3. MsOneCreate'
    <2> SUFFICES ASSUME NEW a \in Client, NEW b \in Client, job'[a].op = "create",
                        job'[b].op = "create", job'[a].m = job'[b].m, a /= b
                 PROVE  FALSE
      BY DEF MsOneCreate
    <2>1. \A d \in Client : job[d].op = "create" => <<"create", job[d].m>> \in keys
      BY DEF MsInv, MsJobOK
    <2> QED
      BY <2>1, <1>1 DEF MsInv, MsOneCreate
  <1>4. UNCHANGED <<task, queue, relay, sweep>>
    BY DEF requestFrame, workerVars
  <1>5. task' = [w \in Slot |-> task'[w]] /\ \A w \in Slot : MsTaskOK(task[w])'
    BY <1>4, MsTaskStays DEF MsInv
  <1>6. MsOneScan' /\ MsSweepOK'
    BY <1>4 DEF MsInv, MsOneScan, MsScans, MsSweepOK
  <1> QED
    BY <1>1, <1>2, <1>3, <1>4, <1>5, <1>6, MsPromises, MsQueueStays, MsRelayStays DEF MsInv

\* A step of one goroutine.
LEMMA MsWorkerStep ==
    ASSUME MsInv, MsStepOK, MsTypes', NEW w \in Slot, NEW t,
           task' = [task EXCEPT ![w] = t], MsTaskOK(t)',
           t.op = "scanner" /\ t.at \in Scanning => status[t.m] \in MsEarly \/ MsScans(w, t.m),
           MsQueueOK', UNCHANGED workerFrame
    PROVE  MsInv'
  <1>1. /\ task' = [v \in Slot |-> task'[v]]
        /\ task'[w] = t /\ \A v \in Slot \ {w} : task'[v] = task[v]
    BY DEF MsInv
  <1>2. ASSUME NEW v \in Slot PROVE MsTaskOK(task[v])'
    <2>1. CASE v = w
      BY <2>1, <1>1 DEF MsTaskOK, MsGone, MsClean
    <2>2. CASE v /= w
      BY <2>2, <1>1, MsTaskStays
    <2> QED
      BY <2>1, <2>2
  <1>3. MsOneScan'
    <2> SUFFICES ASSUME NEW m \in Media, NEW a \in Slot, NEW b \in Slot,
                        MsScans(a, m)', MsScans(b, m)', a /= b
                 PROVE  FALSE
      BY DEF MsOneScan
    <2>1. \A v \in Slot : MsScans(v, m) => status[m] \notin MsEarly
      BY DEF MsInv, MsTaskOK, MsScans
    <2> QED
      BY <2>1, <1>1 DEF MsInv, MsOneScan, MsScans
  <1>4. UNCHANGED <<job, outbox, relay, sweep>>
    BY DEF workerFrame, requestVars, relayVars
  <1>5. job' = [c \in Client |-> job'[c]] /\ \A c \in Client : MsJobOK(job[c])'
    BY <1>4, MsJobStays DEF MsInv
  <1>6. MsOneCreate' /\ MsSweepOK'
    BY <1>4 DEF MsInv, MsOneCreate, MsSweepOK
  <1> QED
    BY <1>1, <1>2, <1>3, <1>4, <1>5, <1>6, MsPromises, MsOutboxStays, MsRelayStays DEF MsInv

\* A step of neither.
LEMMA MsOtherStep ==
    ASSUME MsInv, MsStepOK, MsTypes', UNCHANGED <<job, task>>,
           MsSweepOK', MsQueueOK', MsOutboxOK', MsRelayOK'
    PROVE  MsInv'
  <1>1. job' = [c \in Client |-> job'[c]] /\ \A c \in Client : MsJobOK(job[c])'
    BY MsJobStays DEF MsInv
  <1>2. task' = [w \in Slot |-> task'[w]] /\ \A w \in Slot : MsTaskOK(task[w])'
    BY MsTaskStays DEF MsInv
  <1>3. MsOneCreate' /\ MsOneScan'
    BY DEF MsInv, MsOneCreate, MsOneScan, MsScans
  <1> QED
    BY <1>1, <1>2, <1>3, MsPromises DEF MsInv

-----------------------------------------------------------------------------
(* Calls to the stores *)

\* A conditional update: it moves the status from the expected value or not at all.
MsMoved(m, current, next) ==
    \/ UNCHANGED status
    \/ status[m] = current /\ status' = [status EXCEPT ![m] = next]

LEMMA MsUpdates ==
    ASSUME NEW m, NEW current, NEW next,
           UpdateStatus(m, current, next) \/ TryStatus(m, current, next)
    PROVE  MsMoved(m, current, next)
  BY DEF MsMoved, UpdateStatus, TryStatus

LEMMA MsMovedType ==
    ASSUME MsTypes, NEW m \in Media, NEW current, NEW next \in MediaStatus, MsMoved(m, current, next)
    PROVE  status' \in [Media -> MediaStatus \cup {None}]
  BY DEF MsTypes, MsMoved

LEMMA MsFault ==
    ASSUME MsTypes, Works \/ Fails
    PROVE  faults' \in Nat
  BY DEF MsTypes, Works, Fails

LEMMA MsQuiet ==
    ASSUME UNCHANGED <<content, status, files, versions>>, keys \subseteq keys',
           unscanned \subseteq unscanned',
           \A e \in OutboxEvent : outbox[e] # None => outbox'[e] # None
    PROVE  MsStepOK
  BY DEF MsStepOK

LEMMA MsMoveOK ==
    ASSUME MsTypes, NEW m \in Media, NEW current, NEW next, <<current, next>> \in MsTaken,
           MsMoved(m, current, next),
           status[m] = current /\ next \in {"PROCESSING", "READY"} => MsClean(m),
           status[m] = current /\ next = "UPLOADED" => "original" \in files[m],
           UNCHANGED <<content, unscanned, files, versions, keys, outbox>>
    PROVE  MsStepOK
  <1>1. ASSUME NEW x \in Media PROVE status'[x] = status[x] \/ MsAdvanced(x)
    <2>1. CASE UNCHANGED status
      BY <2>1
    <2>2. CASE status[m] = current /\ status' = [status EXCEPT ![m] = next]
      <3>1. status'[x] = IF x = m THEN next ELSE status[x]
        BY <2>2 DEF MsTypes
      <3> QED
        BY <2>2, <3>1 DEF MsAdvanced
    <2> QED
      BY <2>1, <2>2 DEF MsMoved
  <1> QED
    BY <1>1 DEF MsStepOK

\* A row of the outbox is created or not, and never removed.
LEMMA MsCreateOutbox ==
    ASSUME MsTypes, NEW m \in Media, NEW type \in {"completed", "delete"}, CreateOutbox(m, type)
    PROVE  /\ outbox' \in [OutboxEvent -> OutboxStatus \cup {None}] /\ faults' \in Nat
           /\ \A e \in OutboxEvent : /\ outbox[e] # None => outbox'[e] # None
                                     /\ outbox'[e] # None => outbox[e] # None \/ e = [m |-> m, type |-> type]
  <1>1. [m |-> m, type |-> type] \in OutboxEvent
    BY DEF OutboxEvent
  <1> QED
    BY <1>1, MsFault DEF CreateOutbox, MsTypes, OutboxStatus, None

-----------------------------------------------------------------------------
(* Requests *)

MsRequestTypes ==
    /\ status \in [Media -> MediaStatus \cup {None}]
    /\ session \in [Media -> MsSession]
    /\ multipart \in [Media -> {None, "open", "filled", "done", "aborted"}]
    /\ files \in [Media -> SUBSET {"original", "truncated", "image", "video", "compression"}]
    /\ lock \in [Media -> Client \cup {None}]
    /\ keys \subseteq {"create", "complete", "delete"} \X Media
    /\ quota \in [active : Int, used : Int]
    /\ outbox \in [OutboxEvent -> OutboxStatus \cup {None}]
    /\ calls \in Nat /\ faults \in Nat

LEMMA MsRequestTyped ==
    ASSUME MsTypes, MsStepOK, MsRequestTypes', UNCHANGED requestFrame
    PROVE  MsTypes'
  BY DEF MsTypes, MsStepOK, MsRequestTypes, requestFrame, workerVars

LEMMA MsReturnStep ==
    ASSUME MsInv, MsStepOK, MsRequestTypes', NEW c \in Client, job' = [job EXCEPT ![c] = Idle],
           MsOutboxOK', UNCHANGED requestFrame
    PROVE  MsInv'
  <1>1. MsTypes'
    BY MsRequestTyped DEF MsInv
  <1>2. MsJobOK(Idle)'
    BY DEF MsJobOK, MsJob, Idle, None, Step0
  <1>3. Idle.op /= "create"
    BY DEF Idle, None
  <1> QED
    BY <1>1, <1>2, <1>3, MsRequestStep

\* What must hold where a request goes on.
MsAt(op, m, at) ==
    /\ op = "create" => at \notin {"multipart", "media"} \/ status[m] = None
    /\ op = "delete" => at /= "status" /\ (at = "outbox" => MsGone(m))
    /\ op = "complete" /\ at \in {"outbox", "status"} => "original" \in files[m] \/ MsGone(m)

LEMMA MsGoStep ==
    ASSUME MsInv, MsStepOK, MsRequestTypes', NEW c \in Client, NEW op, op /= None, NEW m \in Media,
           job[c].op = op, job[c].m = m,
           NEW at \in Step0, job' = [job EXCEPT ![c].at = at], MsAt(op, m, at)',
           MsOutboxOK', UNCHANGED requestFrame
    PROVE  MsInv'
  <1>j. PICK j : j = [job[c] EXCEPT !.at = at]
    OBVIOUS
  <1>1. MsTypes'
    BY MsRequestTyped DEF MsInv
  <1>2. MsJobOK(job[c])
    BY DEF MsInv
  <1>3. j \in MsJob /\ j.op = op /\ j.m = m /\ j.at = at
    BY <1>j, <1>2 DEF MsJobOK, MsJob
  <1>4. op = "create" => <<"create", m>> \in keys'
    BY <1>2 DEF MsJobOK, MsStepOK
  <1>5. MsJobOK(j)'
    BY <1>3, <1>4 DEF MsJobOK, MsAt
  <1>6. job' = [job EXCEPT ![c] = j]
    BY <1>j
  <1> QED
    BY <1>1, <1>3, <1>5, <1>6, MsRequestStep

\* A new request changes no row.
LEMMA MsCallStep ==
    ASSUME MsInv, NEW c \in Client, NEW op \in {"create", "complete", "abort", "renew", "delete"},
           NEW m \in Media, NEW at \in Step0, NEW read \in MediaStatus \cup {None},
           Call(c, op, m, at, read),
           keys' = keys \/ (op \in {"create", "complete", "delete"} /\ StoreKey(op, m)),
           op = "create" => status[m] = None /\ <<"create", m>> \notin keys /\ keys' /= keys,
           op = "delete" => at = "status" /\ <<read, "DELETING">> \in allowedTransitions,
           op = "complete" => at = "lock",
           UNCHANGED <<status, session, multipart, files, lock, quota, outbox, faults>>,
           UNCHANGED requestFrame
    PROVE  MsStepOK /\ MsInv'
  <1>j. PICK j : j = [op |-> op, m |-> m, at |-> at, read |-> read]
    OBVIOUS
  <1>1. keys \subseteq keys' /\ keys' \subseteq {"create", "complete", "delete"} \X Media
    BY DEF StoreKey, MsInv, MsTypes
  <1>2. MsStepOK
    BY <1>1, MsQuiet DEF requestFrame
  <1>3. MsRequestTypes'
    BY <1>1 DEF MsInv, MsTypes, MsRequestTypes, Call
  <1>4. MsTypes'
    BY <1>2, <1>3, MsRequestTyped DEF MsInv
  <1>5. op = "create" => <<"create", m>> \in keys'
    BY DEF StoreKey
  <1>6. j \in MsJob /\ j.op = op /\ j.m = m /\ j.at = at /\ j.read = read /\ op /= None
    BY <1>j DEF MsJob, None
  <1>7. MsJobOK(j)'
    BY <1>5, <1>6 DEF MsJobOK
  <1>8. job' = [job EXCEPT ![c] = j]
    BY <1>j DEF Call
  <1>9. MsOutboxOK'
    BY <1>2, MsOutboxStays
  <1> QED
    BY <1>2, <1>4, <1>6, <1>7, <1>8, <1>9, MsRequestStep

LEMMA RequestInv ==
    ASSUME MsInv, NEW c \in Client, Request(c), UNCHANGED requestFrame
    PROVE  MsStepOK /\ MsInv'
  <1> USE DEF Step0, MediaStatus, None
  <1>m. PICK m \in Media : \/ CreateUploadSession(c, m) \/ AbortUpload(c, m) \/ RenewPresigned(c, m)
                           \/ DeleteMedia(c, m) \/ \E key \in BOOLEAN : CompleteUpload(c, m, key)
    BY DEF Request
  <1>1. CASE CreateUploadSession(c, m)
    <2>1. keys' /= keys /\ <<"create", m>> \notin keys
      BY <1>1 DEF CreateUploadSession, StoreKey
    <2> QED
      BY <1>1, <2>1, MsCallStep DEF CreateUploadSession
  <1>2. CASE AbortUpload(c, m)
    BY <1>2, MsCallStep DEF AbortUpload, redisVars
  <1>3. CASE RenewPresigned(c, m)
    BY <1>3, MsCallStep DEF RenewPresigned, redisVars
  <1>4. CASE DeleteMedia(c, m)
    <2>1. status[m] \in MediaStatus \cup {None}
      BY DEF MsInv, MsTypes
    <2> QED
      BY <1>4, <2>1, MsCallStep DEF DeleteMedia, CanTransitionTo
  <1>5. ASSUME NEW key \in BOOLEAN, CompleteUpload(c, m, key) PROVE MsStepOK /\ MsInv'
    <2>1. keys' = keys \/ StoreKey("complete", m)
      BY <1>5 DEF CompleteUpload
    <2> QED
      BY <1>5, <2>1, MsCallStep DEF CompleteUpload
  <1> QED
    BY <1>m, <1>1, <1>2, <1>3, <1>4, <1>5

\* A handler goes on or returns, having changed nothing but what its stores type.
LEMMA MsHandlerStep ==
    ASSUME MsInv, MsStepOK, MsRequestTypes', NEW c \in Client, NEW op, op /= None, NEW m \in Media,
           job[c].op = op, job[c].m = m,
           Return(c) \/ \E at \in Step0 : Go(c, at) /\ MsAt(op, m, at)',
           MsOutboxOK', UNCHANGED requestFrame
    PROVE  MsStepOK /\ MsInv'
  BY MsGoStep, MsReturnStep DEF Go, Return

LEMMA MsHeld ==
    ASSUME MsInv, NEW c \in Client, job[c].op /= None \/ job[c].at /= "idle"
    PROVE  job[c].m \in Media /\ job[c].op /= None
  <1>1. PICK j : j = job[c]
    OBVIOUS
  <1>2. MsJobOK(j)
    BY <1>1 DEF MsInv
  <1>3. j /= Idle
    BY <1>1 DEF Idle
  <1> QED
    BY <1>1, <1>2, <1>3 DEF MsJobOK

LEMMA MsSetState ==
    ASSUME MsTypes, NEW m \in Media, NEW x \in UploadStatus \cup {None, "PARTIAL"}
    PROVE  [session EXCEPT ![m].state = x] \in [Media -> MsSession]
  <1>1. session[m] \in MsSession
    BY DEF MsTypes
  <1>2. [session[m] EXCEPT !.state = x] \in MsSession
    BY <1>1 DEF MsSession
  <1> QED
    BY <1>2 DEF MsTypes

LEMMA CreateInv ==
    ASSUME MsInv, NEW c \in Client, UNCHANGED requestFrame,
           \/ CreateMultipart(c) \/ CreateMediaRow(c) \/ CreateSessionRow(c) \/ CreateStart(c)
           \/ CreateSlot(c)
    PROVE  MsStepOK /\ MsInv'
  <1>m. PICK m : m = job[c].m
    OBVIOUS
  <1>h. MsTypes /\ UNCHANGED <<content, versions, unscanned>>
    BY DEF MsInv, requestFrame
  <1>o. job[c].op = "create" /\ "create" /= None
    BY DEF At, CreateMultipart, CreateMediaRow, CreateSessionRow, CreateStart, CreateSlot, None
  <1>i. m \in Media
    BY <1>m, <1>o, MsHeld
  <1>1. CASE CreateMultipart(c)
    <2>1. MsStepOK
      BY <1>1, <1>h, MsQuiet DEF CreateMultipart, redisVars
    <2>2. MsRequestTypes'
      BY <1>1, <1>h, <1>i, <1>m, MsFault
         DEF CreateMultipart, OpenMultipart, redisVars, MsTypes, MsRequestTypes, Go, Return
    <2>3. MsOutboxOK'
      BY <1>1, <2>1, MsOutboxStays DEF CreateMultipart
    <2>4. status'[m] = None
      BY <1>1, <1>m DEF CreateMultipart, At, MsInv, MsJobOK
    <2>5. Return(c) \/ (Go(c, "media") /\ MsAt("create", m, "media")')
      BY <1>1, <2>4 DEF CreateMultipart, MsAt
    <2>6. "media" \in Step0
      BY DEF Step0
    <2> QED
      BY <2>1, <2>2, <2>3, <2>5, <2>6, <1>o, <1>i, <1>m, MsHandlerStep
  <1>2. CASE CreateMediaRow(c)
    <2>1. status[m] = None /\ job[c].at = "media"
      BY <1>2, <1>m DEF CreateMediaRow, At, MsInv, MsJobOK
    <2>2. UNCHANGED status \/ status' = [status EXCEPT ![m] = "PENDING"]
      BY <1>2, <1>m DEF CreateMediaRow, InsertMedia
    <2>3. job'[c].at \notin {"multipart", "media"}
      <3>1. job[c] \in MsJob /\ job = [d \in Client |-> job[d]]
        BY DEF MsInv, MsJobOK
      <3> QED
        BY <1>2, <3>1 DEF CreateMediaRow, Go, Return, Idle, MsJob
    <2>4. MsStepOK
      <3>1. \A x \in Media : status'[x] = status[x] \/ MsInserted(x)
        BY <1>o, <1>m, <1>h, <2>1, <2>2, <2>3 DEF MsInserted, MsTypes
      <3> QED
        BY <1>2, <1>h, <3>1 DEF MsStepOK, CreateMediaRow, redisVars
    <2>5. MsRequestTypes'
      <3>1. status' \in [Media -> MediaStatus \cup {None}]
        BY <2>2, <1>h, <1>i DEF MsTypes, MediaStatus
      <3>2. multipart' \in [Media -> {None, "open", "filled", "done", "aborted"}]
        BY <1>2, <1>h, <1>i, <1>m DEF CreateMediaRow, AbortMultipart, MsTypes
      <3> QED
        BY <1>2, <1>h, <3>1, <3>2, MsFault
           DEF CreateMediaRow, redisVars, MsTypes, MsRequestTypes, Go, Return
    <2>6. MsOutboxOK'
      BY <1>2, <2>4, MsOutboxStays DEF CreateMediaRow
    <2>7. Return(c) \/ (Go(c, "session") /\ MsAt("create", m, "session")')
      BY <1>2 DEF CreateMediaRow, MsAt
    <2>8. "session" \in Step0
      BY DEF Step0
    <2> QED
      BY <2>4, <2>5, <2>6, <2>7, <2>8, <1>o, <1>i, <1>m, MsHandlerStep
  <1>3. CASE CreateSessionRow(c)
    <2>1. MsStepOK
      BY <1>3, <1>h, MsQuiet DEF CreateSessionRow, redisVars
    <2>2. MsRequestTypes'
      <3>1. session' \in [Media -> MsSession]
        <4>1. [session EXCEPT ![m].state = "UPLOADING"] \in [Media -> MsSession]
          BY <1>h, <1>i, MsSetState DEF UploadStatus
        <4> QED
          BY <1>3, <1>h, <1>m, <4>1 DEF CreateSessionRow, InsertSession, MsTypes
      <3>2. multipart' \in [Media -> {None, "open", "filled", "done", "aborted"}]
        BY <1>3, <1>h, <1>i, <1>m DEF CreateSessionRow, AbortMultipart, MsTypes
      <3> QED
        BY <1>3, <1>h, <3>1, <3>2, MsFault
           DEF CreateSessionRow, redisVars, MsTypes, MsRequestTypes, Go, Return
    <2>3. MsOutboxOK'
      BY <1>3, <2>1, MsOutboxStays DEF CreateSessionRow
    <2>4. Return(c) \/ (Go(c, "uploading") /\ MsAt("create", m, "uploading")')
      BY <1>3 DEF CreateSessionRow, MsAt
    <2>5. "uploading" \in Step0
      BY DEF Step0
    <2> QED
      BY <2>1, <2>2, <2>3, <2>4, <2>5, <1>o, <1>i, <1>m, MsHandlerStep
  <1>4. CASE CreateStart(c)
    <2>1. MsMoved(m, "PENDING", "UPLOADING")
      BY <1>4, <1>m, MsUpdates DEF CreateStart
    <2>2. MsStepOK
      <3>1. <<"PENDING", "UPLOADING">> \in MsTaken
        BY DEF MsTaken, allowedTransitions
      <3>2. UNCHANGED <<content, files, versions, keys, outbox>>
        BY <1>4, <1>h DEF CreateStart, redisVars
      <3> QED
        BY <2>1, <1>h, <1>i, <3>1, <3>2, MsMoveOK
    <2>3. MsRequestTypes'
      <3>1. status' \in [Media -> MediaStatus \cup {None}]
        BY <2>1, <1>h, <1>i, MsMovedType DEF MediaStatus
      <3>2. faults' \in Nat
        BY <1>4, <1>h, MsFault DEF CreateStart, TryStatus
      <3> QED
        BY <1>4, <1>h, <3>1, <3>2 DEF CreateStart, redisVars, MsTypes, MsRequestTypes, Go
    <2>4. MsOutboxOK'
      BY <1>4, <2>2, MsOutboxStays DEF CreateStart
    <2>5. Go(c, "slot") /\ MsAt("create", m, "slot")'
      BY <1>4 DEF CreateStart, MsAt
    <2>6. "slot" \in Step0
      BY DEF Step0
    <2> QED
      BY <2>2, <2>3, <2>4, <2>5, <2>6, <1>o, <1>i, <1>m, MsHandlerStep
  <1>5. CASE CreateSlot(c)
    <2>1. MsStepOK
      BY <1>5, <1>h, MsQuiet DEF CreateSlot, redisVars
    <2>2. MsRequestTypes'
      <3>1. quota' \in [active : Int, used : Int] /\ faults' \in Nat
        BY <1>5, <1>h, MsFault DEF CreateSlot, AddActive, MsTypes
      <3> QED
        BY <1>5, <1>h, <3>1 DEF CreateSlot, redisVars, MsTypes, MsRequestTypes, Return
    <2>3. MsOutboxOK'
      BY <1>5, <2>1, MsOutboxStays DEF CreateSlot
    <2> QED
      BY <1>5, <2>1, <2>2, <2>3, <1>o, <1>i, <1>m, MsHandlerStep DEF CreateSlot
  <1> QED
    BY <1>1, <1>2, <1>3, <1>4, <1>5

LEMMA MsUpdateSession ==
    ASSUME MsTypes, NEW m \in Media, NEW s \in UploadStatus, UpdateSession(m, s)
    PROVE  session' \in [Media -> MsSession] /\ faults' \in Nat
  <1>1. PICK x : x = IF session[m].state \in UploadStatus THEN s ELSE "PARTIAL"
    OBVIOUS
  <1>2. [session EXCEPT ![m].state = x] \in [Media -> MsSession]
    BY <1>1, MsSetState
  <1>3. session' = session \/ session' = [session EXCEPT ![m].state = x]
    BY <1>1 DEF UpdateSession
  <1> QED
    BY <1>2, <1>3, MsFault DEF UpdateSession, MsTypes

LEMMA MsRelease ==
    ASSUME MsTypes, NEW c, NEW m \in Media, ReleaseLock(c, m)
    PROVE  lock' \in [Media -> Client \cup {None}]
  BY DEF MsTypes, ReleaseLock

LEMMA CompleteInv ==
    ASSUME MsInv, NEW c \in Client, UNCHANGED requestFrame,
           \/ AcquireLock(c) \/ CompleteMultipart(c) \/ CompleteVerify(c) \/ CompleteOutbox(c)
           \/ CompleteStatus(c) \/ CompleteSession(c)
    PROVE  MsStepOK /\ MsInv'
  <1>m. PICK m : m = job[c].m
    OBVIOUS
  <1>p. PICK op : op = job[c].op
    OBVIOUS
  <1>h. MsTypes /\ UNCHANGED <<content, versions, unscanned>>
    BY DEF MsInv, requestFrame
  <1>o. job[c].at /= "idle"
    BY DEF At, AcquireLock, CompleteMultipart, CompleteVerify, CompleteOutbox, CompleteStatus,
           CompleteSession
  <1>i. m \in Media /\ op /= None
    BY <1>m, <1>p, <1>o, MsHeld
  <1>s. Step0 = {"idle", "multipart", "media", "session", "uploading", "slot", "lock", "s3",
                 "verify", "outbox", "status", "bytes", "expiry"}
    BY DEF Step0
  <1>1. CASE AcquireLock(c)
    <2>1. MsStepOK
      BY <1>1, <1>h, MsQuiet DEF AcquireLock
    <2>2. MsRequestTypes'
      BY <1>1, <1>h, <1>i, <1>m DEF AcquireLock, MsTypes, MsRequestTypes, Go, Return
    <2>3. MsOutboxOK'
      BY <1>1, <2>1, MsOutboxStays DEF AcquireLock
    <2>4. Return(c) \/ (Go(c, "s3") /\ MsAt(op, m, "s3")')
      BY <1>1 DEF AcquireLock, MsAt
    <2> QED
      BY <2>1, <2>2, <2>3, <2>4, <1>p, <1>i, <1>m, <1>s, MsHandlerStep
  <1>2. CASE CompleteMultipart(c)
    <2>1. \/ UNCHANGED <<multipart, files>>
          \/ \E f \in {"original", "truncated"} :
                /\ files' = [files EXCEPT ![m] = @ \cup {f}]
                /\ multipart' = [multipart EXCEPT ![m] = "done"]
      BY <1>2, <1>m DEF CompleteMultipart, Assemble
    <2>2. MsStepOK
      <3>1. \A x \in Media : files[x] \subseteq files'[x]
        BY <2>1, <1>h DEF MsTypes
      <3> QED
        BY <1>2, <1>h, <3>1 DEF MsStepOK, CompleteMultipart
    <2>3. MsRequestTypes'
      <3>1. files' \in [Media -> SUBSET {"original", "truncated", "image", "video", "compression"}]
        BY <2>1, <1>h, <1>i DEF MsTypes
      <3>2. multipart' \in [Media -> {None, "open", "filled", "done", "aborted"}]
        BY <2>1, <1>h, <1>i DEF MsTypes
      <3>3. lock' \in [Media -> Client \cup {None}] /\ faults' \in Nat
        BY <1>2, <1>m, <1>i, <1>h, MsRelease, MsFault DEF CompleteMultipart, MsTypes
      <3> QED
        BY <1>2, <1>h, <3>1, <3>2, <3>3
           DEF CompleteMultipart, MsTypes, MsRequestTypes, Go, Return
    <2>4. MsOutboxOK'
      BY <1>2, <2>2, MsOutboxStays DEF CompleteMultipart
    <2>5. Return(c) \/ (Go(c, "verify") /\ MsAt(op, m, "verify")')
      BY <1>2 DEF CompleteMultipart, MsAt
    <2> QED
      BY <2>2, <2>3, <2>4, <2>5, <1>p, <1>i, <1>m, <1>s, MsHandlerStep
  <1>3. CASE CompleteVerify(c)
    <2>1. MsMoved(m, "UPLOADING", "FAILED")
      BY <1>3, <1>m, MsUpdates DEF CompleteVerify, MsMoved
    <2>2. MsStepOK
      <3>1. <<"UPLOADING", "FAILED">> \in MsTaken
        BY DEF MsTaken, allowedTransitions
      <3>2. UNCHANGED <<content, files, versions, keys, outbox>>
        BY <1>3, <1>h DEF CompleteVerify
      <3> QED
        BY <2>1, <1>h, <1>i, <3>1, <3>2, MsMoveOK
    <2>3. MsRequestTypes'
      <3>1. status' \in [Media -> MediaStatus \cup {None}]
        BY <2>1, <1>h, <1>i, MsMovedType DEF MediaStatus
      <3>2. lock' \in [Media -> Client \cup {None}]
        BY <1>3, <1>h, <1>m, <1>i, MsRelease DEF CompleteVerify, MsTypes
      <3>3. faults' \in Nat
        BY <1>3, <1>h, MsFault DEF CompleteVerify, TryStatus
      <3> QED
        BY <1>3, <1>h, <3>1, <3>2, <3>3 DEF CompleteVerify, MsTypes, MsRequestTypes, Go, Return
    <2>4. MsOutboxOK'
      BY <1>3, <2>2, MsOutboxStays DEF CompleteVerify
    <2>5. Return(c) \/ (Go(c, "outbox") /\ MsAt("complete", m, "outbox")')
      BY <1>3, <1>m DEF CompleteVerify, HasDeclaredSize, MsAt
    <2>6. op = "complete"
      BY <1>3, <1>p DEF CompleteVerify, At
    <2> QED
      BY <2>2, <2>3, <2>4, <2>5, <2>6, <1>p, <1>i, <1>m, <1>s, MsHandlerStep
  <1>4. CASE CompleteOutbox(c)
    <2>1. /\ outbox' \in [OutboxEvent -> OutboxStatus \cup {None}] /\ faults' \in Nat
          /\ \A e \in OutboxEvent :
                /\ outbox[e] # None => outbox'[e] # None
                /\ outbox'[e] # None => outbox[e] # None \/ e = [m |-> m, type |-> "completed"]
      BY <1>4, <1>m, <1>h, <1>i, MsCreateOutbox DEF CompleteOutbox
    <2>2. MsStepOK
      BY <1>4, <1>h, <2>1, MsQuiet DEF CompleteOutbox, redisVars
    <2>3. MsRequestTypes'
      BY <1>4, <1>h, <2>1 DEF CompleteOutbox, redisVars, MsTypes, MsRequestTypes, Go
    <2>4. MsOutboxOK'
      <3> SUFFICES ASSUME NEW e \in OutboxEvent, e.type = "delete", outbox'[e] # None
                   PROVE  MsGone(e.m)'
        BY DEF MsOutboxOK, MsGone
      <3>1. outbox[e] # None
        BY <2>1
      <3>2. MsGone(e.m)
        BY <3>1 DEF MsInv, MsOutboxOK
      <3> QED
        BY <1>4, <3>2 DEF CompleteOutbox, MsGone
    <2>5. op = "complete" /\ ("original" \in files[m] \/ MsGone(m))
      BY <1>4, <1>p, <1>m DEF CompleteOutbox, At, MsInv, MsJobOK
    <2>6. Go(c, "status") /\ MsAt("complete", m, "status")'
      BY <1>4, <2>5 DEF CompleteOutbox, MsAt, MsGone
    <2> QED
      BY <2>2, <2>3, <2>4, <2>5, <2>6, <1>p, <1>i, <1>m, <1>s, MsHandlerStep
  <1>5. CASE CompleteStatus(c)
    <2>1. MsMoved(m, "UPLOADING", "UPLOADED")
      BY <1>5, <1>m, MsUpdates DEF CompleteStatus, MsMoved
    <2>2. "original" \in files[m] \/ MsGone(m)
      BY <1>5, <1>p, <1>m DEF CompleteStatus, At, MsInv, MsJobOK
    <2>3. MsStepOK
      <3>1. <<"UPLOADING", "UPLOADED">> \in MsTaken
        BY DEF MsTaken, allowedTransitions
      <3>2. UNCHANGED <<content, files, versions, keys, outbox>>
        BY <1>5, <1>h DEF CompleteStatus
      <3>3. status[m] = "UPLOADING" => "original" \in files[m]
        BY <2>2 DEF MsGone
      <3> QED
        BY <2>1, <1>h, <1>i, <3>1, <3>2, <3>3, MsMoveOK
    <2>4. MsRequestTypes'
      <3>1. status' \in [Media -> MediaStatus \cup {None}]
        BY <2>1, <1>h, <1>i, MsMovedType DEF MediaStatus
      <3>2. lock' \in [Media -> Client \cup {None}]
        BY <1>5, <1>h, <1>m, <1>i, MsRelease DEF CompleteStatus, MsTypes
      <3>3. faults' \in Nat
        BY <1>5, <1>h, MsFault DEF CompleteStatus
      <3> QED
        BY <1>5, <1>h, <3>1, <3>2, <3>3 DEF CompleteStatus, MsTypes, MsRequestTypes, Go, Return
    <2>5. MsOutboxOK'
      BY <1>5, <2>3, MsOutboxStays DEF CompleteStatus
    <2>6. Return(c) \/ (Go(c, "session") /\ MsAt("complete", m, "session")')
      BY <1>5, <1>m DEF CompleteStatus, MsAt
    <2>7. op = "complete"
      BY <1>5, <1>p DEF CompleteStatus, At
    <2> QED
      BY <2>3, <2>4, <2>5, <2>6, <2>7, <1>p, <1>i, <1>m, <1>s, MsHandlerStep
  <1>6. CASE CompleteSession(c)
    <2>1. MsStepOK
      BY <1>6, <1>h, MsQuiet DEF CompleteSession, redisVars
    <2>2. session' \in [Media -> MsSession] /\ faults' \in Nat
      BY <1>6, <1>h, <1>m, <1>i, MsUpdateSession DEF CompleteSession, UploadStatus
    <2>3. MsRequestTypes'
      BY <1>6, <1>h, <2>2 DEF CompleteSession, redisVars, MsTypes, MsRequestTypes, Go
    <2>4. MsOutboxOK'
      BY <1>6, <2>1, MsOutboxStays DEF CompleteSession
    <2>5. Go(c, "slot") /\ MsAt(op, m, "slot")'
      BY <1>6 DEF CompleteSession, MsAt
    <2> QED
      BY <2>1, <2>3, <2>4, <2>5, <1>p, <1>i, <1>m, <1>s, MsHandlerStep
  <1> QED
    BY <1>1, <1>2, <1>3, <1>4, <1>5, <1>6

LEMMA MsQuota ==
    ASSUME MsTypes, NEW n \in Int, AddActive(n) \/ AddUsed(n)
    PROVE  quota' \in [active : Int, used : Int] /\ faults' \in Nat
  BY MsFault DEF MsTypes, AddActive, AddUsed

LEMMA AbortInv ==
    ASSUME MsInv, NEW c \in Client, UNCHANGED requestFrame,
           \/ FreeSlot(c) \/ CompleteBytes(c) \/ AbortS3(c) \/ AbortSession(c) \/ AbortStatus(c)
           \/ UpdateExpiry(c)
    PROVE  MsStepOK /\ MsInv'
  <1>m. PICK m : m = job[c].m
    OBVIOUS
  <1>p. PICK op : op = job[c].op
    OBVIOUS
  <1>h. MsTypes /\ UNCHANGED <<content, versions, unscanned>>
    BY DEF MsInv, requestFrame
  <1>o. job[c].at /= "idle"
    BY DEF At, FreeSlot, CompleteBytes, AbortS3, AbortSession, AbortStatus, UpdateExpiry
  <1>i. m \in Media /\ op /= None
    BY <1>m, <1>p, <1>o, MsHeld
  <1>s. Step0 = {"idle", "multipart", "media", "session", "uploading", "slot", "lock", "s3",
                 "verify", "outbox", "status", "bytes", "expiry"}
    BY DEF Step0
  <1>1. CASE FreeSlot(c)
    <2>1. MsStepOK
      BY <1>1, <1>h, MsQuiet DEF FreeSlot
    <2>2. quota' \in [active : Int, used : Int] /\ faults' \in Nat
      BY <1>1, <1>h, MsQuota DEF FreeSlot
    <2>3. lock' \in [Media -> Client \cup {None}]
      BY <1>1, <1>h, <1>m, <1>i, MsRelease DEF FreeSlot, MsTypes
    <2>4. MsRequestTypes'
      BY <1>1, <1>h, <2>2, <2>3 DEF FreeSlot, MsTypes, MsRequestTypes, Go, Return
    <2>5. MsOutboxOK'
      BY <1>1, <2>1, MsOutboxStays DEF FreeSlot
    <2>6. Return(c) \/ (Go(c, "bytes") /\ MsAt(op, m, "bytes")')
      BY <1>1 DEF FreeSlot, MsAt
    <2> QED
      BY <2>1, <2>4, <2>5, <2>6, <1>p, <1>i, <1>m, <1>s, MsHandlerStep
  <1>2. CASE CompleteBytes(c)
    <2>1. MsStepOK
      BY <1>2, <1>h, MsQuiet DEF CompleteBytes
    <2>2. quota' \in [active : Int, used : Int] /\ faults' \in Nat
      BY <1>2, <1>h, MsQuota DEF CompleteBytes
    <2>3. lock' \in [Media -> Client \cup {None}]
      BY <1>2, <1>h, <1>m, <1>i, MsRelease DEF CompleteBytes
    <2>4. MsRequestTypes'
      BY <1>2, <1>h, <2>2, <2>3 DEF CompleteBytes, MsTypes, MsRequestTypes, Return
    <2>5. MsOutboxOK'
      BY <1>2, <2>1, MsOutboxStays DEF CompleteBytes
    <2> QED
      BY <1>2, <2>1, <2>4, <2>5, <1>p, <1>i, <1>m, MsHandlerStep DEF CompleteBytes
  <1>3. CASE AbortS3(c)
    <2>1. MsStepOK
      BY <1>3, <1>h, MsQuiet DEF AbortS3, redisVars
    <2>2. multipart' \in [Media -> {None, "open", "filled", "done", "aborted"}] /\ faults' \in Nat
      BY <1>3, <1>h, <1>i, <1>m, MsFault DEF AbortS3, AbortMultipart, MsTypes
    <2>3. MsRequestTypes'
      BY <1>3, <1>h, <2>2 DEF AbortS3, redisVars, MsTypes, MsRequestTypes, Go
    <2>4. MsOutboxOK'
      BY <1>3, <2>1, MsOutboxStays DEF AbortS3
    <2>5. Go(c, "session") /\ MsAt(op, m, "session")'
      BY <1>3 DEF AbortS3, MsAt
    <2> QED
      BY <2>1, <2>3, <2>4, <2>5, <1>p, <1>i, <1>m, <1>s, MsHandlerStep
  <1>4. CASE AbortSession(c)
    <2>1. MsStepOK
      BY <1>4, <1>h, MsQuiet DEF AbortSession, redisVars
    <2>2. session' \in [Media -> MsSession] /\ faults' \in Nat
      BY <1>4, <1>h, <1>m, <1>i, MsUpdateSession DEF AbortSession, UploadStatus
    <2>3. MsRequestTypes'
      BY <1>4, <1>h, <2>2 DEF AbortSession, redisVars, MsTypes, MsRequestTypes, Go
    <2>4. MsOutboxOK'
      BY <1>4, <2>1, MsOutboxStays DEF AbortSession
    <2>5. op = "abort" /\ Go(c, "status") /\ MsAt("abort", m, "status")'
      BY <1>4, <1>p DEF AbortSession, At, MsAt
    <2> QED
      BY <2>1, <2>3, <2>4, <2>5, <1>p, <1>i, <1>m, <1>s, MsHandlerStep
  <1>5. CASE AbortStatus(c)
    <2>1. MsMoved(m, "UPLOADING", "ABORTED")
      BY <1>5, <1>m, MsUpdates DEF AbortStatus
    <2>2. MsStepOK
      <3>1. <<"UPLOADING", "ABORTED">> \in MsTaken
        BY DEF MsTaken, allowedTransitions
      <3>2. UNCHANGED <<content, files, versions, keys, outbox>>
        BY <1>5, <1>h DEF AbortStatus, redisVars
      <3> QED
        BY <2>1, <1>h, <1>i, <3>1, <3>2, MsMoveOK
    <2>3. status' \in [Media -> MediaStatus \cup {None}]
      BY <2>1, <1>h, <1>i, MsMovedType DEF MediaStatus
    <2>4. faults' \in Nat
      BY <1>5, <1>h, MsFault DEF AbortStatus, TryStatus
    <2>5. MsRequestTypes'
      BY <1>5, <1>h, <2>3, <2>4 DEF AbortStatus, redisVars, MsTypes, MsRequestTypes, Go
    <2>6. MsOutboxOK'
      BY <1>5, <2>2, MsOutboxStays DEF AbortStatus
    <2>7. Go(c, "slot") /\ MsAt(op, m, "slot")'
      BY <1>5 DEF AbortStatus, MsAt
    <2> QED
      BY <2>2, <2>5, <2>6, <2>7, <1>p, <1>i, <1>m, <1>s, MsHandlerStep
  <1>6. CASE UpdateExpiry(c)
    <2>1. MsStepOK
      BY <1>6, <1>h, MsQuiet DEF UpdateExpiry, redisVars
    <2>2. session' \in [Media -> MsSession]
      <3>1. session[m] \in MsSession
        BY <1>h, <1>i DEF MsTypes
      <3>2. [session[m] EXCEPT !.expired = FALSE, !.renewed = TRUE] \in MsSession
        BY <3>1 DEF MsSession
      <3>3. [session EXCEPT ![m] = [session[m] EXCEPT !.expired = FALSE, !.renewed = TRUE]]
              \in [Media -> MsSession]
        BY <3>2, <1>h DEF MsTypes
      <3>4. [session EXCEPT ![m].expired = FALSE, ![m].renewed = TRUE]
              = [session EXCEPT ![m] = [session[m] EXCEPT !.expired = FALSE, !.renewed = TRUE]]
        BY <1>h, <1>i DEF MsTypes
      <3> QED
        BY <1>6, <1>m, <1>h, <3>3, <3>4 DEF UpdateExpiry, MsTypes
    <2>3. MsRequestTypes'
      BY <1>6, <1>h, <2>2 DEF UpdateExpiry, redisVars, MsTypes, MsRequestTypes, Return
    <2>4. MsOutboxOK'
      BY <1>6, <2>1, MsOutboxStays DEF UpdateExpiry
    <2> QED
      BY <1>6, <2>1, <2>3, <2>4, <1>p, <1>i, <1>m, MsHandlerStep DEF UpdateExpiry
  <1> QED
    BY <1>1, <1>2, <1>3, <1>4, <1>5, <1>6

LEMMA DeleteInv ==
    ASSUME MsInv, NEW c \in Client, UNCHANGED requestFrame, DeleteStatus(c) \/ DeleteOutbox(c)
    PROVE  MsStepOK /\ MsInv'
  <1>m. PICK m : m = job[c].m
    OBVIOUS
  <1>h. MsTypes /\ UNCHANGED <<content, versions, unscanned>>
    BY DEF MsInv, requestFrame
  <1>o. job[c].op = "delete" /\ "delete" /= None
    BY DEF At, DeleteStatus, DeleteOutbox, None
  <1>i. m \in Media
    BY <1>m, <1>o, MsHeld
  <1>1. CASE DeleteStatus(c)
    <2>r. PICK read : read = job[c].read
      OBVIOUS
    <2>1. MsMoved(m, read, "DELETING")
      BY <1>1, <1>m, <2>r, MsUpdates DEF DeleteStatus, MsMoved
    <2>2. <<read, "DELETING">> \in allowedTransitions
      BY <1>1, <2>r DEF DeleteStatus, At, MsInv, MsJobOK
    <2>3. MsStepOK
      <3>1. <<read, "DELETING">> \in MsTaken
        BY <2>2 DEF MsTaken
      <3>2. UNCHANGED <<content, files, versions, keys, outbox>>
        BY <1>1, <1>h DEF DeleteStatus, redisVars
      <3> QED
        BY <2>1, <1>h, <1>i, <3>1, <3>2, MsMoveOK
    <2>4. status' \in [Media -> MediaStatus \cup {None}]
      BY <2>1, <1>h, <1>i, MsMovedType DEF MediaStatus
    <2>5. faults' \in Nat
      BY <1>1, <1>h, MsFault DEF DeleteStatus
    <2>6. MsRequestTypes'
      BY <1>1, <1>h, <2>4, <2>5 DEF DeleteStatus, redisVars, MsTypes, MsRequestTypes, Go, Return
    <2>7. MsOutboxOK'
      BY <1>1, <2>3, MsOutboxStays DEF DeleteStatus
    <2>8. Return(c) \/ (Go(c, "outbox") /\ MsAt("delete", m, "outbox")')
      <3>1. CASE Go(c, "outbox") /\ ~Return(c)
        <4>1. status'[m] = "DELETING"
          BY <1>1, <3>1, <1>m, <1>i, <1>h DEF DeleteStatus, UpdateStatus, MsTypes
        <4> QED
          BY <3>1, <4>1 DEF MsAt, MsGone
      <3> QED
        BY <1>1, <3>1 DEF DeleteStatus
    <2>9. "outbox" \in Step0
      BY DEF Step0
    <2> QED
      BY <2>3, <2>6, <2>7, <2>8, <2>9, <1>o, <1>i, <1>m, MsHandlerStep
  <1>2. CASE DeleteOutbox(c)
    <2>1. /\ outbox' \in [OutboxEvent -> OutboxStatus \cup {None}] /\ faults' \in Nat
          /\ \A e \in OutboxEvent :
                /\ outbox[e] # None => outbox'[e] # None
                /\ outbox'[e] # None => outbox[e] # None \/ e = [m |-> m, type |-> "delete"]
      BY <1>2, <1>m, <1>h, <1>i, MsCreateOutbox DEF DeleteOutbox
    <2>2. MsStepOK
      BY <1>2, <1>h, <2>1, MsQuiet DEF DeleteOutbox, redisVars
    <2>3. MsRequestTypes'
      BY <1>2, <1>h, <2>1 DEF DeleteOutbox, redisVars, MsTypes, MsRequestTypes, Return
    <2>4. MsGone(m)
      BY <1>2, <1>m DEF DeleteOutbox, At, MsInv, MsJobOK
    <2>5. MsOutboxOK'
      <3> SUFFICES ASSUME NEW e \in OutboxEvent, e.type = "delete", outbox'[e] # None
                   PROVE  MsGone(e.m)'
        BY DEF MsOutboxOK, MsGone
      <3>1. outbox[e] # None \/ e.m = m
        BY <2>1
      <3>2. MsGone(e.m)
        BY <3>1, <2>4 DEF MsInv, MsOutboxOK
      <3> QED
        BY <1>2, <3>2 DEF DeleteOutbox, MsGone
    <2> QED
      BY <1>2, <2>2, <2>3, <2>5, <1>o, <1>i, <1>m, MsHandlerStep DEF DeleteOutbox
  <1> QED
    BY <1>1, <1>2

LEMMA RequestStepInv ==
    ASSUME MsInv, NEW c \in Client, RequestStep(c), UNCHANGED requestFrame
    PROVE  MsStepOK /\ MsInv'
  BY CreateInv, CompleteInv, AbortInv, DeleteInv DEF RequestStep

-----------------------------------------------------------------------------
(* Time, the publishers and the reconciliation *)

LEMMA TimeInv ==
    ASSUME MsInv, NEW m \in Media,
           UploadParts(m) \/ SessionExpires(m) \/ LockExpires(m) \/ ListExpired(m)
    PROVE  MsStepOK /\ MsInv'
  <1>h. MsTypes
    BY DEF MsInv
  <1>1. MsStepOK /\ UNCHANGED <<content, status, files, versions, keys, quota, relay, outbox, sent,
                                task, queue, deliveries, job, calls, unscanned>>
    <2>1. UNCHANGED <<content, status, files, versions, keys, quota, relay, outbox, sent,
                      task, queue, deliveries, job, calls, unscanned>>
      BY DEF UploadParts, SessionExpires, LockExpires, ListExpired, redisVars, storeVars, relayVars,
             workerVars, requestVars
    <2> QED
      BY <2>1, MsQuiet
  <1>2. MsQueueOK' /\ MsOutboxOK' /\ MsRelayOK'
    BY <1>1, MsQueueStays, MsOutboxStays, MsRelayStays
  <1>3. session' \in [Media -> MsSession]
    <2>1. CASE UNCHANGED session
      BY <2>1, <1>h DEF MsTypes
    <2>2. CASE SessionExpires(m)
      <3>1. session[m] \in MsSession /\ None \in UploadStatus \cup {None, "PARTIAL"}
        BY <1>h DEF MsTypes
      <3>2. /\ [session[m] EXCEPT !.expired = TRUE] \in MsSession
            /\ [session[m] EXCEPT !.state = None] \in MsSession
            /\ [session[m] EXCEPT !.listed = TRUE] \in MsSession
        BY <3>1 DEF MsSession
      <3> QED
        BY <2>2, <1>h, <3>2 DEF SessionExpires, MsTypes
    <2> QED
      BY <2>1, <2>2 DEF UploadParts, LockExpires, ListExpired
  <1>4. multipart' \in [Media -> {None, "open", "filled", "done", "aborted"}]
    BY <1>h DEF UploadParts, SessionExpires, LockExpires, ListExpired, storeVars, MsTypes
  <1>5. lock' \in [Media -> Client \cup {None}]
    BY <1>h DEF UploadParts, SessionExpires, LockExpires, ListExpired, redisVars, MsTypes
  <1>6. faults' \in Nat
    <2>1. CASE UNCHANGED faults
      BY <2>1, <1>h DEF MsTypes
    <2>2. CASE LockExpires(m)
      BY <2>2, <1>h, MsFault DEF LockExpires
    <2> QED
      BY <2>1, <2>2 DEF UploadParts, SessionExpires, ListExpired
  <1>7. MsTypes'
    BY <1>h, <1>1, <1>3, <1>4, <1>5, <1>6 DEF MsTypes
  <1>8. MsSweepOK'
    <2>1. CASE UNCHANGED sweep
      BY <2>1 DEF MsInv, MsSweepOK
    <2>2. CASE ListExpired(m)
      <3>1. sweep' = [op |-> None, m |-> m, at |-> "s3", read |-> None]
        BY <2>2 DEF ListExpired, Idle
      <3> QED
        BY <3>1 DEF MsSweepOK
    <2> QED
      BY <2>1, <2>2 DEF UploadParts, SessionExpires, LockExpires
  <1> QED
    BY <1>1, <1>2, <1>7, <1>8, MsOtherStep

LEMMA ReconcileInv ==
    ASSUME MsInv, ReconcileExpired
    PROVE  MsStepOK /\ MsInv'
  <1>h. MsTypes
    BY DEF MsInv
  <1>m. PICK m : m = sweep.m
    OBVIOUS
  <1>i. m \in Media /\ sweep = [op |-> None, m |-> m, at |-> sweep.at, read |-> None]
    BY <1>m DEF MsInv, MsSweepOK, ReconcileExpired, Idle
  <1>1. UNCHANGED <<content, files, versions, lock, keys, quota, relay, outbox, sent,
                    task, queue, deliveries, job, calls, unscanned>>
    BY DEF ReconcileExpired, redisVars, relayVars, workerVars, requestVars
  <1>2. MsMoved(m, "UPLOADING", "ABORTED")
    BY <1>m, MsUpdates DEF ReconcileExpired, MsMoved
  <1>3. MsStepOK
    <2>1. <<"UPLOADING", "ABORTED">> \in MsTaken
      BY DEF MsTaken, allowedTransitions
    <2> QED
      BY <1>1, <1>2, <1>h, <1>i, <2>1, MsMoveOK
  <1>4. status' \in [Media -> MediaStatus \cup {None}]
    BY <1>2, <1>h, <1>i, MsMovedType DEF MediaStatus
  <1>5. session' \in [Media -> MsSession] /\ faults' \in Nat
    <2>1. CASE UNCHANGED session /\ (Works \/ Fails)
      BY <2>1, <1>h, MsFault DEF MsTypes
    <2>2. CASE UpdateSession(m, "EXPIRED")
      BY <2>2, <1>h, <1>i, MsUpdateSession DEF UploadStatus
    <2> QED
      BY <2>1, <2>2, <1>m DEF ReconcileExpired, TryStatus
  <1>6. multipart' \in [Media -> {None, "open", "filled", "done", "aborted"}]
    BY <1>h, <1>m, <1>i DEF ReconcileExpired, AbortMultipart, MsTypes
  <1>7. MsTypes'
    BY <1>h, <1>1, <1>4, <1>5, <1>6 DEF MsTypes
  <1>8. MsSweepOK'
    <2>1. CASE sweep' = Idle
      BY <2>1 DEF MsSweepOK
    <2>2. CASE \E at \in {"session", "media"} : sweep' = [sweep EXCEPT !.at = at]
      <3>1. PICK at \in {"session", "media"} : sweep' = [sweep EXCEPT !.at = at]
        BY <2>2
      <3>2. sweep' = [op |-> None, m |-> m, at |-> at, read |-> None]
        BY <3>1, <1>i
      <3> QED
        BY <3>2, <1>i DEF MsSweepOK
    <2> QED
      BY <2>1, <2>2 DEF ReconcileExpired
  <1>9. MsQueueOK' /\ MsOutboxOK' /\ MsRelayOK'
    BY <1>1, <1>3, MsQueueStays, MsOutboxStays, MsRelayStays
  <1> QED
    BY <1>1, <1>3, <1>7, <1>8, <1>9, MsOtherStep

\* A message adds to the queues of the groups that read its topic.
LEMMA MsEnqueue ==
    ASSUME MsTypes, NEW topic \in {"completed", "scanned", "delete"}, NEW m \in Media, Enqueue(topic, m)
    PROVE  /\ queue' \in [Group -> [Media -> Nat]]
           /\ \A g \in Group, x \in Media :
                 queue'[g][x] > 0 => queue[g][x] > 0 \/ (x = m /\ g \in Readers(topic))
  <1>1. queue \in [Group -> [Media -> Nat]]
    BY DEF MsTypes
  <1>2. ASSUME NEW g \in Group PROVE queue'[g] \in [Media -> Nat]
    BY <1>1 DEF Enqueue
  <1>3. queue' = [g \in Group |-> queue'[g]]
    BY DEF Enqueue
  <1>4. queue' \in [Group -> [Media -> Nat]]
    BY <1>2, <1>3
  <1>5. ASSUME NEW g \in Group, NEW x \in Media, ~(x = m /\ g \in Readers(topic))
        PROVE  queue'[g][x] = queue[g][x]
    BY <1>1, <1>5 DEF Enqueue
  <1> QED
    BY <1>4, <1>5

LEMMA PublishInv ==
    ASSUME MsInv, NEW p \in Relay, Publish(p)
    PROVE  MsStepOK /\ MsInv'
  <1>h. MsTypes /\ MsRelayOK
    BY DEF MsInv
  <1>1. UNCHANGED <<content, status, session, multipart, files, versions, lock, keys, quota,
                    task, deliveries, job, calls, sweep, unscanned>>
    BY DEF Publish, ListPending, PublishEvent, MarkPublished, storeVars, redisVars, workerVars,
           requestVars
  <1>2. /\ relay = [q \in Relay |-> relay[q]]
        /\ \/ relay[p] = [e |-> None, at |-> "idle"]
           \/ /\ relay[p].e \in OutboxEvent /\ outbox[relay[p].e] # None
              /\ \E at \in {"publish", "mark"} : relay[p] = [e |-> relay[p].e, at |-> at]
    BY <1>h DEF MsRelayOK
  <1>3. MsSweepOK'
    BY <1>1 DEF MsInv, MsSweepOK
  <1>4. outbox' \in [OutboxEvent -> OutboxStatus \cup {None}] /\ faults' \in Nat
        /\ \A e \in OutboxEvent : outbox[e] # None <=> outbox'[e] # None
    <2>1. CASE UNCHANGED <<outbox, faults>>
      BY <2>1, <1>h DEF MsTypes
    <2>2. CASE PublishEvent(p)
      BY <2>2, <1>h, MsFault DEF PublishEvent, MsTypes
    <2>3. CASE MarkPublished(p)
      BY <2>3, <1>h, MsFault DEF MarkPublished, SetPublished, Pending, MsTypes, OutboxStatus, None
    <2> QED
      BY <2>1, <2>2, <2>3 DEF Publish, ListPending
  <1>5. MsStepOK
    BY <1>1, <1>4, MsQuiet
  <1>6. MsOutboxOK'
    BY <1>1, <1>4 DEF MsInv, MsOutboxOK, MsGone
  <1>7. /\ sent' \subseteq {e \in OutboxEvent : outbox'[e] # None}
        /\ queue' \in [Group -> [Media -> Nat]] /\ MsQueueOK'
    <2>1. CASE UNCHANGED <<sent, queue>>
      BY <2>1, <1>h, <1>4, <1>5, MsQueueStays DEF MsTypes
    <2>2. CASE PublishEvent(p) /\ ~UNCHANGED <<sent, queue>>
      <3>e. PICK e : e = relay[p].e
        OBVIOUS
      <3>1. e \in OutboxEvent /\ outbox[e] # None
        BY <2>2, <1>2, <3>e DEF PublishEvent
      <3>2. e.m \in Media /\ e.type \in {"completed", "delete"}
        BY <3>1 DEF OutboxEvent
      <3>3. Enqueue(e.type, e.m) /\ sent' = sent \cup {e}
        BY <2>2, <3>e DEF PublishEvent
      <3>4. /\ queue' \in [Group -> [Media -> Nat]]
            /\ \A g \in Group, x \in Media :
                 queue'[g][x] > 0 => queue[g][x] > 0 \/ (x = e.m /\ g \in Readers(e.type))
        BY <3>2, <3>3, <1>h, MsEnqueue
      <3>5. sent' \subseteq {f \in OutboxEvent : outbox'[f] # None}
        BY <3>1, <3>3, <1>4, <1>h DEF MsTypes
      <3>6. ASSUME NEW x \in Media, NEW g \in MsDerivers, queue'[g][x] > 0
            PROVE  MsClean(x)'
        <4>1. g \in Group /\ g \notin Readers(e.type)
          BY <3>2 DEF MsDerivers, Group, Readers
        <4> QED
          BY <4>1, <3>4, <3>6, <1>1 DEF MsInv, MsQueueOK, MsClean
      <3>7. ASSUME NEW x \in Media, queue'["delete"][x] > 0
            PROVE  MsGone(x)'
        <4>1. "delete" \in Group
          BY DEF Group
        <4>2. CASE queue["delete"][x] > 0
          BY <4>2, <1>1 DEF MsInv, MsQueueOK, MsGone
        <4>3. CASE x = e.m /\ "delete" \in Readers(e.type)
          <5>1. e.type = "delete"
            BY <4>3, <3>2 DEF Readers
          <5> QED
            BY <5>1, <4>3, <3>1, <1>1 DEF MsInv, MsOutboxOK, MsGone
        <4> QED
          BY <4>1, <4>2, <4>3, <3>4, <3>7
      <3> QED
        BY <3>4, <3>5, <3>6, <3>7 DEF MsQueueOK
    <2> QED
      BY <2>1, <2>2 DEF Publish, ListPending, MarkPublished, workerVars
  <1>8. MsTypes'
    BY <1>h, <1>1, <1>4, <1>7 DEF MsTypes
  <1>9. MsRelayOK'
    <2>r. PICK r : relay' = [relay EXCEPT ![p] = r] /\
                   \/ r = [e |-> None, at |-> "idle"]
                   \/ /\ r.e \in OutboxEvent /\ outbox[r.e] # None
                      /\ \E at \in {"publish", "mark"} : r = [e |-> r.e, at |-> at]
      <3>1. CASE ListPending(p)
        <4>1. PICK e \in OutboxEvent :
                Pending(e) /\ relay' = [relay EXCEPT ![p] = [e |-> e, at |-> "publish"]]
          BY <3>1 DEF ListPending
        <4>2. PICK r : r = [e |-> e, at |-> "publish"]
          OBVIOUS
        <4>3. r.e = e /\ outbox[e] # None
          BY <4>1, <4>2 DEF Pending, None
        <4>4. relay' = [relay EXCEPT ![p] = r]
          BY <4>1, <4>2
        <4>5. r.e \in OutboxEvent /\ outbox[r.e] # None
              /\ \E at \in {"publish", "mark"} : r = [e |-> r.e, at |-> at]
          BY <4>2, <4>3
        <4> QED
          BY <4>4, <4>5
      <3>2. CASE PublishEvent(p)
        <4>1. CASE relay' = [relay EXCEPT ![p].at = "mark"]
          <5>1. relay[p].e \in OutboxEvent /\ outbox[relay[p].e] # None
                /\ \E at \in {"publish", "mark"} : relay[p] = [e |-> relay[p].e, at |-> at]
            BY <3>2, <1>2 DEF PublishEvent
          <5>2. PICK r : r = [e |-> relay[p].e, at |-> "mark"]
            OBVIOUS
          <5>3. [relay[p] EXCEPT !.at = "mark"] = r
            BY <5>1, <5>2
          <5>4. relay' = [relay EXCEPT ![p] = r]
            BY <4>1, <5>3
          <5>5. r.e = relay[p].e
            BY <5>2
          <5>6. r.e \in OutboxEvent /\ outbox[r.e] # None
                /\ \E at \in {"publish", "mark"} : r = [e |-> r.e, at |-> at]
            BY <5>1, <5>2, <5>5
          <5> QED
            BY <5>4, <5>6
        <4> QED
          BY <4>1, <3>2 DEF PublishEvent
      <3>3. CASE MarkPublished(p)
        BY <3>3 DEF MarkPublished
      <3> QED
        BY <3>1, <3>2, <3>3 DEF Publish
    <2>1. relay'[p] = r /\ \A q \in Relay \ {p} : relay'[q] = relay[q]
      BY <2>r, <1>2
    <2>2. relay' = [q \in Relay |-> relay'[q]]
      BY <2>r, <1>2
    <2> QED
      BY <2>1, <2>2, <2>r, <1>4, <1>h DEF MsRelayOK
  <1> QED
    BY <1>1, <1>3, <1>5, <1>6, <1>7, <1>8, <1>9, MsOtherStep

-----------------------------------------------------------------------------
(* Workers *)

MsWorkerTypes ==
    /\ status \in [Media -> MediaStatus \cup {None}]
    /\ files \in [Media -> SUBSET {"original", "truncated", "image", "video", "compression"}]
    /\ versions \in [Media -> SUBSET {"image", "video", "compression", "metadata"}]
    /\ quota \in [active : Int, used : Int]
    /\ queue \in [Group -> [Media -> Nat]]
    /\ unscanned \subseteq Media
    /\ deliveries \in Nat /\ faults \in Nat

LEMMA MsWorkerTyped ==
    ASSUME MsTypes, MsWorkerTypes', UNCHANGED workerFrame
    PROVE  MsTypes'
  BY DEF MsTypes, MsWorkerTypes, workerFrame, redisVars, relayVars, requestVars

LEMMA MsTaskHeld ==
    ASSUME MsInv, NEW w \in Slot, task[w].op /= None \/ task[w].at /= "idle"
    PROVE  /\ task[w].m \in Media /\ task[w].op \in Group
           /\ task[w].op \in MsDerivers => MsClean(task[w].m)
           /\ task[w].op = "delete" => MsGone(task[w].m)
  <1>1. PICK t : t = task[w]
    OBVIOUS
  <1>2. MsTaskOK(t)
    BY <1>1 DEF MsInv
  <1>3. t /= Idle
    BY <1>1 DEF Idle
  <1> QED
    BY <1>1, <1>2, <1>3 DEF MsTaskOK

\* Where a goroutine goes on, and what must hold there.
MsGoes == {"scan", "found", "clean", "announce", "ready", "put", "record", "mark", "bytes", "error"}
MsTaskAt(op, m, at) ==
    /\ op = "scanner" /\ at \in {"clean", "announce"} => MsClean(m)
    /\ op = "scanner" /\ at \in Scanning => status[m] \notin MsEarly
    /\ op \in {"image", "video", "compression"} /\ at = "record" => op \in files[m] \/ MsGone(m)

LEMMA MsGoroutineStep ==
    ASSUME MsInv, MsStepOK, MsWorkerTypes', NEW w \in Slot, NEW op, op /= None, NEW m,
           task[w].op = op, task[w].m = m,
           \/ End(w)
           \/ \E at \in MsGoes :
                 /\ Step(w, at) /\ MsTaskAt(op, m, at)'
                 /\ op = "scanner" /\ at \in Scanning => status[m] \in MsEarly \/ MsScans(w, m),
           MsQueueOK', UNCHANGED workerFrame
    PROVE  MsStepOK /\ MsInv'
  <1>1. MsTypes'
    BY MsWorkerTyped DEF MsInv
  <1>2. m \in Media /\ op \in Group /\ (op \in MsDerivers => MsClean(m))
        /\ (op = "delete" => MsGone(m))
    BY MsTaskHeld
  <1>3. CASE End(w)
    <2>1. MsTaskOK(Idle)'
      BY DEF MsTaskOK, MsTask, Idle, None, MsDerivers, Scanning
    <2>2. Idle.op /= "scanner"
      BY DEF Idle, None
    <2> QED
      BY <1>1, <1>3, <2>1, <2>2, MsWorkerStep DEF End
  <1>4. ASSUME NEW at \in MsGoes,
               Step(w, at), MsTaskAt(op, m, at)',
               op = "scanner" /\ at \in Scanning => status[m] \in MsEarly \/ MsScans(w, m)
        PROVE  MsInv'
    <2>t. PICK t : t = [task[w] EXCEPT !.at = at]
      OBVIOUS
    <2>1. task[w] \in MsTask
      BY DEF MsInv, MsTaskOK
    <2>2. t \in MsTask /\ t.op = op /\ t.m = m /\ t.at = at
      BY <2>t, <2>1 DEF MsTask, MsGoes
    <2>3. op \in MsDerivers => MsClean(m)'
      BY <1>2 DEF MsStepOK, MsClean
    <2>4. op = "delete" => MsGone(m)'
      BY <1>2, MsForward
    <2>5. MsTaskOK(t)'
      BY <2>2, <2>3, <2>4, <1>2, <1>4 DEF MsTaskOK, MsTaskAt
    <2>6. task' = [task EXCEPT ![w] = t]
      BY <1>4, <2>t DEF Step
    <2> QED
      BY <1>1, <1>4, <2>2, <2>5, <2>6, MsWorkerStep
  <1> QED
    BY <1>3, <1>4

LEMMA DeliverInv ==
    ASSUME MsInv, NEW w \in Slot, NEW g \in Group, NEW m \in Media, Deliver(w, g, m),
           UNCHANGED workerFrame, UNCHANGED unscanned
    PROVE  MsStepOK /\ MsInv'
  <1>h. MsTypes
    BY DEF MsInv
  <1>1. MsStepOK
    BY MsQuiet DEF Deliver, workerFrame, redisVars, relayVars
  <1>2. queue' \in [Group -> [Media -> Nat]]
        /\ \A f \in Group, x \in Media : queue'[f][x] > 0 => queue[f][x] > 0
    <2>q. queue \in [Group -> [Media -> Nat]]
      BY <1>h DEF MsTypes
    <2>1. CASE UNCHANGED queue
      BY <2>1, <2>q
    <2>2. CASE queue' = [queue EXCEPT ![g][m] = @ - 1]
      <3>1. queue[g][m] \in Nat /\ queue[g][m] - 1 \in Nat
        <4>1. queue[g][m] \in Nat
          BY <2>q
        <4> QED
          BY <4>1 DEF Deliver
      <3>2. [queue[g] EXCEPT ![m] = queue[g][m] - 1] \in [Media -> Nat]
        BY <3>1, <2>q
      <3>3. queue' = [queue EXCEPT ![g] = [queue[g] EXCEPT ![m] = queue[g][m] - 1]]
        BY <2>2
      <3>4. queue' \in [Group -> [Media -> Nat]]
        BY <3>2, <3>3, <2>q
      <3>5. ASSUME NEW f \in Group, NEW x \in Media
            PROVE  queue'[f][x] = IF f = g /\ x = m THEN queue[g][m] - 1 ELSE queue[f][x]
        BY <3>3, <2>q
      <3> QED
        BY <3>1, <3>4, <3>5
    <2> QED
      BY <2>1, <2>2 DEF Deliver
  <1>3. MsQueueOK'
    <2>1. MsDerivers \subseteq Group /\ "delete" \in Group
      BY DEF MsDerivers, Group
    <2>2. UNCHANGED <<content, status>>
      BY DEF Deliver, workerFrame
    <2> QED
      BY <1>2, <2>1, <2>2 DEF MsInv, MsQueueOK, MsGone, MsClean
  <1>4. deliveries' \in Nat /\ faults' \in Nat
    BY <1>h, MsFault DEF Deliver, MsTypes
  <1>5. MsTypes'
    <2>1. MsWorkerTypes'
      BY <1>h, <1>2, <1>4 DEF Deliver, MsWorkerTypes, MsTypes
    <2> QED
      BY <1>h, <2>1, MsWorkerTyped
  <1>6. CASE ~Mine(g, m)
    <2>1. UNCHANGED <<job, task, sweep, relay, outbox>>
      BY <1>6 DEF Deliver, workerFrame, requestVars, relayVars
    <2>2. MsSweepOK' /\ MsOutboxOK' /\ MsRelayOK'
      BY <1>1, <2>1, MsOutboxStays, MsRelayStays DEF MsInv, MsSweepOK
    <2> QED
      BY <1>1, <1>3, <1>5, <2>1, <2>2, MsOtherStep
  <1>7. CASE Mine(g, m)
    <2>t. PICK t : t = [op |-> g, m |-> m, at |-> "start", read |-> None]
      OBVIOUS
    <2>1. task' = [task EXCEPT ![w] = t]
      <3>1. [Idle EXCEPT !.op = g, !.m = m, !.at = "start"]
              = [op |-> g, m |-> m, at |-> "start", read |-> None]
        <4>1. PICK a : a = [op |-> g, m |-> None, at |-> "idle", read |-> None]
          OBVIOUS
        <4>2. [Idle EXCEPT !.op = g] = a
          BY <4>1 DEF Idle
        <4>3. PICK b : b = [op |-> g, m |-> m, at |-> "idle", read |-> None]
          OBVIOUS
        <4>4. [a EXCEPT !.m = m] = b
          BY <4>1, <4>3
        <4>5. [b EXCEPT !.at = "start"] = [op |-> g, m |-> m, at |-> "start", read |-> None]
          BY <4>3
        <4> QED
          BY <4>2, <4>4, <4>5
      <3> QED
        BY <1>7, <2>t, <3>1 DEF Deliver
    <2>2. t \in MsTask /\ t.op = g /\ t.m = m /\ t.at = "start"
      BY <2>t DEF MsTask
    <2>3. g \in MsDerivers => MsClean(m)'
      BY DEF Deliver, MsInv, MsQueueOK, MsClean, workerFrame
    <2>4. g = "delete" => MsGone(m)'
      BY DEF Deliver, MsInv, MsQueueOK, MsGone
    <2>5. MsTaskOK(t)'
      BY <2>2, <2>3, <2>4 DEF MsTaskOK, Scanning
    <2> QED
      BY <1>1, <1>3, <1>5, <2>1, <2>2, <2>5, MsWorkerStep DEF Scanning
  <1> QED
    BY <1>6, <1>7

\* A worker that changes no row and no object.
LEMMA MsIdleWorker ==
    ASSUME MsInv, UNCHANGED <<status, files, versions, quota, queue, deliveries>>, faults' \in Nat,
           UNCHANGED workerFrame, unscanned \subseteq unscanned', unscanned' \subseteq Media
    PROVE  MsStepOK /\ MsWorkerTypes' /\ MsQueueOK'
  <1>1. MsStepOK
    BY MsQuiet DEF workerFrame, redisVars, relayVars
  <1>2. MsQueueOK'
    BY <1>1, MsQueueStays
  <1> QED
    BY <1>1, <1>2 DEF MsInv, MsTypes, MsWorkerTypes

\* A worker that only moves a status.
LEMMA MsMovingWorker ==
    ASSUME MsInv, NEW m \in Media, NEW current, NEW next \in MediaStatus,
           <<current, next>> \in MsTaken, next /= "UPLOADED", MsMoved(m, current, next),
           status[m] = current /\ next \in {"PROCESSING", "READY"} => MsClean(m),
           UNCHANGED <<files, versions, quota, queue, deliveries>>, faults' \in Nat,
           UNCHANGED workerFrame, UNCHANGED unscanned
    PROVE  MsStepOK /\ MsWorkerTypes' /\ MsQueueOK'
  <1>1. UNCHANGED <<content, keys, outbox>>
    BY DEF workerFrame, redisVars, relayVars
  <1>2. MsStepOK
    BY <1>1, MsMoveOK DEF MsInv
  <1>3. MsQueueOK'
    BY <1>2, MsQueueStays
  <1>4. status' \in [Media -> MediaStatus \cup {None}]
    BY MsMovedType DEF MsInv
  <1> QED
    BY <1>2, <1>3, <1>4 DEF MsInv, MsTypes, MsWorkerTypes

LEMMA ScannerInv ==
    ASSUME MsInv, NEW w \in Slot, UNCHANGED workerFrame, UNCHANGED unscanned,
           \/ JobFailed(w) \/ ScanClaim(w) \/ ScanQuarantine(w) \/ ScanPass(w)
           \/ ScanAnnounce(w) \/ ScanReady(w)
    PROVE  MsStepOK /\ MsInv'
  <1>m. PICK m : m = task[w].m
    OBVIOUS
  <1>p. PICK op : op = task[w].op
    OBVIOUS
  <1>h. MsTypes /\ UNCHANGED content
    BY DEF MsInv, workerFrame
  <1>o. task[w].at /= "idle"
    BY DEF On, JobFailed, ScanClaim, ScanQuarantine, ScanPass, ScanAnnounce, ScanReady
  <1>i. m \in Media /\ op /= None
    BY <1>m, <1>p, <1>o, MsTaskHeld DEF Group, None
  <1>1. CASE JobFailed(w)
    <2>1. faults' \in Nat
      BY <1>1, <1>h DEF JobFailed, MsTypes
    <2>2. MsStepOK /\ MsWorkerTypes' /\ MsQueueOK'
      BY <1>1, <1>h, <2>1, MsIdleWorker DEF JobFailed, MsTypes
    <2> QED
      BY <1>1, <2>2, <1>m, <1>p, <1>i, MsGoroutineStep DEF MsGoes, Scanning, None, JobFailed
  <1>2. CASE ScanClaim(w)
    <2>1. faults' \in Nat
      BY <1>2, <1>h, MsFault DEF ScanClaim
    <2>2. MsMoved(m, "UPLOADED", "SCANNING")
      BY <1>2, <1>m, MsUpdates DEF ScanClaim, MsMoved
    <2>3. <<"UPLOADED", "SCANNING">> \in MsTaken
      BY DEF MsTaken, allowedTransitions
    <2>4. MsStepOK /\ MsWorkerTypes' /\ MsQueueOK'
      <3>1. UNCHANGED <<files, versions, quota, queue, deliveries>>
        BY <1>2 DEF ScanClaim
      <3> QED
        BY <3>1, <2>1, <2>2, <2>3, <1>i, MsMovingWorker DEF MediaStatus
    <2>5. CASE End(w)
      BY <2>5, <2>4, <1>m, <1>p, <1>i, MsGoroutineStep DEF MsGoes, Scanning, None
    <2>6. CASE status[m] = "UPLOADED" /\ UpdateStatus(m, "UPLOADED", "SCANNING") /\ Step(w, "scan")
      <3>1. status'[m] = "SCANNING"
        BY <2>6, <1>h, <1>i DEF UpdateStatus, MsTypes
      <3>2. MsTaskAt(op, m, "scan")'
        BY <3>1 DEF MsTaskAt, Scanning, MsEarly, None
      <3>3. status[m] \in MsEarly
        BY <2>6 DEF MsEarly
      <3> QED
        BY <2>6, <3>2, <3>3, <2>4, <1>m, <1>p, <1>i, MsGoroutineStep DEF MsGoes, Scanning, None
    <2> QED
      BY <1>2, <1>m, <2>5, <2>6 DEF ScanClaim
  <1>3. CASE ScanQuarantine(w)
    <2>1. faults' \in Nat
      BY <1>3, <1>h, MsFault DEF ScanQuarantine, TryStatus
    <2>2. UNCHANGED <<files, versions, quota, queue, deliveries>> /\ End(w)
      BY <1>3 DEF ScanQuarantine
    <2>3. MsMoved(m, "SCANNING", "QUARANTINED")
      BY <1>3, <1>m, MsUpdates DEF ScanQuarantine
    <2>4. <<"SCANNING", "QUARANTINED">> \in MsTaken
      BY DEF MsTaken, allowedTransitions
    <2>5. MsStepOK /\ MsWorkerTypes' /\ MsQueueOK'
      BY <2>1, <2>2, <2>3, <2>4, <1>i, MsMovingWorker DEF MediaStatus
    <2> QED
      BY <2>2, <2>5, <1>m, <1>p, <1>i, MsGoroutineStep DEF MsGoes, Scanning, None
  <1>6. CASE ScanPass(w)
    <2>1. faults' \in Nat
      BY <1>6, <1>h, MsFault DEF ScanPass
    <2>2. UNCHANGED <<files, versions, quota, queue, deliveries>>
      BY <1>6 DEF ScanPass
    <2>3. MsClean(m)
      BY <1>6, <1>m DEF ScanPass, On, MsInv, MsTaskOK
    <2>4. MsMoved(m, "SCANNING", "PROCESSING")
      BY <1>6, <1>m, MsUpdates DEF ScanPass, MsMoved
    <2>5. <<"SCANNING", "PROCESSING">> \in MsTaken
      BY DEF MsTaken, allowedTransitions
    <2>6. MsStepOK /\ MsWorkerTypes' /\ MsQueueOK'
      BY <2>1, <2>2, <2>3, <2>4, <2>5, <1>i, MsMovingWorker DEF MediaStatus
    <2>7. MsClean(m)'
      BY <2>3, <1>h DEF MsClean
    <2>8. Step(w, "announce") \/ Step(w, "error")
      BY <1>6 DEF ScanPass, EndError
    <2>9. MsTaskAt(op, m, "announce")' /\ MsTaskAt(op, m, "error")'
      BY <2>7 DEF MsTaskAt, Scanning
    <2> QED
      BY <2>6, <2>8, <2>9, <1>m, <1>p, <1>i, MsGoroutineStep DEF MsGoes, Scanning, None
  <1>4. CASE ScanAnnounce(w)
    <2>1. faults' \in Nat /\ UNCHANGED <<status, files, versions, quota, deliveries>>
      BY <1>4, <1>h, MsFault DEF ScanAnnounce
    <2>2. MsClean(m)
      BY <1>4, <1>m DEF ScanAnnounce, On, MsInv, MsTaskOK
    <2>3. MsStepOK
      BY <2>1, <1>h, MsQuiet DEF workerFrame, redisVars, relayVars
    <2>4. queue' \in [Group -> [Media -> Nat]] /\ MsQueueOK'
      <3>1. CASE UNCHANGED queue
        BY <3>1, <1>h, <2>3, MsQueueStays DEF MsTypes
      <3>2. CASE Enqueue("scanned", m)
        <4>1. /\ queue' \in [Group -> [Media -> Nat]]
              /\ \A g \in Group, x \in Media :
                   queue'[g][x] > 0 => queue[g][x] > 0 \/ (x = m /\ g \in Readers("scanned"))
          BY <3>2, <1>h, <1>i, MsEnqueue
        <4>2. MsDerivers \subseteq Group /\ "delete" \in Group /\ "delete" \notin Readers("scanned")
          BY DEF MsDerivers, Group, Readers
        <4>3. \A x \in Media, g \in MsDerivers : queue'[g][x] > 0 => MsClean(x)'
          BY <4>1, <4>2, <2>2, <1>h DEF MsInv, MsQueueOK, MsClean
        <4>4. \A x \in Media : queue'["delete"][x] > 0 => MsGone(x)'
          BY <4>1, <4>2, <2>1 DEF MsInv, MsQueueOK, MsGone
        <4> QED
          BY <4>1, <4>3, <4>4 DEF MsQueueOK
      <3> QED
        BY <1>4, <1>m, <3>1, <3>2 DEF ScanAnnounce
    <2>5. MsWorkerTypes'
      BY <2>1, <2>4, <1>h DEF MsTypes, MsWorkerTypes
    <2>6. End(w) \/ (Step(w, "ready") /\ MsTaskAt(op, m, "ready")')
      BY <1>4 DEF ScanAnnounce, MsTaskAt, Scanning
    <2> QED
      BY <2>3, <2>4, <2>5, <2>6, <1>m, <1>p, <1>i, MsGoroutineStep DEF MsGoes, Scanning, None
  <1>5. CASE ScanReady(w)
    <2>1. faults' \in Nat
      BY <1>5, <1>h, MsFault DEF ScanReady, TryStatus
    <2>2. MsMoved(m, "PROCESSING", "READY")
      BY <1>5, <1>m, MsUpdates DEF ScanReady
    <2>3. status[m] = "PROCESSING" => MsClean(m)
      BY <1>i DEF MsInv, InfectedContained, MsClean
    <2>4. <<"PROCESSING", "READY">> \in MsTaken
      BY DEF MsTaken, allowedTransitions
    <2>5. UNCHANGED <<files, versions, quota, queue, deliveries>> /\ End(w)
      BY <1>5 DEF ScanReady
    <2>6. MsStepOK /\ MsWorkerTypes' /\ MsQueueOK'
      BY <2>1, <2>2, <2>3, <2>4, <2>5, <1>i, MsMovingWorker DEF MediaStatus
    <2> QED
      BY <2>5, <2>6, <1>m, <1>p, <1>i, MsGoroutineStep DEF MsGoes, Scanning, None
  <1> QED
    BY <1>1, <1>2, <1>3, <1>4, <1>5, <1>6

\* The verdict of ClamAV, or its absence.
LEMMA ScanFileInv ==
    ASSUME MsInv, NEW w \in Slot, UNCHANGED workerFrame, ScanFile(w)
    PROVE  MsStepOK /\ MsInv'
  <1>m. PICK m : m = task[w].m
    OBVIOUS
  <1>h. MsTypes /\ UNCHANGED content
    BY DEF MsInv, workerFrame
  <1>o. task[w].op = "scanner" /\ task[w].at = "scan"
    BY DEF ScanFile, On
  <1>i. m \in Media
    BY <1>m, <1>o, MsTaskHeld
  <1>s. MsScans(w, m) /\ status[m] \notin MsEarly
    BY <1>m, <1>o DEF MsScans, Scanning, MsInv, MsTaskOK
  <1>1. faults' \in Nat /\ UNCHANGED <<status, files, versions, quota, queue, deliveries>>
    BY <1>h, MsFault DEF ScanFile, NoVerdict
  <1>2. unscanned \subseteq unscanned' /\ unscanned' \subseteq Media
    BY <1>m, <1>i, <1>h DEF ScanFile, NoVerdict, MsTypes
  <1>3. MsStepOK /\ MsWorkerTypes' /\ MsQueueOK'
    BY <1>1, <1>2, MsIdleWorker
  <1>4. \/ Step(w, "found") \/ Step(w, "error")
        \/ Step(w, "clean") /\ MsClean(m)'
    BY <1>m, <1>h DEF ScanFile, NoVerdict, Infected, EndError, MsClean
  <1>5. \E at \in {"found", "error", "clean"} : Step(w, at) /\ MsTaskAt("scanner", m, at)'
    BY <1>4, <1>s, <1>1 DEF MsTaskAt, Scanning
  <1> QED
    BY <1>3, <1>5, <1>m, <1>o, <1>s, MsGoroutineStep DEF MsGoes, Scanning, None

LEMMA FetchInv ==
    ASSUME MsInv, NEW w \in Slot, UNCHANGED workerFrame, UNCHANGED unscanned,
           ImageFetch(w) \/ VideoFetch(w) \/ CompressFetch(w)
    PROVE  MsStepOK /\ MsInv'
  <1>m. PICK m : m = task[w].m
    OBVIOUS
  <1>p. PICK op : op = task[w].op
    OBVIOUS
  <1>h. MsTypes
    BY DEF MsInv
  <1>o. op \in {"image", "video", "compression"} /\ op /= None /\ Fetch(w)
    BY <1>p DEF ImageFetch, VideoFetch, CompressFetch, On, None
  <1>i. m \in Media /\ MsClean(m)
    BY <1>m, <1>p, <1>o, MsTaskHeld DEF MsDerivers
  <1>1. faults' \in Nat /\ UNCHANGED <<files, versions, quota, queue, deliveries>>
    BY <1>o, <1>h, MsFault DEF Fetch
  <1>2. MsMoved(m, "SCANNING", "PROCESSING")
    <2>1. CASE UNCHANGED status
      BY <2>1 DEF MsMoved
    <2>2. CASE VideoFetch(w)
      BY <2>2, <1>m, MsUpdates DEF VideoFetch
    <2> QED
      BY <2>1, <2>2 DEF ImageFetch, CompressFetch
  <1>3. <<"SCANNING", "PROCESSING">> \in MsTaken
    BY DEF MsTaken, allowedTransitions
  <1>4. MsStepOK /\ MsWorkerTypes' /\ MsQueueOK'
    BY <1>1, <1>2, <1>3, <1>i, MsMovingWorker DEF MediaStatus
  <1>5. \E at \in {"put", "error"} : Step(w, at) /\ MsTaskAt(op, m, at)'
    <2>1. Step(w, "put") \/ Step(w, "error")
      BY <1>o DEF Fetch, EndError
    <2>2. MsTaskAt(op, m, "put")' /\ MsTaskAt(op, m, "error")'
      BY DEF MsTaskAt, Scanning
    <2> QED
      BY <2>1, <2>2
  <1> QED
    BY <1>4, <1>5, <1>m, <1>p, <1>o, MsGoroutineStep DEF MsGoes, Scanning, None

LEMMA PutInv ==
    ASSUME MsInv, NEW w \in Slot, UNCHANGED workerFrame, UNCHANGED unscanned, ImagePut(w) \/ VideoPut(w) \/ CompressPut(w)
    PROVE  MsStepOK /\ MsInv'
  <1>m. PICK m : m = task[w].m
    OBVIOUS
  <1>p. PICK op : op = task[w].op
    OBVIOUS
  <1>h. MsTypes /\ UNCHANGED content
    BY DEF MsInv, workerFrame
  <1>o. op \in {"image", "video", "compression"} /\ op /= None
    BY <1>p DEF ImagePut, VideoPut, CompressPut, On, None
  <1>i. m \in Media
    BY <1>m, <1>p, <1>o, MsTaskHeld
  <1>1. faults' \in Nat /\ UNCHANGED <<status, versions, quota, queue, deliveries>>
    BY <1>h, MsFault DEF ImagePut, VideoPut, CompressPut, Rendition
  <1>2. UNCHANGED files \/ files' = [files EXCEPT ![m] = @ \cup {op}]
    BY <1>m, <1>p DEF ImagePut, VideoPut, CompressPut, Rendition, PutObject, On
  <1>3. MsStepOK
    <2>1. \A x \in Media : files[x] \subseteq files'[x]
      BY <1>2, <1>h DEF MsTypes
    <2>2. UNCHANGED <<keys, outbox>>
      BY DEF workerFrame, redisVars, relayVars
    <2> QED
      BY <2>1, <2>2, <1>1, <1>h DEF MsStepOK
  <1>4. files' \in [Media -> SUBSET {"original", "truncated", "image", "video", "compression"}]
    BY <1>2, <1>h, <1>i, <1>o DEF MsTypes
  <1>5. MsWorkerTypes' /\ MsQueueOK'
    BY <1>1, <1>3, <1>4, <1>h, MsQueueStays DEF MsTypes, MsWorkerTypes
  <1>6. \/ End(w)
        \/ \E at \in {"record", "ready", "error"} : Step(w, at) /\ MsTaskAt(op, m, at)'
    <2>1. \/ End(w) \/ Step(w, "ready") \/ Step(w, "error")
          \/ Step(w, "record") /\ files' = [files EXCEPT ![m] = @ \cup {op}]
      BY <1>m, <1>p DEF ImagePut, VideoPut, CompressPut, Rendition, PutObject, On, EndError
    <2>2. MsTaskAt(op, m, "ready")' /\ MsTaskAt(op, m, "error")'
      BY DEF MsTaskAt, Scanning
    <2>3. files' = [files EXCEPT ![m] = @ \cup {op}] => MsTaskAt(op, m, "record")'
      BY <1>o, <1>i, <1>h DEF MsTaskAt, Scanning, MsTypes
    <2> QED
      BY <2>1, <2>2, <2>3
  <1> QED
    BY <1>3, <1>5, <1>6, <1>m, <1>p, <1>o, MsGoroutineStep DEF MsGoes, Scanning, None

LEMMA RecordInv ==
    ASSUME MsInv, NEW w \in Slot, UNCHANGED workerFrame, UNCHANGED unscanned, WorkerRecord(w) \/ MetadataRecord(w)
    PROVE  MsStepOK /\ MsInv'
  <1>m. PICK m : m = task[w].m
    OBVIOUS
  <1>p. PICK op : op = task[w].op
    OBVIOUS
  <1>h. MsTypes /\ UNCHANGED content
    BY DEF MsInv, workerFrame
  <1>o. op \in MsDerivers /\ op /= None
    BY <1>p DEF WorkerRecord, MetadataRecord, On, None, MsDerivers
  <1>i. m \in Media /\ MsClean(m)
    BY <1>m, <1>p, <1>o, MsTaskHeld
  <1>1. CreateVersion(m, op) /\ UNCHANGED <<status, files, quota, queue, deliveries>>
    BY <1>m, <1>p DEF WorkerRecord, MetadataRecord, On
  <1>2. faults' \in Nat
    BY <1>1, <1>h, MsFault DEF CreateVersion
  <1>3. op = "metadata" \/ op \in files[m] \/ MsGone(m)
    BY <1>m, <1>p DEF WorkerRecord, MetadataRecord, On, MsInv, MsTaskOK
  <1>4. UNCHANGED versions \/ versions' = [versions EXCEPT ![m] = @ \cup {op}]
    BY <1>1 DEF CreateVersion
  <1>5. MsStepOK
    <2>1. ASSUME NEW x \in Media
          PROVE  \/ versions'[x] = versions[x]
                 \/ /\ MsClean(x)
                    /\ versions'[x] \ {"metadata"} \subseteq versions[x] \cup files[x] \/ MsGone(x)
      <3>1. versions'[x] = versions[x] \/ (x = m /\ versions'[x] = versions[x] \cup {op})
        BY <1>4, <1>h DEF MsTypes
      <3> QED
        BY <3>1, <1>3, <1>i
    <2>2. UNCHANGED <<keys, outbox>>
      BY DEF workerFrame, redisVars, relayVars
    <2> QED
      BY <2>1, <2>2, <1>1, <1>h DEF MsStepOK
  <1>6. versions' \in [Media -> SUBSET {"image", "video", "compression", "metadata"}]
    BY <1>4, <1>h, <1>i, <1>o DEF MsTypes, MsDerivers
  <1>7. MsWorkerTypes' /\ MsQueueOK'
    BY <1>1, <1>2, <1>5, <1>6, <1>h, MsQueueStays DEF MsTypes, MsWorkerTypes
  <1>8. End(w) \/ (Step(w, "ready") /\ MsTaskAt(op, m, "ready")')
    BY DEF WorkerRecord, MetadataRecord, MsTaskAt, Scanning
  <1> QED
    BY <1>5, <1>7, <1>8, <1>m, <1>p, <1>o, MsGoroutineStep DEF MsGoes, Scanning, None

LEMMA ReadyInv ==
    ASSUME MsInv, NEW w \in Slot, UNCHANGED workerFrame, UNCHANGED unscanned, ImageReady(w) \/ VideoReady(w)
    PROVE  MsStepOK /\ MsInv'
  <1>m. PICK m : m = task[w].m
    OBVIOUS
  <1>p. PICK op : op = task[w].op
    OBVIOUS
  <1>h. MsTypes
    BY DEF MsInv
  <1>o. op \in {"image", "video"} /\ op /= None /\ Ready(w)
    BY <1>p DEF ImageReady, VideoReady, On, None
  <1>i. m \in Media /\ MsClean(m)
    BY <1>m, <1>p, <1>o, MsTaskHeld DEF MsDerivers
  <1>1. faults' \in Nat /\ UNCHANGED <<files, versions, quota, queue, deliveries>>
    BY <1>o, <1>h, MsFault DEF Ready
  <1>2. MsMoved(m, "PROCESSING", "READY")
    BY <1>o, <1>m, MsUpdates DEF Ready, MsMoved
  <1>3. <<"PROCESSING", "READY">> \in MsTaken
    BY DEF MsTaken, allowedTransitions
  <1>4. MsStepOK /\ MsWorkerTypes' /\ MsQueueOK'
    BY <1>1, <1>2, <1>3, <1>i, MsMovingWorker DEF MediaStatus
  <1>5. End(w) \/ (Step(w, "error") /\ MsTaskAt(op, m, "error")')
    BY <1>o DEF Ready, EndError, MsTaskAt, Scanning
  <1> QED
    BY <1>4, <1>5, <1>m, <1>p, <1>o, MsGoroutineStep DEF MsGoes, Scanning, None

LEMMA DeleteWorkerInv ==
    ASSUME MsInv, NEW w \in Slot, UNCHANGED workerFrame, UNCHANGED unscanned,
           DeleteObjects(w) \/ DeleteMark(w) \/ DeleteBytes(w)
    PROVE  MsStepOK /\ MsInv'
  <1>m. PICK m : m = task[w].m
    OBVIOUS
  <1>p. PICK op : op = task[w].op
    OBVIOUS
  <1>h. MsTypes /\ UNCHANGED content
    BY DEF MsInv, workerFrame
  <1>o. op = "delete" /\ op /= None
    BY <1>p DEF DeleteObjects, DeleteMark, DeleteBytes, On, None
  <1>i. m \in Media /\ MsGone(m)
    BY <1>m, <1>p, <1>o, MsTaskHeld
  <1>u. UNCHANGED <<keys, outbox>>
    BY DEF workerFrame, redisVars, relayVars
  <1>1. CASE DeleteObjects(w)
    <2>1. faults' \in Nat /\ UNCHANGED <<status, versions, quota, queue, deliveries>>
      BY <1>1, <1>h, MsFault DEF DeleteObjects
    <2>2. UNCHANGED files \/ files' = [files EXCEPT ![m] = {}]
      BY <1>1, <1>m, <1>h, <1>i DEF DeleteObjects, Purge, MsTypes
    <2>3. MsStepOK
      <3>1. \A x \in Media : files[x] \subseteq files'[x] \/ MsGone(x)
        BY <2>2, <1>h, <1>i DEF MsTypes
      <3> QED
        BY <3>1, <2>1, <1>h, <1>u DEF MsStepOK
    <2>4. files' \in [Media -> SUBSET {"original", "truncated", "image", "video", "compression"}]
      BY <2>2, <1>h DEF MsTypes
    <2>5. MsWorkerTypes' /\ MsQueueOK'
      BY <2>1, <2>3, <2>4, <1>h, MsQueueStays DEF MsTypes, MsWorkerTypes
    <2>6. \E at \in {"mark", "error"} : Step(w, at) /\ MsTaskAt(op, m, at)'
      BY <1>1, <1>o DEF DeleteObjects, EndError, MsTaskAt, Scanning
    <2> QED
      BY <2>3, <2>5, <2>6, <1>m, <1>p, <1>o, MsGoroutineStep DEF MsGoes, Scanning, None
  <1>2. CASE DeleteMark(w)
    <2>1. faults' \in Nat /\ UNCHANGED <<files, versions, quota, queue, deliveries>>
      BY <1>2, <1>h, MsFault DEF DeleteMark, TryStatus
    <2>2. MsMoved(m, "DELETING", "DELETED")
      BY <1>2, <1>m, MsUpdates DEF DeleteMark
    <2>3. <<"DELETING", "DELETED">> \in MsTaken
      BY DEF MsTaken, allowedTransitions
    <2>4. MsStepOK /\ MsWorkerTypes' /\ MsQueueOK'
      BY <2>1, <2>2, <2>3, <1>i, MsMovingWorker DEF MediaStatus
    <2>5. Step(w, "bytes") /\ MsTaskAt(op, m, "bytes")'
      BY <1>2 DEF DeleteMark, MsTaskAt, Scanning
    <2> QED
      BY <2>4, <2>5, <1>m, <1>p, <1>o, MsGoroutineStep DEF MsGoes, Scanning, None
  <1>3. CASE DeleteBytes(w)
    <2>1. quota' \in [active : Int, used : Int] /\ faults' \in Nat
      BY <1>3, <1>h, MsQuota DEF DeleteBytes
    <2>2. UNCHANGED <<status, files, versions, queue, deliveries>> /\ End(w)
      BY <1>3 DEF DeleteBytes
    <2>3. MsStepOK
      BY <2>2, <1>h, <1>u, MsQuiet
    <2>4. MsWorkerTypes' /\ MsQueueOK'
      BY <2>1, <2>2, <2>3, <1>h, MsQueueStays DEF MsTypes, MsWorkerTypes
    <2> QED
      BY <2>2, <2>3, <2>4, <1>m, <1>p, <1>o, MsGoroutineStep DEF MsGoes, Scanning, None
  <1> QED
    BY <1>1, <1>2, <1>3

LEMMA WorkInv ==
    ASSUME MsInv, NEW w \in Slot, ScanFile(w) \/ (Work(w) /\ UNCHANGED unscanned),
           UNCHANGED workerFrame
    PROVE  MsStepOK /\ MsInv'
  BY ScanFileInv, DeliverInv, ScannerInv, FetchInv, PutInv, RecordInv, ReadyInv, DeleteWorkerInv DEF Work

-----------------------------------------------------------------------------
(* The specification *)

LEMMA MsIdleProcesses ==
    ASSUME job = [c \in Client |-> Idle], task = [w \in Slot |-> Idle],
           relay = [p \in Relay |-> [e |-> None, at |-> "idle"]], sweep = Idle
    PROVE  /\ job = [c \in Client |-> job[c]] /\ \A c \in Client : MsJobOK(job[c])
           /\ task = [w \in Slot |-> task[w]] /\ \A w \in Slot : MsTaskOK(task[w])
           /\ MsOneCreate /\ MsOneScan /\ MsSweepOK /\ MsRelayOK
  <1>1. Idle.op = None /\ MsJobOK(Idle) /\ MsTaskOK(Idle)
    BY DEF MsJobOK, MsJob, MsTaskOK, MsTask, MsDerivers, Scanning, Idle, None, Step0
  <1>2. MsOneCreate /\ MsOneScan
    BY <1>1 DEF MsOneCreate, MsOneScan, MsScans, None
  <1> QED
    BY <1>1, <1>2 DEF MsSweepOK, MsRelayOK

LEMMA MsIdleProcessesNext ==
    ASSUME job' = [c \in Client |-> Idle], task' = [w \in Slot |-> Idle],
           relay' = [p \in Relay |-> [e |-> None, at |-> "idle"]], sweep' = Idle
    PROVE  /\ job' = [c \in Client |-> job'[c]] /\ \A c \in Client : MsJobOK(job[c])'
           /\ task' = [w \in Slot |-> task'[w]] /\ \A w \in Slot : MsTaskOK(task[w])'
           /\ MsOneCreate' /\ MsOneScan' /\ MsSweepOK' /\ MsRelayOK'
  <1>1. Idle.op = None /\ MsJobOK(Idle)' /\ MsTaskOK(Idle)'
    BY DEF MsJobOK, MsJob, MsTaskOK, MsTask, MsDerivers, Scanning, Idle, None, Step0
  <1>2. \A c \in Client : job'[c] = Idle
    OBVIOUS
  <1>3. \A w \in Slot : task'[w] = Idle
    OBVIOUS
  <1>4. MsOneCreate' /\ MsOneScan'
    BY <1>1, <1>2, <1>3 DEF MsOneCreate, MsOneScan, MsScans, None
  <1>5. \A c \in Client : MsJobOK(job[c])'
    BY <1>1, <1>2 DEF MsJobOK, MsGone
  <1>6. \A w \in Slot : MsTaskOK(task[w])'
    BY <1>1, <1>3 DEF MsTaskOK, MsGone, MsClean
  <1> QED
    BY <1>4, <1>5, <1>6 DEF MsSweepOK, MsRelayOK

LEMMA CrashInv ==
    ASSUME MsInv, Crash
    PROVE  MsStepOK /\ MsInv'
  <1>1. UNCHANGED <<content, status, session, multipart, files, versions, lock, keys, quota, outbox,
                    sent, queue, deliveries, calls, unscanned>>
    BY DEF Crash, storeVars, redisVars
  <1>2. MsStepOK
    BY <1>1, MsQuiet
  <1>3. MsTypes'
    BY <1>1, MsFault DEF MsInv, MsTypes, Crash
  <1>4. MsQueueOK' /\ MsOutboxOK' /\ InfectedContained' /\ ListedIsStored'
    BY <1>1, <1>2, MsQueueStays, MsOutboxStays, MsPromises
  <1> QED
    BY <1>2, <1>3, <1>4, MsIdleProcessesNext DEF MsInv, Crash

LEMMA MsStutter ==
    ASSUME MsInv, UNCHANGED vars
    PROVE  MsStepOK /\ MsInv'
  <1>1. UNCHANGED <<content, status, session, multipart, files, versions, lock, keys, quota, outbox,
                    sent, queue, deliveries, job, task, relay, sweep, unscanned, calls, faults>>
    BY DEF vars, storeVars, redisVars, relayVars, workerVars, requestVars
  <1>2. MsStepOK
    BY <1>1, MsQuiet
  <1>3. MsTypes' /\ MsSweepOK'
    BY <1>1 DEF MsInv, MsTypes, MsSweepOK
  <1> QED
    BY <1>1, <1>2, <1>3, MsQueueStays, MsOutboxStays, MsRelayStays, MsOtherStep

\* Every step moves rows and objects forward only, and keeps the invariant.
LEMMA MsInvStep ==
    MsInv /\ [Next]_vars => MsStepOK /\ MsInv'
  <1> SUFFICES ASSUME MsInv, [Next]_vars
               PROVE  MsStepOK /\ MsInv'
    OBVIOUS
  <1>1. ASSUME NEW c \in Client, Request(c) \/ RequestStep(c), UNCHANGED requestFrame
        PROVE  MsStepOK /\ MsInv'
    BY <1>1, RequestInv, RequestStepInv
  <1>2. ASSUME NEW m \in Media,
               UploadParts(m) \/ SessionExpires(m) \/ LockExpires(m) \/ ListExpired(m)
        PROVE  MsStepOK /\ MsInv'
    BY <1>2, TimeInv
  <1>3. ASSUME NEW p \in Relay, Publish(p)
        PROVE  MsStepOK /\ MsInv'
    BY <1>3, PublishInv
  <1>4. ASSUME NEW w \in Slot, ScanFile(w) \/ (Work(w) /\ UNCHANGED unscanned),
               UNCHANGED workerFrame
        PROVE  MsStepOK /\ MsInv'
    BY <1>4, WorkInv
  <1> QED
    BY <1>1, <1>2, <1>3, <1>4, ReconcileInv, CrashInv, MsStutter DEF Next

\* An upload of any stage is as the code leaves it there.
LEMMA MsInvInit ==
    Init => MsInv
  <1> SUFFICES ASSUME Init PROVE MsInv
    OBVIOUS
  <1>1. PICK start \in Starts :
        LET s == Stage[start.stage]
            stored == s.files # {}
            ready == s.status = "READY"
        IN
        /\ content \in [Media -> {x \in Contents : (stored => x.valid) /\ (ready => ~x.infected)}]
        /\ status = [m \in Media |-> s.status]
        /\ session = [m \in Media |-> [NoSession EXCEPT !.state = s.session]]
        /\ multipart = [m \in Media |-> s.multipart]
        /\ files = [m \in Media |-> s.files]
        /\ versions = [m \in Media |-> {}]
        /\ lock = [m \in Media |-> None]
        /\ keys = IF s.status = None THEN {} ELSE {"create"} \X Media
        /\ quota = [active |-> IF s.session = "UPLOADING" THEN Cardinality(Media) ELSE 0,
                    used |-> IF stored THEN Cardinality(Media) ELSE 0]
        /\ outbox = [e \in OutboxEvent |-> IF e.type = "completed" THEN s.row ELSE None]
        /\ sent = {e \in OutboxEvent : ready /\ e.type = "completed"}
        /\ queue = [g \in Group |-> [m \in Media |-> IF ready /\ g \in Readers("scanned") THEN 1 ELSE 0]]
        /\ unscanned = {}
        /\ calls = start.calls /\ faults = start.faults /\ deliveries = start.deliveries
    BY DEF Init
  <1>s. PICK s : s = Stage[start.stage]
    OBVIOUS
  <1>2. /\ start.stage \in {"new", "uploading", "uploaded", "ready"}
        /\ start.calls \in Nat /\ start.faults \in Nat /\ start.deliveries \in Nat
    BY MediaAssumption
  <1>3. /\ s.status \in {None, "UPLOADING", "UPLOADED", "READY"}
        /\ s.session \in {None, "UPLOADING", "COMPLETED"}
        /\ s.multipart \in {None, "open", "done"}
        /\ s.files \in {{}, {"original"}}
        /\ s.row \in {None, "PENDING", "PUBLISHED"}
        /\ s.status \in {"UPLOADED", "READY"} => s.files = {"original"}
        /\ s.status = "READY" => s.row = "PUBLISHED"
    BY <1>s, <1>2 DEF Stage, Left, None
  <1>4. Cardinality(Media) \in Int
    BY MediaAssumption, FS_CardinalityType
  <1>5. content \in [Media -> Contents]
        /\ \A m \in Media : s.status = "READY" => ~content[m].infected
    BY <1>1, <1>s
  <1>6. MsTypes
    <2>1. status \in [Media -> MediaStatus \cup {None}]
          /\ multipart \in [Media -> {None, "open", "filled", "done", "aborted"}]
          /\ files \in [Media -> SUBSET {"original", "truncated", "image", "video", "compression"}]
          /\ versions \in [Media -> SUBSET {"image", "video", "compression", "metadata"}]
          /\ lock \in [Media -> Client \cup {None}]
      BY <1>1, <1>3, <1>s DEF MediaStatus
    <2>2. session \in [Media -> MsSession]
      <3>1. [NoSession EXCEPT !.state = s.session] \in MsSession
        BY <1>3 DEF NoSession, MsSession, UploadStatus
      <3> QED
        BY <3>1, <1>1, <1>s
    <2>3. keys \subseteq {"create", "complete", "delete"} \X Media
      BY <1>1
    <2>4. quota \in [active : Int, used : Int]
      BY <1>1, <1>4
    <2>5. outbox \in [OutboxEvent -> OutboxStatus \cup {None}]
      BY <1>1, <1>3, <1>s DEF OutboxStatus
    <2>6. sent \subseteq {e \in OutboxEvent : outbox[e] # None}
      BY <1>1, <1>3, <1>s DEF None
    <2>7. queue \in [Group -> [Media -> Nat]]
      BY <1>1
    <2> QED
      BY <1>1, <1>2, <1>5, <2>1, <2>2, <2>3, <2>4, <2>5, <2>6, <2>7 DEF MsTypes
  <1>7. MsQueueOK
    <2>1. ASSUME NEW g \in Group, NEW m \in Media, queue[g][m] > 0
          PROVE  s.status = "READY" /\ g \in Readers("scanned")
      BY <2>1, <1>1, <1>s
    <2>2. MsDerivers \subseteq Group /\ "delete" \in Group /\ "delete" \notin Readers("scanned")
      BY DEF MsDerivers, Group, Readers
    <2> QED
      BY <2>1, <2>2, <1>5 DEF MsQueueOK, MsClean
  <1>8. MsOutboxOK
    BY <1>1 DEF MsOutboxOK
  <1>9. InfectedContained
    BY <1>1, <1>3, <1>5, <1>s DEF InfectedContained, None
  <1>10. ListedIsStored
    BY <1>1, <1>3, <1>s DEF ListedIsStored, None
  <1>11. /\ job = [c \in Client |-> Idle] /\ task = [w \in Slot |-> Idle]
         /\ relay = [p \in Relay |-> [e |-> None, at |-> "idle"]] /\ sweep = Idle
    BY DEF Init
  <1> QED
    BY <1>6, <1>7, <1>8, <1>9, <1>10, <1>11, MsIdleProcesses DEF MsInv

LEMMA MsInvImplies ==
    MsInv => TypeOK /\ InfectedContained /\ ScannedByOne /\ ListedIsStored
  <1> SUFFICES ASSUME MsInv PROVE TypeOK /\ ScannedByOne
    BY DEF MsInv
  <1>1. ASSUME NEW c \in Client PROVE job[c] = Idle \/ (job[c].m \in Media /\ job[c].at \in Steps)
    <2>1. MsJobOK(job[c])
      BY DEF MsInv
    <2> QED
      BY <2>1 DEF MsJobOK, MsJob, Steps
  <1>2. ASSUME NEW w \in Slot PROVE task[w] = Idle \/ (task[w].m \in Media /\ task[w].op \in Group)
    BY DEF MsInv, MsTaskOK
  <1>3. \A p \in Relay : relay[p].at = "idle" \/ relay[p].e \in OutboxEvent
    BY DEF MsInv, MsRelayOK
  <1>4. sweep = Idle \/ sweep.m \in Media
    BY DEF MsInv, MsSweepOK
  <1>5. TypeOK
    BY <1>1, <1>2, <1>3, <1>4 DEF MsInv, MsTypes, MsSession, TypeOK
  <1>6. ASSUME NEW m \in Media
        PROVE  Cardinality({w \in Slot : task[w].m = m /\ \E at \in Scanning : On(w, {"scanner"}, at)}) <= 1
    <2>1. PICK S : S = {w \in Slot : task[w].m = m /\ \E at \in Scanning : On(w, {"scanner"}, at)}
      OBVIOUS
    <2>2. \A v, w \in S : v = w
      BY <2>1 DEF On, MsInv, MsOneScan, MsScans
    <2>3. CASE S = {}
      BY <2>1, <2>3, FS_EmptySet
    <2>4. CASE S # {}
      <3>1. PICK w : w \in S
        BY <2>4
      <3>2. S = {w}
        BY <3>1, <2>2
      <3>3. Cardinality({w}) = 1
        BY FS_Singleton
      <3> QED
        BY <2>1, <3>2, <3>3
    <2> QED
      BY <2>3, <2>4
  <1> QED
    BY <1>5, <1>6 DEF ScannedByOne

\* Whatever is redelivered, retried, lost or interrupted, the state stays well formed, nothing
\* is derived from an infected upload that ClamAV has seen in full (the scan worker counts a file
\* as clean when clamd does not answer: those uploads are the history unscanned), no media is scanned by two goroutines at a time, and
\* what the rows list is stored in S3 until its deletion is requested.
THEOREM MediaSafe ==
    Spec => [](TypeOK /\ InfectedContained /\ ScannedByOne /\ ListedIsStored)
  <1>1. Spec => []MsInv
    BY MsInvInit, MsInvStep, PTL DEF Spec
  <1> QED
    BY <1>1, MsInvImplies, PTL

\* Although only deleteMedia consults them, no step of any process takes the status of a media
\* off allowedTransitions: the conditional updates suffice.
THEOREM MediaMovesLegally ==
    Spec => [][StatusStep]_vars
  <1>1. Spec => []MsInv
    BY MsInvInit, MsInvStep, PTL DEF Spec
  <1>2. MsStepOK => StatusStep
    BY MsForward DEF StatusStep
  <1>3. MsInv /\ [Next]_vars => [StatusStep]_vars
    BY <1>2, MsInvStep
  <1> QED
    BY <1>1, <1>3, PTL DEF Spec

-----------------------------------------------------------------------------
(* The websocket hub *)

\* The three properties of MediaHub are inductive only together with what ties a callback,
\* the cleaner and the once of closeConnection to the connections they hold: a reference to
\* a connection outlives its place in the table, so it is the connection's own user and once
\* that carry the argument.

MhSomebody == MhUser \cup {MhNobody}

MhConnRecord ==
    [user : MhSomebody, once : {"no", "running", "done"}, send : Seq(MhSomebody), shut : BOOLEAN,
     fresh : BOOLEAN, read : {"off", "wait", "reply", "close", "done"},
     write : {"off", "wait", "close", "done"}, got : SUBSET MhSomebody]

\* A connection: Send holds and the client has got only what is for its user, Send is
\* closed exactly when the once has run, and nothing happened before ServeWS.
MhConnOK(k) ==
    /\ k \in MhConnRecord
    /\ k.send \in Seq({k.user}) /\ Len(k.send) <= MhBuffer
    /\ k.got \subseteq {k.user}
    /\ k.shut <=> k.once = "done"
    /\ k.user = MhNobody => /\ k.once = "no" /\ k.read = "off" /\ k.write = "off"
                            /\ k.send = <<>> /\ k.got = {}

MhSendRecord ==
    [to : MhSomebody, on : MhSomebody, due : SUBSET MhSock, seen : SUBSET MhSock,
     at : MhSock \cup {MhNobody}, closing : BOOLEAN]

\* A callback ranges over the map of its addressee and has one of the addressee's
\* connections at hand, whether or not that is still in the table.
MhSendOK(m) ==
    /\ m \in MhSendRecord
    /\ m.on /= MhNobody => m.on = m.to
    /\ m.closing => m.at /= MhNobody
    /\ m.at /= MhNobody => m.to /= MhNobody /\ mhConn[m.at].user = m.to

MhInv ==
    /\ mhConn = [c \in MhSock |-> mhConn[c]]
    /\ \A c \in MhSock : MhConnOK(mhConn[c])
    /\ mhTable \in [MhUser -> SUBSET MhSock]
    /\ MhTableIsLive
    /\ mhSend = [s \in MhSender |-> mhSend[s]]
    /\ \A s \in MhSender : MhSendOK(mhSend[s])
    /\ mhStale \subseteq {c \in MhSock : mhConn[c].user /= MhNobody}
    /\ mhUp \in {"up", "map race", "send on closed"}

-----------------------------------------------------------------------------
(* An empty hub, and the steps that leave the table alone *)

LEMMA MhNewOK == MhConnOK(MhNew)
  <1>1. <<>> \in Seq(MhSomebody) /\ <<>> \in Seq({MhNobody}) /\ Len(<<>>) = 0
    BY EmptySeq
  <1> QED
    BY <1>1, MhAssumption DEF MhConnOK, MhNew, MhConnRecord, MhSomebody, MhNobody

MhEmpty ==
    /\ MhMemory(mhConn, mhTable, mhSend, mhStale)
    /\ mhUp \in {"up", "map race", "send on closed"}

\* Both when the process starts and when it ends nothing is connected.
LEMMA MhEmptyInv == MhEmpty => MhInv
  <1> SUFFICES ASSUME MhEmpty PROVE MhInv
    OBVIOUS
  <1> USE DEF MhEmpty
  <1>1. mhConn = [c \in MhSock |-> mhConn[c]] /\ \A c \in MhSock : mhConn[c] = MhNew
    BY DEF MhMemory
  <1>2. \A c \in MhSock : MhConnOK(mhConn[c])
    BY <1>1, MhNewOK
  <1>3. mhTable \in [MhUser -> SUBSET MhSock] /\ MhTableIsLive
    BY <1>1, MhAssumption DEF MhMemory, MhTableIsLive, MhNew, MhNobody
  <1>4. /\ mhSend = [s \in MhSender |-> mhSend[s]]
        /\ \A s \in MhSender : mhSend[s] = MhIdle
    BY DEF MhMemory
  <1>5. MhSendOK(MhIdle)
    BY DEF MhSendOK, MhIdle, MhSendRecord, MhSomebody
  <1>6. \A s \in MhSender : MhSendOK(mhSend[s])
    BY <1>4, <1>5
  <1> QED
    BY <1>1, <1>2, <1>3, <1>4, <1>6 DEF MhInv, MhMemory

LEMMA MhEmptyInvNext == MhEmpty' => MhInv'
  <1>1. MhEmpty => MhInv
    BY MhEmptyInv
  <1> QED
    BY <1>1, PTL

LEMMA MhDiesInv ==
    ASSUME NEW why \in {"map race", "send on closed"}, MhDies(why)
    PROVE  MhInv'
  <1>1. MhEmpty'
    BY DEF MhDies, MhEmpty, MhMemory
  <1> QED
    BY <1>1, MhEmptyInvNext

\* A step that neither adds nor closes a connection.
LEMMA MhQuiet ==
    ASSUME MhInv, mhConn' = [c \in MhSock |-> mhConn'[c]],
           \A c \in MhSock : /\ MhConnOK(mhConn[c])'
                             /\ mhConn'[c].user = mhConn[c].user
                             /\ mhConn'[c].once = mhConn[c].once,
           UNCHANGED <<mhTable, mhUp>>,
           mhSend' = [s \in MhSender |-> mhSend'[s]],
           \A s \in MhSender : MhSendOK(mhSend'[s]),
           mhStale' \subseteq {c \in MhSock : mhConn[c].user /= MhNobody}
    PROVE  MhInv'
  <1>1. \A s \in MhSender : MhSendOK(mhSend[s])'
    <2> SUFFICES ASSUME NEW s \in MhSender PROVE MhSendOK(mhSend[s])'
      OBVIOUS
    <2>1. mhSend'[s].at \in MhSock \cup {MhNobody}
      BY DEF MhSendOK, MhSendRecord
    <2> QED
      BY <2>1 DEF MhSendOK
  <1>2. MhTableIsLive'
    <2> SUFFICES ASSUME NEW u \in MhUser
                 PROVE  mhTable'[u] = {c \in MhSock : mhConn'[c].user = u /\ mhConn'[c].once = "no"}
      BY DEF MhTableIsLive
    <2>1. mhTable[u] = {c \in MhSock : mhConn[c].user = u /\ mhConn[c].once = "no"}
      BY DEF MhInv, MhTableIsLive
    <2> QED
      BY <2>1
  <1> QED
    BY <1>1, <1>2 DEF MhInv

\* A step of one connection only: its pumps, or its age.
LEMMA MhOneConn ==
    ASSUME MhInv, NEW c \in MhSock, NEW k, MhConnOK(k),
           mhConn' = [mhConn EXCEPT ![c] = k],
           k.user = mhConn[c].user, k.once = mhConn[c].once,
           UNCHANGED <<mhTable, mhSend, mhStale, mhUp>>
    PROVE  MhInv'
  <1>1. /\ mhConn' = [d \in MhSock |-> mhConn'[d]]
        /\ mhConn'[c] = k
        /\ \A d \in MhSock \ {c} : mhConn'[d] = mhConn[d]
    BY DEF MhInv
  <1>2. ASSUME NEW d \in MhSock
        PROVE /\ MhConnOK(mhConn[d])'
              /\ mhConn'[d].user = mhConn[d].user
              /\ mhConn'[d].once = mhConn[d].once
    <2>1. CASE d = c
      BY <2>1, <1>1 DEF MhConnOK
    <2>2. CASE d /= c
      BY <2>2, <1>1 DEF MhInv, MhConnOK
    <2> QED
      BY <2>1, <2>2
  <1> QED
    BY <1>1, <1>2, MhQuiet DEF MhInv

\* A step of one callback only.
LEMMA MhOneSend ==
    ASSUME MhInv, NEW s \in MhSender, NEW m, MhSendOK(m),
           mhSend' = [mhSend EXCEPT ![s] = m],
           UNCHANGED <<mhConn, mhTable, mhStale, mhUp>>
    PROVE  MhInv'
  <1>1. /\ mhSend' = [t \in MhSender |-> mhSend'[t]]
        /\ \A t \in MhSender : mhSend'[t] = IF t = s THEN m ELSE mhSend[t]
    BY DEF MhInv
  <1>2. \A t \in MhSender : MhSendOK(mhSend'[t])
    BY <1>1 DEF MhInv
  <1>3. \A c \in MhSock : MhConnOK(mhConn[c])'
    BY DEF MhInv, MhConnOK
  <1> QED
    BY <1>1, <1>2, <1>3, MhQuiet DEF MhInv

\* What the table holds of a user are connections of that user.
LEMMA MhTabled ==
    ASSUME MhInv, NEW u \in MhUser, NEW c \in mhTable[u]
    PROVE  c \in MhSock /\ mhConn[c].user = u /\ u /= MhNobody
  <1>1. mhTable[u] = {d \in MhSock : mhConn[d].user = u /\ mhConn[d].once = "no"}
    BY DEF MhInv, MhTableIsLive
  <1>2. c \in {d \in MhSock : mhConn[d].user = u /\ mhConn[d].once = "no"}
    BY <1>1
  <1> QED
    BY <1>2, MhAssumption DEF MhNobody

-----------------------------------------------------------------------------
(* Connections come and go *)

\* A new connection has no past: no callback and no cleaner can hold it.
LEMMA ServeWSInv ==
    ASSUME MhInv, NEW c \in MhSock, NEW u \in MhUser, ServeWS(c, u)
    PROVE  MhInv'
  <1>1. CASE MhDies("map race")
    BY <1>1, MhDiesInv
  <1>2. CASE registerConnection(c, u) /\ ~MhDies("map race")
    <2> DEFINE k == [mhConn[c] EXCEPT !.user = u, !.read = "wait", !.write = "wait"]
    <2>1. /\ mhConn[c].user = MhNobody /\ mhConn' = [mhConn EXCEPT ![c] = k]
          /\ UNCHANGED <<mhSend, mhStale, mhUp>>
      BY <1>2 DEF ServeWS
    <2>2. MhConnOK(mhConn[c]) /\ u /= MhNobody
      BY MhAssumption DEF MhInv, MhNobody
    <2>3. mhConn[c].send = <<>> /\ mhConn[c].got = {} /\ mhConn[c].once = "no"
      BY <2>1, <2>2 DEF MhConnOK
    <2>4. <<>> \in Seq({u})
      BY EmptySeq
    <2>5. MhConnOK(k) /\ k.user = u /\ k.once = "no"
      BY <2>2, <2>3, <2>4 DEF MhConnOK, MhConnRecord, MhSomebody
    <2> HIDE DEF k
    <2>6. /\ mhConn' = [d \in MhSock |-> mhConn'[d]]
          /\ mhConn'[c] = k
          /\ \A d \in MhSock \ {c} : mhConn'[d] = mhConn[d]
      BY <2>1 DEF MhInv
    <2>7. ASSUME NEW d \in MhSock PROVE MhConnOK(mhConn[d])'
      <3>1. CASE d = c
        BY <3>1, <2>5, <2>6 DEF MhConnOK
      <3>2. CASE d /= c
        BY <3>2, <2>6 DEF MhInv, MhConnOK
      <3> QED
        BY <3>1, <3>2
    <2>8. mhTable' \in [MhUser -> SUBSET MhSock] /\ MhTableIsLive'
      <3>1. mhTable' = [mhTable EXCEPT ![u] = @ \cup {c}]
        BY <1>2 DEF registerConnection
      <3>2. mhTable' \in [MhUser -> SUBSET MhSock]
        BY <3>1 DEF MhInv
      <3>3. ASSUME NEW w \in MhUser, NEW d \in MhSock
            PROVE  d \in mhTable'[w] <=> mhConn'[d].user = w /\ mhConn'[d].once = "no"
        <4>1. w /= MhNobody
          BY MhAssumption DEF MhNobody
        <4>2. d \in mhTable[w] <=> mhConn[d].user = w /\ mhConn[d].once = "no"
          BY DEF MhInv, MhTableIsLive
        <4>3. mhTable'[w] = IF w = u THEN mhTable[w] \cup {c} ELSE mhTable[w]
          BY <3>1 DEF MhInv
        <4> QED
          BY <4>1, <4>2, <4>3, <2>1, <2>5, <2>6
      <3> QED
        BY <3>2, <3>3 DEF MhTableIsLive
    <2>9. ASSUME NEW s \in MhSender PROVE MhSendOK(mhSend[s])'
      <3>1. MhSendOK(mhSend[s]) /\ mhSend'[s] = mhSend[s]
        BY <2>1 DEF MhInv
      <3>2. mhSend[s].at /= MhNobody => mhSend[s].at \in MhSock \ {c}
        BY <3>1, <2>1 DEF MhSendOK, MhSendRecord
      <3> QED
        BY <3>1, <3>2, <2>6 DEF MhSendOK
    <2>10. mhStale' \subseteq {d \in MhSock : mhConn'[d].user /= MhNobody}
      BY <2>1, <2>2, <2>5, <2>6 DEF MhInv
    <2> QED
      BY <2>1, <2>6, <2>7, <2>8, <2>9, <2>10 DEF MhInv
  <1> QED
    BY <1>1, <1>2 DEF ServeWS

\* Whoever is in closeConnection(c) holds a connection that was once served.
LEMMA MhCloserServed ==
    ASSUME MhInv, NEW c \in MhSock, MhCloses(c)
    PROVE  mhConn[c].user \in MhUser
  <1>1. MhConnOK(mhConn[c])
    BY DEF MhInv
  <1>2. mhConn[c].user /= MhNobody
    <2>1. CASE mhConn[c].read = "close" \/ mhConn[c].write = "close"
      BY <1>1, <2>1 DEF MhConnOK
    <2>2. ASSUME NEW s \in MhSender, mhSend[s].at = c PROVE mhConn[c].user /= MhNobody
      <3>1. MhSendOK(mhSend[s]) /\ c /= MhNobody
        BY MhAssumption DEF MhInv, MhNobody
      <3> QED
        BY <2>2, <3>1 DEF MhSendOK
    <2>3. CASE c \in mhStale
      BY <2>3 DEF MhInv
    <2> QED
      BY <2>1, <2>2, <2>3 DEF MhCloses
  <1> QED
    BY <1>1, <1>2 DEF MhConnOK, MhConnRecord, MhSomebody

\* The first caller takes exactly its own connection out of the table, and the map with
\* it when that was the last of the user.
LEMMA MhUnregisterInv ==
    ASSUME MhInv, NEW c \in MhSock, MhUnregister(c)
    PROVE  MhInv'
  <1>1. CASE MhDies("map race")
    BY <1>1, MhDiesInv
  <1>2. CASE unregisterConnection(c) /\ ~MhDies("map race")
    <2>u. PICK u \in MhUser : u = mhConn[c].user
      BY MhCloserServed DEF MhUnregister
    <2> DEFINE k == [mhConn[c] EXCEPT !.once = "running"]
    <2>1. /\ mhConn[c].once = "no" /\ mhConn' = [mhConn EXCEPT ![c] = k]
          /\ UNCHANGED <<mhStale, mhUp>>
      BY <1>2 DEF MhUnregister, MhOnce
    <2>2. MhConnOK(mhConn[c]) /\ u /= MhNobody
      BY MhAssumption DEF MhInv, MhNobody
    <2>3. MhConnOK(k) /\ k.user = u /\ k.once = "running"
      BY <2>1, <2>2, <2>u DEF MhConnOK, MhConnRecord
    <2> HIDE DEF k
    <2>4. /\ mhConn' = [d \in MhSock |-> mhConn'[d]]
          /\ mhConn'[c] = k
          /\ \A d \in MhSock \ {c} : mhConn'[d] = mhConn[d]
      BY <2>1 DEF MhInv
    <2>5. \A d \in MhSock : mhConn'[d].user = mhConn[d].user
      BY <2>3, <2>4, <2>u
    <2>6. ASSUME NEW d \in MhSock PROVE MhConnOK(mhConn[d])'
      <3>1. CASE d = c
        BY <3>1, <2>3, <2>4 DEF MhConnOK
      <3>2. CASE d /= c
        BY <3>2, <2>4 DEF MhInv, MhConnOK
      <3> QED
        BY <3>1, <3>2
    <2>7. mhTable' = [mhTable EXCEPT ![u] = @ \ {c}]
      BY <1>2, <2>u DEF unregisterConnection
    <2>8. mhTable' \in [MhUser -> SUBSET MhSock] /\ MhTableIsLive'
      <3>1. mhTable' \in [MhUser -> SUBSET MhSock]
        BY <2>7 DEF MhInv
      <3>2. ASSUME NEW w \in MhUser, NEW d \in MhSock
            PROVE  d \in mhTable'[w] <=> mhConn'[d].user = w /\ mhConn'[d].once = "no"
        <4>1. d \in mhTable[w] <=> mhConn[d].user = w /\ mhConn[d].once = "no"
          BY DEF MhInv, MhTableIsLive
        <4>2. mhTable'[w] = IF w = u THEN mhTable[w] \ {c} ELSE mhTable[w]
          BY <2>7 DEF MhInv
        <4> QED
          BY <4>1, <4>2, <2>3, <2>4, <2>u
      <3> QED
        BY <3>1, <3>2 DEF MhTableIsLive
    <2>9. /\ mhSend' = [s \in MhSender |-> mhSend'[s]]
          /\ \A s \in MhSender : \/ mhSend'[s] = mhSend[s]
                                 \/ mhSend'[s] = [mhSend[s] EXCEPT !.on = MhNobody]
      BY <1>2 DEF unregisterConnection, MhDropMap, MhInv
    <2>10. ASSUME NEW s \in MhSender PROVE MhSendOK(mhSend[s])'
      <3>1. MhSendOK(mhSend[s])
        BY DEF MhInv
      <3>2. /\ mhSend'[s] \in MhSendRecord
            /\ mhSend'[s].on \in {mhSend[s].on, MhNobody}
            /\ mhSend'[s].to = mhSend[s].to /\ mhSend'[s].at = mhSend[s].at
            /\ mhSend'[s].closing = mhSend[s].closing
        BY <3>1, <2>9 DEF MhSendOK, MhSendRecord, MhSomebody
      <3>3. mhSend[s].at \in MhSock \cup {MhNobody}
        BY <3>1 DEF MhSendOK, MhSendRecord
      <3> QED
        BY <3>1, <3>2, <3>3, <2>5 DEF MhSendOK
    <2>11. mhStale' \subseteq {d \in MhSock : mhConn'[d].user /= MhNobody}
      BY <2>1, <2>5 DEF MhInv
    <2> QED
      BY <2>1, <2>4, <2>6, <2>8, <2>9, <2>10, <2>11 DEF MhInv
  <1> QED
    BY <1>1, <1>2 DEF MhUnregister

\* The once makes the caller that closes Send the only one.
LEMMA closeConnectionInv ==
    ASSUME MhInv, NEW c \in MhSock, closeConnection(c)
    PROVE  MhInv'
  <1> DEFINE k == [mhConn[c] EXCEPT !.once = "done", !.shut = TRUE]
  <1>1. MhConnOK(mhConn[c]) /\ mhConn[c].once = "running"
    BY DEF MhInv, closeConnection
  <1>2. ~mhConn[c].shut
    BY <1>1 DEF MhConnOK, MhConnRecord
  <1>3. mhConn' = [mhConn EXCEPT ![c] = k] /\ UNCHANGED <<mhTable, mhSend, mhStale, mhUp>>
    BY <1>1, <1>2 DEF closeConnection, MhConnOK, MhConnRecord, MhInv
  <1>4. MhConnOK(k) /\ k.user = mhConn[c].user /\ k.once = "done"
    BY <1>1 DEF MhConnOK, MhConnRecord
  <1> HIDE DEF k
  <1>5. /\ mhConn' = [d \in MhSock |-> mhConn'[d]]
        /\ mhConn'[c] = k
        /\ \A d \in MhSock \ {c} : mhConn'[d] = mhConn[d]
    BY <1>3 DEF MhInv
  <1>6. \A d \in MhSock : /\ mhConn'[d].user = mhConn[d].user
                          /\ mhConn'[d].once = "no" <=> mhConn[d].once = "no"
    BY <1>1, <1>4, <1>5
  <1>7. ASSUME NEW d \in MhSock PROVE MhConnOK(mhConn[d])'
    <2>1. CASE d = c
      BY <2>1, <1>4, <1>5 DEF MhConnOK
    <2>2. CASE d /= c
      BY <2>2, <1>5 DEF MhInv, MhConnOK
    <2> QED
      BY <2>1, <2>2
  <1>8. MhTableIsLive'
    <2> SUFFICES ASSUME NEW u \in MhUser
                 PROVE  mhTable'[u] = {d \in MhSock : mhConn'[d].user = u /\ mhConn'[d].once = "no"}
      BY DEF MhTableIsLive
    <2>1. mhTable[u] = {d \in MhSock : mhConn[d].user = u /\ mhConn[d].once = "no"}
      BY DEF MhInv, MhTableIsLive
    <2>2. mhTable'[u] = mhTable[u]
      BY <1>3
    <2> QED
      BY <2>1, <2>2, <1>6
  <1>9. ASSUME NEW s \in MhSender PROVE MhSendOK(mhSend[s])'
    <2>1. MhSendOK(mhSend[s]) /\ mhSend'[s] = mhSend[s]
      BY <1>3 DEF MhInv
    <2>2. mhSend[s].at \in MhSock \cup {MhNobody}
      BY <2>1 DEF MhSendOK, MhSendRecord
    <2> QED
      BY <2>1, <2>2, <1>6 DEF MhSendOK
  <1> QED
    BY <1>3, <1>5, <1>6, <1>7, <1>8, <1>9 DEF MhInv

-----------------------------------------------------------------------------
(* The callbacks *)

LEMMA handleNATSMessageInv ==
    ASSUME MhInv, NEW s \in MhSender, NEW u \in MhUser, handleNATSMessage(s, u)
    PROVE  MhInv'
  <1> DEFINE m == [MhIdle EXCEPT !.to = u, !.due = mhTable[u],
                                 !.on = IF mhTable[u] = {} THEN MhNobody ELSE u]
  <1>1. mhSend' = [mhSend EXCEPT ![s] = m] /\ UNCHANGED <<mhConn, mhTable, mhStale, mhUp>>
    BY DEF handleNATSMessage
  <1>2. MhSendOK(m)
    BY DEF MhInv, MhSendOK, MhIdle, MhSendRecord, MhSomebody
  <1> QED
    BY <1>1, <1>2, MhOneSend

\* The range yields a connection of the map, which is the addressee's.
LEMMA MhRangeInv ==
    ASSUME MhInv, NEW s \in MhSender, MhRange(s)
    PROVE  MhInv'
  <1>1. MhSendOK(mhSend[s])
    BY DEF MhInv
  <1>2. ASSUME NEW c \in MhAhead(s),
               mhSend' = [mhSend EXCEPT ![s].seen = @ \cup {c}, ![s].at = c]
        PROVE  MhInv'
    <2> DEFINE m == [mhSend[s] EXCEPT !.seen = @ \cup {c}, !.at = c]
    <2>1. mhSend' = [mhSend EXCEPT ![s] = m] /\ UNCHANGED <<mhConn, mhTable, mhStale, mhUp>>
      BY <1>1, <1>2 DEF MhRange, MhInv, MhSendOK, MhSendRecord
    <2>2. /\ mhSend[s].on \in MhUser /\ mhSend[s].on = mhSend[s].to
          /\ c \in mhTable[mhSend[s].on]
      BY <1>1 DEF MhAhead, MhSendOK, MhSendRecord, MhSomebody
    <2>3. c \in MhSock /\ mhConn[c].user = mhSend[s].to
      BY <2>2, MhTabled
    <2>4. /\ m \in MhSendRecord /\ m.on = mhSend[s].on /\ m.to = mhSend[s].to /\ m.at = c
          /\ mhSend[s].to /= MhNobody
      BY <1>1, <2>3 DEF MhSendOK, MhSendRecord, MhRange
    <2> HIDE DEF m
    <2>5. MhSendOK(m)
      <3>1. c /= MhNobody
        BY <2>3, MhAssumption DEF MhNobody
      <3> QED
        BY <3>1, <1>1, <2>3, <2>4 DEF MhSendOK
    <2> QED
      BY <2>1, <2>5, MhOneSend
  <1>3. CASE mhSend' = [mhSend EXCEPT ![s] = MhIdle]
    <2>1. MhSendOK(MhIdle)
      BY DEF MhSendOK, MhIdle, MhSendRecord, MhSomebody
    <2> QED
      BY <1>3, <2>1, MhOneSend DEF MhRange
  <1> QED
    BY <1>2, <1>3 DEF MhRange

\* The message goes to the user it is for, also when the connection has left the table.
LEMMA sendToUserInv ==
    ASSUME MhInv, NEW s \in MhSender, sendToUser(s)
    PROVE  MhInv'
  <1>c. PICK c \in MhSock : c = mhSend[s].at
    BY DEF sendToUser, MhInv, MhSendOK, MhSendRecord
  <1>1. /\ MhSendOK(mhSend[s]) /\ MhConnOK(mhConn[c])
        /\ mhConn[c].user = mhSend[s].to /\ c /= MhNobody
    BY <1>c DEF MhInv, MhSendOK, sendToUser
  <1>2. CASE MhDies("send on closed")
    BY <1>2, MhDiesInv
  <1>3. CASE /\ Len(mhConn[c].send) < MhBuffer
             /\ mhConn' = [mhConn EXCEPT ![c].send = Append(@, mhSend[s].to)]
             /\ mhSend' = [mhSend EXCEPT ![s].at = MhNobody]
             /\ UNCHANGED <<mhTable, mhStale, mhLeft, mhUp>>
    <2> DEFINE k == [mhConn[c] EXCEPT !.send = Append(mhConn[c].send, mhConn[c].user)]
               m == [mhSend[s] EXCEPT !.at = MhNobody]
    <2>1. mhConn' = [mhConn EXCEPT ![c] = k] /\ mhSend' = [mhSend EXCEPT ![s] = m]
      BY <1>1, <1>3 DEF MhInv, MhConnOK, MhConnRecord, MhSendOK, MhSendRecord
    <2>2. MhConnOK(k) /\ k.user = mhConn[c].user /\ k.once = mhConn[c].once
      <3> DEFINE q == Append(mhConn[c].send, mhConn[c].user)
      <3>1. /\ q \in Seq({mhConn[c].user}) /\ Len(q) = Len(mhConn[c].send) + 1
            /\ q \in Seq(MhSomebody)
        <4>1. /\ mhConn[c].user \in MhSomebody /\ mhConn[c].send \in Seq(MhSomebody)
              /\ mhConn[c].send \in Seq({mhConn[c].user})
          BY <1>1 DEF MhConnOK, MhConnRecord
        <4> QED
          BY <4>1, AppendProperties
      <3>2. mhConn[c].user /= MhNobody
        BY <1>1, <1>c DEF MhSendOK
      <3>3. Len(mhConn[c].send) \in Nat
        BY <1>1 DEF MhConnOK, MhConnRecord
      <3>4. Len(q) <= MhBuffer
        BY <3>1, <3>3, <1>3, MhAssumption
      <3> HIDE DEF q
      <3>5. k = [mhConn[c] EXCEPT !.send = q]
        BY DEF q
      <3> QED
        BY <3>1, <3>2, <3>4, <3>5, <1>1 DEF MhConnOK, MhConnRecord
    <2>3. m \in MhSendRecord /\ m.at = MhNobody /\ m.on = mhSend[s].on /\ m.to = mhSend[s].to
          /\ m.closing = mhSend[s].closing
      BY <1>1 DEF MhSendOK, MhSendRecord
    <2>4. MhSendOK(m)
      <3>1. ~mhSend[s].closing
        BY DEF sendToUser
      <3> HIDE DEF m
      <3> QED
        BY <3>1, <2>3, <1>1 DEF MhSendOK
    <2> HIDE DEF k, m
    <2>5. /\ mhConn' = [d \in MhSock |-> mhConn'[d]]
          /\ mhConn'[c] = k
          /\ \A d \in MhSock \ {c} : mhConn'[d] = mhConn[d]
      BY <2>1 DEF MhInv
    <2>6. ASSUME NEW d \in MhSock
          PROVE /\ MhConnOK(mhConn[d])'
                /\ mhConn'[d].user = mhConn[d].user /\ mhConn'[d].once = mhConn[d].once
      <3>1. CASE d = c
        BY <3>1, <2>2, <2>5 DEF MhConnOK
      <3>2. CASE d /= c
        BY <3>2, <2>5 DEF MhInv, MhConnOK
      <3> QED
        BY <3>1, <3>2
    <2>7. /\ mhSend' = [t \in MhSender |-> mhSend'[t]]
          /\ \A t \in MhSender : mhSend'[t] = IF t = s THEN m ELSE mhSend[t]
      BY <2>1 DEF MhInv
    <2>8. \A t \in MhSender : MhSendOK(mhSend'[t])
      BY <2>4, <2>7 DEF MhInv
    <2> QED
      BY <1>3, <2>5, <2>6, <2>7, <2>8, MhQuiet DEF MhInv
  <1>4. CASE /\ mhSend' = [mhSend EXCEPT ![s].closing = TRUE]
             /\ UNCHANGED <<mhConn, mhTable, mhStale, mhLeft, mhUp>>
    <2> DEFINE m == [mhSend[s] EXCEPT !.closing = TRUE]
    <2>1. mhSend' = [mhSend EXCEPT ![s] = m]
      BY <1>4 DEF MhInv
    <2>2. m \in MhSendRecord /\ m.at = c /\ m.on = mhSend[s].on /\ m.to = mhSend[s].to
      BY <1>1, <1>c DEF MhSendOK, MhSendRecord
    <2> HIDE DEF m
    <2>3. MhSendOK(m)
      BY <1>1, <1>c, <2>2 DEF MhSendOK
    <2> QED
      BY <1>4, <2>1, <2>3, MhOneSend
  <1> QED
    BY <1>2, <1>3, <1>4, <1>c DEF sendToUser

LEMMA MhSenderClosedInv ==
    ASSUME MhInv, NEW s \in MhSender, MhSenderClosed(s)
    PROVE  MhInv'
  <1> DEFINE m == [mhSend[s] EXCEPT !.closing = FALSE, !.at = MhNobody]
  <1>1. mhSend' = [mhSend EXCEPT ![s] = m] /\ UNCHANGED <<mhConn, mhTable, mhStale, mhUp>>
    BY DEF MhSenderClosed, MhInv
  <1>2. MhSendOK(mhSend[s])
    BY DEF MhInv
  <1>3. /\ m \in MhSendRecord /\ m.at = MhNobody /\ m.on = mhSend[s].on /\ m.to = mhSend[s].to
        /\ ~m.closing
    BY <1>2 DEF MhSendOK, MhSendRecord
  <1> HIDE DEF m
  <1>4. MhSendOK(m)
    BY <1>2, <1>3 DEF MhSendOK
  <1> QED
    BY <1>1, <1>4, MhOneSend

-----------------------------------------------------------------------------
(* The pumps and the cleaner *)

LEMMA readPumpInv ==
    ASSUME MhInv, NEW c \in MhSock, readPump(c)
    PROVE  MhInv'
  <1>1. MhConnOK(mhConn[c]) /\ mhConn[c].read = "wait"
    BY DEF MhInv, readPump
  <1>2. PICK r \in {"wait", "reply", "close"}, f \in BOOLEAN :
            mhConn' = [mhConn EXCEPT ![c] = [mhConn[c] EXCEPT !.read = r, !.fresh = f]]
    <2>1. mhConn[c].fresh \in BOOLEAN
      BY <1>1 DEF MhConnOK, MhConnRecord
    <2>2. ASSUME NEW r \in {"wait", "reply", "close"}, mhConn' = [mhConn EXCEPT ![c].read = r]
          PROVE  mhConn' = [mhConn EXCEPT ![c] = [mhConn[c] EXCEPT !.read = r, !.fresh = mhConn[c].fresh]]
      BY <1>1, <2>2 DEF MhInv, MhConnOK, MhConnRecord
    <2>3. ASSUME mhConn' = [mhConn EXCEPT ![c].fresh = TRUE]
          PROVE  mhConn' = [mhConn EXCEPT ![c] = [mhConn[c] EXCEPT !.read = "wait", !.fresh = TRUE]]
      BY <1>1, <2>3 DEF MhInv, MhConnOK, MhConnRecord
    <2>4. \/ \E r \in {"wait", "reply", "close"} : mhConn' = [mhConn EXCEPT ![c].read = r]
          \/ mhConn' = [mhConn EXCEPT ![c].fresh = TRUE]
      <3>1. CASE mhConn' = [mhConn EXCEPT ![c].read = "close"]
        BY <3>1
      <3>2. ASSUME NEW type \in MhReplies \cup {"other"},
                   mhConn' = [mhConn EXCEPT ![c].read = IF type \in MhReplies THEN "reply" ELSE @]
            PROVE  \E r \in {"wait", "reply", "close"} : mhConn' = [mhConn EXCEPT ![c].read = r]
        <4>1. CASE type \in MhReplies
          BY <3>2, <4>1
        <4>2. CASE type \notin MhReplies
          BY <3>2, <4>2, <1>1
        <4> QED
          BY <4>1, <4>2
      <3> QED
        BY <3>1, <3>2 DEF readPump
    <2> QED
      BY <2>1, <2>2, <2>3, <2>4
  <1> DEFINE k == [mhConn[c] EXCEPT !.read = r, !.fresh = f]
  <1>3. MhConnOK(k) /\ k.user = mhConn[c].user /\ k.once = mhConn[c].once
    BY <1>1 DEF MhConnOK, MhConnRecord
  <1> QED
    BY <1>2, <1>3, MhOneConn DEF readPump, MhPumpOnly

LEMMA handleMessageInv ==
    ASSUME MhInv, NEW c \in MhSock, handleMessage(c)
    PROVE  MhInv'
  <1>1. CASE mhConn[c].shut
    BY <1>1, MhDiesInv DEF handleMessage
  <1>2. CASE ~mhConn[c].shut
    <2>1. MhConnOK(mhConn[c]) /\ mhConn[c].read = "reply"
      BY DEF MhInv, handleMessage
    <2>2. mhConn[c].user /= MhNobody /\ Len(mhConn[c].send) \in Nat
      BY <2>1 DEF MhConnOK, MhConnRecord
    <2>q. PICK q : /\ q = (IF Len(mhConn[c].send) < MhBuffer
                           THEN Append(mhConn[c].send, mhConn[c].user) ELSE mhConn[c].send)
      OBVIOUS
    <2>3. q \in Seq({mhConn[c].user}) /\ q \in Seq(MhSomebody) /\ Len(q) <= MhBuffer
      <3>1. /\ mhConn[c].user \in MhSomebody /\ mhConn[c].send \in Seq(MhSomebody)
            /\ mhConn[c].send \in Seq({mhConn[c].user}) /\ Len(mhConn[c].send) <= MhBuffer
        BY <2>1 DEF MhConnOK, MhConnRecord
      <3>2. CASE Len(mhConn[c].send) < MhBuffer
        <4>1. /\ q \in Seq({mhConn[c].user}) /\ q \in Seq(MhSomebody)
              /\ Len(q) = Len(mhConn[c].send) + 1
          BY <2>q, <3>1, <3>2, AppendProperties
        <4> QED
          BY <4>1, <3>2, <2>2, MhAssumption
      <3> QED
        BY <3>1, <3>2, <2>q
    <2> DEFINE k == [mhConn[c] EXCEPT !.read = "wait", !.send = q]
    <2>4. mhConn' = [mhConn EXCEPT ![c] = k]
      BY <1>2, <2>1, <2>q DEF handleMessage, MhInv, MhConnOK, MhConnRecord
    <2>5. MhConnOK(k) /\ k.user = mhConn[c].user /\ k.once = mhConn[c].once
      BY <2>1, <2>2, <2>3 DEF MhConnOK, MhConnRecord
    <2> QED
      BY <1>2, <2>4, <2>5, MhOneConn DEF handleMessage, MhPumpOnly
  <1> QED
    BY <1>1, <1>2

LEMMA writePumpInv ==
    ASSUME MhInv, NEW c \in MhSock, writePump(c)
    PROVE  MhInv'
  <1>1. MhConnOK(mhConn[c]) /\ mhConn[c].write = "wait"
    BY DEF MhInv, writePump
  <1>2. CASE mhConn' = [mhConn EXCEPT ![c].write = "close"]
    <2> DEFINE k == [mhConn[c] EXCEPT !.write = "close"]
    <2>1. mhConn' = [mhConn EXCEPT ![c] = k]
      BY <1>2 DEF MhInv
    <2>2. MhConnOK(k) /\ k.user = mhConn[c].user /\ k.once = mhConn[c].once
      BY <1>1 DEF MhConnOK, MhConnRecord
    <2> QED
      BY <2>1, <2>2, MhOneConn DEF writePump, MhPumpOnly
  <1>3. CASE /\ mhConn[c].send /= <<>>
             /\ mhConn' = [mhConn EXCEPT ![c].send = Tail(@), ![c].got = @ \cup {Head(mhConn[c].send)}]
    <2>1. /\ mhConn[c].user \in MhSomebody /\ mhConn[c].send \in Seq(MhSomebody)
          /\ mhConn[c].send \in Seq({mhConn[c].user}) /\ Len(mhConn[c].send) <= MhBuffer
          /\ mhConn[c].got \subseteq {mhConn[c].user} /\ Len(mhConn[c].send) \in Nat
      BY <1>1 DEF MhConnOK, MhConnRecord
    <2>q. PICK q : q = Tail(mhConn[c].send)
      OBVIOUS
    <2>g. PICK g : g = mhConn[c].got \cup {Head(mhConn[c].send)}
      OBVIOUS
    <2>2. /\ q \in Seq({mhConn[c].user}) /\ q \in Seq(MhSomebody)
          /\ Len(q) = Len(mhConn[c].send) - 1 /\ g \subseteq {mhConn[c].user}
      BY <1>3, <2>1, <2>q, <2>g, HeadTailProperties
    <2>3. Len(q) <= MhBuffer
      BY <2>1, <2>2, MhAssumption
    <2>4. mhConn[c].user /= MhNobody
      BY <1>1 DEF MhConnOK
    <2> DEFINE k == [mhConn[c] EXCEPT !.send = q, !.got = g]
    <2>5. mhConn' = [mhConn EXCEPT ![c] = k]
      BY <1>1, <1>3, <2>q, <2>g DEF MhInv, MhConnOK, MhConnRecord
    <2>6. MhConnOK(k) /\ k.user = mhConn[c].user /\ k.once = mhConn[c].once
      BY <1>1, <2>1, <2>2, <2>3, <2>4 DEF MhConnOK, MhConnRecord
    <2> QED
      BY <2>5, <2>6, MhOneConn DEF writePump, MhPumpOnly
  <1> QED
    BY <1>2, <1>3 DEF writePump

LEMMA MhPumpEndsInv ==
    ASSUME MhInv, NEW c \in MhSock, MhPumpEnds(c)
    PROVE  MhInv'
  <1>1. MhConnOK(mhConn[c]) /\ mhConn[c].once = "done"
    BY DEF MhInv, MhPumpEnds
  <1>2. CASE mhConn' = [mhConn EXCEPT ![c].read = "done"]
    <2> DEFINE k == [mhConn[c] EXCEPT !.read = "done"]
    <2>1. mhConn' = [mhConn EXCEPT ![c] = k]
      BY <1>2 DEF MhInv
    <2>2. MhConnOK(k) /\ k.user = mhConn[c].user /\ k.once = mhConn[c].once
      BY <1>1 DEF MhConnOK, MhConnRecord
    <2> QED
      BY <2>1, <2>2, MhOneConn DEF MhPumpEnds, MhPumpOnly
  <1>3. CASE mhConn' = [mhConn EXCEPT ![c].write = "done"]
    <2> DEFINE k == [mhConn[c] EXCEPT !.write = "done"]
    <2>1. mhConn' = [mhConn EXCEPT ![c] = k]
      BY <1>3 DEF MhInv
    <2>2. MhConnOK(k) /\ k.user = mhConn[c].user /\ k.once = mhConn[c].once
      BY <1>1 DEF MhConnOK, MhConnRecord
    <2> QED
      BY <2>1, <2>2, MhOneConn DEF MhPumpEnds, MhPumpOnly
  <1> QED
    BY <1>2, <1>3 DEF MhPumpEnds

LEMMA MhAgeInv ==
    ASSUME MhInv, NEW c \in MhSock, MhAge(c)
    PROVE  MhInv'
  <1> DEFINE k == [mhConn[c] EXCEPT !.fresh = FALSE]
  <1>1. mhConn' = [mhConn EXCEPT ![c] = k] /\ MhConnOK(mhConn[c])
    BY DEF MhInv, MhAge
  <1>2. MhConnOK(k) /\ k.user = mhConn[c].user /\ k.once = mhConn[c].once
    BY <1>1 DEF MhConnOK, MhConnRecord
  <1> QED
    BY <1>1, <1>2, MhOneConn DEF MhAge, MhPumpOnly

\* A step of the cleaner, of the callback that drops a message, or of nobody.
LEMMA MhStaleInv ==
    ASSUME MhInv, UNCHANGED <<mhConn, mhTable, mhSend, mhUp>>,
           mhStale' \subseteq {c \in MhSock : mhConn[c].user /= MhNobody}
    PROVE  MhInv'
  <1>1. \A c \in MhSock : MhConnOK(mhConn[c])'
    BY DEF MhInv, MhConnOK
  <1> QED
    BY <1>1, MhQuiet DEF MhInv

LEMMA cleanupStaleConnectionsInv ==
    ASSUME MhInv, cleanupStaleConnections
    PROVE  MhInv'
  <1>1. ASSUME NEW c \in mhStale' PROVE c \in MhSock /\ mhConn[c].user /= MhNobody
    <2>1. PICK u \in MhUser : c \in mhTable[u]
      BY DEF cleanupStaleConnections
    <2> QED
      BY <2>1, MhTabled
  <1> QED
    BY <1>1, MhStaleInv DEF cleanupStaleConnections

-----------------------------------------------------------------------------
(* The theorems *)

LEMMA MhInvInit == MhInit => MhInv
  BY MhEmptyInv DEF MhInit, MhEmpty

LEMMA MhInvStep == MhInv /\ [MhNext]_mhVars => MhInv'
  <1> SUFFICES ASSUME MhInv, [MhNext]_mhVars PROVE MhInv'
    OBVIOUS
  <1>1. ASSUME NEW c \in MhSock, NEW u \in MhUser, ServeWS(c, u) PROVE MhInv'
    BY <1>1, ServeWSInv
  <1>2. ASSUME NEW s \in MhSender, NEW u \in MhUser, handleNATSMessage(s, u) PROVE MhInv'
    BY <1>2, handleNATSMessageInv
  <1>3. ASSUME NEW s \in MhSender, extractUserID(s) PROVE MhInv'
    BY <1>3, MhStaleInv DEF extractUserID, MhInv
  <1>4. ASSUME NEW s \in MhSender, MhRange(s) \/ sendToUser(s) \/ MhSenderClosed(s) PROVE MhInv'
    BY <1>4, MhRangeInv, sendToUserInv, MhSenderClosedInv
  <1>5. ASSUME NEW c \in MhSock, MhUnregister(c) \/ closeConnection(c) PROVE MhInv'
    BY <1>5, MhUnregisterInv, closeConnectionInv
  <1>6. ASSUME NEW c \in MhSock,
               readPump(c) \/ handleMessage(c) \/ writePump(c) \/ MhPumpEnds(c) \/ MhAge(c)
        PROVE  MhInv'
    BY <1>6, readPumpInv, handleMessageInv, writePumpInv, MhPumpEndsInv, MhAgeInv
  <1>7. ASSUME NEW c \in MhSock, MhCleaned(c) PROVE MhInv'
    BY <1>7, MhStaleInv DEF MhCleaned, MhInv
  <1>8. CASE cleanupStaleConnections
    BY <1>8, cleanupStaleConnectionsInv
  <1>9. CASE UNCHANGED mhVars
    BY <1>9, MhStaleInv DEF mhVars, MhInv
  <1> QED
    BY <1>1, <1>2, <1>3, <1>4, <1>5, <1>6, <1>7, <1>8, <1>9 DEF MhNext

\* What the invariant says of the hub.
LEMMA MhInvImplies == MhInv => MhTypeOK /\ MhTableIsLive /\ MhClosedOnce /\ MhOwnMessages
  <1> SUFFICES ASSUME MhInv PROVE MhTypeOK /\ MhTableIsLive /\ MhClosedOnce /\ MhOwnMessages
    OBVIOUS
  <1>1. ASSUME NEW c \in MhSock PROVE mhConn[c].send \in Seq(MhUser)
    <2>1. MhConnOK(mhConn[c])
      BY DEF MhInv
    <2>2. CASE mhConn[c].user = MhNobody
      BY <2>1, <2>2, EmptySeq DEF MhConnOK
    <2>3. CASE mhConn[c].user /= MhNobody
      <3>1. mhConn[c].send \in Seq({mhConn[c].user}) /\ {mhConn[c].user} \subseteq MhUser
        BY <2>1, <2>3 DEF MhConnOK, MhConnRecord, MhSomebody
      <3> QED
        BY <3>1, SeqMonotonic
    <2> QED
      BY <2>2, <2>3
  <1>2. ASSUME NEW c \in MhSock
        PROVE /\ mhConn[c].user \in MhUser \cup {MhNobody}
              /\ mhConn[c].once \in {"no", "running", "done"}
              /\ Len(mhConn[c].send) <= MhBuffer
              /\ mhConn[c].read \in {"off", "wait", "reply", "close", "done"}
              /\ mhConn[c].write \in {"off", "wait", "close", "done"}
              /\ mhConn[c].got \subseteq {mhConn[c].user}
    BY DEF MhInv, MhConnOK, MhConnRecord, MhSomebody
  <1>3. \A s \in MhSender : mhSend[s].at \in MhSock \cup {MhNobody}
    BY DEF MhInv, MhSendOK, MhSendRecord
  <1>4. MhTypeOK
    BY <1>1, <1>2, <1>3 DEF MhInv, MhTypeOK
  <1>5. MhClosedOnce /\ MhTableIsLive
    BY DEF MhInv, MhClosedOnce
  <1> QED
    BY <1>2, <1>4, <1>5 DEF MhOwnMessages

\* However the pumps, the callbacks and the cleaner of media-service interleave, the hub's
\* table is exactly its open connections, Send is closed once and every client gets only
\* what is addressed to its user (closeConnection, registerConnection, sendToUser).
THEOREM MediaHubSafe == MhSpec => [](MhTypeOK /\ MhTableIsLive /\ MhClosedOnce /\ MhOwnMessages)
  <1>1. MhSpec => []MhInv
    BY MhInvInit, MhInvStep, PTL DEF MhSpec
  <1> QED
    BY <1>1, MhInvImplies, PTL

-----------------------------------------------------------------------------
(* MediaAccess *)

\* What was put back are letters of the topic before place top, in their order.
MaBackOK(back, dead, top) ==
    \E from \in [DOMAIN back -> 1 .. top] :
       \A i, j \in DOMAIN back : back[i] = dead[from[i]] /\ (i < j => from[i] < from[j])

\* The replay in progress has looked at the letters before next.
MaReplayOK ==
    /\ maDead \in Seq(MaLetters)
    /\ maReplay \in [on : BOOLEAN, max : Int, next : Nat \ {0}, replayed : Nat, back : Seq(MaLetters)]
    /\ maReplay.next <= Len(maDead) + 1
    /\ maReplay.replayed = Len(maReplay.back) /\ maReplay.replayed < maReplay.next
    /\ MaBackOK(maReplay.back, maDead, maReplay.next - 1)

MaPromises == MaPartsCover /\ MaTypeIsTrue /\ MaPrivate /\ MaReplayCounts

MaInv ==
    /\ maAns.op \in {"none", "upload", "read", "replay", "stats"} /\ maLeft \in 0 .. MaReplays
    /\ MaReplayOK /\ MaPromises

\* Products of natural numbers grow with their factors.
LEMMA Times ==
    ASSUME NEW a \in Nat, NEW b \in Nat, NEW c \in Nat
    PROVE  /\ a * c \in Nat /\ a * c = c * a
           /\ (a + 1) * c = a * c + c
           /\ a <= b => a * c <= b * c
           /\ a * c < b * c => a < b
  <1>1. a * c \in Nat /\ b * c \in Nat /\ a * c = c * a /\ (a + 1) * c = a * c + c
    OBVIOUS
  <1>2. a <= b => a * c <= b * c
    OBVIOUS
  <1>3. b <= a => b * c <= a * c
    OBVIOUS
  <1> QED
    BY <1>1, <1>2, <1>3

\* The quotient rounded up.
LEMMA MaCeilBounds ==
    ASSUME NEW a \in Nat, NEW b \in Nat \ {0}
    PROVE  MaCeil(a, b) \in Nat /\ MaCeil(a, b) * b >= a /\ MaCeil(a, b) * b < a + b
  <1>1. PICK x \in Nat : x = a + b - 1
    OBVIOUS
  <1>2. PICK q \in Int : q = x \div b
    OBVIOUS
  <1>3. b * q <= x /\ x < b * q + b
    <2>1. b * q <= x
      BY <1>2
    <2>2. x < b * q + b
      BY <1>2
    <2> QED
      BY <2>1, <2>2
  <1>4. MaCeil(a, b) = q
    BY <1>1, <1>2 DEF MaCeil
  <1>5. q >= 0
    <2>1. q <= -1 => b * q <= b * (-1)
      OBVIOUS
    <2>2. q <= -1 => b * q + b <= 0
      BY <2>1
    <2> QED
      BY <1>3, <2>2
  <1>6. q * b = b * q /\ b * q \in Int
    OBVIOUS
  <1> QED
    BY <1>1, <1>3, <1>4, <1>5, <1>6

\* The parts of a file cover it.
LEMMA MaPartsGood ==
    ASSUME NEW size \in Nat \ {0}, NEW min \in Nat, min >= MaMaxParts
    PROVE  LET p == calculateParts(size, min)
           IN  /\ p.parts * p.size >= size /\ (p.parts - 1) * p.size < size
               /\ p.parts <= MaMaxParts /\ (p.parts > 1 => p.size >= min)
  <1>1. PICK most \in Nat \ {0} : most = MaMaxParts
    BY MaAssumption
  <1>2. min \in Nat \ {0}
    BY <1>1
  <1>3. ASSUME NEW n \in Nat, NEW each \in Nat, calculateParts(size, min) = [parts |-> n, size |-> each],
               n * each >= size, (n - 1) * each < size, n <= most, n > 1 => each >= min
        PROVE  LET p == calculateParts(size, min)
               IN  /\ p.parts * p.size >= size /\ (p.parts - 1) * p.size < size
                   /\ p.parts <= MaMaxParts /\ (p.parts > 1 => p.size >= min)
    BY <1>1, <1>3
  <1>4. CASE size <= min
    <2>1. PICK one \in Nat : one = 1
      OBVIOUS
    <2>2. calculateParts(size, min) = [parts |-> one, size |-> size]
      BY <1>4, <2>1 DEF calculateParts
    <2>3. one * size >= size /\ (one - 1) * size < size /\ one <= most /\ ~ (one > 1)
      BY <2>1
    <2> QED
      BY <1>3, <2>2, <2>3
  <1>5. PICK c \in Nat : c = MaCeil(size, min) /\ c * min >= size /\ c * min < size + min
    BY <1>2, MaCeilBounds
  <1>6. PICK d \in Nat : d = MaCeil(size, most) /\ d * most >= size /\ d * most < size + most
    BY MaCeilBounds
  <1>7. CASE size > min /\ c > most
    <2>1. calculateParts(size, min) = [parts |-> most, size |-> d]
      BY <1>1, <1>5, <1>6, <1>7 DEF calculateParts
    <2>2. most + 1 \in Nat /\ most + 1 <= c
      BY <1>7
    <2>3. (most + 1) * min <= c * min /\ (most + 1) * min = most * min + min /\ most * min \in Nat /\ c * min \in Nat
      BY <2>2, Times
    <2>4. most * min < size
      BY <1>5, <2>3
    <2>5. most * min = min * most /\ d * most \in Nat
      BY Times
    <2>6. min * most < d * most
      BY <1>6, <2>3, <2>4, <2>5
    <2>7. min < d
      BY <2>6, Times
    <2>8. most * d = d * most
      BY Times
    <2>9. (most - 1) * d = most * d - d
      <3>1. PICK k \in Nat : most = k + 1
        <4>1. most - 1 \in Nat /\ most = (most - 1) + 1
          OBVIOUS
        <4> QED
          BY <4>1
      <3>2. (k + 1) * d = k * d + d /\ k * d \in Nat
        BY Times
      <3> QED
        BY <3>1, <3>2
    <2>10. (most - 1) * d < size
      BY <1>1, <1>6, <2>5, <2>7, <2>8, <2>9
    <2> QED
      BY <1>3, <1>6, <2>1, <2>7, <2>8, <2>10
  <1>8. CASE size > min /\ c <= most
    <2>1. calculateParts(size, min) = [parts |-> c, size |-> min]
      BY <1>1, <1>5, <1>8 DEF calculateParts
    <2>2. c > 0
      <3>1. c = 0 => c * min = 0
        OBVIOUS
      <3> QED
        BY <1>5, <3>1
    <2>3. PICK k \in Nat : c = k + 1
      <3>1. c - 1 \in Nat /\ c = (c - 1) + 1
        BY <2>2
      <3> QED
        BY <3>1
    <2>4. (k + 1) * min = k * min + min /\ k * min \in Nat
      BY Times
    <2>5. (c - 1) * min = k * min
      BY <2>3
    <2>6. (c - 1) * min < size
      BY <1>5, <2>3, <2>4, <2>5
    <2> QED
      BY <1>3, <1>5, <1>8, <2>1, <2>6
  <1> QED
    BY <1>4, <1>7, <1>8

\* An upload is cut into parts that cover it, and is stored only as what it is.
LEMMA MaUploadKeeps ==
    ASSUME NEW up \in MaUploads, MaUpload(up), MaReplayOK
    PROVE  maAns'.op = "upload" /\ MaPromises'
  <1>1. up \in MaUploadRequest /\ up.min >= MaMaxParts
    BY MaAssumption
  <1>2. up.size \in Int /\ up.min \in Nat
    BY <1>1 DEF MaUploadRequest
  <1>3. PICK verdict :
           verdict = IF ~ ValidateUploadRequest(up) THEN "refused"
                     ELSE IF ValidateObject(up.ct, up.bytes) /\ ChecksumValidate(up.sum) THEN "stored" ELSE "failed"
    OBVIOUS
  <1>4. PICK parts, kind : parts = calculateParts(up.size, up.min) /\ kind = DeriveMediaType(up.ct)
    OBVIOUS
  <1>5. maAns' = [op |-> "upload", up |-> up, parts |-> parts, kind |-> kind, verdict |-> verdict]
    BY <1>3, <1>4 DEF MaUpload
  <1>6. PICK ans : ans = maAns'
    OBVIOUS
  <1>7. ans.op = "upload" /\ ans.up = up /\ ans.parts = parts /\ ans.kind = kind /\ ans.verdict = verdict
    BY <1>5, <1>6
  <1>8. verdict /= "refused" => ValidateUploadRequest(up)
    BY <1>3
  <1>9. verdict = "stored" => ValidateUploadRequest(up) /\ ValidateObject(up.ct, up.bytes)
    BY <1>3
  <1>10. MaPartsCover'
    <2>1. SUFFICES ASSUME verdict /= "refused"
                   PROVE  /\ parts.parts * parts.size >= up.size /\ (parts.parts - 1) * parts.size < up.size
                          /\ parts.parts <= MaMaxParts /\ (parts.parts > 1 => parts.size >= up.min)
      BY <1>6, <1>7 DEF MaPartsCover
    <2>2. up.size \in Nat \ {0}
      BY <1>2, <1>8, <2>1 DEF ValidateUploadRequest
    <2> QED
      BY <1>1, <1>2, <1>4, <2>2, MaPartsGood
  <1>11. MaTypeIsTrue'
    <2>1. PICK t, s : t = up.ct.type /\ s = up.ct.spelling
      OBVIOUS
    <2>2. SUFFICES ASSUME verdict = "stored", s = "exact"
                   PROVE  /\ t \in magicByteSignatures \cup ContainerTypes => up.bytes = t
                          /\ t /= "octet" => up.ext \in allowedExtensions[t]
                          /\ t \in MaImages <=> kind = "IMAGE"
      BY <1>6, <1>7, <2>1 DEF MaTypeIsTrue
    <2>3. t \in magicByteSignatures \cup ContainerTypes => up.bytes = t
      BY <1>9, <2>1, <2>2 DEF ValidateObject, IsContainerType, magicByteSignatures, ContainerTypes
    <2>4. t /= "octet" => up.ext \in allowedExtensions[t]
      <3>1. t \in MaTypes /\ (allowedExtensions[t] = {} \/ up.ext \in allowedExtensions[t])
        BY <1>9, <2>1, <2>2 DEF ValidateUploadRequest, ValidateContentType, ValidateExtension
      <3>2. t \in {"jpeg", "png", "webp", "mp4", "matroska", "pdf", "text", "octet"}
        BY <3>1 DEF MaTypes, allowedExtensions
      <3>3. t /= "octet" => allowedExtensions[t] /= {}
        BY <3>2 DEF allowedExtensions
      <3> QED
        BY <3>1, <3>3
    <2>5. t \in MaImages <=> kind = "IMAGE"
      BY <1>4, <2>1, <2>2 DEF DeriveMediaType, MaImages, MaVideos
    <2> QED
      BY <2>3, <2>4, <2>5
  <1>12. MaPrivate' /\ MaReplayCounts'
    BY <1>6, <1>7 DEF MaPrivate, MaReplayCounts
  <1> QED
    BY <1>6, <1>7, <1>10, <1>11, <1>12 DEF MaPromises

\* A list that does not fill its page is complete.
LEMMA MaListWhole ==
    ASSUME NEW u, NEW n \in Nat, NEW page \in MaFirst(n, u)
    PROVE  page \subseteq MaOwned(u) /\ (Cardinality(page) /= n => page = MaOwned(u))
  <1>1. Len(MaOrder) \in Nat /\ DOMAIN MaOrder = 1 .. Len(MaOrder)
    BY MaAssumption
  <1>2. IsFiniteSet(MaOwned(u))
    <2>1. IsFiniteSet(1 .. Len(MaOrder))
      BY <1>1, FS_Interval
    <2> QED
      BY <1>1, <2>1, FS_Subset DEF MaOwned
  <1>3. page \subseteq MaOwned(u)
    BY DEF MaFirst
  <1>4. /\ Cardinality(page) = IF n < Cardinality(MaOwned(u)) THEN n ELSE Cardinality(MaOwned(u))
    BY DEF MaFirst
  <1>5. Cardinality(page) /= n => Cardinality(page) = Cardinality(MaOwned(u))
    BY <1>4
  <1> QED
    BY <1>2, <1>3, <1>5, FS_Subset

\* A list shows rows of one owner, all of them unless it names a next page.
LEMMA MaListPrivate ==
    ASSUME NEW u, NEW limit \in Int, NEW cursor, NEW a \in ListByOwner(u, limit, cursor), a.ok
    PROVE  /\ \A i \in a.data.items : MaRows[i].owner = u
           /\ ~ a.data.next => a.data.items = {MaOrder[k] : k \in MaOwned(u)}
  <1>1. cursor = ""
    <2>1. cursor /= "" => ListByOwner(u, limit, cursor) = MaRefused("error")
      BY Zenon DEF ListByOwner
    <2>2. \A b \in MaRefused("error") : ~ b.ok
      BY DEF MaRefused
    <2> QED
      BY <2>1, <2>2
  <1>2. PICK n \in Nat : n = IF limit <= 0 \/ limit > 100 THEN MaPageLimit ELSE limit
    BY MaAssumption
  <1>3. a \in MaPage(u, n)
    BY <1>1, <1>2 DEF ListByOwner
  <1>4. PICK page \in MaFirst(n, u) : a \in MaGives([items |-> {MaOrder[k] : k \in page}, next |-> Cardinality(page) = n])
    BY <1>3 DEF MaPage
  <1>5. PICK items, next : items = {MaOrder[k] : k \in page} /\ next = (Cardinality(page) = n)
    OBVIOUS
  <1>6. a.data = [items |-> items, next |-> next]
    BY <1>4, <1>5 DEF MaGives
  <1>7. page \subseteq MaOwned(u) /\ (Cardinality(page) /= n => page = MaOwned(u))
    BY MaListWhole
  <1>8. \A i \in items : MaRows[i].owner = u
    BY <1>5, <1>7 DEF MaOwned
  <1>9. ~ next => items = {MaOrder[k] : k \in MaOwned(u)}
    BY <1>5, <1>7
  <1> QED
    BY <1>6, <1>8, <1>9

\* The access check: what is given belongs to the user, unless administrators may ask.
LEMMA MaAuthorizedOnly ==
    ASSUME NEW q, NEW asAdmin, NEW then, NEW a \in MaAuthorized(q, asAdmin, then), a.ok
    PROVE  (asAdmin \/ MaRows[q.id].owner = q.user) /\ a \in then
  <1>1. \A why : \A b \in MaRefused(why) : ~ b.ok
    BY DEF MaRefused
  <1> QED
    BY <1>1 DEF MaAuthorized

\* The URL of a file that is withheld is not signed.
LEMMA MaUrlPrivate ==
    ASSUME NEW q, NEW asAdmin, NEW a \in GetDownloadUrl(q, asAdmin), a.ok
    PROVE  (asAdmin \/ MaRows[q.id].owner = q.user) /\ MaRows[q.id].status \notin MaWithheld
  <1>1. \A why : \A b \in MaRefused(why) : ~ b.ok
    BY DEF MaRefused
  <1> DEFINE signed == UNION {MaGives([id |-> q.id, object |-> o]) : o \in MaObject(q)}
             then == IF IsWithheld(q) THEN MaRefused(IF MaRows[q.id].status = "QUARANTINED" THEN "quarantined"
                                                     ELSE "not available")
                     ELSE signed
  <1>2. a \in MaAuthorized(q, asAdmin, then)
    BY <1>1 DEF GetDownloadUrl
  <1> HIDE DEF then
  <1>3. (asAdmin \/ MaRows[q.id].owner = q.user) /\ a \in then
    BY <1>2, MaAuthorizedOnly
  <1>4. ~ IsWithheld(q)
    <2> HIDE DEF signed
    <2>1. IsWithheld(q) => \E why : then = MaRefused(why)
      BY Zenon DEF then
    <2> QED
      BY <1>1, <1>3, <2>1
  <1> QED
    BY <1>3, <1>4 DEF IsWithheld

\* A read gives only what the requester may see.
LEMMA MaReadKeeps ==
    ASSUME NEW q \in MaReads, MaRead(q), MaReplayOK
    PROVE  maAns'.op = "read" /\ MaPromises'
  <1>1. q \in MaReadRequest
    BY MaAssumption
  <1>2. PICK a \in MaAnswers(q) : maAns' = [op |-> "read", q |-> q, ans |-> a,
                                            code |-> IF a.ok THEN "OK" ELSE toGRPCStatus(a.why)]
    BY DEF MaRead
  <1>3. PICK code, ans : maAns' = [op |-> "read", q |-> q, ans |-> a, code |-> code] /\ ans = maAns'
    BY <1>2
  <1>4. ans.op = "read" /\ ans.q = q /\ ans.ans = a
    BY <1>3
  <1>5. PICK r : r = MaRequester(q)
    OBVIOUS
  <1>6. /\ r.op = q.op /\ r.id = q.id /\ r.role = q.role /\ q.limit \in Int
        /\ q.user /= "" => r.user = q.user
    BY <1>1, <1>5 DEF MaRequester, MaReadRequest
  <1> DEFINE grpc == r.op \in {"ResolveMediaUrl", "GetMedia"}
             allowed(i) == MaRows[i].owner = r.user \/ (r.role = "admin" /\ ~ grpc)
             whole == {MaOrder[k] : k \in MaOwned(IF r.id = "" THEN r.user ELSE r.id)}
             good == /\ r.op \in {"media", "status", "url", "ResolveMediaUrl", "GetMedia"} => allowed(r.id)
                     /\ r.op \in {"url", "ResolveMediaUrl"} => MaRows[r.id].status \notin MaWithheld
                     /\ r.op = "list" => /\ \A i \in a.data.items : allowed(i)
                                         /\ ~ a.data.next => a.data.items = whole
  <1>7. \A why : \A b \in MaRefused(why) : ~ b.ok
    BY DEF MaRefused
  <1>8. ASSUME a.ok PROVE good
    <2>1. CASE q.op = "media" /\ q.user /= ""
      <3>1. a \in MaAuthorized(q, isUserAdmin(q), MaGives({q.id}))
        BY <1>2, <2>1 DEF MaAnswers, resolveMedia
      <3>2. isUserAdmin(q) \/ MaRows[q.id].owner = q.user
        BY <1>8, <3>1, MaAuthorizedOnly
      <3> QED
        BY <1>6, <2>1, <3>2 DEF isUserAdmin
    <2>2. CASE q.op = "list" /\ q.user /= ""
      <3>1. a \in resolveListMedia(q)
        BY <1>2, <2>2 DEF MaAnswers
      <3>2. PICK target : target = IF q.id = "" THEN q.user ELSE q.id
        OBVIOUS
      <3>3. (target = q.user \/ isUserAdmin(q)) /\ a \in ListByOwner(target, q.limit, q.cursor)
        BY <1>7, <1>8, <3>1, <3>2 DEF resolveListMedia
      <3>4. /\ \A i \in a.data.items : MaRows[i].owner = target
            /\ ~ a.data.next => a.data.items = {MaOrder[k] : k \in MaOwned(target)}
        <4>1. PICK limit \in Int, cursor \in {q.cursor} : limit = q.limit
          BY <1>6
        <4>2. a \in ListByOwner(target, limit, cursor)
          BY <3>3, <4>1
        <4> HIDE DEF whole
        <4> QED
          BY <1>8, <4>2, MaListPrivate
      <3>5. \A i \in a.data.items : allowed(i)
        BY <1>6, <2>2, <3>3, <3>4 DEF isUserAdmin
      <3>6. target = IF r.id = "" THEN r.user ELSE r.id
        BY <1>6, <2>2, <3>2
      <3> QED
        BY <1>6, <2>2, <3>4, <3>5, <3>6
    <2>3. CASE q.op = "status" /\ q.user /= ""
      <3>1. a \in GetUploadStatus(q)
        BY <1>2, <2>3 DEF MaAnswers, MaStatusAndUrl
      <3>2. MaRows[q.id].owner = q.user
        BY <1>8, <3>1, MaAuthorizedOnly DEF GetUploadStatus
      <3> QED
        BY <1>6, <2>3, <3>2
    <2>4. CASE q.op = "url" /\ q.user /= ""
      <3>1. a \in GetDownloadUrl(q, isUserAdmin(q))
        BY <1>2, <2>4 DEF MaAnswers, MaStatusAndUrl
      <3>2. (isUserAdmin(q) \/ MaRows[q.id].owner = q.user) /\ MaRows[q.id].status \notin MaWithheld
        BY <1>8, <3>1, MaUrlPrivate
      <3> QED
        BY <1>6, <2>4, <3>2 DEF isUserAdmin
    <2>5. CASE q.op = "quota" /\ q.user /= ""
      BY <1>6, <2>5
    <2>6. CASE q.op = "ResolveMediaUrl" /\ r.user /= ""
      <3>1. a \in GetDownloadUrl(r, FALSE)
        BY <1>2, <1>5, <2>6 DEF MaAnswers
      <3>2. MaRows[r.id].owner = r.user /\ MaRows[r.id].status \notin MaWithheld
        BY <1>8, <3>1, MaUrlPrivate
      <3> QED
        BY <1>6, <2>6, <3>2
    <2>7. CASE q.op = "GetMedia" /\ r.user /= ""
      <3>1. a \in MaAuthorized(r, FALSE, MaGives({r.id}))
        BY <1>2, <1>5, <2>7 DEF MaAnswers, GetMediaExecute
      <3>2. MaRows[r.id].owner = r.user
        BY <1>8, <3>1, MaAuthorizedOnly
      <3> QED
        BY <1>6, <2>7, <3>2
    <2>8. CASE ~ (\/ q.op \in {"media", "list", "status", "url", "quota"} /\ q.user /= ""
                  \/ q.op \in {"ResolveMediaUrl", "GetMedia"} /\ r.user /= "")
      <3>1. MaAnswers(q) = MaRefused("unauthenticated")
        BY <1>5, <2>8 DEF MaAnswers
      <3> QED
        BY <1>2, <1>7, <1>8, <3>1
    <2> QED
      BY <2>1, <2>2, <2>3, <2>4, <2>5, <2>6, <2>7, <2>8
  <1>9. MaPrivate'
    <2>1. a.ok => good
      BY <1>8
    <2> QED
      BY <1>3, <1>4, <1>5, <2>1 DEF MaPrivate
  <1>10. MaPartsCover' /\ MaTypeIsTrue' /\ MaReplayCounts'
    BY <1>3, <1>4 DEF MaPartsCover, MaTypeIsTrue, MaReplayCounts
  <1> QED
    BY <1>3, <1>4, <1>9, <1>10 DEF MaPromises

\* What was put back stays what it is while letters arrive.
LEMMA MaBackGrows ==
    ASSUME NEW back, NEW dead, NEW top \in Nat, MaBackOK(back, dead, top),
           NEW more, NEW high \in Nat, top <= high, \A k \in 1 .. top : more[k] = dead[k]
    PROVE  MaBackOK(back, more, high)
  <1>1. PICK from \in [DOMAIN back -> 1 .. top] :
           \A i, j \in DOMAIN back : back[i] = dead[from[i]] /\ (i < j => from[i] < from[j])
    BY DEF MaBackOK
  <1>2. from \in [DOMAIN back -> 1 .. high]
    BY <1>1
  <1>3. \A i, j \in DOMAIN back : back[i] = more[from[i]] /\ (i < j => from[i] < from[j])
    BY <1>1
  <1> QED
    BY <1>2, <1>3 DEF MaBackOK

\* A letter that is put back comes after those before it.
LEMMA MaBackAppends ==
    ASSUME NEW back \in Seq(MaLetters), NEW dead, NEW top \in Nat, MaBackOK(back, dead, top),
           dead[top + 1] \in MaLetters
    PROVE  /\ MaBackOK(Append(back, dead[top + 1]), dead, top + 1)
           /\ Append(back, dead[top + 1]) \in Seq(MaLetters) /\ Len(Append(back, dead[top + 1])) = Len(back) + 1
  <1>1. PICK n \in Nat : n = Len(back) /\ DOMAIN back = 1 .. n
    OBVIOUS
  <1>2. PICK next : next = Append(back, dead[top + 1])
    OBVIOUS
  <1>3. /\ next \in Seq(MaLetters) /\ Len(next) = n + 1 /\ DOMAIN next = 1 .. (n + 1)
        /\ \A i \in 1 .. n : next[i] = back[i]
        /\ next[n + 1] = dead[top + 1]
    BY <1>1, <1>2
  <1>4. PICK from \in [1 .. n -> 1 .. top] :
           \A i, j \in 1 .. n : back[i] = dead[from[i]] /\ (i < j => from[i] < from[j])
    BY <1>1 DEF MaBackOK
  <1>5. PICK f : f = [i \in 1 .. (n + 1) |-> IF i = n + 1 THEN top + 1 ELSE from[i]]
    OBVIOUS
  <1>6. ASSUME NEW i \in 1 .. (n + 1)
        PROVE  f[i] \in 1 .. (top + 1) /\ next[i] = dead[f[i]] /\ (i \in 1 .. n => f[i] = from[i] /\ f[i] <= top)
    <2>1. CASE i = n + 1
      BY <1>3, <1>5, <2>1
    <2>2. CASE i \in 1 .. n
      BY <1>3, <1>4, <1>5, <2>2
    <2> QED
      BY <2>1, <2>2
  <1>7. f[n + 1] = top + 1
    BY <1>5
  <1>8. ASSUME NEW i \in 1 .. (n + 1), NEW j \in 1 .. (n + 1), i < j PROVE f[i] < f[j]
    <2>1. i \in 1 .. n
      BY <1>8
    <2>2. CASE j = n + 1
      BY <1>6, <1>7, <2>1, <2>2
    <2>3. CASE j \in 1 .. n
      BY <1>4, <1>6, <1>8, <2>1, <2>3
    <2> QED
      BY <2>2, <2>3
  <1>9. f \in [1 .. (n + 1) -> 1 .. (top + 1)]
    BY <1>5, <1>6
  <1>10. MaBackOK(next, dead, top + 1)
    BY <1>3, <1>6, <1>8, <1>9 DEF MaBackOK
  <1> QED
    BY <1>1, <1>2, <1>3, <1>10

\* The promises about an answer do not depend on letters that arrive after it.
LEMMA MaPromisesKept ==
    ASSUME MaPromises, UNCHANGED maAns, NEW n \in Nat, DOMAIN maDead = 1 .. n, NEW m \in Nat, DOMAIN maDead' = 1 .. m,
           n <= m, \A k \in 1 .. n : maDead'[k] = maDead[k]
    PROVE  MaPromises'
  <1>1. MaPartsCover' /\ MaTypeIsTrue'
    BY DEF MaPromises, MaPartsCover, MaTypeIsTrue
  <1>2. MaPrivate'
    BY DEF MaPromises, MaPrivate
  <1>3. MaReplayCounts'
    <2>1. PICK dead : dead = maDead'
      OBVIOUS
    <2>2. SUFFICES ASSUME maAns.op = "replay"
                   PROVE  /\ maAns.replayed = Len(maAns.back)
                          /\ \E from \in [DOMAIN maAns.back -> DOMAIN dead] : \A i, j \in DOMAIN maAns.back :
                                maAns.back[i] = dead[from[i]] /\ (i < j => from[i] < from[j])
      BY <2>1 DEF MaReplayCounts
    <2>3. PICK from \in [DOMAIN maAns.back -> 1 .. n] : \A i, j \in DOMAIN maAns.back :
             maAns.back[i] = maDead[from[i]] /\ (i < j => from[i] < from[j])
      BY <2>2 DEF MaPromises, MaReplayCounts
    <2>4. \A i, j \in DOMAIN maAns.back : maAns.back[i] = dead[from[i]] /\ (i < j => from[i] < from[j])
      BY <2>1, <2>3
    <2>5. from \in [DOMAIN maAns.back -> DOMAIN dead]
      BY <2>1, <2>3
    <2> QED
      BY <2>2, <2>4, <2>5 DEF MaPromises, MaReplayCounts
  <1> QED
    BY <1>1, <1>2, <1>3 DEF MaPromises

\* The service starts with the invariant.
LEMMA MaInvInit == MaInit => MaInv
  <1> SUFFICES ASSUME MaInit PROVE MaInv
    OBVIOUS
  <1>1. maAns.op = "none" /\ maDead = << >> /\ maLeft \in 0 .. MaReplays
    BY MaAssumption DEF MaInit, MaNone
  <1>2. MaPromises
    BY <1>1 DEF MaPromises, MaPartsCover, MaTypeIsTrue, MaPrivate, MaReplayCounts
  <1>3. PICK zero \in Nat, one \in Nat \ {0} : zero = 0 /\ one = 1
    OBVIOUS
  <1>4. PICK none \in Seq(MaLetters) : none = << >> /\ Len(none) = 0 /\ DOMAIN none = {}
    <2>1. << >> \in Seq(MaLetters) /\ Len(<< >>) = 0 /\ DOMAIN << >> = {}
      OBVIOUS
    <2> QED
      BY <2>1, Zenon
  <1>5. maReplay = [on |-> FALSE, max |-> zero, next |-> one, replayed |-> zero, back |-> none]
    BY <1>3, <1>4 DEF MaInit, MaIdle
  <1>6. /\ maReplay \in [on : BOOLEAN, max : Int, next : Nat \ {0}, replayed : Nat, back : Seq(MaLetters)]
        /\ maReplay.next = one /\ maReplay.replayed = zero /\ maReplay.back = none
    <2> HIDE <1>3, <1>4
    <2> QED
      BY <1>5
  <1>7. MaBackOK(none, maDead, 0)
    <2>1. [i \in {} |-> 0] \in [DOMAIN none -> 1 .. 0]
      BY <1>4
    <2> QED
      BY <1>4, <2>1 DEF MaBackOK
  <1>8. MaReplayOK
    <2>1. maDead \in Seq(MaLetters) /\ Len(maDead) = 0
      BY <1>1
    <2> QED
      BY <1>3, <1>4, <1>6, <1>7, <2>1 DEF MaReplayOK
  <1> QED
    BY <1>1, <1>2, <1>8 DEF MaInv

\* A letter arrives.
LEMMA MaLetterKeeps ==
    ASSUME MaInv, NEW m \in MaLetters, routeToDLQ(m)
    PROVE  MaInv'
  <1>1. MaReplayOK /\ MaPromises
    BY DEF MaInv
  <1>2. PICK n \in Nat : n = Len(maDead) /\ DOMAIN maDead = 1 .. n
    BY <1>1 DEF MaReplayOK
  <1>3. /\ maDead' \in Seq(MaLetters) /\ Len(maDead') = n + 1 /\ DOMAIN maDead' = 1 .. (n + 1)
        /\ \A k \in 1 .. n : maDead'[k] = maDead[k]
    BY <1>1, <1>2 DEF routeToDLQ, MaReplayOK
  <1>4. MaPromises'
    BY <1>1, <1>2, <1>3, MaPromisesKept DEF routeToDLQ
  <1>5. PICK top \in Nat : top = maReplay.next - 1 /\ top <= n
    BY <1>1, <1>2 DEF MaReplayOK
  <1>6. MaBackOK(maReplay.back, maDead', top)
    <2>1. PICK dead : dead = maDead'
      OBVIOUS
    <2>2. MaBackOK(maReplay.back, maDead, top)
      BY <1>1, <1>5 DEF MaReplayOK
    <2>3. \A k \in 1 .. top : dead[k] = maDead[k]
      BY <1>3, <1>5, <2>1
    <2>4. MaBackOK(maReplay.back, dead, top)
      BY <2>2, <2>3, MaBackGrows
    <2> QED
      BY <2>1, <2>4
  <1>7. MaReplayOK'
    BY <1>1, <1>2, <1>3, <1>5, <1>6 DEF routeToDLQ, MaReplayOK
  <1> QED
    BY <1>4, <1>7 DEF MaInv, routeToDLQ

\* A replay begins.
LEMMA MaReplayBegins ==
    ASSUME MaInv, NEW role, NEW max \in {0, 1}, resolveDLQReplay(role, max)
    PROVE  MaInv'
  <1>1. MaReplayOK /\ MaPromises /\ UNCHANGED <<maAns, maDead>>
    BY DEF MaInv, resolveDLQReplay
  <1>2. PICK n \in Nat : n = Len(maDead) /\ DOMAIN maDead = 1 .. n
    BY <1>1 DEF MaReplayOK
  <1>3. MaPromises'
    BY <1>1 DEF MaPromises, MaPartsCover, MaTypeIsTrue, MaPrivate, MaReplayCounts
  <1>4. PICK zero \in Nat, one \in Nat \ {0} : zero = 0 /\ one = 1
    OBVIOUS
  <1>5. PICK none \in Seq(MaLetters) : none = << >> /\ Len(none) = 0 /\ DOMAIN none = {}
    <2>1. << >> \in Seq(MaLetters) /\ Len(<< >>) = 0 /\ DOMAIN << >> = {}
      OBVIOUS
    <2> QED
      BY <2>1, Zenon
  <1>6. PICK most \in Int : most = IF max <= 0 THEN 100 ELSE max
    OBVIOUS
  <1>7. maReplay' = [on |-> TRUE, max |-> most, next |-> one, replayed |-> zero, back |-> none]
    BY <1>4, <1>5, <1>6 DEF resolveDLQReplay, MaIdle
  <1>8. /\ maReplay' \in [on : BOOLEAN, max : Int, next : Nat \ {0}, replayed : Nat, back : Seq(MaLetters)]
        /\ maReplay'.next = one /\ maReplay'.replayed = zero /\ maReplay'.back = none
    <2> HIDE <1>4, <1>5, <1>6
    <2> QED
      BY <1>7
  <1>9. MaBackOK(none, maDead, 0)
    <2>1. [i \in {} |-> 0] \in [DOMAIN none -> 1 .. 0]
      BY <1>5
    <2> QED
      BY <1>5, <2>1 DEF MaBackOK
  <1>10. MaReplayOK'
    BY <1>1, <1>2, <1>4, <1>5, <1>8, <1>9 DEF MaReplayOK
  <1>11. maLeft' \in 0 .. MaReplays
    BY MaAssumption DEF MaInv, resolveDLQReplay
  <1> QED
    BY <1>1, <1>3, <1>10, <1>11 DEF MaInv

\* A letter is put back, or refused and skipped.
LEMMA MaReplayGoes ==
    ASSUME MaInv, ReplayAllDLQMessages
    PROVE  MaInv'
  <1>1. MaReplayOK /\ MaPromises /\ UNCHANGED <<maAns, maDead, maLeft>>
    BY DEF MaInv, ReplayAllDLQMessages
  <1>2. PICK n \in Nat : n = Len(maDead) /\ DOMAIN maDead = 1 .. n /\ \A k \in 1 .. n : maDead[k] \in MaLetters
    BY <1>1 DEF MaReplayOK
  <1>3. MaPromises'
    BY <1>1 DEF MaPromises, MaPartsCover, MaTypeIsTrue, MaPrivate, MaReplayCounts
  <1>4. PICK w : w = maReplay
    OBVIOUS
  <1>5. /\ w \in [on : BOOLEAN, max : Int, next : Nat \ {0}, replayed : Nat, back : Seq(MaLetters)]
        /\ w.next <= n /\ w.replayed = Len(w.back) /\ w.replayed < w.next
        /\ MaBackOK(w.back, maDead, w.next - 1)
    BY <1>1, <1>2, <1>4 DEF MaReplayOK, ReplayAllDLQMessages
  <1>6. PICK top \in Nat, back \in Seq(MaLetters), done \in Nat : top = w.next - 1 /\ back = w.back /\ done = w.replayed
    BY <1>5
  <1>7. w.next = top + 1 /\ maDead[top + 1] \in MaLetters
    BY <1>2, <1>5, <1>6
  <1>8. PICK more : more = Append(back, maDead[top + 1])
    OBVIOUS
  <1>9. MaBackOK(more, maDead, top + 1) /\ more \in Seq(MaLetters) /\ Len(more) = done + 1
    BY <1>5, <1>6, <1>7, <1>8, MaBackAppends
  <1>10. MaBackOK(back, maDead, top + 1)
    BY <1>5, <1>6, MaBackGrows
  <1>11. PICK next \in Nat \ {0}, count \in Nat : next = top + 2 /\ count = done + 1
    <2>1. top + 2 \in Nat \ {0} /\ done + 1 \in Nat
      OBVIOUS
    <2> QED
      BY <2>1
  <1>e. w.next + 1 = next /\ w.replayed + 1 = count /\ next - 1 = top + 1 /\ next <= n + 1 /\ count < next
    BY <1>5, <1>6, <1>7, <1>11
  <1>12. CASE maReplay' = ReplayDLQMessage(TRUE)
    <2>1. maReplay' = [w EXCEPT !.next = next, !.replayed = count, !.back = more]
      BY <1>4, <1>5, <1>6, <1>7, <1>8, <1>e, <1>12 DEF ReplayDLQMessage
    <2>2. /\ maReplay' \in [on : BOOLEAN, max : Int, next : Nat \ {0}, replayed : Nat, back : Seq(MaLetters)]
          /\ maReplay'.next = next /\ maReplay'.replayed = count /\ maReplay'.back = more
      BY <1>5, <1>9, <2>1
    <2>3. MaReplayOK'
      BY <1>1, <1>2, <1>9, <1>11, <1>e, <2>2 DEF MaReplayOK
    <2> QED
      BY <1>1, <1>3, <2>3 DEF MaInv
  <1>13. CASE maReplay' = ReplayDLQMessage(FALSE)
    <2>1. maReplay' = [w EXCEPT !.next = next]
      BY <1>4, <1>5, <1>6, <1>7, <1>11, <1>13 DEF ReplayDLQMessage
    <2>2. /\ maReplay' \in [on : BOOLEAN, max : Int, next : Nat \ {0}, replayed : Nat, back : Seq(MaLetters)]
          /\ maReplay'.next = next /\ maReplay'.replayed = done /\ maReplay'.back = back
      BY <1>5, <1>6, <2>1
    <2>3. MaReplayOK'
      BY <1>1, <1>2, <1>5, <1>6, <1>10, <1>11, <1>e, <2>2 DEF MaReplayOK
    <2> QED
      BY <1>1, <1>3, <2>3 DEF MaInv
  <1> QED
    BY <1>12, <1>13 DEF ReplayAllDLQMessages

\* A replay answers.
LEMMA MaReplayAnswers ==
    ASSUME MaInv, MaReplayed
    PROVE  MaInv'
  <1>1. MaReplayOK /\ UNCHANGED <<maDead, maLeft>>
    BY DEF MaInv, MaReplayed
  <1>2. PICK n \in Nat : n = Len(maDead) /\ DOMAIN maDead = 1 .. n
    BY <1>1 DEF MaReplayOK
  <1>3. PICK top \in Nat : top = maReplay.next - 1
    BY <1>1 DEF MaReplayOK
  <1>4. PICK count, back : count = maReplay.replayed /\ back = maReplay.back
    OBVIOUS
  <1>5. count = Len(back) /\ top <= n /\ MaBackOK(back, maDead, top)
    BY <1>1, <1>2, <1>3, <1>4 DEF MaReplayOK
  <1>6. PICK from \in [DOMAIN back -> 1 .. n] :
           \A i, j \in DOMAIN back : back[i] = maDead[from[i]] /\ (i < j => from[i] < from[j])
    <2>1. MaBackOK(back, maDead, n)
      BY <1>5, MaBackGrows
    <2> QED
      BY <2>1 DEF MaBackOK
  <1>7. maAns' = [op |-> "replay", replayed |-> count, back |-> back]
    BY <1>4 DEF MaReplayed
  <1>8. MaReplayCounts'
    <2>1. PICK ans : ans = maAns'
      OBVIOUS
    <2>2. ans.op = "replay" /\ ans.replayed = count /\ ans.back = back
      BY <1>7, <2>1
    <2> QED
      BY <1>1, <1>2, <1>5, <1>6, <2>1, <2>2 DEF MaReplayCounts
  <1>9. MaPartsCover' /\ MaTypeIsTrue' /\ MaPrivate'
    BY <1>7 DEF MaPartsCover, MaTypeIsTrue, MaPrivate
  <1>10. PICK zero \in Nat, one \in Nat \ {0} : zero = 0 /\ one = 1
    OBVIOUS
  <1>11. PICK none \in Seq(MaLetters) : none = << >> /\ Len(none) = 0 /\ DOMAIN none = {}
    <2>1. << >> \in Seq(MaLetters) /\ Len(<< >>) = 0 /\ DOMAIN << >> = {}
      OBVIOUS
    <2> QED
      BY <2>1, Zenon
  <1>12. maReplay' = [on |-> FALSE, max |-> zero, next |-> one, replayed |-> zero, back |-> none]
    BY <1>10, <1>11 DEF MaReplayed, MaIdle
  <1>13. /\ maReplay' \in [on : BOOLEAN, max : Int, next : Nat \ {0}, replayed : Nat, back : Seq(MaLetters)]
         /\ maReplay'.next = one /\ maReplay'.replayed = zero /\ maReplay'.back = none
    <2> HIDE <1>10, <1>11
    <2> QED
      BY <1>12
  <1>14. MaBackOK(none, maDead, 0)
    <2>1. [i \in {} |-> 0] \in [DOMAIN none -> 1 .. 0]
      BY <1>11
    <2> QED
      BY <1>11, <2>1 DEF MaBackOK
  <1>15. MaReplayOK'
    BY <1>1, <1>2, <1>10, <1>11, <1>13, <1>14 DEF MaReplayOK
  <1> QED
    BY <1>1, <1>7, <1>8, <1>9, <1>15 DEF MaInv, MaPromises

\* Every step keeps the invariant.
LEMMA MaInvStep == MaInv /\ [MaNext]_maVars => MaInv'
  <1> SUFFICES ASSUME MaInv, [MaNext]_maVars PROVE MaInv'
    OBVIOUS
  <1>1. ASSUME UNCHANGED <<maDead, maReplay, maLeft>>, MaPromises',
               maAns'.op \in {"none", "upload", "read", "replay", "stats"}
        PROVE  MaInv'
    BY <1>1 DEF MaInv, MaReplayOK
  <1>2. ASSUME NEW up \in MaUploads, MaUpload(up) PROVE MaInv'
    BY <1>1, <1>2, MaUploadKeeps DEF MaInv, MaUpload
  <1>3. ASSUME NEW q \in MaReads, MaRead(q) PROVE MaInv'
    BY <1>1, <1>3, MaReadKeeps DEF MaInv, MaRead
  <1>4. ASSUME NEW role, GetDLQStats(role) PROVE MaInv'
    <2>1. maAns'.op = "stats"
      BY <1>4 DEF GetDLQStats
    <2>2. MaPromises'
      BY <2>1 DEF MaPromises, MaPartsCover, MaTypeIsTrue, MaPrivate, MaReplayCounts
    <2> QED
      BY <1>1, <1>4, <2>1, <2>2 DEF GetDLQStats
  <1>5. ASSUME UNCHANGED maVars PROVE MaInv'
    <2>1. MaPromises'
      BY <1>5 DEF MaInv, MaPromises, MaPartsCover, MaTypeIsTrue, MaPrivate, MaReplayCounts, maVars
    <2> QED
      BY <1>1, <1>5, <2>1 DEF MaInv, maVars
  <1> QED
    BY <1>2, <1>3, <1>4, <1>5, MaLetterKeeps, MaReplayBegins, MaReplayGoes, MaReplayAnswers DEF MaNext

\* The invariant gives the properties.
LEMMA MaInvImplies == MaInv => MaTypeOK /\ MaPartsCover /\ MaTypeIsTrue /\ MaPrivate /\ MaReplayCounts
  <1> SUFFICES ASSUME MaInv PROVE MaTypeOK /\ MaPromises
    BY DEF MaPromises
  <1>1. Len(maDead) \in Nat /\ maReplay.replayed \in Nat /\ maReplay.next \in Nat
    BY DEF MaInv, MaReplayOK
  <1>2. maReplay.replayed \in 0 .. Len(maDead)
    BY <1>1 DEF MaInv, MaReplayOK
  <1> QED
    BY <1>2 DEF MaInv, MaReplayOK, MaTypeOK

\* media-service: the part plan CreateUpload stores covers the file exactly within the limits
\* of S3, the row's type is what its content type says, no request is given another user's
\* media or a URL it may not have, and a replay puts back what it counts, oldest first
\* (CreateUpload, GetMedia, GetMediaByOwner, the URL services, ReplayDLQ).
THEOREM MediaRequestsSafe == MaSpec => [](MaPartsCover /\ MaTypeIsTrue /\ MaPrivate /\ MaReplayCounts)
  <1>1. MaSpec => []MaInv
    BY MaInvInit, MaInvStep, PTL DEF MaSpec
  <1> QED
    BY <1>1, MaInvImplies, PTL

=============================================================================
