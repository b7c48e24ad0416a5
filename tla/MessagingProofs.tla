-------------------------- MODULE MessagingProofs --------------------------
(***************************************************************************)
(* Proofs about the RabbitMQ clients of both packages (RabbitBus), about   *)
(* the services that consume from them and from Kafka: notification-       *)
(* service (NotificationPipeline), search-service (SearchIndex, SearchOps) *)
(* and analytics-service (AnalyticsIngestion), and about the other shared  *)
(* Go packages (GoPackages).                                               *)
(***************************************************************************)
EXTENDS RabbitBus, NotificationPipeline, SearchIndex, SearchOps, GoPackages,
        AnalyticsIngestion, DataLemmas, SequenceTheorems

-----------------------------------------------------------------------------
(***************************************************************************)
(* Proofs about RabbitBus, for any number of events, consumers of either   *)
(* package, retries and faults.                                            *)
(*                                                                         *)
(* A copy that is acknowledged may be the last one of an event only when   *)
(* the handler has succeeded; otherwise Republish has stored a younger     *)
(* copy.  Younger copies are acknowledged in turn, so the invariant also   *)
(* says that every event with a copy has a youngest one (RbHasYoungest):   *)
(* it is that copy which is never lost.  A success that publishOnce reads  *)
(* from somebody else's confirmation is owed to a failed publication, and  *)
(* each of those leaves one late confirmation at most (RbMisreadIsOwed).   *)
(***************************************************************************)

RbCopy == [msg : RbMsg, tries : 0..RbMaxRetries, at : {"queue", "unacked", "done", "dead"}]
RbHolding == [copy : Nat, pc : {"idle", "got", "failed", "ack"}, live : BOOLEAN]

\* A consumer is idle or works on a copy the broker has stored.
RbHoldOK(h) ==
    /\ h \in RbHolding
    /\ h = RbNothing \/ (h.pc /= "idle" /\ h.copy \in 1..Len(rbCopies))

RbTypes ==
    /\ rbPub \in [RbMsg -> {"new", "first", "second", "ok", "failed"}]
    /\ rbCopies \in Seq(RbCopy)
    /\ rbHold = [c \in RbConsumer |-> rbHold[c]]
    /\ \A c \in RbConsumer : RbHoldOK(rbHold[c])
    /\ rbChan \in [RbConsumer -> {"none", "open", "closed"}]
    /\ rbHandled \subseteq RbMsg
    /\ rbFailures \in [RbMsg -> Nat]
    /\ rbStale \in BOOLEAN /\ rbMisread \subseteq RbMsg

\* The handler has succeeded, or there is a younger copy.
RbSuperseded(k) ==
    \/ rbCopies[k].msg \in rbHandled
    \/ \E j \in 1..Len(rbCopies) : j > k /\ rbCopies[j].msg = rbCopies[k].msg

RbHasYoungest ==
    \A m \in RbMsg : (\E k \in 1..Len(rbCopies) : rbCopies[k].msg = m) =>
        \E k \in 1..Len(rbCopies) :
            /\ rbCopies[k].msg = m
            /\ \A j \in 1..Len(rbCopies) : j > k => rbCopies[j].msg /= m

\* Acknowledged, or about to be.
RbAckedIsSuperseded ==
    /\ \A k \in 1..Len(rbCopies) : rbCopies[k].at = "done" => RbSuperseded(k)
    /\ \A c \in RbConsumer : rbHold[c].pc = "ack" => RbSuperseded(rbHold[c].copy)

RbConfirmedIsStored ==
    \A m \in RbMsg : rbPub[m] = "ok" =>
        m \in rbMisread \/ \E k \in 1..Len(rbCopies) : rbCopies[k].msg = m

\* A failed publication lets one later one succeed unstored: it has, or its
\* confirmation still waits.
RbFailed == {m \in RbMsg : rbPub[m] = "failed"}
RbMisreadIsOwed ==
    Cardinality(rbMisread) + (IF rbStale THEN 1 ELSE 0) <= Cardinality(RbFailed)

\* The retry count of a copy never exceeds the failures there really were.
RbTriesAreFailures ==
    /\ \A k \in 1..Len(rbCopies) :
          /\ rbCopies[k].tries <= rbFailures[rbCopies[k].msg]
          /\ rbCopies[k].at = "dead" => \/ rbCopies[k].msg \in RbPoison
                                        \/ rbFailures[rbCopies[k].msg] > RbMaxRetries
    /\ \A c \in RbConsumer : rbHold[c].pc = "failed" =>
          rbCopies[rbHold[c].copy].tries < rbFailures[rbCopies[rbHold[c].copy].msg]

RbInv ==
    /\ RbTypes /\ RbHasYoungest /\ RbAckedIsSuperseded
    /\ RbConfirmedIsStored /\ RbMisreadIsOwed /\ RbTriesAreFailures

-----------------------------------------------------------------------------
(* What may happen to the copies *)

\* One copy moves.
LEMMA RbMoved ==
    ASSUME RbTypes, NEW k \in 1..Len(rbCopies), NEW at \in {"queue", "unacked", "done", "dead"},
           rbCopies' = [rbCopies EXCEPT ![k].at = at]
    PROVE  /\ rbCopies' \in Seq(RbCopy) /\ Len(rbCopies') = Len(rbCopies)
           /\ \A j \in 1..Len(rbCopies) :
                /\ rbCopies'[j].msg = rbCopies[j].msg /\ rbCopies'[j].tries = rbCopies[j].tries
                /\ rbCopies'[j].at = IF j = k THEN at ELSE rbCopies[j].at
  <1>1. rbCopies \in Seq(RbCopy) /\ Len(rbCopies) \in Nat /\ DOMAIN rbCopies = 1..Len(rbCopies)
    BY LenProperties DEF RbTypes
  <1>2. \A j \in 1..Len(rbCopies) : rbCopies[j] \in RbCopy
    BY <1>1, ElementOfSeq
  <1>3. \A j \in 1..Len(rbCopies) :
            rbCopies'[j] = IF j = k THEN [rbCopies[k] EXCEPT !.at = at] ELSE rbCopies[j]
    BY <1>1
  <1>4. \A j \in 1..Len(rbCopies) :
          /\ rbCopies'[j] \in RbCopy
          /\ rbCopies'[j].msg = rbCopies[j].msg /\ rbCopies'[j].tries = rbCopies[j].tries
          /\ rbCopies'[j].at = IF j = k THEN at ELSE rbCopies[j].at
    BY <1>2, <1>3 DEF RbCopy
  <1>5. rbCopies' \in Seq(RbCopy) /\ Len(rbCopies') = Len(rbCopies)
    <2>1. rbCopies' = [j \in 1..Len(rbCopies) |-> rbCopies'[j]]
      BY <1>1
    <2> QED
      BY <2>1, <1>1, <1>4
  <1> QED
    BY <1>4, <1>5

\* One copy is added.
LEMMA RbAdded ==
    ASSUME RbTypes, NEW m \in RbMsg, NEW n \in 0..RbMaxRetries,
           rbCopies' = Enqueued(rbCopies, m, n)
    PROVE  /\ rbCopies' \in Seq(RbCopy) /\ Len(rbCopies') = Len(rbCopies) + 1
           /\ \A j \in 1..Len(rbCopies) : rbCopies'[j] = rbCopies[j]
           /\ rbCopies'[Len(rbCopies) + 1] = [msg |-> m, tries |-> n, at |-> "queue"]
  <1>1. [msg |-> m, tries |-> n, at |-> "queue"] \in RbCopy
    BY DEF RbCopy
  <1> QED
    BY <1>1, AppendProperties DEF RbTypes, Enqueued

\* No copy is lost and none changes its event or its retry count; what is acknowledged is
\* superseded, what is dead was retried, and the histories only grow.
RbStepOK ==
    /\ rbCopies' \in Seq(RbCopy) /\ Len(rbCopies) <= Len(rbCopies')
    /\ \A k \in 1..Len(rbCopies) : /\ rbCopies'[k].msg = rbCopies[k].msg
                                   /\ rbCopies'[k].tries = rbCopies[k].tries
    /\ \A k \in 1..Len(rbCopies') : rbCopies'[k].at = "done" => k \in 1..Len(rbCopies) /\ RbSuperseded(k)
    /\ \A k \in 1..Len(rbCopies') :
          /\ rbCopies'[k].tries <= rbFailures'[rbCopies'[k].msg]
          /\ rbCopies'[k].at = "dead" => \/ rbCopies'[k].msg \in RbPoison
                                         \/ rbFailures'[rbCopies'[k].msg] > RbMaxRetries
    /\ RbHasYoungest'
    /\ rbHandled \subseteq rbHandled' /\ rbHandled' \subseteq RbMsg
    /\ rbFailures' \in [RbMsg -> Nat] /\ \A m \in RbMsg : rbFailures[m] <= rbFailures'[m]

LEMMA RbIndex ==
    ASSUME RbTypes
    PROVE  /\ Len(rbCopies) \in Nat
           /\ \A k \in 1..Len(rbCopies) :
                 /\ rbCopies[k].msg \in RbMsg /\ rbCopies[k].tries \in 0..RbMaxRetries
                 /\ rbCopies[k].at \in {"queue", "unacked", "done", "dead"}
  <1>1. \A k \in 1..Len(rbCopies) : rbCopies[k] \in RbCopy
    BY ElementOfSeq DEF RbTypes
  <1> QED
    BY <1>1, LenProperties DEF RbTypes, RbCopy

LEMMA RbSupersededStays ==
    ASSUME RbTypes, RbStepOK, NEW k \in 1..Len(rbCopies), RbSuperseded(k)
    PROVE  RbSuperseded(k)'
  <1>1. Len(rbCopies) \in Nat /\ Len(rbCopies') \in Nat
    BY LenProperties DEF RbTypes, RbStepOK
  <1>2. CASE rbCopies[k].msg \in rbHandled
    BY <1>2 DEF RbSuperseded, RbStepOK
  <1>3. ASSUME NEW j \in 1..Len(rbCopies), j > k, rbCopies[j].msg = rbCopies[k].msg
        PROVE  RbSuperseded(k)'
    <2>1. j \in 1..Len(rbCopies') /\ rbCopies'[j].msg = rbCopies'[k].msg
      BY <1>1, <1>3 DEF RbStepOK
    <2> QED
      BY <2>1, <1>3 DEF RbSuperseded
  <1> QED
    BY <1>2, <1>3 DEF RbSuperseded

\* The copies are kept, so it remains to look at the consumers and the publishers.
LEMMA RbInvFromStep ==
    ASSUME RbInv, RbStepOK,
           rbHold' = [c \in RbConsumer |-> rbHold'[c]],
           \A c \in RbConsumer : \/ rbHold'[c] = rbHold[c]
                                 \/ /\ RbHoldOK(rbHold[c])'
                                    /\ rbHold'[c].pc = "ack" => RbSuperseded(rbHold[c].copy)'
                                    /\ rbHold'[c].pc = "failed" =>
                                         rbCopies'[rbHold'[c].copy].tries
                                           < rbFailures'[rbCopies'[rbHold'[c].copy].msg],
           rbPub' \in [RbMsg -> {"new", "first", "second", "ok", "failed"}],
           \A m \in RbMsg : rbPub'[m] = "ok" =>
               \/ rbPub[m] = "ok" \/ m \in rbMisread'
               \/ \E k \in 1..Len(rbCopies') : rbCopies'[k].msg = m,
           rbStale' \in BOOLEAN, rbMisread \subseteq rbMisread', rbMisread' \subseteq RbMsg,
           RbMisreadIsOwed',
           rbChan' \in [RbConsumer -> {"none", "open", "closed"}]
    PROVE  RbInv'
  <1>1. /\ Len(rbCopies) \in Nat /\ Len(rbCopies') \in Nat /\ Len(rbCopies) <= Len(rbCopies')
        /\ 1..Len(rbCopies) \subseteq 1..Len(rbCopies')
    BY LenProperties DEF RbInv, RbTypes, RbStepOK
  <1>2. ASSUME NEW c \in RbConsumer, rbHold'[c] = rbHold[c]
        PROVE  /\ RbHoldOK(rbHold[c])'
               /\ rbHold'[c].pc = "ack" => RbSuperseded(rbHold[c].copy)'
               /\ rbHold'[c].pc = "failed" =>
                    rbCopies'[rbHold'[c].copy].tries < rbFailures'[rbCopies'[rbHold'[c].copy].msg]
    <2>1. RbHoldOK(rbHold[c])
      BY DEF RbInv, RbTypes
    <2>2. RbHoldOK(rbHold[c])'
      BY <1>1, <1>2, <2>1 DEF RbHoldOK
    <2>3. CASE rbHold[c].pc \in {"ack", "failed"}
      <3>k. PICK k \in 1..Len(rbCopies) : k = rbHold[c].copy
        BY <2>1, <2>3 DEF RbHoldOK, RbNothing
      <3>1. rbHold[c].pc = "ack" => RbSuperseded(k)'
        <4>1. rbHold[c].pc = "ack" => RbSuperseded(k)
          BY <3>k DEF RbInv, RbAckedIsSuperseded
        <4> QED
          BY <4>1, RbSupersededStays DEF RbInv
      <3>2. rbHold'[c].pc = "ack" => RbSuperseded(rbHold[c].copy)'
        BY <3>1, <3>k, <1>2 DEF RbSuperseded
      <3>3. rbHold[c].pc = "failed" => rbCopies'[k].tries < rbFailures'[rbCopies'[k].msg]
        <4>1. rbHold[c].pc = "failed" => rbCopies[k].tries < rbFailures[rbCopies[k].msg]
          BY <3>k DEF RbInv, RbTriesAreFailures
        <4>2. /\ rbCopies'[k].tries = rbCopies[k].tries /\ rbCopies'[k].msg = rbCopies[k].msg
              /\ rbCopies[k].msg \in RbMsg /\ rbCopies[k].tries \in 0..RbMaxRetries
          BY RbIndex DEF RbStepOK, RbInv
        <4>3. /\ rbFailures[rbCopies[k].msg] \in Nat /\ rbFailures'[rbCopies[k].msg] \in Nat
              /\ rbFailures[rbCopies[k].msg] <= rbFailures'[rbCopies[k].msg]
          BY <4>2 DEF RbStepOK, RbInv, RbTypes
        <4> QED
          BY <4>1, <4>2, <4>3, RbAssumption
      <3> QED
        BY <2>2, <3>2, <3>3, <3>k, <1>2
    <2> QED
      BY <2>2, <2>3, <1>2
  <1>3. \A c \in RbConsumer :
          /\ RbHoldOK(rbHold[c])'
          /\ rbHold'[c].pc = "ack" => RbSuperseded(rbHold[c].copy)'
          /\ rbHold'[c].pc = "failed" =>
               rbCopies'[rbHold'[c].copy].tries < rbFailures'[rbCopies'[rbHold'[c].copy].msg]
    BY <1>2
  <1>4. RbTypes'
    BY <1>3 DEF RbTypes, RbStepOK
  <1>5. RbAckedIsSuperseded'
    <2>1. ASSUME NEW k \in 1..Len(rbCopies'), rbCopies'[k].at = "done" PROVE RbSuperseded(k)'
      <3>1. k \in 1..Len(rbCopies) /\ RbSuperseded(k)
        BY <2>1 DEF RbStepOK
      <3> QED
        BY <3>1, RbSupersededStays DEF RbInv
    <2> QED
      BY <1>3, <2>1 DEF RbAckedIsSuperseded
  <1>6. RbConfirmedIsStored'
    <2> SUFFICES ASSUME NEW m \in RbMsg, rbPub[m] = "ok", m \notin rbMisread'
                 PROVE  \E k \in 1..Len(rbCopies') : rbCopies'[k].msg = m
      BY DEF RbConfirmedIsStored
    <2>1. PICK k \in 1..Len(rbCopies) : rbCopies[k].msg = m
      BY DEF RbInv, RbConfirmedIsStored
    <2> QED
      BY <2>1, <1>1 DEF RbStepOK
  <1>7. RbTriesAreFailures'
    BY <1>3 DEF RbTriesAreFailures, RbStepOK
  <1> QED
    BY <1>4, <1>5, <1>6, <1>7 DEF RbInv, RbStepOK

\* Copies stay or move.
LEMMA RbSameOK ==
    ASSUME RbInv,
           rbCopies' \in Seq(RbCopy), Len(rbCopies') = Len(rbCopies),
           \A j \in 1..Len(rbCopies) :
             /\ rbCopies'[j].msg = rbCopies[j].msg /\ rbCopies'[j].tries = rbCopies[j].tries
             /\ \/ rbCopies'[j].at = rbCopies[j].at
                \/ /\ rbCopies'[j].at = "done" => RbSuperseded(j)
                   /\ rbCopies'[j].at = "dead" => \/ rbCopies[j].msg \in RbPoison
                                                  \/ rbFailures[rbCopies[j].msg] > RbMaxRetries,
           rbHandled \subseteq rbHandled', rbHandled' \subseteq RbMsg,
           rbFailures' \in [RbMsg -> Nat], \A m \in RbMsg : rbFailures[m] <= rbFailures'[m]
    PROVE  RbStepOK
  <1>1. Len(rbCopies) \in Nat
    BY RbIndex DEF RbInv
  <1>2. RbHasYoungest'
    <2> SUFFICES ASSUME NEW m \in RbMsg, NEW k \in 1..Len(rbCopies), rbCopies[k].msg = m
                 PROVE  \E i \in 1..Len(rbCopies) :
                           /\ rbCopies'[i].msg = m
                           /\ \A j \in 1..Len(rbCopies) : j > i => rbCopies'[j].msg /= m
      BY DEF RbHasYoungest
    <2>1. PICK i \in 1..Len(rbCopies) :
             /\ rbCopies[i].msg = m
             /\ \A j \in 1..Len(rbCopies) : j > i => rbCopies[j].msg /= m
      BY DEF RbInv, RbHasYoungest
    <2> QED
      BY <2>1
  <1>3. \A k \in 1..Len(rbCopies) : rbCopies'[k].at = "done" => RbSuperseded(k)
    BY DEF RbInv, RbAckedIsSuperseded
  <1>4. ASSUME NEW k \in 1..Len(rbCopies)
        PROVE  /\ rbCopies'[k].tries <= rbFailures'[rbCopies'[k].msg]
               /\ rbCopies'[k].at = "dead" => \/ rbCopies'[k].msg \in RbPoison
                                              \/ rbFailures'[rbCopies'[k].msg] > RbMaxRetries
    <2>1. rbCopies[k].msg \in RbMsg /\ rbCopies[k].tries \in Nat
      BY RbIndex, RbAssumption DEF RbInv
    <2>2. /\ rbFailures[rbCopies[k].msg] \in Nat /\ rbFailures'[rbCopies[k].msg] \in Nat
          /\ rbFailures[rbCopies[k].msg] <= rbFailures'[rbCopies[k].msg]
      BY <2>1 DEF RbInv, RbTypes
    <2>3. /\ rbCopies[k].tries <= rbFailures[rbCopies[k].msg]
          /\ rbCopies'[k].at = "dead" => \/ rbCopies[k].msg \in RbPoison
                                         \/ rbFailures[rbCopies[k].msg] > RbMaxRetries
      BY DEF RbInv, RbTriesAreFailures
    <2> QED
      BY <2>1, <2>2, <2>3, RbAssumption
  <1> QED
    BY <1>1, <1>2, <1>3, <1>4 DEF RbStepOK

\* The copies are not touched.
LEMMA RbQuietOK ==
    ASSUME RbInv, UNCHANGED rbCopies,
           rbHandled \subseteq rbHandled', rbHandled' \subseteq RbMsg,
           rbFailures' \in [RbMsg -> Nat], \A m \in RbMsg : rbFailures[m] <= rbFailures'[m]
    PROVE  RbStepOK
  BY RbSameOK DEF RbInv, RbTypes

LEMMA RbMovedOK ==
    ASSUME RbInv, NEW k \in 1..Len(rbCopies), NEW at \in {"queue", "unacked", "done", "dead"},
           rbCopies' = [rbCopies EXCEPT ![k].at = at],
           at = "done" => RbSuperseded(k),
           at = "dead" => \/ rbCopies[k].msg \in RbPoison
                          \/ rbFailures[rbCopies[k].msg] > RbMaxRetries,
           UNCHANGED <<rbHandled, rbFailures>>
    PROVE  RbStepOK
  <1>1. /\ rbCopies' \in Seq(RbCopy) /\ Len(rbCopies') = Len(rbCopies)
        /\ \A j \in 1..Len(rbCopies) :
             /\ rbCopies'[j].msg = rbCopies[j].msg /\ rbCopies'[j].tries = rbCopies[j].tries
             /\ rbCopies'[j].at = IF j = k THEN at ELSE rbCopies[j].at
    BY RbMoved DEF RbInv
  <1>2. \A m \in RbMsg : rbFailures[m] \in Nat
    BY DEF RbInv, RbTypes
  <1>3. /\ rbHandled \subseteq rbHandled' /\ rbHandled' \subseteq RbMsg
        /\ rbFailures' \in [RbMsg -> Nat] /\ \A m \in RbMsg : rbFailures[m] <= rbFailures'[m]
    BY <1>2 DEF RbInv, RbTypes
  <1> QED
    BY <1>1, <1>3, RbSameOK

\* A new copy is the youngest of its event.
LEMMA RbAddedOK ==
    ASSUME RbInv, NEW m \in RbMsg, NEW n \in 0..RbMaxRetries, n <= rbFailures[m],
           rbCopies' = Enqueued(rbCopies, m, n), UNCHANGED <<rbHandled, rbFailures>>
    PROVE  /\ RbStepOK
           /\ \E k \in 1..Len(rbCopies') : rbCopies'[k].msg = m
           /\ \A k \in 1..Len(rbCopies) : rbCopies[k].msg = m => RbSuperseded(k)'
  <1>l. PICK l : l = Len(rbCopies) + 1
    OBVIOUS
  <1>0. RbTypes
    BY DEF RbInv
  <1>1. /\ rbCopies' \in Seq(RbCopy) /\ Len(rbCopies') = l
        /\ \A j \in 1..Len(rbCopies) : rbCopies'[j] = rbCopies[j]
        /\ rbCopies'[l].msg = m /\ rbCopies'[l].tries = n /\ rbCopies'[l].at = "queue"
    <2>1. /\ rbCopies' \in Seq(RbCopy) /\ Len(rbCopies') = Len(rbCopies) + 1
          /\ \A j \in 1..Len(rbCopies) : rbCopies'[j] = rbCopies[j]
          /\ rbCopies'[Len(rbCopies) + 1] = [msg |-> m, tries |-> n, at |-> "queue"]
      BY <1>0, RbAdded
    <2> QED
      BY <2>1, <1>l
  <1>2. Len(rbCopies) \in Nat /\ l \in 1..Len(rbCopies')
    BY <1>1, <1>l, RbIndex DEF RbInv
  <1>3. \A k \in 1..Len(rbCopies) : rbCopies[k].msg = m => RbSuperseded(k)'
    BY <1>1, <1>2, <1>l DEF RbSuperseded
  <1>4. RbHasYoungest'
    <2> SUFFICES ASSUME NEW x \in RbMsg, NEW k \in 1..Len(rbCopies'), rbCopies'[k].msg = x
                 PROVE  \E i \in 1..Len(rbCopies') :
                           /\ rbCopies'[i].msg = x
                           /\ \A j \in 1..Len(rbCopies') : j > i => rbCopies'[j].msg /= x
      BY DEF RbHasYoungest
    <2>1. CASE x = m
      <3>1. \A j \in 1..Len(rbCopies') : ~(j > l)
        BY <1>1, <1>2
      <3> QED
        BY <2>1, <3>1, <1>1, <1>2
    <2>2. CASE x /= m
      <3>1. k \in 1..Len(rbCopies) /\ rbCopies[k].msg = x
        BY <2>2, <1>1, <1>2, <1>l
      <3>2. PICK i \in 1..Len(rbCopies) :
               /\ rbCopies[i].msg = x
               /\ \A j \in 1..Len(rbCopies) : j > i => rbCopies[j].msg /= x
        BY <3>1 DEF RbInv, RbHasYoungest
      <3>3. i \in 1..Len(rbCopies') /\ rbCopies'[i].msg = x
        BY <3>2, <1>1, <1>2, <1>l
      <3>4. ASSUME NEW j \in 1..Len(rbCopies'), j > i PROVE rbCopies'[j].msg /= x
        <4>1. CASE j = l
          BY <4>1, <2>2, <1>1
        <4>2. CASE j /= l
          <5>1. j \in 1..Len(rbCopies)
            BY <4>2, <1>1, <1>2, <1>l
          <5> QED
            BY <5>1, <3>2, <3>4, <1>1
        <4> QED
          BY <4>1, <4>2
      <3> QED
        BY <3>3, <3>4
    <2> QED
      BY <2>1, <2>2
  <1>5. ASSUME NEW k \in 1..Len(rbCopies')
        PROVE  /\ rbCopies'[k].at = "done" => k \in 1..Len(rbCopies) /\ RbSuperseded(k)
               /\ rbCopies'[k].tries <= rbFailures'[rbCopies'[k].msg]
               /\ rbCopies'[k].at = "dead" => \/ rbCopies'[k].msg \in RbPoison
                                              \/ rbFailures'[rbCopies'[k].msg] > RbMaxRetries
    <2>1. CASE k = l
      BY <2>1, <1>1
    <2>2. CASE k \in 1..Len(rbCopies)
      BY <2>2, <1>1 DEF RbInv, RbAckedIsSuperseded, RbTriesAreFailures
    <2> QED
      BY <2>1, <2>2, <1>1, <1>2, <1>l
  <1>6. /\ rbHandled \subseteq rbHandled' /\ rbHandled' \subseteq RbMsg
        /\ rbFailures' \in [RbMsg -> Nat] /\ \A x \in RbMsg : rbFailures[x] <= rbFailures'[x]
    <2>1. \A x \in RbMsg : rbFailures[x] \in Nat
      BY DEF RbInv, RbTypes
    <2> QED
      BY <2>1 DEF RbInv, RbTypes
  <1>7. RbStepOK
    <2>1. Len(rbCopies) <= Len(rbCopies')
      BY <1>1, <1>2, <1>l
    <2> QED
      BY <2>1, <1>1, <1>4, <1>5, <1>6 DEF RbStepOK
  <1> QED
    BY <1>1, <1>2, <1>3, <1>7

-----------------------------------------------------------------------------
(* The publishers *)

\* A failure adds to what is owed, a success that is not stored takes from it.
LEMMA RbOwedStep ==
    ASSUME RbInv, NEW m \in RbMsg, rbPub[m] /= "failed",
           NEW v \in {"first", "second", "ok", "failed"}, rbPub' = [rbPub EXCEPT ![m] = v],
           rbStale' \in BOOLEAN,
           \/ v /= "failed" /\ rbMisread' = rbMisread /\ rbStale' \in {FALSE, rbStale}
           \/ v = "failed" /\ rbMisread' = rbMisread
           \/ v = "ok" /\ rbStale /\ rbStale' = FALSE /\ rbMisread' = rbMisread \cup {m}
    PROVE  RbMisreadIsOwed' /\ rbMisread \subseteq rbMisread' /\ rbMisread' \subseteq RbMsg
  <1>1. /\ IsFiniteSet(rbMisread) /\ IsFiniteSet(RbFailed)
        /\ Cardinality(rbMisread) \in Nat /\ Cardinality(RbFailed) \in Nat
    BY RbAssumption, FS_Subset, FS_CardinalityType DEF RbInv, RbTypes, RbFailed
  <1>2. Cardinality(rbMisread) + (IF rbStale THEN 1 ELSE 0) <= Cardinality(RbFailed)
    BY DEF RbInv, RbMisreadIsOwed
  <1>3. rbMisread \subseteq rbMisread' /\ rbMisread' \subseteq RbMsg
    BY DEF RbInv, RbTypes
  <1>4. m \notin RbFailed /\ RbFailed' = IF v = "failed" THEN RbFailed \cup {m} ELSE RbFailed
    BY DEF RbInv, RbTypes, RbFailed
  <1>5. CASE v = "failed"
    <2>1. Cardinality(RbFailed \cup {m}) = Cardinality(RbFailed) + 1
      BY <1>1, <1>4, FS_AddElement
    <2>2. Cardinality(RbFailed') = Cardinality(RbFailed) + 1
      BY <2>1, <1>4, <1>5
    <2>3. Cardinality(rbMisread') + (IF rbStale' THEN 1 ELSE 0) <= Cardinality(RbFailed')
      BY <2>2, <1>1, <1>2, <1>5
    <2> QED
      BY <2>3, <1>3 DEF RbMisreadIsOwed
  <1>6. CASE v /= "failed"
    <2>1. RbFailed' = RbFailed
      BY <1>4, <1>6
    <2>2. CASE rbMisread' = rbMisread /\ (rbStale' => rbStale)
      <3>1. Cardinality(rbMisread') + (IF rbStale' THEN 1 ELSE 0) <= Cardinality(RbFailed')
        BY <2>1, <2>2, <1>1, <1>2
      <3> QED
        BY <3>1, <1>3 DEF RbMisreadIsOwed
    <2>3. CASE rbStale /\ rbStale' = FALSE /\ rbMisread' = rbMisread \cup {m}
      <3>1. Cardinality(rbMisread') <= Cardinality(rbMisread) + 1
        <4>1. Cardinality(rbMisread \cup {m}) \in {Cardinality(rbMisread), Cardinality(rbMisread) + 1}
          BY <1>1, FS_AddElement
        <4> QED
          BY <4>1, <2>3, <1>1
      <3>2. Cardinality(rbMisread') \in Nat
        BY <1>3, RbAssumption, FS_Subset, FS_CardinalityType
      <3>3. Cardinality(rbMisread') + (IF rbStale' THEN 1 ELSE 0) <= Cardinality(RbFailed')
        BY <3>1, <3>2, <2>1, <2>3, <1>1, <1>2
      <3> QED
        BY <3>3, <1>3 DEF RbMisreadIsOwed
    <2> QED
      BY <2>2, <2>3, <1>6 DEF RbInv, RbTypes
  <1> QED
    BY <1>5, <1>6

\* A call of Publish moves on: the event is stored or not, and published, failed or tried again.
LEMMA RbPublisherInv ==
    ASSUME RbInv, RbPublisherStep
    PROVE  RbInv'
  <1>m. PICK m \in RbMsg : GuardCircuitBreaker(m) \/ PublishGo(m) \/ PublishOnce(m) \/ PublishTs(m)
    BY DEF RbPublisherStep
  <1>1. UNCHANGED <<rbHold, rbChan, rbHandled, rbFailures>>
    BY DEF RbPublisherStep
  <1>2. 0 \in 0..RbMaxRetries /\ \A x \in RbMsg : rbFailures[x] \in Nat /\ 0 <= rbFailures[x]
    BY RbAssumption DEF RbInv, RbTypes
  <1>v. PICK v \in {"first", "second", "ok", "failed"} :
           /\ rbPub' = [rbPub EXCEPT ![m] = v] /\ rbPub[m] /= "failed" /\ rbStale' \in BOOLEAN
           /\ \/ v /= "failed" /\ rbMisread' = rbMisread /\ rbStale' \in {FALSE, rbStale}
              \/ v = "failed" /\ rbMisread' = rbMisread
              \/ v = "ok" /\ rbStale /\ rbStale' = FALSE /\ rbMisread' = rbMisread \cup {m}
           /\ \/ UNCHANGED rbCopies /\ (v = "ok" => m \in rbMisread')
              \/ rbCopies' = Enqueued(rbCopies, m, 0)
    <2>0. rbStale \in BOOLEAN
      BY DEF RbInv, RbTypes
    <2>1. CASE GuardCircuitBreaker(m)
      BY <2>0, <2>1 DEF GuardCircuitBreaker
    <2>2. CASE PublishGo(m)
      BY <2>0, <2>2 DEF PublishGo
    <2>3. CASE PublishOnce(m)
      BY <2>0, <2>3 DEF PublishOnce, Unconfirmed
    <2>4. CASE PublishTs(m)
      BY <2>0, <2>4 DEF PublishTs, Unconfirmed
    <2> QED
      BY <1>m, <2>1, <2>2, <2>3, <2>4
  <1>3. RbMisreadIsOwed' /\ rbMisread \subseteq rbMisread' /\ rbMisread' \subseteq RbMsg
    BY <1>v, RbOwedStep
  <1>4. /\ rbPub' \in [RbMsg -> {"new", "first", "second", "ok", "failed"}]
        /\ \A x \in RbMsg : rbPub'[x] = "ok" => rbPub[x] = "ok" \/ (x = m /\ v = "ok")
    BY <1>v DEF RbInv, RbTypes
  <1>5. CASE UNCHANGED rbCopies /\ (v = "ok" => m \in rbMisread')
    <2>1. RbStepOK
      BY <1>1, <1>2, <1>5, RbQuietOK DEF RbInv, RbTypes
    <2> QED
      BY <1>1, <1>v, <1>3, <1>4, <1>5, <2>1, RbInvFromStep DEF RbInv, RbTypes
  <1>6. CASE rbCopies' = Enqueued(rbCopies, m, 0)
    <2>1. RbStepOK /\ \E k \in 1..Len(rbCopies') : rbCopies'[k].msg = m
      BY <1>1, <1>2, <1>6, RbAddedOK
    <2> QED
      BY <1>1, <1>v, <1>3, <1>4, <2>1, RbInvFromStep DEF RbInv, RbTypes
  <1> QED
    BY <1>v, <1>5, <1>6

-----------------------------------------------------------------------------
(* The consumers *)

\* One consumer moves.
LEMMA RbOneHold ==
    ASSUME RbInv, RbStepOK, NEW c \in RbConsumer, NEW h \in RbHolding,
           rbHold' = [rbHold EXCEPT ![c] = h],
           h = RbNothing \/ (h.pc /= "idle" /\ h.copy \in 1..Len(rbCopies')),
           h.pc = "ack" => RbSuperseded(h.copy)',
           h.pc = "failed" => rbCopies'[h.copy].tries < rbFailures'[rbCopies'[h.copy].msg],
           rbChan' \in [RbConsumer -> {"none", "open", "closed"}], UNCHANGED <<rbPub, rbStale, rbMisread>>
    PROVE  RbInv'
  <1>1. /\ rbHold' = [d \in RbConsumer |-> rbHold'[d]]
        /\ rbHold'[c] = h /\ \A d \in RbConsumer \ {c} : rbHold'[d] = rbHold[d]
    BY DEF RbInv, RbTypes
  <1>2. /\ RbHoldOK(rbHold[c])'
        /\ rbHold'[c].pc = "ack" => RbSuperseded(rbHold[c].copy)'
        /\ rbHold'[c].pc = "failed" =>
             rbCopies'[rbHold'[c].copy].tries < rbFailures'[rbCopies'[rbHold'[c].copy].msg]
    BY <1>1 DEF RbHoldOK, RbSuperseded
  <1> QED
    BY <1>1, <1>2, RbInvFromStep DEF RbInv, RbTypes, RbMisreadIsOwed, RbFailed

\* A consumer that is not idle works on a copy.
LEMMA RbHeld ==
    ASSUME RbInv, NEW c \in RbConsumer, rbHold[c] /= RbNothing
    PROVE  /\ rbHold[c] \in RbHolding
           /\ rbHold[c].copy \in 1..Len(rbCopies) /\ rbHold[c].pc /= "idle"
           /\ rbCopies[rbHold[c].copy].msg \in RbMsg
           /\ rbCopies[rbHold[c].copy].tries \in 0..RbMaxRetries
           /\ rbFailures[rbCopies[rbHold[c].copy].msg] \in Nat
  <1>1. rbHold[c] \in RbHolding /\ rbHold[c].copy \in 1..Len(rbCopies) /\ rbHold[c].pc /= "idle"
    BY DEF RbInv, RbTypes, RbHoldOK
  <1>2. /\ rbCopies[rbHold[c].copy].msg \in RbMsg
        /\ rbCopies[rbHold[c].copy].tries \in 0..RbMaxRetries
    BY <1>1, RbIndex DEF RbInv
  <1> QED
    BY <1>1, <1>2 DEF RbInv, RbTypes

\* The histories of a step that only moves copies.
LEMMA RbGrows ==
    ASSUME RbInv, UNCHANGED <<rbHandled, rbFailures>>
    PROVE  /\ rbHandled \subseteq rbHandled' /\ rbHandled' \subseteq RbMsg
           /\ rbFailures' \in [RbMsg -> Nat] /\ \A m \in RbMsg : rbFailures[m] <= rbFailures'[m]
  <1>1. \A m \in RbMsg : rbFailures[m] \in Nat
    BY DEF RbInv, RbTypes
  <1> QED
    BY <1>1 DEF RbInv, RbTypes

LEMMA RbDeliverInv ==
    ASSUME RbInv, NEW c \in RbConsumer, RbDeliver(c), UNCHANGED <<rbPub, rbStale, rbMisread>>
    PROVE  RbInv'
  <1>1. DOMAIN rbCopies = 1..Len(rbCopies) /\ Len(rbCopies) \in Nat
    BY LenProperties DEF RbInv, RbTypes
  <1>2. PICK k \in 1..Len(rbCopies) :
           /\ rbCopies' = [rbCopies EXCEPT ![k].at = "unacked"]
           /\ rbHold' = [rbHold EXCEPT ![c] = [copy |-> k, pc |-> "got", live |-> TRUE]]
           /\ UNCHANGED <<rbChan, rbHandled, rbFailures>>
    BY <1>1 DEF RbDeliver
  <1>3. RbStepOK
    BY <1>2, RbMovedOK
  <1> DEFINE h == [copy |-> k, pc |-> "got", live |-> TRUE]
  <1>4. h \in RbHolding /\ h.pc = "got" /\ h.copy = k
    BY <1>1 DEF RbHolding
  <1>5. k \in 1..Len(rbCopies')
    <2>1. Len(rbCopies') \in Nat /\ Len(rbCopies) <= Len(rbCopies')
      BY <1>3, LenProperties DEF RbStepOK
    <2> QED
      BY <2>1, <1>1
  <1> HIDE DEF h
  <1>6. rbHold' = [rbHold EXCEPT ![c] = h] /\ rbChan' \in [RbConsumer -> {"none", "open", "closed"}]
    BY <1>2 DEF h, RbInv, RbTypes
  <1> QED
    BY <1>3, <1>4, <1>5, <1>6, RbOneHold

\* A settled delivery: acknowledged only when superseded, dead only when it must be.
LEMMA RbSettleInv ==
    ASSUME RbInv, NEW c \in RbConsumer, rbHold[c] /= RbNothing,
           NEW at \in {"queue", "done", "dead"}, Settle(c, at),
           at = "done" => rbHold[c].pc = "ack",
           at = "dead" => \/ HeldMsg(c) \in RbPoison
                          \/ rbFailures[HeldMsg(c)] > RbMaxRetries,
           UNCHANGED <<rbPub, rbStale, rbMisread, rbChan, rbHandled, rbFailures>>
    PROVE  RbInv'
  <1>k. PICK k \in 1..Len(rbCopies) : k = rbHold[c].copy
    BY RbHeld
  <1>1. RbStepOK
    <2>1. CASE rbHold[c].live
      <3>1. rbCopies' = [rbCopies EXCEPT ![k].at = at]
        BY <2>1, <1>k DEF Settle
      <3>2. at = "done" => RbSuperseded(k)
        BY <1>k DEF RbInv, RbAckedIsSuperseded
      <3> QED
        BY <3>1, <3>2, <1>k, RbMovedOK DEF HeldMsg
    <2>2. CASE ~rbHold[c].live
      BY <2>2, RbGrows, RbQuietOK DEF Settle
    <2> QED
      BY <2>1, <2>2
  <1>2. RbNothing \in RbHolding /\ RbNothing.pc = "idle"
    BY DEF RbNothing, RbHolding
  <1> QED
    BY <1>1, <1>2, RbOneHold DEF Settle, RbInv, RbTypes

LEMMA RbPcInv ==
    ASSUME RbInv, RbStepOK, NEW c \in RbConsumer, rbHold[c] /= RbNothing,
           NEW pc \in {"ack", "failed"}, rbHold' = [rbHold EXCEPT ![c].pc = pc],
           pc = "ack" => \A k \in 1..Len(rbCopies) : k = rbHold[c].copy => RbSuperseded(k)',
           pc = "failed" => \A k \in 1..Len(rbCopies) : k = rbHold[c].copy =>
                               rbCopies'[k].tries < rbFailures'[rbCopies'[k].msg],
           UNCHANGED <<rbPub, rbStale, rbMisread, rbChan>>
    PROVE  RbInv'
  <1>k. PICK k \in 1..Len(rbCopies) : k = rbHold[c].copy
    BY RbHeld
  <1>h. PICK h : h = [rbHold[c] EXCEPT !.pc = pc]
    OBVIOUS
  <1>1. h \in RbHolding /\ h.pc = pc /\ h.copy = k
    BY <1>h, <1>k, RbHeld DEF RbHolding
  <1>2. rbHold' = [rbHold EXCEPT ![c] = h]
    BY <1>h DEF RbInv, RbTypes
  <1>3. k \in 1..Len(rbCopies')
    <2>1. Len(rbCopies') \in Nat /\ Len(rbCopies) \in Nat /\ Len(rbCopies) <= Len(rbCopies')
      BY LenProperties DEF RbStepOK, RbInv, RbTypes
    <2> QED
      BY <2>1
  <1>4. pc = "ack" => RbSuperseded(k)'
    BY <1>k
  <1>5. pc = "failed" => rbCopies'[k].tries < rbFailures'[rbCopies'[k].msg]
    BY <1>k
  <1> QED
    BY <1>1, <1>2, <1>3, <1>4, <1>5, RbOneHold DEF RbInv, RbTypes

\* The handler succeeds, fails, or is not called for a poisoned message.
LEMMA HandlerOutcomeInv ==
    ASSUME RbInv, NEW c \in RbConsumer, HandlerOutcome(c), UNCHANGED <<rbPub, rbStale, rbMisread>>
    PROVE  RbInv'
  <1>1. rbHold[c] /= RbNothing
    BY DEF HandlerOutcome, RbNothing
  <1>2. /\ HeldMsg(c) \in RbMsg /\ rbFailures[HeldMsg(c)] \in Nat
        /\ rbCopies[rbHold[c].copy].tries <= rbFailures[HeldMsg(c)]
        /\ rbCopies[rbHold[c].copy].tries \in Nat
    BY <1>1, RbHeld, RbAssumption DEF HeldMsg, RbInv, RbTriesAreFailures
  <1>3. CASE /\ HeldMsg(c) \in RbPoison /\ DeadLetter(c)
             /\ UNCHANGED <<rbHandled, rbFailures>>
    BY <1>1, <1>3, RbSettleInv DEF DeadLetter, HandlerOutcome
  <1>4. CASE /\ rbHandled' = rbHandled \cup {HeldMsg(c)}
             /\ rbHold' = [rbHold EXCEPT ![c].pc = "ack"]
             /\ UNCHANGED <<rbCopies, rbFailures>>
    <2>1. RbStepOK
      <3>1. \A m \in RbMsg : rbFailures[m] \in Nat
        BY DEF RbInv, RbTypes
      <3>2. /\ rbHandled \subseteq rbHandled' /\ rbHandled' \subseteq RbMsg
            /\ rbFailures' \in [RbMsg -> Nat] /\ \A m \in RbMsg : rbFailures[m] <= rbFailures'[m]
        BY <3>1, <1>2, <1>4 DEF RbInv, RbTypes
      <3> QED
        BY <3>2, <1>4, RbQuietOK
    <2>2. \A k \in 1..Len(rbCopies) : k = rbHold[c].copy => RbSuperseded(k)'
      BY <1>4 DEF RbSuperseded, HeldMsg
    <2> QED
      BY <1>1, <1>4, <2>1, <2>2, RbPcInv DEF HandlerOutcome
  <1>5. CASE /\ rbFailures' = [rbFailures EXCEPT ![HeldMsg(c)] = @ + 1]
             /\ rbHold' = [rbHold EXCEPT ![c].pc = "failed"]
             /\ UNCHANGED <<rbCopies, rbHandled>>
    <2>1. /\ rbFailures' \in [RbMsg -> Nat]
          /\ \A m \in RbMsg : /\ rbFailures[m] \in Nat
                              /\ rbFailures'[m] = IF m = HeldMsg(c) THEN rbFailures[m] + 1 ELSE rbFailures[m]
      BY <1>2, <1>5 DEF RbInv, RbTypes
    <2>2. RbStepOK
      <3>1. \A m \in RbMsg : rbFailures[m] <= rbFailures'[m]
        BY <2>1
      <3> QED
        BY <1>5, <2>1, <3>1, RbQuietOK DEF RbInv, RbTypes
    <2>3. \A k \in 1..Len(rbCopies) : k = rbHold[c].copy =>
              rbCopies'[k].tries < rbFailures'[rbCopies'[k].msg]
      BY <1>2, <1>5, <2>1 DEF HeldMsg
    <2> QED
      BY <1>1, <1>5, <2>2, <2>3, RbPcInv DEF HandlerOutcome
  <1> QED
    BY <1>3, <1>4, <1>5 DEF HandlerOutcome

\* After a failure: a younger copy first, then the acknowledgement; dead after the last retry.
LEMMA OnFailureInv ==
    ASSUME RbInv, NEW c \in RbConsumer, OnFailure(c), UNCHANGED <<rbPub, rbStale, rbMisread>>
    PROVE  RbInv'
  <1>1. rbHold[c] /= RbNothing /\ rbHold[c].pc = "failed"
    BY DEF OnFailure, RbNothing
  <1>k. PICK k \in 1..Len(rbCopies) : k = rbHold[c].copy
    BY <1>1, RbHeld
  <1>2. /\ rbCopies[k].msg \in RbMsg /\ rbCopies[k].tries \in 0..RbMaxRetries
        /\ rbFailures[rbCopies[k].msg] \in Nat
        /\ rbCopies[k].tries < rbFailures[rbCopies[k].msg]
    BY <1>1, <1>k, RbHeld DEF RbInv, RbTriesAreFailures
  <1>3. CASE HeaderRetryCount(c) < RbMaxRetries /\ Republish(c)
    <2>n. PICK n : n = rbCopies[k].tries + 1
      OBVIOUS
    <2>1. /\ n \in 0..RbMaxRetries /\ n <= rbFailures[rbCopies[k].msg]
          /\ rbCopies' = Enqueued(rbCopies, rbCopies[k].msg, n)
      BY <1>2, <1>3, <1>k, <2>n, RbAssumption, SMTT(30) DEF HeaderRetryCount, Republish, HeldMsg
    <2>2. RbStepOK /\ \A j \in 1..Len(rbCopies) : rbCopies[j].msg = rbCopies[k].msg => RbSuperseded(j)'
      BY <1>2, <2>1, RbAddedOK DEF OnFailure
    <2>3. \A j \in 1..Len(rbCopies) : j = rbHold[c].copy => RbSuperseded(j)'
      BY <2>2, <1>k
    <2> QED
      BY <1>1, <1>3, <2>2, <2>3, RbPcInv DEF OnFailure, Republish
  <1>4. CASE RequeueFailed(c)
    BY <1>1, <1>4, RbSettleInv DEF RequeueFailed, OnFailure
  <1>5. CASE HeaderRetryCount(c) >= RbMaxRetries /\ DeadLetter(c)
    <2>1. rbFailures[HeldMsg(c)] > RbMaxRetries
      BY <1>2, <1>5, <1>k, RbAssumption DEF HeaderRetryCount, HeldMsg
    <2> QED
      BY <1>1, <1>5, <2>1, RbSettleInv DEF DeadLetter, OnFailure
  <1> QED
    BY <1>3, <1>4, <1>5 DEF OnFailure

LEMMA ChannelLossInv ==
    ASSUME RbInv, NEW c \in RbConsumer, ChannelLoss(c), UNCHANGED <<rbPub, rbStale, rbMisread>>
    PROVE  RbInv'
  <1>1. rbChan' \in [RbConsumer -> {"none", "open", "closed"}]
    BY DEF ChannelLoss, RbInv, RbTypes
  <1>2. CASE rbHold[c] = RbNothing
    <2>1. UNCHANGED <<rbCopies, rbHold, rbHandled, rbFailures>>
      BY <1>2 DEF ChannelLoss
    <2>2. RbStepOK
      BY <2>1, RbGrows, RbQuietOK
    <2> QED
      BY <1>1, <2>1, <2>2, RbInvFromStep DEF RbInv, RbTypes, RbMisreadIsOwed, RbFailed
  <1>3. CASE rbHold[c] /= RbNothing
    <2>k. PICK k \in 1..Len(rbCopies) : k = rbHold[c].copy
      BY <1>3, RbHeld
    <2>1. RbStepOK
      <3>1. CASE rbHold[c].live
        <4>1. rbCopies' = [rbCopies EXCEPT ![k].at = "queue"]
          BY <1>3, <2>k, <3>1 DEF ChannelLoss
        <4> QED
          BY <4>1, RbMovedOK DEF ChannelLoss
      <3>2. CASE ~rbHold[c].live
        BY <3>2, RbGrows, RbQuietOK DEF ChannelLoss
      <3> QED
        BY <3>1, <3>2
    <2>h. PICK h : h = [rbHold[c] EXCEPT !.live = FALSE]
      OBVIOUS
    <2>2. h \in RbHolding /\ h.pc = rbHold[c].pc /\ h.copy = k /\ h.pc /= "idle"
      BY <2>h, <2>k, <1>3, RbHeld DEF RbHolding
    <2>3. rbHold' = [rbHold EXCEPT ![c] = h]
      BY <1>3, <2>h DEF ChannelLoss
    <2>4. k \in 1..Len(rbCopies')
      <3>1. Len(rbCopies') \in Nat /\ Len(rbCopies) \in Nat /\ Len(rbCopies) <= Len(rbCopies')
        BY <2>1, LenProperties DEF RbStepOK, RbInv, RbTypes
      <3> QED
        BY <3>1
    <2>5. h.pc = "ack" => RbSuperseded(k)'
      <3>1. h.pc = "ack" => RbSuperseded(k)
        BY <2>2, <2>k DEF RbInv, RbAckedIsSuperseded
      <3> QED
        BY <3>1, <2>1, RbSupersededStays DEF RbInv
    <2>6. h.pc = "failed" => rbCopies'[k].tries < rbFailures'[rbCopies'[k].msg]
      <3>1. h.pc = "failed" => rbCopies[k].tries < rbFailures[rbCopies[k].msg]
        BY <2>2, <2>k DEF RbInv, RbTriesAreFailures
      <3>2. /\ rbCopies'[k].tries = rbCopies[k].tries /\ rbCopies'[k].msg = rbCopies[k].msg
            /\ UNCHANGED rbFailures
        BY <2>1 DEF RbStepOK, ChannelLoss
      <3> QED
        BY <3>1, <3>2
    <2> QED
      BY <1>1, <2>1, <2>2, <2>3, <2>4, <2>5, <2>6, RbOneHold
  <1> QED
    BY <1>2, <1>3

\* A channel is opened, or nothing happens.
LEMMA RbOpenInv ==
    ASSUME RbInv, UNCHANGED <<rbPub, rbStale, rbMisread, rbCopies, rbHold, rbHandled, rbFailures>>,
           rbChan' \in [RbConsumer -> {"none", "open", "closed"}]
    PROVE  RbInv'
  <1>1. RbStepOK
    BY RbGrows, RbQuietOK
  <1> QED
    BY <1>1, RbInvFromStep DEF RbInv, RbTypes, RbMisreadIsOwed, RbFailed

-----------------------------------------------------------------------------
(* The theorems *)

LEMMA RbInvInit == RbInit => RbInv
  <1> SUFFICES ASSUME RbInit PROVE RbInv
    OBVIOUS
  <1>1. rbCopies = <<>> /\ rbCopies \in Seq(RbCopy) /\ Len(rbCopies) = 0 /\ 1..Len(rbCopies) = {}
    BY EmptySeq DEF RbInit
  <1>2. \A c \in RbConsumer : rbHold[c] = RbNothing /\ RbNothing.pc = "idle"
    BY DEF RbInit, RbNothing
  <1>3. RbTypes
    <2>1. RbNothing \in RbHolding
      BY DEF RbNothing, RbHolding
    <2>2. \A c \in RbConsumer : RbHoldOK(rbHold[c])
      BY <1>2, <2>1 DEF RbHoldOK
    <2> QED
      BY <1>1, <2>2 DEF RbInit, RbTypes
  <1>4. RbHasYoungest /\ RbAckedIsSuperseded /\ RbTriesAreFailures
    BY <1>1, <1>2 DEF RbHasYoungest, RbAckedIsSuperseded, RbTriesAreFailures
  <1>5. RbConfirmedIsStored /\ RbMisreadIsOwed
    <2>1. RbFailed = {} /\ rbMisread = {} /\ rbStale = FALSE
      BY DEF RbInit, RbFailed
    <2> QED
      BY <2>1, FS_EmptySet DEF RbInit, RbConfirmedIsStored, RbMisreadIsOwed
  <1> QED
    BY <1>3, <1>4, <1>5 DEF RbInv

LEMMA RbInvStep == RbInv /\ [RbNext]_rbVars => RbInv'
  <1> SUFFICES ASSUME RbInv, [RbNext]_rbVars PROVE RbInv'
    OBVIOUS
  <1>1. CASE RbPublisherStep
    BY <1>1, RbPublisherInv
  <1>2. ASSUME NEW c \in RbConsumer, RbConsumerStep(c) PROVE RbInv'
    <2>1. UNCHANGED <<rbPub, rbStale, rbMisread>>
      BY <1>2 DEF RbConsumerStep
    <2>2. CASE RbDeliver(c)
      BY <2>1, <2>2, RbDeliverInv
    <2>3. CASE HandleDelivery(c) \/ OnMessage(c)
      BY <2>1, <2>3, HandlerOutcomeInv DEF HandleDelivery, OnMessage
    <2>4. CASE RbAck(c)
      <3>1. rbHold[c] /= RbNothing
        BY <2>4 DEF RbAck, RbNothing
      <3> QED
        BY <2>1, <2>4, <3>1, RbSettleInv DEF RbAck
    <2>5. CASE OnFailure(c)
      BY <2>1, <2>5, OnFailureInv
    <2>6. CASE RunConsumer(c) \/ StartWithRetry(c)
      BY <2>1, <2>6, RbOpenInv DEF RunConsumer, StartWithRetry, RbInv, RbTypes
    <2> QED
      BY <1>2, <2>2, <2>3, <2>4, <2>5, <2>6 DEF RbConsumerStep
  <1>3. ASSUME NEW c \in RbConsumer, ChannelLoss(c), UNCHANGED <<rbPub, rbStale, rbMisread>> PROVE RbInv'
    BY <1>3, ChannelLossInv
  <1>4. CASE UNCHANGED rbVars
    BY <1>4, RbOpenInv DEF rbVars, RbInv, RbTypes
  <1> QED
    BY <1>1, <1>2, <1>3, <1>4 DEF RbNext

\* The youngest copy of a confirmed event that nobody has handled is not acknowledged.
LEMMA RbInvImplies == RbInv => RbTypeOK /\ RbConfirmedIsKept /\ RbDeadWasRetried
  <1> SUFFICES ASSUME RbInv PROVE RbTypeOK /\ RbConfirmedIsKept /\ RbDeadWasRetried
    OBVIOUS
  <1>1. DOMAIN rbCopies = 1..Len(rbCopies)
    BY LenProperties DEF RbInv, RbTypes
  <1>2. RbTypeOK
    <2>1. \A c \in RbConsumer : rbHold[c].pc \in {"idle", "got", "failed", "ack"}
      BY DEF RbInv, RbTypes, RbHoldOK, RbHolding
    <2> QED
      BY <1>1, <2>1, RbIndex DEF RbInv, RbTypes, RbTypeOK
  <1>5. Cardinality(rbMisread) <= Cardinality({m \in RbMsg : rbPub[m] = "failed"})
    <2>1. /\ IsFiniteSet(rbMisread) /\ IsFiniteSet(RbFailed)
          /\ Cardinality(rbMisread) \in Nat /\ Cardinality(RbFailed) \in Nat
      BY RbAssumption, FS_Subset, FS_CardinalityType DEF RbInv, RbTypes, RbFailed
    <2>2. Cardinality(rbMisread) + (IF rbStale THEN 1 ELSE 0) <= Cardinality(RbFailed)
      BY DEF RbInv, RbMisreadIsOwed
    <2>3. Cardinality(rbMisread) <= Cardinality(RbFailed)
      BY <2>1, <2>2
    <2> QED
      BY <2>3 DEF RbFailed
  <1>3. RbConfirmedIsKept
    <2> SUFFICES ASSUME NEW m \in RbMsg, rbPub[m] = "ok", m \notin rbHandled,
                        m \notin rbMisread
                 PROVE  \E k \in 1..Len(rbCopies) : rbCopies[k].msg = m /\ rbCopies[k].at # "done"
      BY <1>1, <1>5 DEF RbConfirmedIsKept
    <2>1. PICK k \in 1..Len(rbCopies) :
             /\ rbCopies[k].msg = m
             /\ \A j \in 1..Len(rbCopies) : j > k => rbCopies[j].msg /= m
      BY DEF RbInv, RbConfirmedIsStored, RbHasYoungest
    <2>2. rbCopies[k].at /= "done"
      BY <2>1 DEF RbInv, RbAckedIsSuperseded, RbSuperseded
    <2> QED
      BY <2>1, <2>2
  <1>4. RbDeadWasRetried
    BY <1>1 DEF RbInv, RbTriesAreFailures, RbDeadWasRetried
  <1> QED
    BY <1>2, <1>3, <1>4

\* Whatever fails and in whichever order channels close, a publication that succeeded is
\* handled, dead or still stored, and nothing is dead before its retries are used up
\* (publishOnce, republish before ack, the retry count of either consumer).  A success that
\* publishOnce read from another's late confirmation is excepted, and there are never more
\* of those than publications that failed.
THEOREM BusKeepsAndRetries == RbSpec => [](RbTypeOK /\ RbConfirmedIsKept /\ RbDeadWasRetried)
  <1>1. RbSpec => []RbInv
    BY RbInvInit, RbInvStep, PTL DEF RbSpec
  <1> QED
    BY <1>1, RbInvImplies, PTL

-----------------------------------------------------------------------------
(***************************************************************************)
(* Proofs about NotificationPipeline, for any consumers and events, any    *)
(* number of notifications, reads, expiries, restarts and failing calls.   *)
(*                                                                         *)
(* The workers write back copies, so the invariant speaks of the copies    *)
(* too.  A copy that says SENT was made when every channel had gone out,   *)
(* and stays true because the channels of a notification are fixed when it *)
(* is created and what a provider has accepted stays accepted.  A job ends *)
(* only when its delivery is finished or is parked: awaited by a consumer  *)
(* or the sweep, or left behind by a fault.  So a job that has saved its   *)
(* outcome, or expires its notification, has nothing unfinished to lose.   *)
(***************************************************************************)

NpStatus == {"CREATED", "QUEUED", "SENT", "FAILED", "EXPIRED"}
NpDelivery == [status : {"none", "PENDING", "PROCESSING", "SENT", "FAILED"}, attempts : Nat]
NpJobRecord == [st : {"none", "waiting", "active", "done"},
                pc : {"", "begin", "send", "SENT", "FAILED", "find", "save", "expire"},
                d : NpDelivery, nt : [status : NpStatus, read : BOOLEAN]]

\* The notifications: a sequence of rows.
NpNotes == \E E : noNotif \in Seq([ev : E, status : NpStatus, read : BOOLEAN])

\* The delivery has a row.
NpHas(d) == d \in NoD /\ noDel[d].status # "none"

NpRun == "prefs" \in DOMAIN noRun /\ DOMAIN noRun.prefs \subseteq NoChannel

NpTypes ==
    /\ NpRun
    /\ noDel \in [NoD -> NpDelivery]
    /\ noJob \in [NoD -> NpJobRecord]

\* Rows and jobs belong to notifications that exist, and only jobs start deliveries.
NpExist ==
    /\ \A d \in NoD : noDel[d].status # "none" => d[1] \in NoCreated
    /\ \A j \in NoD : noJob[j].st # "none" => NpHas(j)
    /\ \A d \in NoD : noDel[d].status = "PROCESSING" => noJob[d].st # "none"

\* What a job has in hand.
NpJobOK(j) ==
    /\ noJob[j].st = "active" /\ noJob[j].pc = "SENT" => j \in noSent
    /\ noJob[j].st = "active" /\ noJob[j].pc = "find" => noJob[j].d.status \in {"SENT", "FAILED"}
    /\ noJob[j].st = "active" /\ noJob[j].nt.status = "SENT" => Rows(j[1]) \subseteq noSent

\* What is marked as sent was sent.
NpSent == \A d \in NoD : noDel[d].status = "SENT" => d \in noSent

\* A consumer that has channels left is the only one with this notification,
\* and none of these channels has its job yet.
NpHandlerOK(h) ==
    /\ DOMAIN h = {"pc", "ev", "n", "todo"}
    /\ h.todo /= {} => h.pc \in {"schedule", "dispatch"} /\ h.n \in NoCreated
    /\ \A ch \in h.todo : /\ <<h.n, ch>> \in NoD /\ NpHas(<<h.n, ch>>)
                          /\ noJob[<<h.n, ch>>].st = "none"

NpHandlers ==
    /\ noH = [c \in NoConsumer |-> noH[c]]
    /\ \A c \in NoConsumer : NpHandlerOK(noH[c])
    /\ \A a, b \in NoConsumer :
          noH[a].todo /= {} /\ noH[b].todo /= {} /\ noH[a].n = noH[b].n => a = b

\* Nobody's job, but somebody's business.
NpParked(d) == NoAwaited(d) \/ d \in noBroken

NpSettled(d) == noDel[d].status \in Inflight => NpParked(d)

\* A job that has saved the outcome of its delivery.
NpOver ==
    \A j \in NoD : noJob[j].st = "active" /\ noJob[j].pc \in {"find", "save"} => NpSettled(j)

\* The rows the sweep has read.
NpSweeps ==
    /\ DOMAIN noSweep = {"pc", "d", "rows"}
    /\ \A d \in DOMAIN noSweep.rows : NpHas(d) /\ noSweep.rows[d].attempts \in Nat

NpRt(x) == <<x, "realtime">>

\* The rows that expire has read.  The realtime worker waits for it, and its own
\* delivery is among these rows until it is finished.
NpExpireOK(x) ==
    /\ DOMAIN noExpire[x] = {"n", "pc", "read", "rows"}
    /\ noExpire[x].pc # "idle" => noExpire[x].n \in NoCreated /\ noExpire[x].read \in BOOLEAN
    /\ \A d \in DOMAIN noExpire[x].rows : NpHas(d) /\ noExpire[x].rows[d].attempts \in Nat
    /\ x # 0 /\ noExpire[x].pc # "idle" =>
          noExpire[x].n = x /\ noJob[NpRt(x)].st = "active" /\ noJob[NpRt(x)].pc = "expire"
    /\ x # 0 /\ noExpire[x].pc = "rows" =>
          NpRt(x) \in DOMAIN noExpire[x].rows \/ NpSettled(NpRt(x))

NpExpirers ==
    /\ noExpire = [x \in NoExpirer |-> noExpire[x]]
    /\ \A x \in NoExpirer : NpExpireOK(x)

NpState ==
    /\ NpTypes /\ NpExist /\ NpSent /\ NpHandlers /\ NpSweeps /\ NpExpirers /\ NpOver
    /\ \A j \in NoD : NpJobOK(j)
    /\ NoSentIsReal /\ NoUnfinishedHasJob

NpInv == NpNotes /\ NpState

-----------------------------------------------------------------------------
(* The rows *)

LEMMA NpRunKept ==
    ASSUME NpRun, NEW f, f /= "prefs", NEW x, noRun' = [noRun EXCEPT ![f] = x]
    PROVE  NpRun'
  BY DEF NpRun

LEMMA NpFault ==
    ASSUME NpRun, NoFault \/ UNCHANGED noRun
    PROVE  NpRun'
  <1>1. CASE NoFault
    <2>1. PICK x : x = noRun.faults - 1
      OBVIOUS
    <2>2. noRun' = [noRun EXCEPT !["faults"] = x]
      BY <1>1, <2>1 DEF NoFault
    <2> QED
      BY <2>2, NpRunKept
  <1>2. CASE UNCHANGED noRun
    BY <1>2 DEF NpRun
  <1> QED
    BY <1>1, <1>2

LEMMA NpLen ==
    ASSUME NpNotes
    PROVE  Len(noNotif) \in Nat
  BY DEF NpNotes

LEMMA NpAppend ==
    ASSUME NpNotes, NEW e,
           noNotif' = Append(noNotif, [ev |-> e, status |-> "CREATED", read |-> FALSE])
    PROVE  /\ NpNotes' /\ Len(noNotif') = Len(noNotif) + 1
           /\ noNotif'[Len(noNotif) + 1].status = "CREATED"
           /\ \A i \in NoCreated : noNotif'[i] = noNotif[i]
  <1> DEFINE R(E) == [ev : E, status : NpStatus, read : BOOLEAN]
             r == [ev |-> e, status |-> "CREATED", read |-> FALSE]
  <1>1. PICK E : noNotif \in Seq(R(E))
    BY DEF NpNotes
  <1>2. r \in R(E \cup {e}) /\ R(E) \subseteq R(E \cup {e}) /\ r.status = "CREATED"
    BY DEF NpStatus
  <1> HIDE DEF r, R
  <1>3. noNotif \in Seq(R(E \cup {e}))
    BY <1>1, <1>2, SeqMonotonic
  <1>4. noNotif' = Append(noNotif, r)
    BY DEF r
  <1>5. /\ noNotif' \in Seq(R(E \cup {e})) /\ Len(noNotif') = Len(noNotif) + 1
        /\ noNotif'[Len(noNotif) + 1] = r
        /\ \A i \in 1..Len(noNotif) : noNotif'[i] = noNotif[i]
    BY <1>2, <1>3, <1>4, AppendProperties
  <1> QED
    BY <1>2, <1>5 DEF NpNotes, NoCreated, R

LEMMA NpSave ==
    ASSUME NpNotes, NEW n \in NoCreated, NEW s \in NpStatus, NEW b \in BOOLEAN, NEW e,
           noNotif' = [noNotif EXCEPT ![n] = [ev |-> e, status |-> s, read |-> b]]
    PROVE  /\ NpNotes' /\ Len(noNotif') = Len(noNotif)
           /\ noNotif'[n].status = s
           /\ \A i \in NoCreated \ {n} : noNotif'[i] = noNotif[i]
  <1> DEFINE R(E) == [ev : E, status : NpStatus, read : BOOLEAN]
             r == [ev |-> e, status |-> s, read |-> b]
  <1>1. PICK E : noNotif \in Seq(R(E))
    BY DEF NpNotes
  <1>2. r \in R(E \cup {e}) /\ R(E) \subseteq R(E \cup {e}) /\ r.status = s
    OBVIOUS
  <1>4. noNotif' = [noNotif EXCEPT ![n] = r]
    OBVIOUS
  <1> HIDE DEF r, R
  <1>3. noNotif \in Seq(R(E \cup {e}))
    BY <1>1, <1>2, SeqMonotonic
  <1>5. n \in 1..Len(noNotif)
    BY DEF NoCreated
  <1>6. /\ noNotif' \in Seq(R(E \cup {e})) /\ Len(noNotif') = Len(noNotif)
        /\ noNotif'[n] = r
        /\ \A i \in 1..Len(noNotif) \ {n} : noNotif'[i] = noNotif[i]
    BY <1>2, <1>3, <1>4, <1>5, ExceptSeq
  <1> QED
    BY <1>2, <1>6 DEF NpNotes, NoCreated, R

\* The row of a notification, with what is replaced in it.
LEMMA NpRow ==
    ASSUME NpNotes, NEW n \in NoCreated
    PROVE  /\ noNotif[n].status \in NpStatus /\ noNotif[n].read \in BOOLEAN
           /\ noNotif[n] = [ev |-> noNotif[n].ev, status |-> noNotif[n].status, read |-> noNotif[n].read]
  <1>1. PICK E : noNotif \in Seq([ev : E, status : NpStatus, read : BOOLEAN])
    BY DEF NpNotes
  <1>2. noNotif[n] \in [ev : E, status : NpStatus, read : BOOLEAN]
    BY <1>1, ElementOfSeq DEF NoCreated
  <1> QED
    BY <1>2

\* What every step does to the rows: none goes, a notification gets no further channel, and
\* what was accepted or cut short stays so.
NpStep ==
    /\ noSent \subseteq noSent' /\ noBroken \subseteq noBroken'
    /\ NoCreated \subseteq NoCreated'
    /\ \A d \in NoD : noDel[d].status # "none" => noDel'[d].status # "none"
    /\ \A d \in NoD : d[1] \in NoCreated /\ noDel'[d].status # "none" => noDel[d].status # "none"

LEMMA NpRowsFixed ==
    ASSUME NpStep, NEW n \in NoCreated
    PROVE  Rows(n)' = Rows(n)
  BY DEF NpStep, Rows

LEMMA NpJobStays ==
    ASSUME NpInv, NpStep, NEW j \in NoD, noJob'[j] = noJob[j]
    PROVE  NpJobOK(j)'
  <1>1. NpJobOK(j)
    BY DEF NpInv, NpState
  <1>2. noJob[j].st = "active" => j[1] \in NoCreated
    BY DEF NpInv, NpState, NpExist, NpHas
  <1>3. noSent \subseteq noSent'
    BY DEF NpStep
  <1>4. noJob[j].st = "active" => Rows(j[1])' = Rows(j[1])
    BY <1>2, NpRowsFixed
  <1> QED
    BY <1>1, <1>3, <1>4 DEF NpJobOK

\* Consumers see no job of theirs appear.
LEMMA NpHandlerStays ==
    ASSUME NpInv, NpStep, NEW h, NpHandlerOK(h),
           \A ch \in h.todo : noJob'[<<h.n, ch>>].st = "none"
    PROVE  NpHandlerOK(h)'
  BY DEF NpHandlerOK, NpStep, NpHas

LEMMA NpHandlersStay ==
    ASSUME NpInv, NpStep, UNCHANGED noH,
           \A d \in NoD : noJob[d].st = "none" => noJob'[d].st = "none"
    PROVE  NpHandlers'
  <1>1. ASSUME NEW c \in NoConsumer PROVE NpHandlerOK(noH[c])'
    <2>h. PICK h : h = noH[c]
      OBVIOUS
    <2>1. NpHandlerOK(h)
      BY <2>h DEF NpInv, NpState, NpHandlers
    <2>2. \A ch \in h.todo : noJob'[<<h.n, ch>>].st = "none"
      BY <2>1 DEF NpHandlerOK
    <2>3. NpHandlerOK(h)'
      BY <2>1, <2>2, NpHandlerStays
    <2> QED
      BY <2>3, <2>h DEF NpHandlerOK, NpHas
  <1> QED
    BY <1>1 DEF NpInv, NpState, NpHandlers

LEMMA NpSweepsStay ==
    ASSUME NpInv, NpStep, UNCHANGED noSweep
    PROVE  NpSweeps'
  BY DEF NpInv, NpState, NpSweeps, NpStep, NpHas

\* What is parked stays so, and a delivery that starts anew is parked or has a
\* job that has not saved its outcome.
NpKept(d) ==
    /\ noDel[d].status \in Inflight /\ NpParked(d) =>
          NpParked(d)' \/ (noJob'[d] /= noJob[d] /\ noJob'[d].st = "waiting")
    /\ noJob'[d] = noJob[d] /\ noDel'[d].status \in Inflight =>
          noDel[d].status \in Inflight \/ NpParked(d)'
    /\ noJob'[d] /= noJob[d] /\ noDel'[d].status \in Inflight =>
          \/ NpParked(d)' \/ noJob'[d].st = "waiting"
          \/ noJob'[d].st = "active" /\ noJob'[d].pc \notin {"find", "save"}

LEMMA NpSettledStays ==
    ASSUME NEW d \in NoD, NpKept(d), noJob'[d] = noJob[d], NpSettled(d)
    PROVE  NpSettled(d)'
  BY DEF NpKept, NpSettled

LEMMA NpKeeps ==
    ASSUME NpInv, \A d \in NoD : NpKept(d)
    PROVE  NoUnfinishedHasJob' /\ NpOver'
  <1>1. NoUnfinishedHasJob'
    <2> SUFFICES ASSUME NEW d \in NoD, noDel'[d].status \in Inflight
                 PROVE  noJob'[d].st \in {"waiting", "active"} \/ NpParked(d)'
      BY DEF NoUnfinishedHasJob, NpParked
    <2>1. noDel[d].status \in Inflight => noJob[d].st \in {"waiting", "active"} \/ NpParked(d)
      BY DEF NpInv, NpState, NoUnfinishedHasJob, NpParked
    <2>2. NpKept(d)
      OBVIOUS
    <2> QED
      BY <2>1, <2>2 DEF NpKept
  <1>2. NpOver'
    <2> SUFFICES ASSUME NEW j \in NoD, noJob'[j].st = "active", noJob'[j].pc \in {"find", "save"}
                 PROVE  NpSettled(j)'
      BY DEF NpOver
    <2>1. NpKept(j)
      OBVIOUS
    <2>2. CASE noJob'[j] = noJob[j]
      <3>1. NpSettled(j)
        BY <2>2 DEF NpInv, NpState, NpOver
      <3> QED
        BY <2>1, <2>2, <3>1, NpSettledStays
    <2>3. CASE noJob'[j] /= noJob[j]
      BY <2>1, <2>3 DEF NpKept, NpSettled
    <2> QED
      BY <2>2, <2>3
  <1> QED
    BY <1>1, <1>2

LEMMA NpParkedStays ==
    ASSUME UNCHANGED <<noH, noSweep>>, noBroken \subseteq noBroken', NEW d \in NoD, NpParked(d)
    PROVE  NpParked(d)'
  BY DEF NpParked, NoAwaited

LEMMA NpRealtime ==
    ASSUME NEW x \in NoExpirer, x # 0
    PROVE  x \in NoId /\ NpRt(x) \in NoD /\ NpRt(x)[1] = x
  BY NoAssumption DEF NoExpirer, NoId, NoD, NoChannel, NpRt

LEMMA NpExpirerStays ==
    ASSUME NpInv, NpStep, \A d \in NoD : NpKept(d), NEW x \in NoExpirer, noExpire'[x] = noExpire[x],
           x # 0 /\ noExpire[x].pc # "idle" => noJob'[NpRt(x)] = noJob[NpRt(x)]
    PROVE  NpExpireOK(x)'
  <1>1. NpExpireOK(x)
    BY DEF NpInv, NpState, NpExpirers
  <1>2. \A d \in NoD : NpHas(d) => NpHas(d)'
    BY DEF NpStep, NpHas
  <1>3. NoCreated \subseteq NoCreated'
    BY DEF NpStep
  <1>4. x # 0 /\ noExpire[x].pc = "rows" => NpRt(x) \in DOMAIN noExpire[x].rows \/ NpSettled(NpRt(x))'
    <2> SUFFICES ASSUME x # 0, noExpire[x].pc = "rows", NpRt(x) \notin DOMAIN noExpire[x].rows
                 PROVE  NpSettled(NpRt(x))'
      OBVIOUS
    <2>1. NpSettled(NpRt(x)) /\ NpRt(x) \in NoD
      BY <1>1, NpRealtime DEF NpExpireOK
    <2>2. NpKept(NpRt(x)) /\ noJob'[NpRt(x)] = noJob[NpRt(x)]
      BY <2>1
    <2> QED
      BY <2>1, <2>2, NpSettledStays
  <1>5. \A d \in DOMAIN noExpire[x].rows : NpHas(d)' /\ noExpire[x].rows[d].attempts \in Nat
    BY <1>1, <1>2 DEF NpExpireOK, NpHas
  <1>6. NpRt(x)' = NpRt(x)
    BY DEF NpRt
  <1> QED
    BY <1>1, <1>3, <1>4, <1>5, <1>6 DEF NpExpireOK

\* A job that is idle, waiting or with its worker is nobody's expiry.
LEMMA NpNotExpiring ==
    ASSUME NpInv, NEW j \in NoD, ~(noJob[j].st = "active" /\ noJob[j].pc = "expire"),
           \A i \in NoD \ {j} : noJob'[i] = noJob[i], NEW x \in NoExpirer, x # 0, noExpire[x].pc # "idle"
    PROVE  noJob'[NpRt(x)] = noJob[NpRt(x)]
  <1>1. NpExpireOK(x) /\ NpRt(x) \in NoD
    BY NpRealtime DEF NpInv, NpState, NpExpirers
  <1>2. NpRt(x) /= j
    BY <1>1 DEF NpExpireOK
  <1> QED
    BY <1>1, <1>2

LEMMA NpExpirersStay ==
    ASSUME NpInv, NpStep, \A d \in NoD : NpKept(d), UNCHANGED noExpire,
           \A x \in NoExpirer : x # 0 /\ noExpire[x].pc # "idle" => noJob'[NpRt(x)] = noJob[NpRt(x)]
    PROVE  NpExpirers'
  <1>1. \A x \in NoExpirer : NpExpireOK(x)'
    BY NpExpirerStays
  <1> QED
    BY <1>1 DEF NpInv, NpState, NpExpirers

\* Statuses of the notifications do not change.
LEMMA NpSentIsRealStays ==
    ASSUME NpInv, NpStep, UNCHANGED noNotif
    PROVE  NoSentIsReal'
  <1> SUFFICES ASSUME NEW n \in NoCreated, noNotif[n].status = "SENT"
               PROVE  Rows(n)' \subseteq noSent'
    BY DEF NoSentIsReal, NoCreated
  <1>1. Rows(n) \subseteq noSent
    BY DEF NpInv, NpState, NoSentIsReal
  <1> QED
    BY <1>1, NpRowsFixed DEF NpStep

\* The steps that are not a consumer's: no delivery or job appears, each job that
\* changes is in order again, and nothing unfinished is dropped.
LEMMA NpRowStep ==
    ASSUME NpInv, NpRun', UNCHANGED noH, noSent \subseteq noSent', noBroken \subseteq noBroken',
           NpNotes', Len(noNotif') = Len(noNotif),
           \A n \in NoCreated : noNotif'[n].status = "SENT" =>
              noNotif[n].status = "SENT" \/ Rows(n) \subseteq noSent',
           noDel' \in [NoD -> NpDelivery], noJob' \in [NoD -> NpJobRecord],
           \A d \in NoD : /\ noDel'[d].status = "none" <=> noDel[d].status = "none"
                          /\ noDel'[d].status = "SENT" => noDel[d].status = "SENT" \/ d \in noSent'
                          /\ noDel'[d].status = "PROCESSING" =>
                                noDel[d].status = "PROCESSING" \/ noJob[d].st # "none",
           \A j \in NoD : /\ noJob'[j].st = "none" <=> noJob[j].st = "none"
                          /\ noJob'[j] = noJob[j] \/ (NpStep => NpJobOK(j)'),
           \A d \in NoD : NpKept(d),
           NpSweeps', NpStep => NpExpirers'
    PROVE  NpInv'
  <1>1. NoCreated' = NoCreated
    BY DEF NoCreated
  <1>2. NpStep
    BY <1>1 DEF NpStep
  <1>3. NpTypes'
    BY DEF NpTypes
  <1>4. NpExist'
    <2>1. \A d \in NoD : NpHas(d)' <=> NpHas(d)
      BY DEF NpHas
    <2> QED
      BY <1>1, <2>1 DEF NpInv, NpState, NpExist
  <1>5. NpSent'
    BY DEF NpInv, NpState, NpSent
  <1>6. NpHandlers'
    BY <1>2, NpHandlersStay
  <1>7. \A j \in NoD : NpJobOK(j)'
    BY <1>2, NpJobStays
  <1>8. NoSentIsReal'
    <2> SUFFICES ASSUME NEW n \in NoCreated, noNotif'[n].status = "SENT"
                 PROVE  Rows(n)' \subseteq noSent'
      BY <1>1 DEF NoSentIsReal
    <2>1. Rows(n) \subseteq noSent'
      BY DEF NpInv, NpState, NoSentIsReal
    <2> QED
      BY <2>1, <1>2, NpRowsFixed
  <1>9. NoUnfinishedHasJob' /\ NpOver'
    BY NpKeeps
  <1> QED
    BY <1>2, <1>3, <1>4, <1>5, <1>6, <1>7, <1>8, <1>9 DEF NpInv, NpState

-----------------------------------------------------------------------------
(* Consumers *)

\* A delivery that a consumer still has to dispatch has not been started.
LEMMA NpTodo ==
    ASSUME NpInv, NEW c \in NoConsumer, NEW d \in NoD, noH[c].n = d[1], d[2] \in noH[c].todo
    PROVE  /\ noJob[d].st = "none" /\ noDel[d].status /= "PROCESSING"
           /\ <<noH[c].n, d[2]>> = d
  <1>1. <<noH[c].n, d[2]>> = d
    BY DEF NoD
  <1>2. NpHandlerOK(noH[c])
    BY DEF NpInv, NpState, NpHandlers
  <1>3. noJob[d].st = "none"
    BY <1>1, <1>2 DEF NpHandlerOK
  <1> QED
    BY <1>1, <1>3 DEF NpInv, NpState, NpExist

\* A consumer moves on and neither rows nor jobs change.
LEMMA NpConsumerStep ==
    ASSUME NpInv, NpRun', NEW c \in NoConsumer, NEW h, noH' = [noH EXCEPT ![c] = h], NpHandlerOK(h),
           h.todo \subseteq noH[c].todo, h.todo /= {} => h.n = noH[c].n,
           \A ch \in noH[c].todo : noDel[<<noH[c].n, ch>>].status = "PENDING" =>
              ch \in h.todo \/ <<noH[c].n, ch>> \in noBroken',
           noBroken \subseteq noBroken',
           UNCHANGED <<noNotif, noDel, noJob, noSent, noSweep, noExpire>>
    PROVE  NpInv'
  <1>1. NpStep
    BY DEF NpStep, NoCreated
  <1>2. NpNotes' /\ NpTypes' /\ NpExist' /\ NpSent'
    BY DEF NpInv, NpState, NpNotes, NpTypes, NpExist, NpSent, NpHas, NoCreated
  <1>3. \A j \in NoD : NpJobOK(j)'
    BY <1>1, NpJobStays
  <1>4. NpSweeps' /\ NoSentIsReal'
    BY <1>1, NpSweepsStay, NpSentIsRealStays
  <1>5. /\ noH = [b \in NoConsumer |-> noH[b]]
        /\ noH'[c] = h /\ \A b \in NoConsumer \ {c} : noH'[b] = noH[b]
    BY DEF NpInv, NpState, NpHandlers
  <1>6. NpHandlers'
    <2>1. noH' = [b \in NoConsumer |-> noH'[b]]
      BY <1>5
    <2>2. ASSUME NEW b \in NoConsumer PROVE NpHandlerOK(noH[b])'
      <3>g. PICK g : g = noH'[b]
        OBVIOUS
      <3>1. NpHandlerOK(g)
        BY <3>g, <1>5 DEF NpInv, NpState, NpHandlers
      <3>2. NpHandlerOK(g)'
        BY <3>1, <1>1, NpHandlerStays DEF NpHandlerOK
      <3> QED
        BY <3>2, <3>g DEF NpHandlerOK, NpHas
    <2>3. ASSUME NEW a \in NoConsumer, NEW b \in NoConsumer, noH'[a].todo /= {}, noH'[b].todo /= {},
                 noH'[a].n = noH'[b].n
          PROVE  a = b
      <3>1. ASSUME NEW x \in NoConsumer, noH'[x].todo /= {}
            PROVE  noH[x].todo /= {} /\ noH[x].n = noH'[x].n
        BY <3>1, <1>5
      <3> QED
        BY <2>3, <3>1 DEF NpInv, NpState, NpHandlers
    <2> QED
      BY <2>1, <2>2, <2>3 DEF NpHandlers
  <1>7. ASSUME NEW d \in NoD PROVE NpKept(d)
    <2>1. ASSUME noDel[d].status \in Inflight, NpParked(d) PROVE NpParked(d)'
      <3>1. CASE \E b \in NoConsumer : noH[b].n = d[1] /\ d[2] \in noH[b].todo
        <4>1. PICK b \in NoConsumer : noH[b].n = d[1] /\ d[2] \in noH[b].todo
          BY <3>1
        <4>2. CASE b /= c
          BY <4>1, <4>2, <1>5 DEF NpParked, NoAwaited
        <4>3. CASE b = c
          <5>1. <<noH[c].n, d[2]>> = d /\ noDel[d].status = "PENDING"
            BY <2>1, <4>1, <4>3, NpTodo DEF Inflight
          <5>2. d \in noBroken' \/ (d[2] \in h.todo /\ h.n = d[1])
            BY <4>1, <4>3, <5>1
          <5> QED
            BY <5>2, <1>5 DEF NpParked, NoAwaited
        <4> QED
          BY <4>2, <4>3
      <3> QED
        BY <2>1, <3>1 DEF NpParked, NoAwaited
    <2> QED
      BY <2>1 DEF NpKept
  <1>8. NoUnfinishedHasJob' /\ NpOver'
    BY <1>7, NpKeeps
  <1>9. NpExpirers'
    BY <1>1, <1>7, NpExpirersStay
  <1> QED
    BY <1>2, <1>3, <1>4, <1>6, <1>8, <1>9 DEF NpInv, NpState

LEMMA NpGo ==
    ASSUME NEW h, NpHandlerOK(h), NEW x, h.todo = {}
    PROVE  /\ NpHandlerOK([h EXCEPT !.pc = x])
           /\ [h EXCEPT !.pc = x].todo = {} /\ [h EXCEPT !.pc = x].n = h.n
  <1>1. PICK g : g = [h EXCEPT !.pc = x]
    OBVIOUS
  <1>2. DOMAIN g = {"pc", "ev", "n", "todo"} /\ g.todo = {} /\ g.n = h.n
    BY <1>1 DEF NpHandlerOK
  <1>3. NpHandlerOK(g)
    BY <1>2 DEF NpHandlerOK
  <1> QED
    BY <1>1, <1>2, <1>3

\* The steps of a consumer that touch neither rows nor jobs.
LEMMA NpQuietConsume ==
    ASSUME NpInv, NEW c \in NoConsumer,
           \/ HandleMessage(c) \/ IsDuplicate(c) \/ ScheduledWorker(c)
           \/ CreateRealtimeOutbox(c) \/ SaveInbox(c) \/ NoCommit(c),
           UNCHANGED <<noSent, noSweep, noExpire, noBroken>>
    PROVE  NpInv'
  <1>u. UNCHANGED <<noNotif, noDel, noJob>>
    BY DEF HandleMessage, IsDuplicate, CheckInbox, ScheduledWorker, CreateRealtimeOutbox, SaveInbox,
           NoCommit
  <1>h. PICK h : h = noH[c]
    OBVIOUS
  <1>i. NpHandlerOK(h) /\ NpRun
    BY <1>h DEF NpInv, NpState, NpHandlers, NpTypes, NpRun
  <1>1. CASE HandleMessage(c) \/ IsDuplicate(c)
    <2>0. CheckInbox(c)
      BY <1>1 DEF HandleMessage, IsDuplicate
    <2>2. PICK g : g = [pc |-> IF <<Head(noRun.inbox[c]), NoInboxName[c]>> \in noInbox
                               THEN "commit" ELSE "create",
                        ev |-> Head(noRun.inbox[c]), n |-> 0, todo |-> {}]
      OBVIOUS
    <2>1. noH' = [noH EXCEPT ![c] = g]
      BY <2>0, <2>2 DEF CheckInbox
    <2>3. DOMAIN g = {"pc", "ev", "n", "todo"} /\ g.todo = {}
      BY <2>2
    <2>4. NpHandlerOK(g) /\ h.todo = {}
      BY <1>1, <1>h, <1>i, <2>3 DEF NpHandlerOK, HandleMessage, IsDuplicate, CheckInbox
    <2>5. NpRun'
      BY <1>1, <1>i DEF HandleMessage, IsDuplicate, CheckInbox, NpRun
    <2> QED
      BY <1>u, <1>h, <2>1, <2>2, <2>3, <2>4, <2>5, NpConsumerStep
  <1>2. CASE ScheduledWorker(c)
    <2>s. PICK S : S = {ch \in h.todo : noDel[<<h.n, ch>>].status = "PENDING"}
      OBVIOUS
    <2>1. PICK g : g = [h EXCEPT !.pc = "dispatch", !.todo = S]
      OBVIOUS
    <2>2. noH' = [noH EXCEPT ![c] = g]
      <3>0. noH' = [noH EXCEPT ![c].pc = "dispatch", ![c].todo = S]
        BY <1>2, <1>h, <2>s DEF ScheduledWorker
      <3>1. c \in DOMAIN noH
        BY DEF NpInv, NpState, NpHandlers
      <3> QED
        BY <1>h, <2>1, <3>0, <3>1
    <2>3. DOMAIN g = {"pc", "ev", "n", "todo"} /\ g.todo = S /\ g.n = h.n /\ g.pc = "dispatch"
      BY <2>1, <1>i DEF NpHandlerOK
    <2>4. NpHandlerOK(g)
      BY <2>3, <2>s, <1>i DEF NpHandlerOK
    <2>5. NpRun'
      BY <1>2, <1>i DEF ScheduledWorker, NpRun
    <2>6. \A ch \in noH[c].todo : noDel[<<noH[c].n, ch>>].status = "PENDING" => ch \in g.todo
      BY <2>3, <2>s, <1>h
    <2>7. g.todo \subseteq noH[c].todo /\ g.n = noH[c].n
      BY <2>3, <2>s, <1>h
    <2> QED
      BY <1>u, <2>2, <2>4, <2>5, <2>6, <2>7, NpConsumerStep
  <1>3. CASE CreateRealtimeOutbox(c) \/ SaveInbox(c)
    <2>1. PICK x : noH' = [noH EXCEPT ![c].pc = x]
      BY <1>3 DEF CreateRealtimeOutbox, SaveInbox
    <2>2. PICK g : g = [h EXCEPT !.pc = x]
      OBVIOUS
    <2>3. noH' = [noH EXCEPT ![c] = g]
      BY <2>1, <2>2, <1>h
    <2>4. h.todo = {}
      BY <1>3, <1>h, <1>i DEF NpHandlerOK, CreateRealtimeOutbox, SaveInbox
    <2>5. NpHandlerOK(g) /\ g.todo = {}
      BY <1>i, <2>2, <2>4, NpGo
    <2>6. NpRun'
      BY <1>3, <1>i, NpFault DEF CreateRealtimeOutbox, SaveInbox
    <2> QED
      BY <1>u, <1>h, <2>3, <2>4, <2>5, <2>6, NpConsumerStep
  <1>4. CASE NoCommit(c)
    <2>1. NpHandlerOK(HIdle) /\ HIdle.todo = {} /\ h.todo = {}
      BY <1>4, <1>h, <1>i DEF NpHandlerOK, HIdle, NoCommit
    <2>2. NpRun'
      <3>1. PICK x : x = [noRun.inbox EXCEPT ![c] = Tail(noRun.inbox[c])]
        OBVIOUS
      <3>2. noRun' = [noRun EXCEPT !["inbox"] = x]
        BY <1>4, <3>1 DEF NoCommit
      <3> QED
        BY <3>2, <1>i, NpRunKept
    <2> QED
      BY <1>4, <1>u, <1>h, <2>1, <2>2, NpConsumerStep DEF NoCommit
  <1> QED
    BY <1>1, <1>2, <1>3, <1>4

LEMMA NpChannels ==
    ASSUME NpRun, NEW e
    PROVE  ChannelsFor(e) \subseteq NoChannel
  BY DEF NpRun, ChannelsFor, GetEnabledChannels, NoChannel

\* One notification with its deliveries and a consumer that will dispatch them.
LEMMA NpCreate ==
    ASSUME NpInv, NEW c \in NoConsumer, CreateAndDispatch(c),
           UNCHANGED <<noSent, noSweep, noExpire, noBroken>>
    PROVE  NpInv'
  <1>h. PICK h : h = noH[c]
    OBVIOUS
  <1>i. NpHandlerOK(h) /\ NpRun /\ NpTypes /\ NpNotes
    BY <1>h DEF NpInv, NpState, NpHandlers, NpTypes
  <1>t. h.todo = {} /\ noH = [b \in NoConsumer |-> noH[b]]
    BY <1>h, <1>i DEF NpHandlerOK, CreateAndDispatch, NpInv, NpState, NpHandlers
  <1>0. PICK gone : gone <=> /\ NoFault \/ UNCHANGED noRun
                             /\ noH' = [noH EXCEPT ![c].pc = "inbox"] /\ UNCHANGED <<noNotif, noDel, noJob>>
    OBVIOUS
  <1>1. CASE gone
    <2>1. PICK g : g = [h EXCEPT !.pc = "inbox"]
      OBVIOUS
    <2>2. noH' = [noH EXCEPT ![c] = g]
      BY <1>0, <1>1, <1>h, <2>1
    <2>3. NpHandlerOK(g) /\ g.todo = {}
      BY <2>1, <1>t, <1>i, NpGo
    <2>4. NpRun'
      BY <1>0, <1>1, <1>i, NpFault
    <2> QED
      BY <1>0, <1>1, <1>h, <1>t, <2>2, <2>3, <2>4, NpConsumerStep
  <1>2. CASE ~gone
    <2>n. PICK n : n = Len(noNotif) + 1
      OBVIOUS
    <2>e. PICK e : e = h.ev
      OBVIOUS
    <2>s. PICK S : S = ChannelsFor(e)
      OBVIOUS
    <2>g. PICK g : g = [pc |-> IF noRun.scheduled THEN "schedule" ELSE "dispatch",
                        ev |-> e, n |-> n, todo |-> S]
      OBVIOUS
    <2>1. /\ n <= NoMax
          /\ noNotif' = Append(noNotif, [ev |-> e, status |-> "CREATED", read |-> FALSE])
          /\ noDel' = [d \in NoD |-> IF d[1] = n /\ d[2] \in S
                                     THEN [status |-> "PENDING", attempts |-> 0] ELSE noDel[d]]
          /\ noH' = [noH EXCEPT ![c] = g]
          /\ UNCHANGED <<noRun, noJob>>
      BY <1>0, <1>2, <1>h, <2>n, <2>e, <2>s, <2>g DEF CreateAndDispatch
    <2>2. /\ NpNotes' /\ Len(noNotif') = Len(noNotif) + 1
          /\ noNotif'[n].status = "CREATED"
          /\ \A i \in NoCreated : noNotif'[i] = noNotif[i]
      BY <2>1, <2>n, <1>i, NpAppend
    <2>3. Len(noNotif) \in Nat /\ n \in Nat /\ n \notin NoCreated /\ n \in NoId
          /\ NoCreated' = NoCreated \cup {n}
      BY <2>1, <2>2, <2>n, <1>i, NpLen, NoAssumption DEF NoCreated, NoId
    <2>4. S \subseteq NoChannel
      BY <2>s, <1>i, NpChannels
    <2>5. /\ \A d \in NoD : d[1] /= n => noDel'[d] = noDel[d]
          /\ \A d \in NoD : d[1] = n /\ d[2] \in S => noDel'[d].status = "PENDING"
          /\ \A d \in NoD : d[1] = n /\ d[2] \notin S => noDel'[d] = noDel[d]
      BY <2>1
    <2>6. \A d \in NoD : d[1] = n => noDel[d].status = "none" /\ noJob[d].st = "none"
      BY <2>3 DEF NpInv, NpState, NpExist, NpHas
    <2>7. NpStep
      BY <2>3, <2>5 DEF NpStep
    <2>8. NpTypes'
      <3>1. noDel' \in [NoD -> NpDelivery]
        BY <2>1, <1>i DEF NpTypes, NpDelivery
      <3> QED
        BY <3>1, <2>1, <1>i DEF NpTypes, NpRun
    <2>9. NpExist'
      BY <2>1, <2>3, <2>5, <2>7 DEF NpInv, NpState, NpExist, NpHas, NpStep
    <2>10. NpSent'
      BY <2>5 DEF NpInv, NpState, NpSent
    <2>11. \A j \in NoD : NpJobOK(j)'
      BY <2>1, <2>7, NpJobStays
    <2>12. NpSweeps'
      BY <2>7, NpSweepsStay
    <2>13. NoSentIsReal'
      <3> SUFFICES ASSUME NEW i \in NoCreated', noNotif'[i].status = "SENT"
                   PROVE  Rows(i)' \subseteq noSent'
        BY DEF NoSentIsReal
      <3>1. i \in NoCreated
        BY <2>2, <2>3
      <3>2. Rows(i) \subseteq noSent
        BY <3>1, <2>2 DEF NpInv, NpState, NoSentIsReal
      <3> QED
        BY <3>1, <3>2, <2>7, NpRowsFixed
    <2>14. noH'[c] = g /\ \A b \in NoConsumer \ {c} : noH'[b] = noH[b]
      BY <2>1, <1>t
    <2>15. g.todo = S /\ g.n = n /\ g.pc \in {"schedule", "dispatch"}
           /\ DOMAIN g = {"pc", "ev", "n", "todo"}
      BY <2>g
    <2>16. NpHandlers'
      <3>1. NpHandlerOK(g)'
        <4>1. ASSUME NEW ch \in S
              PROVE  <<n, ch>> \in NoD /\ NpHas(<<n, ch>>)' /\ noJob[<<n, ch>>].st = "none"
          <5>1. <<n, ch>> \in NoD
            BY <2>3, <2>4 DEF NoD
          <5>2. NpHas(<<n, ch>>)'
            BY <5>1, <2>5 DEF NpHas
          <5> QED
            BY <5>1, <5>2, <2>6
        <4> QED
          BY <4>1, <2>1, <2>3, <2>15 DEF NpHandlerOK
      <3>2. ASSUME NEW b \in NoConsumer PROVE NpHandlerOK(noH[b])'
        <4>1. CASE b = c
          BY <4>1, <3>1, <2>14 DEF NpHandlerOK, NpHas
        <4>2. CASE b /= c
          <5>f. PICK f : f = noH[b]
            OBVIOUS
          <5>1. NpHandlerOK(f)
            BY <5>f DEF NpInv, NpState, NpHandlers
          <5>2. NpHandlerOK(f)'
            BY <5>1, <2>1, <2>7, NpHandlerStays DEF NpHandlerOK
          <5> QED
            BY <5>2, <5>f, <4>2, <2>14 DEF NpHandlerOK, NpHas
        <4> QED
          BY <4>1, <4>2
      <3>3. ASSUME NEW a \in NoConsumer, NEW b \in NoConsumer, noH'[a].todo /= {},
                   noH'[b].todo /= {}, noH'[a].n = noH'[b].n, a /= b
            PROVE  FALSE
        <4>1. \A x \in NoConsumer \ {c} : noH'[x].todo /= {} => noH'[x].n \in NoCreated
          BY <2>14 DEF NpInv, NpState, NpHandlers, NpHandlerOK
        <4>2. noH'[c].n = n
          BY <2>14, <2>15
        <4>3. a /= c /\ b /= c
          BY <3>3, <4>1, <4>2, <2>3
        <4> QED
          BY <3>3, <4>3, <2>14 DEF NpInv, NpState, NpHandlers
      <3>4. noH' = [b \in NoConsumer |-> noH'[b]]
        BY <2>1, <1>t
      <3> QED
        BY <3>2, <3>3, <3>4 DEF NpHandlers
    <2>17. ASSUME NEW d \in NoD PROVE NpKept(d)
      <3>1. NpParked(d) => NpParked(d)'
        <4>1. \A b \in NoConsumer : noH[b].todo /= {} => noH'[b] = noH[b]
          BY <2>14, <1>t, <1>h
        <4> QED
          BY <4>1 DEF NpParked, NoAwaited
      <3>2. CASE d[1] = n
        <4>1. noDel'[d].status \in Inflight => d[2] \in S
          BY <3>2, <2>5, <2>6 DEF Inflight
        <4>2. noDel'[d].status \in Inflight => NpParked(d)'
          BY <4>1, <3>2, <2>14, <2>15 DEF NpParked, NoAwaited
        <4> QED
          BY <3>1, <4>2 DEF NpKept
      <3>3. CASE d[1] /= n
        BY <3>1, <3>3, <2>1, <2>5 DEF NpKept
      <3> QED
        BY <3>2, <3>3
    <2>18. NoUnfinishedHasJob' /\ NpOver'
      BY <2>17, NpKeeps
    <2>19. NpExpirers'
      BY <2>1, <2>7, <2>17, NpExpirersStay
    <2> QED
      BY <2>2, <2>8, <2>9, <2>10, <2>11, <2>12, <2>13, <2>16, <2>18, <2>19 DEF NpInv, NpState
  <1> QED
    BY <1>1, <1>2

\* dispatch adds the job of a channel, or gives the channel up.
LEMMA NpDispatch ==
    ASSUME NpInv, NEW c \in NoConsumer, Dispatch(c), UNCHANGED <<noSent, noSweep, noExpire>>
    PROVE  NpInv'
  <1>h. PICK h : h = noH[c]
    OBVIOUS
  <1>i. NpHandlerOK(h) /\ NpRun /\ NpTypes /\ NpNotes
    BY <1>h DEF NpInv, NpState, NpHandlers, NpTypes
  <1>u. UNCHANGED <<noNotif, noDel>> /\ noH = [b \in NoConsumer |-> noH[b]]
    BY DEF Dispatch, NpInv, NpState, NpHandlers
  <1>1. ASSUME NEW ch \in h.todo, noH' = [noH EXCEPT ![c].todo = @ \ {ch}]
        PROVE  \E g : /\ noH' = [noH EXCEPT ![c] = g] /\ g.n = h.n /\ g.todo = h.todo \ {ch}
                      /\ NpHandlerOK(g)
    <2>1. PICK g : g = [h EXCEPT !.todo = h.todo \ {ch}]
      OBVIOUS
    <2>2. noH' = [noH EXCEPT ![c] = g]
      BY <1>1, <1>h, <2>1
    <2>3. DOMAIN g = {"pc", "ev", "n", "todo"} /\ g.n = h.n /\ g.todo = h.todo \ {ch} /\ g.pc = h.pc
      BY <2>1, <1>i DEF NpHandlerOK
    <2>4. NpHandlerOK(g)
      BY <2>3, <1>i DEF NpHandlerOK
    <2> QED
      BY <2>2, <2>3, <2>4
  <1>2. ASSUME NEW ch \in h.todo, noH' = [noH EXCEPT ![c].todo = @ \ {ch}],
               NoFault, noBroken' = noBroken \cup {<<h.n, ch>>}, UNCHANGED noJob
        PROVE  NpInv'
    <2>1. PICK g : /\ noH' = [noH EXCEPT ![c] = g] /\ g.n = h.n /\ g.todo = h.todo \ {ch}
                   /\ NpHandlerOK(g)
      BY <1>1, <1>2
    <2>2. NpRun'
      BY <1>2, <1>i, NpFault
    <2>3. noBroken \subseteq noBroken' /\ \A x \in noH[c].todo : x \in g.todo \/ <<noH[c].n, x>> \in noBroken'
      BY <1>2, <1>h, <2>1
    <2> QED
      BY <1>2, <1>u, <1>h, <2>1, <2>2, <2>3, NpConsumerStep
  <1>3. ASSUME h.todo = {}, NEW x, noH' = [noH EXCEPT ![c].pc = x], UNCHANGED <<noRun, noJob, noBroken>>
        PROVE  NpInv'
    <2>1. PICK g : g = [h EXCEPT !.pc = x]
      OBVIOUS
    <2>2. noH' = [noH EXCEPT ![c] = g]
      BY <1>3, <1>h, <2>1
    <2>3. NpHandlerOK(g) /\ g.todo = {}
      BY <2>1, <1>3, <1>i, NpGo
    <2>4. NpRun'
      BY <1>3, <1>i, NpFault
    <2> QED
      BY <1>3, <1>u, <1>h, <2>2, <2>3, <2>4, NpConsumerStep
  <1>4. ASSUME NEW ch \in h.todo, noH' = [noH EXCEPT ![c].todo = @ \ {ch}],
               QueueAdd(<<h.n, ch>>), UNCHANGED <<noRun, noBroken>>
        PROVE  NpInv'
    <2>g. PICK g : /\ noH' = [noH EXCEPT ![c] = g] /\ g.n = h.n /\ g.todo = h.todo \ {ch}
                   /\ NpHandlerOK(g)
      BY <1>1, <1>4
    <2>d. PICK d : d = <<h.n, ch>>
      OBVIOUS
    <2>1. d \in NoD /\ NpHas(d) /\ noJob[d].st = "none" /\ d[1] = h.n /\ d[2] = ch
      BY <1>4, <1>i, <2>d DEF NpHandlerOK
    <2>r. PICK r : r = [noJob[d] EXCEPT !.st = "waiting"]
      OBVIOUS
    <2>2. noJob' = [noJob EXCEPT ![d] = r]
      BY <1>4, <2>1, <2>r, <2>d DEF QueueAdd
    <2>3. r \in NpJobRecord /\ r.st = "waiting" /\ noJob'[d] = r
          /\ \A i \in NoD \ {d} : noJob'[i] = noJob[i]
      BY <2>1, <2>2, <2>r, <1>i DEF NpTypes, NpJobRecord
    <2>4. NpStep
      BY <1>u, <1>4 DEF NpStep, NoCreated
    <2>5. NpNotes' /\ NpTypes' /\ NpExist' /\ NpSent'
      <3>1. NpTypes'
        BY <2>2, <2>3, <1>i, <1>u, <1>4 DEF NpTypes, NpRun
      <3>2. NpExist'
        BY <2>1, <2>3, <1>u DEF NpInv, NpState, NpExist, NpHas, NoCreated
      <3> QED
        BY <3>1, <3>2, <1>u DEF NpInv, NpState, NpNotes, NpSent
    <2>6. \A i \in NoD : NpJobOK(i)'
      <3>1. NpJobOK(d)'
        BY <2>3 DEF NpJobOK
      <3>2. \A i \in NoD \ {d} : NpJobOK(i)'
        BY <2>3, <2>4, NpJobStays
      <3> QED
        BY <3>1, <3>2
    <2>7. NpSweeps' /\ NoSentIsReal'
      BY <2>4, <1>u, NpSweepsStay, NpSentIsRealStays
    <2>8. noH'[c] = g /\ \A b \in NoConsumer \ {c} : noH'[b] = noH[b]
      BY <2>g, <1>u
    <2>9. NpHandlers'
      <3>1. ASSUME NEW b \in NoConsumer PROVE NpHandlerOK(noH[b])'
        <4>f. PICK f : f = noH'[b]
          OBVIOUS
        <4>1. NpHandlerOK(f)
          BY <4>f, <2>8, <2>g DEF NpInv, NpState, NpHandlers
        <4>2. ASSUME NEW x \in f.todo PROVE <<f.n, x>> /= d
          <5>1. CASE b = c
            BY <5>1, <4>2, <4>f, <2>8, <2>g, <2>d
          <5>2. CASE b /= c
            <6>1. f = noH[b] /\ f.todo /= {} /\ noH[c].todo /= {}
              BY <5>2, <4>2, <4>f, <2>8, <1>4, <1>h
            <6>2. f.n /= h.n
              BY <6>1, <5>2, <1>h DEF NpInv, NpState, NpHandlers
            <6> QED
              BY <6>2, <2>d
          <5> QED
            BY <5>1, <5>2
        <4>3. \A x \in f.todo : noJob'[<<f.n, x>>].st = "none"
          <5> SUFFICES ASSUME NEW x \in f.todo PROVE noJob'[<<f.n, x>>].st = "none"
            OBVIOUS
          <5>1. <<f.n, x>> \in NoD /\ noJob[<<f.n, x>>].st = "none"
            BY <4>1 DEF NpHandlerOK
          <5> QED
            BY <5>1, <4>2, <2>3
        <4>4. NpHandlerOK(f)'
          BY <4>1, <4>3, <2>4, NpHandlerStays
        <4> QED
          BY <4>4, <4>f DEF NpHandlerOK, NpHas
      <3>2. ASSUME NEW a \in NoConsumer, NEW b \in NoConsumer, noH'[a].todo /= {}, noH'[b].todo /= {},
                   noH'[a].n = noH'[b].n
            PROVE  a = b
        <4>1. ASSUME NEW x \in NoConsumer, noH'[x].todo /= {}
              PROVE  noH[x].todo /= {} /\ noH[x].n = noH'[x].n
          BY <4>1, <2>8, <2>g, <1>h
        <4> QED
          BY <3>2, <4>1 DEF NpInv, NpState, NpHandlers
      <3>3. noH' = [b \in NoConsumer |-> noH'[b]]
        BY <2>g, <1>u
      <3> QED
        BY <3>1, <3>2, <3>3 DEF NpHandlers
    <2>10. ASSUME NEW p \in NoD PROVE NpKept(p)
      <3>2. CASE p = d
        <4>1. noJob'[d] /= noJob[d] /\ noJob'[d].st = "waiting"
          BY <2>1, <2>3
        <4> QED
          BY <3>2, <4>1 DEF NpKept
      <3>3. CASE p /= d
        <4>1. ASSUME NpParked(p) PROVE NpParked(p)'
          <5>1. CASE \E b \in NoConsumer : noH[b].n = p[1] /\ p[2] \in noH[b].todo
            <6>1. PICK b \in NoConsumer : noH[b].n = p[1] /\ p[2] \in noH[b].todo
              BY <5>1
            <6>2. noH'[b].n = p[1] /\ p[2] \in noH'[b].todo
              <7>1. CASE b /= c
                BY <7>1, <6>1, <2>8
              <7>2. CASE b = c
                <8>1. p[2] /= ch
                  BY <3>3, <6>1, <7>2, <2>d, <1>h DEF NoD
                <8> QED
                  BY <8>1, <7>2, <6>1, <2>8, <2>g, <1>h
              <7> QED
                BY <7>1, <7>2
            <6> QED
              BY <6>2 DEF NpParked, NoAwaited
          <5> QED
            BY <4>1, <5>1, <1>4 DEF NpParked, NoAwaited
        <4> QED
          BY <3>3, <4>1, <2>3, <1>u DEF NpKept
      <3> QED
        BY <3>2, <3>3
    <2>11. NoUnfinishedHasJob' /\ NpOver'
      BY <2>10, NpKeeps
    <2>12. NpExpirers'
      <3>1. \A x \in NoExpirer : x # 0 /\ noExpire[x].pc # "idle" => noJob'[NpRt(x)] = noJob[NpRt(x)]
        BY <2>1, <2>3, NpNotExpiring
      <3> QED
        BY <3>1, <2>4, <2>10, NpExpirersStay
    <2> QED
      BY <2>5, <2>6, <2>7, <2>9, <2>11, <2>12 DEF NpInv, NpState
  <1> QED
    <2>1. noH[c].n = h.n /\ noH[c].todo = h.todo
      BY <1>h
    <2> QED
      BY <2>1, <1>2, <1>3, <1>4 DEF Dispatch

-----------------------------------------------------------------------------
(* Workers *)

\* A step of the job of the delivery j: the job becomes r, its delivery s.
LEMMA NpWorkStep ==
    ASSUME NpInv, NpRun', NEW j \in NoD, noJob[j].st /= "none",
           ~(noJob[j].st = "active" /\ noJob[j].pc = "expire"),
           NEW r \in NpJobRecord, r.st /= "none", noJob' = [noJob EXCEPT ![j] = r],
           NEW s \in NpDelivery, s.status /= "none", noDel' = [noDel EXCEPT ![j] = s],
           noSent \subseteq noSent', s.status = "SENT" => j \in noSent',
           r.st = "active" /\ r.pc = "SENT" => j \in noSent',
           r.st = "active" /\ r.pc = "find" => r.d.status \in {"SENT", "FAILED"},
           r.st = "active" /\ r.nt.status = "SENT" => Rows(j[1]) \subseteq noSent',
           noBroken \subseteq noBroken',
           s.status \in Inflight =>
              \/ j \in noBroken'
              \/ s = noDel[j] /\ NpSettled(j)
              \/ r.st = "active" /\ r.pc \notin {"find", "save"} /\ (s = noDel[j] \/ r.pc /= noJob[j].pc),
           NpNotes', Len(noNotif') = Len(noNotif),
           \A n \in NoCreated : noNotif'[n].status = "SENT" =>
              noNotif[n].status = "SENT" \/ Rows(n) \subseteq noSent',
           UNCHANGED <<noH, noSweep, noExpire>>
    PROVE  NpInv'
  <1>2. /\ noJob'[j] = r /\ \A i \in NoD \ {j} : noJob'[i] = noJob[i]
        /\ noDel'[j] = s /\ \A x \in NoD \ {j} : noDel'[x] = noDel[x]
        /\ noJob' \in [NoD -> NpJobRecord] /\ noDel' \in [NoD -> NpDelivery]
    BY DEF NpInv, NpState, NpTypes
  <1>3. noDel[j].status # "none" /\ j[1] \in NoCreated
    BY DEF NpInv, NpState, NpExist, NpHas
  <1>4. NpStep => NpJobOK(j)'
    <2> SUFFICES ASSUME NpStep PROVE NpJobOK(j)'
      OBVIOUS
    <2>1. Rows(j[1])' = Rows(j[1])
      BY <1>3, NpRowsFixed
    <2> QED
      BY <2>1, <1>2 DEF NpJobOK
  <1>5. ASSUME NEW d \in NoD PROVE NpKept(d)
    <2>1. NpParked(d) => NpParked(d)'
      BY NpParkedStays
    <2>2. CASE d /= j
      BY <2>1, <2>2, <1>2 DEF NpKept
    <2>3. CASE d = j
      <3>1. j \in noBroken' => NpParked(j)'
        BY DEF NpParked
      <3>2. s = noDel[j] /\ NpSettled(j) /\ s.status \in Inflight => NpParked(j)'
        BY <2>1, <2>3 DEF NpSettled
      <3> QED
        BY <2>1, <2>3, <3>1, <3>2, <1>2 DEF NpKept
    <2> QED
      BY <2>2, <2>3
  <1>6. \A d \in NoD : /\ noDel'[d].status = "none" <=> noDel[d].status = "none"
                       /\ noDel'[d].status = "SENT" => noDel[d].status = "SENT" \/ d \in noSent'
                       /\ noDel'[d].status = "PROCESSING" =>
                             noDel[d].status = "PROCESSING" \/ noJob[d].st # "none"
    BY <1>2, <1>3
  <1>7. \A i \in NoD : /\ noJob'[i].st = "none" <=> noJob[i].st = "none"
                       /\ noJob'[i] = noJob[i] \/ (NpStep => NpJobOK(i)')
    BY <1>2, <1>4
  <1>8. NpStep => NpExpirers'
    <2>1. \A x \in NoExpirer : x # 0 /\ noExpire[x].pc # "idle" => noJob'[NpRt(x)] = noJob[NpRt(x)]
      BY <1>2, NpNotExpiring
    <2> QED
      BY <2>1, <1>5, NpExpirersStay
  <1>9. NpSweeps'
    BY <1>6 DEF NpInv, NpState, NpSweeps, NpHas
  <1> QED
    BY <1>2, <1>5, <1>6, <1>7, <1>8, <1>9, NpRowStep

\* What holds of a job and its row before any step of it.
LEMMA NpBefore ==
    ASSUME NpInv, NEW j \in NoD, noJob[j].st /= "none"
    PROVE  /\ noJob[j] \in NpJobRecord /\ noDel[j] \in NpDelivery /\ noDel[j].status /= "none"
           /\ j[1] \in NoCreated /\ NpJobOK(j) /\ NpRun /\ NpNotes
           /\ noDel = [noDel EXCEPT ![j] = noDel[j]]
           /\ noDel[j].status = "SENT" => j \in noSent
           /\ noJob[j].st = "active" /\ noJob[j].pc \in {"find", "save"} => NpSettled(j)
  BY DEF NpInv, NpState, NpTypes, NpExist, NpHas, NpSent, NpOver

LEMMA NpNotesStay ==
    ASSUME NpNotes, UNCHANGED noNotif
    PROVE  NpNotes' /\ Len(noNotif') = Len(noNotif)
  BY DEF NpNotes

LEMMA NpDone == JobDone \in NpJobRecord /\ JobDone.st = "done"
  BY DEF JobDone, NoJobIdle, NoCopy, NoRow, NpJobRecord, NpDelivery, NpStatus

\* A job that ends with an error leaves its delivery to nobody.
LEMMA NpLost ==
    ASSUME NpInv, NEW j \in NoD, JobLost(j), noJob[j].st /= "none",
           ~(noJob[j].st = "active" /\ noJob[j].pc = "expire"),
           UNCHANGED <<noH, noSweep, noExpire, noDel, noNotif, noSent>>
    PROVE  NpInv'
  <1>1. NoFault /\ noJob' = [noJob EXCEPT ![j] = JobDone] /\ noBroken' = noBroken \cup {j}
    BY DEF JobLost
  <1>2. /\ noDel[j] \in NpDelivery /\ noDel[j].status /= "none" /\ NpRun /\ NpNotes
        /\ noDel' = [noDel EXCEPT ![j] = noDel[j]]
        /\ noDel[j].status = "SENT" => j \in noSent
    BY NpBefore
  <1>3. NpRun' /\ NpNotes' /\ Len(noNotif') = Len(noNotif)
    BY <1>1, <1>2, NpFault, NpNotesStay
  <1>4. JobDone.st /= "active" /\ JobDone.st /= "none"
    BY NpDone
  <1> QED
    BY <1>1, <1>2, <1>3, <1>4, NpDone, NpWorkStep

\* process
LEMMA NpProcess ==
    ASSUME NpInv, NEW j \in NoD, ProcessJob(j), UNCHANGED <<noH, noSweep, noExpire>>
    PROVE  NpInv'
  <1>1. noJob[j].st = "waiting" /\ UNCHANGED <<noDel, noNotif, noSent>>
    BY DEF ProcessJob
  <1>2. /\ noJob[j] \in NpJobRecord /\ noDel[j] \in NpDelivery /\ noDel[j].status /= "none"
        /\ j[1] \in NoCreated /\ NpRun /\ NpNotes
        /\ noDel' = [noDel EXCEPT ![j] = noDel[j]]
        /\ noDel[j].status = "SENT" => j \in noSent
    BY <1>1, NpBefore
  <1>n. PICK n : n = j[1]
    OBVIOUS
  <1>nt. PICK nt : nt = [status |-> noNotif[n].status, read |-> noNotif[n].read]
    OBVIOUS
  <1>3. nt \in [status : NpStatus, read : BOOLEAN] /\ nt.status = noNotif[n].status
    BY <1>2, <1>n, <1>nt, NpRow
  <1>r. PICK r : r = [st |-> "active", pc |-> "begin", d |-> noDel[j], nt |-> nt]
    OBVIOUS
  <1>5. r \in NpJobRecord /\ r.st = "active" /\ r.pc = "begin" /\ r.nt.status = noNotif[n].status
    BY <1>2, <1>3, <1>r DEF NpJobRecord
  <1>6. r.nt.status = "SENT" => Rows(j[1]) \subseteq noSent'
    BY <1>1, <1>2, <1>5, <1>n DEF NpInv, NpState, NoSentIsReal
  <1>7. CASE JobLost(j)
    BY <1>1, <1>7, NpLost
  <1>8. CASE ~JobLost(j)
    <2>1. noJob' = [noJob EXCEPT ![j] = r] /\ UNCHANGED <<noRun, noBroken>>
      BY <1>2, <1>8, <1>r, <1>nt, <1>n DEF ProcessJob
    <2>2. NpRun' /\ NpNotes' /\ Len(noNotif') = Len(noNotif)
      BY <1>1, <1>2, <2>1, NpFault, NpNotesStay
    <2> QED
      BY <1>1, <1>2, <1>5, <1>6, <2>1, <2>2, NpWorkStep
  <1> QED
    BY <1>7, <1>8

\* beginProcessing
LEMMA NpBegin ==
    ASSUME NpInv, NEW j \in NoD, BeginProcessing(j), UNCHANGED <<noH, noSweep, noExpire>>
    PROVE  NpInv'
  <1>s. PICK s : s = [status |-> "PROCESSING", attempts |-> noJob[j].d.attempts + 1]
    OBVIOUS
  <1>1. /\ noJob[j].st = "active" /\ noJob[j].pc = "begin" /\ UNCHANGED <<noNotif, noSent>>
    BY DEF BeginProcessing
  <1>2. /\ noJob[j] \in NpJobRecord /\ j[1] \in NoCreated /\ NpRun /\ NpNotes /\ NpJobOK(j)
    BY <1>1, NpBefore
  <1>3. s \in NpDelivery /\ s.status = "PROCESSING"
    <2>1. noJob[j].d.attempts \in Nat
      BY <1>2 DEF NpJobRecord, NpDelivery
    <2>2. noJob[j].d.attempts + 1 \in Nat
      BY <2>1
    <2> QED
      BY <2>2, <1>s DEF NpDelivery
  <1>r. PICK r : r = [noJob[j] EXCEPT !.d = s, !.pc = "send"]
    OBVIOUS
  <1>5. r \in NpJobRecord /\ r.st = "active" /\ r.pc = "send" /\ r.nt = noJob[j].nt
    BY <1>1, <1>2, <1>3, <1>r DEF NpJobRecord
  <1>6. r.nt.status = "SENT" => Rows(j[1]) \subseteq noSent'
    BY <1>1, <1>2, <1>5 DEF NpJobOK
  <1>7. CASE JobLost(j) /\ UNCHANGED noDel
    BY <1>1, <1>7, NpLost
  <1>8. CASE ~(JobLost(j) /\ UNCHANGED noDel)
    <2>1. /\ noDel' = [noDel EXCEPT ![j] = s] /\ UNCHANGED <<noRun, noBroken>>
          /\ noJob' = [noJob EXCEPT ![j].d = s, ![j].pc = "send"]
      BY <1>8, <1>s DEF BeginProcessing
    <2>2. noJob' = [noJob EXCEPT ![j] = r]
      <3>1. j \in DOMAIN noJob
        BY DEF NpInv, NpState, NpTypes
      <3> QED
        BY <3>1, <2>1, <1>r
    <2>3. NpRun' /\ NpNotes' /\ Len(noNotif') = Len(noNotif)
      BY <1>1, <1>2, <2>1, NpFault, NpNotesStay
    <2> QED
      BY <1>1, <1>3, <1>5, <1>6, <2>1, <2>2, <2>3, NpWorkStep
  <1> QED
    BY <1>7, <1>8

\* The job goes to another place in its worker, before it saves an outcome.
LEMMA NpMove ==
    ASSUME NpInv, NEW j \in NoD, noJob[j].st = "active", noJob[j].pc # "expire",
           NEW x \in {"SENT", "FAILED"}, JobPc(j, x), NoFault \/ UNCHANGED noRun,
           noSent \subseteq noSent', x = "SENT" => j \in noSent',
           UNCHANGED <<noH, noSweep, noExpire, noDel, noNotif, noBroken>>
    PROVE  NpInv'
  <1>2. /\ noJob[j] \in NpJobRecord /\ noDel[j] \in NpDelivery /\ noDel[j].status /= "none"
        /\ j[1] \in NoCreated /\ NpRun /\ NpNotes /\ NpJobOK(j)
        /\ noDel' = [noDel EXCEPT ![j] = noDel[j]]
        /\ noDel[j].status = "SENT" => j \in noSent'
    BY NpBefore
  <1>r. PICK r : r = [noJob[j] EXCEPT !.pc = x]
    OBVIOUS
  <1>4. noJob' = [noJob EXCEPT ![j] = r]
    BY <1>r DEF JobPc
  <1>5. r \in NpJobRecord /\ r.st = "active" /\ r.pc = x /\ r.nt = noJob[j].nt
    BY <1>2, <1>r DEF NpJobRecord
  <1>6. r.nt.status = "SENT" => Rows(j[1]) \subseteq noSent'
    BY <1>2, <1>5 DEF NpJobOK
  <1>7. NpRun' /\ NpNotes' /\ Len(noNotif') = Len(noNotif)
    BY <1>2, NpFault, NpNotesStay
  <1> QED
    BY <1>2, <1>4, <1>5, <1>6, <1>7, NpWorkStep

\* The workers of the channels: the provider accepts the message or fails.
LEMMA NpSend ==
    ASSUME NpInv, NEW j \in NoD, UNCHANGED <<noH, noSweep, noExpire>>,
           \/ EmailWorker(j) \/ SmsWorker(j) \/ PushWorker(j) \/ InAppWorker(j) \/ RealtimeWorker(j)
    PROVE  NpInv'
  <1>1. PICK x \in {"SENT", "FAILED"} :
           /\ noJob[j].st = "active" /\ noJob[j].pc = "send" /\ UNCHANGED <<noDel, noNotif, noBroken>>
           /\ JobPc(j, x) /\ (NoFault \/ UNCHANGED noRun)
           /\ noSent \subseteq noSent' /\ (x = "SENT" => j \in noSent')
    BY DEF EmailWorker, SmsWorker, PushWorker, InAppWorker, RealtimeWorker, SendChannel
  <1> QED
    BY <1>1, NpMove

\* complete, fail
LEMMA NpOutcome ==
    ASSUME NpInv, NEW j \in NoD, SaveOutcome(j), UNCHANGED <<noH, noSweep, noExpire>>
    PROVE  NpInv'
  <1>s. PICK s : s = [noJob[j].d EXCEPT !.status = noJob[j].pc]
    OBVIOUS
  <1>0. PICK q : q = [noJob[j] EXCEPT !.d = s, !.pc = "find"]
    OBVIOUS
  <1>r. PICK r : r = IF noJob[j].nt.status \in {"CREATED", "QUEUED"} THEN q ELSE JobDone
    OBVIOUS
  <1>1. /\ noJob[j].st = "active" /\ noJob[j].pc \in {"SENT", "FAILED"}
        /\ UNCHANGED <<noNotif, noSent, noRun, noBroken>>
        /\ noDel' = [noDel EXCEPT ![j] = s]
        /\ noJob' = [noJob EXCEPT ![j] = r]
    BY <1>s, <1>0, <1>r DEF SaveOutcome
  <1>2. /\ noJob[j] \in NpJobRecord /\ j[1] \in NoCreated /\ NpRun /\ NpNotes /\ NpJobOK(j)
    BY <1>1, NpBefore
  <1>3. s \in NpDelivery /\ s.status = noJob[j].pc
    BY <1>1, <1>2, <1>s DEF NpJobRecord, NpDelivery
  <1>4. s.status \notin Inflight /\ (s.status = "SENT" => j \in noSent')
    BY <1>1, <1>2, <1>3 DEF NpJobOK, Inflight
  <1>5. q \in NpJobRecord /\ q.st = "active" /\ q.pc = "find" /\ q.nt = noJob[j].nt /\ q.d = s
    BY <1>1, <1>2, <1>3, <1>0 DEF NpJobRecord
  <1>6. /\ r \in NpJobRecord /\ r.st /= "none"
        /\ r.st = "active" => r.pc = "find" /\ r.nt.status /= "SENT" /\ r.d.status \in {"SENT", "FAILED"}
    BY <1>1, <1>3, <1>5, <1>r, NpDone
  <1>7. NpRun' /\ NpNotes' /\ Len(noNotif') = Len(noNotif)
    BY <1>1, <1>2, NpFault, NpNotesStay
  <1> QED
    BY <1>1, <1>3, <1>4, <1>6, <1>7, NpWorkStep

\* transitionNotification: SENT only when every delivery it finds is.
LEMMA NpFind ==
    ASSUME NpInv, NEW j \in NoD, FindDeliveries(j), UNCHANGED <<noH, noSweep, noExpire>>
    PROVE  NpInv'
  <1>x. PICK rows : rows = {noDel[d].status : d \in Rows(j[1])}
    OBVIOUS
  <1>t. PICK t : t = TransitionStatus(rows, noJob[j].d.status)
    OBVIOUS
  <1>nt. PICK nt : nt = [noJob[j].nt EXCEPT !.status = t]
    OBVIOUS
  <1>q. PICK q : q = [noJob[j] EXCEPT !.pc = "save", !.nt = nt]
    OBVIOUS
  <1>r. PICK r : r = IF t = noJob[j].nt.status THEN JobDone ELSE q
    OBVIOUS
  <1>1. /\ noJob[j].st = "active" /\ noJob[j].pc = "find"
        /\ UNCHANGED <<noDel, noNotif, noSent, noRun, noBroken>>
        /\ noJob' = [noJob EXCEPT ![j] = IF t = noJob[j].nt.status THEN JobDone
                                         ELSE [noJob[j] EXCEPT !.pc = "save", !.nt.status = t]]
    BY <1>x, <1>t DEF FindDeliveries
  <1>2. /\ noJob[j] \in NpJobRecord /\ noDel[j] \in NpDelivery /\ noDel[j].status /= "none"
        /\ j[1] \in NoCreated /\ NpRun /\ NpNotes /\ NpJobOK(j) /\ NpSettled(j)
        /\ noDel' = [noDel EXCEPT ![j] = noDel[j]]
        /\ noDel[j].status = "SENT" => j \in noSent
    BY <1>1, NpBefore
  <1>3. t \in NpStatus
    <2>1. noJob[j].d.status \in {"SENT", "FAILED"}
      BY <1>1, <1>2 DEF NpJobOK
    <2> QED
      BY <2>1, <1>t DEF TransitionStatus, NpStatus
  <1>4. t = "SENT" => Rows(j[1]) \subseteq noSent
    <2> SUFFICES ASSUME t = "SENT", NEW d \in Rows(j[1]) PROVE d \in noSent
      OBVIOUS
    <2>1. d \in NoD /\ noDel[d].status /= "none" /\ noDel[d].status \in rows
      BY <1>x DEF Rows
    <2>2. noDel[d].status \in {"none", "PENDING", "PROCESSING", "SENT", "FAILED"}
      BY <2>1 DEF NpInv, NpState, NpTypes, NpDelivery
    <2>3. rows \cap Inflight = {} /\ "FAILED" \notin rows
      BY <1>t DEF TransitionStatus
    <2>4. noDel[d].status = "SENT"
      BY <2>1, <2>2, <2>3 DEF Inflight
    <2> QED
      BY <2>1, <2>4 DEF NpInv, NpState, NpSent
  <1>5. nt \in [status : NpStatus, read : BOOLEAN] /\ nt.status = t
    BY <1>2, <1>3, <1>nt DEF NpJobRecord
  <1>6. [noJob[j] EXCEPT !.pc = "save", !.nt.status = t] = q
    BY <1>2, <1>nt, <1>q DEF NpJobRecord
  <1>7. q \in NpJobRecord /\ q.st = "active" /\ q.pc = "save" /\ q.nt = nt
    BY <1>1, <1>2, <1>5, <1>q DEF NpJobRecord
  <1>8. noJob' = [noJob EXCEPT ![j] = r]
    BY <1>1, <1>6, <1>r
  <1>9. /\ r \in NpJobRecord /\ r.st /= "none"
        /\ r.st = "active" => r.pc = "save" /\ (r.nt.status = "SENT" => Rows(j[1]) \subseteq noSent')
    BY <1>1, <1>4, <1>5, <1>7, <1>r, NpDone
  <1>10. NpRun' /\ NpNotes' /\ Len(noNotif') = Len(noNotif)
    BY <1>1, <1>2, NpFault, NpNotesStay
  <1>11. /\ r.st = "active" /\ r.pc = "SENT" => j \in noSent'
         /\ r.st = "active" /\ r.pc = "find" => r.d.status \in {"SENT", "FAILED"}
         /\ r.st = "active" /\ r.nt.status = "SENT" => Rows(j[1]) \subseteq noSent'
    BY <1>9
  <1>12. /\ noSent \subseteq noSent' /\ noBroken \subseteq noBroken'
         /\ \A n \in NoCreated : noNotif'[n].status = "SENT" => noNotif[n].status = "SENT"
         /\ noDel[j].status = "SENT" => j \in noSent'
         /\ noJob[j].st /= "none" /\ ~(noJob[j].st = "active" /\ noJob[j].pc = "expire")
    BY <1>1, <1>2
  <1> QED
    BY <1>2, <1>8, <1>9, <1>10, <1>11, <1>12, NpWorkStep

\* The notification is saved over whatever was stored meanwhile.
LEMMA NpSaveNotification ==
    ASSUME NpInv, NEW j \in NoD, SaveNotification(j), UNCHANGED <<noH, noSweep, noExpire>>
    PROVE  NpInv'
  <1>n. PICK n : n = j[1]
    OBVIOUS
  <1>v. PICK s, b, e : s = noJob[j].nt.status /\ b = noJob[j].nt.read /\ e = noNotif[n].ev
    OBVIOUS
  <1>1. /\ noJob[j].st = "active"
        /\ UNCHANGED <<noDel, noSent, noRun, noBroken>>
        /\ noNotif' = [noNotif EXCEPT ![n] = [ev |-> e, status |-> s, read |-> b]]
        /\ noJob' = [noJob EXCEPT ![j] = JobDone]
    BY <1>n, <1>v DEF SaveNotification
  <1>p. noJob[j].pc = "save"
    BY DEF SaveNotification
  <1>2. /\ noJob[j] \in NpJobRecord /\ noDel[j] \in NpDelivery /\ noDel[j].status /= "none"
        /\ n \in NoCreated /\ NpRun /\ NpNotes /\ NpJobOK(j) /\ NpSettled(j)
        /\ noDel' = [noDel EXCEPT ![j] = noDel[j]]
        /\ noDel[j].status = "SENT" => j \in noSent
    BY <1>1, <1>p, <1>n, NpBefore
  <1>3. s \in NpStatus /\ b \in BOOLEAN
    BY <1>2, <1>v DEF NpJobRecord
  <1>5. /\ NpNotes' /\ Len(noNotif') = Len(noNotif) /\ noNotif'[n].status = s
        /\ \A i \in NoCreated \ {n} : noNotif'[i] = noNotif[i]
    BY <1>1, <1>2, <1>3, NpSave
  <1>6. s = "SENT" => Rows(n) \subseteq noSent'
    BY <1>1, <1>2, <1>n, <1>v DEF NpJobOK
  <1>7. \A i \in NoCreated : noNotif'[i].status = "SENT" =>
              noNotif[i].status = "SENT" \/ Rows(i) \subseteq noSent'
    BY <1>5, <1>6
  <1>8. NpRun'
    BY <1>1, <1>2, NpFault
  <1> QED
    BY <1>1, <1>p, <1>2, <1>5, <1>7, <1>8, NpDone, NpWorkStep

\* A call of complete or of fail fails.
LEMMA NpOutcomeFails ==
    ASSUME NpInv, NEW j \in NoD, OutcomeFails(j), UNCHANGED <<noH, noSweep, noExpire>>
    PROVE  NpInv'
  <1>1. /\ noJob[j].st = "active" /\ noJob[j].pc # "expire" /\ noJob[j].st # "none"
        /\ UNCHANGED <<noDel, noNotif, noSent>>
    BY DEF OutcomeFails
  <1>2. CASE JobLost(j)
    BY <1>1, <1>2, NpLost
  <1>3. CASE ~JobLost(j)
    <2>1. NoFault /\ JobPc(j, "FAILED") /\ UNCHANGED noBroken
      BY <1>3 DEF OutcomeFails
    <2> QED
      BY <1>1, <2>1, NpMove
  <1> QED
    BY <1>2, <1>3

LEMMA NpWork ==
    ASSUME NpInv, NEW j \in NoD, NoWork(j)
    PROVE  NpInv'
  BY NpProcess, NpBegin, NpSend, NpOutcome, NpFind, NpSaveNotification, NpOutcomeFails DEF NoWork

-----------------------------------------------------------------------------
(* The expiry *)

\* A step of expire: a delivery is only ever set to FAILED, and the job that is
\* waiting for it stays or ends with a delivery that is finished or lost.
LEMMA NpExpireStep ==
    ASSUME NpInv, NpRun', UNCHANGED <<noH, noSweep, noSent>>, noBroken \subseteq noBroken',
           NpNotes', Len(noNotif') = Len(noNotif),
           \A n \in NoCreated : noNotif'[n].status = "SENT" => noNotif[n].status = "SENT",
           noDel' \in [NoD -> NpDelivery],
           \A d \in NoD : \/ noDel'[d] = noDel[d]
                          \/ noDel'[d].status = "FAILED" /\ noDel[d].status # "none",
           NEW x \in NoExpirer, NEW e, noExpire' = [noExpire EXCEPT ![x] = e],
           NEW r \in NpJobRecord,
           \/ UNCHANGED noJob
           \/ /\ x # 0 /\ noJob[NpRt(x)].st = "active" /\ noJob' = [noJob EXCEPT ![NpRt(x)] = r]
              /\ \/ r.st = "active" /\ r.pc = "expire" /\ r.nt = noJob[NpRt(x)].nt
                 \/ r.st = "done" /\ (noDel'[NpRt(x)].status \notin Inflight \/ NpParked(NpRt(x))'),
           NpStep => NpExpireOK(x)'
    PROVE  NpInv'
  <1>1. /\ noExpire'[x] = e /\ \A y \in NoExpirer \ {x} : noExpire'[y] = noExpire[y]
        /\ noExpire' = [y \in NoExpirer |-> noExpire'[y]]
    BY DEF NpInv, NpState, NpExpirers
  <1>t. noJob \in [NoD -> NpJobRecord]
    BY DEF NpInv, NpState, NpTypes
  <1>2. ASSUME ~UNCHANGED noJob
        PROVE  /\ x # 0 /\ noJob[NpRt(x)].st = "active" /\ NpRt(x) \in NoD /\ NpRt(x)[1] = x
               /\ noJob'[NpRt(x)] = r /\ \A i \in NoD \ {NpRt(x)} : noJob'[i] = noJob[i]
               /\ \/ r.st = "active" /\ r.pc = "expire" /\ r.nt = noJob[NpRt(x)].nt
                  \/ r.st = "done" /\ (noDel'[NpRt(x)].status \notin Inflight \/ NpParked(NpRt(x))')
    BY <1>2, <1>t, NpRealtime
  <1>3. noJob' \in [NoD -> NpJobRecord]
    BY <1>t
  <1>4. ASSUME NEW d \in NoD PROVE NpKept(d)
    <2>1. NpParked(d) => NpParked(d)'
      BY NpParkedStays
    <2>2. noDel'[d].status \in Inflight => noDel[d].status \in Inflight
      BY DEF Inflight
    <2>3. CASE noJob'[d] = noJob[d]
      BY <2>1, <2>2, <2>3 DEF NpKept
    <2>4. CASE noJob'[d] /= noJob[d]
      <3>1. d = NpRt(x) /\ noJob'[d] = r
        BY <1>2, <2>4
      <3> QED
        BY <1>2, <2>1, <2>4, <3>1 DEF NpKept
    <2> QED
      BY <2>3, <2>4
  <1>5. \A d \in NoD : /\ noDel'[d].status = "none" <=> noDel[d].status = "none"
                       /\ noDel'[d].status = "SENT" => noDel[d].status = "SENT"
                       /\ noDel'[d].status = "PROCESSING" => noDel[d].status = "PROCESSING"
    OBVIOUS
  <1>6. ASSUME NEW j \in NoD
        PROVE  /\ noJob'[j].st = "none" <=> noJob[j].st = "none"
               /\ noJob'[j] = noJob[j] \/ (NpStep => NpJobOK(j)')
    <2>1. CASE noJob'[j] = noJob[j]
      BY <2>1
    <2>2. CASE noJob'[j] /= noJob[j]
      <3>1. j = NpRt(x) /\ noJob'[j] = r /\ j[1] = x /\ noJob[j].st = "active" /\ r.st \in {"active", "done"}
        BY <1>2, <2>2
      <3>2. noJob[j].nt.status = "SENT" => Rows(x) \subseteq noSent
        BY <3>1 DEF NpInv, NpState, NpJobOK
      <3>3. x \in NoCreated
        BY <3>1 DEF NpInv, NpState, NpExist, NpHas
      <3>4. NpStep => Rows(x)' = Rows(x)
        BY <3>3, NpRowsFixed
      <3>5. r.st = "active" => r.pc = "expire" /\ r.nt = noJob[j].nt
        BY <1>2, <2>2, <3>1
      <3> QED
        BY <3>1, <3>2, <3>4, <3>5 DEF NpJobOK
    <2> QED
      BY <2>1, <2>2
  <1>7. NpSweeps'
    BY <1>5 DEF NpInv, NpState, NpSweeps, NpHas
  <1>8. ASSUME NpStep PROVE NpExpirers'
    <2>1. ASSUME NEW y \in NoExpirer PROVE NpExpireOK(y)'
      <3>1. CASE y = x
        BY <1>8, <3>1
      <3>2. CASE y /= x
        <4>1. noExpire'[y] = noExpire[y]
          BY <1>1, <3>2
        <4>2. y # 0 => NpRt(y) \in NoD /\ NpRt(y) /= NpRt(x)
          BY <3>2, NpRealtime DEF NpRt
        <4>3. y # 0 => noJob'[NpRt(y)] = noJob[NpRt(y)]
          BY <4>2, <1>2
        <4> QED
          BY <4>1, <4>3, <1>4, <1>8, NpExpirerStays
      <3> QED
        BY <3>1, <3>2
    <2> QED
      BY <2>1, <1>1 DEF NpExpirers
  <1> QED
    BY <1>3, <1>4, <1>5, <1>6, <1>7, <1>8, NpRowStep

\* A notification changes its status to one that is not SENT, or its reader's mark.
LEMMA NpTouch ==
    ASSUME NpNotes, NEW n \in NoCreated, NEW s \in NpStatus, s = noNotif[n].status \/ s = "EXPIRED",
           NEW b \in BOOLEAN,
           noNotif' = [noNotif EXCEPT ![n] = [ev |-> noNotif[n].ev, status |-> s, read |-> b]]
    PROVE  /\ NpNotes' /\ Len(noNotif') = Len(noNotif)
           /\ \A i \in NoCreated : noNotif'[i].status = "SENT" => noNotif[i].status = "SENT"
  <1>1. PICK e : e = noNotif[n].ev
    OBVIOUS
  <1>2. /\ NpNotes' /\ Len(noNotif') = Len(noNotif) /\ noNotif'[n].status = s
        /\ \A i \in NoCreated \ {n} : noNotif'[i] = noNotif[i]
    BY <1>1, NpSave
  <1> QED
    BY <1>2

\* Where the expiry begins.
LEMMA NpFresh ==
    ASSUME NEW x \in NoExpirer, NEW n, NEW b, n \in NoCreated', b \in BOOLEAN,
           noExpire'[x] = [n |-> n, pc |-> "save", read |-> b, rows |-> <<>>],
           x # 0 => n = x /\ noJob'[NpRt(x)].st = "active" /\ noJob'[NpRt(x)].pc = "expire"
    PROVE  NpExpireOK(x)'
  <1>1. PICK e : e = [n |-> n, pc |-> "save", read |-> b, rows |-> <<>>]
    OBVIOUS
  <1>2. DOMAIN e = {"n", "pc", "read", "rows"} /\ e.n = n /\ e.pc = "save" /\ e.read = b /\ e.rows = <<>>
    BY <1>1
  <1>3. DOMAIN e.rows = {}
    BY <1>2
  <1>4. noExpire'[x] = e
    BY <1>1
  <1>5. NpRt(x)' = NpRt(x)
    BY DEF NpRt
  <1> QED
    BY <1>2, <1>3, <1>4, <1>5 DEF NpExpireOK

LEMMA NpIdle ==
    ASSUME NEW x \in NoExpirer, noExpire'[x] = ExpireIdle
    PROVE  NpExpireOK(x)'
  <1>1. PICK e : e = ExpireIdle
    OBVIOUS
  <1>2. DOMAIN e = {"n", "pc", "read", "rows"} /\ e.pc = "idle" /\ e.rows = <<>>
    BY <1>1 DEF ExpireIdle
  <1>3. DOMAIN e.rows = {}
    BY <1>2
  <1>4. noExpire'[x] = e
    BY <1>1
  <1> QED
    BY <1>2, <1>3, <1>4 DEF NpExpireOK

LEMMA NpSpent ==
    ASSUME NpRun, NEW f, f /= "prefs", noRun' = [noRun EXCEPT ![f] = noRun[f] - 1]
    PROVE  NpRun'
  <1>1. PICK x : x = noRun[f] - 1
    OBVIOUS
  <1> QED
    BY <1>1, NpRunKept

LEMMA NpExpireDue ==
    ASSUME NpInv, ExpireDue, UNCHANGED <<noH, noSent, noSweep, noDel>>
    PROVE  NpInv'
  <1>0. NpRun /\ NpNotes /\ noDel \in [NoD -> NpDelivery] /\ 0 \in NoExpirer
        /\ noExpire = [x \in NoExpirer |-> noExpire[x]]
    BY NoAssumption DEF NpInv, NpState, NpTypes, NpExpirers, NoExpirer
  <1>1. PICK n \in NoCreated :
           noExpire' = [noExpire EXCEPT ![0] = [n |-> n, pc |-> "save", read |-> noNotif[n].read, rows |-> <<>>]]
    BY DEF ExpireDue
  <1>e. PICK e : e = [n |-> n, pc |-> "save", read |-> noNotif[n].read, rows |-> <<>>]
    OBVIOUS
  <1>2. noRun' = [noRun EXCEPT !["expires"] = noRun["expires"] - 1] /\ UNCHANGED <<noNotif, noJob, noBroken>>
    BY DEF ExpireDue
  <1>3. noNotif[n].read \in BOOLEAN /\ n \in NoCreated'
    BY <1>0, <1>2, NpRow DEF NoCreated
  <1>4. noExpire' = [noExpire EXCEPT ![0] = e] /\ noExpire'[0] = e
    BY <1>0, <1>1, <1>e
  <1>5. NpExpireOK(0)'
    BY <1>0, <1>3, <1>4, <1>e, NpFresh
  <1>6. NpRun' /\ NpNotes' /\ Len(noNotif') = Len(noNotif)
    BY <1>0, <1>2, NpSpent, NpNotesStay
  <1>7. JobDone \in NpJobRecord
    BY NpDone
  <1> QED
    BY <1>0, <1>2, <1>4, <1>5, <1>6, <1>7, NpExpireStep

LEMMA NpRealtimeExpiry ==
    ASSUME NpInv, NEW n \in NoId, RealtimeExpiry(n), UNCHANGED <<noH, noSent, noSweep, noDel>>
    PROVE  NpInv'
  <1>j. PICK j : j = NpRt(n)
    OBVIOUS
  <1>0. n \in NoExpirer /\ n # 0 /\ j \in NoD /\ j[1] = n
    BY <1>j, NoAssumption DEF NoId, NoExpirer, NoD, NoChannel, NpRt
  <1>1. /\ noJob[j].st = "active" /\ noRun' = [noRun EXCEPT !["expires"] = noRun["expires"] - 1]
        /\ noExpire' = [noExpire EXCEPT ![n] = [n |-> n, pc |-> "save", read |-> noJob[j].nt.read, rows |-> <<>>]]
        /\ UNCHANGED <<noNotif, noBroken>>
    BY <1>j DEF RealtimeExpiry, NpRt
  <1>p. JobPc(j, "expire")
    BY <1>j DEF RealtimeExpiry, NpRt
  <1>2. /\ noJob[j] \in NpJobRecord /\ n \in NoCreated /\ NpRun /\ NpNotes
    BY <1>0, <1>1, NpBefore
  <1>b. PICK b : b = noJob[j].nt.read
    OBVIOUS
  <1>e. PICK e : e = [n |-> n, pc |-> "save", read |-> b, rows |-> <<>>]
    OBVIOUS
  <1>r. PICK r : r = [noJob[j] EXCEPT !.pc = "expire"]
    OBVIOUS
  <1>3. r \in NpJobRecord /\ r.st = "active" /\ r.pc = "expire" /\ r.nt = noJob[j].nt
    BY <1>1, <1>2, <1>r DEF NpJobRecord
  <1>4. b \in BOOLEAN
    BY <1>2, <1>b DEF NpJobRecord
  <1>5. noJob' = [noJob EXCEPT ![j] = r] /\ noJob'[j] = r
    <2>1. j \in DOMAIN noJob
      BY <1>0 DEF NpInv, NpState, NpTypes
    <2> QED
      BY <2>1, <1>p, <1>r DEF JobPc
  <1>6. noExpire' = [noExpire EXCEPT ![n] = e] /\ noExpire'[n] = e
    <2>1. n \in DOMAIN noExpire
      BY <1>0 DEF NpInv, NpState, NpExpirers
    <2> QED
      BY <2>1, <1>1, <1>b, <1>e
  <1>7. NpExpireOK(n)'
    <2>1. n \in NoCreated'
      BY <1>1, <1>2 DEF NoCreated
    <2> QED
      BY <2>1, <1>0, <1>3, <1>4, <1>5, <1>6, <1>e, <1>j, NpFresh
  <1>8. NpRun' /\ NpNotes' /\ Len(noNotif') = Len(noNotif)
    BY <1>1, <1>2, NpSpent, NpNotesStay
  <1>9. noDel' \in [NoD -> NpDelivery]
    BY DEF NpInv, NpState, NpTypes
  <1> QED
    BY <1>0, <1>1, <1>3, <1>5, <1>6, <1>7, <1>8, <1>9, <1>j, NpExpireStep

\* The notification is saved as it was read.
LEMMA NpExpireSave ==
    ASSUME NpInv, NEW x \in NoExpirer, ExpireSave(x), UNCHANGED <<noH, noSent, noSweep>>
    PROVE  NpInv'
  <1>0. NpRun /\ NpNotes /\ noDel \in [NoD -> NpDelivery] /\ NpExpireOK(x)
        /\ noExpire = [y \in NoExpirer |-> noExpire[y]]
    BY DEF NpInv, NpState, NpTypes, NpExpirers
  <1>w. PICK w : w = noExpire[x]
    OBVIOUS
  <1>n. PICK n : n = w.n
    OBVIOUS
  <1>1. /\ w.pc = "save" /\ UNCHANGED <<noDel, noJob, noRun, noBroken>>
        /\ noNotif' = [noNotif EXCEPT ![n] = [ev |-> noNotif[n].ev, status |-> "EXPIRED", read |-> w.read]]
        /\ noExpire' = [noExpire EXCEPT ![x].pc = "find"]
    BY <1>w, <1>n DEF ExpireSave
  <1>2. n \in NoCreated /\ w.read \in BOOLEAN /\ DOMAIN w = {"n", "pc", "read", "rows"}
    BY <1>0, <1>1, <1>w, <1>n DEF NpExpireOK
  <1>e. PICK e : e = [w EXCEPT !.pc = "find"]
    OBVIOUS
  <1>3. noExpire' = [noExpire EXCEPT ![x] = e] /\ noExpire'[x] = e
    BY <1>0, <1>1, <1>w, <1>e
  <1>4. DOMAIN e = {"n", "pc", "read", "rows"} /\ e.pc = "find" /\ e.n = n /\ e.read = w.read /\ e.rows = w.rows
    BY <1>2, <1>e, <1>n
  <1>5. /\ NpNotes' /\ Len(noNotif') = Len(noNotif)
        /\ \A i \in NoCreated : noNotif'[i].status = "SENT" => noNotif[i].status = "SENT"
    <2>1. PICK s : s = "EXPIRED"
      OBVIOUS
    <2>2. s \in NpStatus
      BY <2>1 DEF NpStatus
    <2> QED
      BY <1>0, <1>1, <1>2, <2>1, <2>2, NpTouch
  <1>6. NpExpireOK(x)'
    <2>1. NpRt(x)' = NpRt(x) /\ NoCreated' = NoCreated
      BY <1>5 DEF NpRt, NoCreated
    <2> QED
      BY <2>1, <1>0, <1>1, <1>2, <1>3, <1>4, <1>w, <1>n DEF NpExpireOK, NpHas
  <1>7. NpRun'
    BY <1>0, <1>1, NpFault
  <1>8. JobDone \in NpJobRecord
    BY NpDone
  <1> QED
    BY <1>0, <1>1, <1>3, <1>5, <1>6, <1>7, <1>8, NpExpireStep

\* Rows are left to save, or the expiry and the job that waits for it are over.
LEMMA NpEnds ==
    ASSUME NpInv, NEW x \in NoExpirer, noExpire[x].pc # "idle", NEW R, ExpireEnds(x, R),
           \A d \in DOMAIN R : NpHas(d) /\ R[d].attempts \in Nat,
           UNCHANGED <<noH, noSent, noSweep, noRun, noNotif, noBroken>>,
           noDel' \in [NoD -> NpDelivery],
           \A d \in NoD : \/ noDel'[d] = noDel[d]
                          \/ noDel'[d].status = "FAILED" /\ noDel[d].status # "none",
           x # 0 => \/ NpRt(x) \in DOMAIN R \/ noDel'[NpRt(x)].status \notin Inflight
                    \/ NpParked(NpRt(x))'
    PROVE  NpInv'
  <1>0. NpRun /\ NpNotes /\ NpExpireOK(x) /\ noExpire = [y \in NoExpirer |-> noExpire[y]]
    BY DEF NpInv, NpState, NpTypes, NpExpirers
  <1>1. NpRun' /\ NpNotes' /\ Len(noNotif') = Len(noNotif)
    BY <1>0, NpFault, NpNotesStay
  <1>2. x # 0 => noJob[NpRt(x)].st = "active" /\ noJob[NpRt(x)].pc = "expire"
    BY <1>0 DEF NpExpireOK
  <1>d. JobDone \in NpJobRecord /\ JobDone.st = "done"
    BY NpDone
  <1>3. CASE R = <<>>
    <2>1. DOMAIN R = {}
      BY <1>3
    <2>e. PICK e : e = ExpireIdle
      OBVIOUS
    <2>2. /\ noExpire' = [noExpire EXCEPT ![x] = e]
          /\ noJob' = IF x = 0 THEN noJob ELSE [noJob EXCEPT ![NpRt(x)] = JobDone]
      BY <1>3, <2>e DEF ExpireEnds, NpRt
    <2>3. noExpire'[x] = ExpireIdle
      BY <2>2, <2>e, <1>0
    <2>4. NpExpireOK(x)'
      BY <2>3, NpIdle
    <2> QED
      BY <1>0, <1>1, <1>2, <1>d, <2>1, <2>2, <2>4, NpExpireStep
  <1>4. CASE R /= <<>>
    <2>w. PICK w : w = noExpire[x]
      OBVIOUS
    <2>1. noExpire' = [noExpire EXCEPT ![x].pc = "rows", ![x].rows = R] /\ UNCHANGED noJob
      BY <1>4 DEF ExpireEnds
    <2>e. PICK e : e = [w EXCEPT !.pc = "rows", !.rows = R]
      OBVIOUS
    <2>2. noExpire' = [noExpire EXCEPT ![x] = e] /\ noExpire'[x] = e
      BY <2>1, <2>e, <2>w, <1>0
    <2>3. /\ DOMAIN w = {"n", "pc", "read", "rows"} /\ w.n \in NoCreated /\ w.read \in BOOLEAN
          /\ x # 0 => w.n = x
      BY <1>0, <2>w DEF NpExpireOK
    <2>4. DOMAIN e = {"n", "pc", "read", "rows"} /\ e.pc = "rows" /\ e.n = w.n /\ e.read = w.read /\ e.rows = R
      BY <2>3, <2>e
    <2>5. NpExpireOK(x)'
      <3>1. NpRt(x)' = NpRt(x) /\ NoCreated' = NoCreated
        BY <1>1 DEF NpRt, NoCreated
      <3>2. \A d \in DOMAIN R : NpHas(d)'
        BY DEF NpHas
      <3>3. x # 0 => NpRt(x) \in DOMAIN R \/ NpSettled(NpRt(x))'
        BY <3>1 DEF NpSettled
      <3> QED
        BY <3>1, <3>2, <3>3, <1>2, <2>1, <2>2, <2>3, <2>4 DEF NpExpireOK
    <2> QED
      BY <1>0, <1>1, <1>d, <2>1, <2>2, <2>5, NpExpireStep
  <1> QED
    BY <1>3, <1>4

LEMMA NpExpireFind ==
    ASSUME NpInv, NEW x \in NoExpirer, ExpireFind(x), UNCHANGED <<noH, noSent, noSweep>>
    PROVE  NpInv'
  <1>0. noDel \in [NoD -> NpDelivery] /\ NpExpireOK(x)
    BY DEF NpInv, NpState, NpTypes, NpExpirers
  <1>s. PICK S : S = {d \in Rows(noExpire[x].n) : noDel[d].status \in Inflight}
    OBVIOUS
  <1>r. PICK R : R = [d \in S |-> noDel[d]]
    OBVIOUS
  <1>1. noExpire[x].pc = "find" /\ ExpireEnds(x, R) /\ UNCHANGED <<noNotif, noDel, noRun, noBroken>>
    BY <1>s, <1>r DEF ExpireFind
  <1>2. DOMAIN R = S /\ \A d \in S : R[d] = noDel[d] /\ d \in NoD /\ noDel[d].status # "none"
    BY <1>s, <1>r DEF Rows
  <1>3. \A d \in DOMAIN R : NpHas(d) /\ R[d].attempts \in Nat
    BY <1>0, <1>2 DEF NpHas, NpDelivery
  <1>4. x # 0 => NpRt(x) \in DOMAIN R \/ noDel'[NpRt(x)].status \notin Inflight
    <2> SUFFICES ASSUME x # 0, noDel[NpRt(x)].status \in Inflight PROVE NpRt(x) \in S
      BY <1>1, <1>2
    <2>1. noExpire[x].n = x /\ NpRt(x) \in NoD /\ NpRt(x)[1] = x
      BY <1>0, <1>1, NpRealtime DEF NpExpireOK
    <2> QED
      BY <2>1, <1>s DEF Rows, Inflight
  <1> QED
    BY <1>0, <1>1, <1>3, <1>4, NpEnds

LEMMA NpExpireRow ==
    ASSUME NpInv, NEW x \in NoExpirer, ExpireRow(x), UNCHANGED <<noH, noSent, noSweep>>
    PROVE  NpInv'
  <1>0. noDel \in [NoD -> NpDelivery] /\ NpExpireOK(x)
    BY DEF NpInv, NpState, NpTypes, NpExpirers
  <1>w. PICK rows : rows = noExpire[x].rows
    OBVIOUS
  <1>1. PICK d \in DOMAIN rows :
           /\ noDel' = [noDel EXCEPT ![d] = [status |-> "FAILED", attempts |-> rows[d].attempts]]
           /\ ExpireEnds(x, [e \in DOMAIN rows \ {d} |-> rows[e]])
    BY <1>w DEF ExpireRow
  <1>r. PICK R : R = [e \in DOMAIN rows \ {d} |-> rows[e]]
    OBVIOUS
  <1>s. PICK s : s = [status |-> "FAILED", attempts |-> rows[d].attempts]
    OBVIOUS
  <1>2. noExpire[x].pc = "rows" /\ UNCHANGED <<noNotif, noRun, noBroken>>
    BY DEF ExpireRow
  <1>3. /\ \A e \in DOMAIN rows : NpHas(e) /\ rows[e].attempts \in Nat
        /\ x # 0 => NpRt(x) \in DOMAIN rows \/ NpSettled(NpRt(x))
    BY <1>0, <1>2, <1>w DEF NpExpireOK
  <1>4. s \in NpDelivery /\ s.status = "FAILED"
    BY <1>3, <1>s DEF NpDelivery
  <1>5. /\ noDel'[d] = s /\ \A e \in NoD \ {d} : noDel'[e] = noDel[e]
        /\ noDel' \in [NoD -> NpDelivery] /\ d \in NoD /\ noDel[d].status # "none"
    BY <1>0, <1>1, <1>3, <1>4, <1>s DEF NpHas
  <1>6. DOMAIN R = DOMAIN rows \ {d} /\ \A e \in DOMAIN R : R[e] = rows[e]
    BY <1>r
  <1>7. x # 0 => \/ NpRt(x) \in DOMAIN R \/ noDel'[NpRt(x)].status \notin Inflight
                 \/ NpParked(NpRt(x))'
    <2> SUFFICES ASSUME x # 0, NpRt(x) \notin DOMAIN R, noDel'[NpRt(x)].status \in Inflight
                 PROVE  NpParked(NpRt(x))'
      OBVIOUS
    <2>1. NpRt(x) \in NoD
      BY NpRealtime
    <2>2. NpRt(x) /= d
      BY <1>4, <1>5 DEF Inflight
    <2>3. noDel'[NpRt(x)] = noDel[NpRt(x)] /\ NpSettled(NpRt(x))
      BY <2>1, <2>2, <1>3, <1>5, <1>6
    <2>4. NpParked(NpRt(x))
      BY <2>3 DEF NpSettled
    <2>5. NpRt(x)' = NpRt(x)
      BY DEF NpRt
    <2> QED
      BY <2>1, <2>4, <1>2, NpParkedStays
  <1>8. \A e \in NoD : \/ noDel'[e] = noDel[e]
                       \/ noDel'[e].status = "FAILED" /\ noDel[e].status # "none"
    BY <1>4, <1>5
  <1>9. \A e \in DOMAIN R : NpHas(e) /\ R[e].attempts \in Nat
    BY <1>3, <1>6
  <1> QED
    BY <1>1, <1>2, <1>5, <1>7, <1>8, <1>9, <1>r, NpEnds

LEMMA NpExpireFails ==
    ASSUME NpInv, NEW x \in NoExpirer, ExpireFails(x), UNCHANGED <<noH, noSent, noSweep>>
    PROVE  NpInv'
  <1>0. NpRun /\ NpNotes /\ NpExpireOK(x) /\ noExpire = [y \in NoExpirer |-> noExpire[y]]
        /\ noDel \in [NoD -> NpDelivery]
    BY DEF NpInv, NpState, NpTypes, NpExpirers
  <1>e. PICK e : e = ExpireIdle
    OBVIOUS
  <1>1. /\ noExpire[x].pc # "idle" /\ NoFault /\ noExpire' = [noExpire EXCEPT ![x] = e]
        /\ UNCHANGED <<noNotif, noDel>> /\ noBroken \subseteq noBroken'
        /\ x = 0 => UNCHANGED noJob
        /\ x # 0 => NpRt(x) \in noBroken' /\ noJob' = [noJob EXCEPT ![NpRt(x)] = JobDone]
    BY <1>e DEF ExpireFails, NpRt
  <1>2. noExpire'[x] = ExpireIdle
    BY <1>0, <1>1, <1>e
  <1>3. NpExpireOK(x)'
    BY <1>2, NpIdle
  <1>4. x # 0 => noJob[NpRt(x)].st = "active" /\ NpParked(NpRt(x))'
    <2>1. NpRt(x)' = NpRt(x)
      BY DEF NpRt
    <2> QED
      BY <2>1, <1>0, <1>1 DEF NpExpireOK, NpParked
  <1>5. NpRun' /\ NpNotes' /\ Len(noNotif') = Len(noNotif)
    BY <1>0, <1>1, NpFault, NpNotesStay
  <1> QED
    BY <1>0, <1>1, <1>3, <1>4, <1>5, NpDone, NpExpireStep

LEMMA NpExpiry ==
    ASSUME NpInv, NoExpiry, UNCHANGED <<noH, noInbox, noSent, noSweep, noOut>>
    PROVE  NpInv'
  BY NpExpireDue, NpRealtimeExpiry, NpExpireSave, NpExpireFind, NpExpireRow, NpExpireFails DEF NoExpiry

-----------------------------------------------------------------------------
(* The sweep, the outbox and restarts *)

\* A step that changes no job: a delivery that starts to wait is parked.
LEMMA NpQuietStep ==
    ASSUME NpInv, NpRun', UNCHANGED <<noH, noJob, noSent, noExpire>>, noBroken \subseteq noBroken',
           NpNotes', Len(noNotif') = Len(noNotif),
           \A n \in NoCreated : noNotif'[n].status = "SENT" => noNotif[n].status = "SENT",
           noDel' \in [NoD -> NpDelivery],
           \A d \in NoD : \/ noDel'[d] = noDel[d]
                          \/ /\ noDel'[d].status = "PENDING" /\ noDel[d].status # "none"
                             /\ NpParked(d)',
           \A d \in NoD : NpParked(d) => NpParked(d)',
           NpSweeps'
    PROVE  NpInv'
  <1>1. noJob' \in [NoD -> NpJobRecord]
    BY DEF NpInv, NpState, NpTypes
  <1>2. \A d \in NoD : NpKept(d)
    BY DEF NpKept
  <1>3. \A d \in NoD : /\ noDel'[d].status = "none" <=> noDel[d].status = "none"
                       /\ noDel'[d].status = "SENT" => noDel[d].status = "SENT"
                       /\ noDel'[d].status = "PROCESSING" => noDel[d].status = "PROCESSING"
    OBVIOUS
  <1>4. NpStep => NpExpirers'
    BY <1>2, NpExpirersStay
  <1> QED
    BY <1>1, <1>2, <1>3, <1>4, NpRowStep

LEMMA NpSweepFind ==
    ASSUME NpInv, SweepFind, UNCHANGED <<noH, noNotif, noJob, noSent, noExpire>>
    PROVE  NpInv'
  <1>0. NpRun /\ NpNotes /\ NpSweeps /\ noDel \in [NoD -> NpDelivery]
    BY DEF NpInv, NpState, NpTypes
  <1>s. PICK S : S = {d \in NoD : noDel[d].status = "FAILED" /\ noDel[d].attempts < NoAttempts}
    OBVIOUS
  <1>r. PICK R : R = [d \in S |-> noDel[d]]
    OBVIOUS
  <1>1. noSweep.pc = "idle" /\ noSweep' = [SweepIdle EXCEPT !.pc = "save", !.rows = R]
        /\ UNCHANGED <<noDel, noRun, noBroken>>
    BY <1>s, <1>r DEF SweepFind
  <1>2. DOMAIN R = S /\ \A d \in S : NpHas(d) /\ R[d].attempts \in Nat
    BY <1>0, <1>s, <1>r DEF NpHas, NpDelivery
  <1>3. DOMAIN noSweep' = {"pc", "d", "rows"} /\ noSweep'.rows = R /\ noSweep'.pc = "save"
    BY <1>1 DEF SweepIdle
  <1>4. NpSweeps'
    BY <1>1, <1>2, <1>3 DEF NpSweeps, NpHas
  <1>5. \A d \in NoD : NpParked(d) => NpParked(d)'
    BY <1>1 DEF NpParked, NoAwaited
  <1>6. NpRun' /\ NpNotes' /\ Len(noNotif') = Len(noNotif)
    BY <1>0, <1>1, NpFault, NpNotesStay
  <1> QED
    BY <1>0, <1>1, <1>4, <1>5, <1>6, NpQuietStep

LEMMA NpSweepSave ==
    ASSUME NpInv, SweepSave, UNCHANGED <<noH, noNotif, noJob, noSent, noExpire>>
    PROVE  NpInv'
  <1>0. NpRun /\ NpNotes /\ NpSweeps /\ noDel \in [NoD -> NpDelivery]
    BY DEF NpInv, NpState, NpTypes
  <1>1. noSweep.pc = "save" /\ UNCHANGED noBroken
    BY DEF SweepSave
  <1>2. ASSUME NEW d \in DOMAIN noSweep.rows, UNCHANGED noRun,
               noDel' = [noDel EXCEPT ![d] = [status |-> "PENDING", attempts |-> noSweep.rows[d].attempts]],
               noSweep' = [noSweep EXCEPT !.pc = "add", !.d = d]
        PROVE  NpInv'
    <2>s. PICK s : s = [status |-> "PENDING", attempts |-> noSweep.rows[d].attempts]
      OBVIOUS
    <2>1. NpHas(d) /\ d \in NoD /\ s \in NpDelivery /\ s.status = "PENDING"
      BY <1>0, <2>s DEF NpSweeps, NpHas, NpDelivery
    <2>2. noDel'[d] = s /\ (\A e \in NoD \ {d} : noDel'[e] = noDel[e]) /\ noDel' \in [NoD -> NpDelivery]
      BY <1>0, <1>2, <2>1, <2>s
    <2>3. DOMAIN noSweep' = {"pc", "d", "rows"} /\ noSweep'.rows = noSweep.rows /\ noSweep'.pc = "add"
          /\ noSweep'.d = d
      BY <1>0, <1>2 DEF NpSweeps
    <2>4. NpParked(d)'
      BY <2>3 DEF NpParked, NoAwaited
    <2>5. \A e \in NoD : NpParked(e) => NpParked(e)'
      BY <1>1 DEF NpParked, NoAwaited
    <2>6. \A e \in NoD : NpHas(e) => NpHas(e)'
      BY <2>1, <2>2 DEF NpHas
    <2>7. NpSweeps'
      BY <1>0, <2>3, <2>6 DEF NpSweeps, NpHas
    <2>8. NpRun' /\ NpNotes' /\ Len(noNotif') = Len(noNotif)
      BY <1>0, <1>2, NpFault, NpNotesStay
    <2>9. \A e \in NoD : \/ noDel'[e] = noDel[e]
                         \/ noDel'[e].status = "PENDING" /\ noDel[e].status # "none" /\ NpParked(e)'
      BY <2>1, <2>2, <2>4 DEF NpHas
    <2> QED
      BY <1>1, <2>2, <2>5, <2>7, <2>8, <2>9, NpQuietStep
  <1>3. CASE NoFault /\ noSweep' = SweepIdle /\ UNCHANGED noDel
    <2>1. DOMAIN noSweep' = {"pc", "d", "rows"} /\ noSweep'.rows = <<>> /\ noSweep'.pc = "idle"
      BY <1>3 DEF SweepIdle
    <2>2. NpSweeps'
      BY <2>1 DEF NpSweeps
    <2>3. \A e \in NoD : NpParked(e) => NpParked(e)'
      BY <1>1 DEF NpParked, NoAwaited
    <2>4. NpRun' /\ NpNotes' /\ Len(noNotif') = Len(noNotif)
      BY <1>0, <1>3, NpFault, NpNotesStay
    <2> QED
      BY <1>0, <1>1, <1>3, <2>2, <2>3, <2>4, NpQuietStep
  <1> QED
    BY <1>2, <1>3 DEF SweepSave

\* The queue refuses the job of the delivery, and the sweep goes on without it.
LEMMA NpSweepAdd ==
    ASSUME NpInv, SweepAdd, UNCHANGED <<noH, noNotif, noJob, noSent, noExpire>>
    PROVE  NpInv'
  <1>0. NpRun /\ NpNotes /\ NpSweeps /\ noDel \in [NoD -> NpDelivery]
    BY DEF NpInv, NpState, NpTypes
  <1>l. PICK left : left = DOMAIN noSweep.rows \ {noSweep.d}
    OBVIOUS
  <1>r. PICK R : R = [d \in left |-> noSweep.rows[d]]
    OBVIOUS
  <1>1. /\ noSweep.pc = "add" /\ UNCHANGED <<noDel, noRun>>
        /\ noBroken' = noBroken \cup {noSweep.d}
        /\ noSweep' = IF left = {} THEN SweepIdle ELSE [SweepIdle EXCEPT !.pc = "save", !.rows = R]
    BY <1>l, <1>r DEF SweepAdd, NoRequeue
  <1>2. DOMAIN R = left /\ \A d \in left : NpHas(d) /\ R[d].attempts \in Nat
    BY <1>0, <1>l, <1>r DEF NpSweeps
  <1>3. DOMAIN noSweep' = {"pc", "d", "rows"} /\ (noSweep'.rows = R \/ noSweep'.rows = <<>>)
    BY <1>1 DEF SweepIdle
  <1>4. NpSweeps'
    <2>1. \A d \in DOMAIN noSweep'.rows : NpHas(d) /\ noSweep'.rows[d].attempts \in Nat
      BY <1>2, <1>3
    <2> QED
      BY <2>1, <1>1, <1>3 DEF NpSweeps, NpHas
  <1>5. \A d \in NoD : NpParked(d) => NpParked(d)'
    BY <1>1 DEF NpParked, NoAwaited
  <1>6. NpRun' /\ NpNotes' /\ Len(noNotif') = Len(noNotif)
    BY <1>0, <1>1, NpFault, NpNotesStay
  <1> QED
    BY <1>0, <1>1, <1>4, <1>5, <1>6, NpQuietStep

\* The outbox worker and steps that change nothing here.
LEMMA NpOutside ==
    ASSUME NpInv, NoFault \/ UNCHANGED noRun,
           UNCHANGED <<noH, noNotif, noDel, noJob, noSent, noSweep, noExpire, noBroken>>
    PROVE  NpInv'
  <1>0. NpRun /\ NpNotes /\ NpSweeps /\ NpTypes
    BY DEF NpInv, NpState, NpTypes
  <1>1. NpRun' /\ NpNotes' /\ Len(noNotif') = Len(noNotif)
    BY <1>0, NpFault, NpNotesStay
  <1>2. NpSweeps'
    BY <1>0 DEF NpSweeps, NpHas
  <1>3. \A d \in NoD : NpParked(d) => NpParked(d)'
    BY DEF NpParked, NoAwaited
  <1> QED
    BY <1>0, <1>1, <1>2, <1>3, NpQuietStep DEF NpTypes

LEMMA NpMarkAsRead ==
    ASSUME NpInv, NEW n \in NoCreated, MarkAsRead(n),
           UNCHANGED <<noH, noDel, noJob, noSent, noSweep, noExpire, noBroken>>
    PROVE  NpInv'
  <1>0. NpRun /\ NpNotes /\ NpSweeps /\ NpTypes
    BY DEF NpInv, NpState, NpTypes
  <1>1. noRun' = [noRun EXCEPT !["reads"] = noRun["reads"] - 1] /\ noNotif' = [noNotif EXCEPT ![n].read = TRUE]
    BY DEF MarkAsRead
  <1>2. NpRun'
    BY <1>0, <1>1, NpSpent
  <1>r. PICK r : r = noNotif[n]
    OBVIOUS
  <1>3. r = [ev |-> r.ev, status |-> r.status, read |-> r.read] /\ r.status \in NpStatus
    BY <1>r, <1>0, NpRow
  <1>4. PICK q : q = [r EXCEPT !.read = TRUE]
    OBVIOUS
  <1>5. q = [ev |-> r.ev, status |-> r.status, read |-> TRUE]
    BY <1>3, <1>4
  <1>6. noNotif' = [noNotif EXCEPT ![n] = q]
    BY <1>1, <1>r, <1>4
  <1>7. /\ NpNotes' /\ Len(noNotif') = Len(noNotif)
        /\ \A i \in NoCreated : noNotif'[i].status = "SENT" => noNotif[i].status = "SENT"
    BY <1>0, <1>3, <1>5, <1>6, <1>r, NpTouch
  <1>8. NpSweeps'
    BY <1>0 DEF NpSweeps, NpHas
  <1>9. \A d \in NoD : NpParked(d) => NpParked(d)'
    BY DEF NpParked, NoAwaited
  <1> QED
    BY <1>0, <1>2, <1>7, <1>8, <1>9, NpQuietStep DEF NpTypes

\* A restart forgets what the consumers and the sweep were about to add, and jobs
\* start again.
LEMMA NpRestart ==
    ASSUME NpInv, NoRestart
    PROVE  NpInv'
  <1>0. NpRun /\ NpNotes /\ NpSweeps /\ NpTypes
    BY DEF NpInv, NpState, NpTypes
  <1>w. PICK w : w = [NoJobIdle EXCEPT !.st = "waiting"]
    OBVIOUS
  <1>1. /\ noRun' = [noRun EXCEPT !["restarts"] = noRun["restarts"] - 1]
        /\ noH' = [c \in NoConsumer |-> HIdle]
        /\ noJob' = [j \in NoD |-> IF noJob[j].st = "active" THEN w ELSE noJob[j]]
        /\ noSweep' = SweepIdle
        /\ noExpire' = [x \in NoExpirer |-> ExpireIdle]
        /\ noBroken' = noBroken \cup {d \in NoD : NoAwaited(d)}
        /\ UNCHANGED <<noNotif, noDel, noSent>>
    BY <1>w DEF NoRestart
  <1>2. NpRun'
    BY <1>0, <1>1, NpSpent
  <1>3. w \in NpJobRecord /\ w.st = "waiting"
    BY <1>w DEF NoJobIdle, NoCopy, NoRow, NpJobRecord, NpDelivery, NpStatus
  <1>4. /\ noJob' \in [NoD -> NpJobRecord]
        /\ \A j \in NoD : /\ noJob[j].st = "active" => noJob'[j].st = "waiting"
                          /\ noJob[j].st /= "active" => noJob'[j] = noJob[j]
    BY <1>0, <1>1, <1>3 DEF NpTypes
  <1>5. NpStep
    BY <1>1 DEF NpStep, NoCreated
  <1>6. NpNotes' /\ NpTypes' /\ NpExist' /\ NpSent'
    <2>1. NpTypes'
      BY <1>0, <1>1, <1>2, <1>4 DEF NpTypes
    <2>2. NpExist'
      <3>1. \A j \in NoD : noJob'[j].st /= "none" <=> noJob[j].st /= "none"
        BY <1>4
      <3> QED
        BY <3>1, <1>1 DEF NpInv, NpState, NpExist, NpHas, NoCreated
    <2> QED
      BY <2>1, <2>2, <1>1 DEF NpInv, NpState, NpNotes, NpSent
  <1>7. \A j \in NoD : NpJobOK(j)'
    <2> SUFFICES ASSUME NEW j \in NoD PROVE NpJobOK(j)'
      OBVIOUS
    <2>1. CASE noJob[j].st = "active"
      BY <2>1, <1>4 DEF NpJobOK
    <2>2. CASE noJob[j].st /= "active"
      BY <2>2, <1>4, <1>5, NpJobStays
    <2> QED
      BY <2>1, <2>2
  <1>8. NoSentIsReal'
    BY <1>1, <1>5, NpSentIsRealStays
  <1>9. NpHandlers'
    <2>1. DOMAIN HIdle = {"pc", "ev", "n", "todo"} /\ HIdle.todo = {}
      BY DEF HIdle
    <2>2. \A c \in NoConsumer : noH'[c] = HIdle
      BY <1>1
    <2>3. \A c \in NoConsumer : NpHandlerOK(noH[c])'
      BY <2>1, <2>2 DEF NpHandlerOK
    <2>4. noH' = [c \in NoConsumer |-> noH'[c]]
      BY <1>1
    <2>5. \A c \in NoConsumer : noH'[c].todo = {}
      BY <2>1, <2>2
    <2> QED
      BY <2>3, <2>4, <2>5 DEF NpHandlers
  <1>10. NpSweeps'
    <2>1. DOMAIN noSweep' = {"pc", "d", "rows"} /\ noSweep'.rows = <<>>
      BY <1>1 DEF SweepIdle
    <2> QED
      BY <2>1 DEF NpSweeps
  <1>11. NpExpirers'
    <2>1. \A x \in NoExpirer : noExpire'[x] = ExpireIdle
      BY <1>1
    <2>2. \A x \in NoExpirer : NpExpireOK(x)'
      BY <2>1, NpIdle
    <2>3. noExpire' = [x \in NoExpirer |-> noExpire'[x]]
      BY <1>1
    <2> QED
      BY <2>2, <2>3 DEF NpExpirers
  <1>12. ASSUME NEW d \in NoD PROVE NpKept(d)
    <2>1. NpParked(d) => NpParked(d)'
      BY <1>1 DEF NpParked
    <2>2. noJob'[d] /= noJob[d] => noJob'[d].st = "waiting"
      BY <1>4
    <2> QED
      BY <2>1, <2>2, <1>1 DEF NpKept
  <1>13. NoUnfinishedHasJob' /\ NpOver'
    BY <1>12, NpKeeps
  <1> QED
    BY <1>6, <1>7, <1>8, <1>9, <1>10, <1>11, <1>13 DEF NpInv, NpState

-----------------------------------------------------------------------------
LEMMA NpInvInit == NoInit => NpInv
  <1> SUFFICES ASSUME NoInit PROVE NpInv
    OBVIOUS
  <1>1. NpTypes
    <2>1. NoRow \in NpDelivery /\ NoJobIdle \in NpJobRecord
      BY DEF NoRow, NpDelivery, NoJobIdle, NpJobRecord, NoCopy, NpStatus
    <2> QED
      BY <2>1, NoAssumption DEF NoInit, NpTypes, NpRun, NoChannel
  <1>2. /\ \A d \in NoD : noDel[d].status = "none"
        /\ \A j \in NoD : noJob[j].st = "none"
    BY DEF NoInit, NoRow, NoJobIdle
  <1>3. NpExist /\ NpSent /\ NoUnfinishedHasJob /\ NpOver /\ \A j \in NoD : NpJobOK(j)
    BY <1>2 DEF NpExist, NpSent, NoUnfinishedHasJob, NpOver, NpJobOK, Inflight
  <1>4. NpHandlers
    <2>1. DOMAIN HIdle = {"pc", "ev", "n", "todo"} /\ HIdle.todo = {}
      BY DEF HIdle
    <2>2. \A c \in NoConsumer : noH[c] = HIdle
      BY DEF NoInit
    <2>3. \A c \in NoConsumer : NpHandlerOK(noH[c])
      BY <2>1, <2>2 DEF NpHandlerOK
    <2>4. noH = [c \in NoConsumer |-> noH[c]]
      BY DEF NoInit
    <2>5. \A c \in NoConsumer : noH[c].todo = {}
      BY <2>1, <2>2
    <2> QED
      BY <2>3, <2>4, <2>5 DEF NpHandlers
  <1>5. NpSweeps
    <2>1. DOMAIN noSweep = {"pc", "d", "rows"} /\ noSweep.rows = <<>>
      BY DEF NoInit, SweepIdle
    <2> QED
      BY <2>1 DEF NpSweeps
  <1>6. NpExpirers
    <2>1. PICK e : e = ExpireIdle
      OBVIOUS
    <2>2. DOMAIN e = {"n", "pc", "read", "rows"} /\ e.pc = "idle" /\ e.rows = <<>>
      BY <2>1 DEF ExpireIdle
    <2>3. DOMAIN e.rows = {}
      BY <2>2
    <2>4. \A x \in NoExpirer : noExpire[x] = e
      BY <2>1 DEF NoInit
    <2>5. \A x \in NoExpirer : NpExpireOK(x)
      BY <2>2, <2>3, <2>4 DEF NpExpireOK
    <2>6. noExpire = [x \in NoExpirer |-> noExpire[x]]
      BY DEF NoInit
    <2> QED
      BY <2>5, <2>6 DEF NpExpirers
  <1>7. NpNotes /\ NoCreated = {}
    <2>1. noNotif = <<>> /\ Len(noNotif) = 0
      BY DEF NoInit
    <2>2. noNotif \in Seq([ev : {}, status : NpStatus, read : BOOLEAN])
      BY <2>1
    <2> QED
      BY <2>1, <2>2 DEF NpNotes, NoCreated
  <1> QED
    BY <1>1, <1>3, <1>4, <1>5, <1>6, <1>7 DEF NpInv, NpState, NoSentIsReal

LEMMA NpInvStep == NpInv /\ [NoNext]_noVars => NpInv'
  <1> SUFFICES ASSUME NpInv, [NoNext]_noVars PROVE NpInv'
    OBVIOUS
  <1>1. ASSUME NEW c \in NoConsumer, NoConsume(c) PROVE NpInv'
    BY <1>1, NpDispatch, NpCreate, NpQuietConsume DEF NoConsume
  <1>2. ASSUME NEW j \in NoD, NoWork(j) PROVE NpInv'
    BY <1>2, NpWork
  <1>3. CASE NoExpiry /\ UNCHANGED <<noH, noInbox, noSent, noSweep, noOut>>
    BY <1>3, NpExpiry
  <1>4. CASE (SweepFind \/ SweepSave \/ SweepAdd)
             /\ UNCHANGED <<noH, noInbox, noNotif, noJob, noSent, noExpire, noOut>>
    BY <1>4, NpSweepFind, NpSweepSave, NpSweepAdd
  <1>5. ASSUME NEW n \in NoId, ProcessOutbox(n),
               UNCHANGED <<noH, noInbox, noNotif, noDel, noJob, noSent, noSweep, noExpire, noBroken>>
        PROVE  NpInv'
    BY <1>5, NpOutside DEF ProcessOutbox
  <1>6. ASSUME NEW n \in NoCreated, MarkAsRead(n),
               UNCHANGED <<noH, noInbox, noDel, noJob, noSent, noSweep, noExpire, noOut, noBroken>>
        PROVE  NpInv'
    BY <1>6, NpMarkAsRead
  <1>7. CASE NoRestart
    BY <1>7, NpRestart
  <1>8. CASE UNCHANGED noVars
    BY <1>8, NpOutside DEF noVars
  <1> QED
    BY <1>1, <1>2, <1>3, <1>4, <1>5, <1>6, <1>7, <1>8 DEF NoNext

LEMMA NpInvImplies == NpInv => NoTypeOK /\ NoSentIsReal /\ NoUnfinishedHasJob
  <1> SUFFICES ASSUME NpInv PROVE NoTypeOK /\ NoSentIsReal /\ NoUnfinishedHasJob
    OBVIOUS
  <1>1. NoTypeOK
    <2>1. \A n \in NoCreated : noNotif[n].status \in NpStatus
      BY NpRow DEF NpInv
    <2>2. \A d \in NoD : noDel[d] \in NpDelivery
      BY DEF NpInv, NpState, NpTypes
    <2>3. \A j \in NoD : noJob[j] \in NpJobRecord
      BY DEF NpInv, NpState, NpTypes
    <2> QED
      BY <2>1, <2>2, <2>3 DEF NoTypeOK, NpStatus, NpDelivery, NpJobRecord
  <1> QED
    BY <1>1 DEF NpInv, NpState

\* However the workers' stale copies, the expiry, the sweep, restarts and failing
\* calls interleave, a notification that says SENT has gone out on every channel,
\* and a delivery that is not finished has a job, or somebody who is about to give
\* it one, unless a failing call, a restart or the refusal of its retry job has
\* left it behind.
THEOREM NotificationSafe == NoSpec => [](NoTypeOK /\ NoSentIsReal /\ NoUnfinishedHasJob)
  BY NpInvInit, NpInvStep, NpInvImplies, PTL DEF NoSpec

-----------------------------------------------------------------------------
(***************************************************************************)
(* Proofs about GoPackages, for any number of sequences, callers and       *)
(* goroutines, any limit and window.                                       *)
(*                                                                         *)
(* ids: what was issued last is the generator's own state, and its         *)
(* timestamp is not ahead of a clock that was never stepped back.          *)
(* limit: an allowed request stays in the sorted set, whose key does not   *)
(* expire first, until it leaves the window, and so every later call       *)
(* counts it.  The other two parts are nearly inductive as they stand.     *)
(***************************************************************************)

(* snowflake *)

\* Division with remainder has one answer.
LEMMA GgDivision ==
    ASSUME NEW a \in Nat, NEW b \in Nat \ {0}, NEW r \in Nat, r < b
    PROVE  (a * b + r) \div b = a /\ (a * b + r) % b = r
  OBVIOUS

\* What NextID makes an id of.
GgFlakes == [timestamp : Nat, sequence : 0..(GpSequences - 1), room : GpRooms]

\* The parts of an id have room for the sequence.
GgFits(f) == f.sequence < f.room

\* The worker and the sequence stay below the timestamp.
LEMMA GgLow ==
    ASSUME NEW f \in GgFlakes, GgFits(f)
    PROVE  /\ GpLow(f) = GpWorker * f.room + f.sequence
           /\ GpLow(f) \in Nat /\ GpLow(f) < GpWorkers * GpSequences
  <1>s. PICK S, W, w, m, q : S = GpSequences /\ W = GpWorkers /\ w = GpWorker /\ m = f.room /\ q = f.sequence
    OBVIOUS
  <1>1. /\ S \in Nat /\ W \in Nat /\ w \in Nat /\ w < W /\ m \in Nat /\ m <= S /\ q \in Nat /\ q < m
    BY <1>s, GpAssumption DEF GgFlakes, GgFits
  <1>2. w * m \in Nat /\ (w + 1) * m = w * m + m
    BY <1>1
  <1>3. (w + 1) * m <= W * m
    BY <1>1
  <1>4. W * m <= W * S
    BY <1>1
  <1>5. W * m \in Nat /\ W * S \in Nat
    BY <1>1
  <1>6. w * m + q \in Nat /\ w * m + q < W * S
    BY <1>1, <1>2, <1>3, <1>4, <1>5
  <1>7. GpLow(f) = w * m + q
    BY <1>1, <1>s DEF GpLow
  <1> QED
    BY <1>6, <1>7, <1>s

\* With room for all sequences the fields of an id do not overlap.
LEMMA GgParse ==
    ASSUME NEW f \in GgFlakes, f.room = GpSequences
    PROVE  Parse(GpId(f)) = [timestamp |-> f.timestamp, worker |-> GpWorker, sequence |-> f.sequence]
  <1>s. PICK S, W, w, t, s : S = GpSequences /\ W = GpWorkers /\ w = GpWorker /\ t = f.timestamp /\ s = f.sequence
    OBVIOUS
  <1>1. /\ S \in Nat /\ S > 0 /\ W \in Nat /\ W > 0 /\ w \in Nat /\ w < W
        /\ t \in Nat /\ s \in Nat /\ s < S
    BY <1>s, GpAssumption DEF GgFlakes
  <1>b. PICK b, r : b = W * S /\ r = w * S + s
    OBVIOUS
  <1>2. /\ GgFits(f) /\ GpLow(f) = r /\ r \in Nat /\ r < b /\ b \in Nat
    <2>1. GgFits(f)
      BY <1>1, <1>s DEF GgFits
    <2>2. GpLow(f) = w * S + s /\ GpLow(f) \in Nat /\ GpLow(f) < W * S
      BY <2>1, <1>s, GgLow
    <2>3. W * S \in Nat
      BY <1>1
    <2> QED
      BY <2>1, <2>2, <2>3, <1>b
  <1>3. b # 0
    BY <1>2
  <1>i. PICK i : i = t * b + r
    OBVIOUS
  <1>4. GpId(f) = i
    BY <1>i, <1>2, <1>b, <1>s DEF GpId
  <1>5. i \div b = t
    BY <1>1, <1>2, <1>3, <1>i, GgDivision
  <1>a. PICK a : a = t * W + w
    OBVIOUS
  <1>6. a \in Nat
    BY <1>1, <1>a
  <1>7. i = a * S + s
    <2>1. t * (W * S) = (t * W) * S
      BY <1>1
    <2>2. (t * W) * S + w * S = (t * W + w) * S
      BY <1>1
    <2> QED
      BY <2>1, <2>2, <1>a, <1>b, <1>i, <1>1
  <1>8. i \div S = a /\ i % S = s
    BY <1>1, <1>6, <1>7, GgDivision
  <1>9. a \div W = t /\ a % W = w
    BY <1>1, <1>a, GgDivision
  <1>10. S * W = b
    BY <1>1, <1>b
  <1> QED
    BY <1>4, <1>5, <1>8, <1>9, <1>10, <1>s DEF Parse

\* A later millisecond, or a later sequence of the same one.
GgLater(f, g) == g.timestamp > f.timestamp \/ (g.timestamp = f.timestamp /\ g.sequence > f.sequence)

\* It gives a larger id, where both have room.
LEMMA GgLarger ==
    ASSUME NEW f \in GgFlakes, NEW g \in GgFlakes, f.room = g.room, GgFits(f), GgFits(g), GgLater(f, g)
    PROVE  GpId(f) < GpId(g)
  <1>x. PICK x, y, b, t, u : /\ x = GpLow(f) /\ y = GpLow(g) /\ b = GpWorkers * GpSequences
                             /\ t = f.timestamp /\ u = g.timestamp
    OBVIOUS
  <1>1. x \in Nat /\ x < b /\ y \in Nat /\ t \in Nat /\ u \in Nat
    BY <1>x, GgLow DEF GgFlakes
  <1>2. b \in Nat
    BY <1>x, GpAssumption
  <1>3. GpId(f) = t * b + x /\ GpId(g) = u * b + y
    BY <1>x DEF GpId
  <1>4. t * b \in Nat /\ u * b \in Nat
    BY <1>1, <1>2
  <1>5. CASE u > t
    <2>1. (t + 1) * b <= u * b
      BY <1>5, <1>1, <1>2
    <2>2. (t + 1) * b = t * b + b
      BY <1>1, <1>2
    <2> QED
      BY <2>1, <2>2, <1>1, <1>2, <1>3, <1>4
  <1>6. CASE u = t /\ g.sequence > f.sequence
    <2>1. PICK z, p, q : z = GpWorker * f.room /\ p = f.sequence /\ q = g.sequence
      OBVIOUS
    <2>2. x = z + p /\ y = z + q
      BY <1>x, <2>1, GgLow
    <2>3. p \in Nat /\ q \in Nat /\ p < q
      BY <2>1, <1>6, GpAssumption DEF GgFlakes
    <2>w. PICK w, m : w = GpWorker /\ m = f.room
      OBVIOUS
    <2>5. w \in Nat /\ m \in Nat
      BY <2>w, GpAssumption DEF GgFlakes
    <2>6. z = w * m
      BY <2>1, <2>w
    <2>4. z \in Nat
      BY <2>5, <2>6
    <2> QED
      BY <2>2, <2>3, <2>4, <1>3, <1>4, <1>6
  <1> QED
    BY <1>5, <1>6, <1>x DEF GgLater

\* The generator: what was issued last is its own state, each state is later than those before
\* it, and its timestamp is not ahead of a clock that was never stepped back.
GgIds ==
    /\ gpClock \in [now : Nat, back : BOOLEAN]
    /\ gpFlake \in GgFlakes
    /\ gpIssued \in Seq(GgFlakes)
    /\ \A i \in DOMAIN gpIssued : gpIssued[i].room = gpFlake.room
    /\ gpIssued /= <<>> => gpIssued[Len(gpIssued)] = gpFlake
    /\ ~gpClock.back => /\ gpFlake.timestamp <= gpClock.now
                        /\ \A i, j \in DOMAIN gpIssued : i < j => GgLater(gpIssued[i], gpIssued[j])

LEMMA GgNextID ==
    ASSUME GgIds, NextID
    PROVE  GgIds'
  <1>f. PICK f : f = GpNext1
    OBVIOUS
  <1>o. PICK o, t, s, n, m : o = gpFlake /\ t = gpFlake.timestamp /\ s = gpFlake.sequence /\ n = gpClock.now /\ m = gpFlake.room
    OBVIOUS
  <1>1. o \in GgFlakes /\ t \in Nat /\ s \in 0..(GpSequences - 1) /\ n \in Nat /\ m \in GpRooms
    BY <1>o DEF GgIds, GgFlakes
  <1>2. /\ f \in GgFlakes /\ f.room = m
        /\ ~gpClock.back => GgLater(o, f)
    <2>1. ~gpClock.back => t <= n
      BY <1>o DEF GgIds
    <2>2. \A q : GpMoment(n, q) = [timestamp |-> n, sequence |-> q, room |-> m]
      BY <1>o DEF GpMoment
    <2>z. PICK z : z = 0
      OBVIOUS
    <2>3. z \in 0..(GpSequences - 1)
      BY <2>z, GpAssumption
    <2>4. CASE n # t
      <3>1. f = [timestamp |-> n, sequence |-> z, room |-> m]
        BY <2>4, <2>z, <1>o, <1>f DEF GpNext1, GpMoment
      <3> QED
        BY <3>1, <2>1, <2>3, <2>4, <1>1, <1>o DEF GgFlakes, GgLater
    <2>5. CASE n = t /\ s + 1 < GpSequences
      <3>p. PICK p : p = s + 1
        OBVIOUS
      <3>1. f = [timestamp |-> n, sequence |-> p, room |-> m]
        BY <2>5, <3>p, <1>o, <1>f DEF GpNext1, GpMoment
      <3>2. p \in 0..(GpSequences - 1) /\ p > s
        BY <2>5, <3>p, <1>1, GpAssumption
      <3> QED
        BY <3>1, <3>2, <2>5, <1>1, <1>o DEF GgFlakes, GgLater
    <2>6. CASE n = t /\ ~(s + 1 < GpSequences)
      <3>p. PICK p : p = n + 1
        OBVIOUS
      <3>1. f = [timestamp |-> p, sequence |-> z, room |-> m]
        BY <2>6, <3>p, <2>z, <1>o, <1>f DEF GpNext1, GpMoment
      <3>2. p \in Nat /\ p > t
        BY <2>6, <3>p, <1>1
      <3> QED
        BY <3>1, <3>2, <2>3, <1>1, <1>o DEF GgFlakes, GgLater
    <2> QED
      BY <2>4, <2>5, <2>6
  <1>3. /\ gpFlake' = f /\ gpClock' = [gpClock EXCEPT !.now = f.timestamp]
        /\ gpIssued' = Append(gpIssued, f)
    BY <1>f DEF NextID
  <1>4. gpClock' \in [now : Nat, back : BOOLEAN] /\ gpClock'.now = f.timestamp /\ gpClock'.back = gpClock.back
    BY <1>2, <1>3 DEF GgIds, GgFlakes
  <1>l. PICK q, l : q = gpIssued /\ l = Len(gpIssued)
    OBVIOUS
  <1>5. q \in Seq(GgFlakes) /\ l \in Nat /\ DOMAIN q = 1..l /\ l = Len(q)
    BY <1>l, LenProperties DEF GgIds
  <1>p. PICK p : p = Append(q, f)
    OBVIOUS
  <1>6. p \in Seq(GgFlakes) /\ Len(p) = l + 1 /\ p[l + 1] = f /\ (\A i \in 1..l : p[i] = q[i]) /\ DOMAIN p = 1..(l + 1)
    BY <1>2, <1>5, <1>p, AppendProperties, LenProperties
  <1>7. \A i \in 1..l : q[i] \in GgFlakes /\ q[i].room = m
    BY <1>5, <1>l, <1>o, ElementOfSeq DEF GgIds
  <1>8. \A i \in DOMAIN p : p[i].room = f.room
    BY <1>2, <1>5, <1>6, <1>7
  <1>9. ASSUME ~gpClock.back, NEW i \in DOMAIN p, NEW j \in DOMAIN p, i < j PROVE GgLater(p[i], p[j])
    <2>1. \A a, b \in 1..l : a < b => GgLater(q[a], q[b])
      BY <1>9, <1>5, <1>l DEF GgIds
    <2>2. i \in 1..l /\ p[i] = q[i]
      BY <1>5, <1>6, <1>9
    <2>3. CASE j \in 1..l
      BY <2>1, <2>2, <2>3, <1>6, <1>9
    <2>4. CASE j = l + 1
      <3>1. l \in 1..l
        BY <2>2, <1>5
      <3>2. q[l] = o
        <4>1. q # <<>>
          BY <3>1, <1>5
        <4> QED
          BY <4>1, <1>l, <1>o DEF GgIds
      <3>3. GgLater(o, f)
        BY <1>2, <1>9
      <3>4. q[i] = o \/ GgLater(q[i], o)
        <4>1. CASE i = l
          BY <4>1, <3>2
        <4>2. CASE i < l
          BY <4>2, <3>1, <3>2, <2>1, <2>2
        <4> QED
          BY <4>1, <4>2, <2>2, <1>5
      <3>5. GgLater(q[i], f)
        BY <3>3, <3>4, <2>2, <1>1, <1>2, <1>7 DEF GgLater, GgFlakes
      <3> QED
        BY <3>5, <2>2, <2>4, <1>6
    <2> QED
      BY <2>3, <2>4, <1>5, <1>6
  <1>10. gpIssued' = p /\ p[Len(p)] = f
    BY <1>3, <1>6, <1>l, <1>p
  <1>11. f.timestamp <= f.timestamp
    BY <1>2 DEF GgFlakes
  <1> QED
    BY <1>2, <1>3, <1>4, <1>6, <1>8, <1>9, <1>10, <1>11 DEF GgIds

LEMMA GgIdsKept ==
    ASSUME GgIds, GpTick \/ GpStepBack
    PROVE  GgIds'
  <1>1. UNCHANGED <<gpFlake, gpIssued>>
    BY DEF GpTick, GpStepBack, gpIdVars
  <1>2. CASE GpTick
    <2>1. gpClock' = [gpClock EXCEPT !.now = @ + 1]
      BY <1>2 DEF GpTick
    <2>2. gpClock' \in [now : Nat, back : BOOLEAN] /\ gpClock'.now = gpClock.now + 1 /\ gpClock'.back = gpClock.back
      BY <2>1 DEF GgIds
    <2>3. ~gpClock.back => gpFlake.timestamp <= gpClock'.now
      BY <2>2 DEF GgIds, GgFlakes
    <2> QED
      BY <1>1, <2>2, <2>3 DEF GgIds
  <1>3. CASE GpStepBack
    <2>1. gpClock' = [now |-> gpClock.now - 1, back |-> TRUE] /\ gpClock.now > 1
      BY <1>3 DEF GpStepBack
    <2>2. gpClock' \in [now : Nat, back : BOOLEAN] /\ gpClock'.back
      BY <2>1 DEF GgIds
    <2> QED
      BY <1>1, <2>2 DEF GgIds
  <1> QED
    BY <1>2, <1>3

-----------------------------------------------------------------------------
(* packages/go: ratelimiter *)

GgEntry == [score : Nat, who : GpCaller, n : Nat]

\* Allowed requests that are in the window of the clock.
GgCounted(k) == {e \in gpAllowed : GpKeyOf(e.who) = k /\ e.score > gpClock.now - GpWindow}

GgLimitTypes ==
    /\ gpClock \in [now : Nat, back : BOOLEAN]
    /\ gpCall \in [GpCaller -> [at : {"idle", "read", "refused"}, now : Nat, n : Nat]]
    /\ gpSet \in [{GpKeyOf(c) : c \in GpCaller} -> [members : SUBSET GgEntry, expires : Nat]]
    /\ gpAllowed \subseteq GgEntry
    /\ \A k \in DOMAIN gpSet : IsFiniteSet(gpSet[k].members)

\* A caller has read the clock in the past; an allowed request belongs to a finished call, its
\* key does not expire before it leaves the window, and until then it is in the sorted set.
GgWindow ==
    /\ \A c \in GpCaller : gpCall[c].now <= gpClock.now
    /\ \A e \in gpAllowed :
          /\ e.score <= gpClock.now
          /\ e.n <= gpCall[e.who].n /\ (gpCall[e.who].at # "idle" => e.n < gpCall[e.who].n)
          /\ e.score + GpWindow <= gpSet[GpKeyOf(e.who)].expires
          /\ e.score > gpClock.now - GpWindow => e \in gpSet[GpKeyOf(e.who)].members

GgLimit == GgLimitTypes /\ GgWindow /\ GpWithinLimit

\* What counts is in the set.
LEMMA GgCountedStored ==
    ASSUME GgLimit, NEW k \in DOMAIN gpSet
    PROVE  GgCounted(k) \subseteq gpSet[k].members /\ IsFiniteSet(GgCounted(k))
  <1>1. GgCounted(k) \subseteq gpSet[k].members
    BY DEF GgLimit, GgWindow, GgCounted
  <1>2. IsFiniteSet(gpSet[k].members)
    BY DEF GgLimit, GgLimitTypes
  <1> QED
    BY <1>1, <1>2, FS_Subset

\* Requests leave the window as time passes.
LEMMA GgLimitTick ==
    ASSUME GgLimit, GpTick
    PROVE  GgLimit'
  <1>1. gpClock' = [gpClock EXCEPT !.now = @ + 1] /\ UNCHANGED <<gpCall, gpSet, gpAllowed>>
    BY DEF GpTick, gpLimitVars
  <1>2. /\ gpClock' \in [now : Nat, back : BOOLEAN] /\ gpClock'.now = gpClock.now + 1 /\ gpClock.now \in Nat
    BY <1>1 DEF GgLimit, GgLimitTypes
  <1>n. PICK m, n : m = gpClock.now /\ n = gpClock'.now
    OBVIOUS
  <1>3. n = m + 1 /\ m \in Nat /\ n \in Nat /\ GpWindow \in Nat
    BY <1>2, <1>n, GpAssumption
  <1>4. \A x \in Nat : (x <= m => x <= n) /\ (x > n - GpWindow => x > m - GpWindow)
    BY <1>3
  <1>5. GgLimitTypes'
    BY <1>1, <1>2 DEF GgLimit, GgLimitTypes, GpKeyOf, GpKey, GgEntry
  <1>6. GgWindow'
    <2>1. \A e \in gpAllowed : e.score \in Nat
      BY DEF GgLimit, GgLimitTypes, GgEntry
    <2>2. \A c \in GpCaller : gpCall[c].now \in Nat
      BY DEF GgLimit, GgLimitTypes
    <2>3. \A c \in GpCaller : gpCall[c].now <= n
      BY <2>2, <1>4, <1>n DEF GgLimit, GgWindow
    <2>4. \A e \in gpAllowed : e.score <= n /\ (e.score > n - GpWindow => e \in gpSet[GpKeyOf(e.who)].members)
      BY <2>1, <1>4, <1>n DEF GgLimit, GgWindow
    <2> QED
      BY <2>3, <2>4, <1>1, <1>n DEF GgLimit, GgWindow, GpKeyOf, GpKey
  <1>7. ASSUME NEW k \in DOMAIN gpSet
        PROVE  Cardinality({e \in gpAllowed : GpKeyOf(e.who) = k /\ e.score > n - GpWindow}) <= GpLimit
    <2>a. PICK A : A = {e \in gpAllowed : GpKeyOf(e.who) = k /\ e.score > n - GpWindow}
      OBVIOUS
    <2>1. A \subseteq GgCounted(k)
      <3>1. \A e \in gpAllowed : e.score \in Nat
        BY DEF GgLimit, GgLimitTypes, GgEntry
      <3> QED
        BY <3>1, <2>a, <1>4, <1>n DEF GgCounted
    <2>2. IsFiniteSet(GgCounted(k)) /\ Cardinality(GgCounted(k)) <= GpLimit
      BY GgCountedStored DEF GgLimit, GpWithinLimit, GgCounted
    <2>3. Cardinality(A) <= Cardinality(GgCounted(k)) /\ IsFiniteSet(A)
      BY <2>1, <2>2, FS_Subset
    <2>4. Cardinality(A) \in Nat /\ Cardinality(GgCounted(k)) \in Nat /\ GpLimit \in Nat
      BY <2>2, <2>3, FS_CardinalityType, GpAssumption
    <2>5. Cardinality(A) <= GpLimit
      BY <2>2, <2>3, <2>4
    <2> QED
      BY <2>5, <2>a
  <1>8. GpWithinLimit'
    BY <1>1, <1>7, <1>n DEF GpWithinLimit, GpKeyOf, GpKey
  <1> QED
    BY <1>5, <1>6, <1>8 DEF GgLimit

\* A caller reads the clock.
LEMMA GgLimitStart ==
    ASSUME GgLimit, NEW c \in GpCaller, LimitStart(c)
    PROVE  GgLimit'
  <1>1. /\ gpCall' = [gpCall EXCEPT ![c] = [at |-> "read", now |-> gpClock.now, n |-> @.n + 1]]
        /\ UNCHANGED <<gpClock, gpSet, gpAllowed>>
    BY DEF LimitStart
  <1>2. gpCall[c].n \in Nat /\ gpClock.now \in Nat
    BY DEF GgLimit, GgLimitTypes
  <1>3. /\ gpCall' \in [GpCaller -> [at : {"idle", "read", "refused"}, now : Nat, n : Nat]]
        /\ gpCall'[c].now = gpClock.now /\ gpCall'[c].n = gpCall[c].n + 1
        /\ \A d \in GpCaller \ {c} : gpCall'[d] = gpCall[d]
    BY <1>1, <1>2 DEF GgLimit, GgLimitTypes
  <1>4. GgLimitTypes'
    BY <1>1, <1>3 DEF GgLimit, GgLimitTypes, GpKeyOf, GpKey, GgEntry
  <1>5. \A d \in GpCaller : gpCall'[d].now <= gpClock.now
    BY <1>2, <1>3 DEF GgLimit, GgWindow
  <1>6. \A e \in gpAllowed : e.n <= gpCall'[e.who].n /\ (gpCall'[e.who].at # "idle" => e.n < gpCall'[e.who].n)
    <2> SUFFICES ASSUME NEW e \in gpAllowed
                 PROVE  e.n <= gpCall'[e.who].n /\ (gpCall'[e.who].at # "idle" => e.n < gpCall'[e.who].n)
      OBVIOUS
    <2>1. e.who \in GpCaller /\ e.n \in Nat
      BY DEF GgLimit, GgLimitTypes, GgEntry
    <2>2. e.n <= gpCall[e.who].n /\ (gpCall[e.who].at # "idle" => e.n < gpCall[e.who].n)
      BY DEF GgLimit, GgWindow
    <2>3. CASE e.who = c
      BY <2>1, <2>2, <2>3, <1>2, <1>3
    <2>4. CASE e.who # c
      BY <2>1, <2>2, <2>4, <1>3
    <2> QED
      BY <2>3, <2>4
  <1>7. GgWindow'
    BY <1>1, <1>5, <1>6 DEF GgLimit, GgWindow, GpKeyOf, GpKey
  <1>8. GpWithinLimit'
    BY <1>1 DEF GgLimit, GpWithinLimit, GpKeyOf, GpKey
  <1> QED
    BY <1>4, <1>7, <1>8 DEF GgLimit

\* A call goes on or ends; mine is the member it has put into the sorted set.
LEMMA GgLimitEnds ==
    ASSUME GgLimit, NEW c \in GpCaller, gpCall[c].at # "idle", NEW x \in {"idle", "refused"}, NEW mine,
           mine = [score |-> gpCall[c].now, who |-> c, n |-> gpCall[c].n],
           gpCall' = [gpCall EXCEPT ![c].at = x], UNCHANGED gpClock,
           gpSet' \in [{GpKeyOf(d) : d \in GpCaller} -> [members : SUBSET GgEntry, expires : Nat]],
           \A k \in DOMAIN gpSet' : IsFiniteSet(gpSet'[k].members),
           gpAllowed' = gpAllowed \/ (x = "idle" /\ gpAllowed' = gpAllowed \cup {mine}),
           \A e \in gpAllowed' :
              /\ e.score + GpWindow <= gpSet'[GpKeyOf(e.who)].expires
              /\ e.score > gpClock.now - GpWindow => e \in gpSet'[GpKeyOf(e.who)].members,
           GpWithinLimit'
    PROVE  GgLimit'
  <1>1. /\ gpCall[c] \in [at : {"idle", "read", "refused"}, now : Nat, n : Nat]
        /\ gpCall \in [GpCaller -> [at : {"idle", "read", "refused"}, now : Nat, n : Nat]]
        /\ gpClock.now \in Nat /\ gpAllowed \subseteq GgEntry
    BY DEF GgLimit, GgLimitTypes
  <1>r. PICK r : r = [gpCall[c] EXCEPT !.at = x]
    OBVIOUS
  <1>2. /\ r \in [at : {"idle", "read", "refused"}, now : Nat, n : Nat]
        /\ r.at = x /\ r.now = gpCall[c].now /\ r.n = gpCall[c].n
    BY <1>1, <1>r
  <1>3. gpCall' = [gpCall EXCEPT ![c] = r]
    BY <1>r
  <1>4. /\ gpCall' \in [GpCaller -> [at : {"idle", "read", "refused"}, now : Nat, n : Nat]]
        /\ gpCall'[c] = r /\ \A d \in GpCaller \ {c} : gpCall'[d] = gpCall[d]
    BY <1>1, <1>2, <1>3
  <1>5. mine \in GgEntry /\ mine.who = c /\ mine.n = gpCall[c].n /\ mine.score = gpCall[c].now
    BY <1>1 DEF GgEntry
  <1>6. gpAllowed' \subseteq GgEntry
    BY <1>1, <1>5
  <1>7. GgLimitTypes'
    BY <1>4, <1>6 DEF GgLimit, GgLimitTypes, GpKeyOf, GpKey, GgEntry
  <1>8. \A d \in GpCaller : gpCall'[d].now <= gpClock.now
    BY <1>2, <1>4 DEF GgLimit, GgWindow
  <1>9. ASSUME NEW e \in gpAllowed'
        PROVE  /\ e.score <= gpClock.now
               /\ e.n <= gpCall'[e.who].n /\ (gpCall'[e.who].at # "idle" => e.n < gpCall'[e.who].n)
    <2>1. CASE e \in gpAllowed
      <3>1. /\ e.score <= gpClock.now /\ e.n <= gpCall[e.who].n
            /\ gpCall[e.who].at # "idle" => e.n < gpCall[e.who].n
        BY <2>1 DEF GgLimit, GgWindow
      <3>2. e.who \in GpCaller
        BY <2>1, <1>1 DEF GgEntry
      <3>3. CASE e.who = c
        BY <3>1, <3>3, <1>2, <1>4
      <3>4. CASE e.who # c
        BY <3>1, <3>2, <3>4, <1>4
      <3> QED
        BY <3>3, <3>4
    <2>2. CASE e = mine /\ x = "idle"
      <3>1. e.score <= gpClock.now
        BY <2>2, <1>5 DEF GgLimit, GgWindow
      <3>2. gpCall'[e.who].at = "idle" /\ e.n = gpCall'[e.who].n /\ e.n \in Nat
        BY <2>2, <1>1, <1>2, <1>4, <1>5
      <3> QED
        BY <3>1, <3>2
    <2> QED
      BY <2>1, <2>2
  <1>10. GgWindow'
    BY <1>8, <1>9 DEF GgWindow, GpKeyOf, GpKey
  <1> QED
    BY <1>7, <1>10 DEF GgLimit

\* The removal of a refused member touches no allowed one.
LEMMA GgLimitZRem ==
    ASSUME GgLimit, NEW c \in GpCaller, LimitZRem(c)
    PROVE  GgLimit'
  <1>k. PICK K, n : K = GpKeyOf(c) /\ n = gpCall[c].n
    OBVIOUS
  <1>1. /\ gpCall[c].at = "refused" /\ gpCall' = [gpCall EXCEPT ![c].at = "idle"]
        /\ UNCHANGED <<gpClock, gpAllowed>>
        /\ gpSet' = [gpSet EXCEPT ![K].members = {e \in @ : e.who /= c \/ e.n /= n}] \/ UNCHANGED gpSet
    BY <1>k DEF LimitZRem
  <1>2. /\ gpSet \in [{GpKeyOf(d) : d \in GpCaller} -> [members : SUBSET GgEntry, expires : Nat]]
        /\ \A k \in DOMAIN gpSet : IsFiniteSet(gpSet[k].members)
    BY DEF GgLimit, GgLimitTypes
  <1>3. K \in DOMAIN gpSet
    BY <1>2, <1>k
  <1>4. \A e \in gpAllowed : e.who /= c \/ e.n /= n
    <2> SUFFICES ASSUME NEW e \in gpAllowed, e.who = c PROVE e.n /= n
      OBVIOUS
    <2>1. e.n < n /\ e.n \in Nat /\ n \in Nat
      BY <1>1, <1>k DEF GgLimit, GgLimitTypes, GgWindow, GgEntry
    <2> QED
      BY <2>1
  <1>5. /\ gpSet' \in [{GpKeyOf(d) : d \in GpCaller} -> [members : SUBSET GgEntry, expires : Nat]]
        /\ \A k \in DOMAIN gpSet' : gpSet'[k].members \subseteq gpSet[k].members
        /\ \A k \in DOMAIN gpSet : /\ gpSet'[k].expires = gpSet[k].expires
                                   /\ \A e \in gpSet[k].members : e.who /= c \/ e.n /= n => e \in gpSet'[k].members
        /\ DOMAIN gpSet' = DOMAIN gpSet
    <2>1. CASE UNCHANGED gpSet
      BY <2>1, <1>2
    <2>2. CASE gpSet' = [gpSet EXCEPT ![K].members = {e \in @ : e.who /= c \/ e.n /= n}]
      <3>m. PICK m, t : m = {e \in gpSet[K].members : e.who /= c \/ e.n /= n} /\ t = [gpSet[K] EXCEPT !.members = m]
        OBVIOUS
      <3>1. t \in [members : SUBSET GgEntry, expires : Nat] /\ t.members = m /\ t.expires = gpSet[K].expires
        BY <3>m, <1>2, <1>3
      <3>2. gpSet' = [gpSet EXCEPT ![K] = t]
        BY <2>2, <3>m
      <3>3. gpSet'[K] = t /\ \A k \in DOMAIN gpSet \ {K} : gpSet'[k] = gpSet[k]
        BY <3>2, <1>3
      <3> QED
        BY <3>1, <3>2, <3>3, <3>m, <1>2
    <2> QED
      BY <1>1, <2>1, <2>2
  <1>6. \A k \in DOMAIN gpSet' : IsFiniteSet(gpSet'[k].members)
    BY <1>2, <1>5, FS_Subset
  <1>7. \A e \in gpAllowed : GpKeyOf(e.who) \in DOMAIN gpSet
    BY <1>2 DEF GgLimit, GgLimitTypes, GgEntry
  <1>8. \A e \in gpAllowed :
          /\ e.score + GpWindow <= gpSet'[GpKeyOf(e.who)].expires
          /\ e.score > gpClock.now - GpWindow => e \in gpSet'[GpKeyOf(e.who)].members
    BY <1>4, <1>5, <1>7 DEF GgLimit, GgWindow
  <1>9. GpWithinLimit'
    BY <1>1, <1>5 DEF GgLimit, GpWithinLimit, GpKeyOf, GpKey
  <1>m. PICK mine : mine = [score |-> gpCall[c].now, who |-> c, n |-> gpCall[c].n]
    OBVIOUS
  <1>10. gpCall[c].at # "idle"
    BY <1>1
  <1> QED
    BY <1>1, <1>5, <1>6, <1>8, <1>9, <1>10, <1>m, GgLimitEnds

\* The transaction of Limit: whatever it drops has left the window, and it lets a request in
\* only while fewer than the limit are left.
LEMMA GgLimitCall ==
    ASSUME GgLimit, NEW c \in GpCaller, Limit(c)
    PROVE  GgLimit'
  <1>k. PICK K, now, n : K = GpKeyOf(c) /\ now = gpCall[c].now /\ n = gpCall[c].n
    OBVIOUS
  <1>s. PICK set, stored, kept, mine, after :
          /\ set = gpSet[K]
          /\ stored = IF gpClock.now >= set.expires THEN {} ELSE set.members
          /\ kept = {e \in stored : e.score > ClearBefore(now)}
          /\ mine = [score |-> now, who |-> c, n |-> n]
          /\ after = [members |-> kept \cup {mine}, expires |-> gpClock.now + GpWindow]
    OBVIOUS
  <1>e. PICK err \in BOOLEAN :
          /\ gpSet' \in {[gpSet EXCEPT ![K] = after]} \cup (IF err THEN {gpSet} ELSE {})
          /\ IF GpRefuses(Cardinality(kept), err)
             THEN /\ gpCall' = [gpCall EXCEPT ![c].at = IF err THEN "idle" ELSE "refused"]
                  /\ UNCHANGED gpAllowed
             ELSE /\ gpCall' = [gpCall EXCEPT ![c].at = "idle"]
                  /\ gpAllowed' = gpAllowed \cup {mine}
    BY <1>k, <1>s DEF Limit
  <1>1. gpCall[c].at = "read" /\ UNCHANGED gpClock
    BY DEF Limit
  <1>2. /\ gpSet \in [{GpKeyOf(d) : d \in GpCaller} -> [members : SUBSET GgEntry, expires : Nat]]
        /\ \A k \in DOMAIN gpSet : IsFiniteSet(gpSet[k].members)
        /\ K \in DOMAIN gpSet /\ set \in [members : SUBSET GgEntry, expires : Nat]
    BY <1>k, <1>s DEF GgLimit, GgLimitTypes
  <1>t. PICK t : t = gpClock.now
    OBVIOUS
  <1>3. now \in Nat /\ n \in Nat /\ t \in Nat /\ now <= t /\ GpWindow \in Nat
    BY <1>k, <1>t, GpAssumption DEF GgLimit, GgLimitTypes, GgWindow
  <1>4. kept \subseteq set.members /\ IsFiniteSet(kept) /\ kept \subseteq GgEntry
    <2>1. kept \subseteq set.members
      BY <1>s
    <2> QED
      BY <2>1, <1>2, <1>s, FS_Subset
  <1>5. mine \in GgEntry /\ mine.who = c /\ mine.score = now
    BY <1>3, <1>s DEF GgEntry
  <1>6. IsFiniteSet(kept \cup {mine}) /\ Cardinality(kept \cup {mine}) <= Cardinality(kept) + 1
    <2>1. Cardinality(kept) \in Nat
      BY <1>4, FS_CardinalityType
    <2>2. CASE mine \in kept
      <3>1. kept \cup {mine} = kept
        BY <2>2
      <3> QED
        BY <3>1, <2>1, <1>4
    <2>3. CASE mine \notin kept
      <3>1. IsFiniteSet(kept \cup {mine}) /\ Cardinality(kept \cup {mine}) = Cardinality(kept) + 1
        BY <2>3, <1>4, FS_AddElement
      <3> QED
        BY <3>1, <2>1
    <2> QED
      BY <2>2, <2>3
  <1>7. after \in [members : SUBSET GgEntry, expires : Nat] /\ after.members = kept \cup {mine}
        /\ after.expires = t + GpWindow
    BY <1>3, <1>4, <1>5, <1>s, <1>t
  <1>8. GgCounted(K) \subseteq kept
    <2> SUFFICES ASSUME NEW e \in GgCounted(K) PROVE e \in kept
      OBVIOUS
    <2>1. e \in gpAllowed /\ GpKeyOf(e.who) = K /\ e.score > t - GpWindow /\ e.score \in Nat
      BY <1>t DEF GgCounted, GgLimit, GgLimitTypes, GgEntry
    <2>2. e \in set.members /\ e.score + GpWindow <= set.expires /\ set.expires \in Nat
      BY <2>1, <1>2, <1>s, <1>t DEF GgLimit, GgWindow
    <2>3. ~(t >= set.expires) /\ e.score > now - GpWindow
      BY <2>1, <2>2, <1>3
    <2>4. e \in stored
      BY <2>2, <2>3, <1>s, <1>t
    <2> QED
      BY <2>3, <2>4, <1>s DEF ClearBefore
  <1>9. PICK x \in {"idle", "refused"} :
          /\ gpCall' = [gpCall EXCEPT ![c].at = x]
          /\ \/ gpAllowed' = gpAllowed
             \/ x = "idle" /\ ~err /\ gpAllowed' = gpAllowed \cup {mine} /\ Cardinality(kept) < GpLimit
    <2>1. CASE GpRefuses(Cardinality(kept), err)
      BY <2>1, <1>e
    <2>2. CASE ~GpRefuses(Cardinality(kept), err)
      <3>1. ~err /\ Cardinality(kept) < GpLimit
        <4>1. Cardinality(kept) \in Nat /\ GpLimit \in Nat
          BY <1>4, FS_CardinalityType, GpAssumption
        <4> QED
          BY <2>2, <4>1 DEF GpRefuses
      <3> QED
        BY <2>2, <3>1, <1>e
    <2> QED
      BY <2>1, <2>2
  <1>10. gpSet' = [gpSet EXCEPT ![K] = after] \/ (gpSet' = gpSet /\ gpAllowed' = gpAllowed)
    <2>1. CASE err
      BY <2>1, <1>e, <1>9
    <2>2. CASE ~err
      BY <2>2, <1>e
    <2> QED
      BY <2>1, <2>2
  <1>11. /\ gpSet' \in [{GpKeyOf(d) : d \in GpCaller} -> [members : SUBSET GgEntry, expires : Nat]]
         /\ \A k \in DOMAIN gpSet' : IsFiniteSet(gpSet'[k].members)
         /\ DOMAIN gpSet' = DOMAIN gpSet
    <2>1. CASE gpSet' = gpSet
      BY <2>1, <1>2
    <2>2. CASE gpSet' = [gpSet EXCEPT ![K] = after]
      <3>1. gpSet'[K] = after /\ DOMAIN gpSet' = DOMAIN gpSet /\ \A k \in DOMAIN gpSet \ {K} : gpSet'[k] = gpSet[k]
        BY <2>2, <1>2
      <3>2. gpSet' \in [{GpKeyOf(d) : d \in GpCaller} -> [members : SUBSET GgEntry, expires : Nat]]
        BY <2>2, <1>2, <1>7
      <3> QED
        BY <3>1, <3>2, <1>2, <1>6, <1>7
    <2> QED
      BY <1>10, <2>1, <2>2
  <1>12. ASSUME NEW e \in gpAllowed'
         PROVE  /\ e.score + GpWindow <= gpSet'[GpKeyOf(e.who)].expires
                /\ e.score > t - GpWindow => e \in gpSet'[GpKeyOf(e.who)].members
    <2>1. CASE e \in gpAllowed
      <3>1. /\ e.score <= t /\ e.score + GpWindow <= gpSet[GpKeyOf(e.who)].expires
            /\ e.score > t - GpWindow => e \in gpSet[GpKeyOf(e.who)].members
            /\ e.score \in Nat /\ GpKeyOf(e.who) \in DOMAIN gpSet
        BY <2>1, <1>2, <1>t DEF GgLimit, GgLimitTypes, GgWindow, GgEntry
      <3>2. CASE gpSet' = gpSet \/ GpKeyOf(e.who) # K
        <4>1. gpSet'[GpKeyOf(e.who)] = gpSet[GpKeyOf(e.who)]
          BY <3>1, <3>2, <1>2, <1>10
        <4> QED
          BY <3>1, <4>1
      <3>3. CASE gpSet' = [gpSet EXCEPT ![K] = after] /\ GpKeyOf(e.who) = K
        <4>1. gpSet'[GpKeyOf(e.who)] = after
          BY <3>3, <1>2
        <4>2. e.score + GpWindow <= t + GpWindow
          BY <3>1, <1>3
        <4>3. e.score > t - GpWindow => e \in kept
          BY <2>1, <3>3, <1>8, <1>t DEF GgCounted
        <4> QED
          BY <4>1, <4>2, <4>3, <1>7
      <3> QED
        BY <3>2, <3>3, <1>10
    <2>2. CASE e \notin gpAllowed
      <3>1. e = mine /\ gpAllowed' # gpAllowed
        BY <2>2, <1>9
      <3>2. gpSet' = [gpSet EXCEPT ![K] = after]
        BY <3>1, <1>10
      <3>3. gpSet'[GpKeyOf(e.who)] = after
        BY <3>1, <3>2, <1>2, <1>5, <1>k
      <3>4. e.score + GpWindow <= t + GpWindow
        BY <3>1, <1>3, <1>5
      <3> QED
        BY <3>1, <3>3, <3>4, <1>7
    <2> QED
      BY <2>1, <2>2
  <1>13. ASSUME NEW k \in DOMAIN gpSet
         PROVE  Cardinality({e \in gpAllowed' : GpKeyOf(e.who) = k /\ e.score > t - GpWindow}) <= GpLimit
    <2>a. PICK A : A = {e \in gpAllowed' : GpKeyOf(e.who) = k /\ e.score > t - GpWindow}
      OBVIOUS
    <2>1. CASE A = GgCounted(k)
      BY <2>1, <2>a DEF GgLimit, GpWithinLimit, GgCounted
    <2>2. CASE A # GgCounted(k)
      <3>1. gpAllowed' = gpAllowed \cup {mine} /\ Cardinality(kept) < GpLimit /\ gpAllowed' # gpAllowed
        BY <2>2, <2>a, <1>9, <1>t DEF GgCounted
      <3>2. k = K
        BY <2>2, <3>1, <2>a, <1>5, <1>k, <1>t DEF GgCounted
      <3>3. A \subseteq kept \cup {mine}
        BY <3>1, <3>2, <2>a, <1>8, <1>t DEF GgCounted
      <3>4. Cardinality(A) <= Cardinality(kept \cup {mine}) /\ IsFiniteSet(A)
        BY <3>3, <1>6, FS_Subset
      <3>5. /\ Cardinality(A) \in Nat /\ Cardinality(kept) \in Nat
            /\ Cardinality(kept \cup {mine}) \in Nat /\ GpLimit \in Nat
        BY <3>4, <1>4, <1>6, FS_CardinalityType, GpAssumption
      <3>6. Cardinality(A) <= GpLimit
        BY <3>1, <3>4, <3>5, <1>6
      <3> QED
        BY <3>6, <2>a
    <2> QED
      BY <2>1, <2>2
  <1>14. GpWithinLimit'
    BY <1>1, <1>11, <1>13, <1>t DEF GpWithinLimit, GpKeyOf, GpKey
  <1>15. gpAllowed' = gpAllowed \/ (x = "idle" /\ gpAllowed' = gpAllowed \cup {mine})
    BY <1>9
  <1>16. mine = [score |-> gpCall[c].now, who |-> c, n |-> gpCall[c].n]
    BY <1>k, <1>s
  <1>17. gpCall[c].at # "idle" /\ gpCall' = [gpCall EXCEPT ![c].at = x] /\ UNCHANGED gpClock
    BY <1>1, <1>9
  <1>18. \A e \in gpAllowed' :
           /\ e.score + GpWindow <= gpSet'[GpKeyOf(e.who)].expires
           /\ e.score > gpClock.now - GpWindow => e \in gpSet'[GpKeyOf(e.who)].members
    BY <1>12, <1>t
  <1> QED
    BY <1>11, <1>14, <1>15, <1>16, <1>17, <1>18, GgLimitEnds

-----------------------------------------------------------------------------
(* packages/go: rabbitmq.Connection and the door *)

\* Sockets are numbered from 1 and 0 stands for no connection, which is never open.
GgConn ==
    /\ gpLink \in [conn : Nat, closed : BOOLEAN, open : SUBSET (Nat \ {0}), next : Nat \ {0},
                   breaks : Int, panic : BOOLEAN]
    /\ GpClosedStays

\* A dial is reached only where closed was looked at under the same lock.
LEMMA GgConnDial ==
    ASSUME GgConn, NEW r \in GpRoutine, GpAttempt(r), ~gpLink.closed
    PROVE  GgConn'
  <1>1. CASE UNCHANGED gpLink
    BY <1>1 DEF GgConn, GpClosedStays
  <1>2. CASE gpLink' = GpDialed
    <2>1. gpLink.next \in Nat \ {0} /\ gpLink.next + 1 \in Nat \ {0}
      BY DEF GgConn
    <2>2. /\ gpLink' \in [conn : Nat, closed : BOOLEAN, open : SUBSET (Nat \ {0}), next : Nat \ {0},
                          breaks : Int, panic : BOOLEAN]
          /\ gpLink'.closed = gpLink.closed
      BY <1>2, <2>1 DEF GgConn, GpDialed
    <2> QED
      BY <2>2 DEF GgConn, GpClosedStays
  <1> QED
    BY <1>1, <1>2 DEF GpAttempt

LEMMA GgConnStep ==
    ASSUME GgConn, NEW r \in GpRoutine,
           ensureConnLocked(r) \/ ensureConn(r) \/ ChannelTake(r) \/ Channel(r)
    PROVE  GgConn'
  <1>u. CASE UNCHANGED gpLink
    BY <1>u DEF GgConn, GpClosedStays
  <1>1. CASE ensureConnLocked(r)
    BY <1>1, <1>u, GgConnDial DEF ensureConnLocked
  <1>2. CASE ensureConn(r)
    BY <1>2, <1>u, GgConnDial DEF ensureConn, GpWake
  <1>3. CASE ChannelTake(r)
    BY <1>3, <1>u DEF ChannelTake
  <1>4. CASE Channel(r)
    <2>1. CASE gpLink' = [gpLink EXCEPT !.panic = TRUE]
      BY <2>1 DEF GgConn, GpClosedStays
    <2>2. ASSUME NEW b \in Int, gpLink' = [gpLink EXCEPT !.conn = 0, !.breaks = b] PROVE GgConn'
      BY <2>2 DEF GgConn, GpClosedStays
    <2>3. gpLink.breaks \in Int /\ gpLink.breaks - 1 \in Int
      BY DEF GgConn
    <2> QED
      BY <1>4, <1>u, <2>1, <2>2, <2>3 DEF Channel
  <1> QED
    BY <1>1, <1>2, <1>3, <1>4

LEMMA GgConnEnds ==
    ASSUME GgConn, Close \/ (\E k \in gpLink.open : GpBreak(k))
    PROVE  GgConn'
  <1>1. CASE Close
    BY <1>1 DEF GgConn, GpClosedStays, Close
  <1>2. ASSUME NEW k \in gpLink.open, GpBreak(k) PROVE GgConn'
    <2>o. PICK o, b : o = gpLink.open \ {k} /\ b = gpLink.breaks - 1
      OBVIOUS
    <2>1. gpLink' = [gpLink EXCEPT !.open = o, !.breaks = b]
      BY <1>2, <2>o, Zenon DEF GpBreak
    <2>2. gpLink.open \in SUBSET (Nat \ {0}) /\ gpLink.breaks \in Int
      BY DEF GgConn
    <2>3. o \in SUBSET (Nat \ {0}) /\ b \in Int
      BY <2>o, <2>2
    <2> QED
      BY <2>1, <2>3, <2>o DEF GgConn, GpClosedStays
  <1> QED
    BY <1>1, <1>2

\* One decision of the door.
LEMMA GgDoor ==
    ASSUME NEW t, AuthenticateCall(t)
    PROVE  GpDoorHolds'
  <1>1. PICK d : d = gpDoor'
    OBVIOUS
  <1>2. d = [kind |-> "token", token |-> t, ok |-> Authenticate(t),
             view |-> Authenticate(t) /\ HasPermission(t.role, "view_user")]
    BY <1>1 DEF AuthenticateCall
  <1>3. /\ d.kind = "token" /\ d.token = t /\ d.ok = Authenticate(t)
        /\ d.view = (Authenticate(t) /\ HasPermission(t.role, "view_user"))
    BY <1>2
  <1>4. Authenticate(t) => t.signed /\ t.alg = "HS256" /\ GpUserID(t) /= ""
    BY DEF Authenticate
  <1>5. d.view => d.ok /\ t.role = "admin"
    BY <1>3 DEF HasPermission
  <1> QED
    BY <1>1, <1>3, <1>4, <1>5 DEF GpDoorHolds, GpUserID

LEMMA GgDoorGrpc ==
    ASSUME NEW md, NEW roles, NEW required, GrpcCall(md, roles, required)
    PROVE  GpDoorHolds'
  <1>c. PICK a, b, c : /\ a = AuthInterceptor(md) /\ c = RequirePermissionInterceptor(md, required)
                       /\ b = IF roles = {} THEN "OK" ELSE RequireRoleInterceptor(md, roles)
    OBVIOUS
  <1>d. PICK d : d = gpDoor'
    OBVIOUS
  <1>k. PICK k : k = IF a /= "OK" THEN a ELSE IF b /= "OK" THEN b ELSE c
    OBVIOUS
  <1>1. d = [kind |-> "grpc", md |-> md, roles |-> roles, required |-> required, code |-> k]
    BY <1>c, <1>d, <1>k DEF GrpcCall
  <1>2. d.kind = "grpc" /\ d.md = md /\ d.roles = roles /\ d.required = required /\ d.code = k
    BY <1>1
  <1>3. k = "OK" => a = "OK" /\ b = "OK" /\ c = "OK"
    BY <1>k
  <1>4. a = "OK" => md.user /= ""
    BY <1>c DEF AuthInterceptor
  <1>5. b = "OK" /\ roles /= {} => md.role \in roles
    BY <1>c DEF RequireRoleInterceptor
  <1>6. c = "OK" /\ required /= {} => \E p \in required : p \in RolePermissionsMap[md.role]
    BY <1>c DEF RequirePermissionInterceptor
  <1>7. d.kind # "token" /\ d.kind # "message"
    BY <1>2
  <1> QED
    BY <1>d, <1>2, <1>3, <1>4, <1>5, <1>6, <1>7 DEF GpDoorHolds, RolePermissionsMap

LEMMA GgDoorMessage ==
    ASSUME NEW m \in GpMessages, HandleMessageGuarded(m)
    PROVE  GpDoorHolds'
  <1>u. PICK u, code : u = GpWsAuth(m) /\ code = IF GpParses(m) THEN Run(m, u) ELSE "INVALID_MESSAGE"
    OBVIOUS
  <1>t. PICK told \in BOOLEAN :
            gpDoor' = [kind |-> "message", m |-> m, code |-> code, told |-> told,
                       closes |-> IF told THEN terminalCloseCode(code) ELSE 0]
    BY <1>u DEF HandleMessageGuarded
  <1>d. PICK d : d = gpDoor'
    OBVIOUS
  <1>3. /\ d.kind = "message" /\ d.m = m /\ d.code = code /\ d.told = told
        /\ d.closes = IF told THEN terminalCloseCode(code) ELSE 0
    BY <1>t, <1>d
  <1>4. m.limiter \in {"free", "full", "error"}
    BY GpAssumption
  <1>5. d.closes /= 0 => d.told
    BY <1>3
  <1>6. /\ GpParses(d.m) => (GpWsAuth(d.m) = "" /\ d.told <=> d.closes = WsCloseUnauthorized)
        /\ d.code = "OK" => /\ GpWsAuth(d.m) /= "" /\ d.m.valid
                            /\ d.m.action /= "" => d.m.limiter = "free"
    <2>1. CASE u = ""
      <3>1. Run(m, u) = "UNAUTHENTICATED"
        BY <2>1 DEF Run
      <3>2. terminalCloseCode("UNAUTHENTICATED") = WsCloseUnauthorized /\ WsCloseUnauthorized # 0
        BY DEF terminalCloseCode, WsCloseUnauthorized
      <3>3. code # "OK" /\ (GpParses(m) => code = "UNAUTHENTICATED")
        BY <3>1, <1>u
      <3>4. GpParses(m) => (told <=> d.closes = WsCloseUnauthorized)
        BY <3>2, <3>3, <1>3
      <3> QED
        BY <3>3, <3>4, <2>1, <1>3, <1>u, Zenon
    <2>2. CASE u # ""
      <3>1. /\ Run(m, u) \in {"INTERNAL_ERROR", "RATE_LIMITED", "INVALID_MESSAGE", "OK"}
            /\ Run(m, u) = "OK" => m.valid /\ (m.action /= "" => m.limiter = "free")
        <4>1. CASE m.action /= "" /\ m.limiter = "error"
          BY <4>1, <2>2 DEF Run
        <4>2. CASE m.action /= "" /\ m.limiter = "full"
          BY <4>2, <2>2 DEF Run
        <4>3. CASE (m.action = "" \/ m.limiter = "free") /\ ~m.valid
          BY <4>3, <2>2 DEF Run
        <4>4. CASE (m.action = "" \/ m.limiter = "free") /\ m.valid
          <5>1. Run(m, u) = "OK"
            BY <4>4, <2>2 DEF Run
          <5> QED
            BY <4>4, <5>1
        <4> QED
          BY <1>4, <4>1, <4>2, <4>3, <4>4
      <3>2. /\ \A x \in {"INTERNAL_ERROR", "RATE_LIMITED", "INVALID_MESSAGE", "OK"} : terminalCloseCode(x) # WsCloseUnauthorized
            /\ WsCloseUnauthorized # 0
        BY DEF terminalCloseCode, WsCloseUnauthorized
      <3>3. code \in {"INTERNAL_ERROR", "RATE_LIMITED", "INVALID_MESSAGE", "OK"}
        BY <3>1, <1>u
      <3>4. d.closes # WsCloseUnauthorized
        BY <3>2, <3>3, <1>3
      <3>5. code = "OK" => m.valid /\ (m.action /= "" => m.limiter = "free")
        BY <3>1, <1>u
      <3> QED
        BY <3>4, <3>5, <2>2, <1>3, <1>u, Zenon
    <2> QED
      BY <2>1, <2>2
  <1>7. d.kind # "token" /\ d.kind # "grpc"
    BY <1>3
  <1> QED
    BY <1>5, <1>6, <1>7, <1>d, Zenon DEF GpDoorHolds, GpParses, GpWsAuth, GpExtractToken, GpUserID, RolePermissionsMap

-----------------------------------------------------------------------------
(* packages/go: the four parts *)

\* Without the rate limiter nothing is allowed.
GgInv ==
    /\ GgIds /\ GgConn /\ GpDoorHolds
    /\ gpPart = "limit" => GgLimit
    /\ gpPart # "limit" => gpAllowed = {}

LEMMA GgInvInit == GpInit => GgInv
  <1> SUFFICES ASSUME GpInit PROVE GgInv
    OBVIOUS
  <1>1. GgIds
    <2>1. 0 \in 0..(GpSequences - 1) /\ 1 \in Nat
      BY GpAssumption
    <2>2. PICK room \in GpRooms : gpFlake = [timestamp |-> 1, sequence |-> 0, room |-> room]
      BY DEF GpInit
    <2>3. gpClock = [now |-> 1, back |-> FALSE] /\ gpIssued = <<>>
      BY DEF GpInit
    <2>4. gpFlake \in GgFlakes /\ gpFlake.timestamp = 1
      BY <2>1, <2>2 DEF GgFlakes
    <2> QED
      BY <2>3, <2>4 DEF GgIds
  <1>2. GgConn
    BY GpAssumption DEF GpInit, GgConn, GpClosedStays
  <1>3. GpDoorHolds
    BY DEF GpInit, GpDoorHolds
  <1>4. gpAllowed = {}
    BY DEF GpInit
  <1>5. GgLimit
    <2>1. /\ gpClock \in [now : Nat, back : BOOLEAN] /\ gpClock.now = 1
      BY DEF GpInit
    <2>2. /\ gpCall \in [GpCaller -> [at : {"idle", "read", "refused"}, now : Nat, n : Nat]]
          /\ \A c \in GpCaller : gpCall[c].now <= gpClock.now
      BY <2>1 DEF GpInit, GpAway
    <2>3. /\ gpSet \in [{GpKeyOf(c) : c \in GpCaller} -> [members : SUBSET GgEntry, expires : Nat]]
          /\ \A k \in DOMAIN gpSet : gpSet[k].members = {}
      BY DEF GpInit
    <2>4. IsFiniteSet({}) /\ Cardinality({}) = 0
      BY FS_EmptySet
    <2>5. GgLimitTypes
      BY <1>4, <2>1, <2>2, <2>3, <2>4 DEF GgLimitTypes
    <2>6. GgWindow
      BY <1>4, <2>2 DEF GgWindow
    <2>7. GpWithinLimit
      <3> SUFFICES ASSUME NEW k \in DOMAIN gpSet
                   PROVE  Cardinality({e \in gpAllowed : GpKeyOf(e.who) = k /\ e.score > gpClock.now - GpWindow}) <= GpLimit
        BY DEF GpWithinLimit
      <3>1. {e \in gpAllowed : GpKeyOf(e.who) = k /\ e.score > gpClock.now - GpWindow} = {}
        BY <1>4
      <3>2. 0 <= GpLimit
        BY GpAssumption
      <3> QED
        BY <3>1, <3>2, <2>4
    <2> QED
      BY <2>5, <2>6, <2>7 DEF GgLimit
  <1> QED
    BY <1>1, <1>2, <1>3, <1>4, <1>5 DEF GgInv

\* What a step of one part leaves alone.
LEMMA GgKept ==
    ASSUME GgInv
    PROVE  /\ UNCHANGED <<gpClock, gpFlake, gpIssued>> => GgIds'
           /\ UNCHANGED gpLink => GgConn'
           /\ UNCHANGED gpDoor => GpDoorHolds'
           /\ UNCHANGED <<gpPart, gpClock, gpCall, gpSet, gpAllowed>> => (gpPart' = "limit" => GgLimit')
           /\ UNCHANGED <<gpPart, gpAllowed>> => (gpPart' # "limit" => gpAllowed' = {})
  <1>1. UNCHANGED <<gpClock, gpFlake, gpIssued>> => GgIds'
    BY DEF GgInv, GgIds
  <1>2. UNCHANGED gpLink => GgConn'
    BY DEF GgInv, GgConn, GpClosedStays
  <1>3. UNCHANGED gpDoor => GpDoorHolds'
    BY DEF GgInv, GpDoorHolds, GpUserID, GpParses, GpWsAuth, GpExtractToken, RolePermissionsMap
  <1>4. ASSUME UNCHANGED <<gpPart, gpClock, gpCall, gpSet, gpAllowed>>, gpPart' = "limit" PROVE GgLimit'
    BY <1>4 DEF GgInv, GgLimit, GgLimitTypes, GgWindow, GpWithinLimit, GpKeyOf, GpKey, GgEntry
  <1>5. UNCHANGED <<gpPart, gpAllowed>> => (gpPart' # "limit" => gpAllowed' = {})
    BY DEF GgInv
  <1> QED
    BY <1>1, <1>2, <1>3, <1>4, <1>5

LEMMA GgInvStep == GgInv /\ [GpNext]_gpVars => GgInv'
  <1> SUFFICES ASSUME GgInv, [GpNext]_gpVars PROVE GgInv'
    OBVIOUS
  <1>1. CASE GpTick
    <2>1. UNCHANGED <<gpPart, gpAllowed, gpLink, gpDoor>>
      BY <1>1 DEF GpTick, gpLimitVars, gpConnVars
    <2>2. GgIds'
      BY <1>1, GgIdsKept DEF GgInv
    <2>3. gpPart = "limit" => GgLimit'
      BY <1>1, GgLimitTick DEF GgInv
    <2> QED
      BY <2>1, <2>2, <2>3, GgKept DEF GgInv
  <1>2. CASE GpStepBack
    <2>1. UNCHANGED <<gpPart, gpAllowed, gpLink, gpDoor>> /\ gpPart = "ids"
      BY <1>2 DEF GpStepBack, gpLimitVars, gpConnVars
    <2>2. GgIds'
      BY <1>2, GgIdsKept DEF GgInv
    <2> QED
      BY <2>1, <2>2, GgKept DEF GgInv
  <1>3. CASE NextID
    <2>1. UNCHANGED <<gpPart, gpAllowed, gpLink, gpDoor>> /\ gpPart = "ids"
      BY <1>3 DEF NextID, gpLimitVars, gpConnVars
    <2>2. GgIds'
      BY <1>3, GgNextID DEF GgInv
    <2> QED
      BY <2>1, <2>2, GgKept DEF GgInv
  <1>4. ASSUME NEW c \in GpCaller, LimitStart(c) \/ Limit(c) \/ LimitZRem(c) PROVE GgInv'
    <2>1. UNCHANGED <<gpPart, gpClock, gpFlake, gpIssued, gpLink, gpDoor>> /\ gpPart = "limit"
      BY <1>4 DEF LimitStart, Limit, LimitZRem, gpIdVars, gpConnVars
    <2>2. GgLimit'
      BY <1>4, <2>1, GgLimitStart, GgLimitCall, GgLimitZRem DEF GgInv
    <2> QED
      BY <2>1, <2>2, GgKept DEF GgInv
  <1>5. ASSUME NEW r \in GpRoutine, ensureConnLocked(r) \/ ensureConn(r) \/ ChannelTake(r) \/ Channel(r)
        PROVE  GgInv'
    <2>1. UNCHANGED <<gpPart, gpClock, gpFlake, gpIssued, gpCall, gpSet, gpAllowed, gpDoor>>
      BY <1>5 DEF ensureConnLocked, ensureConn, ChannelTake, Channel, GpConnStep, gpIdVars, gpLimitVars
    <2>2. GgConn'
      BY <1>5, GgConnStep DEF GgInv
    <2> QED
      BY <2>1, <2>2, GgKept DEF GgInv
  <1>6. CASE Close \/ (\E k \in gpLink.open : GpBreak(k))
    <2>1. UNCHANGED <<gpPart, gpClock, gpFlake, gpIssued, gpCall, gpSet, gpAllowed, gpDoor>>
      BY <1>6 DEF Close, GpBreak, GpConnStep, gpIdVars, gpLimitVars
    <2>2. GgConn'
      BY <1>6, GgConnEnds DEF GgInv
    <2> QED
      BY <2>1, <2>2, GgKept DEF GgInv
  <1>7. ASSUME NEW t \in GpTokens, AuthenticateCall(t) PROVE GgInv'
    <2>1. UNCHANGED <<gpPart, gpClock, gpFlake, gpIssued, gpCall, gpSet, gpAllowed, gpLink>>
      BY <1>7 DEF AuthenticateCall, gpIdVars, gpLimitVars, gpConnVars
    <2>2. GpDoorHolds'
      BY <1>7, GgDoor
    <2> QED
      BY <2>1, <2>2, GgKept DEF GgInv
  <1>g. ASSUME NEW md, NEW roles, NEW required, GrpcCall(md, roles, required) PROVE GgInv'
    <2>1. UNCHANGED <<gpPart, gpClock, gpFlake, gpIssued, gpCall, gpSet, gpAllowed, gpLink>>
      BY <1>g DEF GrpcCall, gpIdVars, gpLimitVars, gpConnVars
    <2>2. GpDoorHolds'
      BY <1>g, GgDoorGrpc
    <2> QED
      BY <2>1, <2>2, GgKept DEF GgInv
  <1>8. ASSUME NEW m \in GpMessages, HandleMessageGuarded(m) PROVE GgInv'
    <2>1. UNCHANGED <<gpPart, gpClock, gpFlake, gpIssued, gpCall, gpSet, gpAllowed, gpLink>>
      BY <1>8 DEF HandleMessageGuarded, gpIdVars, gpLimitVars, gpConnVars
    <2>2. GpDoorHolds'
      BY <1>8, GgDoorMessage
    <2> QED
      BY <2>1, <2>2, GgKept DEF GgInv
  <1>9. CASE UNCHANGED gpVars
    <2>1. UNCHANGED <<gpPart, gpClock, gpFlake, gpIssued, gpCall, gpSet, gpAllowed, gpLink, gpDoor>>
      BY <1>9 DEF gpVars
    <2> QED
      BY <2>1, GgKept DEF GgInv
  <1> QED
    BY <1>1, <1>2, <1>3, <1>4, <1>5, <1>6, <1>7, <1>g, <1>8, <1>9 DEF GpNext

LEMMA GgInvImplies == GgInv => GpIdsIncrease /\ GpWithinLimit /\ GpClosedStays /\ GpDoorHolds
  <1> SUFFICES ASSUME GgInv PROVE GpIdsIncrease /\ GpWithinLimit /\ GpClosedStays /\ GpDoorHolds
    OBVIOUS
  <1>1. GpIdsIncrease
    <2>1. gpFlake \in GgFlakes /\ gpIssued \in Seq(GgFlakes)
      BY DEF GgInv, GgIds
    <2>2. ASSUME gpIssued /= <<>>, gpFlake.room = GpSequences
          PROVE  Parse(GpId(gpIssued[Len(gpIssued)])) =
                    [timestamp |-> gpFlake.timestamp, worker |-> GpWorker, sequence |-> gpFlake.sequence]
      <3>1. gpIssued[Len(gpIssued)] = gpFlake
        BY <2>2 DEF GgInv, GgIds
      <3> QED
        BY <3>1, <2>1, <2>2, GgParse
    <2>3. ASSUME ~gpClock.back, NEW i \in DOMAIN gpIssued, NEW j \in DOMAIN gpIssued, i < j,
                 gpIssued[i].sequence < gpIssued[i].room, gpIssued[j].sequence < gpIssued[j].room
          PROVE  GpId(gpIssued[i]) < GpId(gpIssued[j])
      <3>f. PICK f, g : f = gpIssued[i] /\ g = gpIssued[j]
        OBVIOUS
      <3>1. f \in GgFlakes /\ g \in GgFlakes
        BY <2>1, <3>f, LenProperties, ElementOfSeq
      <3>2. f.room = g.room /\ GgLater(f, g)
        BY <2>3, <3>f DEF GgInv, GgIds
      <3>3. GgFits(f) /\ GgFits(g)
        BY <2>3, <3>f DEF GgFits
      <3>4. GpId(f) < GpId(g)
        BY <3>1, <3>2, <3>3, GgLarger
      <3> QED
        BY <3>4, <3>f
    <2> QED
      BY <2>2, <2>3 DEF GpIdsIncrease
  <1>2. GpWithinLimit
    <2>1. CASE gpPart = "limit"
      BY <2>1 DEF GgInv, GgLimit
    <2>2. CASE gpPart # "limit"
      <3> SUFFICES ASSUME NEW k \in DOMAIN gpSet
                   PROVE  Cardinality({e \in gpAllowed : GpKeyOf(e.who) = k /\ e.score > gpClock.now - GpWindow}) <= GpLimit
        BY DEF GpWithinLimit
      <3>1. {e \in gpAllowed : GpKeyOf(e.who) = k /\ e.score > gpClock.now - GpWindow} = {}
        BY <2>2 DEF GgInv
      <3> QED
        BY <3>1, FS_EmptySet, GpAssumption
    <2> QED
      BY <2>1, <2>2
  <1> QED
    BY <1>1, <1>2 DEF GgInv, GgConn

\* What the shared Go packages promise, for every number of sequences, callers, goroutines,
\* limit and window and every setting of SequenceBits: ids with room for their sequence grow
\* unless the clock was stepped back, and with twelve bits Parse recovers their parts; of the
\* requests stamped within the last window no more than the limit are allowed per key; a
\* closed rabbitmq.Connection stays closed; and only a verified token, metadata that names a
\* user and a role that may, or a valid message within its rate, passes.
THEOREM PackagesSafe == GpSpec => [](GpIdsIncrease /\ GpWithinLimit /\ GpClosedStays /\ GpDoorHolds)
  <1>1. GpInit => GgInv
    BY GgInvInit
  <1>2. GgInv /\ [GpNext]_gpVars => GgInv'
    BY GgInvStep
  <1>3. GgInv => GpIdsIncrease /\ GpWithinLimit /\ GpClosedStays /\ GpDoorHolds
    BY GgInvImplies
  <1> QED
    BY <1>1, <1>2, <1>3, PTL DEF GpSpec

-----------------------------------------------------------------------------
(***************************************************************************)
(* Proofs about SearchIndex, for any number of entities, topics,           *)
(* consumers, events, retries and faults.                                  *)
(*                                                                         *)
(* An event is open while a topic or the queue holds it, and settled when  *)
(* it is dead or lost, when the document is at least as new, or when its   *)
(* entity was written without a reliable version check and holds one of    *)
(* the published versions.  No step undoes the second, and only a consumer *)
(* whose event is settled takes it off.                                    *)
(***************************************************************************)

SgPub == (UNION {Range(seRun.log[t]) : t \in SeTopic}) \cup seRun.queue

\* The entities SeNewestWins speaks of.
SgClean(e) ==
    \A x \in SgPub : x.ent = e => x.op # "delete" /\ x.kind \in {"delivery", "driver"}

\* An event that need not be delivered again.
SgSettled(x) ==
    \/ x \in seDead \cup seLost
    \/ x.ent \in seRaced /\ \E y \in SgPub : y.ent = x.ent /\ y.ver = seDocs[x.ent].ver
    \/ seDocs[x.ent].ver >= x.ver

SgOpen(x) == (\E t \in SeTopic : \E i \in DOMAIN seLog[t] : seLog[t][i] = x) \/ x \in seQueue

\* A consumer at work holds the head of its topic; past the version check the document it
\* is going to write is newer than the one it has seen, and at the commit its event is settled.
SgWorkerOK(c, w) ==
    /\ w = [pc |-> w.pc, ev |-> w.ev, seen |-> w.seen, doc |-> w.doc, tries |-> w.tries]
    /\ w.pc # "idle" =>
          /\ w.ev \in SgPub
          /\ c \in SeTopic => seLog[c] # <<>> /\ w.ev = Head(seLog[c])
    /\ w.pc \notin {"idle", "dlq", "commit"} /\ SgClean(w.ev.ent) =>
          w.pc \in {"name", "check", "write"} /\ w.doc.ver = w.ev.ver
    /\ w.pc = "write" /\ SgClean(w.ev.ent) =>
          w.ev.ent \in seRaced \/ w.seen = -1 \/ (w.seen \in Int /\ w.seen < w.ev.ver)
    /\ w.pc = "commit" /\ SgClean(w.ev.ent) => SgSettled(w.ev)

\* The version of a document is that of an event, or older than all of them.
SgDocOK(e) ==
    /\ seDocs[e].ver \in Int
    /\ \/ \E x \in SgPub : x.ent = e /\ x.ver = seDocs[e].ver
       \/ \A x \in SgPub : x.ent = e => seDocs[e].ver < x.ver

SgTypes ==
    /\ \A x \in SgPub : /\ x.ent \in SeEntity /\ x.ver \in Nat /\ x.num \in Int
                         /\ x.kind \in {"delivery", "driver", "media", "user"}
    /\ {"log", "queue"} \subseteq DOMAIN seRun
    /\ seLog = [t \in SeTopic |-> seLog[t]]
    /\ \A t \in SeTopic : seLog[t] \in Seq(SgPub)
    /\ seQueue \subseteq SgPub
    /\ seWork = [c \in SeConsumer |-> seWork[c]]
    /\ seDocs = [e \in SeEntity |-> seDocs[e]]

\* The inductive invariant.
SgInv ==
    /\ SgTypes
    /\ \A c \in SeConsumer : SgWorkerOK(c, seWork[c])
    /\ \A e \in SeEntity : SgClean(e) => SgDocOK(e)
    /\ \A x \in SgPub : SgClean(x.ent) => SgOpen(x) \/ SgSettled(x)

LEMMA SgIdleOK == \A c : SgWorkerOK(c, SeIdle)
  <1>1. /\ SeIdle = [pc |-> SeIdle.pc, ev |-> SeIdle.ev, seen |-> SeIdle.seen, doc |-> SeIdle.doc, tries |-> SeIdle.tries]
        /\ SeIdle.pc = "idle"
    BY DEF SeIdle
  <1> QED
    BY <1>1 DEF SgWorkerOK

LEMMA SgInvInit == SeInit => SgInv
  <1> SUFFICES ASSUME SeInit PROVE SgInv
    OBVIOUS
  <1>1. /\ seRun \in SeRuns /\ seLog = seRun.log /\ seQueue = seRun.queue /\ seDocs = seRun.docs
        /\ seWork = [c \in SeConsumer |-> SeIdle]
    BY DEF SeInit
  <1>2. \A x \in SgPub : SeEventOK(x, seDocs)
    <2>1. /\ \A x \in seRun.queue : SeEventOK(x, seRun.docs)
          /\ \A t \in SeTopic : \A x \in Range(seRun.log[t]) : SeEventOK(x, seRun.docs)
      BY <1>1, SeAssumption, Zenon
    <2> QED
      BY <1>1, <2>1, Zenon DEF SgPub
  <1>3. /\ seDocs = [e \in SeEntity |-> seDocs[e]] /\ \A e \in SeEntity : seDocs[e].ver \in Int
        /\ seLog = [t \in SeTopic |-> seLog[t]]
    BY <1>1, SeAssumption
  <1>4. ASSUME NEW t \in SeTopic PROVE seLog[t] \in Seq(SgPub)
    <2>1. seLog[t] \in Seq(Range(seLog[t])) /\ Range(seLog[t]) \subseteq SgPub
      BY <1>1, SeAssumption DEF SgPub
    <2> QED
      BY <2>1, SeqMonotonic
  <1>5. SgTypes
    <2>1. \A x \in SgPub : /\ x.ent \in SeEntity /\ x.ver \in Nat /\ x.num \in Int
                         /\ x.kind \in {"delivery", "driver", "media", "user"}
      BY <1>2 DEF SeEventOK
    <2>2. seQueue \subseteq SgPub
      BY <1>1 DEF SgPub
    <2>3. {"log", "queue"} \subseteq DOMAIN seRun
      BY <1>1, SeAssumption
    <2>4. seWork = [c \in SeConsumer |-> seWork[c]]
      BY <1>1
    <2> QED
      BY <1>3, <1>4, <2>1, <2>2, <2>3, <2>4 DEF SgTypes
  <1>6. ASSUME NEW c \in SeConsumer PROVE SgWorkerOK(c, seWork[c])
    <2>1. seWork[c] = SeIdle
      BY <1>1
    <2> QED
      BY <2>1, SgIdleOK
  <1>7. ASSUME NEW e \in SeEntity PROVE SgDocOK(e)
    BY <1>2, <1>3 DEF SgDocOK, SeEventOK
  <1>8. ASSUME NEW x \in SgPub PROVE SgOpen(x)
    BY <1>1 DEF SgPub, SgOpen, Range
  <1> QED
    BY <1>5, <1>6, <1>7, <1>8 DEF SgInv

LEMMA SgInvImplies == SgInv => SeNewestWins
  <1>0. \A e : SePublished(e) = SgPub
    BY DEF SePublished, SgPub
  <1> SUFFICES ASSUME SgInv, NEW e \in SeEntity, NEW evs, evs = {x \in SgPub : x.ent = e},
                      evs # {}, ~SePending(e),
                      \A x \in evs : x.op # "delete" /\ x.kind \in {"delivery", "driver"},
                      evs \cap (seDead \cup seLost) = {}
               PROVE  \E x \in evs : seDocs[e].ver = x.ver /\ (e \in seRaced \/ \A y \in evs : y.ver <= x.ver)
    BY <1>0, ZenonT(60) DEF SeNewestWins
  <1>1. SgClean(e)
    BY DEF SgClean
  <1>2. \A x \in evs : ~SgOpen(x)
    BY DEF SePending, SgOpen
  <1>3. \A x \in evs : x.ver \in Nat /\ (seDocs[e].ver >= x.ver \/ (e \in seRaced /\ \E y \in evs : y.ver = seDocs[e].ver))
    BY <1>1, <1>2 DEF SgInv, SgTypes, SgSettled
  <1>4. SgDocOK(e)
    BY <1>1 DEF SgInv
  <1>5. PICK x \in evs : x.ver = seDocs[e].ver
    BY <1>3, <1>4 DEF SgDocOK
  <1> QED
    BY <1>3, <1>4, <1>5 DEF SgDocOK

-----------------------------------------------------------------------------
(* What a step may do *)

\* Nothing that settles an event is undone.
SgForward ==
    /\ seRun'.log = seRun.log /\ seRun'.queue = seRun.queue /\ {"log", "queue"} \subseteq DOMAIN seRun'
    /\ seDead \subseteq seDead' /\ seLost \subseteq seLost' /\ seRaced \subseteq seRaced'
    /\ seDocs' = [e \in SeEntity |-> seDocs'[e]]
    /\ \A e \in SeEntity : SgClean(e) =>
          /\ seDocs'[e].ver \in Int
          /\ e \in seRaced' \/ seDocs'[e].ver >= seDocs[e].ver
          /\ seDocs'[e].ver = seDocs[e].ver \/ \E x \in SgPub : x.ent = e /\ x.ver = seDocs'[e].ver

LEMMA SgPubKept == ASSUME SgForward PROVE SgPub' = SgPub /\ \A e : SgClean(e)' <=> SgClean(e)
  <1>1. SgPub' = SgPub
    BY DEF SgForward, SgPub
  <1> QED
    BY <1>1 DEF SgClean

LEMMA SgSettledKept ==
    ASSUME SgInv, SgForward, NEW x \in SgPub, SgClean(x.ent), SgSettled(x)
    PROVE  SgSettled(x)'
  <1>n. PICK n : n = x.ent
    OBVIOUS
  <1>1. n \in SeEntity /\ x.ver \in Nat /\ SgPub' = SgPub
    BY <1>n, SgPubKept DEF SgInv, SgTypes
  <1>2. SgDocOK(n)
    BY <1>1, <1>n DEF SgInv
  <1>3. /\ seDocs'[n].ver \in Int
        /\ n \in seRaced' \/ seDocs'[n].ver >= seDocs[n].ver
        /\ seDocs'[n].ver = seDocs[n].ver \/ \E y \in SgPub : y.ent = n /\ y.ver = seDocs'[n].ver
    BY <1>1, <1>n DEF SgForward
  <1>4. seDead \subseteq seDead' /\ seLost \subseteq seLost' /\ seRaced \subseteq seRaced'
    BY DEF SgForward
  <1>5. CASE x \in seDead \cup seLost
    BY <1>4, <1>5 DEF SgSettled
  <1>6. CASE n \in seRaced /\ \E y \in SgPub : y.ent = n /\ y.ver = seDocs[n].ver
    <2>1. \E y \in SgPub : y.ent = n /\ y.ver = seDocs'[n].ver
      BY <1>3, <1>6
    <2> QED
      BY <1>1, <1>4, <1>6, <1>n, <2>1 DEF SgSettled
  <1>7. CASE seDocs[n].ver >= x.ver
    <2>1. seDocs[n].ver \in Int /\ \E y \in SgPub : y.ent = n /\ y.ver = seDocs[n].ver
      BY <1>1, <1>2, <1>7, <1>n DEF SgDocOK
    <2>2. \E y \in SgPub : y.ent = n /\ y.ver = seDocs'[n].ver
      BY <1>3, <2>1
    <2>3. CASE n \in seRaced'
      BY <1>1, <1>n, <2>2, <2>3 DEF SgSettled
    <2>4. CASE seDocs'[n].ver >= seDocs[n].ver
      <3>1. seDocs'[n].ver >= x.ver
        BY <1>1, <1>3, <1>7, <2>1, <2>4
      <3> QED
        BY <1>n, <3>1 DEF SgSettled
    <2> QED
      BY <1>3, <2>3, <2>4
  <1> QED
    BY <1>5, <1>6, <1>7, <1>n DEF SgSettled

\* A consumer that does not move.
LEMMA SgWorkerKept ==
    ASSUME SgInv, SgForward, NEW c \in SeConsumer, NEW w, SgWorkerOK(c, w), c \in SeTopic => seLog'[c] = seLog[c]
    PROVE  SgWorkerOK(c, w)'
  <1>1. SgPub' = SgPub /\ \A e : SgClean(e)' <=> SgClean(e)
    BY SgPubKept
  <1>2. seRaced \subseteq seRaced'
    BY DEF SgForward
  <1>3. w.pc = "commit" /\ SgClean(w.ev.ent) => w.ev \in SgPub /\ SgSettled(w.ev)
    BY DEF SgWorkerOK
  <1>4. w.pc = "commit" /\ SgClean(w.ev.ent) => SgSettled(w.ev)'
    BY <1>3, SgSettledKept
  <1> QED
    BY <1>1, <1>2, <1>4 DEF SgWorkerOK

\* The invariant survives a step that goes forward, drops only settled events and leaves
\* every consumer in order.
LEMMA SgStep ==
    ASSUME SgInv, SgForward,
           seLog' = [t \in SeTopic |-> seLog'[t]], \A t \in SeTopic : seLog'[t] \in Seq(SgPub),
           seQueue' \subseteq SgPub, seWork' = [c \in SeConsumer |-> seWork'[c]],
           \A x \in SgPub : SgClean(x.ent) /\ SgOpen(x) => SgOpen(x)' \/ SgSettled(x)',
           \A c \in SeConsumer : SgWorkerOK(c, seWork[c])'
    PROVE  SgInv'
  <1>1. SgPub' = SgPub /\ \A e : SgClean(e)' <=> SgClean(e)
    BY SgPubKept
  <1>2. SgTypes'
    BY <1>1 DEF SgInv, SgTypes, SgForward
  <1>4. ASSUME NEW e \in SeEntity, SgClean(e) PROVE SgDocOK(e)'
    <2>1. SgDocOK(e)
      BY <1>4 DEF SgInv
    <2>2. /\ seDocs'[e].ver \in Int
          /\ seDocs'[e].ver = seDocs[e].ver \/ \E x \in SgPub : x.ent = e /\ x.ver = seDocs'[e].ver
      BY <1>4 DEF SgForward
    <2> QED
      BY <2>1, <2>2, <1>1 DEF SgDocOK
  <1>5. ASSUME NEW x \in SgPub, SgClean(x.ent) PROVE SgOpen(x)' \/ SgSettled(x)'
    <2>1. SgOpen(x) \/ SgSettled(x)
      BY <1>5 DEF SgInv
    <2> QED
      BY <2>1, <1>5, SgSettledKept
  <1> QED
    BY <1>1, <1>2, <1>4, <1>5 DEF SgInv

\* A consumer moves, and no message is taken off.
LEMMA SgMove ==
    ASSUME SgInv, SgForward, UNCHANGED <<seLog, seQueue>>, NEW c \in SeConsumer, NEW w,
           seWork' = [seWork EXCEPT ![c] = w], SgWorkerOK(c, w)'
    PROVE  SgInv'
  <1>1. /\ seWork' = [d \in SeConsumer |-> seWork'[d]] /\ seWork'[c] = w
        /\ \A d \in SeConsumer \ {c} : seWork'[d] = seWork[d]
    BY DEF SgInv, SgTypes
  <1>2. ASSUME NEW d \in SeConsumer PROVE SgWorkerOK(d, seWork[d])'
    <2>1. CASE d = c
      BY <1>1, <2>1 DEF SgWorkerOK
    <2>2. CASE d # c
      <3>1. PICK v : v = seWork[d]
        OBVIOUS
      <3>2. SgWorkerOK(d, v)'
        BY <3>1, SgWorkerKept DEF SgInv
      <3>3. seWork'[d] = v
        BY <1>1, <2>2, <3>1
      <3> QED
        BY <3>2, <3>3 DEF SgWorkerOK
    <2> QED
      BY <2>1, <2>2
  <1>3. \A x : SgOpen(x)' <=> SgOpen(x)
    BY DEF SgOpen
  <1> QED
    BY <1>1, <1>2, <1>3, SgStep DEF SgInv, SgTypes
LEMMA SgStill ==
    ASSUME SgInv, UNCHANGED seDocs, SeFault \/ UNCHANGED seRun,
           seDead \subseteq seDead', seLost \subseteq seLost', seRaced \subseteq seRaced'
    PROVE  SgForward
  <1>1. seRun'.log = seRun.log /\ seRun'.queue = seRun.queue /\ {"log", "queue"} \subseteq DOMAIN seRun'
    <2>1. CASE UNCHANGED seRun
      BY <2>1 DEF SgInv, SgTypes
    <2>2. CASE SeFault
      BY <2>2 DEF SgInv, SgTypes, SeFault
    <2> QED
      BY <2>1, <2>2
  <1>2. \A e \in SeEntity : SgClean(e) => seDocs[e].ver \in Int
    BY DEF SgInv, SgDocOK
  <1>3. seDocs = [e \in SeEntity |-> seDocs[e]]
    BY DEF SgInv, SgTypes
  <1> QED
    BY <1>1, <1>2, <1>3 DEF SgForward

-----------------------------------------------------------------------------
(* The consumers *)

\* The handler of an event begins.
LEMMA SgHandles ==
    ASSUME SgInv, NEW c \in SeConsumer, NEW e \in SgPub, c \in SeTopic => seLog[c] # <<>> /\ e = Head(seLog[c]),
           NEW w, w = HandleEvent(c, e) \/ \E n : w = [HandleEvent(c, e) EXCEPT !.tries = n]
    PROVE  SgWorkerOK(c, w)
  <1>1. w.pc = HandlerEntry(e) /\ w.ev = e /\ w.doc = DocOf(e)
        /\ w = [pc |-> w.pc, ev |-> w.ev, seen |-> w.seen, doc |-> w.doc, tries |-> w.tries]
    <2>p. PICK p, d : p = HandlerEntry(e) /\ d = DocOf(e)
      OBVIOUS
    <2>s. PICK s : s = SeIdle
      OBVIOUS
    <2>0. s = [pc |-> s.pc, ev |-> s.ev, seen |-> s.seen, doc |-> s.doc, tries |-> s.tries]
      BY <2>s, SgIdleOK DEF SgWorkerOK
    <2>h. PICK h : h = HandleEvent(c, e)
      OBVIOUS
    <2>1. h = [pc |-> p, ev |-> e, seen |-> s.seen, doc |-> d, tries |-> s.tries]
      <3>1. h = [s EXCEPT !.pc = p, !.ev = e, !.doc = d]
        BY <2>p, <2>s, <2>h DEF HandleEvent
      <3> QED
        BY <2>0, <3>1
    <2>2. PICK n : w = [pc |-> p, ev |-> e, seen |-> s.seen, doc |-> d, tries |-> n]
      <3>1. CASE w = h
        BY <2>1, <3>1
      <3>2. ASSUME NEW m, w = [h EXCEPT !.tries = m]
            PROVE  w = [pc |-> p, ev |-> e, seen |-> s.seen, doc |-> d, tries |-> m]
        BY <2>1, <3>2
      <3> QED
        BY <3>1, <3>2, <2>h
    <2> QED
      BY <2>2, <2>p
  <1>2. HandlerEntry(e) \in {"delete", "name", "merge", "check"}
    BY DEF HandlerEntry
  <1>3. ASSUME SgClean(e.ent) PROVE HandlerEntry(e) \in {"name", "check"} /\ DocOf(e).ver = e.ver
    <2>1. e.op # "delete" /\ e.kind \in {"delivery", "driver"}
      BY <1>3 DEF SgClean
    <2>2. HandlerEntry(e) \in {"name", "check"}
      BY <2>1 DEF HandlerEntry
    <2>3. DocOf(e).ver = e.ver
      <3>1. CASE e.kind = "delivery"
        BY <3>1 DEF DocOf, DeliveryDoc
      <3>2. CASE e.kind = "driver"
        BY <3>2 DEF DocOf, DriverDoc
      <3> QED
        BY <2>1, <3>1, <3>2
    <2> QED
      BY <2>2, <2>3
  <1> QED
    BY <1>1, <1>2, <1>3 DEF SgWorkerOK

LEMMA SgFetch ==
    ASSUME SgInv, NEW c \in SeConsumer, (c \in SeTopic /\ FetchMessage(c)) \/ (c \in SeRabbit /\ HandleIndexEvent(c))
    PROVE  SgInv'
  <1>1. UNCHANGED <<seRun, seLog, seQueue, seDocs, seDead, seLost, seRaced>>
    BY DEF FetchMessage, HandleIndexEvent
  <1>2. PICK e \in SgPub : /\ c \in SeTopic => seLog[c] # <<>> /\ e = Head(seLog[c])
                           /\ seWork' = [seWork EXCEPT ![c] = HandleEvent(c, e)]
    <2>1. CASE c \in SeTopic /\ FetchMessage(c)
      <3>1. seLog[c] \in Seq(SgPub) /\ seLog[c] # <<>>
        BY <2>1 DEF SgInv, SgTypes, FetchMessage
      <3>2. Head(seLog[c]) \in SgPub
        BY <3>1, HeadTailProperties
      <3> QED
        BY <2>1, <3>1, <3>2 DEF FetchMessage
    <2>2. CASE c \in SeRabbit /\ HandleIndexEvent(c)
      <3>1. c \notin SeTopic /\ seQueue \subseteq SgPub
        BY <2>2, SeAssumption DEF SgInv, SgTypes
      <3> QED
        BY <2>2, <3>1 DEF HandleIndexEvent
    <2> QED
      BY <2>1, <2>2
  <1>w. PICK w : w = HandleEvent(c, e)
    OBVIOUS
  <1>3. SgForward
    BY <1>1, SgStill
  <1>4. SgWorkerOK(c, w)
    BY <1>2, <1>w, SgHandles
  <1>5. SgWorkerOK(c, w)'
    BY <1>1, <1>3, <1>4, SgWorkerKept
  <1> QED
    BY <1>1, <1>2, <1>3, <1>5, <1>w, SgMove

\* What a consumer holds, as constants.
LEMMA SgWorker ==
    ASSUME SgInv, NEW c \in SeConsumer
    PROVE  /\ SgWorkerOK(c, seWork[c])
           /\ seWork[c] = [pc |-> seWork[c].pc, ev |-> seWork[c].ev, seen |-> seWork[c].seen,
                           doc |-> seWork[c].doc, tries |-> seWork[c].tries]
           /\ seWork[c].pc # "idle" => seWork[c].ev \in SgPub /\ seWork[c].ev.ent \in SeEntity
                                       /\ seWork[c].ev.ver \in Nat
  BY DEF SgInv, SgTypes, SgWorkerOK

LEMMA SgPrepare ==
    ASSUME SgInv, NEW c \in SeConsumer, ResolveName(c) \/ MergeMedia(c)
    PROVE  SgInv'
  <1>v. PICK v : v = seWork[c]
    OBVIOUS
  <1>0. SgWorkerOK(c, v) /\ v = [pc |-> v.pc, ev |-> v.ev, seen |-> v.seen, doc |-> v.doc, tries |-> v.tries]
    BY <1>v, SgWorker
  <1>1. UNCHANGED <<seLog, seQueue, seDocs, seDead, seLost, seRaced>> /\ (SeFault \/ UNCHANGED seRun)
    BY DEF ResolveName, MergeMedia
  <1>2. PICK w, d : /\ seWork' = [seWork EXCEPT ![c] = w]
                    /\ w = [v EXCEPT !.pc = "check", !.doc = d]
                    /\ v.pc = "merge" \/ (v.pc = "name" /\ d = v.doc)
    <2>1. CASE seWork' = [seWork EXCEPT ![c].pc = "check"] /\ v.pc \in {"name", "merge"}
      <3>w. PICK w : w = [v EXCEPT !.pc = "check"]
        OBVIOUS
      <3>1. w = [v EXCEPT !.pc = "check", !.doc = v.doc]
        BY <1>0, <3>w
      <3>2. seWork' = [seWork EXCEPT ![c] = w]
        BY <2>1, <3>w, <1>v
      <3> QED
        BY <2>1, <3>1, <3>2
    <2>2. CASE v.pc = "merge" /\ \E b : seWork' = [seWork EXCEPT ![c].pc = "check", ![c].doc.file = b]
      <3>1. PICK b : seWork' = [seWork EXCEPT ![c].pc = "check", ![c].doc.file = b]
        BY <2>2
      <3>2. PICK d, w : d = [v.doc EXCEPT !.file = b] /\ w = [v EXCEPT !.pc = "check", !.doc = d]
        OBVIOUS
      <3>3. seWork' = [seWork EXCEPT ![c] = w]
        BY <3>1, <3>2, <1>v
      <3> QED
        BY <2>2, <3>2, <3>3
    <2> QED
      BY <2>1, <2>2, <1>v DEF ResolveName, MergeMedia, SeGoto
  <1>3. SgForward
    BY <1>1, SgStill
  <1>4. w.pc = "check" /\ w.ev = v.ev /\ w.doc = d
        /\ w = [pc |-> w.pc, ev |-> w.ev, seen |-> w.seen, doc |-> w.doc, tries |-> w.tries]
    BY <1>0, <1>2
  <1>5. SgWorkerOK(c, w)
    BY <1>0, <1>2, <1>4 DEF SgWorkerOK
  <1>6. SgWorkerOK(c, w)'
    BY <1>1, <1>3, <1>5, SgWorkerKept
  <1> QED
    BY <1>1, <1>2, <1>3, <1>6, SgMove
\* The first half of upsertDoc: an event that is passed over is settled by the document.
LEMMA SgCheck ==
    ASSUME SgInv, NEW c \in SeConsumer, CheckVersion(c)
    PROVE  SgInv'
  <1>v. PICK v, e, x : v = seWork[c] /\ e = v.ev /\ x = seDocs[e.ent].ver
    OBVIOUS
  <1>0. /\ SgWorkerOK(c, v) /\ v = [pc |-> v.pc, ev |-> v.ev, seen |-> v.seen, doc |-> v.doc, tries |-> v.tries]
        /\ v.pc = "check" /\ e \in SgPub /\ e.ent \in SeEntity /\ e.ver \in Nat
    BY <1>v, SgWorker DEF CheckVersion
  <1>1. /\ UNCHANGED <<seLog, seQueue, seDocs, seDead, seLost>> /\ (SeFault \/ UNCHANGED seRun)
        /\ seRaced' = seRaced \/ seRaced' = seRaced \cup {e.ent}
    BY <1>v DEF CheckVersion
  <1>2. ASSUME SgClean(e.ent) PROVE IncomingVersion(e) = e.ver /\ x \in Int
    BY <1>0, <1>2, <1>v DEF SgClean, IncomingVersion, SgInv, SgDocOK
  <1>3. SgForward
    BY <1>1, SgStill
  <1>4. PICK w : /\ seWork' = [seWork EXCEPT ![c] = w]
                 /\ \/ w = [v EXCEPT !.pc = "commit"] /\ Stale(x, IncomingVersion(e))
                    \/ w = [v EXCEPT !.pc = "write", !.seen = x] /\ ~Stale(x, IncomingVersion(e))
                    \/ w = [v EXCEPT !.pc = "write"] /\ e.ent \in seRaced'
    <2>n. PICK i : i = IncomingVersion(e)
      OBVIOUS
    <2>1. \/ Stale(x, i) /\ seWork' = [seWork EXCEPT ![c].pc = "commit"]
          \/ ~Stale(x, i) /\ seWork' = [seWork EXCEPT ![c].pc = "write", ![c].seen = x]
          \/ seWork' = [seWork EXCEPT ![c].pc = "write"] /\ e.ent \in seRaced'
      BY <1>v, <2>n DEF CheckVersion, SeGoto, GetDocumentVersion
    <2>2. CASE Stale(x, i) /\ seWork' = [seWork EXCEPT ![c].pc = "commit"]
      <3>w. PICK w : w = [v EXCEPT !.pc = "commit"]
        OBVIOUS
      <3>1. seWork' = [seWork EXCEPT ![c] = w]
        BY <2>2, <3>w, <1>v
      <3> QED
        BY <2>2, <2>n, <3>1, <3>w
    <2>3. CASE ~Stale(x, i) /\ seWork' = [seWork EXCEPT ![c].pc = "write", ![c].seen = x]
      <3>w. PICK w : w = [v EXCEPT !.pc = "write", !.seen = x]
        OBVIOUS
      <3>1. seWork' = [seWork EXCEPT ![c] = w]
        BY <2>3, <3>w, <1>v
      <3> QED
        BY <2>3, <2>n, <3>1, <3>w
    <2>4. CASE seWork' = [seWork EXCEPT ![c].pc = "write"] /\ e.ent \in seRaced'
      <3>w. PICK w : w = [v EXCEPT !.pc = "write"]
        OBVIOUS
      <3>1. seWork' = [seWork EXCEPT ![c] = w]
        BY <2>4, <3>w, <1>v
      <3> QED
        BY <2>4, <3>1, <3>w
    <2> QED
      BY <2>1, <2>2, <2>3, <2>4
  <1>5. w.ev = e /\ w.doc = v.doc
        /\ w = [pc |-> w.pc, ev |-> w.ev, seen |-> w.seen, doc |-> w.doc, tries |-> w.tries]
        /\ w.pc \in {"commit", "write"}
    BY <1>0, <1>4, <1>v
  <1>6. ASSUME w.pc = "write", SgClean(e.ent)
        PROVE  e.ent \in seRaced' \/ w.seen = -1 \/ (w.seen \in Int /\ w.seen < e.ver)
    <2>1. CASE w = [v EXCEPT !.pc = "write", !.seen = x] /\ ~Stale(x, IncomingVersion(e))
      <3>1. w.seen = x
        BY <2>1, <1>0
      <3> QED
        BY <2>1, <3>1, <1>0, <1>2, <1>6 DEF Stale
    <2>2. CASE w = [v EXCEPT !.pc = "write"] /\ e.ent \in seRaced'
      BY <2>2
    <2>3. w # [v EXCEPT !.pc = "commit"]
      BY <1>0, <1>6
    <2> QED
      BY <2>1, <2>2, <2>3, <1>4
  <1>7. ASSUME w.pc = "commit", SgClean(e.ent) PROVE SgSettled(e)
    <2>1. Stale(x, IncomingVersion(e))
      BY <1>0, <1>4, <1>7
    <2> QED
      BY <2>1, <1>2, <1>7, <1>v DEF Stale, SgSettled
  <1>8. /\ SgPub' = SgPub /\ \A d : SgClean(d)' <=> SgClean(d)
        /\ w.pc = "commit" /\ SgClean(e.ent) => SgSettled(e)'
    BY <1>0, <1>3, <1>7, SgPubKept, SgSettledKept
  <1>9. SgWorkerOK(c, w)'
    <2>1. SgClean(e.ent) => w.doc.ver = e.ver
      BY <1>0, <1>5, <1>v DEF SgWorkerOK
    <2>2. e \in SgPub' /\ (c \in SeTopic => seLog'[c] # <<>> /\ e = Head(seLog'[c]))
      BY <1>0, <1>1, <1>8, <1>v DEF SgWorkerOK
    <2>3. w.pc = "write" /\ SgClean(e.ent)' => e.ent \in seRaced' \/ w.seen = -1 \/ (w.seen \in Int /\ w.seen < e.ver)
      BY <1>6, <1>8
    <2>4. w.pc = "commit" /\ SgClean(e.ent)' => SgSettled(e)'
      BY <1>8
    <2> QED
      BY <2>1, <2>2, <2>3, <2>4, <1>5, <1>8 DEF SgWorkerOK
  <1> QED
    BY <1>1, <1>3, <1>4, <1>9, SgMove

\* The second half: either the document is still the one that was seen and becomes newer, or
\* the entity counts as raced.
LEMMA SgIndex ==
    ASSUME SgInv, NEW c \in SeConsumer, IndexDoc(c)
    PROVE  SgInv'
  <1>v. PICK v, e, n : v = seWork[c] /\ e = v.ev /\ n = e.ent
    OBVIOUS
  <1>0. /\ SgWorkerOK(c, v) /\ v = [pc |-> v.pc, ev |-> v.ev, seen |-> v.seen, doc |-> v.doc, tries |-> v.tries]
        /\ v.pc = "write" /\ e \in SgPub /\ n \in SeEntity /\ e.ver \in Nat
    BY <1>v, SgWorker DEF IndexDoc
  <1>1. /\ UNCHANGED <<seRun, seLog, seQueue, seDead, seLost>>
        /\ seDocs' = [seDocs EXCEPT ![n] = v.doc]
        /\ seRaced' = IF seDocs[n].ver = v.seen THEN seRaced ELSE seRaced \cup {n}
        /\ seWork' = [seWork EXCEPT ![c].pc = "commit"]
    BY <1>v DEF IndexDoc, SeGoto
  <1>2. seDocs' = [d \in SeEntity |-> seDocs'[d]] /\ seDocs'[n] = v.doc
        /\ \A d \in SeEntity \ {n} : seDocs'[d] = seDocs[d]
    BY <1>0, <1>1 DEF SgInv, SgTypes
  <1>3. ASSUME NEW d \in SeEntity, SgClean(d)
        PROVE  /\ seDocs[d].ver \in Int /\ seDocs'[d].ver \in Int
               /\ d \in seRaced' \/ seDocs'[d].ver >= seDocs[d].ver
               /\ seDocs'[d].ver = seDocs[d].ver \/ \E x \in SgPub : x.ent = d /\ x.ver = seDocs'[d].ver
    <2>1. SgDocOK(d)
      BY <1>3 DEF SgInv
    <2>2. CASE d # n
      BY <2>1, <2>2, <1>2 DEF SgDocOK
    <2>3. CASE d = n
      <3>1. seDocs'[d].ver = e.ver
        BY <2>3, <1>0, <1>2, <1>3, <1>v DEF SgWorkerOK
      <3>2. n \in seRaced \/ v.seen = -1 \/ (v.seen \in Int /\ v.seen < e.ver)
        BY <2>3, <1>0, <1>3, <1>v DEF SgWorkerOK
      <3>3. n \in seRaced' \/ seDocs'[d].ver >= seDocs[d].ver
        BY <2>3, <3>1, <3>2, <1>0, <1>1
      <3> QED
        BY <2>1, <2>3, <3>1, <3>3, <1>0, <1>v DEF SgDocOK
    <2> QED
      BY <2>2, <2>3
  <1>4. SgForward
    BY <1>1, <1>2, <1>3 DEF SgForward, SgInv, SgTypes
  <1>w. PICK w : w = [v EXCEPT !.pc = "commit"]
    OBVIOUS
  <1>5. /\ seWork' = [seWork EXCEPT ![c] = w] /\ w.pc = "commit" /\ w.ev = e
        /\ w = [pc |-> w.pc, ev |-> w.ev, seen |-> w.seen, doc |-> w.doc, tries |-> w.tries]
    BY <1>0, <1>1, <1>v, <1>w
  <1>6. ASSUME SgClean(n) PROVE SgSettled(e)'
    <2>1. seDocs'[n].ver = e.ver
      BY <1>0, <1>2, <1>6, <1>v DEF SgWorkerOK
    <2> QED
      BY <2>1, <1>0, <1>v DEF SgSettled
  <1>7. SgPub' = SgPub /\ \A d : SgClean(d)' <=> SgClean(d)
    BY <1>4, SgPubKept
  <1>8. SgWorkerOK(c, w)'
    BY <1>0, <1>1, <1>5, <1>6, <1>7, <1>v DEF SgWorkerOK
  <1> QED
    BY <1>1, <1>4, <1>5, <1>8, SgMove

\* Only entities that SeNewestWins leaves aside are deleted.
LEMMA SgDelete ==
    ASSUME SgInv, NEW c \in SeConsumer, DeleteDoc(c)
    PROVE  SgInv'
  <1>v. PICK v, e, n : v = seWork[c] /\ e = v.ev /\ n = e.ent
    OBVIOUS
  <1>0. /\ SgWorkerOK(c, v) /\ v = [pc |-> v.pc, ev |-> v.ev, seen |-> v.seen, doc |-> v.doc, tries |-> v.tries]
        /\ v.pc = "delete" /\ e \in SgPub /\ n \in SeEntity
    BY <1>v, SgWorker DEF DeleteDoc
  <1>1. /\ UNCHANGED <<seRun, seLog, seQueue, seDead, seLost, seRaced>>
        /\ seDocs' = [seDocs EXCEPT ![n] = NoDoc]
        /\ seWork' = [seWork EXCEPT ![c].pc = "commit"]
    BY <1>v DEF DeleteDoc, SeGoto
  <1>2. ~SgClean(n)
    BY <1>0, <1>v DEF SgWorkerOK
  <1>3. seDocs' = [d \in SeEntity |-> seDocs'[d]] /\ \A d \in SeEntity \ {n} : seDocs'[d] = seDocs[d]
    BY <1>0, <1>1 DEF SgInv, SgTypes
  <1>4. \A d \in SeEntity : SgClean(d) => seDocs'[d] = seDocs[d] /\ seDocs[d].ver \in Int
    BY <1>2, <1>3 DEF SgInv, SgDocOK
  <1>5. SgForward
    BY <1>1, <1>3, <1>4 DEF SgForward, SgInv, SgTypes
  <1>w. PICK w : w = [v EXCEPT !.pc = "commit"]
    OBVIOUS
  <1>6. /\ seWork' = [seWork EXCEPT ![c] = w] /\ w.pc = "commit" /\ w.ev = e
        /\ w = [pc |-> w.pc, ev |-> w.ev, seen |-> w.seen, doc |-> w.doc, tries |-> w.tries]
    BY <1>0, <1>1, <1>v, <1>w
  <1>7. SgPub' = SgPub /\ \A d : SgClean(d)' <=> SgClean(d)
    BY <1>5, SgPubKept
  <1>8. SgWorkerOK(c, w)'
    BY <1>0, <1>1, <1>2, <1>6, <1>7, <1>v DEF SgWorkerOK
  <1> QED
    BY <1>1, <1>5, <1>6, <1>8, SgMove

LEMMA SgFailed ==
    ASSUME SgInv, NEW c \in SeConsumer, SeFailed(c)
    PROVE  SgInv'
  <1>v. PICK v, e : v = seWork[c] /\ e = v.ev
    OBVIOUS
  <1>0. /\ SgWorkerOK(c, v) /\ v = [pc |-> v.pc, ev |-> v.ev, seen |-> v.seen, doc |-> v.doc, tries |-> v.tries]
        /\ v.pc \in {"write", "delete"} /\ e \in SgPub
    BY <1>v, SgWorker DEF SeFailed
  <1>1. /\ UNCHANGED <<seLog, seQueue, seDocs, seDead, seLost, seRaced>> /\ SeFault
    BY DEF SeFailed
  <1>2. PICK w : /\ seWork' = [seWork EXCEPT ![c] = w]
                 /\ w = [HandleEvent(c, e) EXCEPT !.tries = v.tries + 1] \/ w = [v EXCEPT !.pc = "dlq"]
    BY <1>v DEF SeFailed
  <1>3. SgWorkerOK(c, w)
    <2>1. CASE w = [v EXCEPT !.pc = "dlq"]
      <3>1. w.pc = "dlq" /\ w.ev = e
            /\ w = [pc |-> w.pc, ev |-> w.ev, seen |-> w.seen, doc |-> w.doc, tries |-> w.tries]
        BY <2>1, <1>0, <1>v
      <3> QED
        BY <3>1, <1>0, <1>v DEF SgWorkerOK
    <2>2. CASE w = [HandleEvent(c, e) EXCEPT !.tries = v.tries + 1]
      <3>1. c \in SeTopic => seLog[c] # <<>> /\ e = Head(seLog[c])
        BY <1>0, <1>v DEF SgWorkerOK
      <3>2. PICK n : n = v.tries + 1
        OBVIOUS
      <3>3. w = HandleEvent(c, e) \/ \E m : w = [HandleEvent(c, e) EXCEPT !.tries = m]
        BY <2>2, <3>2
      <3> QED
        BY <3>1, <3>3, <1>0, SgHandles
    <2> QED
      BY <2>1, <2>2, <1>2
  <1>4. SgForward
    BY <1>1, SgStill
  <1>5. SgWorkerOK(c, w)'
    BY <1>1, <1>3, <1>4, SgWorkerKept
  <1> QED
    BY <1>1, <1>2, <1>4, <1>5, SgMove

LEMMA SgDLQ ==
    ASSUME SgInv, NEW c \in SeConsumer, RouteToDLQ(c)
    PROVE  SgInv'
  <1>v. PICK v, e : v = seWork[c] /\ e = v.ev
    OBVIOUS
  <1>0. /\ SgWorkerOK(c, v) /\ v = [pc |-> v.pc, ev |-> v.ev, seen |-> v.seen, doc |-> v.doc, tries |-> v.tries]
        /\ v.pc = "dlq" /\ e \in SgPub
    BY <1>v, SgWorker DEF RouteToDLQ
  <1>1. /\ UNCHANGED <<seLog, seQueue, seDocs, seRaced>> /\ (SeFault \/ UNCHANGED seRun)
        /\ seDead \subseteq seDead' /\ seLost \subseteq seLost' /\ e \in seDead' \cup seLost'
        /\ seWork' = [seWork EXCEPT ![c].pc = "commit"]
    BY <1>v DEF RouteToDLQ, SeGoto
  <1>2. SgForward
    BY <1>1, SgStill
  <1>w. PICK w : w = [v EXCEPT !.pc = "commit"]
    OBVIOUS
  <1>3. /\ seWork' = [seWork EXCEPT ![c] = w] /\ w.pc = "commit" /\ w.ev = e
        /\ w = [pc |-> w.pc, ev |-> w.ev, seen |-> w.seen, doc |-> w.doc, tries |-> w.tries]
    BY <1>0, <1>1, <1>v, <1>w
  <1>4. SgSettled(e)'
    BY <1>1 DEF SgSettled
  <1>5. SgPub' = SgPub
    BY <1>2, SgPubKept
  <1>6. SgWorkerOK(c, w)'
    BY <1>0, <1>1, <1>3, <1>4, <1>5, <1>v DEF SgWorkerOK
  <1> QED
    BY <1>1, <1>2, <1>3, <1>6, SgMove
\* Only an event that is settled is taken off.
LEMMA SgCommit ==
    ASSUME SgInv, NEW c \in SeConsumer, CommitMessages(c)
    PROVE  SgInv'
  <1>v. PICK v, e : v = seWork[c] /\ e = v.ev
    OBVIOUS
  <1>0. /\ SgWorkerOK(c, v) /\ v.pc = "commit" /\ e \in SgPub
    BY <1>v, SgWorker DEF CommitMessages
  <1>1. /\ UNCHANGED <<seRun, seDocs, seDead, seLost, seRaced>> /\ seWork' = [seWork EXCEPT ![c] = SeIdle]
        /\ IF c \in SeTopic THEN seLog' = [seLog EXCEPT ![c] = Tail(@)] /\ UNCHANGED seQueue
           ELSE seQueue' = seQueue \ {e} /\ UNCHANGED seLog
    BY <1>v DEF CommitMessages
  <1>2. SgForward
    BY <1>1, SgStill
  <1>3. SgClean(e.ent) => SgSettled(e)'
    BY <1>0, <1>2, <1>v, SgSettledKept DEF SgWorkerOK
  <1>4. /\ seLog' = [t \in SeTopic |-> seLog'[t]] /\ seQueue' \subseteq SgPub
        /\ \A t \in SeTopic : seLog'[t] \in Seq(SgPub)
        /\ \A t \in SeTopic \ {c} : seLog'[t] = seLog[t]
        /\ \A t \in SeTopic : \A i \in DOMAIN seLog[t] : seLog[t][i] = e \/ \E j \in DOMAIN seLog'[t] : seLog'[t][j] = seLog[t][i]
    <2>1. /\ seLog = [t \in SeTopic |-> seLog[t]] /\ seQueue \subseteq SgPub
          /\ \A t \in SeTopic : seLog[t] \in Seq(SgPub)
      BY DEF SgInv, SgTypes
    <2>2. CASE c \notin SeTopic
      BY <2>1, <2>2, <1>1
    <2>3. CASE c \in SeTopic
      <3>q. PICK q, p : q = seLog[c] /\ p = Tail(q)
        OBVIOUS
      <3>1. q \in Seq(SgPub) /\ q # <<>> /\ e = Head(q)
        BY <2>1, <2>3, <3>q, <1>0, <1>v DEF SgWorkerOK
      <3>2. /\ p \in Seq(SgPub) /\ Len(p) = Len(q) - 1 /\ \A i \in 1..Len(p) : p[i] = q[i + 1]
            /\ Len(q) \in Nat /\ DOMAIN q = 1..Len(q) /\ DOMAIN p = 1..Len(p) /\ e = q[1]
        BY <3>1, <3>q, HeadTailProperties, LenProperties
      <3>3. \A i \in DOMAIN q : q[i] = e \/ \E j \in DOMAIN p : p[j] = q[i]
        <4> SUFFICES ASSUME NEW i \in DOMAIN q, i # 1 PROVE \E j \in DOMAIN p : p[j] = q[i]
          BY <3>2
        <4>1. i - 1 \in DOMAIN p /\ p[i - 1] = q[i]
          BY <3>2
        <4> QED
          BY <4>1
      <3>4. seLog' = [seLog EXCEPT ![c] = p] /\ UNCHANGED seQueue
        BY <2>3, <3>q, <1>1
      <3>5. seLog'[c] = p /\ \A t \in SeTopic \ {c} : seLog'[t] = seLog[t]
        BY <2>1, <2>3, <3>4
      <3>6. seLog' = [t \in SeTopic |-> seLog'[t]]
        BY <2>1, <3>4
      <3>7. \A t \in SeTopic : seLog'[t] \in Seq(SgPub)
        BY <2>1, <3>2, <3>5
      <3>8. ASSUME NEW t \in SeTopic, NEW i \in DOMAIN seLog[t]
            PROVE  seLog[t][i] = e \/ \E j \in DOMAIN seLog'[t] : seLog'[t][j] = seLog[t][i]
        <4>1. CASE t = c
          BY <4>1, <3>3, <3>5, <3>8, <3>q
        <4>2. CASE t # c
          BY <4>2, <3>5, <3>8
        <4> QED
          BY <4>1, <4>2
      <3> QED
        BY <2>1, <3>4, <3>5, <3>6, <3>7, <3>8
    <2> QED
      BY <2>2, <2>3
  <1>5. ASSUME NEW x \in SgPub, SgClean(x.ent), SgOpen(x) PROVE SgOpen(x)' \/ SgSettled(x)'
    <2>1. CASE x = e
      BY <2>1, <1>3, <1>5
    <2>2. CASE x # e
      BY <2>2, <1>1, <1>4, <1>5 DEF SgOpen
    <2> QED
      BY <2>1, <2>2
  <1>6. /\ seWork' = [d \in SeConsumer |-> seWork'[d]] /\ seWork'[c] = SeIdle
        /\ \A d \in SeConsumer \ {c} : seWork'[d] = seWork[d]
    BY <1>1 DEF SgInv, SgTypes
  <1>7. ASSUME NEW d \in SeConsumer PROVE SgWorkerOK(d, seWork[d])'
    <2>w. PICK w : w = seWork'[d]
      OBVIOUS
    <2>1. SgWorkerOK(d, w)
      BY <2>w, <1>6, SgIdleOK DEF SgInv
    <2>2. CASE d = c
      <3>1. w = SeIdle /\ w.pc = "idle"
        BY <2>2, <2>w, <1>6 DEF SeIdle
      <3> QED
        BY <2>1, <2>w, <3>1 DEF SgWorkerOK
    <2>3. CASE d # c
      <3>1. SgWorkerOK(d, w)'
        BY <2>1, <2>3, <1>2, <1>4, SgWorkerKept
      <3> QED
        BY <3>1, <2>w DEF SgWorkerOK
    <2> QED
      BY <2>2, <2>3
  <1> QED
    BY <1>2, <1>4, <1>5, <1>6, <1>7, SgStep

LEMMA SgRestart ==
    ASSUME SgInv, SeRestart
    PROVE  SgInv'
  <1>1. /\ SeFault /\ seWork' = [c \in SeConsumer |-> SeIdle]
        /\ UNCHANGED <<seLog, seQueue, seDocs, seDead, seLost, seRaced>>
    BY DEF SeRestart
  <1>2. SgForward
    BY <1>1, SgStill
  <1>3. ASSUME NEW d \in SeConsumer PROVE SgWorkerOK(d, seWork[d])'
    <2>w. PICK w : w = seWork'[d]
      OBVIOUS
    <2>1. SgWorkerOK(d, w)
      BY <2>w, <1>1, SgIdleOK
    <2>2. SgWorkerOK(d, w)'
      BY <2>1, <1>1, <1>2, SgWorkerKept
    <2> QED
      BY <2>2, <2>w DEF SgWorkerOK
  <1>4. \A x : SgOpen(x)' <=> SgOpen(x)
    BY <1>1 DEF SgOpen
  <1> QED
    BY <1>1, <1>2, <1>3, <1>4, SgStep DEF SgInv, SgTypes

\* Searches leave what the invariant is about alone.
LEMMA SgSearch ==
    ASSUME SgInv, UNCHANGED <<seLog, seQueue, seWork, seDocs, seDead, seLost, seRaced>>,
           seRun' = seRun \/ \E n : seRun' = [seRun EXCEPT !.pages = n]
    PROVE  SgInv'
  <1>1. seRun'.log = seRun.log /\ seRun'.queue = seRun.queue /\ {"log", "queue"} \subseteq DOMAIN seRun'
    <2>1. CASE seRun' = seRun
      BY <2>1 DEF SgInv, SgTypes
    <2>2. ASSUME NEW n, seRun' = [seRun EXCEPT !.pages = n]
          PROVE  seRun'.log = seRun.log /\ seRun'.queue = seRun.queue /\ {"log", "queue"} \subseteq DOMAIN seRun'
      BY <2>2 DEF SgInv, SgTypes
    <2> QED
      BY <2>1, <2>2
  <1>2. \A e \in SeEntity : SgClean(e) => seDocs[e].ver \in Int
    BY DEF SgInv, SgDocOK
  <1>3. SgForward
    BY <1>1, <1>2 DEF SgForward, SgInv, SgTypes
  <1>4. ASSUME NEW d \in SeConsumer PROVE SgWorkerOK(d, seWork[d])'
    <2>w. PICK w : w = seWork[d]
      OBVIOUS
    <2>1. SgWorkerOK(d, w)'
      BY <2>w, <1>3, SgWorkerKept DEF SgInv
    <2> QED
      BY <2>1, <2>w DEF SgWorkerOK
  <1>5. \A x : SgOpen(x)' <=> SgOpen(x)
    BY DEF SgOpen
  <1> QED
    BY <1>3, <1>4, <1>5, SgStep DEF SgInv, SgTypes

LEMMA SgInvStep == SgInv /\ [SeNext]_seVars => SgInv'
  <1> SUFFICES ASSUME SgInv, [SeNext]_seVars PROVE SgInv'
    OBVIOUS
  <1>1. ASSUME NEW c \in SeConsumer, SeConsume(c) PROVE SgInv'
    BY <1>1, SgFetch, SgPrepare, SgCheck, SgDLQ, SgCommit, SgIndex, SgDelete, SgFailed DEF SeConsume
  <1>2. CASE SeRestart
    BY <1>2, SgRestart
  <1>3. CASE SeSearch /\ UNCHANGED <<seLog, seQueue, seWork, seDocs, seDead, seLost, seRaced>>
    <2>1. ASSUME NEW u, NEW q, ResolveSearch(u, q) PROVE \E n : seRun' = [seRun EXCEPT !.pages = n]
      <3>1. PICK n : n = seRun.pages - 1
        OBVIOUS
      <3>2. seRun' = [seRun EXCEPT !.pages = n]
        BY <2>1, <3>1 DEF ResolveSearch
      <3> QED
        BY <3>2
    <2>2. seRun' = seRun \/ \E n : seRun' = [seRun EXCEPT !.pages = n]
      BY <1>3, <2>1 DEF SeSearch, SearchPage, CachedSearch, ExpirePage
    <2> QED
      BY <1>3, <2>2, SgSearch
  <1>4. CASE UNCHANGED seVars
    BY <1>4, SgSearch DEF seVars
  <1>5. CASE SeRefresh
    BY <1>5, SgSearch DEF SeRefresh
  <1> QED
    BY <1>1, <1>2, <1>3, <1>4, <1>5 DEF SeNext

\* When every event of a delivery or of a driver has been consumed, its document is the newest
\* version published, however topics and queue interleave and calls are retried, unless it was
\* deleted or an event of it is dead or lost; and one of the published versions even when two
\* writes of it overlapped.
THEOREM NewestWins == SeSpec => []SeNewestWins
  <1>1. SgInv => SeNewestWins
    BY SgInvImplies
  <1> QED
    BY <1>1, SgInvInit, SgInvStep, PTL DEF SeSpec

-----------------------------------------------------------------------------
(***************************************************************************)
(* The pages of searches.  A document that has not changed since a page    *)
(* was computed still is what the search saw, so what the page says of it  *)
(* is decided by the order of the hits: an initial part of a finite order, *)
(* and all of it when it is short of SeLimit.                              *)
(***************************************************************************)

SwDocOK(d) == d.num \in Int /\ d.ver \in Nat

\* SeFits, for any documents.
SwFits(p, docs) ==
    {e \in p.steady : Matches(p.q, docs[e]) /\ After(p.q.cur, SortKey(docs, p.q, e))}

\* A page is true of the documents it is steady about.
SwPageOK(p, docs) ==
    /\ p = [q |-> p.q, items |-> p.items, more |-> p.more, steady |-> p.steady]
    /\ p.steady \subseteq SeEntity
    /\ p.items \cap p.steady \subseteq SwFits(p, docs)
    /\ ~p.more => SwFits(p, docs) \subseteq p.items
    /\ \A a, b \in SwFits(p, docs) :
          b \in p.items /\ KeyLess(SortKey(docs, p.q, a), SortKey(docs, p.q, b)) => a \in p.items

SwAskOK(a, docs) == a = [pc |-> a.pc, page |-> a.page] /\ SwPageOK(a.page, docs)

SwDocs == \A e \in SeEntity : /\ seDocs[e] = NoDoc \/ SwDocOK(seDocs[e])
                              /\ seView[e] = NoDoc \/ SwDocOK(seView[e])
SwWork == \A c \in SeConsumer : seWork[c].pc # "idle" => {"num", "ver"} \subseteq DOMAIN seWork[c].doc /\ SwDocOK(seWork[c].doc)
SwPages == /\ \A p \in seCache : SwPageOK(p, seDocs)
           /\ seAsk = [u \in SeClient |-> seAsk[u]]
           /\ \A u \in SeClient : SwAskOK(seAsk[u], seDocs)

\* The inductive invariant of searching, next to that of the consumers.
SwInv == SgInv /\ SwDocs /\ SwWork /\ SwPages

\* A page that has not been computed says nothing.
LEMMA SwNoPage ==
    ASSUME NEW docs, NEW p, NEW q, p = NoPage \/ p = [NoPage EXCEPT !.q = q]
    PROVE  SwPageOK(p, docs)
  <1>1. PICK n, none : n = NoPage /\ none = {}
    OBVIOUS
  <1>2. PICK z : n = [q |-> z, items |-> none, more |-> FALSE, steady |-> none]
    BY <1>1 DEF NoPage
  <1>3. p = n \/ p = [n EXCEPT !.q = q]
    BY <1>1
  <1>4. p = [q |-> p.q, items |-> p.items, more |-> p.more, steady |-> p.steady] /\ p.steady = none /\ p.items = none
    BY <1>2, <1>3
  <1>5. SwFits(p, docs) = {}
    BY <1>1, <1>4 DEF SwFits
  <1> QED
    BY <1>1, <1>4, <1>5 DEF SwPageOK

LEMMA SwInvInit == SeInit => SwInv
  <1> SUFFICES ASSUME SeInit PROVE SwInv
    OBVIOUS
  <1>1. /\ seRun \in SeRuns /\ seDocs = seRun.docs /\ seWork = [c \in SeConsumer |-> SeIdle]
        /\ seCache = {} /\ seView = seDocs /\ seAsk = [u \in SeClient |-> [pc |-> "none", page |-> NoPage]]
    BY DEF SeInit
  <1>2. SwDocs
    BY <1>1, SeAssumption DEF SwDocs, SwDocOK
  <1>3. SwWork
    BY <1>1 DEF SwWork, SeIdle
  <1>4. ASSUME NEW u \in SeClient PROVE SwAskOK(seAsk[u], seDocs)
    <2>1. PICK n : n = NoPage
      OBVIOUS
    <2>2. seAsk[u] = [pc |-> "none", page |-> n] /\ SwPageOK(n, seDocs)
      BY <1>1, <2>1, SwNoPage
    <2> QED
      BY <2>2 DEF SwAskOK
  <1>5. seAsk = [u \in SeClient |-> seAsk[u]]
    BY <1>1
  <1> QED
    BY <1>1, <1>2, <1>3, <1>4, <1>5, SgInvInit DEF SwInv, SwPages

LEMMA SwInvImplies == SwInv => SeNewestWins /\ SePagesAreTrue
  <1> SUFFICES ASSUME SwInv PROVE SePagesAreTrue
    BY SgInvImplies DEF SwInv
  <1> SUFFICES ASSUME NEW u \in SeClient, NEW p, p = seAsk[u].page, NEW answer, answer = MapSearchResult(p)
               PROVE  /\ answer.items \cap p.steady \subseteq SeFits(p)
                      /\ answer.nextPage = 0 => SeFits(p) \subseteq answer.items
                      /\ \A a, b \in SeFits(p) :
                            b \in answer.items /\ KeyLess(SortKey(seDocs, p.q, a), SortKey(seDocs, p.q, b))
                            => a \in answer.items
    BY DEF SePagesAreTrue
  <1>1. SwPageOK(p, seDocs)
    BY DEF SwInv, SwPages, SwAskOK
  <1>2. SeFits(p) = SwFits(p, seDocs)
    BY DEF SeFits, SwFits
  <1>3. PICK n, one : n = (IF p.more THEN 2 ELSE 0) /\ one = 1
    OBVIOUS
  <1>4. answer = [items |-> p.items, currentPage |-> one, nextPage |-> n]
    BY <1>3 DEF MapSearchResult
  <1>5. answer.items = p.items /\ answer.nextPage = n
    BY <1>4
  <1>6. n = 0 => ~p.more
    BY <1>3
  <1> QED
    BY <1>1, <1>2, <1>5, <1>6 DEF SwPageOK

-----------------------------------------------------------------------------
(* Pages *)

\* Hits are ordered by their number and rank, and what has the smaller key comes before.
LEMMA SwOrder ==
    ASSUME NEW H \in SUBSET SeEntity, \A e \in H : SwDocOK(seView[e]), NEW q,
           NEW ord, ord = {o \in H \X H : Precedes(q, o[1], o[2])}
    PROVE  /\ IsFiniteSet(H) /\ Orders(ord, H)
           /\ \A a, b \in H : /\ <<a, b>> \in ord <=> Precedes(q, a, b)
                              /\ KeyLess(SortKey(seView, q, a), SortKey(seView, q, b)) => <<a, b>> \in ord
  <1>1. IsFiniteSet(H)
    BY SeAssumption, FS_Subset
  <1>2. \A a, b \in H : <<a, b>> \in ord <=> Precedes(q, a, b)
    OBVIOUS
  <1>3. PICK num, rank : num = [e \in H |-> seView[e].num] /\ rank = [e \in H |-> SeRank[e]]
    OBVIOUS
  <1>4. ASSUME NEW e \in H
        PROVE  num[e] = seView[e].num /\ rank[e] = SeRank[e] /\ num[e] \in Int /\ rank[e] \in Int
    BY <1>3, SeAssumption DEF SwDocOK
  <1>5. ASSUME NEW a \in H, NEW b \in H
        PROVE  <<a, b>> \in ord <=> num[a] < num[b] \/ (num[a] = num[b] /\ rank[a] <= rank[b])
    BY <1>2, <1>4 DEF Precedes
  <1>6. Orders(ord, H)
    <2>1. ASSUME NEW a \in H, NEW b \in H PROVE <<a, b>> \in ord \/ <<b, a>> \in ord
      BY <1>4, <1>5
    <2>2. ASSUME NEW a \in H, NEW b \in H, <<a, b>> \in ord, <<b, a>> \in ord PROVE a = b
      <3>1. rank[a] = rank[b]
        BY <1>4, <1>5, <2>2
      <3> QED
        BY <1>4, <3>1, SeAssumption
    <2>3. ASSUME NEW a \in H, NEW b \in H, NEW c \in H, <<a, b>> \in ord, <<b, c>> \in ord PROVE <<a, c>> \in ord
      BY <1>4, <1>5, <2>3
    <2> QED
      BY <2>1, <2>2, <2>3 DEF Orders
  <1>7. ASSUME NEW a \in H, NEW b \in H, KeyLess(SortKey(seView, q, a), SortKey(seView, q, b))
        PROVE  <<a, b>> \in ord
    <2>1. CASE q.geo
      <3>1. PICK zero : zero = 0
        OBVIOUS
      <3>2. SortKey(seView, q, a) = <<num[a], zero>> /\ SortKey(seView, q, b) = <<num[b], zero>>
        BY <1>4, <2>1, <3>1 DEF SortKey
      <3>3. num[a] < num[b] \/ (num[a] = num[b] /\ zero < zero)
        BY <1>7, <3>2 DEF KeyLess
      <3> QED
        BY <1>5, <3>1, <3>3
    <2>2. CASE ~q.geo
      <3>1. SortKey(seView, q, a) = <<num[a], rank[a]>> /\ SortKey(seView, q, b) = <<num[b], rank[b]>>
        BY <1>4, <2>2 DEF SortKey
      <3>2. num[a] < num[b] \/ (num[a] = num[b] /\ rank[a] < rank[b])
        BY <1>7, <3>1 DEF KeyLess
      <3> QED
        BY <1>4, <1>5, <3>2
    <2> QED
      BY <2>1, <2>2
  <1> QED
    BY <1>1, <1>2, <1>6, <1>7

\* A page as executeSearch returns it.
LEMMA SwFresh ==
    ASSUME SwDocs, NEW q, NEW p, p = ExecuteSearch(q)
    PROVE  SwPageOK(p, seDocs)
  <1> DEFINE H == {e \in Hits(q) : After(q.cur, SortKey(seView, q, e))}
             F == {e \in H : Cardinality({h \in H : Precedes(q, h, e)}) <= SeLimit}
  <1>1. PICK hits, items : hits = H /\ items = F
    OBVIOUS
  <1>2. /\ p.q = q /\ p.items = items /\ p.more = (Cardinality(items) = SeLimit)
        /\ p.steady = {e \in SeEntity : seView[e] = seDocs[e]}
        /\ p = [q |-> p.q, items |-> p.items, more |-> p.more, steady |-> p.steady]
    BY <1>1 DEF ExecuteSearch
  <1>3. /\ hits \in SUBSET SeEntity
        /\ \A e \in SeEntity : e \in hits <=> Matches(q, seView[e]) /\ After(q.cur, SortKey(seView, q, e))
        /\ \A e \in hits : SwDocOK(seView[e])
    <2>1. \A e \in SeEntity : e \in hits <=> Matches(q, seView[e]) /\ After(q.cur, SortKey(seView, q, e))
      BY <1>1 DEF Hits
    <2>2. hits \in SUBSET SeEntity
      BY <1>1 DEF Hits
    <2>3. \A e \in SeEntity : Matches(q, seView[e]) => seView[e] # NoDoc
      BY DEF Matches
    <2> QED
      BY <2>1, <2>2, <2>3 DEF SwDocs
  <1>4. PICK ord : ord = {o \in hits \X hits : Precedes(q, o[1], o[2])}
    OBVIOUS
  <1>5. /\ IsFiniteSet(hits) /\ Orders(ord, hits)
        /\ \A a, b \in hits : /\ <<a, b>> \in ord <=> Precedes(q, a, b)
                              /\ KeyLess(SortKey(seView, q, a), SortKey(seView, q, b)) => <<a, b>> \in ord
    BY <1>3, <1>4, SwOrder
  <1>6. items = FirstOf(hits, ord, SeLimit)
    <2>1. ASSUME NEW e \in hits PROVE {h \in hits : Precedes(q, h, e)} = {h \in hits : <<h, e>> \in ord}
      BY <1>5
    <2>2. items = {e \in hits : Cardinality({h \in hits : Precedes(q, h, e)}) <= SeLimit}
      BY <1>1
    <2> QED
      BY <2>1, <2>2 DEF FirstOf
  <1>7. /\ Cardinality(items) # SeLimit => items = hits
        /\ \A x \in items, h \in hits : <<h, x>> \in ord => h \in items
    <2>1. SeLimit \in Nat
      BY SeAssumption
    <2> QED
      BY <1>5, <1>6, <2>1, FirstPlaces
  <1>8. items \subseteq hits
    BY <1>6 DEF FirstOf
  <1>9. ASSUME NEW e \in p.steady
        PROVE  /\ e \in SeEntity /\ SortKey(seDocs, q, e) = SortKey(seView, q, e)
               /\ e \in SwFits(p, seDocs) <=> e \in hits
    <2>1. e \in SeEntity /\ seView[e] = seDocs[e]
      BY <1>2
    <2>2. SortKey(seDocs, q, e) = SortKey(seView, q, e)
      BY <2>1 DEF SortKey
    <2> QED
      BY <1>2, <1>3, <2>1, <2>2 DEF SwFits
  <1>10. SwFits(p, seDocs) \subseteq p.steady
    BY DEF SwFits
  <1>11. p.items \cap p.steady \subseteq SwFits(p, seDocs)
    BY <1>2, <1>8, <1>9
  <1>12. ~p.more => SwFits(p, seDocs) \subseteq p.items
    BY <1>2, <1>7, <1>9, <1>10
  <1>13. ASSUME NEW a \in SwFits(p, seDocs), NEW b \in SwFits(p, seDocs), b \in p.items,
                KeyLess(SortKey(seDocs, p.q, a), SortKey(seDocs, p.q, b))
         PROVE  a \in p.items
    <2>1. KeyLess(SortKey(seView, q, a), SortKey(seView, q, b)) /\ a \in hits /\ b \in hits
      BY <1>2, <1>9, <1>10, <1>13
    <2> QED
      BY <1>2, <1>5, <1>7, <1>13, <2>1
  <1>14. p.steady \subseteq SeEntity
    BY <1>9
  <1> QED
    BY <1>2, <1>11, <1>12, <1>13, <1>14 DEF SwPageOK

\* d is docs but for x.
SwElse(docs, d, x) == \A e \in SeEntity \ {x} : d[e] = docs[e]

\* The document of an entity is replaced: pages forget about it.
LEMMA SwTouchedPage ==
    ASSUME NEW docs, NEW d, NEW x, SwElse(docs, d, x), NEW p, SwPageOK(p, docs),
           NEW r, r = [p EXCEPT !.steady = @ \ {x}]
    PROVE  SwPageOK(r, d)
  <1>1. PICK s : s = p.steady \ {x}
    OBVIOUS
  <1>2. p = [q |-> p.q, items |-> p.items, more |-> p.more, steady |-> p.steady]
    BY DEF SwPageOK
  <1>3. r = [p EXCEPT !.steady = s]
    BY <1>1
  <1>4. r = [q |-> p.q, items |-> p.items, more |-> p.more, steady |-> s]
    BY <1>2, <1>3
  <1>5. r.q = p.q /\ r.items = p.items /\ r.more = p.more /\ r.steady = s
        /\ r = [q |-> r.q, items |-> r.items, more |-> r.more, steady |-> r.steady]
    <2>1. r.q = p.q /\ r.items = p.items /\ r.more = p.more /\ r.steady = s
      BY <1>4
    <2> QED
      BY <1>4, <2>1, Zenon
  <1>6. ASSUME NEW e \in s
        PROVE  /\ e \in SeEntity /\ SortKey(d, p.q, e) = SortKey(docs, p.q, e)
               /\ e \in SwFits(r, d) <=> e \in SwFits(p, docs)
    <2>1. e \in SeEntity /\ d[e] = docs[e] /\ e \in p.steady
      BY <1>1 DEF SwPageOK, SwElse
    <2>2. SortKey(d, p.q, e) = SortKey(docs, p.q, e)
      BY <2>1 DEF SortKey
    <2> QED
      BY <1>5, <2>1, <2>2 DEF SwFits
  <1>7. SwFits(r, d) \subseteq s
    BY <1>5 DEF SwFits
  <1>8. s \subseteq SeEntity /\ s \subseteq p.steady
    BY <1>1 DEF SwPageOK
  <1>9. r.items \cap r.steady \subseteq SwFits(r, d)
    BY <1>5, <1>6, <1>8 DEF SwPageOK
  <1>10. ~r.more => SwFits(r, d) \subseteq r.items
    BY <1>5, <1>6, <1>7 DEF SwPageOK
  <1>11. ASSUME NEW a \in SwFits(r, d), NEW b \in SwFits(r, d), b \in r.items,
                KeyLess(SortKey(d, r.q, a), SortKey(d, r.q, b))
         PROVE  a \in r.items
    <2>1. KeyLess(SortKey(docs, p.q, a), SortKey(docs, p.q, b)) /\ a \in SwFits(p, docs) /\ b \in SwFits(p, docs)
      BY <1>5, <1>6, <1>7, <1>11
    <2> QED
      BY <1>5, <1>11, <2>1 DEF SwPageOK
  <1> QED
    BY <1>5, <1>8, <1>9, <1>10, <1>11 DEF SwPageOK

\* The pages after a step.
LEMMA SwPagesAfter ==
    ASSUME NEW d, d = seDocs', \A p \in seCache' : SwPageOK(p, d),
           seAsk' = [u \in SeClient |-> seAsk'[u]], \A u \in SeClient : SwAskOK(seAsk'[u], d)
    PROVE  SwPages'
  BY DEF SwPages

LEMMA SwReplace ==
    ASSUME SwInv, NEW x, NEW n, n = NoDoc \/ SwDocOK(n), seDocs' = [seDocs EXCEPT ![x] = n], UNCHANGED seView, Touched(x)
    PROVE  SwDocs' /\ SwPages'
  <1>1. PICK docs, d : docs = seDocs /\ d = seDocs'
    OBVIOUS
  <1>2. SwElse(docs, d, x)
    BY <1>1 DEF SwElse
  <1>3. SwDocs'
    <2>1. seDocs = [e \in SeEntity |-> seDocs[e]]
      BY DEF SwInv, SgInv, SgTypes
    <2>2. \A e \in SeEntity : seDocs'[e] = seDocs[e] \/ seDocs'[e] = n
      BY <2>1
    <2> QED
      BY <2>2 DEF SwInv, SwDocs
  <1>4. ASSUME NEW r \in seCache' PROVE SwPageOK(r, d)
    <2>1. PICK p \in seCache : r = [p EXCEPT !.steady = @ \ {x}]
      BY DEF Touched
    <2>2. SwPageOK(p, docs)
      BY <1>1 DEF SwInv, SwPages
    <2> QED
      BY <1>2, <2>1, <2>2, SwTouchedPage
  <1>5. ASSUME NEW u \in SeClient PROVE SwAskOK(seAsk'[u], d)
    <2>1. PICK a, p, r : a = seAsk[u] /\ p = a.page /\ r = [p EXCEPT !.steady = @ \ {x}]
      OBVIOUS
    <2>2. a = [pc |-> a.pc, page |-> p] /\ SwPageOK(p, docs)
      BY <1>1, <2>1 DEF SwInv, SwPages, SwAskOK
    <2>3. seAsk'[u] = [a EXCEPT !.page.steady = @ \ {x}]
      BY <2>1 DEF Touched
    <2>4. seAsk'[u] = [a EXCEPT !.page = r]
      BY <2>1, <2>3
    <2>5. seAsk'[u] = [pc |-> a.pc, page |-> r]
      BY <2>2, <2>4
    <2>6. SwPageOK(r, d)
      BY <1>2, <2>1, <2>2, SwTouchedPage
    <2> QED
      BY <2>5, <2>6 DEF SwAskOK
  <1>6. seAsk' = [u \in SeClient |-> seAsk'[u]]
    BY DEF Touched
  <1> QED
    BY <1>1, <1>3, <1>4, <1>5, <1>6, SwPagesAfter

\* A step that leaves documents and pages alone, but that the indices may be refreshed.
LEMMA SwStill ==
    ASSUME SwInv, SgInv', SwWork', UNCHANGED <<seDocs, seCache, seAsk>>, seView' = seView \/ seView' = seDocs
    PROVE  SwInv'
  <1>1. SwDocs'
    BY DEF SwInv, SwDocs
  <1>2. SwPages'
    <2>1. PICK d : d = seDocs
      OBVIOUS
    <2> QED
      BY <2>1, SwPagesAfter DEF SwInv, SwPages
  <1> QED
    BY <1>1, <1>2 DEF SwInv

SwHolds(w) == w.pc # "idle" => {"num", "ver"} \subseteq DOMAIN w.doc /\ SwDocOK(w.doc)

\* One consumer moves.
LEMMA SwMove ==
    ASSUME SwInv, NEW c \in SeConsumer, NEW w, seWork' = [seWork EXCEPT ![c] = w], SwHolds(w)
    PROVE  SwWork'
  <1>1. ASSUME NEW d \in SeConsumer PROVE SwHolds(seWork'[d])
    <2>1. seWork'[d] = w \/ seWork'[d] = seWork[d]
      BY DEF SwInv, SgInv, SgTypes
    <2> QED
      BY <2>1 DEF SwInv, SwWork, SwHolds
  <1> QED
    BY <1>1 DEF SwWork, SwHolds

\* A handler that begins has a document with a number.
LEMMA SwHandles ==
    ASSUME SwInv, NEW c, NEW e \in SgPub,
           NEW w, w = HandleEvent(c, e) \/ \E n : w = [HandleEvent(c, e) EXCEPT !.tries = n]
    PROVE  SwHolds(w)
  <1>1. e.kind \in {"delivery", "driver", "media", "user"} /\ e.num \in Int /\ e.ver \in Nat
    BY DEF SwInv, SgInv, SgTypes
  <1>d. PICK d : d = DocOf(e)
    OBVIOUS
  <1>2. {"num", "ver"} \subseteq DOMAIN d /\ d.num = e.num /\ d.ver \in Nat
    <2>1. CASE e.kind = "delivery"
      <3>1. d = DeliveryDoc(e)
        BY <1>d, <2>1 DEF DocOf
      <3>2. DOMAIN d = {"ver", "kind", "tag", "num", "file"} /\ d.num = e.num /\ d.ver = e.ver
        BY <3>1 DEF DeliveryDoc
      <3> QED
        BY <1>1, <3>2
    <2>2. CASE e.kind = "driver"
      <3>1. d = DriverDoc(e)
        BY <1>d, <2>2 DEF DocOf
      <3>2. DOMAIN d = {"ver", "kind", "tag", "num", "file"} /\ d.num = e.num /\ d.ver = e.ver
        BY <3>1 DEF DriverDoc
      <3> QED
        BY <1>1, <3>2
    <2>3. CASE e.kind = "media"
      BY <1>d, <2>3 DEF DocOf, MediaDoc
    <2>4. CASE e.kind = "user"
      BY <1>d, <2>4 DEF DocOf, UserDoc
    <2> QED
      BY <1>1, <2>1, <2>2, <2>3, <2>4
  <1>3. w.doc = d
    <2>p. PICK p : p = HandlerEntry(e)
      OBVIOUS
    <2>s. PICK s : s = SeIdle
      OBVIOUS
    <2>0. s = [pc |-> s.pc, ev |-> s.ev, seen |-> s.seen, doc |-> s.doc, tries |-> s.tries]
      BY <2>s, SgIdleOK DEF SgWorkerOK
    <2>h. PICK h : h = HandleEvent(c, e)
      OBVIOUS
    <2>1. h = [s EXCEPT !.pc = p, !.ev = e, !.doc = d]
      BY <1>d, <2>p, <2>s, <2>h DEF HandleEvent
    <2>2. h = [pc |-> p, ev |-> e, seen |-> s.seen, doc |-> d, tries |-> s.tries]
      BY <2>0, <2>1
    <2>3. ASSUME NEW m, w = [h EXCEPT !.tries = m] PROVE w.doc = d
      BY <2>2, <2>3
    <2> QED
      BY <2>2, <2>3, <2>h
  <1> QED
    BY <1>1, <1>2, <1>3 DEF SwHolds, SwDocOK

LEMMA SwConsumeWork ==
    ASSUME SwInv, NEW c \in SeConsumer, SeConsume(c)
    PROVE  SwWork'
  <1>v. PICK v : v = seWork[c]
    OBVIOUS
  <1>0. /\ v = [pc |-> v.pc, ev |-> v.ev, seen |-> v.seen, doc |-> v.doc, tries |-> v.tries]
        /\ v.pc # "idle" => v.ev \in SgPub /\ {"num", "ver"} \subseteq DOMAIN v.doc /\ SwDocOK(v.doc)
    BY <1>v, SgWorker DEF SwInv, SwWork
  <1>1. CASE (c \in SeTopic /\ FetchMessage(c)) \/ (c \in SeRabbit /\ HandleIndexEvent(c))
    <2>1. PICK e \in SgPub : seWork' = [seWork EXCEPT ![c] = HandleEvent(c, e)]
      <3>1. CASE c \in SeTopic /\ FetchMessage(c)
        <4>1. seLog[c] \in Seq(SgPub) /\ seLog[c] # <<>>
          BY <3>1 DEF SwInv, SgInv, SgTypes, FetchMessage
        <4>2. Head(seLog[c]) \in SgPub
          BY <4>1, HeadTailProperties
        <4> QED
          BY <3>1, <4>2 DEF FetchMessage
      <3>2. CASE c \in SeRabbit /\ HandleIndexEvent(c)
        <4>1. seQueue \subseteq SgPub
          BY DEF SwInv, SgInv, SgTypes
        <4> QED
          BY <3>2, <4>1 DEF HandleIndexEvent
      <3> QED
        BY <1>1, <3>1, <3>2
    <2>2. PICK w : w = HandleEvent(c, e)
      OBVIOUS
    <2>3. SwHolds(w)
      BY <2>2, SwHandles
    <2> QED
      BY <2>1, <2>2, <2>3, SwMove
  <1>2. ASSUME NEW pc, NEW seen, v.pc # "idle", seWork' = [seWork EXCEPT ![c] = [v EXCEPT !.pc = pc, !.seen = seen]]
        PROVE  SwWork'
    <2>1. PICK w : w = [v EXCEPT !.pc = pc, !.seen = seen]
      OBVIOUS
    <2>2. w.doc = v.doc
      BY <1>0, <2>1
    <2>3. SwHolds(w)
      BY <1>0, <1>2, <2>2 DEF SwHolds
    <2> QED
      BY <1>2, <2>1, <2>3, SwMove
  <1>3. ASSUME NEW pc, v.pc # "idle", SeGoto(c, pc) PROVE SwWork'
    <2>1. PICK w : w = [v EXCEPT !.pc = pc]
      OBVIOUS
    <2>2. w.doc = v.doc
      BY <1>0, <2>1
    <2>3. SwHolds(w)
      BY <1>0, <1>3, <2>2 DEF SwHolds
    <2>4. seWork' = [seWork EXCEPT ![c] = w]
      BY <1>3, <1>v, <2>1 DEF SeGoto
    <2> QED
      BY <2>3, <2>4, SwMove
  <1>4. CASE ResolveName(c) \/ RouteToDLQ(c) \/ IndexDoc(c) \/ DeleteDoc(c)
    <2>1. v.pc # "idle"
      BY <1>4, <1>v DEF ResolveName, RouteToDLQ, IndexDoc, DeleteDoc
    <2>2. SeGoto(c, "check") \/ SeGoto(c, "commit")
      BY <1>4 DEF ResolveName, RouteToDLQ, IndexDoc, DeleteDoc
    <2> QED
      BY <1>3, <2>1, <2>2
  <1>5. CASE MergeMedia(c)
    <2>1. v.pc # "idle"
      BY <1>5, <1>v DEF MergeMedia
    <2>2. CASE SeGoto(c, "check")
      BY <1>3, <2>1, <2>2
    <2>3. ASSUME NEW b, seWork' = [seWork EXCEPT ![c].pc = "check", ![c].doc.file = b] PROVE SwWork'
      <3>1. PICK d, w : d = [v.doc EXCEPT !.file = b] /\ w = [v EXCEPT !.pc = "check", !.doc = d]
        OBVIOUS
      <3>2. seWork' = [seWork EXCEPT ![c] = w]
        BY <2>3, <3>1, <1>v
      <3>3. DOMAIN d = DOMAIN v.doc /\ d.num = v.doc.num /\ d.ver = v.doc.ver
        BY <1>0, <2>1, <3>1
      <3>4. w.doc = d
        BY <1>0, <3>1
      <3>5. SwHolds(w)
        BY <1>0, <2>1, <3>3, <3>4 DEF SwHolds, SwDocOK
      <3> QED
        BY <3>2, <3>5, SwMove
    <2> QED
      BY <1>5, <2>2, <2>3 DEF MergeMedia
  <1>6. CASE CheckVersion(c)
    <2>1. v.pc # "idle"
      BY <1>6, <1>v DEF CheckVersion
    <2>2. CASE SeGoto(c, "commit") \/ SeGoto(c, "write")
      BY <1>3, <2>1, <2>2
    <2>3. ASSUME NEW n, seWork' = [seWork EXCEPT ![c].pc = "write", ![c].seen = n] PROVE SwWork'
      <3>1. seWork' = [seWork EXCEPT ![c] = [v EXCEPT !.pc = "write", !.seen = n]]
        BY <2>3, <1>v
      <3> QED
        BY <1>2, <2>1, <3>1
    <2> QED
      BY <1>6, <2>2, <2>3 DEF CheckVersion
  <1>7. CASE CommitMessages(c)
    <2>1. SwHolds(SeIdle)
      BY DEF SwHolds, SeIdle
    <2> QED
      BY <1>7, <2>1, SwMove DEF CommitMessages
  <1>8. CASE SeFailed(c)
    <2>1. v.pc # "idle" /\ v.ev \in SgPub
      BY <1>8, <1>v, <1>0 DEF SeFailed
    <2>2. PICK n : n = v.tries + 1
      OBVIOUS
    <2>3. PICK h, d : h = [HandleEvent(c, v.ev) EXCEPT !.tries = n] /\ d = [v EXCEPT !.pc = "dlq"]
      OBVIOUS
    <2>4. SwHolds(h)
      BY <2>1, <2>3, SwHandles
    <2>5. SwHolds(d)
      <3>1. d.doc = v.doc
        BY <1>0, <2>3
      <3> QED
        BY <1>0, <2>1, <3>1 DEF SwHolds
    <2>6. seWork' = [seWork EXCEPT ![c] = h] \/ seWork' = [seWork EXCEPT ![c] = d]
      BY <1>8, <1>v, <2>2, <2>3 DEF SeFailed
    <2> QED
      BY <2>4, <2>5, <2>6, SwMove
  <1> QED
    BY <1>1, <1>4, <1>5, <1>6, <1>7, <1>8 DEF SeConsume

LEMMA SwConsume ==
    ASSUME SwInv, NEW c \in SeConsumer, SeConsume(c), UNCHANGED seView
    PROVE  SwInv'
  <1>1. SgInv'
    BY SgInvStep DEF SwInv, SeNext
  <1>2. SwWork'
    BY SwConsumeWork
  <1>3. ASSUME NEW x, NEW n, n = NoDoc \/ SwDocOK(n), seDocs' = [seDocs EXCEPT ![x] = n], Touched(x) PROVE SwInv'
    BY <1>1, <1>2, <1>3, SwReplace DEF SwInv
  <1>4. CASE IndexDoc(c)
    <2>1. SwDocOK(seWork[c].doc)
      BY <1>4 DEF IndexDoc, SwInv, SwWork
    <2>2. PICK x, n : x = seWork[c].ev.ent /\ n = seWork[c].doc
      OBVIOUS
    <2>3. seDocs' = [seDocs EXCEPT ![x] = n] /\ Touched(x) /\ SwDocOK(n)
      BY <1>4, <2>1, <2>2 DEF IndexDoc
    <2> QED
      BY <1>3, <2>3
  <1>5. CASE DeleteDoc(c)
    <2>1. PICK x, n : x = seWork[c].ev.ent /\ n = NoDoc
      OBVIOUS
    <2>2. seDocs' = [seDocs EXCEPT ![x] = n] /\ Touched(x)
      BY <1>5, <2>1 DEF DeleteDoc
    <2> QED
      BY <1>3, <2>1, <2>2
  <1>6. CASE ~IndexDoc(c) /\ ~DeleteDoc(c)
    <2>1. UNCHANGED <<seDocs, seCache, seAsk>>
      BY <1>6 DEF SeConsume, FetchMessage, HandleIndexEvent, ResolveName, MergeMedia, CheckVersion,
                  RouteToDLQ, CommitMessages, SeFailed
    <2> QED
      BY <1>1, <1>2, <2>1, SwStill
  <1> QED
    BY <1>4, <1>5, <1>6

\* A client gets on with its search, or a page expires.
LEMMA SwSearch ==
    ASSUME SwInv, SeSearch, UNCHANGED <<seDocs, seView, seWork>>, SgInv'
    PROVE  SwInv'
  <1>d. PICK d : d = seDocs
    OBVIOUS
  <1>1. SwDocs' /\ SwWork'
    BY DEF SwInv, SwDocs, SwWork
  <1>2. /\ \A p \in seCache : SwPageOK(p, d)
        /\ seAsk = [u \in SeClient |-> seAsk[u]] /\ \A u \in SeClient : SwAskOK(seAsk[u], d)
    BY <1>d DEF SwInv, SwPages
  <1>3. ASSUME NEW u \in SeClient, NEW pc, NEW p, SwPageOK(p, d), \A x \in seCache' : SwPageOK(x, d),
               seAsk' = [seAsk EXCEPT ![u] = [pc |-> pc, page |-> p]]
        PROVE  SwInv'
    <2>1. PICK a : a = [pc |-> pc, page |-> p]
      OBVIOUS
    <2>2. SwAskOK(a, d)
      <3>1. a = [pc |-> a.pc, page |-> a.page] /\ a.page = p
        BY <2>1
      <3> QED
        BY <1>3, <3>1 DEF SwAskOK
    <2>3. seAsk' = [v \in SeClient |-> IF v = u THEN a ELSE seAsk[v]]
      BY <1>2, <1>3, <2>1
    <2>4. \A v \in SeClient : SwAskOK(seAsk'[v], d)
      BY <1>2, <2>2, <2>3
    <2>5. seAsk' = [v \in SeClient |-> seAsk'[v]]
      BY <2>3
    <2>6. SwPages'
      BY <1>3, <1>d, <2>4, <2>5, SwPagesAfter
    <2> QED
      BY <1>1, <2>6 DEF SwInv
  <1>4. ASSUME NEW u \in SeClient, NEW q, ResolveSearch(u, q) PROVE SwInv'
    <2>1. ASSUME NEW p \in seCache, seAsk' = [seAsk EXCEPT ![u] = [pc |-> "shown", page |-> p]] PROVE SwInv'
      BY <1>2, <1>3, <1>4, <2>1 DEF ResolveSearch
    <2>2. ASSUME seAsk' = [seAsk EXCEPT ![u] = [pc |-> "search", page |-> [NoPage EXCEPT !.q = q]]] PROVE SwInv'
      <3>1. PICK p : p = [NoPage EXCEPT !.q = q]
        OBVIOUS
      <3>2. SwPageOK(p, d)
        BY <3>1, SwNoPage
      <3>3. seAsk' = [seAsk EXCEPT ![u] = [pc |-> "search", page |-> p]] /\ UNCHANGED seCache
        BY <1>4, <2>2, <3>1 DEF ResolveSearch
      <3> QED
        BY <1>2, <1>3, <3>2, <3>3
    <2> QED
      BY <1>4, <2>1, <2>2 DEF ResolveSearch
  <1>5. ASSUME NEW u \in SeClient, SearchPage(u) PROVE SwInv'
    <2>1. PICK q, p, pc : /\ q = seAsk[u].page.q /\ p = ExecuteSearch(q)
                          /\ pc = IF Hits(q) # {} /\ ~q.geo THEN "cache" ELSE "shown"
      OBVIOUS
    <2>2. seAsk' = [seAsk EXCEPT ![u] = [pc |-> pc, page |-> p]] /\ UNCHANGED seCache
      BY <1>5, <2>1 DEF SearchPage
    <2>3. SwPageOK(p, d)
      BY <1>d, <2>1, SwFresh DEF SwInv
    <2> QED
      BY <1>2, <1>3, <2>2, <2>3
  <1>6. ASSUME NEW u \in SeClient, CachedSearch(u) PROVE SwInv'
    <2>1. PICK a, p : a = seAsk[u] /\ p = a.page
      OBVIOUS
    <2>2. a = [pc |-> a.pc, page |-> p] /\ SwPageOK(p, d)
      BY <1>2, <2>1 DEF SwAskOK
    <2>3. PICK b : b = [a EXCEPT !.pc = "shown"]
      OBVIOUS
    <2>4. seAsk' = [seAsk EXCEPT ![u] = b]
      BY <1>6, <2>1, <2>3 DEF CachedSearch
    <2>5. b = [pc |-> "shown", page |-> p]
      BY <2>2, <2>3
    <2>6. seCache' \subseteq seCache \cup {p}
      BY <1>6, <2>1 DEF CachedSearch
    <2> QED
      BY <1>2, <1>3, <2>2, <2>4, <2>5, <2>6
  <1>7. CASE ExpirePage
    <2>1. seCache' \subseteq seCache /\ UNCHANGED seAsk
      BY <1>7 DEF ExpirePage
    <2>2. SwPages'
      BY <1>2, <1>d, <2>1, SwPagesAfter
    <2> QED
      BY <1>1, <2>2 DEF SwInv
  <1> QED
    BY <1>4, <1>5, <1>6, <1>7 DEF SeSearch

LEMMA SwInvStep == SwInv /\ [SeNext]_seVars => SwInv'
  <1> SUFFICES ASSUME SwInv, [SeNext]_seVars PROVE SwInv'
    OBVIOUS
  <1>0. SgInv'
    BY SgInvStep DEF SwInv
  <1>1. ASSUME NEW c \in SeConsumer, SeConsume(c) /\ UNCHANGED seView PROVE SwInv'
    BY <1>1, SwConsume
  <1>2. CASE SeRestart /\ UNCHANGED <<seView, seCache, seAsk>>
    <2>1. SwWork'
      BY <1>2 DEF SeRestart, SwWork, SeIdle
    <2>2. UNCHANGED seDocs
      BY <1>2 DEF SeRestart
    <2> QED
      BY <1>0, <1>2, <2>1, <2>2, SwStill
  <1>3. CASE SeRefresh
    <2>1. SwWork'
      BY <1>3 DEF SeRefresh, SwInv, SwWork
    <2> QED
      BY <1>0, <1>3, <2>1, SwStill DEF SeRefresh
  <1>4. CASE SeSearch /\ UNCHANGED <<seLog, seQueue, seWork, seDocs, seView, seDead, seLost, seRaced>>
    BY <1>0, <1>4, SwSearch
  <1>5. CASE UNCHANGED seVars
    <2>1. SwWork' /\ UNCHANGED <<seDocs, seView, seCache, seAsk>>
      BY <1>5 DEF seVars, SwInv, SwWork
    <2> QED
      BY <1>0, <2>1, SwStill
  <1> QED
    BY <1>1, <1>2, <1>3, <1>4, <1>5 DEF SeNext

\* An answer stays true of every document that has not changed since its page was computed:
\* whatever is cached, refreshed, written and deleted in between, it lists only what fits the
\* query, leaves out nothing before what it lists, and nothing at all without a next page.
THEOREM PagesAreTrue == SeSpec => []SePagesAreTrue
  <1>1. SwInv => SePagesAreTrue
    BY SwInvImplies
  <1> QED
    BY <1>1, SwInvInit, SwInvStep, PTL DEF SeSpec

-----------------------------------------------------------------------------
(***************************************************************************)
(* Proofs about SearchOps, for any number of replicas, retries, faults and *)
(* restarts.  Nothing takes an index or an alias away, so what a replica   *)
(* has made sure of in one pass without an error still holds when the pass *)
(* ends: that is what "ready" says, whatever the others did in between.    *)
(***************************************************************************)

SiMade(k) == k \in sxMapped /\ k \in sxAlias

SiWorkOK(w) ==
    /\ w = [pc |-> w.pc, pos |-> w.pos, errs |-> w.errs, try |-> w.try, boot |-> w.boot, ready |-> w.ready]
    /\ w.pos \in 1..4 /\ w.errs \in Nat /\ w.boot \in BOOLEAN /\ w.ready \in BOOLEAN
    /\ w.boot => ~w.ready
    /\ w.boot /\ w.errs = 0 => \A i \in 1..4 : i < w.pos => SiMade(EnsureList[i])
    /\ w.pc = "alias" => EnsureList[w.pos] \in sxMapped
    /\ w.ready => \A i \in 1..4 : SiMade(EnsureList[i])

\* A search of a replica that is ready has found what it looked for; one that boots has not searched.
SiAnswerOK(w, said) == /\ w.boot => said = "none"
                       /\ w.ready => said \in {"none", "hits"}

\* The inductive invariant; a name is never both an alias and an index OpenSearch made itself.
SiInv ==
    /\ sxAlias \cap sxPlain = {}
    /\ sxWork = [r \in SxReplica |-> sxWork[r]]
    /\ sxAnswer = [r \in SxReplica |-> sxAnswer[r]]
    /\ \A r \in SxReplica : SiWorkOK(sxWork[r]) /\ SiAnswerOK(sxWork[r], sxAnswer[r].said)

\* What every step keeps.
SiGrows ==
    /\ sxMapped \subseteq sxMapped' /\ sxAlias \subseteq sxAlias'
    /\ sxAlias' \cap sxPlain' = {}

LEMMA SiFour == DOMAIN EnsureList = 1..4 /\ Len(EnsureList) = 4
  BY DEF EnsureList

LEMMA SiKinds == SxKind = {"deliveries", "drivers", "media", "users"}
                 /\ SxKind = {EnsureList[i] : i \in 1..4}
  <1>1. SxKind = {EnsureList[i] : i \in 1..4}
    BY SiFour DEF SxKind
  <1>2. /\ EnsureList[1] = "deliveries" /\ EnsureList[2] = "drivers"
        /\ EnsureList[3] = "media" /\ EnsureList[4] = "users"
    BY DEF EnsureList
  <1>3. ASSUME NEW i \in 1..4 PROVE EnsureList[i] \in {"deliveries", "drivers", "media", "users"}
    <2>1. i = 1 \/ i = 2 \/ i = 3 \/ i = 4
      OBVIOUS
    <2> QED
      BY <2>1, <1>2
  <1>4. {"deliveries", "drivers", "media", "users"} \subseteq {EnsureList[i] : i \in 1..4}
    <2>1. 1 \in 1..4 /\ 2 \in 1..4 /\ 3 \in 1..4 /\ 4 \in 1..4
      OBVIOUS
    <2> QED
      BY <2>1, <1>2
  <1> QED
    BY <1>1, <1>3, <1>4

\* With the mapping of its index every query finds fields that serve it.
LEMMA SiMappingsFit == \A k \in SxKind : Fits(MappingOf(k), QueryUses(k))
  <1> SUFFICES ASSUME NEW k \in SxKind PROVE Fits(MappingOf(k), QueryUses(k))
    OBVIOUS
  <1>1. CASE k = "deliveries"
    BY <1>1 DEF Fits, MappingOf, QueryUses, Serves, DeliveriesMapping
  <1>2. CASE k = "drivers"
    BY <1>2 DEF Fits, MappingOf, QueryUses, Serves, DriversMapping
  <1>3. CASE k = "users"
    BY <1>3 DEF Fits, MappingOf, QueryUses, Serves, UsersMapping
  <1>4. CASE k = "media"
    BY <1>4 DEF Fits, MappingOf, QueryUses, Serves, MediaMapping
  <1> QED
    BY <1>1, <1>2, <1>3, <1>4, SiKinds

LEMMA SiInvImplies == SiInv => SxReadyIsServed
  <1> SUFFICES ASSUME SiInv, NEW r \in SxReplica, sxWork[r].ready
               PROVE  SxKind \subseteq sxMapped \cap sxAlias /\ sxAnswer[r].said \in {"none", "hits"}
    BY DEF SxReadyIsServed
  <1>1. \A i \in 1..4 : EnsureList[i] \in sxMapped \cap sxAlias
    BY DEF SiInv, SiWorkOK, SiMade
  <1>2. sxAnswer[r].said \in {"none", "hits"}
    BY DEF SiInv, SiAnswerOK
  <1> QED
    BY <1>1, <1>2, SiKinds

LEMMA SiBooting == SiWorkOK(SxBooting) /\ SxBooting.boot /\ ~SxBooting.ready /\ SxBooting.pc # "alias"
  BY DEF SxBooting, SiWorkOK

LEMMA SiInvInit == SxInit => SiInv
  BY SiBooting DEF SxInit, SiInv, SiAnswerOK

\* What a replica has made sure of, it keeps.
LEMMA SiKept ==
    ASSUME SiGrows, NEW w, SiWorkOK(w)
    PROVE  SiWorkOK(w)'
  BY DEF SiGrows, SiWorkOK, SiMade

\* One replica moves, and what it says about itself holds.
LEMMA SiMove ==
    ASSUME SiInv, SiGrows, NEW r \in SxReplica, NEW w, sxWork' = [sxWork EXCEPT ![r] = w],
           SiWorkOK(w)',
           UNCHANGED sxAnswer, w.boot => sxWork[r].boot, w.ready => sxWork[r].ready \/ sxWork[r].boot
    PROVE  SiInv'
  <1>1. /\ sxWork' = [x \in SxReplica |-> sxWork'[x]] /\ sxWork'[r] = w
        /\ \A x \in SxReplica \ {r} : sxWork'[x] = sxWork[x]
    BY DEF SiInv
  <1>2. ASSUME NEW x \in SxReplica
        PROVE  SiWorkOK(sxWork[x])' /\ SiAnswerOK(sxWork[x], sxAnswer[x].said)'
    <2>1. PICK v : v = sxWork[x]
      OBVIOUS
    <2>2. SiWorkOK(v)'
      BY <2>1, SiKept DEF SiInv
    <2>3. CASE x = r
      BY <2>3, <1>1 DEF SiInv, SiAnswerOK, SiWorkOK
    <2>4. CASE x # r
      BY <2>1, <2>2, <2>4, <1>1 DEF SiInv, SiAnswerOK, SiWorkOK
    <2> QED
      BY <2>3, <2>4
  <1> QED
    BY <1>1, <1>2 DEF SiInv, SiGrows

\* The loop goes on: the alias at hand is made, or it is counted as an error.
LEMMA SiNext ==
    ASSUME SiInv, SiGrows, NEW r \in SxReplica, NEW f \in {0, 1}, EnsureNext(r, f),
           f = 0 => EnsureList[sxWork[r].pos] \in sxMapped' \cap sxAlias', UNCHANGED sxAnswer
    PROVE  SiInv'
  <1>v. PICK v : v = sxWork[r]
    OBVIOUS
  <1>e. PICK n : n = v.errs + f
    OBVIOUS
  <1>w. PICK w : /\ sxWork' = [sxWork EXCEPT ![r] = w]
                 /\ w = IF v.pos = 4 THEN EnsureEnds(v, n)
                        ELSE [v EXCEPT !.pos = v.pos + 1, !.errs = n, !.pc = "exists"]
    BY <1>v, <1>e, SiFour DEF EnsureNext
  <1>0. SiWorkOK(v) /\ SiWorkOK(v)'
    BY <1>v, SiKept DEF SiInv
  <1>1. /\ v = [pc |-> v.pc, pos |-> v.pos, errs |-> v.errs, try |-> v.try, boot |-> v.boot, ready |-> v.ready]
        /\ v.pos \in 1..4 /\ v.errs \in Nat /\ v.boot \in BOOLEAN /\ v.ready \in BOOLEAN
        /\ v.boot => ~v.ready
        /\ v.ready => \A i \in 1..4 : SiMade(EnsureList[i])'
    BY <1>0 DEF SiWorkOK
  <1>2. n \in Nat /\ (n = 0 <=> v.errs = 0 /\ f = 0)
    BY <1>1, <1>e
  <1>3. v.boot /\ n = 0 => \A i \in 1..4 : i <= v.pos => SiMade(EnsureList[i])'
    <2> SUFFICES ASSUME v.boot, n = 0, NEW i \in 1..4, i <= v.pos PROVE SiMade(EnsureList[i])'
      OBVIOUS
    <2>1. CASE i = v.pos
      BY <2>1, <1>2, <1>v DEF SiMade
    <2>2. CASE i < v.pos
      BY <2>2, <1>0, <1>2 DEF SiWorkOK
    <2> QED
      BY <2>1, <2>2, <1>1
  <1>4. SiWorkOK(w)' /\ (w.boot => v.boot) /\ (w.ready => v.ready \/ v.boot)
    <2>1. CASE v.pos # 4
      <3>1. w = [v EXCEPT !.pos = v.pos + 1, !.errs = n, !.pc = "exists"]
        BY <2>1, <1>w
      <3>2. /\ w = [pc |-> w.pc, pos |-> w.pos, errs |-> w.errs, try |-> w.try, boot |-> w.boot, ready |-> w.ready]
            /\ w.pos = v.pos + 1 /\ w.errs = n /\ w.pc = "exists" /\ w.boot = v.boot /\ w.ready = v.ready
        BY <3>1, <1>1
      <3>3. w.boot /\ w.errs = 0 => \A i \in 1..4 : i < w.pos => SiMade(EnsureList[i])'
        BY <3>2, <1>1, <1>3
      <3> QED
        BY <2>1, <3>2, <3>3, <1>1, <1>2 DEF SiWorkOK
    <2>2. CASE v.pos = 4 /\ ~v.boot
      <3>1. w = [v EXCEPT !.pc = "serving"]
        BY <2>2, <1>w DEF EnsureEnds
      <3>2. /\ w = [pc |-> w.pc, pos |-> w.pos, errs |-> w.errs, try |-> w.try, boot |-> w.boot, ready |-> w.ready]
            /\ w.pos = v.pos /\ w.errs = v.errs /\ w.pc = "serving" /\ w.boot = v.boot /\ w.ready = v.ready
        BY <3>1, <1>1
      <3> QED
        BY <2>2, <3>2, <1>1 DEF SiWorkOK
    <2>3. CASE v.pos = 4 /\ v.boot /\ n = 0
      <3>1. w = [v EXCEPT !.pc = "serving", !.boot = FALSE, !.ready = TRUE]
        BY <2>3, <1>w DEF EnsureEnds
      <3>2. /\ w = [pc |-> w.pc, pos |-> w.pos, errs |-> w.errs, try |-> w.try, boot |-> w.boot, ready |-> w.ready]
            /\ w.pos = v.pos /\ w.errs = v.errs /\ w.pc = "serving" /\ w.boot = FALSE /\ w.ready = TRUE
        BY <3>1, <1>1
      <3>3. \A i \in 1..4 : SiMade(EnsureList[i])'
        BY <2>3, <1>3
      <3> QED
        BY <2>3, <3>2, <3>3, <1>1 DEF SiWorkOK
    <2>4. CASE v.pos = 4 /\ v.boot /\ n # 0
      <3>1. \/ w = [SxBooting EXCEPT !.try = v.try + 1]
            \/ w = [v EXCEPT !.pc = "serving", !.boot = FALSE]
        BY <2>4, <1>2, <1>w DEF EnsureEnds
      <3>2. CASE w = [SxBooting EXCEPT !.try = v.try + 1]
        <4>t. PICK t : t = v.try + 1
          OBVIOUS
        <4>1. w = [pc |-> "exists", pos |-> 1, errs |-> 0, try |-> t, boot |-> TRUE, ready |-> FALSE]
          BY <3>2, <4>t DEF SxBooting
        <4> QED
          BY <2>4, <4>1 DEF SiWorkOK
      <3>3. CASE w = [v EXCEPT !.pc = "serving", !.boot = FALSE]
        <4>1. /\ w = [pc |-> w.pc, pos |-> w.pos, errs |-> w.errs, try |-> w.try, boot |-> w.boot, ready |-> w.ready]
              /\ w.pos = v.pos /\ w.errs = v.errs /\ w.pc = "serving" /\ w.boot = FALSE /\ w.ready = v.ready
          BY <3>3, <1>1
        <4> QED
          BY <2>4, <4>1, <1>1 DEF SiWorkOK
      <3> QED
        BY <3>1, <3>2, <3>3
    <2> QED
      BY <2>1, <2>2, <2>3, <2>4, <1>1
  <1> QED
    BY <1>w, <1>v, <1>4, SiMove

LEMMA SiGoto ==
    ASSUME SiInv, SiGrows, NEW r \in SxReplica, NEW pc \in {"create", "alias"}, SxGoto(r, pc),
           pc = "alias" => SxAt(r) \in sxMapped', UNCHANGED sxAnswer
    PROVE  SiInv'
  <1>v. PICK v : v = sxWork[r]
    OBVIOUS
  <1>0. SiWorkOK(v)' /\ v = [pc |-> v.pc, pos |-> v.pos, errs |-> v.errs, try |-> v.try, boot |-> v.boot, ready |-> v.ready]
    BY <1>v, SiKept DEF SiInv, SiWorkOK
  <1>w. PICK w : w = [v EXCEPT !.pc = pc]
    OBVIOUS
  <1>1. /\ w = [pc |-> w.pc, pos |-> w.pos, errs |-> w.errs, try |-> w.try, boot |-> w.boot, ready |-> w.ready]
        /\ w.pos = v.pos /\ w.errs = v.errs /\ w.pc = pc /\ w.boot = v.boot /\ w.ready = v.ready
        /\ sxWork' = [sxWork EXCEPT ![r] = w]
    BY <1>0, <1>v, <1>w DEF SxGoto
  <1>2. pc = "alias" => EnsureList[v.pos] \in sxMapped'
    BY <1>v DEF SxAt
  <1>3. SiWorkOK(w)'
    BY <1>0, <1>1, <1>2 DEF SiWorkOK
  <1> QED
    BY <1>1, <1>3, <1>v, SiMove

LEMMA SiEnsure ==
    ASSUME SiInv, NEW r \in SxReplica, EnsureStep(r)
    PROVE  SiInv'
  <1>1. CASE IndexExists(r)
    <2>1. SiGrows /\ UNCHANGED sxAnswer
      BY <1>1 DEF IndexExists, EnsureStep, SiGrows, SiInv
    <2>2. CASE SxGoto(r, IF SxAt(r) \in sxMapped THEN "alias" ELSE "create")
      <3>1. CASE SxAt(r) \in sxMapped
        BY <2>1, <2>2, <3>1, <1>1, SiGoto DEF IndexExists
      <3>2. CASE SxAt(r) \notin sxMapped
        BY <2>1, <2>2, <3>2, SiGoto
      <3> QED
        BY <3>1, <3>2
    <2>3. CASE EnsureNext(r, 1)
      BY <2>1, <2>3, SiNext
    <2> QED
      BY <1>1, <2>2, <2>3 DEF IndexExists
  <1>2. CASE CreateIndex(r)
    <2>1. SiGrows /\ UNCHANGED sxAnswer
      BY <1>2 DEF CreateIndex, EnsureStep, SiGrows, SiInv
    <2>2. CASE sxMapped' = sxMapped \cup {SxAt(r)} /\ SxGoto(r, "alias")
      BY <2>1, <2>2, SiGoto
    <2>3. CASE EnsureNext(r, 1)
      BY <2>1, <2>3, SiNext
    <2> QED
      BY <1>2, <2>2, <2>3 DEF CreateIndex
  <1>3. CASE EnsureAlias(r)
    <2>1. SiGrows /\ UNCHANGED sxAnswer
      BY <1>3 DEF EnsureAlias, EnsureStep, SiGrows, SiInv, AddAlias
    <2>2. CASE EnsureNext(r, 1)
      BY <2>1, <2>2, SiNext
    <2>3. CASE EnsureNext(r, 0) /\ SxAt(r) \notin sxPlain /\ sxAlias' = AddAlias(SxAt(r))
      <3>1. SxAt(r) \in sxMapped'
        BY <1>3, <2>1 DEF EnsureAlias, SiInv, SiWorkOK, SiGrows, SxAt
      <3>2. SxAt(r) \in sxAlias'
        BY <2>3 DEF AddAlias
      <3> QED
        BY <2>1, <2>3, <3>1, <3>2, SiNext DEF SxAt
    <2> QED
      BY <1>3, <2>2, <2>3 DEF EnsureAlias
  <1> QED
    BY <1>1, <1>2, <1>3 DEF EnsureStep

\* A replica starts over: it knows nothing, and has answered nothing.
LEMMA SiRestart ==
    ASSUME SiInv, NEW r \in SxReplica, SxRestart(r)
    PROVE  SiInv'
  <1>1. /\ sxWork' = [sxWork EXCEPT ![r] = SxBooting] /\ SiGrows
        /\ sxAnswer' = [sxAnswer EXCEPT ![r] = [kind |-> "none", said |-> "none"]]
    BY DEF SxRestart, SiGrows, SiInv
  <1>2. /\ sxWork' = [x \in SxReplica |-> sxWork'[x]] /\ sxAnswer' = [x \in SxReplica |-> sxAnswer'[x]]
        /\ sxWork'[r] = SxBooting /\ sxAnswer'[r].said = "none"
        /\ \A x \in SxReplica \ {r} : sxWork'[x] = sxWork[x] /\ sxAnswer'[x] = sxAnswer[x]
    BY <1>1 DEF SiInv
  <1>3. ASSUME NEW x \in SxReplica
        PROVE  SiWorkOK(sxWork[x])' /\ SiAnswerOK(sxWork[x], sxAnswer[x].said)'
    <2>v. PICK v : v = sxWork'[x]
      OBVIOUS
    <2>1. CASE x = r
      <3>1. SiWorkOK(v)'
        BY <2>1, <2>v, <1>1, <1>2, SiBooting, SiKept
      <3> QED
        BY <2>1, <2>v, <3>1, <1>2, SiBooting DEF SiWorkOK, SiAnswerOK
    <2>2. CASE x # r
      <3>1. SiWorkOK(v)'
        BY <2>2, <2>v, <1>1, <1>2, SiKept DEF SiInv
      <3> QED
        BY <2>2, <2>v, <3>1, <1>2 DEF SiWorkOK, SiAnswerOK, SiInv
    <2> QED
      BY <2>1, <2>2
  <1> QED
    BY <1>1, <1>2, <1>3 DEF SiInv, SiGrows

\* A search: a replica that is ready has the alias, on the index with the mapping.
LEMMA SiSearch ==
    ASSUME SiInv, NEW r \in SxReplica, NEW k \in SxKind, SearchOn(r, k)
    PROVE  SiInv'
  <1>v. PICK v : v = sxWork[r]
    OBVIOUS
  <1>0. /\ v = [pc |-> v.pc, pos |-> v.pos, errs |-> v.errs, try |-> v.try, boot |-> v.boot, ready |-> v.ready]
        /\ SiWorkOK(v) /\ ~v.boot
    BY <1>v DEF SearchOn, SiInv, SiWorkOK
  <1>1. UNCHANGED <<sxMapped, sxAlias>> /\ SiGrows
    BY DEF SearchOn, SiGrows, SiInv
  <1>a. PICK a : /\ sxAnswer' = [sxAnswer EXCEPT ![r] = a]
                 /\ a = [kind |-> k, said |-> a.said]
                 /\ k \in sxAlias /\ Fits(MappingOf(k), QueryUses(k)) => a.said = "hits"
    <2>s. PICK s : s = CASE k \in sxAlias -> IF Fits(MappingOf(k), QueryUses(k)) THEN "hits" ELSE "misfit"
                         [] k \in sxPlain -> IF Fits(DynamicMapping(k), QueryUses(k)) THEN "hits" ELSE "misfit"
                         [] OTHER -> "empty"
      OBVIOUS
    <2>b. PICK b : b = [kind |-> k, said |-> s]
      OBVIOUS
    <2>1. sxAnswer' = [sxAnswer EXCEPT ![r] = b]
      BY <2>s, <2>b DEF SearchOn
    <2>2. k \in sxAlias /\ Fits(MappingOf(k), QueryUses(k)) => s = "hits"
      BY <2>s DEF SiInv
    <2>3. b.said = s /\ b = [kind |-> k, said |-> b.said]
      BY <2>b
    <2> QED
      BY <2>1, <2>2, <2>3
  <1>2. v.ready => a.said = "hits"
    <2>1. v.ready => k \in sxAlias
      BY <1>0, SiKinds DEF SiWorkOK, SiMade
    <2> QED
      BY <2>1, <1>a, SiMappingsFit
  <1>w. PICK w : /\ sxWork' = [sxWork EXCEPT ![r] = w]
                 /\ w = v \/ w = [v EXCEPT !.pc = "exists", !.pos = 1, !.errs = 0]
    <2>1. CASE UNCHANGED sxWork
      <3>1. sxWork' = [sxWork EXCEPT ![r] = v]
        BY <2>1, <1>v DEF SiInv
      <3> QED
        BY <3>1
    <2>2. CASE sxWork' = [sxWork EXCEPT ![r].pc = "exists", ![r].pos = 1, ![r].errs = 0]
      <3>1. PICK x : x = [v EXCEPT !.pc = "exists", !.pos = 1, !.errs = 0]
        OBVIOUS
      <3>2. sxWork' = [sxWork EXCEPT ![r] = x]
        BY <2>2, <3>1, <1>v DEF SiInv
      <3> QED
        BY <3>1, <3>2
    <2> QED
      BY <2>1, <2>2 DEF SearchOn
  <1>3. SiWorkOK(w) /\ w.boot = v.boot /\ w.ready = v.ready
    <2>1. CASE w = v
      BY <2>1, <1>0
    <2>2. CASE w = [v EXCEPT !.pc = "exists", !.pos = 1, !.errs = 0]
      <3>1. /\ w = [pc |-> w.pc, pos |-> w.pos, errs |-> w.errs, try |-> w.try, boot |-> w.boot, ready |-> w.ready]
            /\ w.pos = 1 /\ w.errs = 0 /\ w.pc = "exists" /\ w.boot = v.boot /\ w.ready = v.ready
        BY <2>2, <1>0
      <3> QED
        BY <3>1, <1>0 DEF SiWorkOK
    <2> QED
      BY <2>1, <2>2, <1>w
  <1>4. /\ sxWork' = [x \in SxReplica |-> sxWork'[x]] /\ sxAnswer' = [x \in SxReplica |-> sxAnswer'[x]]
        /\ sxWork'[r] = w /\ sxAnswer'[r] = a
        /\ \A x \in SxReplica \ {r} : sxWork'[x] = sxWork[x] /\ sxAnswer'[x] = sxAnswer[x]
    BY <1>a, <1>w DEF SiInv
  <1>5. ASSUME NEW x \in SxReplica
        PROVE  SiWorkOK(sxWork[x])' /\ SiAnswerOK(sxWork[x], sxAnswer[x].said)'
    <2>u. PICK u : u = sxWork'[x]
      OBVIOUS
    <2>1. CASE x = r
      <3>1. SiWorkOK(u)'
        BY <2>1, <2>u, <1>1, <1>3, <1>4, SiKept
      <3> QED
        BY <2>1, <2>u, <3>1, <1>0, <1>2, <1>3, <1>4 DEF SiWorkOK, SiAnswerOK
    <2>2. CASE x # r
      <3>1. SiWorkOK(u)'
        BY <2>2, <2>u, <1>1, <1>4, SiKept DEF SiInv
      <3> QED
        BY <2>2, <2>u, <3>1, <1>4 DEF SiWorkOK, SiAnswerOK, SiInv
    <2> QED
      BY <2>1, <2>2
  <1> QED
    BY <1>1, <1>4, <1>5 DEF SiInv, SiGrows

LEMMA SiInvStep == SiInv /\ [SxNext]_sxVars => SiInv'
  <1> SUFFICES ASSUME SiInv, [SxNext]_sxVars PROVE SiInv'
    OBVIOUS
  <1>1. ASSUME UNCHANGED <<sxMapped, sxAlias, sxWork, sxAnswer>>, sxAlias' \cap sxPlain' = {} PROVE SiInv'
    BY <1>1 DEF SiInv, SiWorkOK, SiAnswerOK, SiMade
  <1>2. ASSUME NEW r \in SxReplica, NEW k \in SxKind, UpsertDoc(r, k) PROVE SiInv'
    <2>1. UNCHANGED <<sxMapped, sxAlias, sxWork, sxAnswer>> /\ sxAlias' \cap sxPlain' = {}
      BY <1>2 DEF UpsertDoc, SiInv
    <2> QED
      BY <2>1, <1>1
  <1>3. CASE UNCHANGED sxVars
    BY <1>1, <1>3 DEF sxVars, SiInv
  <1> QED
    BY <1>2, <1>3, SiEnsure, SiRestart, SiSearch DEF SxNext

\* A replica that found its indices ready has every alias on the index with its own mapping and
\* keeps it, whatever the other replicas create, lose or write at the same time, so that none of
\* its searches meets an index that does not serve the query, or none at all.
THEOREM ReadyIsServed == SxSpec => []SxReadyIsServed
  <1> QED
    BY SiInvInit, SiInvStep, SiInvImplies, PTL DEF SxSpec

-----------------------------------------------------------------------------
(***************************************************************************)
(* Proofs about AnalyticsIngestion, for any finite set of topics, whatever *)
(* they hold, and any row budget, number of retries and faults.            *)
(*                                                                         *)
(* A flush owes: while it has still to write a fact table, the raw events  *)
(* already count every event of the batch (AiOwed), so a batch that fails  *)
(* and is written again can only add to the raw events first.  It has      *)
(* written what it has passed (AiWritten), which is what a mark promises   *)
(* (AiStored).  Something has become of every event a reader has passed    *)
(* (AiPassed): memory is emptied by a flush that wrote its rows, or by the *)
(* end of the process, which the history records.  Rows only grow, so what *)
(* was cached is an answer over fewer rows (AiCached).                     *)
(***************************************************************************)

\* Every message that a topic holds.
AiAll == UNION {ToSet(anLog[t]) : t \in AnTopic}

\* The messages that reach a handler.
AiGood == {m \in AiAll : ~Permanent(m)}

\* The topics are sequences, and an identifier stands for one message.
AiLogs ==
    /\ anLog = [t \in AnTopic |-> anLog[t]]
    /\ \A t \in AnTopic : anLog[t] \in Seq(ToSet(anLog[t]))
    /\ \A x, y \in AiAll : x.id = y.id => x = y

\* A reader is at a message of its topic whenever it works on one, it retries while it may, and only
\* a message that passed the checks is added; its offset is behind its place.
AiReader(t, r, log, c) ==
    /\ r.pc \in {"fetch", "process", "add", "flush", "dlq", "commit"}
    /\ r.pos \in Nat /\ r.pos >= 1 /\ r.pos <= Len(log) + 1
    /\ r.tries \in Nat /\ r.tries <= AnMaxRetries + 1
    /\ r.pc # "fetch" => r.pos <= Len(log)
    /\ r.pc \in {"fetch", "process", "add", "flush"} => r.tries <= AnMaxRetries
    /\ r.pc \in {"add", "flush"} => ~Permanent(log[r.pos])
    /\ c \in Nat /\ c < r.pos

AiReaders ==
    /\ anCommitted \in [AnTopic -> Nat]
    /\ anReader = [t \in AnTopic |-> [pc |-> anReader[t].pc, pos |-> anReader[t].pos,
                                      tries |-> anReader[t].tries]]
    /\ \A t \in AnTopic : AiReader(t, anReader[t], anLog[t], anCommitted[t])
    /\ anUp \in {"up", "stopping", "stopped"}

\* What waits and what is flushed, and whose flush it is.
AiWriter ==
    /\ anPending \in Seq(AiGood) /\ anFlush.batch \in Seq(AiGood)
    /\ anFlush = [by |-> anFlush.by, batch |-> anFlush.batch, table |-> anFlush.table]
    /\ anFlush.by \in AnTopic \cup {"none", "ticker", "stop"}
    /\ anFlush.table \in 0 .. 8
    /\ anFlush.by = "none" => anFlush = NoFlush
    /\ anFlush.by # "none" => anFlush.table # 0
    /\ \A t \in AnTopic : anReader[t].pc = "flush" <=> anFlush.by = t

AiRows == anRows \in [AnTable -> [AnIds -> Nat]]

AiMarks == anSeen \subseteq AnIds /\ anDead \subseteq AnIds /\ anLost \subseteq AnIds

\* The seven tables, the raw events first.
LEMMA AiTables ==
    /\ Len(AnTables) = 7 /\ DOMAIN AnTables = 1 .. 7
    /\ AnTables[1] = "raw_events"
    /\ \A i, j \in 1 .. 7 : AnTables[i] = AnTables[j] => i = j
    /\ AnTable = {AnTables[i] : i \in 1 .. 7}
  BY DEF AnTables, AnTable

\* An event that reaches a handler has its rows in tables that exist, one of them the raw event.
LEMMA AiRoute ==
    ASSUME NEW m, ~Permanent(m)
    PROVE  Route(m) \subseteq AnTable /\ "raw_events" \in Route(m)
  <1>1. AnTable = {"raw_events", "fact_delivery_events", "fact_delivery_completed",
                   "fact_driver_assignments", "fact_payment_transactions",
                   "fact_notification_events", "analytics_data_quality_issues"}
    BY AiTables DEF AnTables
  <1>2. \/ m.type \in DeliveryEvents \/ m.type \in DriverEvents
        \/ m.type \in PaymentEvents \/ m.type \in NotificationEvents
    BY DEF Permanent, ValidateSchema, AnEventType
  <1>3. DeliveryHandle(m) \subseteq AnTable /\ DriverHandle(m) \subseteq AnTable
        /\ PaymentHandle(m) \subseteq AnTable /\ NotificationHandle(m) \subseteq AnTable
    BY <1>1 DEF DeliveryHandle, DriverHandle, PaymentHandle, NotificationHandle, TimelineTable
  <1>4. (CASE m.type \in DeliveryEvents -> DeliveryHandle(m)
           [] m.type \in DriverEvents -> DriverHandle(m)
           [] m.type \in PaymentEvents -> PaymentHandle(m)
           [] m.type \in NotificationEvents -> NotificationHandle(m)) \subseteq AnTable
    BY <1>2, <1>3
  <1> QED
    BY <1>1, <1>4 DEF Route

\* The identifiers are those of the messages, and they are finitely many.
LEMMA AiIds ==
    ASSUME AiLogs
    PROVE  /\ AnIds = {m.id : m \in AiAll} /\ IsFiniteSet(AnIds)
           /\ \A t \in AnTopic : /\ \A i \in 1 .. Len(anLog[t]) : anLog[t][i] \in AiAll
                                 /\ Len(anLog[t]) \in Nat
           /\ \A m \in AiAll : \E t \in AnTopic : \E i \in 1 .. Len(anLog[t]) : m = anLog[t][i]
  <1>1. AnIds = {m.id : m \in AiAll}
    BY DEF AnIds, AiAll
  <1>2. ASSUME NEW t \in AnTopic
        PROVE  /\ Len(anLog[t]) \in Nat /\ ToSet(anLog[t]) = {anLog[t][i] : i \in 1 .. Len(anLog[t])}
               /\ IsFiniteSet(ToSet(anLog[t]))
    <2>1. Len(anLog[t]) \in Nat /\ DOMAIN anLog[t] = 1 .. Len(anLog[t])
      BY DEF AiLogs
    <2>2. ToSet(anLog[t]) = {anLog[t][i] : i \in 1 .. Len(anLog[t])}
      BY <2>1 DEF ToSet
    <2>3. PICK f : f = [i \in 1 .. Len(anLog[t]) |-> anLog[t][i]]
      OBVIOUS
    <2>4. f \in Surjection(1 .. Len(anLog[t]), ToSet(anLog[t]))
      BY <2>2, <2>3 DEF Surjection
    <2>5. IsFiniteSet(1 .. Len(anLog[t]))
      <3>1. PICK n \in Nat : n = Len(anLog[t])
        BY <2>1
      <3>2. IsFiniteSet(1 .. n)
        BY FS_Interval
      <3> QED
        BY <3>1, <3>2
    <2> QED
      BY <2>1, <2>2, <2>4, <2>5, FS_Surjection
  <1>3. IsFiniteSet(AiAll)
    <2>1. PICK f : f = [t \in AnTopic |-> ToSet(anLog[t])]
      OBVIOUS
    <2>2. f \in Surjection(AnTopic, {ToSet(anLog[t]) : t \in AnTopic})
      BY <2>1 DEF Surjection
    <2>3. IsFiniteSet({ToSet(anLog[t]) : t \in AnTopic})
      BY <2>2, FS_Surjection, AnAssumption
    <2>4. \A S \in {ToSet(anLog[t]) : t \in AnTopic} : IsFiniteSet(S)
      BY <1>2
    <2> QED
      BY <2>3, <2>4, FS_UNION DEF AiAll
  <1>4. IsFiniteSet(AnIds)
    <2>1. PICK f : f = [m \in AiAll |-> m.id]
      OBVIOUS
    <2>2. f \in Surjection(AiAll, AnIds)
      BY <1>1, <2>1 DEF Surjection
    <2> QED
      BY <1>3, <2>2, FS_Surjection
  <1>5. ASSUME NEW t \in AnTopic, NEW i \in 1 .. Len(anLog[t]) PROVE anLog[t][i] \in AiAll
    <2>1. anLog[t][i] \in ToSet(anLog[t])
      BY <1>2
    <2> QED
      BY <2>1 DEF AiAll
  <1>6. \A m \in AiAll : \E t \in AnTopic : \E i \in 1 .. Len(anLog[t]) : m = anLog[t][i]
    BY <1>2 DEF AiAll
  <1> QED
    BY <1>1, <1>2, <1>4, <1>5, <1>6

\* The elements of a sequence of messages.
LEMMA AiElements ==
    ASSUME NEW S, NEW s \in Seq(S)
    PROVE  /\ ToSet(s) = {s[i] : i \in 1 .. Len(s)} /\ ToSet(s) \subseteq S
           /\ \A x \in S : Append(s, x) \in Seq(S) /\ ToSet(Append(s, x)) = ToSet(s) \cup {x}
           /\ \A r \in Seq(S) : s \o r \in Seq(S) /\ ToSet(s \o r) = ToSet(s) \cup ToSet(r)
           /\ s # <<>> => /\ Head(s) \in S /\ Tail(s) \in Seq(S)
                          /\ ToSet(s) = {Head(s)} \cup ToSet(Tail(s))
           /\ ToSet(<<>>) = {} /\ <<>> \in Seq(S)
  <1>1. \A r \in Seq(S) : DOMAIN r = 1 .. Len(r) /\ Len(r) \in Nat
    OBVIOUS
  <1>2. \A r \in Seq(S) : ToSet(r) = {r[i] : i \in 1 .. Len(r)} /\ ToSet(r) \subseteq S
    BY <1>1 DEF ToSet
  <1>3. ASSUME NEW x \in S
        PROVE  Append(s, x) \in Seq(S) /\ ToSet(Append(s, x)) = ToSet(s) \cup {x}
    <2>1. /\ Append(s, x) \in Seq(S) /\ Len(s) \in Nat /\ Len(Append(s, x)) = Len(s) + 1
          /\ \A i \in 1 .. Len(s) : Append(s, x)[i] = s[i]
          /\ Append(s, x)[Len(s) + 1] = x
      OBVIOUS
    <2>2. 1 .. (Len(s) + 1) = (1 .. Len(s)) \cup {Len(s) + 1}
      BY <2>1
    <2>3. ToSet(Append(s, x)) = {Append(s, x)[i] : i \in (1 .. Len(s)) \cup {Len(s) + 1}}
      BY <1>2, <2>1, <2>2
    <2> QED
      BY <1>2, <2>1, <2>3
  <1>4. ASSUME NEW r \in Seq(S)
        PROVE  s \o r \in Seq(S) /\ ToSet(s \o r) = ToSet(s) \cup ToSet(r)
    <2>1. /\ s \o r \in Seq(S) /\ Len(s) \in Nat /\ Len(r) \in Nat /\ Len(s \o r) = Len(s) + Len(r)
          /\ \A i \in 1 .. Len(s) : (s \o r)[i] = s[i]
          /\ \A i \in 1 .. Len(r) : (s \o r)[Len(s) + i] = r[i]
      OBVIOUS
    <2>2. ToSet(s \o r) \subseteq ToSet(s) \cup ToSet(r)
      <3>0. ToSet(s \o r) = {(s \o r)[i] : i \in 1 .. (Len(s) + Len(r))}
        BY <1>2, <2>1
      <3> SUFFICES ASSUME NEW i \in 1 .. (Len(s) + Len(r)) PROVE (s \o r)[i] \in ToSet(s) \cup ToSet(r)
        BY <3>0
      <3>1. i \in 1 .. Len(s) \/ i - Len(s) \in 1 .. Len(r)
        BY <2>1
      <3>2. CASE i - Len(s) \in 1 .. Len(r)
        <4>1. PICK k \in 1 .. Len(r) : i = Len(s) + k
          BY <2>1, <3>2, SMTT(30)
        <4>2. (s \o r)[i] = r[k] /\ r[k] \in ToSet(r)
          BY <1>2, <2>1, <4>1
        <4> QED
          BY <4>2
      <3> QED
        BY <1>2, <2>1, <3>1, <3>2
    <2>3. ToSet(s) \subseteq ToSet(s \o r)
      <3> SUFFICES ASSUME NEW i \in 1 .. Len(s) PROVE s[i] \in ToSet(s \o r)
        BY <1>2
      <3>1. i \in 1 .. Len(s \o r)
        BY <2>1
      <3> QED
        BY <1>2, <2>1, <3>1
    <2>4. ToSet(r) \subseteq ToSet(s \o r)
      <3> SUFFICES ASSUME NEW i \in 1 .. Len(r) PROVE r[i] \in ToSet(s \o r)
        BY <1>2
      <3>1. Len(s) + i \in 1 .. Len(s \o r)
        BY <2>1
      <3> QED
        BY <1>2, <2>1, <3>1
    <2> QED
      BY <2>1, <2>2, <2>3, <2>4
  <1>5. ASSUME s # <<>>
        PROVE  Head(s) \in S /\ Tail(s) \in Seq(S) /\ ToSet(s) = {Head(s)} \cup ToSet(Tail(s))
    <2>1. /\ Head(s) = s[1] /\ Tail(s) \in Seq(S) /\ Len(s) \in Nat /\ Len(s) >= 1
          /\ Len(Tail(s)) = Len(s) - 1 /\ \A i \in 1 .. Len(s) - 1 : Tail(s)[i] = s[i + 1]
      BY <1>5
    <2>2. 1 \in 1 .. Len(s)
      BY <2>1
    <2>3. ToSet(Tail(s)) \subseteq ToSet(s)
      <3>0. ToSet(Tail(s)) = {Tail(s)[i] : i \in 1 .. Len(s) - 1}
        BY <1>2, <2>1
      <3> SUFFICES ASSUME NEW i \in 1 .. Len(s) - 1 PROVE Tail(s)[i] \in ToSet(s)
        BY <3>0
      <3>1. i + 1 \in 1 .. Len(s)
        BY <2>1
      <3> QED
        BY <1>2, <2>1, <3>1
    <2>4. ToSet(s) \subseteq {Head(s)} \cup ToSet(Tail(s))
      <3> SUFFICES ASSUME NEW i \in 1 .. Len(s), i # 1 PROVE s[i] \in ToSet(Tail(s))
        BY <1>2, <2>1
      <3>1. PICK k \in 1 .. Len(s) - 1 : i = k + 1
        BY <2>1
      <3> QED
        BY <1>2, <2>1, <3>1
    <2> QED
      BY <1>2, <2>1, <2>2, <2>3, <2>4
  <1>6. <<>> \in Seq(S) /\ Len(<<>>) = 0 /\ DOMAIN <<>> = {}
    OBVIOUS
  <1>7. ToSet(<<>>) = {}
    BY <1>6 DEF ToSet
  <1> QED
    BY <1>2, <1>3, <1>4, <1>5, <1>6, <1>7


-----------------------------------------------------------------------------
(* The readers and the writer *)

\* Reader t becomes r, and r is right for what is committed then.
AiMoved(t, r) ==
    /\ r = [pc |-> r.pc, pos |-> r.pos, tries |-> r.tries]
    /\ anReader' = [anReader EXCEPT ![t] = r]
    /\ AiReader(t, r, anLog[t], anCommitted'[t])

\* What a reader becomes when it goes on.
LEMMA AiGoes ==
    ASSUME AiReaders, NEW t \in AnTopic, NEW pc, AnGoTo(t, pc)
    PROVE  \E r : /\ r = [pc |-> r.pc, pos |-> r.pos, tries |-> r.tries]
                  /\ anReader' = [anReader EXCEPT ![t] = r]
                  /\ r.pc = pc /\ r.pos = anReader[t].pos /\ r.tries = anReader[t].tries
  <1>1. anReader[t] = [pc |-> anReader[t].pc, pos |-> anReader[t].pos, tries |-> anReader[t].tries]
    BY DEF AiReaders
  <1>2. anReader' = [anReader EXCEPT ![t] = [anReader[t] EXCEPT !.pc = pc]]
    BY DEF AnGoTo
  <1>3. PICK r : r = [pc |-> pc, pos |-> anReader[t].pos, tries |-> anReader[t].tries]
    OBVIOUS
  <1>4. r = [anReader[t] EXCEPT !.pc = pc] /\ r = [pc |-> r.pc, pos |-> r.pos, tries |-> r.tries]
        /\ r.pc = pc /\ r.pos = anReader[t].pos /\ r.tries = anReader[t].tries
    BY <1>1, <1>3
  <1> QED
    BY <1>2, <1>4

\* What a reader becomes when it tries again.
LEMMA AiRetries ==
    ASSUME AiReaders, NEW t \in AnTopic, AnRetry(t), anReader[t].pc \in {"process", "flush"}
    PROVE  \E r : /\ r = [pc |-> r.pc, pos |-> r.pos, tries |-> r.tries]
                  /\ anReader' = [anReader EXCEPT ![t] = r]
                  /\ r.pc \in {"process", "dlq"} /\ r.pos = anReader[t].pos
                  /\ r.tries \in Nat /\ r.tries <= AnMaxRetries + 1
                  /\ r.pc = "process" => r.tries <= AnMaxRetries
  <1>1. /\ anReader[t] = [pc |-> anReader[t].pc, pos |-> anReader[t].pos, tries |-> anReader[t].tries]
        /\ AiReader(t, anReader[t], anLog[t], anCommitted[t])
    BY DEF AiReaders
  <1>2. PICK n : n = anReader[t].tries + 1
    OBVIOUS
  <1>3. PICK pc : pc = IF anReader[t].tries < AnMaxRetries THEN "process" ELSE "dlq"
    OBVIOUS
  <1>4. anReader' = [anReader EXCEPT ![t] = [[anReader[t] EXCEPT !.tries = n] EXCEPT !.pc = pc]]
    BY <1>1, <1>2, <1>3 DEF AnRetry, AiReaders
  <1>5. PICK r : r = [pc |-> pc, pos |-> anReader[t].pos, tries |-> n]
    OBVIOUS
  <1>6. r = [[anReader[t] EXCEPT !.tries = n] EXCEPT !.pc = pc]
        /\ r = [pc |-> r.pc, pos |-> r.pos, tries |-> r.tries]
        /\ r.pc = pc /\ r.pos = anReader[t].pos /\ r.tries = n
    <2>1. PICK old, a, b, c : old = anReader[t] /\ old = [pc |-> a, pos |-> b, tries |-> c]
      BY <1>1
    <2>2. [old EXCEPT !.tries = n] = [pc |-> a, pos |-> b, tries |-> n]
      BY <2>1
    <2>3. PICK mid : mid = [pc |-> a, pos |-> b, tries |-> n]
      OBVIOUS
    <2>4. [mid EXCEPT !.pc = pc] = [pc |-> pc, pos |-> b, tries |-> n]
      BY <2>3
    <2>5. b = old.pos
      BY <2>1
    <2> QED
      BY <1>5, <2>1, <2>2, <2>3, <2>4, <2>5
  <1>7. anReader[t].tries \in Nat /\ anReader[t].tries <= AnMaxRetries /\ AnMaxRetries \in Nat
    BY <1>1, AnAssumption DEF AiReader
  <1>8. n \in Nat /\ n <= AnMaxRetries + 1 /\ (pc = "process" => n <= AnMaxRetries)
    BY <1>2, <1>3, <1>7
  <1>9. anReader' = [anReader EXCEPT ![t] = r]
    BY <1>4, <1>6
  <1>10. /\ r.pc \in {"process", "dlq"} /\ r.pos = anReader[t].pos
         /\ r.tries \in Nat /\ r.tries <= AnMaxRetries + 1
         /\ r.pc = "process" => r.tries <= AnMaxRetries
    BY <1>3, <1>6, <1>8
  <1>11. r = [pc |-> r.pc, pos |-> r.pos, tries |-> r.tries]
    BY <1>6
  <1> QED
    BY <1>9, <1>10, <1>11

\* One reader moves, and the invariant of the readers is kept.
LEMMA AiReadersMove ==
    ASSUME AiReaders, NEW t \in AnTopic, NEW r, AiMoved(t, r),
           anLog' = anLog, anUp' \in {"up", "stopping", "stopped"},
           anCommitted' \in [AnTopic -> Nat],
           \A u \in AnTopic : u # t => anCommitted'[u] = anCommitted[u]
    PROVE  AiReaders'
  <1>1. /\ anReader = [u \in AnTopic |-> [pc |-> anReader[u].pc, pos |-> anReader[u].pos,
                                          tries |-> anReader[u].tries]]
        /\ anReader' = [anReader EXCEPT ![t] = r]
    BY DEF AiReaders, AiMoved
  <1>2. \A u \in AnTopic : anReader'[u] = IF u = t THEN r ELSE anReader[u]
    BY <1>1
  <1>3. anReader' = [u \in AnTopic |-> [pc |-> anReader'[u].pc, pos |-> anReader'[u].pos,
                                        tries |-> anReader'[u].tries]]
    <2>1. DOMAIN anReader' = AnTopic /\ anReader' = [u \in AnTopic |-> anReader'[u]]
      BY <1>1
    <2>2. \A u \in AnTopic : anReader'[u] = [pc |-> anReader'[u].pc, pos |-> anReader'[u].pos,
                                             tries |-> anReader'[u].tries]
      BY <1>1, <1>2 DEF AiMoved
    <2> QED
      BY <2>1, <2>2
  <1>4. \A u \in AnTopic : AiReader(u, anReader'[u], anLog'[u], anCommitted'[u])
    BY <1>2 DEF AiReaders, AiMoved
  <1> QED
    BY <1>3, <1>4 DEF AiReaders

\* A reader that starts again after what is committed.
LEMMA AiIdleReader ==
    ASSUME NEW t \in AnTopic, NEW c \in Nat, NEW log, Len(log) \in Nat, c <= Len(log)
    PROVE  /\ AnIdle(c + 1) = [pc |-> AnIdle(c + 1).pc, pos |-> AnIdle(c + 1).pos,
                               tries |-> AnIdle(c + 1).tries]
           /\ AnIdle(c + 1).pc = "fetch" /\ AnIdle(c + 1).pos = c + 1
           /\ AiReader(t, AnIdle(c + 1), log, c)
  <1>1. PICK zero, n : zero = 0 /\ n = c + 1
    OBVIOUS
  <1>2. PICK r : r = [pc |-> "fetch", pos |-> n, tries |-> zero]
    OBVIOUS
  <1>3. r = AnIdle(c + 1)
    BY <1>1, <1>2 DEF AnIdle
  <1>4. r = [pc |-> r.pc, pos |-> r.pos, tries |-> r.tries]
        /\ r.pc = "fetch" /\ r.pos = n /\ r.tries = zero
    BY <1>2
  <1>5. AiReader(t, r, log, c)
    BY <1>1, <1>4, AnAssumption DEF AiReader
  <1> QED
    BY <1>1, <1>3, <1>4, <1>5

\* What a reader does to the writer and to the marks, and where it stands then.
AiStep(t, r) ==
    /\ UNCHANGED <<anLog, anCache, anUp, anRows, anSeen>>
    /\ anCommitted' \in [AnTopic -> Nat]
    /\ \A u \in AnTopic : u # t => anCommitted'[u] = anCommitted[u]
    /\ \/ /\ UNCHANGED <<anPending, anFlush>>
          /\ anReader[t].pc # "flush" /\ r.pc # "flush"
          /\ \/ r.pc = "fetch" /\ anReader[t].pc = "commit" /\ r.pos = anReader[t].pos + 1
             \/ r.pc \in {"process", "add", "dlq"} /\ r.pos = anReader[t].pos
             \/ /\ r.pc = "commit" /\ r.pos = anReader[t].pos
                /\ \/ ~Permanent(AnAt(t)) /\ AnAt(t).id \in anSeen
                   \/ AnAt(t).id \in anDead' \cup anLost'
       \/ /\ anFlush = NoFlush /\ anReader[t].pc = "add" /\ r.pos = anReader[t].pos
          /\ \/ /\ anPending' = Append(anPending, AnAt(t)) /\ UNCHANGED anFlush
                /\ r.pc = "commit"
             \/ /\ anPending' = <<>>
                /\ anFlush' = [by |-> t, batch |-> Append(anPending, AnAt(t)), table |-> 1]
                /\ r.pc = "flush"
    /\ anDead' \subseteq anDead \cup {AnAt(t).id} /\ anLost' \subseteq anLost \cup {AnAt(t).id}
    /\ anDead \subseteq anDead' /\ anLost \subseteq anLost'
    /\ anReader[t].pc \in {"fetch", "process", "add", "commit"} => anDead' = anDead /\ anLost' = anLost

\* Every operation of a reader is such a step.
LEMMA AiReaderSteps ==
    ASSUME AiLogs, AiReaders, NEW t \in AnTopic, AnReaderStep(t)
    PROVE  \E r : AiMoved(t, r) /\ AiStep(t, r)
  <1>1. /\ AiReader(t, anReader[t], anLog[t], anCommitted[t])
        /\ anCommitted \in [AnTopic -> Nat] /\ AnMaxRetries \in Nat
        /\ UNCHANGED <<anLog, anCache, anUp>> /\ Len(anLog[t]) \in Nat
    BY AiIds, AnAssumption DEF AiReaders, AnReaderStep
  <1>2. ASSUME NEW pc, AnGoTo(t, pc), UNCHANGED anCommitted,
               pc \in {"process", "add", "dlq", "commit", "flush"}, anReader[t].pos <= Len(anLog[t]),
               pc \in {"process", "add", "flush"} => anReader[t].tries <= AnMaxRetries,
               pc \in {"add", "flush"} => ~Permanent(AnAt(t))
        PROVE  \E r : AiMoved(t, r) /\ r.pc = pc /\ r.pos = anReader[t].pos
    <2>1. PICK r : /\ r = [pc |-> r.pc, pos |-> r.pos, tries |-> r.tries]
                   /\ anReader' = [anReader EXCEPT ![t] = r]
                   /\ r.pc = pc /\ r.pos = anReader[t].pos /\ r.tries = anReader[t].tries
      BY <1>2, AiGoes
    <2>2. AiReader(t, r, anLog[t], anCommitted'[t])
      BY <1>1, <1>2, <2>1 DEF AiReader, AnAt
    <2> QED
      BY <2>1, <2>2 DEF AiMoved
  <1>3. CASE AnFetch(t)
    <2>1. /\ AnGoTo(t, "process") /\ UNCHANGED anCommitted /\ anReader[t].pos <= Len(anLog[t])
          /\ anReader[t].pc = "fetch" /\ anReader[t].tries <= AnMaxRetries
      BY <1>1, <1>3 DEF AnFetch, AiReader
    <2>2. PICK r : AiMoved(t, r) /\ r.pc = "process" /\ r.pos = anReader[t].pos
      BY <1>2, <2>1
    <2>3. AiStep(t, r)
      BY <1>1, <1>3, <2>1, <2>2 DEF AiStep, AnFetch
    <2> QED
      BY <2>2, <2>3
  <1>4. CASE AnProcess(t)
    <2>1. /\ anReader[t].pc = "process" /\ anReader[t].tries <= AnMaxRetries
          /\ anReader[t].pos <= Len(anLog[t])
          /\ UNCHANGED <<anCommitted, anPending, anFlush, anRows, anSeen, anDead, anLost>>
      BY <1>1, <1>4 DEF AnProcess, AiReader
    <2>2. ASSUME NEW r, AiMoved(t, r), r.pos = anReader[t].pos,
                 \/ r.pc \in {"process", "add", "dlq"}
                 \/ r.pc = "commit" /\ ~Permanent(AnAt(t)) /\ AnAt(t).id \in anSeen
          PROVE  AiStep(t, r)
      BY <1>1, <2>1, <2>2 DEF AiStep
    <2>3. CASE Permanent(AnAt(t)) /\ AnGoTo(t, "dlq")
      BY <1>2, <2>1, <2>2, <2>3
    <2>4. CASE ~Permanent(AnAt(t)) /\ AnRetry(t)
      <3>1. PICK r : /\ r = [pc |-> r.pc, pos |-> r.pos, tries |-> r.tries]
                     /\ anReader' = [anReader EXCEPT ![t] = r]
                     /\ r.pc \in {"process", "dlq"} /\ r.pos = anReader[t].pos
                     /\ r.tries \in Nat /\ r.tries <= AnMaxRetries + 1
                     /\ r.pc = "process" => r.tries <= AnMaxRetries
        BY <2>1, <2>4, AiRetries
      <3>2. AiReader(t, r, anLog[t], anCommitted'[t])
        BY <1>1, <2>1, <3>1 DEF AiReader
      <3> QED
        BY <2>2, <3>1, <3>2 DEF AiMoved
    <2>5. CASE ~Permanent(AnAt(t)) /\ AnAt(t).id \in anSeen /\ AnGoTo(t, "commit")
      BY <1>2, <2>1, <2>2, <2>5
    <2>6. CASE ~Permanent(AnAt(t)) /\ AnGoTo(t, "add")
      BY <1>2, <2>1, <2>2, <2>6
    <2>7. CASE ~Permanent(AnAt(t)) /\ AnGoTo(t, "dlq")
      BY <1>2, <2>1, <2>2, <2>7
    <2> QED
      BY <1>4, <2>3, <2>4, <2>5, <2>6, <2>7 DEF AnProcess
  <1>5. CASE AnAdd(t)
    <2>1. /\ anReader[t].pc = "add" /\ anFlush = NoFlush /\ anReader[t].tries <= AnMaxRetries
          /\ anReader[t].pos <= Len(anLog[t]) /\ ~Permanent(AnAt(t))
          /\ UNCHANGED <<anCommitted, anRows, anSeen, anDead, anLost>>
      BY <1>1, <1>5 DEF AnAdd, AiReader, AnAt
    <2>2. CASE /\ anPending' = Append(anPending, AnAt(t)) /\ AnGoTo(t, "commit")
               /\ UNCHANGED anFlush
      <3>1. PICK r : AiMoved(t, r) /\ r.pc = "commit" /\ r.pos = anReader[t].pos
        BY <1>2, <2>1, <2>2
      <3>2. AiStep(t, r)
        BY <1>1, <2>1, <2>2, <3>1 DEF AiStep
      <3> QED
        BY <3>1, <3>2
    <2>3. CASE /\ anPending' = <<>> /\ AnGoTo(t, "flush")
               /\ anFlush' = [by |-> t, batch |-> Append(anPending, AnAt(t)), table |-> 1]
      <3>1. PICK r : AiMoved(t, r) /\ r.pc = "flush" /\ r.pos = anReader[t].pos
        BY <1>2, <2>1, <2>3
      <3>2. AiStep(t, r)
        BY <1>1, <2>1, <2>3, <3>1 DEF AiStep
      <3> QED
        BY <3>1, <3>2
    <2> QED
      BY <1>5, <2>2, <2>3 DEF AnAdd
  <1>6. CASE AnRouteToDLQ(t)
    <2>1. /\ anReader[t].pc = "dlq" /\ AnGoTo(t, "commit") /\ anReader[t].pos <= Len(anLog[t])
          /\ UNCHANGED <<anCommitted, anPending, anFlush, anRows, anSeen>>
          /\ \/ anDead' = anDead \cup {AnAt(t).id} /\ UNCHANGED anLost
             \/ anLost' = anLost \cup {AnAt(t).id} /\ UNCHANGED anDead
      BY <1>1, <1>6 DEF AnRouteToDLQ, AiReader
    <2>2. PICK r : AiMoved(t, r) /\ r.pc = "commit" /\ r.pos = anReader[t].pos
      BY <1>2, <2>1
    <2>3. AiStep(t, r)
      BY <1>1, <2>1, <2>2 DEF AiStep
    <2> QED
      BY <2>2, <2>3
  <1>7. CASE AnCommit(t)
    <2>1. /\ anReader[t].pc = "commit" /\ anReader[t].pos <= Len(anLog[t]) /\ anReader[t].pos \in Nat
          /\ UNCHANGED <<anPending, anFlush, anRows, anSeen, anDead, anLost>>
          /\ anReader' = [anReader EXCEPT ![t] = AnIdle(anReader[t].pos + 1)]
          /\ \/ anCommitted' = [anCommitted EXCEPT ![t] = anReader[t].pos]
             \/ UNCHANGED anCommitted
      BY <1>1, <1>7 DEF AnCommit, AiReader
    <2>2. PICK r : r = AnIdle(anReader[t].pos + 1)
      OBVIOUS
    <2>3. /\ r = [pc |-> r.pc, pos |-> r.pos, tries |-> r.tries]
          /\ r.pc = "fetch" /\ r.pos = anReader[t].pos + 1
          /\ AiReader(t, r, anLog[t], anReader[t].pos)
      BY <1>1, <2>1, <2>2, AiIdleReader
    <2>4. /\ anCommitted'[t] \in Nat /\ anCommitted'[t] <= anReader[t].pos
          /\ anCommitted' \in [AnTopic -> Nat]
          /\ \A u \in AnTopic : u # t => anCommitted'[u] = anCommitted[u]
      BY <1>1, <2>1 DEF AiReader
    <2>5. AiReader(t, r, anLog[t], anCommitted'[t])
      BY <2>1, <2>3, <2>4 DEF AiReader
    <2>6. AiMoved(t, r)
      BY <2>1, <2>2, <2>3, <2>5 DEF AiMoved
    <2>7. AiStep(t, r)
      BY <1>1, <2>1, <2>3, <2>4 DEF AiStep
    <2> QED
      BY <2>6, <2>7
  <1> QED
    BY <1>3, <1>4, <1>5, <1>6, <1>7 DEF AnReaderStep


\* The flushes that begin or have ended, and a flush that goes on.
LEMMA AiFlushForms ==
    /\ NoFlush.by = "none" /\ NoFlush.batch = <<>> /\ NoFlush.table = 0
    /\ NoFlush = [by |-> NoFlush.by, batch |-> NoFlush.batch, table |-> NoFlush.table]
    /\ \A b, s, f : f = [by |-> b, batch |-> s, table |-> 1] =>
          /\ f.by = b /\ f.batch = s /\ f.table = 1
          /\ f = [by |-> f.by, batch |-> f.batch, table |-> f.table]
    /\ \A f, x : f = [by |-> f.by, batch |-> f.batch, table |-> f.table] =>
          /\ [f EXCEPT !.table = x] = [by |-> f.by, batch |-> f.batch, table |-> x]
          /\ [f EXCEPT !.batch = x] = [by |-> f.by, batch |-> x, table |-> f.table]
  <1>1. ASSUME NEW b, NEW s, NEW n, NEW f, f = [by |-> b, batch |-> s, table |-> n]
        PROVE  /\ f.by = b /\ f.batch = s /\ f.table = n
               /\ f = [by |-> f.by, batch |-> f.batch, table |-> f.table]
    BY <1>1
  <1>2. PICK zero, one, none : zero = 0 /\ one = 1 /\ none = <<>>
    OBVIOUS
  <1>3. NoFlush = [by |-> "none", batch |-> none, table |-> zero]
    BY <1>2 DEF NoFlush
  <1>4. \A b, s, f : f = [by |-> b, batch |-> s, table |-> one] =>
          /\ f.by = b /\ f.batch = s /\ f.table = one
          /\ f = [by |-> f.by, batch |-> f.batch, table |-> f.table]
    BY <1>1
  <1>5. ASSUME NEW f, NEW x, f = [by |-> f.by, batch |-> f.batch, table |-> f.table]
        PROVE  /\ [f EXCEPT !.table = x] = [by |-> f.by, batch |-> f.batch, table |-> x]
               /\ [f EXCEPT !.batch = x] = [by |-> f.by, batch |-> x, table |-> f.table]
    BY <1>5
  <1>6. /\ NoFlush.by = "none" /\ NoFlush.batch = none /\ NoFlush.table = zero
        /\ NoFlush = [by |-> NoFlush.by, batch |-> NoFlush.batch, table |-> NoFlush.table]
    BY <1>1, <1>3
  <1> QED
    BY <1>2, <1>4, <1>5, <1>6

\* The next table is a later one, or the end, and none of the batch has a row for one in between.
LEMMA AiNextTable ==
    ASSUME NEW batch, NEW from \in 1 .. 8
    PROVE  /\ NextTable(batch, from) \in from .. 8
           /\ \A j \in from .. 7, m \in ToSet(batch) :
                 j < NextTable(batch, from) => AnTables[j] \notin Route(m)
  <1>1. PICK rest : rest = {i \in from .. 7 : \E m \in ToSet(batch) : AnTables[i] \in Route(m)}
    OBVIOUS
  <1>2. NextTable(batch, from) = IF rest = {} THEN 8 ELSE Min(rest)
    BY <1>1, AiTables DEF NextTable
  <1>3. rest \subseteq from .. 7 /\ rest \subseteq Nat
    BY <1>1
  <1>4. CASE rest = {}
    BY <1>1, <1>2, <1>4
  <1>5. CASE rest # {}
    <2>1. \E e \in rest : \A f \in rest : e <= f
      BY <1>3, <1>5, LeastNat
    <2>2. Min(rest) \in rest /\ \A f \in rest : Min(rest) <= f
      BY <2>1 DEF Min
    <2>3. PICK k \in Nat : k = Min(rest)
      BY <1>3, <2>2
    <2>4. k \in from .. 7 /\ \A j \in from .. 7 : j < k => j \notin rest
      BY <1>3, <2>2, <2>3
    <2> QED
      BY <1>1, <1>2, <1>5, <2>3, <2>4
  <1> QED
    BY <1>4, <1>5

\* A flush that returns sends the reader it was made by on its way, and no reader waits.
LEMMA AiReturns ==
    ASSUME AiLogs, AiReaders, AiWriter, anFlush.by # "none", NEW ok \in BOOLEAN, AnReturn(ok),
           UNCHANGED <<anLog, anCommitted>>
    PROVE  /\ AiReaders'
           /\ \A u \in AnTopic :
                 /\ anReader'[u].pc # "flush" /\ anReader'[u].pos = anReader[u].pos
                 /\ \/ anReader'[u] = anReader[u]
                    \/ anReader[u].pc = "flush" /\ (anReader'[u].pc = "commit" => ok)
  <1>1. anUp' \in {"up", "stopping", "stopped"}
    BY DEF AnReturn, AiReaders
  <1>2. CASE anFlush.by \notin AnTopic
    <2>1. anReader' = anReader
      BY <1>2 DEF AnReturn
    <2> QED
      BY <1>1, <1>2, <2>1 DEF AiReaders, AiWriter
  <1>3. CASE anFlush.by \in AnTopic
    <2>1. PICK t \in AnTopic : t = anFlush.by
      BY <1>3
    <2>2. /\ anReader[t].pc = "flush" /\ AiReader(t, anReader[t], anLog[t], anCommitted[t])
          /\ \A u \in AnTopic : anReader[u].pc = "flush" => u = t
      BY <2>1 DEF AiWriter, AiReaders
    <2>3. PICK r : /\ r = [pc |-> r.pc, pos |-> r.pos, tries |-> r.tries]
                   /\ anReader' = [anReader EXCEPT ![t] = r]
                   /\ r.pos = anReader[t].pos /\ r.pc \in {"process", "dlq", "commit"}
                   /\ r.pc = "commit" => ok
                   /\ r.tries \in Nat /\ r.tries <= AnMaxRetries + 1
                   /\ r.pc = "process" => r.tries <= AnMaxRetries
      <3>1. CASE ok
        <4>1. AnGoTo(t, "commit")
          BY <2>1, <3>1 DEF AnReturn
        <4>2. PICK r : /\ r = [pc |-> r.pc, pos |-> r.pos, tries |-> r.tries]
                  /\ anReader' = [anReader EXCEPT ![t] = r]
                  /\ r.pc = "commit" /\ r.pos = anReader[t].pos /\ r.tries = anReader[t].tries
          BY <4>1, AiGoes
        <4> QED
          BY <2>2, <3>1, <4>2 DEF AiReader
      <3>2. CASE ~ok
        <4>1. AnRetry(t)
          BY <2>1, <3>2 DEF AnReturn
        <4> QED
          BY <2>2, <4>1, AiRetries
      <3> QED
        BY <3>1, <3>2
    <2>4. AiReader(t, r, anLog[t], anCommitted'[t])
      BY <2>2, <2>3 DEF AiReader
    <2>5. AiMoved(t, r)
      BY <2>3, <2>4 DEF AiMoved
    <2>6. anCommitted' \in [AnTopic -> Nat]
      BY DEF AiReaders
    <2>7. AiReaders'
      BY <1>1, <2>5, <2>6, AiReadersMove
    <2>8. \A u \in AnTopic : anReader'[u] = IF u = t THEN r ELSE anReader[u]
      BY <2>3 DEF AiReaders
    <2>9. \A u \in AnTopic :
                 /\ anReader'[u].pc # "flush" /\ anReader'[u].pos = anReader[u].pos
                 /\ \/ anReader'[u] = anReader[u]
                    \/ anReader[u].pc = "flush" /\ (anReader'[u].pc = "commit" => ok)
      BY <2>2, <2>3, <2>8
    <2> QED
      BY <2>7, <2>9
  <1> QED
    BY <1>2, <1>3

\* A process that starts again.
LEMMA AiRestarts ==
    ASSUME AiLogs, AiReaders, AnRestart, UNCHANGED <<anLog, anCommitted>>
    PROVE  /\ AiReaders'
           /\ \A u \in AnTopic : anReader'[u].pc = "fetch" /\ anReader'[u].pos = anCommitted[u] + 1
  <1>1. \A u \in AnTopic : anReader'[u] = AnIdle(anCommitted[u] + 1)
    BY DEF AnRestart
  <1>2. ASSUME NEW u \in AnTopic
        PROVE  /\ anReader'[u] = [pc |-> anReader'[u].pc, pos |-> anReader'[u].pos,
                                  tries |-> anReader'[u].tries]
               /\ anReader'[u].pc = "fetch" /\ anReader'[u].pos = anCommitted[u] + 1
               /\ AiReader(u, anReader'[u], anLog[u], anCommitted[u])
    <2>1. AiReader(u, anReader[u], anLog[u], anCommitted[u]) /\ Len(anLog[u]) \in Nat
      BY AiIds DEF AiReaders
    <2>2. PICK c \in Nat : c = anCommitted[u] /\ c <= Len(anLog[u])
      BY <2>1 DEF AiReader
    <2>3. PICK log : log = anLog[u]
      OBVIOUS
    <2> QED
      BY <1>1, <2>1, <2>2, <2>3, AiIdleReader
  <1>3. anReader' = [u \in AnTopic |-> anReader'[u]]
    BY DEF AnRestart
  <1>4. anReader' = [u \in AnTopic |-> [pc |-> anReader'[u].pc, pos |-> anReader'[u].pos,
                                        tries |-> anReader'[u].tries]]
    BY <1>2, <1>3
  <1>5. anUp' = "up" /\ anCommitted' \in [AnTopic -> Nat]
    BY DEF AnRestart, AiReaders
  <1> QED
    BY <1>2, <1>4, <1>5 DEF AiReaders

\* What a step of the writer does, by what it does to the flush.
AiTicks ==
    /\ anFlush = NoFlush /\ anPending' = <<>>
    /\ \E b \in {"ticker", "stop"} : anFlush' = [by |-> b, batch |-> anPending, table |-> 1]
    /\ UNCHANGED <<anLog, anCommitted, anReader, anRows, anSeen, anDead, anUp, anLost>>
AiWrites ==
    /\ anFlush.table \in 1 .. 7 /\ anFlush.by # "none"
    /\ anRows' = ExecBatch(anRows, AnTables[anFlush.table], anFlush.batch)
    /\ anFlush' = [anFlush EXCEPT !.table = NextTable(anFlush.batch, anFlush.table + 1)]
    /\ UNCHANGED <<anLog, anCommitted, anPending, anReader, anSeen, anDead, anUp, anLost>>
AiSaves ==
    /\ anFlush.table = 8 /\ anFlush.by # "none" /\ anFlush.batch # <<>>
    /\ anSeen' = anSeen \cup {Head(anFlush.batch).id}
    /\ anFlush' = [anFlush EXCEPT !.batch = Tail(anFlush.batch)]
    /\ UNCHANGED <<anLog, anCommitted, anPending, anReader, anRows, anDead, anUp, anLost>>
AiEnds ==
    /\ anFlush.by # "none" /\ anFlush' = NoFlush
    /\ \E ok \in BOOLEAN : /\ AnReturn(ok)
                           /\ ok => anFlush.table = 8 /\ anFlush.batch = <<>>
    /\ \/ anPending' = anFlush.batch \o anPending
       \/ anFlush.table = 8 /\ anPending' = anPending
    /\ UNCHANGED <<anLog, anCommitted, anRows, anSeen, anDead, anLost>>
AiStarts == AnRestart /\ UNCHANGED <<anLog, anCommitted, anRows, anSeen, anDead>>
AiRests == UNCHANGED <<anLog, anCommitted, anReader, anPending, anFlush, anRows, anSeen, anDead, anLost>>

\* A step is one of these.
LEMMA AiSteps ==
    ASSUME AiLogs, AiReaders, AiWriter, [AnNext]_anVars
    PROVE  \/ \E t \in AnTopic : \E r : AiMoved(t, r) /\ AiStep(t, r)
           \/ AiTicks /\ UNCHANGED anCache
           \/ AiWrites /\ UNCHANGED anCache
           \/ AiSaves /\ UNCHANGED anCache
           \/ AiEnds /\ UNCHANGED anCache
           \/ AiStarts /\ UNCHANGED anCache
           \/ AiRests /\ anUp' \in {"up", "stopping", "stopped"}
                      /\ (UNCHANGED anCache \/ FetchCached \/ CacheExpires)
  <1>0. /\ DOMAIN AnTables = 1 .. 7 /\ Len(AnTables) = 7 /\ anFlush.table \in 0 .. 8
        /\ anFlush.by = "none" => anFlush.table = 0
        /\ anUp \in {"up", "stopping", "stopped"}
    BY AiTables, AiFlushForms DEF AiWriter, AiReaders
  <1>1. CASE \E t \in AnTopic : AnReaderStep(t)
    BY <1>1, AiReaderSteps
  <1>2. CASE AnWriterStep
    <2>1. CASE AnTick
      BY <1>2, <2>1 DEF AnWriterStep, AnTick, AiTicks
    <2>2. CASE AnWriteTable
      <3>1. anFlush.table \in 1 .. 7 /\ anFlush.by # "none"
        BY <1>0, <2>2 DEF AnWriteTable
      <3>2. AiWrites \/ AiEnds
        BY <1>2, <2>2, <3>1 DEF AnWriterStep, AnWriteTable, AiWrites, AiEnds, Requeue
      <3> QED
        BY <1>2, <3>2 DEF AnWriterStep
    <2>3. CASE AnSave
      <3>1. anFlush.table = 8 /\ anFlush.by # "none"
        BY <1>0, <2>3 DEF AnSave
      <3>2. AiSaves \/ AiEnds
        BY <1>2, <2>3, <3>1 DEF AnWriterStep, AnSave, AiSaves, AiEnds
      <3> QED
        BY <1>2, <3>2 DEF AnWriterStep
    <2>4. CASE AnFlushed
      <3>1. anFlush.table = 8 /\ anFlush.by # "none"
        BY <1>0, <2>4 DEF AnFlushed
      <3>2. AiEnds
        BY <1>2, <2>4, <3>1 DEF AnWriterStep, AnFlushed, AiEnds
      <3> QED
        BY <1>2, <3>2 DEF AnWriterStep
    <2> QED
      BY <1>2, <2>1, <2>2, <2>3, <2>4 DEF AnWriterStep
  <1>3. CASE AnProcessStep
    <2>1. CASE AnCrash \/ AnExit
      BY <1>3, <2>1 DEF AnProcessStep, AnCrash, AnExit, AiStarts
    <2>2. CASE AnShutdown
      BY <1>3, <2>2 DEF AnProcessStep, AnShutdown, AiRests
    <2> QED
      BY <1>3, <2>1, <2>2 DEF AnProcessStep
  <1>4. CASE AnQueryStep
    BY <1>0, <1>4 DEF AnQueryStep, AiRests
  <1>5. CASE UNCHANGED anVars
    BY <1>0, <1>5 DEF anVars, AiRests
  <1> QED
    BY <1>1, <1>2, <1>3, <1>4, <1>5 DEF AnNext

-----------------------------------------------------------------------------
(* The rows *)

\* How often an event is in a batch.
AiClaim(batch, e) == Cardinality({i \in DOMAIN batch : batch[i].id = e})

\* The counts of a batch are natural numbers, and a table's part of them is no more than all.
LEMMA AiClaims ==
    ASSUME NEW S, NEW batch \in Seq(S), NEW e, NEW w
    PROVE  /\ AiClaim(batch, e) \in Nat
           /\ IsFiniteSet({i \in DOMAIN batch : batch[i].id = e /\ w \in Route(batch[i])})
           /\ Cardinality({i \in DOMAIN batch : batch[i].id = e /\ w \in Route(batch[i])}) \in Nat
           /\ Cardinality({i \in DOMAIN batch : batch[i].id = e /\ w \in Route(batch[i])})
                 <= AiClaim(batch, e)
  <1>1. DOMAIN batch = 1 .. Len(batch) /\ Len(batch) \in Nat
    OBVIOUS
  <1>2. IsFiniteSet(DOMAIN batch)
    BY <1>1, FS_Interval
  <1>3. IsFiniteSet({i \in DOMAIN batch : batch[i].id = e})
    BY <1>2, FS_Subset
  <1>4. {i \in DOMAIN batch : batch[i].id = e /\ w \in Route(batch[i])}
           \subseteq {i \in DOMAIN batch : batch[i].id = e}
    OBVIOUS
  <1> QED
    BY <1>3, <1>4, FS_Subset, FS_CardinalityType DEF AiClaim

\* What a write adds to its table: something for every event that has a row there, never more
\* than the batch has of the event, and all of it for the raw events.
LEMMA AiExecBatch ==
    ASSUME AiLogs, AiRows, NEW batch \in Seq(AiGood), NEW w \in AnTable,
           NEW new, new = ExecBatch(anRows, w, batch)
    PROVE  /\ new \in [AnTable -> [AnIds -> Nat]]
           /\ \A v \in AnTable : v # w => new[v] = anRows[v]
           /\ \A e \in AnIds : /\ anRows[w][e] \in Nat /\ new[w][e] \in Nat
                               /\ AiClaim(batch, e) \in Nat
                               /\ anRows[w][e] <= new[w][e]
                               /\ new[w][e] <= anRows[w][e] + AiClaim(batch, e)
                               /\ w = "raw_events" => new[w][e] = anRows[w][e] + AiClaim(batch, e)
           /\ \A m \in ToSet(batch) : w \in Route(m) => new[w][m.id] > 0
  <1>1. PICK H : H = [e \in AnIds |-> {i \in DOMAIN batch : batch[i].id = e /\ w \in Route(batch[i])}]
    OBVIOUS
  <1>2. \A e \in AnIds : /\ IsFiniteSet(H[e]) /\ Cardinality(H[e]) \in Nat /\ AiClaim(batch, e) \in Nat
                         /\ Cardinality(H[e]) <= AiClaim(batch, e)
    <2> SUFFICES ASSUME NEW e \in AnIds
                 PROVE  /\ IsFiniteSet(H[e]) /\ Cardinality(H[e]) \in Nat /\ AiClaim(batch, e) \in Nat
                        /\ Cardinality(H[e]) <= AiClaim(batch, e)
      OBVIOUS
    <2>1. H[e] = {i \in DOMAIN batch : batch[i].id = e /\ w \in Route(batch[i])}
      BY <1>1
    <2>2. /\ AiClaim(batch, e) \in Nat
          /\ IsFiniteSet({i \in DOMAIN batch : batch[i].id = e /\ w \in Route(batch[i])})
          /\ Cardinality({i \in DOMAIN batch : batch[i].id = e /\ w \in Route(batch[i])}) \in Nat
          /\ Cardinality({i \in DOMAIN batch : batch[i].id = e /\ w \in Route(batch[i])})
                 <= AiClaim(batch, e)
      BY AiClaims
    <2> QED
      BY <2>1, <2>2
  <1>3. anRows \in [AnTable -> [AnIds -> Nat]] /\ DOMAIN anRows[w] = AnIds
    BY DEF AiRows
  <1>4. new = [anRows EXCEPT ![w] = [e \in AnIds |-> anRows[w][e]
                 + Cardinality({i \in DOMAIN batch : batch[i].id = e /\ w \in Route(batch[i])})]]
    BY <1>3 DEF ExecBatch
  <1>5. PICK row : row = [e \in AnIds |-> anRows[w][e]
                 + Cardinality({i \in DOMAIN batch : batch[i].id = e /\ w \in Route(batch[i])})]
    OBVIOUS
  <1>6. new = [anRows EXCEPT ![w] = row]
    BY <1>4, <1>5
  <1>7. \A e \in AnIds : row[e] = anRows[w][e] + Cardinality(H[e])
    BY <1>1, <1>5
  <1>8. row \in [AnIds -> Nat]
    <2>1. \A e \in AnIds : row[e] \in Nat
      BY <1>2, <1>3, <1>7
    <2>2. row = [e \in AnIds |-> row[e]]
      BY <1>5
    <2> QED
      BY <2>1, <2>2
  <1>9. /\ new \in [AnTable -> [AnIds -> Nat]] /\ new[w] = row
        /\ \A v \in AnTable : v # w => new[v] = anRows[v]
    BY <1>3, <1>6, <1>8
  <1>10. \A e \in AnIds : /\ anRows[w][e] \in Nat /\ new[w][e] \in Nat
                          /\ anRows[w][e] <= new[w][e]
                          /\ new[w][e] <= anRows[w][e] + AiClaim(batch, e)
    BY <1>2, <1>3, <1>7, <1>8, <1>9
  <1>11. ASSUME NEW e \in AnIds, w = "raw_events"
         PROVE  new[w][e] = anRows[w][e] + AiClaim(batch, e)
    <2>1. \A i \in DOMAIN batch : w \in Route(batch[i])
      <3> SUFFICES ASSUME NEW i \in DOMAIN batch PROVE w \in Route(batch[i])
        OBVIOUS
      <3>1. batch[i] \in AiGood
        OBVIOUS
      <3> QED
        BY <1>11, <3>1, AiRoute DEF AiGood
    <2>2. H[e] = {i \in DOMAIN batch : batch[i].id = e}
      BY <1>1, <2>1
    <2>3. Cardinality(H[e]) = AiClaim(batch, e)
      BY <2>2 DEF AiClaim
    <2> QED
      BY <1>7, <1>9, <2>3
  <1>12. ASSUME NEW m \in ToSet(batch), w \in Route(m) PROVE new[w][m.id] > 0
    <2>1. PICK i \in DOMAIN batch : m = batch[i]
      BY DEF ToSet
    <2>2. m \in AiGood
      BY <2>1
    <2>3. m.id \in AnIds
      BY <2>2, AiIds DEF AiGood
    <2>4. i \in H[m.id]
      BY <1>1, <1>12, <2>1, <2>3
    <2>5. Cardinality(H[m.id]) # 0
      BY <1>2, <2>3, <2>4, FS_EmptySet
    <2>6. anRows[w][m.id] \in Nat /\ Cardinality(H[m.id]) \in Nat
      BY <1>2, <1>10, <2>3
    <2> QED
      BY <1>7, <1>9, <2>3, <2>5, <2>6
  <1> QED
    BY <1>2, <1>9, <1>10, <1>11, <1>12

\* What a flush has passed is written.
AiWritten ==
    anFlush.by # "none" =>
        \A m \in ToSet(anFlush.batch), j \in 1 .. 7 :
            j < anFlush.table /\ AnTables[j] \in Route(m) => anRows[AnTables[j]][m.id] > 0

\* What is marked is written.
AiStored ==
    \A m \in AiAll : m.id \in anSeen =>
        ~Permanent(m) /\ \A w \in Route(m) : anRows[w][m.id] > 0

\* The raw events of a table that the flush has still to write are there.
AiOwes(j, e) == IF 1 < anFlush.table /\ anFlush.table <= j THEN AiClaim(anFlush.batch, e) ELSE 0
AiOwed ==
    \A j \in 2 .. 7, e \in AnIds :
        anRows[AnTables[j]][e] + AiOwes(j, e) <= anRows["raw_events"][e]

AiBase == AiLogs /\ AiReaders /\ AiWriter /\ AiRows /\ AiMarks

\* Rows are only added.
LEMMA AiGrows ==
    ASSUME AiBase, [AnNext]_anVars
    PROVE  /\ AiRows' /\ AnIds' = AnIds /\ AiAll' = AiAll /\ anLog' = anLog
           /\ \A w \in AnTable, e \in AnIds : /\ anRows[w][e] \in Nat /\ anRows'[w][e] \in Nat
                                              /\ anRows[w][e] <= anRows'[w][e]
  <1>1. /\ anRows' = anRows \/ AiWrites
        /\ anLog' = anLog
    BY AiSteps DEF AiBase, AiStep, AiTicks, AiWrites, AiSaves, AiEnds, AiStarts, AiRests
  <1>2. AnIds' = AnIds /\ AiAll' = AiAll
    BY <1>1 DEF AnIds, AiAll
  <1>3. CASE anRows' = anRows
    BY <1>1, <1>2, <1>3 DEF AiBase, AiRows
  <1>4. CASE AiWrites
    <2>1. PICK w \in AnTable : anRows' = ExecBatch(anRows, w, anFlush.batch)
      BY <1>4, AiTables DEF AiWrites
    <2>2. anFlush.batch \in Seq(AiGood) /\ AiLogs /\ AiRows
      BY DEF AiBase, AiWriter
    <2>3. /\ anRows' \in [AnTable -> [AnIds -> Nat]]
          /\ \A v \in AnTable : v # w => anRows'[v] = anRows[v]
          /\ \A e \in AnIds : anRows[w][e] <= anRows'[w][e]
      BY <2>1, <2>2, AiExecBatch
    <2>4. anRows \in [AnTable -> [AnIds -> Nat]]
      BY <2>2 DEF AiRows
    <2>5. ASSUME NEW v \in AnTable, NEW e \in AnIds
          PROVE  anRows[v][e] \in Nat /\ anRows'[v][e] \in Nat /\ anRows[v][e] <= anRows'[v][e]
      BY <2>3, <2>4
    <2> QED
      BY <1>1, <1>2, <2>3, <2>5 DEF AiRows
  <1> QED
    BY <1>1, <1>3, <1>4

\* Every step keeps the invariant of the readers,
LEMMA AiReadersKept == AiBase /\ [AnNext]_anVars => AiReaders'
  <1> SUFFICES ASSUME AiBase, [AnNext]_anVars PROVE AiReaders'
    OBVIOUS
  <1>0. AiLogs /\ AiReaders /\ AiWriter /\ anUp \in {"up", "stopping", "stopped"}
    BY DEF AiBase, AiReaders
  <1>1. ASSUME NEW t \in AnTopic, NEW r, AiMoved(t, r), AiStep(t, r) PROVE AiReaders'
    BY <1>0, <1>1, AiReadersMove DEF AiStep
  <1>2. CASE \/ AiTicks \/ AiWrites \/ AiSaves
             \/ AiRests /\ anUp' \in {"up", "stopping", "stopped"}
    <2>1. UNCHANGED <<anLog, anCommitted, anReader>> /\ anUp' \in {"up", "stopping", "stopped"}
      BY <1>0, <1>2 DEF AiTicks, AiWrites, AiSaves, AiRests
    <2> QED
      BY <1>0, <2>1 DEF AiReaders
  <1>3. CASE AiEnds
    BY <1>0, <1>3, AiReturns DEF AiEnds
  <1>4. CASE AiStarts
    BY <1>0, <1>4, AiRestarts DEF AiStarts
  <1>5. \/ \E t \in AnTopic : \E r : AiMoved(t, r) /\ AiStep(t, r)
        \/ AiTicks \/ AiWrites \/ AiSaves \/ AiEnds \/ AiStarts
        \/ AiRests /\ anUp' \in {"up", "stopping", "stopped"}
    BY <1>0, AiSteps
  <1> QED
    BY <1>1, <1>2, <1>3, <1>4, <1>5

\* that of the writer,
LEMMA AiWriterKept == AiBase /\ [AnNext]_anVars => AiWriter'
  <1> SUFFICES ASSUME AiBase, [AnNext]_anVars PROVE AiWriter'
    OBVIOUS
  <1>0. /\ AiLogs /\ AiReaders /\ AiWriter
        /\ anPending \in Seq(AiGood) /\ anFlush.batch \in Seq(AiGood)
        /\ anFlush = [by |-> anFlush.by, batch |-> anFlush.batch, table |-> anFlush.table]
    BY DEF AiBase, AiWriter
  <1>1. AiGood' = AiGood
    <2>1. AiAll' = AiAll
      BY AiGrows
    <2>2. AiGood' = {m \in AiAll' : ~Permanent(m)}
      BY DEF AiGood, Permanent, DecodeEnvelope, ValidateSchema, AnEventType, DeliveryEvents, DriverEvents,
             PaymentEvents, NotificationEvents
    <2> QED
      BY <2>1, <2>2 DEF AiGood
  <1>2. /\ "none" \notin AnTopic /\ "ticker" \notin AnTopic /\ "stop" \notin AnTopic
        /\ <<>> \in Seq(AiGood)
    BY AnAssumption
  <1>3. ASSUME NEW s, s \in Seq(AiGood), NEW b \in AnTopic \cup {"none", "ticker", "stop"}, NEW n \in 0 .. 8,
               anFlush' = [by |-> b, batch |-> s, table |-> n],
               b = "none" => anFlush' = NoFlush, b # "none" => n # 0,
               anPending' \in Seq(AiGood),
               \A t \in AnTopic : anReader'[t].pc = "flush" <=> b = t
        PROVE  AiWriter'
    <2>1. /\ anFlush'.by = b /\ anFlush'.batch = s /\ anFlush'.table = n
          /\ anFlush' = [by |-> anFlush'.by, batch |-> anFlush'.batch, table |-> anFlush'.table]
      BY <1>3
    <2> QED
      BY <1>1, <1>3, <2>1 DEF AiWriter, NoFlush
  <1>4. ASSUME anFlush' = NoFlush, anPending' \in Seq(AiGood),
               \A t \in AnTopic : anReader'[t].pc # "flush"
        PROVE  AiWriter'
    <2>1. NoFlush = [by |-> "none", batch |-> <<>>, table |-> 0]
      BY DEF NoFlush
    <2>2. PICK zero, none : zero = 0 /\ none = <<>>
      OBVIOUS
    <2>3. anFlush' = [by |-> "none", batch |-> none, table |-> zero]
      BY <1>4, <2>1, <2>2
    <2>4. zero \in 0 .. 8 /\ none \in Seq(AiGood)
      BY <1>2, <2>2
    <2> QED
      BY <1>2, <1>3, <1>4, <2>3, <2>4
  <1>5. ASSUME NEW s, s \in Seq(AiGood), NEW b \in AnTopic \cup {"ticker", "stop"},
               anFlush' = [by |-> b, batch |-> s, table |-> 1],
               anPending' \in Seq(AiGood),
               \A t \in AnTopic : anReader'[t].pc = "flush" <=> b = t
        PROVE  AiWriter'
    <2>1. PICK one : one = 1
      OBVIOUS
    <2>2. anFlush' = [by |-> b, batch |-> s, table |-> one] /\ one \in 0 .. 8 /\ one # 0
      BY <1>5, <2>1
    <2>3. b \in AnTopic \cup {"none", "ticker", "stop"} /\ b # "none"
      BY <1>2
    <2> QED
      BY <1>3, <1>5, <2>2, <2>3
  <1>6. anFlush = NoFlush => \A t \in AnTopic : anReader[t].pc # "flush"
    BY <1>0, <1>2, AiFlushForms DEF AiWriter
  <1>11. ASSUME NEW t \in AnTopic, NEW r, AiMoved(t, r), AiStep(t, r) PROVE AiWriter'
    <2>1. \A u \in AnTopic : anReader'[u] = IF u = t THEN r ELSE anReader[u]
      BY <1>0, <1>11 DEF AiMoved, AiReaders
    <2>2. CASE UNCHANGED <<anPending, anFlush>> /\ anReader[t].pc # "flush" /\ r.pc # "flush"
      BY <1>0, <1>1, <2>1, <2>2 DEF AiWriter
    <2>3. CASE /\ anReader[t].pc = "add" /\ anFlush = NoFlush
               /\ \/ anPending' = Append(anPending, AnAt(t)) /\ UNCHANGED anFlush /\ r.pc = "commit"
                  \/ /\ anPending' = <<>> /\ r.pc = "flush"
                     /\ anFlush' = [by |-> t, batch |-> Append(anPending, AnAt(t)), table |-> 1]
      <3>1. AiReader(t, anReader[t], anLog[t], anCommitted[t])
        BY <1>0 DEF AiReaders
      <3>2. AnAt(t) \in AiAll /\ ~Permanent(AnAt(t))
        <4>1. ~Permanent(AnAt(t)) /\ anReader[t].pos \in 1 .. Len(anLog[t])
          BY <2>3, <3>1 DEF AiReader, AnAt
        <4>2. anLog[t][anReader[t].pos] \in AiAll
          BY <1>0, <4>1, AiIds
        <4> QED
          BY <4>1, <4>2 DEF AnAt
      <3>3. AnAt(t) \in AiGood
        BY <3>2 DEF AiGood
      <3>4. PICK s : s = Append(anPending, AnAt(t)) /\ s \in Seq(AiGood)
        BY <1>0, <3>3, AiElements, ZenonT(40)
      <3>5. CASE anPending' = s /\ UNCHANGED anFlush /\ r.pc = "commit"
        BY <1>0, <1>1, <2>1, <2>3, <3>4, <3>5 DEF AiWriter
      <3>6. CASE /\ anPending' = <<>> /\ r.pc = "flush"
                 /\ anFlush' = [by |-> t, batch |-> s, table |-> 1]
        <4>1. \A u \in AnTopic : anReader'[u].pc = "flush" <=> t = u
          BY <1>6, <2>1, <2>3, <3>6
        <4> QED
          BY <1>2, <1>5, <3>4, <3>6, <4>1
      <3> QED
        BY <2>3, <3>4, <3>5, <3>6
    <2> QED
      BY <1>11, <2>2, <2>3 DEF AiStep
  <1>12. CASE AiTicks
    <2>1. PICK b \in {"ticker", "stop"} : anFlush' = [by |-> b, batch |-> anPending, table |-> 1]
      BY <1>12 DEF AiTicks
    <2>2. \A t \in AnTopic : anReader'[t].pc = "flush" <=> b = t
      BY <1>2, <1>6, <1>12 DEF AiTicks
    <2>3. anPending' \in Seq(AiGood)
      BY <1>2, <1>12 DEF AiTicks
    <2> QED
      BY <1>0, <1>5, <2>1, <2>2, <2>3
  <1>13. CASE AiWrites
    <2>1. PICK n \in 0 .. 8 : n = NextTable(anFlush.batch, anFlush.table + 1) /\ n # 0
      <3>1. anFlush.table + 1 \in 1 .. 8
        BY <1>13 DEF AiWrites
      <3>2. PICK from \in 1 .. 8 : from = anFlush.table + 1
        BY <3>1
      <3>3. NextTable(anFlush.batch, from) \in from .. 8
        BY AiNextTable
      <3> QED
        BY <3>2, <3>3
    <2>2. anFlush' = [by |-> anFlush.by, batch |-> anFlush.batch, table |-> n]
      BY <1>0, <1>13, <2>1, AiFlushForms DEF AiWrites
    <2>3. anFlush.by \in AnTopic \cup {"none", "ticker", "stop"} /\ anFlush.by # "none"
          /\ \A t \in AnTopic : anReader'[t].pc = "flush" <=> anFlush.by = t
      BY <1>0, <1>13 DEF AiWrites, AiWriter
    <2>4. anPending' \in Seq(AiGood)
      BY <1>0, <1>13 DEF AiWrites
    <2> QED
      BY <1>0, <1>3, <2>1, <2>2, <2>3, <2>4
  <1>14. CASE AiSaves
    <2>1. PICK s : s = Tail(anFlush.batch) /\ s \in Seq(AiGood)
      BY <1>0, <1>14, AiElements DEF AiSaves
    <2>2. anFlush' = [by |-> anFlush.by, batch |-> s, table |-> anFlush.table]
      BY <1>0, <1>14, <2>1, AiFlushForms DEF AiSaves
    <2>3. /\ anFlush.by \in AnTopic \cup {"none", "ticker", "stop"} /\ anFlush.by # "none"
          /\ anFlush.table \in 0 .. 8 /\ anFlush.table # 0
          /\ \A t \in AnTopic : anReader'[t].pc = "flush" <=> anFlush.by = t
      BY <1>0, <1>14 DEF AiSaves, AiWriter
    <2>4. anPending' \in Seq(AiGood)
      BY <1>0, <1>14 DEF AiSaves
    <2> QED
      BY <1>3, <2>1, <2>2, <2>3, <2>4
  <1>15. CASE AiEnds
    <2>1. anPending' \in Seq(AiGood)
      <3>1. anFlush.batch \o anPending \in Seq(AiGood)
        BY <1>0
      <3> QED
        BY <1>0, <1>15, <3>1 DEF AiEnds
    <2>2. \A t \in AnTopic : anReader'[t].pc # "flush"
      BY <1>0, <1>15, AiReturns DEF AiEnds
    <2> QED
      BY <1>4, <1>15, <2>1, <2>2 DEF AiEnds
  <1>16. CASE AiStarts
    <2>1. \A t \in AnTopic : anReader'[t].pc # "flush"
      <3>1. \A t \in AnTopic : anReader'[t].pc = "fetch"
        BY <1>0, <1>16, AiRestarts DEF AiStarts
      <3> QED
        BY <3>1
    <2>2. anFlush' = NoFlush /\ anPending' = <<>>
      BY <1>16 DEF AiStarts, AnRestart
    <2> QED
      BY <1>2, <1>4, <2>1, <2>2
  <1>17. CASE AiRests
    BY <1>0, <1>1, <1>17 DEF AiRests, AiWriter
  <1> QED
    BY <1>0, <1>11, <1>12, <1>13, <1>14, <1>15, <1>16, <1>17, AiSteps

\* What is in memory came from the topics.
LEMMA AiMemory ==
    ASSUME AiBase
    PROVE  /\ AnInMemory \subseteq AnIds
           /\ ToSet(anPending) \subseteq AiGood /\ ToSet(anFlush.batch) \subseteq AiGood
           /\ \A m \in AiGood : m \in AiAll /\ ~Permanent(m) /\ m.id \in AnIds
  <1>0. AiLogs /\ anPending \in Seq(AiGood) /\ anFlush.batch \in Seq(AiGood)
    BY DEF AiBase, AiWriter
  <1>1. ToSet(anPending) \subseteq AiGood /\ ToSet(anFlush.batch) \subseteq AiGood
    BY <1>0, AiElements
  <1>2. \A m \in AiGood : m \in AiAll /\ ~Permanent(m) /\ m.id \in AnIds
    BY <1>0, AiIds DEF AiGood
  <1> QED
    BY <1>1, <1>2 DEF AnInMemory

\* that of the marks,
LEMMA AiMarksKept == AiBase /\ [AnNext]_anVars => AiMarks'
  <1> SUFFICES ASSUME AiBase, [AnNext]_anVars PROVE AiMarks'
    OBVIOUS
  <1>0. AiLogs /\ AiReaders /\ AiWriter /\ AiMarks /\ AnIds' = AnIds
    BY AiGrows DEF AiBase
  <1>1. ASSUME NEW t \in AnTopic, NEW r, AiMoved(t, r), AiStep(t, r) PROVE AiMarks'
    <2>1. AiReader(t, anReader[t], anLog[t], anCommitted[t])
      BY <1>0 DEF AiReaders
    <2>2. CASE anReader[t].pc \in {"fetch", "process", "add", "commit"}
      BY <1>0, <1>1, <2>2 DEF AiStep, AiMarks
    <2>3. CASE anReader[t].pc \notin {"fetch", "process", "add", "commit"}
      <3>1. anReader[t].pos \in 1 .. Len(anLog[t])
        BY <2>1, <2>3 DEF AiReader
      <3>2. AnAt(t).id \in AnIds
        BY <1>0, <3>1, AiIds DEF AnAt
      <3> QED
        BY <1>0, <1>1, <3>2 DEF AiStep, AiMarks
    <2> QED
      BY <2>2, <2>3
  <1>2. CASE AiTicks \/ AiWrites \/ AiEnds \/ AiRests
    BY <1>0, <1>2 DEF AiTicks, AiWrites, AiEnds, AiRests, AiMarks
  <1>3. CASE AiSaves
    <2>1. Head(anFlush.batch) \in AiGood
      BY <1>0, <1>3, AiElements DEF AiSaves, AiWriter
    <2>2. Head(anFlush.batch).id \in AnIds
      BY <2>1, AiMemory
    <2> QED
      BY <1>0, <1>3, <2>2 DEF AiSaves, AiMarks
  <1>4. CASE AiStarts
    BY <1>0, <1>4, AiMemory DEF AiStarts, AnRestart, AiMarks
  <1>5. \/ \E t \in AnTopic : \E r : AiMoved(t, r) /\ AiStep(t, r)
        \/ AiTicks \/ AiWrites \/ AiSaves \/ AiEnds \/ AiStarts \/ AiRests
    BY <1>0, AiSteps
  <1> QED
    BY <1>1, <1>2, <1>3, <1>4, <1>5

\* what a flush has written,
LEMMA AiWrittenKept == AiBase /\ AiWritten /\ [AnNext]_anVars => AiWritten'
  <1> SUFFICES ASSUME AiBase, AiWritten, [AnNext]_anVars PROVE AiWritten'
    OBVIOUS
  <1>0. /\ AiLogs /\ AiReaders /\ AiWriter /\ AiRows
        /\ anFlush = [by |-> anFlush.by, batch |-> anFlush.batch, table |-> anFlush.table]
        /\ anFlush.batch \in Seq(AiGood)
    BY DEF AiBase, AiWriter
  <1>1. ASSUME NEW b, NEW s, anFlush' = [by |-> b, batch |-> s, table |-> 1] PROVE AiWritten'
    <2>1. anFlush'.table = 1
      BY <1>1, AiFlushForms
    <2> QED
      BY <2>1 DEF AiWritten
  <1>2. ASSUME anFlush' = NoFlush PROVE AiWritten'
    BY <1>2, AiFlushForms DEF AiWritten
  <1>3. ASSUME anRows' = anRows, anFlush' = anFlush PROVE AiWritten'
    <2>1. \A m : Route(m)' = Route(m)
      BY DEF Route, DeliveryHandle, DriverHandle, PaymentHandle, NotificationHandle, TimelineTable,
             DeliveryEvents, DriverEvents, PaymentEvents, NotificationEvents
    <2> QED
      BY <1>3 DEF AiWritten
  <1>4. ASSUME NEW t \in AnTopic, NEW r, AiMoved(t, r), AiStep(t, r) PROVE AiWritten'
    BY <1>1, <1>3, <1>4 DEF AiStep
  <1>5. CASE AiTicks
    BY <1>1, <1>5 DEF AiTicks
  <1>6. CASE AiWrites
    <2>1. PICK k \in 1 .. 7, from \in 1 .. 8 : k = anFlush.table /\ from = anFlush.table + 1 /\ from = k + 1
      BY <1>6 DEF AiWrites
    <2>2. PICK batch \in Seq(AiGood) : batch = anFlush.batch
      BY <1>0
    <2>3. PICK n : n = NextTable(batch, from)
      OBVIOUS
    <2>4. /\ n \in from .. 8
          /\ \A j \in from .. 7, m \in ToSet(batch) : j < n => AnTables[j] \notin Route(m)
      BY <2>3, AiNextTable
    <2>5. anFlush'.batch = batch /\ anFlush'.table = n
      <3>1. anFlush' = [by |-> anFlush.by, batch |-> batch, table |-> n]
        BY <1>0, <1>6, <2>1, <2>2, <2>3, AiFlushForms DEF AiWrites
      <3> QED
        BY <3>1
    <2>6. PICK w \in AnTable : w = AnTables[k]
      BY <2>1, AiTables
    <2>7. anRows' = ExecBatch(anRows, w, batch) /\ anFlush.by # "none"
      BY <1>6, <2>1, <2>2, <2>6 DEF AiWrites
    <2>8. \A m \in ToSet(batch) : w \in Route(m) => anRows'[w][m.id] > 0
      BY <1>0, <2>7, AiExecBatch
    <2>9. ASSUME NEW m \in ToSet(batch), NEW j \in 1 .. 7, j < n, AnTables[j] \in Route(m)
          PROVE  anRows'[AnTables[j]][m.id] > 0
      <3>1. CASE j < k
        <4>1. anRows[AnTables[j]][m.id] > 0
          BY <2>1, <2>2, <2>7, <2>9, <3>1 DEF AiWritten
        <4>2. AnTables[j] \in AnTable /\ m.id \in AnIds
          BY <2>2, AiTables, AiMemory
        <4>3. PICK a \in Nat, b \in Nat : a = anRows[AnTables[j]][m.id] /\ b = anRows'[AnTables[j]][m.id] /\ a <= b
          BY <4>2, AiGrows
        <4> QED
          BY <4>1, <4>3
      <3>2. CASE j = k
        BY <2>6, <2>8, <2>9, <3>2
      <3>3. CASE j > k
        <4>1. j \in from .. 7
          BY <2>1, <3>3
        <4> QED
          BY <2>4, <2>9, <4>1
      <3> QED
        BY <3>1, <3>2, <3>3
    <2> QED
      BY <2>5, <2>9 DEF AiWritten
  <1>7. CASE AiSaves
    <2>1. anFlush' = [by |-> anFlush.by, batch |-> Tail(anFlush.batch), table |-> anFlush.table]
      BY <1>0, <1>7, AiFlushForms DEF AiSaves
    <2>2. anFlush'.by = anFlush.by /\ anFlush'.batch = Tail(anFlush.batch) /\ anFlush'.table = anFlush.table
      BY <2>1
    <2>3. ToSet(Tail(anFlush.batch)) \subseteq ToSet(anFlush.batch)
      BY <1>0, <1>7, AiElements DEF AiSaves
    <2>4. anRows' = anRows
      BY <1>7 DEF AiSaves
    <2> QED
      BY <2>2, <2>3, <2>4 DEF AiWritten
  <1>8. CASE AiEnds \/ AiStarts
    BY <1>2, <1>8 DEF AiEnds, AiStarts, AnRestart
  <1>9. CASE AiRests
    BY <1>3, <1>9 DEF AiRests
  <1>10. \/ \E t \in AnTopic : \E r : AiMoved(t, r) /\ AiStep(t, r)
         \/ AiTicks \/ AiWrites \/ AiSaves \/ AiEnds \/ AiStarts \/ AiRests
    BY <1>0, AiSteps
  <1> QED
    BY <1>4, <1>5, <1>6, <1>7, <1>8, <1>9, <1>10

\* what the marks promise,
LEMMA AiStoredKept == AiBase /\ AiWritten /\ AiStored /\ [AnNext]_anVars => AiStored'
  <1> SUFFICES ASSUME AiBase, AiWritten, AiStored, [AnNext]_anVars PROVE AiStored'
    OBVIOUS
  <1>0. /\ AiLogs /\ AiReaders /\ AiWriter /\ AiRows /\ AiAll' = AiAll
        /\ anFlush.batch \in Seq(AiGood)
    BY AiGrows DEF AiBase, AiWriter
  <1>1. ASSUME NEW m \in AiAll, ~Permanent(m), \A w \in Route(m) : anRows[w][m.id] > 0
        PROVE  \A w \in Route(m) : anRows'[w][m.id] > 0
    <2> SUFFICES ASSUME NEW w \in Route(m) PROVE anRows'[w][m.id] > 0
      OBVIOUS
    <2>1. w \in AnTable /\ m.id \in AnIds
      BY <1>0, <1>1, AiRoute, AiIds
    <2>2. PICK a \in Nat, b \in Nat : a = anRows[w][m.id] /\ b = anRows'[w][m.id] /\ a <= b
      BY <2>1, AiGrows
    <2> QED
      BY <1>1, <2>2
  <1>2. ASSUME NEW m \in AiAll, m.id \in anSeen
        PROVE  ~Permanent(m) /\ \A w \in Route(m) : anRows'[w][m.id] > 0
    BY <1>1, <1>2 DEF AiStored
  <1>3. ASSUME NEW m \in AiAll, m.id \in anSeen', m.id \notin anSeen
        PROVE  ~Permanent(m) /\ \A w \in Route(m) : anRows'[w][m.id] > 0
    <2>1. AiSaves
      <3>1. \/ \E t \in AnTopic : \E r : AiMoved(t, r) /\ AiStep(t, r)
            \/ AiTicks \/ AiWrites \/ AiSaves \/ AiEnds \/ AiStarts \/ AiRests
        BY <1>0, AiSteps
      <3>2. AiTicks \/ AiWrites \/ AiEnds \/ AiStarts \/ AiRests => anSeen' = anSeen
        BY DEF AiTicks, AiWrites, AiEnds, AiStarts, AiRests
      <3>3. \A t \in AnTopic : \A r : AiStep(t, r) => anSeen' = anSeen
        BY DEF AiStep
      <3> QED
        BY <1>3, <3>1, <3>2, <3>3
    <2>2. PICK h : h = Head(anFlush.batch) /\ h \in AiGood /\ h \in ToSet(anFlush.batch)
      BY <1>0, <2>1, AiElements DEF AiSaves
    <2>3. m = h
      <3>1. m.id = h.id
        BY <1>3, <2>1, <2>2 DEF AiSaves
      <3> QED
        BY <1>0, <2>2, <3>1 DEF AiLogs, AiGood
    <2>4. ~Permanent(m)
      BY <2>2, <2>3 DEF AiGood
    <2>5. \A w \in Route(m) : anRows[w][m.id] > 0
      <3> SUFFICES ASSUME NEW w \in Route(m) PROVE anRows[w][m.id] > 0
        OBVIOUS
      <3>1. PICK j \in 1 .. 7 : w = AnTables[j]
        BY <2>4, AiRoute, AiTables
      <3>2. j < anFlush.table /\ anFlush.by # "none"
        BY <2>1 DEF AiSaves
      <3> QED
        BY <2>2, <2>3, <3>1, <3>2 DEF AiWritten
    <2> QED
      BY <1>1, <2>4, <2>5
  <1>4. \A m \in AiAll : Permanent(m)' = Permanent(m) /\ Route(m)' = Route(m)
    BY DEF Permanent, DecodeEnvelope, ValidateSchema, AnEventType, Route, DeliveryHandle, DriverHandle, PaymentHandle,
           NotificationHandle, TimelineTable, DeliveryEvents, DriverEvents, PaymentEvents,
           NotificationEvents
  <1> QED
    BY <1>0, <1>2, <1>3, <1>4 DEF AiStored

\* The numbers of a claim.
LEMMA AiOwesNat ==
    ASSUME AiBase, NEW j \in 2 .. 7, NEW e \in AnIds
    PROVE  /\ AiOwes(j, e) \in Nat /\ AiClaim(anFlush.batch, e) \in Nat
           /\ AnTables[j] \in AnTable /\ "raw_events" \in AnTable /\ AnTables[j] # "raw_events"
           /\ anRows[AnTables[j]][e] \in Nat /\ anRows["raw_events"][e] \in Nat
  <1>1. AiClaim(anFlush.batch, e) \in Nat
    BY AiClaims DEF AiBase, AiWriter
  <1>2. /\ AnTables[j] \in AnTable /\ "raw_events" \in AnTable /\ AnTables[j] # "raw_events"
    BY AiTables
  <1>3. anRows[AnTables[j]][e] \in Nat /\ anRows["raw_events"][e] \in Nat
    BY <1>2 DEF AiBase, AiRows
  <1> QED
    BY <1>1, <1>2, <1>3 DEF AiOwes

\* and the claim of the facts on their raw events.
LEMMA AiOwedKept == AiBase /\ AiOwed /\ [AnNext]_anVars => AiOwed'
  <1> SUFFICES ASSUME AiBase, AiOwed, [AnNext]_anVars PROVE AiOwed'
    OBVIOUS
  <1>0. /\ AiLogs /\ AiReaders /\ AiWriter /\ AiRows /\ AnIds' = AnIds
        /\ anFlush = [by |-> anFlush.by, batch |-> anFlush.batch, table |-> anFlush.table]
        /\ anFlush.batch \in Seq(AiGood)
    BY AiGrows DEF AiBase, AiWriter
  <1>1. ASSUME anRows' = anRows, anFlush'.table \in {0, 1, 8} PROVE AiOwed'
    <2> SUFFICES ASSUME NEW j \in 2 .. 7, NEW e \in AnIds
                 PROVE  anRows'[AnTables[j]][e] + AiOwes(j, e)' <= anRows'["raw_events"][e]
      BY <1>0 DEF AiOwed
    <2>1. AiOwes(j, e)' = 0
      BY <1>1 DEF AiOwes
    <2>2. anRows[AnTables[j]][e] + AiOwes(j, e) <= anRows["raw_events"][e]
      BY DEF AiOwed
    <2> QED
      BY <1>1, <2>1, <2>2, AiOwesNat
  <1>2. ASSUME anRows' = anRows, anFlush' = anFlush PROVE AiOwed'
    BY <1>0, <1>2 DEF AiOwed, AiOwes
  <1>3. ASSUME NEW t \in AnTopic, NEW r, AiMoved(t, r), AiStep(t, r) PROVE AiOwed'
    <2>1. anRows' = anRows
      BY <1>3 DEF AiStep
    <2>2. anFlush' = anFlush \/ \E s : anFlush' = [by |-> t, batch |-> s, table |-> 1]
      BY <1>3 DEF AiStep
    <2> QED
      BY <1>1, <1>2, <2>1, <2>2, AiFlushForms
  <1>4. CASE AiTicks
    <2>1. anFlush'.table = 1
      BY <1>4, AiFlushForms DEF AiTicks
    <2> QED
      BY <1>1, <1>4, <2>1 DEF AiTicks
  <1>5. CASE AiWrites
    <2>1. PICK k \in 1 .. 7, from \in 1 .. 8 : k = anFlush.table /\ from = anFlush.table + 1 /\ from = k + 1
      BY <1>5 DEF AiWrites
    <2>2. PICK batch \in Seq(AiGood) : batch = anFlush.batch
      BY <1>0
    <2>3. PICK n \in from .. 8 : n = NextTable(batch, from)
      BY AiNextTable
    <2>4. anFlush'.batch = batch /\ anFlush'.table = n
      <3>1. anFlush' = [by |-> anFlush.by, batch |-> batch, table |-> n]
        BY <1>0, <1>5, <2>1, <2>2, <2>3, AiFlushForms DEF AiWrites
      <3> QED
        BY <3>1
    <2>5. PICK w \in AnTable : w = AnTables[k]
      BY <2>1, AiTables
    <2>6. anRows' = ExecBatch(anRows, w, batch)
      BY <1>5, <2>1, <2>2, <2>5 DEF AiWrites
    <2> SUFFICES ASSUME NEW j \in 2 .. 7, NEW e \in AnIds
                 PROVE  anRows'[AnTables[j]][e] + AiOwes(j, e)' <= anRows'["raw_events"][e]
      BY <1>0 DEF AiOwed
    <2>7. PICK a \in Nat, b \in Nat, c \in Nat :
              /\ a = anRows[AnTables[j]][e] /\ b = anRows["raw_events"][e] /\ c = AiClaim(batch, e)
      BY <2>2, AiOwesNat
    <2>8. a + (IF 1 < k /\ k <= j THEN c ELSE 0) <= b
      BY <2>1, <2>2, <2>7 DEF AiOwed, AiOwes
    <2>9. AiOwes(j, e)' = IF n <= j THEN c ELSE 0
      BY <2>1, <2>3, <2>4, <2>7 DEF AiOwes, AiClaim
    <2>10. /\ AnTables[j] \in AnTable /\ "raw_events" \in AnTable /\ AnTables[j] # "raw_events"
           /\ AnTables[j] = w <=> j = k
           /\ w = "raw_events" <=> k = 1
      BY <2>5, AiOwesNat, AiTables
    <2>11. /\ \A v \in AnTable : v # w => anRows'[v] = anRows[v]
           /\ anRows'[w][e] <= anRows[w][e] + AiClaim(batch, e) /\ anRows'[w][e] \in Nat
           /\ w = "raw_events" => anRows'[w][e] = anRows[w][e] + AiClaim(batch, e)
      BY <1>0, <2>6, AiExecBatch
    <2>12. CASE k = 1
      <3>1. anRows'["raw_events"][e] = b + c /\ anRows'[AnTables[j]][e] = a
        BY <2>7, <2>10, <2>11, <2>12
      <3> QED
        BY <2>8, <2>9, <2>12, <3>1
    <2>13. CASE k # 1 /\ j = k
      <3>1. PICK d \in Nat : d = anRows'[AnTables[j]][e] /\ d <= a + c
        BY <2>7, <2>10, <2>11, <2>13
      <3>2. anRows'["raw_events"][e] = b
        BY <2>7, <2>10, <2>11, <2>13
      <3>3. a + c <= b /\ ~(n <= j)
        BY <2>1, <2>3, <2>8, <2>13
      <3> QED
        BY <2>9, <3>1, <3>2, <3>3
    <2>14. CASE k # 1 /\ j # k
      <3>1. anRows'["raw_events"][e] = b /\ anRows'[AnTables[j]][e] = a
        BY <2>7, <2>10, <2>11, <2>14
      <3>2. a + (IF n <= j THEN c ELSE 0) <= b
        BY <2>1, <2>3, <2>8, <2>14
      <3> QED
        BY <2>9, <3>1, <3>2
    <2> QED
      BY <2>12, <2>13, <2>14
  <1>6. CASE AiSaves
    <2>1. anFlush' = [by |-> anFlush.by, batch |-> Tail(anFlush.batch), table |-> anFlush.table]
      BY <1>0, <1>6, AiFlushForms DEF AiSaves
    <2>2. anFlush'.table = 8
      BY <1>6, <2>1 DEF AiSaves
    <2> QED
      BY <1>1, <1>6, <2>2 DEF AiSaves
  <1>7. CASE AiEnds \/ AiStarts
    BY <1>1, <1>7, AiFlushForms DEF AiEnds, AiStarts, AnRestart
  <1>8. CASE AiRests
    BY <1>2, <1>8 DEF AiRests
  <1>9. \/ \E t \in AnTopic : \E r : AiMoved(t, r) /\ AiStep(t, r)
        \/ AiTicks \/ AiWrites \/ AiSaves \/ AiEnds \/ AiStarts \/ AiRests
    BY <1>0, AiSteps
  <1> QED
    BY <1>3, <1>4, <1>5, <1>6, <1>7, <1>8, <1>9

-----------------------------------------------------------------------------
(* What has become of an event *)

AiHasRows(m) == ~Permanent(m) /\ \A w \in Route(m) : anRows[w][m.id] > 0
AiAcc(m) == m.id \in AnInMemory \cup anDead \cup anLost \/ AiHasRows(m)

\* A reader passes a message, or is about to commit it, only when something has become of it.
AiPassed ==
    \A t \in AnTopic : \A i \in 1 .. Len(anLog[t]) :
        (i < anReader[t].pos \/ (i = anReader[t].pos /\ anReader[t].pc \in {"commit", "flush"}))
            => AiAcc(anLog[t][i])

\* Rows that an event has stay.
LEMMA AiRowsStay ==
    ASSUME AiBase, [AnNext]_anVars, NEW m \in AiAll, AiHasRows(m)
    PROVE  AiHasRows(m)'
  <1>0. AiLogs
    BY DEF AiBase
  <1>1. \A w \in Route(m) : anRows'[w][m.id] > 0
    <2> SUFFICES ASSUME NEW w \in Route(m) PROVE anRows'[w][m.id] > 0
      OBVIOUS
    <2>1. w \in AnTable /\ m.id \in AnIds
      BY <1>0, AiRoute, AiIds DEF AiHasRows
    <2>2. PICK a \in Nat, b \in Nat : a = anRows[w][m.id] /\ b = anRows'[w][m.id] /\ a <= b
      BY <2>1, AiGrows
    <2> QED
      BY <2>2 DEF AiHasRows
  <1>2. Permanent(m)' = Permanent(m) /\ Route(m)' = Route(m)
    BY DEF Permanent, DecodeEnvelope, ValidateSchema, AnEventType, Route, DeliveryHandle, DriverHandle, PaymentHandle,
           NotificationHandle, TimelineTable, DeliveryEvents, DriverEvents, PaymentEvents,
           NotificationEvents
  <1> QED
    BY <1>1, <1>2 DEF AiHasRows

\* A batch whose tables are all written has its rows.
LEMMA AiFlushDone ==
    ASSUME AiBase, AiWritten, anFlush.by # "none", anFlush.table = 8, NEW m \in ToSet(anFlush.batch)
    PROVE  AiHasRows(m)
  <1>1. ~Permanent(m)
    BY AiMemory
  <1>2. ASSUME NEW w \in Route(m) PROVE anRows[w][m.id] > 0
    <2>1. PICK j \in 1 .. 7 : w = AnTables[j]
      BY <1>1, AiRoute, AiTables
    <2> QED
      BY <2>1 DEF AiWritten
  <1> QED
    BY <1>1, <1>2 DEF AiHasRows

\* Nothing but the end of the process loses what is in memory.
LEMMA AiMemoryStays ==
    ASSUME AiBase, AiWritten, [AnNext]_anVars, ~AiStarts,
           NEW m \in ToSet(anPending) \cup ToSet(anFlush.batch)
    PROVE  m \in ToSet(anPending') \cup ToSet(anFlush'.batch) \/ AiHasRows(m)
  <1>0. /\ AiLogs /\ AiReaders /\ AiWriter
        /\ anPending \in Seq(AiGood) /\ anFlush.batch \in Seq(AiGood)
        /\ anFlush = [by |-> anFlush.by, batch |-> anFlush.batch, table |-> anFlush.table]
        /\ ToSet(<<>>) = {} /\ AiRows
    BY AiElements DEF AiBase, AiWriter
  <1>1. ASSUME anFlush = NoFlush PROVE m \in ToSet(anPending)
    BY <1>0, <1>1, AiFlushForms
  <1>2. ASSUME NEW b, NEW s, anFlush' = [by |-> b, batch |-> s, table |-> 1] PROVE anFlush'.batch = s
    BY <1>2, AiFlushForms
  <1>3. ASSUME NEW t \in AnTopic, NEW r, AiMoved(t, r), AiStep(t, r)
        PROVE  m \in ToSet(anPending') \cup ToSet(anFlush'.batch)
    <2>1. CASE UNCHANGED <<anPending, anFlush>>
      BY <2>1
    <2>2. CASE /\ anReader[t].pc = "add" /\ anFlush = NoFlush
               /\ \/ anPending' = Append(anPending, AnAt(t))
                  \/ anFlush' = [by |-> t, batch |-> Append(anPending, AnAt(t)), table |-> 1]
      <3>1. AiReader(t, anReader[t], anLog[t], anCommitted[t])
        BY <1>0 DEF AiReaders
      <3>2. ~Permanent(AnAt(t)) /\ anReader[t].pos \in 1 .. Len(anLog[t])
        BY <2>2, <3>1 DEF AiReader, AnAt
      <3>3. AnAt(t) \in AiGood
        BY <1>0, <3>2, AiIds DEF AnAt, AiGood
      <3>4. ToSet(Append(anPending, AnAt(t))) = ToSet(anPending) \cup {AnAt(t)}
        BY <1>0, <3>3, AiElements
      <3> QED
        BY <1>1, <1>2, <2>2, <3>4
    <2> QED
      BY <1>3, <2>1, <2>2 DEF AiStep
  <1>4. CASE AiTicks
    BY <1>1, <1>2, <1>4 DEF AiTicks
  <1>5. CASE AiWrites
    <2>1. anFlush'.batch = anFlush.batch /\ anPending' = anPending
      BY <1>0, <1>5 DEF AiWrites
    <2> QED
      BY <2>1
  <1>6. CASE AiSaves
    <2>1. anFlush'.batch = Tail(anFlush.batch) /\ anPending' = anPending
      BY <1>0, <1>6 DEF AiSaves
    <2>2. ToSet(anFlush.batch) = {Head(anFlush.batch)} \cup ToSet(Tail(anFlush.batch))
      BY <1>0, <1>6, AiElements DEF AiSaves
    <2>3. m \in ToSet(anFlush.batch) => AiHasRows(m)
      BY <1>6, AiFlushDone DEF AiSaves
    <2> QED
      BY <2>1, <2>2, <2>3
  <1>7. CASE AiEnds
    <2>1. CASE anPending' = anFlush.batch \o anPending
      <3>1. ToSet(anFlush.batch \o anPending) = ToSet(anFlush.batch) \cup ToSet(anPending)
        BY <1>0, AiElements
      <3> QED
        BY <2>1, <3>1
    <2>2. CASE anFlush.table = 8 /\ anPending' = anPending
      <3>1. m \in ToSet(anFlush.batch) => AiHasRows(m)
        BY <1>7, <2>2, AiFlushDone DEF AiEnds
      <3> QED
        BY <2>2, <3>1
    <2> QED
      BY <1>7, <2>1, <2>2 DEF AiEnds
  <1>8. CASE AiRests
    BY <1>8 DEF AiRests
  <1>9. \/ \E t \in AnTopic : \E r : AiMoved(t, r) /\ AiStep(t, r)
        \/ AiTicks \/ AiWrites \/ AiSaves \/ AiEnds \/ AiRests
    BY <1>0, AiSteps
  <1> QED
    BY <1>3, <1>4, <1>5, <1>6, <1>7, <1>8, <1>9

\* While the process lives, what has become of an event is not undone.
LEMMA AiAccStays ==
    ASSUME AiBase, AiWritten, [AnNext]_anVars, ~AiStarts, NEW m \in AiAll, AiAcc(m)
    PROVE  AiAcc(m)'
  <1>0. AiLogs /\ AiReaders /\ AiWriter
    BY DEF AiBase
  <1>1. anDead \subseteq anDead' /\ anLost \subseteq anLost'
    <2>1. \/ \E t \in AnTopic : \E r : AiMoved(t, r) /\ AiStep(t, r)
          \/ AiTicks \/ AiWrites \/ AiSaves \/ AiEnds \/ AiRests
      BY <1>0, AiSteps
    <2>2. \A t \in AnTopic : \A r : AiStep(t, r) => anDead \subseteq anDead' /\ anLost \subseteq anLost'
      BY DEF AiStep
    <2>3. AiTicks \/ AiWrites \/ AiSaves \/ AiEnds \/ AiRests => anDead' = anDead /\ anLost' = anLost
      BY DEF AiTicks, AiWrites, AiSaves, AiEnds, AiRests
    <2> QED
      BY <2>1, <2>2, <2>3
  <1>2. CASE m.id \in AnInMemory
    <2>1. PICK x \in ToSet(anPending) \cup ToSet(anFlush.batch) : x.id = m.id
      BY <1>2 DEF AnInMemory
    <2>2. x = m
      BY <1>0, <2>1, AiMemory DEF AiLogs
    <2>3. m \in ToSet(anPending') \cup ToSet(anFlush'.batch) \/ AiHasRows(m)
      BY <2>1, <2>2, AiMemoryStays
    <2>4. AiHasRows(m) => AiHasRows(m)'
      BY AiRowsStay
    <2>5. m \in ToSet(anPending') \cup ToSet(anFlush'.batch) => m.id \in AnInMemory'
      BY DEF AnInMemory
    <2> QED
      BY <2>3, <2>4, <2>5 DEF AiAcc
  <1>3. CASE m.id \in anDead \cup anLost
    BY <1>1, <1>3 DEF AiAcc
  <1>4. CASE AiHasRows(m)
    BY <1>4, AiRowsStay DEF AiAcc
  <1> QED
    BY <1>2, <1>3, <1>4 DEF AiAcc

\* Every step keeps what has become of the events that were passed,
LEMMA AiPassedKept == AiBase /\ AiWritten /\ AiStored /\ AiPassed /\ [AnNext]_anVars => AiPassed'
  <1> SUFFICES ASSUME AiBase, AiWritten, AiStored, AiPassed, [AnNext]_anVars PROVE AiPassed'
    OBVIOUS
  <1>0. AiLogs /\ AiReaders /\ AiWriter /\ anLog' = anLog
    BY AiGrows DEF AiBase
  <1> SUFFICES ASSUME NEW t \in AnTopic, NEW i \in 1 .. Len(anLog[t]), NEW m, m = anLog[t][i], m \in AiAll,
                      i < anReader'[t].pos \/ (i = anReader'[t].pos /\ anReader'[t].pc \in {"commit", "flush"})
               PROVE  AiAcc(m)'
    BY <1>0, AiIds DEF AiPassed, AiAcc, AiHasRows
  <1>1. /\ AiReader(t, anReader[t], anLog[t], anCommitted[t])
        /\ anReader[t].pos \in Nat /\ i \in Nat /\ Len(anLog[t]) \in Nat
    <2>1. Len(anLog[t]) \in Nat
      BY <1>0, AiIds
    <2>2. AiReader(t, anReader[t], anLog[t], anCommitted[t])
      BY <1>0 DEF AiReaders
    <2> QED
      BY <2>1, <2>2 DEF AiReader
  <1>2. ASSUME i < anReader[t].pos \/ (i = anReader[t].pos /\ anReader[t].pc \in {"commit", "flush"})
        PROVE  AiAcc(m)
    BY <1>2 DEF AiPassed
  <1>3. CASE AiStarts
    <2>1. anReader'[t].pc = "fetch" /\ anReader'[t].pos = anCommitted[t] + 1
      BY <1>0, <1>3, AiRestarts DEF AiStarts
    <2>2. anCommitted[t] \in Nat /\ anCommitted[t] < anReader[t].pos
      BY <1>1 DEF AiReader
    <2>3. i \in 1 .. anCommitted[t] /\ i < anReader[t].pos
      BY <1>1, <2>1, <2>2
    <2>4. AiAcc(m)
      BY <1>2, <2>3
    <2>5. m.id \in AnPassed
      <3>1. m.id \in {anLog[t][k].id : k \in 1 .. anCommitted[t]}
        BY <2>3
      <3> QED
        BY <3>1 DEF AnPassed
    <2>6. m.id \in AnInMemory => m.id \in anLost'
      BY <1>3, <2>5 DEF AiStarts, AnRestart
    <2>7. m.id \in anDead \cup anLost => m.id \in anDead' \cup anLost'
      BY <1>3 DEF AiStarts, AnRestart
    <2>8. AiHasRows(m) => AiHasRows(m)'
      BY AiRowsStay
    <2> QED
      BY <2>4, <2>6, <2>7, <2>8 DEF AiAcc
  <1>4. ASSUME ~AiStarts,
               i < anReader[t].pos \/ (i = anReader[t].pos /\ anReader[t].pc \in {"commit", "flush"})
        PROVE  AiAcc(m)'
    BY <1>2, <1>4, AiAccStays
  <1>5. ASSUME NEW u \in AnTopic, NEW r, AiMoved(u, r), AiStep(u, r), ~AiStarts
        PROVE  AiAcc(m)'
    <2>1. anReader'[t] = IF t = u THEN r ELSE anReader[t]
      BY <1>0, <1>5 DEF AiMoved, AiReaders
    <2>2. CASE t # u
      BY <1>4, <1>5, <2>1, <2>2
    <2>3. CASE t = u /\ r.pc = "fetch" /\ anReader[u].pc = "commit" /\ r.pos = anReader[u].pos + 1
      <3>1. i < anReader[t].pos \/ i = anReader[t].pos
        BY <1>1, <2>1, <2>3
      <3> QED
        BY <1>4, <1>5, <2>3, <3>1
    <2>4. CASE t = u /\ r.pc \in {"process", "add", "dlq"} /\ r.pos = anReader[u].pos
      <3>1. i < anReader[t].pos
        BY <2>1, <2>4
      <3> QED
        BY <1>4, <1>5, <3>1
    <2>5. CASE /\ t = u /\ r.pos = anReader[u].pos
               /\ \/ ~Permanent(AnAt(u)) /\ AnAt(u).id \in anSeen
                  \/ AnAt(u).id \in anDead' \cup anLost'
                  \/ anReader[u].pc = "add" /\ anPending' = Append(anPending, AnAt(u))
                  \/ /\ anReader[u].pc = "add"
                     /\ anFlush' = [by |-> u, batch |-> Append(anPending, AnAt(u)), table |-> 1]
      <3>1. CASE i < anReader[t].pos
        BY <1>4, <1>5, <3>1
      <3>2. CASE i = anReader[t].pos
        <4>1. AnAt(u) = m
          BY <2>5, <3>2 DEF AnAt
        <4>2. CASE ~Permanent(AnAt(u)) /\ AnAt(u).id \in anSeen
          <5>1. AiHasRows(m)
            BY <4>1, <4>2 DEF AiStored, AiHasRows
          <5> QED
            BY <5>1, AiRowsStay DEF AiAcc
        <4>3. CASE AnAt(u).id \in anDead' \cup anLost'
          BY <4>1, <4>3 DEF AiAcc
        <4>4. CASE /\ anReader[u].pc = "add"
                   /\ \/ anPending' = Append(anPending, AnAt(u))
                      \/ anFlush' = [by |-> u, batch |-> Append(anPending, AnAt(u)), table |-> 1]
          <5>1. m \in AiGood
            BY <1>1, <2>5, <4>1, <4>4 DEF AiReader, AnAt, AiGood
          <5>2. anPending \in Seq(AiGood)
            BY <1>0 DEF AiWriter
          <5>3. m \in ToSet(Append(anPending, m))
            BY <5>1, <5>2, AiElements
          <5>4. m \in ToSet(anPending') \cup ToSet(anFlush'.batch)
            <6>1. CASE anPending' = Append(anPending, AnAt(u))
              BY <4>1, <5>3, <6>1
            <6>2. CASE anFlush' = [by |-> u, batch |-> Append(anPending, AnAt(u)), table |-> 1]
              <7>1. anFlush'.batch = Append(anPending, AnAt(u))
                BY <6>2, AiFlushForms
              <7> QED
                BY <4>1, <5>3, <7>1
            <6> QED
              BY <4>4, <6>1, <6>2
          <5>5. m.id \in AnInMemory'
            BY <5>4 DEF AnInMemory
          <5> QED
            BY <5>5 DEF AiAcc
        <4> QED
          BY <2>5, <4>2, <4>3, <4>4
      <3>3. i < anReader[t].pos \/ i = anReader[t].pos
        BY <2>1, <2>5
      <3> QED
        BY <3>1, <3>2, <3>3
    <2> QED
      BY <1>5, <2>2, <2>3, <2>4, <2>5 DEF AiStep
  <1>6. CASE (AiTicks \/ AiWrites \/ AiSaves \/ AiRests) /\ ~AiStarts
    <2>1. anReader' = anReader
      BY <1>6 DEF AiTicks, AiWrites, AiSaves, AiRests
    <2> QED
      BY <1>4, <1>6, <2>1
  <1>7. CASE AiEnds /\ ~AiStarts
    <2>1. /\ anReader'[t].pc # "flush" /\ anReader'[t].pos = anReader[t].pos
          /\ anReader'[t] = anReader[t] \/ anReader[t].pc = "flush"
      BY <1>0, <1>7, AiReturns DEF AiEnds
    <2> QED
      BY <1>4, <1>7, <2>1
  <1>8. \/ \E u \in AnTopic : \E r : AiMoved(u, r) /\ AiStep(u, r)
        \/ AiTicks \/ AiWrites \/ AiSaves \/ AiEnds \/ AiStarts \/ AiRests
    BY <1>0, AiSteps
  <1> QED
    BY <1>3, <1>5, <1>6, <1>7, <1>8

-----------------------------------------------------------------------------
(* The queries *)

\* The counts of a query over given rows.
AiIdsOf(types) == {m.id : m \in {x \in AiAll : x.type \in types}}
AiCountIn(rows, w, types) == Total(rows[w], AiIdsOf(types))
AiAnswer(rows, q) ==
    CASE q = "platformOverview" ->
            {<<"total", AiCountIn(rows, "fact_delivery_events", {"delivery.created"})>>,
             <<"completed", AiCountIn(rows, "fact_delivery_events", {"delivery.completed"})>>,
             <<"cancelled", AiCountIn(rows, "fact_delivery_events", {"delivery.cancelled"})>>,
             <<"captured", AiCountIn(rows, "fact_payment_transactions", {"payment.captured"})>>,
             <<"refunded", AiCountIn(rows, "fact_payment_transactions", {"payment.refunded"})>>}
      [] q = "deliveryAnalytics" ->
            {<<"total", AiCountIn(rows, "fact_delivery_events", {"delivery.created"})>>,
             <<"completed", AiCountIn(rows, "fact_delivery_events", {"delivery.completed"})>>}
      [] q = "driverAnalytics" ->
            {<<"offers", AiCountIn(rows, "fact_driver_assignments", DriverEvents)>>,
             <<"accepted", AiCountIn(rows, "fact_driver_assignments", {"driver.assignment.accepted"})>>}
      [] q = "paymentAnalytics" ->
            {<<"captures", AiCountIn(rows, "fact_payment_transactions", {"payment.captured"})>>,
             <<"refunds", AiCountIn(rows, "fact_payment_transactions", {"payment.refunded"})>>}

\* The counts of the model are sums over the rows,
LEMMA AiCountIs ==
    ASSUME NEW w, NEW types
    PROVE  AnCount(w, types) = AiCountIn(anRows, w, types)
  BY Zenon DEF AnCount, AiCountIn, AiIdsOf, AiAll, Total, MapThenSumSet, MapThenFoldSet

\* What was cached is the answer over rows that were there.
AiBefore(rows) ==
    /\ rows \in [AnTable -> [AnIds -> Nat]]
    /\ \A w \in AnTable, e \in AnIds : rows[w][e] <= anRows[w][e]
AiCached ==
    /\ anCache = [query |-> anCache.query, answer |-> anCache.answer] /\ anCache.query \in AnQueries
    /\ anCache.answer # {} => \E rows : AiBefore(rows) /\ anCache.answer = AiAnswer(rows, anCache.query)

\* Fewer rows have no larger sum.
LEMMA AiCountGrows ==
    ASSUME AiLogs, AiRows, NEW rows, AiBefore(rows), NEW w \in AnTable, NEW types
    PROVE  /\ AiCountIn(rows, w, types) \in Nat /\ AiCountIn(anRows, w, types) \in Nat
           /\ AiCountIn(rows, w, types) <= AiCountIn(anRows, w, types)
  <1>1. PICK S : S = AiIdsOf(types) /\ S \subseteq AnIds /\ IsFiniteSet(S)
    <2>1. AiIdsOf(types) \subseteq AnIds
      BY AiIds DEF AiIdsOf
    <2> QED
      BY <2>1, AiIds, FS_Subset
  <1>2. PICK f, g : f = rows[w] /\ g = anRows[w]
    OBVIOUS
  <1>3. \A e \in S : f[e] \in Nat /\ g[e] \in Nat /\ f[e] <= g[e]
    BY <1>1, <1>2 DEF AiBefore, AiRows
  <1>4. Total(f, S) \in Nat /\ Total(g, S) \in Nat
    BY <1>1, <1>3, TotalWithout
  <1>5. Total(f, S) <= Total(g, S)
    BY <1>1, <1>3, TotalGrows
  <1> QED
    BY <1>1, <1>2, <1>4, <1>5 DEF AiCountIn

\* and its answers are made of them.
LEMMA AiAnswerIs == anCache.query \in AnQueries => AnAnswer(anCache.query) = AiAnswer(anRows, anCache.query)
  <1>1. PICK q : q = anCache.query
    OBVIOUS
  <1>2. \A w, types : AnCount(w, types) = AiCountIn(anRows, w, types)
    BY AiCountIs
  <1>3. q = "platformOverview" => AnAnswer(q) = AiAnswer(anRows, q)
    BY <1>2 DEF AnAnswer, AiAnswer, PlatformOverview
  <1>4. q = "deliveryAnalytics" => AnAnswer(q) = AiAnswer(anRows, q)
    BY <1>2 DEF AnAnswer, AiAnswer, DeliveryAnalytics
  <1>5. q = "driverAnalytics" => AnAnswer(q) = AiAnswer(anRows, q)
    BY <1>2 DEF AnAnswer, AiAnswer, DriverAnalytics
  <1>6. q = "paymentAnalytics" => AnAnswer(q) = AiAnswer(anRows, q)
    BY <1>2 DEF AnAnswer, AiAnswer, PaymentAnalytics
  <1> QED
    BY <1>1, <1>3, <1>4, <1>5, <1>6 DEF AnQueries

\* An answer over fewer rows reports no larger count.
LEMMA AiAnswerGrows ==
    ASSUME AiLogs, AiRows, NEW rows, AiBefore(rows), NEW q \in AnQueries,
           NEW c \in AiAnswer(rows, q), NEW d \in AiAnswer(anRows, q), c[1] = d[1]
    PROVE  c[2] <= d[2]
  <1>1. /\ "fact_delivery_events" \in AnTable /\ "fact_payment_transactions" \in AnTable
        /\ "fact_driver_assignments" \in AnTable
    BY AiTables DEF AnTables
  <1>2. PICK a, b : /\ a = [w \in AnTable |-> [types \in SUBSET STRING |-> AiCountIn(rows, w, types)]]
                    /\ b = [w \in AnTable |-> [types \in SUBSET STRING |-> AiCountIn(anRows, w, types)]]
    OBVIOUS
  <1>3. ASSUME NEW w \in AnTable, NEW types
        PROVE  AiCountIn(rows, w, types) <= AiCountIn(anRows, w, types)
    BY <1>3, AiCountGrows
  <1>4. CASE q = "platformOverview"
    <2>1. PICK a1, a2, a3, a4, a5 : 
            /\ a1 = AiCountIn(rows, "fact_delivery_events", {"delivery.created"})
            /\ a2 = AiCountIn(rows, "fact_delivery_events", {"delivery.completed"})
            /\ a3 = AiCountIn(rows, "fact_delivery_events", {"delivery.cancelled"})
            /\ a4 = AiCountIn(rows, "fact_payment_transactions", {"payment.captured"})
            /\ a5 = AiCountIn(rows, "fact_payment_transactions", {"payment.refunded"})
      OBVIOUS
    <2>2. PICK b1, b2, b3, b4, b5 : 
            /\ b1 = AiCountIn(anRows, "fact_delivery_events", {"delivery.created"})
            /\ b2 = AiCountIn(anRows, "fact_delivery_events", {"delivery.completed"})
            /\ b3 = AiCountIn(anRows, "fact_delivery_events", {"delivery.cancelled"})
            /\ b4 = AiCountIn(anRows, "fact_payment_transactions", {"payment.captured"})
            /\ b5 = AiCountIn(anRows, "fact_payment_transactions", {"payment.refunded"})
      OBVIOUS
    <2>3. a1 <= b1 /\ a2 <= b2 /\ a3 <= b3 /\ a4 <= b4 /\ a5 <= b5
      BY <1>1, <1>3, <2>1, <2>2
    <2>4. c \in {<<"total", a1>>, <<"completed", a2>>, <<"cancelled", a3>>, <<"captured", a4>>, <<"refunded", a5>>}
      BY <1>4, <2>1 DEF AiAnswer
    <2>5. d \in {<<"total", b1>>, <<"completed", b2>>, <<"cancelled", b3>>, <<"captured", b4>>, <<"refunded", b5>>}
      BY <1>4, <2>2 DEF AiAnswer
    <2> QED
      BY <2>3, <2>4, <2>5
  <1>5. CASE q = "deliveryAnalytics"
    <2>1. PICK a1, a2, b1, b2 : 
            /\ a1 = AiCountIn(rows, "fact_delivery_events", {"delivery.created"})
            /\ a2 = AiCountIn(rows, "fact_delivery_events", {"delivery.completed"})
            /\ b1 = AiCountIn(anRows, "fact_delivery_events", {"delivery.created"})
            /\ b2 = AiCountIn(anRows, "fact_delivery_events", {"delivery.completed"})
      OBVIOUS
    <2>2. a1 <= b1 /\ a2 <= b2
      BY <1>1, <1>3, <2>1
    <2>3. c \in {<<"total", a1>>, <<"completed", a2>>} /\ d \in {<<"total", b1>>, <<"completed", b2>>}
      BY <1>5, <2>1 DEF AiAnswer
    <2> QED
      BY <2>2, <2>3
  <1>6. CASE q = "driverAnalytics"
    <2>1. PICK a1, a2, b1, b2 : 
            /\ a1 = AiCountIn(rows, "fact_driver_assignments", DriverEvents)
            /\ a2 = AiCountIn(rows, "fact_driver_assignments", {"driver.assignment.accepted"})
            /\ b1 = AiCountIn(anRows, "fact_driver_assignments", DriverEvents)
            /\ b2 = AiCountIn(anRows, "fact_driver_assignments", {"driver.assignment.accepted"})
      OBVIOUS
    <2>2. a1 <= b1 /\ a2 <= b2
      BY <1>1, <1>3, <2>1
    <2>3. c \in {<<"offers", a1>>, <<"accepted", a2>>} /\ d \in {<<"offers", b1>>, <<"accepted", b2>>}
      BY <1>6, <2>1 DEF AiAnswer
    <2> QED
      BY <2>2, <2>3
  <1>7. CASE q = "paymentAnalytics"
    <2>1. PICK a1, a2, b1, b2 : 
            /\ a1 = AiCountIn(rows, "fact_payment_transactions", {"payment.captured"})
            /\ a2 = AiCountIn(rows, "fact_payment_transactions", {"payment.refunded"})
            /\ b1 = AiCountIn(anRows, "fact_payment_transactions", {"payment.captured"})
            /\ b2 = AiCountIn(anRows, "fact_payment_transactions", {"payment.refunded"})
      OBVIOUS
    <2>2. a1 <= b1 /\ a2 <= b2
      BY <1>1, <1>3, <2>1
    <2>3. c \in {<<"captures", a1>>, <<"refunds", a2>>} /\ d \in {<<"captures", b1>>, <<"refunds", b2>>}
      BY <1>7, <2>1 DEF AiAnswer
    <2> QED
      BY <2>2, <2>3
  <1> QED
    BY <1>4, <1>5, <1>6, <1>7 DEF AnQueries

\* Every step keeps where the cached answer came from.
LEMMA AiCachedKept == AiBase /\ AiCached /\ [AnNext]_anVars => AiCached'
  <1> SUFFICES ASSUME AiBase, AiCached, [AnNext]_anVars PROVE AiCached'
    OBVIOUS
  <1>0. /\ AiLogs /\ AiReaders /\ AiWriter /\ AiRows
        /\ anCache = [query |-> anCache.query, answer |-> anCache.answer] /\ anCache.query \in AnQueries
    BY DEF AiBase, AiCached
  <1>1. AiRows' /\ AnIds' = AnIds /\ AiAll' = AiAll
    BY AiGrows
  <1>2. ASSUME NEW rows, AiBefore(rows) PROVE AiBefore(rows)'
    <2>1. ASSUME NEW w \in AnTable, NEW e \in AnIds PROVE rows[w][e] <= anRows'[w][e]
      <3>1. PICK a \in Nat, b \in Nat : a = anRows[w][e] /\ b = anRows'[w][e] /\ a <= b
        BY AiGrows
      <3>2. PICK k \in Nat : k = rows[w][e] /\ k <= a
        BY <1>2, <3>1 DEF AiBefore
      <3> QED
        BY <3>1, <3>2
    <2> QED
      BY <1>1, <1>2, <2>1 DEF AiBefore
  <1>3. \A rows, q : AiAnswer(rows, q)' = AiAnswer(rows, q)
    <2>1. \A types : AiIdsOf(types)' = AiIdsOf(types)
      BY <1>1 DEF AiIdsOf
    <2>2. \A rows, w, types : AiCountIn(rows, w, types)' = AiCountIn(rows, w, types)
      BY <2>1, Zenon DEF AiCountIn, Total, MapThenSumSet, MapThenFoldSet
    <2> QED
      BY <2>2 DEF AiAnswer, DriverEvents
  <1>4. CASE UNCHANGED anCache
    BY <1>0, <1>2, <1>3, <1>4 DEF AiCached
  <1>5. CASE FetchCached /\ AiRests
    <2>1. PICK ans : ans = AnAnswer(anCache.query) /\ ans = AiAnswer(anRows, anCache.query)
      BY <1>0, AiAnswerIs
    <2>2. anCache' = [query |-> anCache.query, answer |-> ans]
      BY <1>0, <1>5, <2>1 DEF FetchCached
    <2>3. anCache'.query = anCache.query /\ anCache'.answer = ans
          /\ anCache' = [query |-> anCache'.query, answer |-> anCache'.answer]
      BY <2>2
    <2>4. PICK rows : rows = anRows
      OBVIOUS
    <2>5. AiBefore(rows)
      BY <1>0, <2>4 DEF AiBefore, AiRows
    <2>6. anCache'.answer = AiAnswer(rows, anCache.query)'
      BY <1>3, <2>1, <2>3, <2>4
    <2> QED
      BY <1>0, <1>2, <2>3, <2>5, <2>6 DEF AiCached
  <1>6. CASE CacheExpires
    <2>1. PICK none : none = {}
      OBVIOUS
    <2>2. anCache' = [query |-> anCache.query, answer |-> none]
      BY <1>0, <1>6, <2>1 DEF CacheExpires
    <2>3. anCache'.query = anCache.query /\ anCache'.answer = none
          /\ anCache' = [query |-> anCache'.query, answer |-> anCache'.answer]
      BY <2>2
    <2> QED
      BY <1>0, <2>1, <2>3 DEF AiCached
  <1>7. \/ \E t \in AnTopic : \E r : AiMoved(t, r) /\ AiStep(t, r)
        \/ UNCHANGED anCache \/ (FetchCached /\ AiRests) \/ CacheExpires
    BY <1>0, AiSteps
  <1>8. \A t \in AnTopic : \A r : AiStep(t, r) => UNCHANGED anCache
    BY DEF AiStep
  <1> QED
    BY <1>4, <1>5, <1>6, <1>7, <1>8

-----------------------------------------------------------------------------
(* The invariant and what it implies *)

AiInv == AiBase /\ AiWritten /\ AiStored /\ AiOwed /\ AiPassed /\ AiCached

\* The invariant holds at first,
LEMMA AiInvInit == AnInit => AiInv
  <1> SUFFICES ASSUME AnInit PROVE AiInv
    OBVIOUS
  <1>1. PICK run \in AnRuns : anLog = run.log /\ anCache = [query |-> run.query, answer |-> {}]
    BY DEF AnInit
  <1>2. /\ anLog = [t \in AnTopic |-> anLog[t]] /\ run.query \in AnQueries
        /\ \A t \in AnTopic : anLog[t] \in Seq(ToSet(anLog[t]))
        /\ \A t, u \in AnTopic : \A x \in ToSet(anLog[t]), y \in ToSet(anLog[u]) : x.id = y.id => x = y
        /\ AnMaxRetries \in Nat
    BY <1>1, AnAssumption
  <1>3. AiLogs
    <2>1. ASSUME NEW x \in AiAll, NEW y \in AiAll, x.id = y.id PROVE x = y
      <3>1. PICK t \in AnTopic, u \in AnTopic : x \in ToSet(anLog[t]) /\ y \in ToSet(anLog[u])
        BY DEF AiAll
      <3> QED
        BY <1>2, <2>1, <3>1
    <2> QED
      BY <1>2, <2>1 DEF AiLogs
  <1>4. /\ anFlush = NoFlush /\ anPending = <<>>
        /\ NoFlush.by = "none" /\ NoFlush.batch = <<>> /\ NoFlush.table = 0
        /\ NoFlush = [by |-> NoFlush.by, batch |-> NoFlush.batch, table |-> NoFlush.table]
    BY AiFlushForms DEF AnInit
  <1>5. ASSUME NEW t \in AnTopic
        PROVE  /\ anReader[t] = [pc |-> anReader[t].pc, pos |-> anReader[t].pos, tries |-> anReader[t].tries]
               /\ anReader[t].pc = "fetch" /\ anReader[t].pos = 1
               /\ AiReader(t, anReader[t], anLog[t], anCommitted[t])
               /\ anCommitted[t] = 0
    <2>1. PICK c, log : c \in Nat /\ c = 0 /\ log = anLog[t]
      OBVIOUS
    <2>2. Len(log) \in Nat /\ c <= Len(log)
      BY <1>3, <2>1, AiIds
    <2>3. /\ AnIdle(c + 1) = [pc |-> AnIdle(c + 1).pc, pos |-> AnIdle(c + 1).pos,
                              tries |-> AnIdle(c + 1).tries]
          /\ AnIdle(c + 1).pc = "fetch" /\ AnIdle(c + 1).pos = c + 1
          /\ AiReader(t, AnIdle(c + 1), log, c)
      BY <2>1, <2>2, AiIdleReader
    <2>4. anReader[t] = AnIdle(c + 1) /\ anCommitted[t] = c
      BY <2>1 DEF AnInit
    <2> QED
      BY <2>1, <2>3, <2>4
  <1>6. AiReaders
    <2>1. anReader = [t \in AnTopic |-> anReader[t]] /\ anUp = "up" /\ anCommitted \in [AnTopic -> Nat]
      BY DEF AnInit
    <2>2. anReader = [t \in AnTopic |-> [pc |-> anReader[t].pc, pos |-> anReader[t].pos,
                                         tries |-> anReader[t].tries]]
      BY <1>5, <2>1
    <2> QED
      BY <1>5, <2>1, <2>2 DEF AiReaders
  <1>7. AiWriter
    <2>1. <<>> \in Seq(AiGood) /\ "none" \notin AnTopic
      BY AnAssumption
    <2>2. \A t \in AnTopic : anReader[t].pc # "flush" /\ t # "none"
      BY <1>5, <2>1
    <2> QED
      BY <1>4, <2>1, <2>2 DEF AiWriter
  <1>8. AiRows /\ AiMarks /\ \A w \in AnTable, e \in AnIds : anRows[w][e] = 0
    BY DEF AnInit, AiRows, AiMarks
  <1>9. AiWritten /\ AiStored
    BY <1>4 DEF AiWritten, AiStored, AnInit
  <1>10. AiOwed
    <2> SUFFICES ASSUME NEW j \in 2 .. 7, NEW e \in AnIds
                 PROVE  anRows[AnTables[j]][e] + AiOwes(j, e) <= anRows["raw_events"][e]
      BY DEF AiOwed
    <2>1. AiOwes(j, e) = 0
      BY <1>4 DEF AiOwes
    <2>2. AnTables[j] \in AnTable /\ "raw_events" \in AnTable
      BY AiTables
    <2> QED
      BY <1>8, <2>1, <2>2
  <1>11. AiPassed
    <2> SUFFICES ASSUME NEW t \in AnTopic, NEW i \in 1 .. Len(anLog[t]), i < anReader[t].pos
                 PROVE FALSE
      BY <1>5 DEF AiPassed
    <2>1. anReader[t].pos = 1
      BY <1>5
    <2> QED
      BY <2>1
  <1>12. AiCached
    <2>1. PICK none : none = {}
      OBVIOUS
    <2>2. anCache = [query |-> run.query, answer |-> none]
      BY <1>1, <2>1
    <2>3. anCache.query = run.query /\ anCache.answer = none
          /\ anCache = [query |-> anCache.query, answer |-> anCache.answer]
      BY <2>2
    <2> QED
      BY <1>2, <2>1, <2>3 DEF AiCached
  <1> QED
    BY <1>3, <1>6, <1>7, <1>8, <1>9, <1>10, <1>11, <1>12 DEF AiInv, AiBase

\* every step keeps it,
LEMMA AiInvStep == AiInv /\ [AnNext]_anVars => AiInv'
  <1> SUFFICES ASSUME AiInv, [AnNext]_anVars PROVE AiInv'
    OBVIOUS
  <1>1. AiBase /\ AiWritten /\ AiStored /\ AiOwed /\ AiPassed /\ AiCached
    BY DEF AiInv
  <1>2. anLog' = anLog /\ AiAll' = AiAll /\ AiRows'
    BY <1>1, AiGrows
  <1>3. AiLogs'
    BY <1>1, <1>2 DEF AiBase, AiLogs
  <1> QED
    BY <1>1, <1>2, <1>3, AiReadersKept, AiWriterKept, AiMarksKept, AiWrittenKept, AiStoredKept,
       AiOwedKept, AiPassedKept, AiCachedKept DEF AiInv, AiBase

\* and it implies the properties.
LEMMA AiInvImplies == AiInv => AnTypeOK /\ AnSeenIsStored /\ AnFactsAreTraceable /\ AnAccounted
  <1> SUFFICES ASSUME AiInv PROVE AnTypeOK /\ AnSeenIsStored /\ AnFactsAreTraceable /\ AnAccounted
    OBVIOUS
  <1>0. /\ AiBase /\ AiLogs /\ AiReaders /\ AiWriter /\ AiRows /\ AiMarks
        /\ AiStored /\ AiOwed /\ AiPassed /\ AiCached
    BY DEF AiInv, AiBase
  <1>1. AnTypeOK
    <2>1. \A t \in AnTopic :
            /\ anReader[t].pc \in {"fetch", "process", "add", "flush", "dlq", "commit"}
            /\ anReader[t].pos \in 1 .. Len(anLog[t]) + 1 /\ anReader[t].tries \in 0 .. AnMaxRetries + 1
      <3> SUFFICES ASSUME NEW t \in AnTopic
                   PROVE  /\ anReader[t].pc \in {"fetch", "process", "add", "flush", "dlq", "commit"}
                          /\ anReader[t].pos \in 1 .. Len(anLog[t]) + 1
                          /\ anReader[t].tries \in 0 .. AnMaxRetries + 1
        OBVIOUS
      <3>1. AiReader(t, anReader[t], anLog[t], anCommitted[t])
        BY <1>0 DEF AiReaders
      <3>2. Len(anLog[t]) \in Nat
        BY <1>0, AiIds
      <3> QED
        BY <3>1, <3>2, AnAssumption DEF AiReader
    <2>2. Len(AnTables) = 7 /\ anFlush.table \in 0 .. 8
      BY <1>0, AiTables DEF AiWriter
    <2>3. anSeen \cup anDead \cup anLost \subseteq AnIds
      BY <1>0 DEF AiMarks
    <2>4. /\ anFlush.by \in AnTopic \cup {"none", "ticker", "stop"}
          /\ \A t \in AnTopic : anReader[t].pc = "flush" <=> anFlush.by = t
      BY <1>0 DEF AiWriter
    <2>5. anFlush.table \in 0 .. Len(AnTables) + 1
      BY <2>2
    <2> QED
      BY <1>0, <2>1, <2>3, <2>4, <2>5 DEF AnTypeOK, AiReaders
  <1>2. AnSeenIsStored
    <2> SUFFICES ASSUME NEW t \in AnTopic, NEW m \in ToSet(anLog[t]), m.id \in anSeen
                 PROVE  \A w \in Route(m) : anRows[w][m.id] > 0
      BY DEF AnSeenIsStored
    <2>1. m \in AiAll
      BY DEF AiAll
    <2> QED
      BY <1>0, <2>1 DEF AiStored
  <1>3. AnFactsAreTraceable
    <2>1. ASSUME NEW w \in AnTable, NEW e \in AnIds PROVE anRows[w][e] <= anRows["raw_events"][e]
      <3>1. PICK j \in 1 .. 7 : w = AnTables[j]
        BY AiTables
      <3>2. CASE j = 1
        <4>1. w = "raw_events" /\ anRows[w][e] \in Nat
          BY <1>0, <3>1, <3>2, AiTables DEF AiRows
        <4> QED
          BY <4>1
      <3>3. CASE j # 1
        <4>1. j \in 2 .. 7
          BY <3>3
        <4>2. anRows[AnTables[j]][e] + AiOwes(j, e) <= anRows["raw_events"][e]
          BY <1>0, <4>1 DEF AiOwed
        <4>3. PICK a \in Nat, b \in Nat, c \in Nat :
                 a = anRows[AnTables[j]][e] /\ b = anRows["raw_events"][e] /\ c = AiOwes(j, e)
          BY <1>0, <4>1, AiOwesNat
        <4> QED
          BY <3>1, <4>2, <4>3
      <3> QED
        BY <3>2, <3>3
    <2>2. CountFactDeliveryEvents <= CountRawEvents
      <3>1. PICK w \in AnTable, raw \in AnTable : w = "fact_delivery_events" /\ raw = "raw_events"
        BY AiTables DEF AnTables
      <3>2. PICK S : S = AiIdsOf(AnEventType) /\ S \subseteq AnIds /\ IsFiniteSet(S)
        <4>1. AiIdsOf(AnEventType) \subseteq AnIds
          BY <1>0, AiIds DEF AiIdsOf
        <4> QED
          BY <1>0, <4>1, AiIds, FS_Subset
      <3>3. PICK f, g : f = anRows[w] /\ g = anRows[raw]
        OBVIOUS
      <3>4. \A e \in S : f[e] \in Nat /\ g[e] \in Nat /\ f[e] <= g[e]
        BY <1>0, <2>1, <3>1, <3>2, <3>3 DEF AiRows
      <3>5. Total(f, S) <= Total(g, S)
        BY <3>2, <3>4, TotalGrows
      <3>6. CountFactDeliveryEvents = Total(f, S) /\ CountRawEvents = Total(g, S)
        BY <3>1, <3>2, <3>3, AiCountIs DEF CountFactDeliveryEvents, CountRawEvents, AiCountIn
      <3> QED
        BY <3>5, <3>6
    <2>3. ASSUME NEW c \in anCache.answer, NEW d \in AnAnswer(anCache.query), c[1] = d[1]
          PROVE  c[2] <= d[2]
      <3>1. PICK q \in AnQueries : q = anCache.query
        BY <1>0 DEF AiCached
      <3>2. PICK rows : AiBefore(rows) /\ anCache.answer = AiAnswer(rows, q)
        BY <1>0, <2>3, <3>1 DEF AiCached
      <3>3. d \in AiAnswer(anRows, q) /\ c \in AiAnswer(rows, q)
        BY <2>3, <3>1, <3>2, AiAnswerIs
      <3> QED
        BY <1>0, <2>3, <3>2, <3>3, AiAnswerGrows
    <2> QED
      BY <2>1, <2>2, <2>3 DEF AnFactsAreTraceable
  <1>4. AnAccounted
    <2> SUFFICES ASSUME NEW t \in AnTopic, NEW i \in 1 .. anCommitted[t], NEW m, m = anLog[t][i]
                 PROVE  \/ m.id \in AnInMemory \cup anDead \cup anLost
                        \/ DecodeEnvelope(m) /\ ValidateSchema(m) /\ \A w \in Route(m) : anRows[w][m.id] > 0
      BY DEF AnAccounted
    <2>1. AiReader(t, anReader[t], anLog[t], anCommitted[t]) /\ Len(anLog[t]) \in Nat
      BY <1>0, AiIds DEF AiReaders
    <2>2. i \in 1 .. Len(anLog[t]) /\ i < anReader[t].pos
      BY <2>1 DEF AiReader
    <2>3. AiAcc(m)
      BY <1>0, <2>2 DEF AiPassed
    <2> QED
      BY <2>3 DEF AiAcc, AiHasRows, Permanent
  <1> QED
    BY <1>1, <1>2, <1>3, <1>4

\* Whatever fails, crashes or is shut down in between: an event is marked as processed only when
\* all its rows are in ClickHouse, no fact outnumbers its raw event and no cached answer is ahead of
\* the tables, and an event whose offset is committed has its rows, waits in memory, is a dead
\* letter, or was in memory when the process ended or a dead letter that could not be written.
THEOREM AnalyticsIngestionSafe ==
    AnSpec => [](AnTypeOK /\ AnSeenIsStored /\ AnFactsAreTraceable /\ AnAccounted)
  <1>1. AnInit => AiInv
    BY AiInvInit
  <1>2. AiInv /\ [AnNext]_anVars => AiInv'
    BY AiInvStep
  <1>3. AiInv => AnTypeOK /\ AnSeenIsStored /\ AnFactsAreTraceable /\ AnAccounted
    BY AiInvImplies
  <1> QED
    BY <1>1, <1>2, <1>3, PTL DEF AnSpec

-----------------------------------------------------------------------------
(***************************************************************************)
(* The type invariant of SearchOps.  A replica counts at most one error per *)
(* alias it has passed, and main counts its attempts up to the retries.    *)
(***************************************************************************)

StWorkOK(w) ==
    /\ w.pc \in {"exists", "create", "alias", "serving"}
    /\ w.errs < w.pos
    /\ w.try \in 1..SxRetries

StInv ==
    /\ sxMapped \cup sxAlias \cup sxPlain \subseteq SxKind
    /\ \A r \in SxReplica : StWorkOK(sxWork[r]) /\ sxAnswer[r].said \in {"none", "hits", "misfit", "empty"}

LEMMA StBooting == StWorkOK(SxBooting)
  BY SxAssumption DEF StWorkOK, SxBooting

LEMMA StInvInit == SxInit => StInv
  BY StBooting DEF SxInit, StInv

LEMMA StInvImplies == SiInv /\ StInv => SxTypeOK
  <1> SUFFICES ASSUME SiInv, StInv, NEW r \in SxReplica
               PROVE  sxWork[r].pos \in DOMAIN EnsureList /\ sxWork[r].errs \in 0..Len(EnsureList)
    BY DEF SxTypeOK, StInv, StWorkOK
  <1>v. PICK v : v = sxWork[r]
    OBVIOUS
  <1>1. v.pos \in 1..4 /\ v.errs \in Nat /\ v.errs < v.pos
    BY <1>v DEF SiInv, SiWorkOK, StInv, StWorkOK
  <1>2. v.errs \in 0..4
    BY <1>1
  <1> QED
    BY <1>v, <1>1, <1>2, SiFour

\* One replica moves.
LEMMA StMove ==
    ASSUME SiInv, StInv, NEW r \in SxReplica, NEW w, sxWork' = [sxWork EXCEPT ![r] = w], StWorkOK(w),
           NEW x \in SxReplica
    PROVE  StWorkOK(sxWork'[x])
  <1>1. sxWork'[x] = IF x = r THEN w ELSE sxWork[x]
    BY DEF SiInv
  <1> QED
    BY <1>1 DEF StInv

LEMMA StNext ==
    ASSUME SiInv, StInv, NEW r \in SxReplica, NEW f \in {0, 1}, EnsureNext(r, f), NEW x \in SxReplica
    PROVE  StWorkOK(sxWork'[x])
  <1>v. PICK v : v = sxWork[r]
    OBVIOUS
  <1>e. PICK n : n = v.errs + f
    OBVIOUS
  <1>w. PICK w : /\ sxWork' = [sxWork EXCEPT ![r] = w]
                 /\ w = IF v.pos = 4 THEN EnsureEnds(v, n)
                        ELSE [v EXCEPT !.pos = v.pos + 1, !.errs = n, !.pc = "exists"]
    BY <1>v, <1>e, SiFour DEF EnsureNext
  <1>1. /\ v = [pc |-> v.pc, pos |-> v.pos, errs |-> v.errs, try |-> v.try, boot |-> v.boot, ready |-> v.ready]
        /\ v.pos \in 1..4 /\ v.errs \in Nat /\ v.errs < v.pos /\ v.try \in 1..SxRetries /\ v.boot \in BOOLEAN
    BY <1>v DEF SiInv, SiWorkOK, StInv, StWorkOK
  <1>2. n \in Nat /\ n < v.pos + 1
    BY <1>1, <1>e
  <1>3. StWorkOK(w)
    <2>1. CASE v.pos # 4
      <3>p. PICK p : p = v.pos + 1
        OBVIOUS
      <3>1. w = [v EXCEPT !.pos = p, !.errs = n, !.pc = "exists"]
        BY <2>1, <3>p, <1>w
      <3>2. w.pos = p /\ w.errs = n /\ w.pc = "exists" /\ w.try = v.try
        BY <3>1, <1>1
      <3> QED
        BY <3>2, <3>p, <1>1, <1>2 DEF StWorkOK
    <2>2. CASE v.pos = 4
      <3>0. w = EnsureEnds(v, n)
        BY <2>2, <1>w
      <3>1. CASE w = [v EXCEPT !.pc = "serving"]
        <4>1. w.pos = v.pos /\ w.errs = v.errs /\ w.pc = "serving" /\ w.try = v.try
          BY <3>1, <1>1
        <4> QED
          BY <4>1, <1>1 DEF StWorkOK
      <3>2. CASE w = [v EXCEPT !.pc = "serving", !.boot = FALSE, !.ready = TRUE]
        <4>1. w.pos = v.pos /\ w.errs = v.errs /\ w.pc = "serving" /\ w.try = v.try
          BY <3>2, <1>1
        <4> QED
          BY <4>1, <1>1 DEF StWorkOK
      <3>3. CASE v.try < SxRetries /\ w = [SxBooting EXCEPT !.try = v.try + 1]
        <4>t. PICK t : t = v.try + 1
          OBVIOUS
        <4>1. w = [pc |-> "exists", pos |-> 1, errs |-> 0, try |-> t, boot |-> TRUE, ready |-> FALSE]
          BY <3>3, <4>t DEF SxBooting
        <4>2. t \in 1..SxRetries
          BY <3>3, <4>t, <1>1, SxAssumption
        <4>3. w.pc = "exists" /\ w.pos = 1 /\ w.errs = 0 /\ w.try = t
          BY <4>1
        <4> QED
          BY <4>2, <4>3 DEF StWorkOK
      <3>4. CASE w = [v EXCEPT !.pc = "serving", !.boot = FALSE]
        <4>1. w.pos = v.pos /\ w.errs = v.errs /\ w.pc = "serving" /\ w.try = v.try
          BY <3>4, <1>1
        <4> QED
          BY <4>1, <1>1 DEF StWorkOK
      <3>5. \/ w = [v EXCEPT !.pc = "serving"]
            \/ w = [v EXCEPT !.pc = "serving", !.boot = FALSE, !.ready = TRUE]
            \/ (v.try < SxRetries /\ w = [SxBooting EXCEPT !.try = v.try + 1])
            \/ w = [v EXCEPT !.pc = "serving", !.boot = FALSE]
        BY <3>0, <1>2 DEF EnsureEnds
      <3> QED
        BY <3>1, <3>2, <3>3, <3>4, <3>5
    <2> QED
      BY <2>1, <2>2
  <1> QED
    BY <1>w, <1>3, StMove

LEMMA StGoto ==
    ASSUME SiInv, StInv, NEW r \in SxReplica, NEW pc \in {"create", "alias"}, SxGoto(r, pc), NEW x \in SxReplica
    PROVE  StWorkOK(sxWork'[x])
  <1>v. PICK v : v = sxWork[r]
    OBVIOUS
  <1>0. /\ v = [pc |-> v.pc, pos |-> v.pos, errs |-> v.errs, try |-> v.try, boot |-> v.boot, ready |-> v.ready]
        /\ StWorkOK(v)
    BY <1>v DEF SiInv, SiWorkOK, StInv
  <1>w. PICK w : w = [v EXCEPT !.pc = pc]
    OBVIOUS
  <1>1. /\ w.pos = v.pos /\ w.errs = v.errs /\ w.pc = pc /\ w.try = v.try
        /\ sxWork' = [sxWork EXCEPT ![r] = w]
    BY <1>0, <1>v, <1>w DEF SxGoto
  <1>2. StWorkOK(w)
    BY <1>0, <1>1 DEF StWorkOK
  <1> QED
    BY <1>1, <1>2, StMove

\* The alias at hand is one of the four.
LEMMA StAtKind ==
    ASSUME SiInv, NEW r \in SxReplica
    PROVE  SxAt(r) \in SxKind
  BY SiKinds DEF SiInv, SiWorkOK, SxAt

LEMMA StEnsure ==
    ASSUME SiInv, StInv, NEW r \in SxReplica, EnsureStep(r)
    PROVE  StInv'
  <1>1. sxMapped' \cup sxAlias' \cup sxPlain' \subseteq SxKind
    BY StAtKind DEF EnsureStep, IndexExists, CreateIndex, EnsureAlias, AddAlias, StInv
  <1>2. ASSUME NEW x \in SxReplica PROVE StWorkOK(sxWork'[x])
    <2>1. CASE EnsureNext(r, 0) \/ EnsureNext(r, 1)
      BY <2>1, StNext
    <2>2. CASE SxGoto(r, "create") \/ SxGoto(r, "alias")
      BY <2>2, StGoto
    <2>3. \/ EnsureNext(r, 0) \/ EnsureNext(r, 1)
          \/ SxGoto(r, "create") \/ SxGoto(r, "alias")
      BY Zenon DEF EnsureStep, IndexExists, CreateIndex, EnsureAlias
    <2> QED
      BY <2>1, <2>2, <2>3
  <1>3. UNCHANGED sxAnswer
    BY DEF EnsureStep
  <1>4. \A x \in SxReplica : StWorkOK(sxWork[x])'
    BY <1>2 DEF StWorkOK
  <1> QED
    BY <1>1, <1>3, <1>4 DEF StInv

LEMMA StSearch ==
    ASSUME SiInv, StInv, NEW r \in SxReplica, NEW k \in SxKind, SearchOn(r, k)
    PROVE  StInv'
  <1>v. PICK v : v = sxWork[r]
    OBVIOUS
  <1>0. /\ v = [pc |-> v.pc, pos |-> v.pos, errs |-> v.errs, try |-> v.try, boot |-> v.boot, ready |-> v.ready]
        /\ StWorkOK(v)
    BY <1>v DEF SiInv, SiWorkOK, StInv
  <1>1. ASSUME NEW x \in SxReplica PROVE StWorkOK(sxWork'[x])
    <2>1. CASE UNCHANGED sxWork
      BY <2>1 DEF StInv
    <2>2. CASE sxWork' = [sxWork EXCEPT ![r].pc = "exists", ![r].pos = 1, ![r].errs = 0]
      <3>1. PICK w : w = [v EXCEPT !.pc = "exists", !.pos = 1, !.errs = 0]
        OBVIOUS
      <3>2. sxWork' = [sxWork EXCEPT ![r] = w]
        BY <2>2, <3>1, <1>v DEF SiInv
      <3>3. w.pc = "exists" /\ w.pos = 1 /\ w.errs = 0 /\ w.try = v.try
        BY <3>1, <1>0
      <3>4. StWorkOK(w)
        BY <3>3, <1>0 DEF StWorkOK
      <3> QED
        BY <3>2, <3>4, StMove
    <2> QED
      BY <2>1, <2>2 DEF SearchOn
  <1>2. ASSUME NEW x \in SxReplica PROVE sxAnswer'[x].said \in {"none", "hits", "misfit", "empty"}
    <2>s. PICK s : s = CASE k \in sxAlias -> IF Fits(MappingOf(k), QueryUses(k)) THEN "hits" ELSE "misfit"
                         [] k \in sxPlain -> IF Fits(DynamicMapping(k), QueryUses(k)) THEN "hits" ELSE "misfit"
                         [] OTHER -> "empty"
      OBVIOUS
    <2>1. s \in {"hits", "misfit", "empty"}
      BY <2>s
    <2>b. PICK b : b = [kind |-> k, said |-> s]
      OBVIOUS
    <2>2. sxAnswer' = [sxAnswer EXCEPT ![r] = b]
      BY <2>s, <2>b DEF SearchOn
    <2>3. sxAnswer'[x] = IF x = r THEN b ELSE sxAnswer[x]
      BY <2>2 DEF SiInv
    <2>4. b.said = s
      BY <2>b
    <2> QED
      BY <2>1, <2>3, <2>4 DEF StInv
  <1>3. UNCHANGED <<sxMapped, sxAlias, sxPlain>>
    BY DEF SearchOn
  <1>4. \A x \in SxReplica : StWorkOK(sxWork[x])'
    BY <1>1 DEF StWorkOK
  <1> QED
    BY <1>2, <1>3, <1>4 DEF StInv

LEMMA StRestart ==
    ASSUME SiInv, StInv, NEW r \in SxReplica, SxRestart(r)
    PROVE  StInv'
  <1>1. sxWork' = [sxWork EXCEPT ![r] = SxBooting]
    BY DEF SxRestart
  <1>2. \A x \in SxReplica : StWorkOK(sxWork'[x])
    BY <1>1, StBooting, StMove
  <1>3. ASSUME NEW x \in SxReplica PROVE sxAnswer'[x].said \in {"none", "hits", "misfit", "empty"}
    <2>b. PICK b : b = [kind |-> "none", said |-> "none"]
      OBVIOUS
    <2>1. sxAnswer' = [sxAnswer EXCEPT ![r] = b]
      BY <2>b DEF SxRestart
    <2>2. sxAnswer'[x] = IF x = r THEN b ELSE sxAnswer[x]
      BY <2>1 DEF SiInv
    <2>3. b.said = "none"
      BY <2>b
    <2> QED
      BY <2>2, <2>3 DEF StInv
  <1>4. \A x \in SxReplica : StWorkOK(sxWork[x])'
    BY <1>2 DEF StWorkOK
  <1> QED
    BY <1>3, <1>4 DEF StInv, SxRestart

LEMMA StInvStep == SiInv /\ StInv /\ [SxNext]_sxVars => StInv'
  <1> SUFFICES ASSUME SiInv, StInv, [SxNext]_sxVars PROVE StInv'
    OBVIOUS
  <1>1. ASSUME UNCHANGED <<sxWork, sxAnswer>>, sxMapped' \cup sxAlias' \cup sxPlain' \subseteq SxKind PROVE StInv'
    BY <1>1 DEF StInv, StWorkOK
  <1>2. ASSUME NEW r \in SxReplica, NEW k \in SxKind, UpsertDoc(r, k) PROVE StInv'
    <2>1. UNCHANGED <<sxWork, sxAnswer>> /\ sxMapped' \cup sxAlias' \cup sxPlain' \subseteq SxKind
      BY <1>2 DEF UpsertDoc, StInv
    <2> QED
      BY <2>1, <1>1
  <1>3. CASE UNCHANGED sxVars
    BY <1>1, <1>3 DEF sxVars, StInv
  <1> QED
    BY <1>2, <1>3, StEnsure, StRestart, StSearch DEF SxNext

\* The replicas, indices and aliases of search-service are well formed: no pass counts more
\* errors than aliases it has tried, and no start tries more often than maxRetries.
THEOREM ReplicasAreWellFormed == SxSpec => []SxTypeOK
  <1> QED
    BY SiInvInit, SiInvStep, StInvInit, StInvStep, StInvImplies, PTL DEF SxSpec

-----------------------------------------------------------------------------
(* The type invariant of SearchIndex, next to SwInv. *)

SuPlaces == {"idle", "name", "merge", "check", "write", "delete", "dlq", "commit"}

SuInv ==
    /\ \A c \in SeConsumer : seWork[c].pc \in SuPlaces
    /\ \A u \in SeClient : seAsk[u].pc \in {"none", "search", "cache", "shown"}

LEMMA SuInvInit == SeInit => SuInv
  <1> SUFFICES ASSUME SeInit PROVE SuInv
    OBVIOUS
  <1>1. \A u \in SeClient : seAsk[u].pc = "none"
    BY DEF SeInit
  <1>2. \A c \in SeConsumer : seWork[c].pc = "idle"
    BY DEF SeInit, SeIdle
  <1> QED
    BY <1>1, <1>2 DEF SuInv, SuPlaces

LEMMA SuInvImplies == SwInv /\ SuInv => SeTypeOK
  <1> SUFFICES ASSUME SwInv, SuInv PROVE SeTypeOK
    OBVIOUS
  <1>1. \A u \in SeClient : seAsk[u].page.steady \subseteq SeEntity
    BY DEF SwInv, SwPages, SwAskOK, SwPageOK
  <1>2. \A e \in SeEntity : seDocs[e] = NoDoc \/ seDocs[e].ver \in Nat
    BY DEF SwInv, SwDocs, SwDocOK
  <1> QED
    BY <1>1, <1>2 DEF SuInv, SuPlaces, SeTypeOK

\* One consumer moves.
LEMMA SuMove ==
    ASSUME SgInv, SuInv, NEW c \in SeConsumer, NEW w, seWork' = [seWork EXCEPT ![c] = w], w.pc \in SuPlaces,
           \A u \in SeClient : seAsk'[u].pc = seAsk[u].pc
    PROVE  SuInv'
  <1>1. ASSUME NEW x \in SeConsumer PROVE seWork'[x].pc \in SuPlaces
    <2>1. seWork'[x] = IF x = c THEN w ELSE seWork[x]
      BY DEF SgInv, SgTypes
    <2> QED
      BY <2>1 DEF SuInv
  <1> QED
    BY <1>1 DEF SuInv, SuPlaces

LEMMA SuConsume ==
    ASSUME SwInv, SuInv, NEW c \in SeConsumer, SeConsume(c)
    PROVE  SuInv'
  <1>v. PICK v : v = seWork[c]
    OBVIOUS
  <1>0. /\ SgInv /\ v = [pc |-> v.pc, ev |-> v.ev, seen |-> v.seen, doc |-> v.doc, tries |-> v.tries]
        /\ v.pc # "idle" => v.ev \in SgPub
    BY <1>v, SgWorker DEF SwInv
  <1>w. ASSUME NEW u \in SeClient PROVE seAsk'[u].pc = seAsk[u].pc
    <2>1. PICK a, p : a = seAsk[u] /\ p = a.page
      OBVIOUS
    <2>2. a = [pc |-> a.pc, page |-> p]
      BY <2>1 DEF SwInv, SwPages, SwAskOK
    <2>3. ASSUME NEW e, Touched(e) PROVE seAsk'[u].pc = seAsk[u].pc
      <3>1. seAsk'[u] = [a EXCEPT !.page.steady = @ \ {e}]
        BY <2>1, <2>3 DEF Touched
      <3>2. PICK r : r = [p EXCEPT !.steady = @ \ {e}]
        OBVIOUS
      <3>3. seAsk'[u] = [a EXCEPT !.page = r]
        BY <2>1, <3>1, <3>2
      <3> QED
        BY <2>1, <2>2, <3>3
    <2>4. UNCHANGED seAsk \/ \E e : Touched(e)
      BY DEF SeConsume, IndexDoc, DeleteDoc, SeFailed
    <2> QED
      BY <2>3, <2>4
  <1>1. ASSUME NEW w, seWork' = [seWork EXCEPT ![c] = w], w.pc \in SuPlaces PROVE SuInv'
    BY <1>0, <1>1, <1>w, SuMove
  <1>2. ASSUME NEW e \in SgPub, NEW w, seWork' = [seWork EXCEPT ![c] = w],
               w = HandleEvent(c, e) \/ \E n : w = [HandleEvent(c, e) EXCEPT !.tries = n]
        PROVE  SuInv'
    <2>s. PICK s, p, d : s = SeIdle /\ p = HandlerEntry(e) /\ d = DocOf(e)
      OBVIOUS
    <2>0. s = [pc |-> s.pc, ev |-> s.ev, seen |-> s.seen, doc |-> s.doc, tries |-> s.tries]
      BY <2>s, SgIdleOK DEF SgWorkerOK
    <2>h. PICK h : h = HandleEvent(c, e)
      OBVIOUS
    <2>1. h = [s EXCEPT !.pc = p, !.ev = e, !.doc = d]
      BY <2>s, <2>h DEF HandleEvent
    <2>2. h = [pc |-> p, ev |-> e, seen |-> s.seen, doc |-> d, tries |-> s.tries]
      BY <2>0, <2>1
    <2>3. ASSUME NEW m, w = [h EXCEPT !.tries = m] PROVE w.pc = p
      BY <2>2, <2>3
    <2>4. w.pc = p
      BY <1>2, <2>2, <2>3, <2>h
    <2>5. p \in SuPlaces
      BY <2>s DEF HandlerEntry, SuPlaces
    <2> QED
      BY <1>1, <1>2, <2>4, <2>5
  <1>3. ASSUME NEW pc \in SuPlaces, SeGoto(c, pc) PROVE SuInv'
    <2>1. PICK w : w = [v EXCEPT !.pc = pc]
      OBVIOUS
    <2>2. w.pc = pc
      BY <1>0, <2>1
    <2>3. seWork' = [seWork EXCEPT ![c] = w]
      BY <1>3, <1>v, <2>1 DEF SeGoto
    <2> QED
      BY <1>1, <2>2, <2>3
  <1>4. CASE (c \in SeTopic /\ FetchMessage(c)) \/ (c \in SeRabbit /\ HandleIndexEvent(c))
    <2>1. PICK e \in SgPub : seWork' = [seWork EXCEPT ![c] = HandleEvent(c, e)]
      <3>1. CASE c \in SeTopic /\ FetchMessage(c)
        <4>1. seLog[c] \in Seq(SgPub) /\ seLog[c] # <<>>
          BY <3>1 DEF SwInv, SgInv, SgTypes, FetchMessage
        <4>2. Head(seLog[c]) \in SgPub
          BY <4>1, HeadTailProperties
        <4> QED
          BY <3>1, <4>2 DEF FetchMessage
      <3>2. CASE c \in SeRabbit /\ HandleIndexEvent(c)
        <4>1. seQueue \subseteq SgPub
          BY DEF SwInv, SgInv, SgTypes
        <4> QED
          BY <3>2, <4>1 DEF HandleIndexEvent
      <3> QED
        BY <1>4, <3>1, <3>2
    <2>2. PICK w : w = HandleEvent(c, e)
      OBVIOUS
    <2> QED
      BY <1>2, <2>1, <2>2
  <1>5. CASE ResolveName(c) \/ RouteToDLQ(c) \/ IndexDoc(c) \/ DeleteDoc(c)
    <2>1. SeGoto(c, "check") \/ SeGoto(c, "commit")
      BY <1>5 DEF ResolveName, RouteToDLQ, IndexDoc, DeleteDoc
    <2> QED
      BY <1>3, <2>1 DEF SuPlaces
  <1>6. CASE MergeMedia(c)
    <2>1. ASSUME NEW b, seWork' = [seWork EXCEPT ![c].pc = "check", ![c].doc.file = b] PROVE SuInv'
      <3>1. PICK d, w : d = [v.doc EXCEPT !.file = b] /\ w = [v EXCEPT !.pc = "check", !.doc = d]
        OBVIOUS
      <3>2. seWork' = [seWork EXCEPT ![c] = w]
        BY <2>1, <3>1, <1>v
      <3>3. w.pc = "check"
        BY <1>0, <3>1
      <3> QED
        BY <1>1, <3>2, <3>3 DEF SuPlaces
    <2>2. SeGoto(c, "check") => SuInv'
      BY <1>3 DEF SuPlaces
    <2> QED
      BY <1>6, <2>1, <2>2 DEF MergeMedia
  <1>7. CASE CheckVersion(c)
    <2>1. ASSUME NEW n, seWork' = [seWork EXCEPT ![c].pc = "write", ![c].seen = n] PROVE SuInv'
      <3>1. PICK w : w = [v EXCEPT !.pc = "write", !.seen = n]
        OBVIOUS
      <3>2. seWork' = [seWork EXCEPT ![c] = w]
        BY <2>1, <3>1, <1>v
      <3>3. w.pc = "write"
        BY <1>0, <3>1
      <3> QED
        BY <1>1, <3>2, <3>3 DEF SuPlaces
    <2>2. (SeGoto(c, "commit") \/ SeGoto(c, "write")) => SuInv'
      BY <1>3 DEF SuPlaces
    <2> QED
      BY <1>7, <2>1, <2>2 DEF CheckVersion
  <1>8. CASE CommitMessages(c)
    <2>1. SeIdle.pc \in SuPlaces
      BY DEF SeIdle, SuPlaces
    <2> QED
      BY <1>8, <1>1, <2>1 DEF CommitMessages
  <1>9. CASE SeFailed(c)
    <2>1. v.ev \in SgPub
      BY <1>9, <1>v, <1>0 DEF SeFailed
    <2>2. PICK n : n = v.tries + 1
      OBVIOUS
    <2>3. PICK h, d : h = [HandleEvent(c, v.ev) EXCEPT !.tries = n] /\ d = [v EXCEPT !.pc = "dlq"]
      OBVIOUS
    <2>4. d.pc \in SuPlaces
      BY <1>0, <2>3 DEF SuPlaces
    <2>5. seWork' = [seWork EXCEPT ![c] = h] \/ seWork' = [seWork EXCEPT ![c] = d]
      BY <1>9, <1>v, <2>2, <2>3 DEF SeFailed
    <2> QED
      BY <1>1, <1>2, <2>1, <2>3, <2>4, <2>5
  <1> QED
    BY <1>4, <1>5, <1>6, <1>7, <1>8, <1>9 DEF SeConsume

LEMMA SuInvStep == SwInv /\ SuInv /\ [SeNext]_seVars => SuInv'
  <1> SUFFICES ASSUME SwInv, SuInv, [SeNext]_seVars PROVE SuInv'
    OBVIOUS
  <1>1. CASE SeRestart /\ UNCHANGED <<seView, seCache, seAsk>>
    <2>1. \A c \in SeConsumer : seWork'[c].pc = "idle"
      BY <1>1 DEF SeRestart, SeIdle
    <2> QED
      BY <1>1, <2>1 DEF SuInv, SuPlaces
  <1>2. ASSUME UNCHANGED <<seWork, seAsk>> PROVE SuInv'
    BY <1>2 DEF SuInv
  <1>3. ASSUME NEW u \in SeClient, NEW a, seAsk' = [seAsk EXCEPT ![u] = a], a.pc \in {"search", "cache", "shown"},
               UNCHANGED seWork
        PROVE  SuInv'
    <2>1. \A v \in SeClient : seAsk'[v] = IF v = u THEN a ELSE seAsk[v]
      BY <1>3 DEF SwInv, SwPages
    <2> QED
      BY <1>3, <2>1 DEF SuInv
  <1>4. ASSUME NEW u \in SeClient, NEW pc, NEW p, seAsk' = [seAsk EXCEPT ![u] = [pc |-> pc, page |-> p]],
               pc \in {"search", "cache", "shown"}, UNCHANGED seWork
        PROVE  SuInv'
    <2>1. PICK a : a = [pc |-> pc, page |-> p]
      OBVIOUS
    <2>2. a.pc = pc /\ seAsk' = [seAsk EXCEPT ![u] = a]
      BY <1>4, <2>1
    <2> QED
      BY <1>3, <1>4, <2>2
  <1>5. ASSUME NEW u \in SeClient, NEW q, ResolveSearch(u, q), UNCHANGED seWork PROVE SuInv'
    <2>1. ASSUME NEW p, seAsk' = [seAsk EXCEPT ![u] = [pc |-> "shown", page |-> p]] PROVE SuInv'
      BY <1>4, <1>5, <2>1
    <2>2. ASSUME NEW p, seAsk' = [seAsk EXCEPT ![u] = [pc |-> "search", page |-> p]] PROVE SuInv'
      BY <1>4, <1>5, <2>2
    <2> QED
      BY <1>5, <2>1, <2>2 DEF ResolveSearch
  <1>6. ASSUME NEW u \in SeClient, SearchPage(u), UNCHANGED seWork PROVE SuInv'
    <2>1. PICK q, p, pc : /\ q = seAsk[u].page.q /\ p = ExecuteSearch(q)
                          /\ pc = IF Hits(q) # {} /\ ~q.geo THEN "cache" ELSE "shown"
      OBVIOUS
    <2>2. seAsk' = [seAsk EXCEPT ![u] = [pc |-> pc, page |-> p]]
      BY <1>6, <2>1 DEF SearchPage
    <2>3. pc \in {"cache", "shown"}
      BY <2>1
    <2> QED
      BY <1>4, <1>6, <2>2, <2>3
  <1>7. ASSUME NEW u \in SeClient, CachedSearch(u), UNCHANGED seWork PROVE SuInv'
    <2>1. PICK a, b : a = seAsk[u] /\ b = [a EXCEPT !.pc = "shown"]
      OBVIOUS
    <2>2. a = [pc |-> a.pc, page |-> a.page]
      BY <2>1 DEF SwInv, SwPages, SwAskOK
    <2>3. b.pc = "shown"
      BY <2>1, <2>2
    <2>4. seAsk' = [seAsk EXCEPT ![u] = b]
      BY <1>7, <2>1 DEF CachedSearch
    <2> QED
      BY <1>3, <1>7, <2>3, <2>4
  <1>8. CASE SeSearch /\ UNCHANGED seWork
    BY <1>2, <1>5, <1>6, <1>7, <1>8 DEF SeSearch, ExpirePage
  <1>9. CASE UNCHANGED seVars \/ SeRefresh
    BY <1>2, <1>9 DEF seVars, SeRefresh
  <1> QED
    BY SuConsume, <1>1, <1>8, <1>9 DEF SeNext

\* The consumers, documents and answers of search-service are well formed: every document has a
\* version, and what an answer is steady about are documents.
THEOREM SearchIsWellFormed == SeSpec => []SeTypeOK
  <1> QED
    BY SwInvInit, SwInvStep, SuInvInit, SuInvStep, SuInvImplies, PTL DEF SeSpec

-----------------------------------------------------------------------------
(* The type invariant of GoPackages, next to GgInv. *)

GuGoType == [at : {"start", "sleep", "take", "open", "done", "failed"}, tries : 0..GpAttempts,
             conn : Nat, again : BOOLEAN]

\* A goroutine has slept at most as often as it may try; sockets have been dialed before.
GuInv ==
    /\ gpPart # "limit" =>
          /\ gpCall \in [GpCaller -> [at : {"idle", "read", "refused"}, now : Nat, n : Nat]]
          /\ gpSet \in [{GpKeyOf(c) : c \in GpCaller} -> [members : SUBSET GgEntry, expires : Nat]]
    /\ gpGo \in [GpRoutine -> GuGoType]
    /\ \A r \in GpRoutine : gpGo[r].at = "start" => gpGo[r].tries = 0
    /\ gpLink.conn < gpLink.next /\ \A k \in gpLink.open : k < gpLink.next

LEMMA GuInvInit == GpInit => GuInv
  <1> SUFFICES ASSUME GpInit PROVE GuInv
    OBVIOUS
  <1>1. gpCall \in [GpCaller -> [at : {"idle", "read", "refused"}, now : Nat, n : Nat]]
    BY DEF GpInit, GpAway
  <1>2. gpSet \in [{GpKeyOf(c) : c \in GpCaller} -> [members : SUBSET GgEntry, expires : Nat]]
    BY DEF GpInit
  <1>3. gpGo \in [GpRoutine -> GuGoType] /\ \A r \in GpRoutine : gpGo[r].tries = 0
    BY GpAssumption DEF GpInit, GuGoType
  <1>4. gpLink.conn = 0 /\ gpLink.next = 1 /\ gpLink.open = {}
    BY DEF GpInit
  <1> QED
    BY <1>1, <1>2, <1>3, <1>4 DEF GuInv

LEMMA GuInvImplies == GgInv /\ GuInv => GpTypeOK
  <1> SUFFICES ASSUME GgInv, GuInv PROVE GpTypeOK
    OBVIOUS
  <1>1. gpFlake.timestamp \in Nat /\ gpFlake.sequence \in 0..GpSequences - 1
    BY DEF GgInv, GgIds, GgFlakes
  <1>2. /\ gpCall \in [GpCaller -> [at : {"idle", "read", "refused"}, now : Nat, n : Nat]]
        /\ gpSet \in [{GpKeyOf(c) : c \in GpCaller} -> [members : SUBSET GgEntry, expires : Nat]]
    BY DEF GgInv, GgLimit, GgLimitTypes, GuInv
  <1>3. \A k \in DOMAIN gpSet : \A e \in gpSet[k].members : e.score \in Nat
    BY <1>2 DEF GgEntry
  <1>4. \A r \in GpRoutine : /\ gpGo[r].at \in {"start", "sleep", "take", "open", "done", "failed"}
                             /\ gpGo[r].tries \in 0..GpAttempts
    BY DEF GuInv, GuGoType
  <1>c. PICK c, n : c = gpLink.conn /\ n = gpLink.next
    OBVIOUS
  <1>5. c \in Nat /\ n \in Nat /\ c < n /\ gpLink.open \subseteq Nat \ {0} /\ \A k \in gpLink.open : k < n
    BY <1>c DEF GgInv, GgConn, GuInv
  <1>6. c \in 0..n - 1 /\ gpLink.open \subseteq 1..n - 1
    BY <1>5
  <1> QED
    BY <1>1, <1>2, <1>3, <1>4, <1>6, <1>c DEF GpTypeOK

\* What a step of another part leaves alone.
LEMMA GuKept ==
    ASSUME GuInv, UNCHANGED <<gpPart, gpGo, gpLink>>, UNCHANGED <<gpCall, gpSet>> \/ gpPart = "limit"
    PROVE  GuInv'
  BY DEF GuInv, GuGoType, GpKeyOf, GpKey, GgEntry

\* The caller is in one place of Channel and has tried so often.
LEMMA GuGo ==
    ASSUME GuInv, NEW r \in GpRoutine, NEW g \in GuGoType, gpGo' = [gpGo EXCEPT ![r] = g],
           g.at = "start" => g.tries = 0
    PROVE  gpGo' \in [GpRoutine -> GuGoType] /\ \A x \in GpRoutine : gpGo'[x].at = "start" => gpGo'[x].tries = 0
  BY DEF GuInv

LEMMA GuGoes ==
    ASSUME GuInv, NEW r \in GpRoutine, NEW at \in {"sleep", "take", "open", "done", "failed"}, GpGoes(r, at)
    PROVE  gpGo' \in [GpRoutine -> GuGoType] /\ \A x \in GpRoutine : gpGo'[x].at = "start" => gpGo'[x].tries = 0
  <1>g. PICK g : g = [gpGo[r] EXCEPT !.at = at]
    OBVIOUS
  <1>1. g \in GuGoType /\ g.at = at
    BY <1>g DEF GuInv, GuGoType
  <1>2. gpGo' = [gpGo EXCEPT ![r] = g]
    BY <1>g DEF GpGoes
  <1> QED
    BY <1>1, <1>2, GuGo

\* The goroutines and the link, when they move.
GuConn == /\ gpGo \in [GpRoutine -> GuGoType] /\ \A r \in GpRoutine : gpGo[r].at = "start" => gpGo[r].tries = 0
          /\ gpLink.conn < gpLink.next /\ \A k \in gpLink.open : k < gpLink.next

LEMMA GuAttempt ==
    ASSUME GgConn, GuInv, NEW r \in GpRoutine, GpAttempt(r), gpGo[r].tries < GpAttempts
    PROVE  GuConn'
  <1>1. CASE gpLink' = GpDialed /\ GpGoes(r, "take")
    <2>n. PICK n, o, p : n = gpLink.next /\ o = gpLink.open \cup {n} /\ p = n + 1
      OBVIOUS
    <2>1. gpLink' = [gpLink EXCEPT !.conn = n, !.open = o, !.next = p]
      BY <1>1, <2>n, Zenon DEF GpDialed
    <2>2. gpLink'.conn = n /\ gpLink'.open = o /\ gpLink'.next = p
      BY <2>1 DEF GgConn
    <2>3. n \in Nat /\ gpLink.open \subseteq Nat /\ \A k \in gpLink.open : k < n
      BY <2>n DEF GgConn, GuInv
    <2>4. n < p /\ \A k \in o : k < p
      BY <2>3, <2>n
    <2> QED
      BY <1>1, <2>2, <2>4, GuGoes DEF GuConn
  <1>2. CASE gpGo' = [gpGo EXCEPT ![r].at = "sleep", ![r].tries = @ + 1] /\ UNCHANGED gpLink
    <2>t. PICK t, g : t = gpGo[r].tries + 1 /\ g = [gpGo[r] EXCEPT !.at = "sleep", !.tries = t]
      OBVIOUS
    <2>1. t \in 0..GpAttempts
      BY <2>t, GpAssumption DEF GuInv, GuGoType
    <2>2. g \in GuGoType /\ g.at = "sleep"
      BY <2>t, <2>1 DEF GuInv, GuGoType
    <2>3. gpGo' = [gpGo EXCEPT ![r] = g]
      BY <1>2, <2>t DEF GuInv
    <2> QED
      BY <1>2, <2>2, <2>3, GuGo DEF GuConn, GuInv
  <1> QED
    BY <1>1, <1>2 DEF GpAttempt

LEMMA GuChannel ==
    ASSUME GgConn, GuInv, NEW r \in GpRoutine, Channel(r)
    PROVE  GuConn'
  <1>1. ASSUME NEW at \in {"sleep", "take", "open", "done", "failed"}, GpGoes(r, at),
               UNCHANGED gpLink \/ gpLink' = [gpLink EXCEPT !.panic = TRUE]
        PROVE  GuConn'
    <2>1. gpLink'.conn = gpLink.conn /\ gpLink'.open = gpLink.open /\ gpLink'.next = gpLink.next
      BY <1>1 DEF GgConn
    <2> QED
      BY <1>1, <2>1, GuGoes DEF GuConn, GuInv
  <1>2. CASE /\ gpLink' = [gpLink EXCEPT !.conn = 0, !.breaks = IF gpGo[r].conn \in gpLink.open THEN @ - 1 ELSE @]
             /\ gpGo' = [gpGo EXCEPT ![r] = [at |-> "start", tries |-> 0, conn |-> 0, again |-> TRUE]]
    <2>g. PICK g : g = [at |-> "start", tries |-> 0, conn |-> 0, again |-> TRUE]
      OBVIOUS
    <2>1. g \in GuGoType /\ g.tries = 0
      BY <2>g, GpAssumption DEF GuGoType
    <2>b. PICK b : b = IF gpGo[r].conn \in gpLink.open THEN gpLink.breaks - 1 ELSE gpLink.breaks
      OBVIOUS
    <2>2. gpLink' = [gpLink EXCEPT !.conn = 0, !.breaks = b]
      BY <1>2, <2>b
    <2>3. gpLink'.conn = 0 /\ gpLink'.open = gpLink.open /\ gpLink'.next = gpLink.next
      BY <2>2 DEF GgConn
    <2>4. gpLink.next \in Nat \ {0}
      BY DEF GgConn
    <2>5. 0 < gpLink.next
      BY <2>4
    <2>6. gpGo' = [gpGo EXCEPT ![r] = g]
      BY <1>2, <2>g
    <2>7. \A k \in gpLink.open : k < gpLink.next
      BY DEF GuInv
    <2> QED
      BY <2>1, <2>3, <2>5, <2>6, <2>7, GuGo DEF GuConn
  <1> QED
    BY <1>1, <1>2 DEF Channel

LEMMA GuConnStep ==
    ASSUME GgConn, GuInv, NEW r \in GpRoutine,
           ensureConnLocked(r) \/ ensureConn(r) \/ ChannelTake(r) \/ Channel(r)
    PROVE  GuConn'
  <1>1. ASSUME NEW at \in {"sleep", "take", "open", "done", "failed"}, GpGoes(r, at), UNCHANGED gpLink
        PROVE  GuConn'
    BY <1>1, GuGoes DEF GuConn, GuInv
  <1>2. CASE ensureConnLocked(r)
    <2>1. gpGo[r].tries < GpAttempts
      BY <1>2, GpAssumption DEF ensureConnLocked, GuInv
    <2> QED
      BY <1>1, <1>2, <2>1, GuAttempt DEF ensureConnLocked
  <1>3. CASE ensureConn(r)
    <2>1. gpGo[r].tries \in Int /\ GpAttempts \in Int
      BY GpAssumption DEF GuInv, GuGoType
    <2>2. gpGo[r].tries >= GpAttempts \/ gpGo[r].tries < GpAttempts
      BY <2>1
    <2>3. (GpGoes(r, "failed") /\ UNCHANGED gpLink) \/ (gpGo[r].tries < GpAttempts /\ GpAttempt(r))
      BY <1>3, <2>2 DEF ensureConn, GpWake
    <2> QED
      BY <1>1, <2>3, GuAttempt
  <1>4. CASE ChannelTake(r)
    <2>g. PICK g : g = [gpGo[r] EXCEPT !.conn = gpLink.conn, !.at = "open"]
      OBVIOUS
    <2>1. g \in GuGoType /\ g.at = "open"
      BY <2>g, ZenonT(40) DEF GuInv, GuGoType, GgConn
    <2>2. gpGo' = [gpGo EXCEPT ![r] = g] /\ UNCHANGED gpLink
      BY <1>4, <2>g DEF ChannelTake, GuInv
    <2> QED
      BY <2>1, <2>2, GuGo DEF GuConn, GuInv
  <1> QED
    BY <1>2, <1>3, <1>4, GuChannel

LEMMA GuConnEnds ==
    ASSUME GgConn, GuInv, Close \/ (\E k \in gpLink.open : GpBreak(k))
    PROVE  GuConn'
  <1>1. \E o, c, b : /\ o \subseteq gpLink.open
                     /\ gpLink' = [gpLink EXCEPT !.closed = c, !.open = o, !.breaks = b]
    <2>1. CASE Close
      <3>o. PICK o, b : o = gpLink.open \ {gpLink.conn} /\ b = gpLink.breaks
        OBVIOUS
      <3>1. gpLink' = [gpLink EXCEPT !.closed = TRUE, !.open = o]
        BY <2>1, <3>o, Zenon DEF Close
      <3>2. gpLink' = [gpLink EXCEPT !.closed = TRUE, !.open = o, !.breaks = b]
        BY <3>1, <3>o DEF GgConn
      <3> QED
        BY <3>o, <3>2
    <2>2. ASSUME NEW k, GpBreak(k)
          PROVE  \E o, c, b : /\ o \subseteq gpLink.open
                              /\ gpLink' = [gpLink EXCEPT !.closed = c, !.open = o, !.breaks = b]
      <3>o. PICK o, b, c : o = gpLink.open \ {k} /\ b = gpLink.breaks - 1 /\ c = gpLink.closed
        OBVIOUS
      <3>1. gpLink' = [gpLink EXCEPT !.open = o, !.breaks = b]
        BY <2>2, <3>o, Zenon DEF GpBreak
      <3>2. gpLink' = [gpLink EXCEPT !.closed = c, !.open = o, !.breaks = b]
        BY <3>1, <3>o DEF GgConn
      <3> QED
        BY <3>o, <3>2
    <2> QED
      BY <2>1, <2>2
  <1>2. gpLink'.conn = gpLink.conn /\ gpLink'.open \subseteq gpLink.open /\ gpLink'.next = gpLink.next
    BY <1>1 DEF GgConn
  <1>3. UNCHANGED gpGo
    BY DEF Close, GpBreak
  <1> QED
    BY <1>2, <1>3 DEF GuInv, GuConn

LEMMA GuInvStep == GgInv /\ GuInv /\ [GpNext]_gpVars => GuInv'
  <1> SUFFICES ASSUME GgInv, GuInv, [GpNext]_gpVars PROVE GuInv'
    OBVIOUS
  <1>1. CASE GpTick \/ GpStepBack \/ NextID
    BY <1>1, GuKept DEF GpTick, GpStepBack, NextID, gpLimitVars, gpConnVars
  <1>2. ASSUME NEW c \in GpCaller, LimitStart(c) \/ Limit(c) \/ LimitZRem(c) PROVE GuInv'
    <2>1. UNCHANGED <<gpPart, gpGo, gpLink>> /\ gpPart = "limit"
      BY <1>2 DEF LimitStart, Limit, LimitZRem, gpConnVars
    <2> QED
      BY <2>1, GuKept
  <1>3. ASSUME UNCHANGED <<gpPart, gpCall, gpSet>>, GuConn' PROVE GuInv'
    BY <1>3 DEF GuInv, GuConn, GuGoType, GpKeyOf, GpKey, GgEntry
  <1>4. ASSUME NEW r \in GpRoutine, ensureConnLocked(r) \/ ensureConn(r) \/ ChannelTake(r) \/ Channel(r)
        PROVE  GuInv'
    <2>1. UNCHANGED <<gpPart, gpCall, gpSet>>
      BY <1>4 DEF ensureConnLocked, ensureConn, ChannelTake, Channel, GpConnStep, gpLimitVars
    <2> QED
      BY <1>3, <1>4, <2>1, GuConnStep DEF GgInv
  <1>5. CASE Close \/ (\E k \in gpLink.open : GpBreak(k))
    <2>1. UNCHANGED <<gpPart, gpCall, gpSet>>
      BY <1>5 DEF Close, GpBreak, GpConnStep, gpLimitVars
    <2> QED
      BY <1>3, <1>5, <2>1, GuConnEnds DEF GgInv
  <1>6. ASSUME NEW t \in GpTokens, AuthenticateCall(t) PROVE GuInv'
    BY <1>6, GuKept DEF AuthenticateCall, gpLimitVars, gpConnVars
  <1>g. ASSUME NEW md, NEW roles, NEW required, GrpcCall(md, roles, required) PROVE GuInv'
    BY <1>g, GuKept DEF GrpcCall, gpLimitVars, gpConnVars
  <1>7. ASSUME NEW m \in GpMessages, HandleMessageGuarded(m) PROVE GuInv'
    BY <1>7, GuKept DEF HandleMessageGuarded, gpLimitVars, gpConnVars
  <1>8. CASE UNCHANGED gpVars
    BY <1>8, GuKept DEF gpVars
  <1> QED
    BY <1>1, <1>2, <1>4, <1>5, <1>6, <1>g, <1>7, <1>8 DEF GpNext

\* The generator, the callers, the goroutines and the link of the Go packages are well formed:
\* no goroutine tries more often than MaxAttempts, and only sockets that were dialed are in use.
THEOREM PackagesAreWellFormed == GpSpec => []GpTypeOK
  <1> QED
    BY GgInvInit, GgInvStep, GuInvInit, GuInvStep, GuInvImplies, PTL DEF GpSpec

=============================================================================
