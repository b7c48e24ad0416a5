---------------------------- MODULE PaymentProofs ----------------------------
(***************************************************************************)
(* Proofs about Payment, for any number of requests and notices and for    *)
(* any amounts and faults: the row is well formed, its amounts make sense  *)
(* together, and its status moves along AllowedTransitions but for the     *)
(* webhook.                                                                *)
(*                                                                         *)
(* The argument is the one of optimistic locking.  Every write of the row  *)
(* raises its version, so a copy with the version of the row has its       *)
(* status too (Read), and a copy that is one version ahead was made from   *)
(* the row as it is (Write).  All copies, not only the row, have amounts   *)
(* that make sense together (Sound).                                       *)
(*                                                                         *)
(* What has been paid back is a sum over the refunds under way (Money): a  *)
(* refund past its reservation holds its amount of the row's pending       *)
(* amount until it updates the row, and until Stripe has answered it the   *)
(* amount is still due.  A step of one request moves one term of each sum, *)
(* and a copy that will replace the row changes the row's amounts by that  *)
(* request's own.                                                          *)
(***************************************************************************)
EXTENDS Payment, DataLemmas, TLAPS

\* The amounts of a row or copy.
Sound(p) ==
    /\ p.refd + p.pend <= p.cap
    /\ p.cap <= p.auth
    /\ p.auth <= Amount
    /\ p.status \in {"NONE", "PENDING", "AUTHORIZED"} => p.cap = 0

\* A change of status that requests may make.
Legal(s, t) ==
    \/ t = s
    \/ s = "PENDING" /\ t \in {"AUTHORIZED", "CANCELLED", "FAILED"}
    \/ s = "AUTHORIZED" /\ t \in {"CAPTURED", "CANCELLED", "FAILED"}
    \/ s = "CAPTURED" /\ t = "REFUNDED"

\* c was read from the row, w is the row now.
Read(c, w) == c.ver <= w.ver /\ (c.ver = w.ver => c.status = w.status)

\* c is to replace the row, w is the row now.
Write(c, w) == c.ver > 0 /\ c.ver <= w.ver + 1 /\ (c.ver = w.ver + 1 => Legal(w.status, c.status))

\* What the request of a job has found when it read the row.
Started(j) ==
    CASE j.op \in {"create", "authorize"} -> j.copy.status = "PENDING"
      [] j.op = "capture" -> j.copy.status = "AUTHORIZED"
      [] j.op = "cancel" -> j.copy.status \in {"PENDING", "AUTHORIZED"}
      [] j.op = "refund" -> j.copy.status = "CAPTURED" /\ j.amt <= j.copy.pend

\* A job j while the row is w.
JobInv(j, w) ==
    /\ Sound(j.copy)
    /\ j.pc \in {"create", "provider", "record"} => Read(j.copy, w) /\ Started(j)
    /\ j.pc = "record" /\ j.ok /\ j.op = "capture" => j.amt > 0 /\ j.amt <= j.copy.auth
    /\ j.pc = "reserve" => Write(j.copy, w) /\ Started(j)
    /\ j.pc = "update" => Write(j.copy, w) /\ j.copy.status # "NONE"
    /\ j.pc \in {"reserve", "create"} => j.op = "refund"
    /\ w.status = "NONE" => j.pc = "new"

\* The webhook at work on a notice while the row is w.
HookInv(h, w) ==
    /\ Sound(h.copy)
    /\ h.pc = "update" => h.copy.ver > 0 /\ h.copy.status = "CAPTURED"
    /\ w.status = "NONE" => h.pc = "new"

\* The inductive invariant, besides TypeOK.
Consistent ==
    /\ Sound(row)
    /\ \A r \in Request : JobInv(job[r], row)
    /\ \A e \in Notice : HookInv(hook[e], row)
    /\ \A e \in Notice : hook[e].pc # "new" => e \in processed
    /\ row.status = "NONE" => ~asked

IInv == TypeOK /\ Consistent

\* How a write changes the row.
Moves(v, w) == w = v \/ (w.ver = v.ver + 1 /\ w.status # "NONE" /\ v.status # "NONE")

-----------------------------------------------------------------------------
(* The operators of domain.Payment *)

\* A row with one field replaced is a row.
LEMMA Fields ==
    ASSUME NEW p \in Row, NEW n \in Nat
    PROVE  /\ \A s \in PaymentStatus : [p EXCEPT !.status = s] \in Row
           /\ [p EXCEPT !.auth = n] \in Row
           /\ [p EXCEPT !.cap = n] \in Row
           /\ [p EXCEPT !.refd = n] \in Row
           /\ [p EXCEPT !.pend = n] \in Row
           /\ [p EXCEPT !.ver = n] \in Row
BY DEF Row, PaymentStatus

\* Authorize: from PENDING.
LEMMA AuthorizeSound ==
    ASSUME NEW p \in Row, Sound(p),
           p.status = "PENDING"
    PROVE  /\ Authorize(p) \in Row /\ Sound(Authorize(p))
           /\ Authorize(p).ver = p.ver + 1 /\ Authorize(p).status = "AUTHORIZED"
<1>0. p.auth \in Nat /\ p.cap \in Nat /\ p.refd \in Nat /\ p.pend \in Nat /\ p.ver + 1 \in Nat
  BY DEF Row
<1>1. Authorize(p) \in Row
  <2>. DEFINE q1 == [p EXCEPT !.status = "AUTHORIZED"]
  <2>. DEFINE q2 == [q1 EXCEPT !.auth = Amount]
  <2>. DEFINE q3 == [q2 EXCEPT !.ver = p.ver + 1]
  <2>1. q1 \in Row
    BY <1>0, Fields DEF PaymentStatus
  <2>2. q2 \in Row
    BY <1>0, <2>1, Fields, PaymentAssumption DEF PaymentStatus, PaymentAssumption
  <2>3. q3 \in Row
    BY <1>0, <2>2, Fields DEF PaymentStatus
  <2>. QED
    BY <2>3 DEF Authorize
<1>2. /\ Authorize(p).status = "AUTHORIZED"
      /\ Authorize(p).auth = Amount
      /\ Authorize(p).cap = p.cap
      /\ Authorize(p).refd = p.refd
      /\ Authorize(p).pend = p.pend
      /\ Authorize(p).ver = p.ver + 1
  BY DEF Authorize, Row
<1>. QED
  BY <1>0, <1>1, <1>2, PaymentAssumption DEF PaymentAssumption, Sound

\* Capture of no more than was authorized.
LEMMA CaptureSound ==
    ASSUME NEW p \in Row, Sound(p),
           p.status = "AUTHORIZED", NEW n \in Nat, n <= p.auth
    PROVE  /\ Capture(p, n) \in Row /\ Sound(Capture(p, n))
           /\ Capture(p, n).ver = p.ver + 1 /\ Capture(p, n).status = "CAPTURED"
<1>0. p.auth \in Nat /\ p.cap \in Nat /\ p.refd \in Nat /\ p.pend \in Nat /\ p.ver + 1 \in Nat
  BY DEF Row
<1>1. Capture(p, n) \in Row
  <2>. DEFINE q1 == [p EXCEPT !.status = "CAPTURED"]
  <2>. DEFINE q2 == [q1 EXCEPT !.cap = n]
  <2>. DEFINE q3 == [q2 EXCEPT !.ver = p.ver + 1]
  <2>1. q1 \in Row
    BY <1>0, Fields DEF PaymentStatus
  <2>2. q2 \in Row
    BY <1>0, <2>1, Fields DEF PaymentStatus
  <2>3. q3 \in Row
    BY <1>0, <2>2, Fields DEF PaymentStatus
  <2>. QED
    BY <2>3 DEF Capture
<1>2. /\ Capture(p, n).status = "CAPTURED"
      /\ Capture(p, n).auth = p.auth
      /\ Capture(p, n).cap = n
      /\ Capture(p, n).refd = p.refd
      /\ Capture(p, n).pend = p.pend
      /\ Capture(p, n).ver = p.ver + 1
  BY DEF Capture, Row
<1>. QED
  BY <1>0, <1>1, <1>2, PaymentAssumption DEF PaymentAssumption, Sound

\* Cancel.
LEMMA CancelSound ==
    ASSUME NEW p \in Row, Sound(p)
    PROVE  /\ Cancel(p) \in Row /\ Sound(Cancel(p))
           /\ Cancel(p).ver = p.ver + 1 /\ Cancel(p).status = "CANCELLED"
<1>0. p.auth \in Nat /\ p.cap \in Nat /\ p.refd \in Nat /\ p.pend \in Nat /\ p.ver + 1 \in Nat
  BY DEF Row
<1>1. Cancel(p) \in Row
  <2>. DEFINE q1 == [p EXCEPT !.status = "CANCELLED"]
  <2>. DEFINE q2 == [q1 EXCEPT !.ver = p.ver + 1]
  <2>1. q1 \in Row
    BY <1>0, Fields DEF PaymentStatus
  <2>2. q2 \in Row
    BY <1>0, <2>1, Fields DEF PaymentStatus
  <2>. QED
    BY <2>2 DEF Cancel
<1>2. /\ Cancel(p).status = "CANCELLED"
      /\ Cancel(p).auth = p.auth
      /\ Cancel(p).cap = p.cap
      /\ Cancel(p).refd = p.refd
      /\ Cancel(p).pend = p.pend
      /\ Cancel(p).ver = p.ver + 1
  BY DEF Cancel, Row
<1>. QED
  BY <1>0, <1>1, <1>2, PaymentAssumption DEF PaymentAssumption, Sound

\* Fail.
LEMMA FailSound ==
    ASSUME NEW p \in Row, Sound(p)
    PROVE  /\ Fail(p) \in Row /\ Sound(Fail(p))
           /\ Fail(p).ver = p.ver + 1 /\ Fail(p).status = "FAILED"
<1>0. p.auth \in Nat /\ p.cap \in Nat /\ p.refd \in Nat /\ p.pend \in Nat /\ p.ver + 1 \in Nat
  BY DEF Row
<1>1. Fail(p) \in Row
  <2>. DEFINE q1 == [p EXCEPT !.status = "FAILED"]
  <2>. DEFINE q2 == [q1 EXCEPT !.ver = p.ver + 1]
  <2>1. q1 \in Row
    BY <1>0, Fields DEF PaymentStatus
  <2>2. q2 \in Row
    BY <1>0, <2>1, Fields DEF PaymentStatus
  <2>. QED
    BY <2>2 DEF Fail
<1>2. /\ Fail(p).status = "FAILED"
      /\ Fail(p).auth = p.auth
      /\ Fail(p).cap = p.cap
      /\ Fail(p).refd = p.refd
      /\ Fail(p).pend = p.pend
      /\ Fail(p).ver = p.ver + 1
  BY DEF Fail, Row
<1>. QED
  BY <1>0, <1>1, <1>2, PaymentAssumption DEF PaymentAssumption, Sound

\* ReserveRefund when CanRefund allows it.
LEMMA ReserveSound ==
    ASSUME NEW p \in Row, Sound(p),
           NEW n \in Nat, CanRefund(p, n)
    PROVE  /\ ReserveRefund(p, n) \in Row /\ Sound(ReserveRefund(p, n))
           /\ ReserveRefund(p, n).ver = p.ver + 1 /\ ReserveRefund(p, n).status = "CAPTURED"
           /\ n <= ReserveRefund(p, n).pend
<1>0. p.auth \in Nat /\ p.cap \in Nat /\ p.refd \in Nat /\ p.pend \in Nat /\ p.ver + 1 \in Nat /\ p.pend + n \in Nat
  BY DEF Row
<1>1. ReserveRefund(p, n) \in Row
  <2>. DEFINE q1 == [p EXCEPT !.pend = p.pend + n]
  <2>. DEFINE q2 == [q1 EXCEPT !.ver = p.ver + 1]
  <2>1. q1 \in Row
    BY <1>0, Fields DEF PaymentStatus
  <2>2. q2 \in Row
    BY <1>0, <2>1, Fields DEF PaymentStatus
  <2>. QED
    BY <2>2 DEF ReserveRefund
<1>2. /\ ReserveRefund(p, n).status = p.status
      /\ ReserveRefund(p, n).auth = p.auth
      /\ ReserveRefund(p, n).cap = p.cap
      /\ ReserveRefund(p, n).refd = p.refd
      /\ ReserveRefund(p, n).pend = p.pend + n
      /\ ReserveRefund(p, n).ver = p.ver + 1
  BY DEF ReserveRefund, Row
<1>. QED
  BY <1>0, <1>1, <1>2, PaymentAssumption DEF PaymentAssumption, Sound, CanRefund

\* CommitRefund of what is reserved.
LEMMA CommitSound ==
    ASSUME NEW p \in Row, Sound(p),
           NEW n \in Nat, n <= p.pend, p.status = "CAPTURED"
    PROVE  /\ CommitRefund(p, n) \in Row /\ Sound(CommitRefund(p, n))
           /\ CommitRefund(p, n).ver = p.ver + 1 /\ CommitRefund(p, n).status \in {"CAPTURED", "REFUNDED"}
<1>0. p.auth \in Nat /\ p.cap \in Nat /\ p.refd \in Nat /\ p.pend \in Nat /\ p.ver + 1 \in Nat
      /\ p.pend - n \in Nat /\ p.refd + n \in Nat
  BY DEF Row
<1>1. CommitRefund(p, n) \in Row
  <2>. DEFINE q1 == [p EXCEPT !.pend = p.pend - n]
  <2>. DEFINE q2 == [q1 EXCEPT !.refd = p.refd + n]
  <2>. DEFINE q3 == [q2 EXCEPT !.ver = p.ver + 1]
  <2>. DEFINE q4 == [q3 EXCEPT !.status = (IF p.refd + n >= p.cap THEN "REFUNDED" ELSE p.status)]
  <2>1. q1 \in Row
    BY <1>0, Fields DEF PaymentStatus
  <2>2. q2 \in Row
    BY <1>0, <2>1, Fields DEF PaymentStatus
  <2>3. q3 \in Row
    BY <1>0, <2>2, Fields DEF PaymentStatus
  <2>4. q4 \in Row
    BY <1>0, <2>3, Fields DEF PaymentStatus, Row
  <2>. QED
    BY <2>4 DEF CommitRefund
<1>2. /\ CommitRefund(p, n).status = (IF p.refd + n >= p.cap THEN "REFUNDED" ELSE p.status)
      /\ CommitRefund(p, n).auth = p.auth
      /\ CommitRefund(p, n).cap = p.cap
      /\ CommitRefund(p, n).refd = p.refd + n
      /\ CommitRefund(p, n).pend = p.pend - n
      /\ CommitRefund(p, n).ver = p.ver + 1
  BY DEF CommitRefund, Row
<1>. QED
  BY <1>0, <1>1, <1>2, PaymentAssumption DEF PaymentAssumption, Sound

\* ReleaseRefundReservation of what is reserved.
LEMMA ReleaseSound ==
    ASSUME NEW p \in Row, Sound(p),
           NEW n \in Nat, n <= p.pend, p.status = "CAPTURED"
    PROVE  /\ ReleaseRefundReservation(p, n) \in Row /\ Sound(ReleaseRefundReservation(p, n))
           /\ ReleaseRefundReservation(p, n).ver = p.ver + 1 /\ ReleaseRefundReservation(p, n).status = "CAPTURED"
<1>0. p.auth \in Nat /\ p.cap \in Nat /\ p.refd \in Nat /\ p.pend \in Nat /\ p.ver + 1 \in Nat /\ p.pend - n \in Nat
  BY DEF Row
<1>1. ReleaseRefundReservation(p, n) \in Row
  <2>. DEFINE q1 == [p EXCEPT !.pend = p.pend - n]
  <2>. DEFINE q2 == [q1 EXCEPT !.ver = p.ver + 1]
  <2>1. q1 \in Row
    BY <1>0, Fields DEF PaymentStatus
  <2>2. q2 \in Row
    BY <1>0, <2>1, Fields DEF PaymentStatus
  <2>. QED
    BY <2>2 DEF ReleaseRefundReservation
<1>2. /\ ReleaseRefundReservation(p, n).status = p.status
      /\ ReleaseRefundReservation(p, n).auth = p.auth
      /\ ReleaseRefundReservation(p, n).cap = p.cap
      /\ ReleaseRefundReservation(p, n).refd = p.refd
      /\ ReleaseRefundReservation(p, n).pend = p.pend - n
      /\ ReleaseRefundReservation(p, n).ver = p.ver + 1
  BY DEF ReleaseRefundReservation, Row
<1>. QED
  BY <1>0, <1>1, <1>2, PaymentAssumption DEF PaymentAssumption, Sound

\* completePayment, from any status.
LEMMA CompleteSound ==
    ASSUME NEW p \in Row, Sound(p)
    PROVE  /\ Complete(p) \in Row /\ Sound(Complete(p))
           /\ Complete(p).ver = p.ver + 1 /\ Complete(p).status = "CAPTURED"
<1>0. p.auth \in Nat /\ p.cap \in Nat /\ p.refd \in Nat /\ p.pend \in Nat /\ p.ver + 1 \in Nat
  BY DEF Row
<1>1. Complete(p) \in Row
  <2>. DEFINE q1 == [p EXCEPT !.status = "CAPTURED"]
  <2>. DEFINE q2 == [q1 EXCEPT !.cap = Amount]
  <2>. DEFINE q3 == [q2 EXCEPT !.auth = Amount]
  <2>. DEFINE q4 == [q3 EXCEPT !.ver = p.ver + 1]
  <2>1. q1 \in Row
    BY <1>0, Fields DEF PaymentStatus
  <2>2. q2 \in Row
    BY <1>0, <2>1, Fields, PaymentAssumption DEF PaymentStatus, PaymentAssumption
  <2>3. q3 \in Row
    BY <1>0, <2>2, Fields, PaymentAssumption DEF PaymentStatus, PaymentAssumption
  <2>4. q4 \in Row
    BY <1>0, <2>3, Fields DEF PaymentStatus
  <2>. QED
    BY <2>4 DEF Complete
<1>2. /\ Complete(p).status = "CAPTURED"
      /\ Complete(p).auth = Amount
      /\ Complete(p).cap = Amount
      /\ Complete(p).refd = p.refd
      /\ Complete(p).pend = p.pend
      /\ Complete(p).ver = p.ver + 1
  BY DEF Complete, Row
<1>. QED
  BY <1>0, <1>1, <1>2, PaymentAssumption DEF PaymentAssumption, Sound

\* A write of the row by somebody else keeps what is known of a job.
LEMMA JobFrame ==
    ASSUME NEW j \in Job, NEW v \in Row, NEW w \in Row, JobInv(j, v), Moves(v, w)
    PROVE  JobInv(j, w)
BY DEF JobInv, Moves, Read, Write, Job, Row

\* The same for the webhook.
LEMMA HookFrame ==
    ASSUME NEW h, NEW v \in Row, NEW w \in Row, HookInv(h, v), Moves(v, w)
    PROVE  HookInv(h, w)
BY DEF HookInv, Moves

\* Records without a payment.
LEMMA PlainSound ==
    /\ NoRow \in Row /\ Sound(NoRow)
    /\ \A l \in JobPC, o \in Op :
          Plain(l, o) \in Job /\ Plain(l, o).pc = l /\ Plain(l, o).copy = NoRow
    /\ \A l : PlainHook(l).pc = l /\ PlainHook(l).copy = NoRow
<1>1. NoRow \in Row /\ Sound(NoRow)
  BY PaymentAssumption DEF PaymentAssumption, NoRow, Row, Sound
<1>. QED
  BY <1>1 DEF Plain, PlainHook, Job

-----------------------------------------------------------------------------
(* How a step of one handler keeps the invariant *)

\* The part of TypeOK that steps of the handlers have in common.
Rest ==
    /\ attempt \in [Request -> OperationStatus \cup {"none"}]
    /\ refund \in [Request -> RefundStatus \cup {"none"}]
    /\ outbox \subseteq EventType
    /\ asked \in BOOLEAN
    /\ processed \subseteq Notice /\ missed \subseteq processed
    /\ returned \in Nat /\ lost \in Nat /\ faults \in Nat
    /\ unsettled \in BOOLEAN

Hook == [pc : {"new", "find", "update", "announce", "done"}, copy : Row]

\* A request makes a step: it is enough to look at its own job and the row.
LEMMA JobStep ==
    ASSUME IInv, NEW r \in Request, NEW j \in Job, job' = [job EXCEPT ![r] = j],
           row' \in Row, Sound(row'), Moves(row, row'), JobInv(j, row'),
           hook' = hook, processed' = processed, row.status # "NONE", Rest'
    PROVE  IInv'
<1>1. job' \in [Request -> Job] /\ hook' \in [Notice -> Hook]
  BY DEF IInv, TypeOK, Hook
<1>2. row \in Row /\ row'.status # "NONE"
  BY DEF IInv, TypeOK, Moves
<1>3. \A q \in Request : JobInv(job'[q], row')
  <2>1. ASSUME NEW q \in Request, q # r
        PROVE  JobInv(job'[q], row')
    <3>1. job'[q] = job[q] /\ job[q] \in Job /\ JobInv(job[q], row)
      BY <2>1 DEF IInv, TypeOK, Consistent
    <3>. QED
      BY <3>1, <1>2, JobFrame
  <2>2. job'[r] = j
    BY DEF IInv, TypeOK
  <2>. QED
    BY <2>1, <2>2
<1>4. \A e \in Notice : HookInv(hook'[e], row')
  BY <1>2, HookFrame DEF IInv, Consistent
<1>5. \A d \in Notice : hook'[d].pc # "new" => d \in processed'
  BY DEF IInv, TypeOK, Consistent
<1>6. \A q \in Request : (At(q, "reserve") \/ At(q, "update") => job[q].copy.ver > 0)'
  BY <1>3 DEF JobInv, Write, At
<1>. QED
  BY <1>1, <1>2, <1>3, <1>4, <1>5, <1>6 DEF IInv, TypeOK, Consistent, Rest, Hook

\* The webhook makes a step.
LEMMA HookStep ==
    ASSUME IInv, NEW e \in Notice, NEW h \in Hook, hook' = [hook EXCEPT ![e] = h],
           row' \in Row, Sound(row'), Moves(row, row'), HookInv(h, row'),
           job' = job, e \in processed', processed \subseteq processed', row.status # "NONE", Rest'
    PROVE  IInv'
<1>1. job' \in [Request -> Job] /\ hook' \in [Notice -> Hook]
  BY DEF IInv, TypeOK, Hook
<1>2. row \in Row /\ row'.status # "NONE"
  BY DEF IInv, TypeOK, Moves
<1>3. \A q \in Request : JobInv(job'[q], row')
  <2>1. \A q \in Request : job[q] \in Job /\ JobInv(job[q], row)
    BY DEF IInv, TypeOK, Consistent
  <2>. QED
    BY <2>1, <1>2, JobFrame
<1>4. \A d \in Notice : HookInv(hook'[d], row')
  <2>1. ASSUME NEW d \in Notice, d # e
        PROVE  HookInv(hook'[d], row')
    <3>1. hook'[d] = hook[d] /\ HookInv(hook[d], row)
      BY <2>1 DEF IInv, TypeOK, Consistent
    <3>. QED
      BY <3>1, <1>2, HookFrame
  <2>2. hook'[e] = h
    BY DEF IInv, TypeOK
  <2>. QED
    BY <2>1, <2>2
<1>5. \A d \in Notice : hook'[d].pc # "new" => d \in processed'
  BY DEF IInv, TypeOK, Consistent
<1>6. \A q \in Request : (At(q, "reserve") \/ At(q, "update") => job[q].copy.ver > 0)'
  BY <1>3 DEF JobInv, Write, At
<1>. QED
  BY <1>1, <1>2, <1>3, <1>4, <1>5, <1>6 DEF IInv, TypeOK, Consistent, Rest, Hook

\* A handler that is past its use of the payment claims nothing.
LEMMA PlainJob ==
    ASSUME NEW w \in Row, w.status # "NONE",
           NEW l \in {"timeout", "announce", "done"}, NEW o \in Op
    PROVE  Plain(l, o) \in Job /\ JobInv(Plain(l, o), w)
<1>1. Plain(l, o) \in Job /\ Plain(l, o).pc = l /\ Sound(Plain(l, o).copy)
  BY PlainSound DEF JobPC
<1>. QED
  BY <1>1 DEF JobInv

\* A handler at work has found a payment.
LEMMA AtWork ==
    ASSUME IInv, NEW r \in Request, job[r].pc # "new"
    PROVE  /\ row \in Row /\ row.status # "NONE" /\ Sound(row)
           /\ job[r] \in Job /\ JobInv(job[r], row)
BY DEF IInv, TypeOK, Consistent, JobInv

\* The same for a notice.
LEMMA HookAtWork ==
    ASSUME IInv, NEW e \in Notice, hook[e].pc # "new"
    PROVE  /\ row \in Row /\ row.status # "NONE" /\ Sound(row)
           /\ hook[e] \in Hook /\ HookInv(hook[e], row) /\ e \in processed
BY DEF IInv, TypeOK, Consistent, HookInv, Hook

\* The last step of a request, with or without a write of the row.
LEMMA ReturnStep ==
    ASSUME IInv, NEW r \in Request, NEW l \in {"timeout", "announce", "done"}, NEW o \in Op,
           job' = [job EXCEPT ![r] = Plain(l, o)],
           row' \in Row, Sound(row'), Moves(row, row'),
           hook' = hook, processed' = processed, row.status # "NONE", Rest'
    PROVE  IInv'
<1>1. row'.status # "NONE"
  BY DEF Moves
<1>2. Plain(l, o) \in Job /\ JobInv(Plain(l, o), row')
  BY <1>1, PlainJob
<1>. QED
  BY <1>2, JobStep

-----------------------------------------------------------------------------
(* One lemma per action: the action preserves the inductive invariant. *)

\* CreatePayment: nobody has read the row before.
LEMMA CreatePaymentKeeps ==
    ASSUME IInv, NEW r \in Request, CreatePayment(r)
    PROVE  IInv'
<1>. DEFINE j == [pc |-> "provider", op |-> "create", amt |-> 0, ok |-> FALSE, copy |-> row']
<1>1. row' \in Row /\ row'.status = "PENDING" /\ Sound(row')
  <2>1. NoRow \in Row /\ row' = [NoRow EXCEPT !.status = "PENDING"]
    BY PlainSound DEF CreatePayment
  <2>2. row' \in Row
    BY <2>1, Fields DEF PaymentStatus
  <2>. QED
    BY <2>1, <2>2, PaymentAssumption DEF PaymentAssumption, NoRow, Sound
<1>2. j \in Job /\ JobInv(j, row')
  BY <1>1 DEF Job, JobPC, Op, JobInv, Read, Started, Row
<1>3. /\ job' = [job EXCEPT ![r] = j] /\ hook' = hook /\ processed' = processed /\ asked' = asked
      /\ row.status = "NONE"
  BY DEF CreatePayment, hookVars
<1>4. job' \in [Request -> Job]
  BY <1>2, <1>3 DEF IInv, TypeOK
<1>5. \A q \in Request : JobInv(job'[q], row')
  <2>1. ASSUME NEW q \in Request, q # r
        PROVE  JobInv(job'[q], row')
    <3>1. job'[q] = job[q] /\ job[q].pc = "new" /\ Sound(job[q].copy)
      BY <2>1, <1>3 DEF IInv, TypeOK, Consistent, JobInv
    <3>. QED
      BY <3>1, <1>1 DEF JobInv
  <2>2. job'[r] = j
    BY <1>3 DEF IInv, TypeOK
  <2>. QED
    BY <2>1, <2>2, <1>2
<1>6. \A e \in Notice : HookInv(hook'[e], row')
  BY <1>1, <1>3 DEF IInv, Consistent, HookInv
<1>7. Rest'
  BY DEF IInv, TypeOK, Rest, CreatePayment, Publish, Fault, hookVars, moneyVars, EventType,
         OperationStatus
<1>8. \A q \in Request : (At(q, "reserve") \/ At(q, "update") => job[q].copy.ver > 0)'
  BY <1>5 DEF JobInv, Write, At
<1>. QED
  BY <1>1, <1>3, <1>4, <1>5, <1>6, <1>7, <1>8 DEF IInv, TypeOK, Consistent, Rest

\* ReadPayment: the copy is the row.
LEMMA ReadPaymentKeeps ==
    ASSUME IInv, NEW r \in Request, NEW op \in {"authorize", "capture", "cancel"}, NEW n \in Nat,
           ReadPayment(r, op, n)
    PROVE  IInv'
<1>. DEFINE j == [pc |-> "provider", op |-> op, amt |-> n, ok |-> FALSE, copy |-> row]
<1>1. row \in Row /\ Sound(row) /\ row.status # "NONE" /\ row' = row /\ hook' = hook /\ processed' = processed
  BY DEF IInv, TypeOK, Consistent, ReadPayment, hookVars
<1>2. j \in Job
  BY <1>1 DEF Job, JobPC, Op
<1>3. JobInv(j, row)
  <2>1. CanStart(op, row)
    BY DEF ReadPayment
  <2>2. Started(j)
    BY <2>1 DEF Started, CanStart, CanAuthorize, CanCapture, CanCancel
  <2>3. Read(row, row)
    BY <1>1 DEF Read, Row
  <2>. QED
    BY <1>1, <2>2, <2>3 DEF JobInv
<1>4. job' = [job EXCEPT ![r] = j]
  BY DEF ReadPayment
<1>5. Rest'
  BY DEF IInv, TypeOK, Rest, ReadPayment, CreateAttempt, Fault, hookVars, moneyVars,
         OperationStatus
<1>. QED
  BY <1>1, <1>2, <1>3, <1>4, <1>5, JobStep DEF Moves

\* ReadForRefund: the copy is the row with the reservation.
LEMMA ReadForRefundKeeps ==
    ASSUME IInv, NEW r \in Request, NEW n \in Nat, ReadForRefund(r, n)
    PROVE  IInv'
<1>. DEFINE j == [pc |-> "reserve", op |-> "refund", amt |-> n, ok |-> FALSE,
                  copy |-> ReserveRefund(row, n)]
<1>1. row \in Row /\ Sound(row) /\ row.status # "NONE" /\ row' = row /\ hook' = hook /\ processed' = processed
  BY DEF IInv, TypeOK, Consistent, ReadForRefund, hookVars
<1>2. /\ ReserveRefund(row, n) \in Row /\ Sound(ReserveRefund(row, n))
      /\ ReserveRefund(row, n).ver = row.ver + 1
      /\ ReserveRefund(row, n).status = "CAPTURED" /\ row.status = "CAPTURED"
      /\ n <= ReserveRefund(row, n).pend
  <2>1. CanRefund(row, n)
    BY DEF ReadForRefund
  <2>. QED
    BY <1>1, <2>1, ReserveSound DEF CanRefund
<1>3. j \in Job
  BY <1>2 DEF Job, JobPC, Op
<1>4. row.ver \in Nat
  BY <1>1 DEF Row
<1>5. JobInv(j, row)
  BY <1>2, <1>4 DEF JobInv, Write, Legal, Started
<1>6. job' = [job EXCEPT ![r] = j]
  BY DEF ReadForRefund
<1>7. Rest'
  BY DEF IInv, TypeOK, Rest, ReadForRefund, hookVars, moneyVars
<1>. QED
  BY <1>1, <1>3, <1>5, <1>6, <1>7, JobStep DEF Moves

\* SaveReservation: the row becomes the copy, or the request ends.
LEMMA SaveReservationKeeps ==
    ASSUME IInv, NEW r \in Request, SaveReservation(r)
    PROVE  IInv'
<1>. DEFINE c == job[r].copy
            j == [pc |-> "create", op |-> job[r].op, amt |-> job[r].amt, ok |-> job[r].ok,
                  copy |-> job[r].copy]
<1>1. job[r].pc = "reserve" /\ hook' = hook /\ processed' = processed
  BY DEF SaveReservation, At, hookVars
<1>2. /\ row \in Row /\ row.status # "NONE" /\ Sound(row)
      /\ job[r] \in Job /\ JobInv(job[r], row)
  BY <1>1, AtWork
<1>3. /\ job[r].op = "refund" /\ Started(job[r]) /\ c \in Row /\ Sound(c)
      /\ c.status = "CAPTURED" /\ c.ver \in Nat /\ row.ver \in Nat
  BY <1>1, <1>2 DEF JobInv, Job, Row, Started
<1>4. UnchangedSince(c) => Moves(row, c)
  BY <1>2, <1>3 DEF UnchangedSince, Moves
<1>5. Rest'
  BY DEF IInv, TypeOK, Rest, SaveReservation, Fault, hookVars, moneyVars
<1>6. CASE UnchangedSince(c) /\ row' = c /\ Goto(r, "create")
  <2>1. job' = [job EXCEPT ![r] = j]
    BY <1>6 DEF Goto, Advance
  <2>2. j \in Job
    BY <1>2 DEF Job, JobPC
  <2>3. Started(j)
    BY <1>3 DEF Started
  <2>4. JobInv(j, c)
    BY <1>3, <2>3 DEF JobInv, Read
  <2>. QED
    BY <1>1, <1>2, <1>3, <1>4, <1>5, <1>6, <2>1, <2>2, <2>4, JobStep
<1>7. CASE (row' = row \/ (UnchangedSince(c) /\ row' = c)) /\ Return(r)
  <2>1. job' = [job EXCEPT ![r] = Plain("done", "create")]
    BY <1>7 DEF Return, DoneJob
  <2>2. row' \in Row /\ Sound(row') /\ Moves(row, row')
    BY <1>2, <1>3, <1>4, <1>7 DEF Moves
  <2>. QED
    BY <1>1, <1>2, <1>5, <2>1, <2>2, ReturnStep DEF Op
<1>. QED
  BY <1>6, <1>7 DEF SaveReservation

\* What becomes of a reservation can be written back.
LEMMA SettledSound ==
    ASSUME IInv, NEW r \in Request, NEW ok \in BOOLEAN,
           job[r].pc \in {"create", "record"}, job[r].op = "refund"
    PROVE  /\ SettledRefund(r, ok) \in Row /\ Sound(SettledRefund(r, ok))
           /\ Write(SettledRefund(r, ok), row) /\ SettledRefund(r, ok).status # "NONE"
<1>. DEFINE c == job[r].copy
            n == job[r].amt
<1>1. /\ row \in Row /\ job[r] \in Job /\ JobInv(job[r], row)
  BY AtWork
<1>2. /\ c \in Row /\ Sound(c) /\ Read(c, row) /\ c.status = "CAPTURED" /\ n \in Nat
      /\ n <= c.pend /\ c.ver \in Nat /\ row.ver \in Nat
  BY <1>1 DEF JobInv, Started, Job, Row
<1>3. CASE ok
  <2>1. /\ CommitRefund(c, n) \in Row /\ Sound(CommitRefund(c, n))
        /\ CommitRefund(c, n).ver = c.ver + 1
        /\ CommitRefund(c, n).status \in {"CAPTURED", "REFUNDED"}
    BY <1>2, CommitSound
  <2>2. SettledRefund(r, ok) = CommitRefund(c, n)
    BY <1>3 DEF SettledRefund
  <2>. QED
    BY <1>2, <2>1, <2>2 DEF Read, Write, Legal
<1>4. CASE ~ok
  <2>1. /\ ReleaseRefundReservation(c, n) \in Row /\ Sound(ReleaseRefundReservation(c, n))
        /\ ReleaseRefundReservation(c, n).ver = c.ver + 1
        /\ ReleaseRefundReservation(c, n).status = "CAPTURED"
    BY <1>2, ReleaseSound
  <2>2. SettledRefund(r, ok) = ReleaseRefundReservation(c, n)
    BY <1>4 DEF SettledRefund
  <2>. QED
    BY <1>2, <2>1, <2>2 DEF Read, Write, Legal
<1>. QED
  BY <1>3, <1>4

\* A job that has computed what it will write.
LEMMA UpdateJob ==
    ASSUME IInv, NEW r \in Request, job[r].pc # "new", NEW ok \in BOOLEAN, NEW c \in Row,
           Sound(c), Write(c, row), c.status # "NONE",
           Advance(r, "update", ok, c), row' = row, hook' = hook, processed' = processed,
           Rest'
    PROVE  IInv'
<1>. DEFINE j == [pc |-> "update", op |-> job[r].op, amt |-> job[r].amt, ok |-> ok, copy |-> c]
<1>1. /\ row \in Row /\ row.status # "NONE" /\ Sound(row)
      /\ job[r] \in Job /\ JobInv(job[r], row)
  BY AtWork
<1>2. j \in Job
  BY <1>1 DEF Job, JobPC
<1>3. JobInv(j, row)
  BY <1>1 DEF JobInv
<1>4. job' = [job EXCEPT ![r] = j]
  BY DEF Advance
<1>. QED
  BY <1>1, <1>2, <1>3, <1>4, JobStep DEF Moves

\* CreateRefundRow
LEMMA CreateRefundRowKeeps ==
    ASSUME IInv, NEW r \in Request, CreateRefundRow(r)
    PROVE  IInv'
<1>. DEFINE j == [pc |-> "provider", op |-> job[r].op, amt |-> job[r].amt, ok |-> job[r].ok,
                  copy |-> job[r].copy]
<1>1. job[r].pc = "create" /\ row' = row /\ hook' = hook /\ processed' = processed
  BY DEF CreateRefundRow, At, hookVars
<1>2. /\ row \in Row /\ row.status # "NONE" /\ Sound(row)
      /\ job[r] \in Job /\ JobInv(job[r], row)
  BY <1>1, AtWork
<1>3. job[r].op = "refund" /\ Started(job[r]) /\ Read(job[r].copy, row) /\ Sound(job[r].copy)
  BY <1>1, <1>2 DEF JobInv
<1>4. Rest'
  <2>1. \/ refund' = [refund EXCEPT ![r] = "REFUND_PENDING"]
        \/ refund' = refund
    BY DEF CreateRefundRow
  <2>2. refund' \in [Request -> RefundStatus \cup {"none"}]
    BY <2>1 DEF IInv, TypeOK, RefundStatus
  <2>3. faults' = faults \/ faults' = faults + 1
    BY Zenon DEF CreateRefundRow, Fault
  <2>4. faults' \in Nat
    BY <2>3 DEF IInv, TypeOK
  <2>. QED
    BY <2>2, <2>4 DEF IInv, TypeOK, Rest, CreateRefundRow, hookVars, moneyVars
<1>5. CASE Goto(r, "provider")
  <2>1. job' = [job EXCEPT ![r] = j]
    BY <1>5 DEF Goto, Advance
  <2>2. j \in Job
    BY <1>2 DEF Job, JobPC
  <2>3. Started(j)
    BY <1>3 DEF Started
  <2>4. JobInv(j, row)
    BY <1>2, <1>3, <2>3 DEF JobInv
  <2>. QED
    BY <1>1, <1>2, <1>4, <2>1, <2>2, <2>4, JobStep DEF Moves
<1>6. CASE Advance(r, "update", FALSE, SettledRefund(r, FALSE))
  <2>1. /\ SettledRefund(r, FALSE) \in Row /\ Sound(SettledRefund(r, FALSE))
        /\ Write(SettledRefund(r, FALSE), row) /\ SettledRefund(r, FALSE).status # "NONE"
    BY <1>1, <1>3, SettledSound
  <2>. QED
    BY <1>1, <1>4, <1>6, <2>1, UpdateJob
<1>. QED
  BY <1>5, <1>6 DEF CreateRefundRow

\* CallRefund: only the answer is noted.
LEMMA CallRefundKeeps ==
    ASSUME IInv, NEW r \in Request, CallRefund(r)
    PROVE  IInv'
<1>1. PICK ok \in BOOLEAN : RefundAtProvider(r, ok) /\ Advance(r, "record", ok, job[r].copy)
  BY DEF CallRefund
<1>. DEFINE j == [pc |-> "record", op |-> job[r].op, amt |-> job[r].amt, ok |-> ok,
                  copy |-> job[r].copy]
<1>2. job[r].pc = "provider" /\ job[r].op = "refund" /\ row' = row /\ hook' = hook /\ processed' = processed
  BY DEF CallRefund, At, hookVars
<1>3. /\ row \in Row /\ row.status # "NONE" /\ Sound(row)
      /\ job[r] \in Job /\ JobInv(job[r], row)
  BY <1>2, AtWork
<1>4. job' = [job EXCEPT ![r] = j]
  BY <1>1 DEF Advance
<1>5. j \in Job
  BY <1>3 DEF Job, JobPC
<1>6. Started(job[r]) /\ Read(job[r].copy, row) /\ Sound(job[r].copy)
  BY <1>2, <1>3 DEF JobInv
<1>7. Started(j)
  BY <1>2, <1>6 DEF Started
<1>8. JobInv(j, row)
  BY <1>2, <1>3, <1>6, <1>7 DEF JobInv
<1>9. Rest'
  <2>1. job[r].amt \in Nat
    BY <1>3 DEF Job
  <2>. QED
    BY <1>1, <2>1 DEF IInv, TypeOK, Rest, CallRefund, RefundAtProvider, Fault, hookVars
<1>. QED
  BY <1>2, <1>3, <1>4, <1>5, <1>8, <1>9, JobStep DEF Moves

\* CallProvider: the answer is noted, or the request is over.
LEMMA CallProviderKeeps ==
    ASSUME IInv, NEW r \in Request, CallProvider(r)
    PROVE  IInv'
<1>1. job[r].pc = "provider" /\ job[r].op # "refund" /\ row' = row /\ hook' = hook /\ processed' = processed
  BY DEF CallProvider, At, moneyVars
<1>2. /\ row \in Row /\ row.status # "NONE" /\ Sound(row)
      /\ job[r] \in Job /\ JobInv(job[r], row) /\ job[r].op \in Op
  BY <1>1, AtWork DEF Job
<1>3. Started(job[r]) /\ Read(job[r].copy, row) /\ Sound(job[r].copy)
  BY <1>1, <1>2 DEF JobInv
<1>4. Rest'
  BY DEF IInv, TypeOK, Rest, CallProvider, Fault, moneyVars
<1>5. ASSUME NEW ok \in BOOLEAN, Advance(r, "record", ok, job[r].copy),
             ~(ok /\ job[r].op = "capture" /\ job[r].amt \notin 1..job[r].copy.auth)
      PROVE  IInv'
  <2>. DEFINE j == [pc |-> "record", op |-> job[r].op, amt |-> job[r].amt, ok |-> ok,
                    copy |-> job[r].copy]
  <2>1. job' = [job EXCEPT ![r] = j]
    BY <1>5 DEF Advance
  <2>2. j \in Job
    BY <1>2 DEF Job, JobPC
  <2>3. Started(j)
    BY <1>1, <1>3 DEF Started
  <2>4. ok /\ job[r].op = "capture" => job[r].amt > 0 /\ job[r].amt <= job[r].copy.auth
    BY <1>2, <1>5 DEF Job, Row
  <2>5. JobInv(j, row)
    BY <1>2, <1>3, <2>3, <2>4 DEF JobInv
  <2>. QED
    BY <1>1, <1>2, <1>4, <2>1, <2>2, <2>5, JobStep DEF Moves
<1>6. CASE Return(r)
  <2>1. job' = [job EXCEPT ![r] = Plain("done", "create")]
    BY <1>6 DEF Return, DoneJob
  <2>. QED
    BY <1>1, <1>2, <1>4, <2>1, ReturnStep DEF Op, Moves
<1>7. CASE Finish(r, "timeout")
  <2>1. job' = [job EXCEPT ![r] = Plain("timeout", job[r].op)]
    BY <1>7 DEF Finish
  <2>. QED
    BY <1>1, <1>2, <1>4, <2>1, ReturnStep DEF Moves
<1>. QED
  BY <1>5, <1>6, <1>7 DEF CallProvider

\* A request returns without touching the row.
LEMMA ReturnKeeps ==
    ASSUME IInv, NEW r \in Request, job[r].pc # "new", Return(r), row' = row, hook' = hook, processed' = processed,
           Rest'
    PROVE  IInv'
<1>1. row \in Row /\ row.status # "NONE" /\ Sound(row)
  BY AtWork
<1>2. job' = [job EXCEPT ![r] = Plain("done", "create")]
  BY DEF Return, DoneJob
<1>. QED
  BY <1>1, <1>2, ReturnStep DEF Op, Moves

\* MarkUnknown
LEMMA MarkUnknownKeeps ==
    ASSUME IInv, NEW r \in Request, MarkUnknown(r)
    PROVE  IInv'
<1>1. job[r].pc = "timeout" /\ row' = row /\ hook' = hook /\ processed' = processed /\ Return(r)
  BY DEF MarkUnknown, At, hookVars
<1>2. Rest'
  BY DEF IInv, TypeOK, Rest, MarkUnknown, UpdateAttempt, Fault, hookVars, moneyVars,
         OperationStatus
<1>. QED
  BY <1>1, <1>2, ReturnKeeps

\* What an operation has achieved can be written back.
LEMMA AppliedSound ==
    ASSUME IInv, NEW r \in Request, job[r].pc = "record", job[r].op # "refund", job[r].ok
    PROVE  LET c == Applied(job[r].op, job[r].copy, job[r].amt)
           IN  c \in Row /\ Sound(c) /\ Write(c, row) /\ c.status # "NONE"
<1>. DEFINE p == job[r].copy
            n == job[r].amt
            c == Applied(job[r].op, p, n)
<1>1. row \in Row /\ job[r] \in Job /\ JobInv(job[r], row)
  BY AtWork
<1>2. /\ p \in Row /\ Sound(p) /\ Read(p, row) /\ Started(job[r]) /\ n \in Nat
      /\ p.ver \in Nat /\ row.ver \in Nat /\ job[r].op \in Op
  BY <1>1 DEF JobInv, Job, Row
<1>3. CASE job[r].op \in {"create", "authorize"}
  <2>1. p.status = "PENDING"
    BY <1>2, <1>3 DEF Started
  <2>2. c = Authorize(p)
    BY <1>3 DEF Applied
  <2>3. /\ Authorize(p) \in Row /\ Sound(Authorize(p))
        /\ Authorize(p).ver = p.ver + 1 /\ Authorize(p).status = "AUTHORIZED"
    BY <1>2, <2>1, AuthorizeSound
  <2>. QED
    BY <1>2, <2>1, <2>2, <2>3 DEF Read, Write, Legal
<1>4. CASE job[r].op = "capture"
  <2>1. p.status = "AUTHORIZED" /\ n <= p.auth
    BY <1>1, <1>2, <1>4 DEF Started, JobInv
  <2>2. c = Capture(p, n)
    BY <1>4 DEF Applied
  <2>3. /\ Capture(p, n) \in Row /\ Sound(Capture(p, n))
        /\ Capture(p, n).ver = p.ver + 1 /\ Capture(p, n).status = "CAPTURED"
    BY <1>2, <2>1, CaptureSound
  <2>. QED
    BY <1>2, <2>1, <2>2, <2>3 DEF Read, Write, Legal
<1>5. CASE job[r].op = "cancel"
  <2>1. p.status \in {"PENDING", "AUTHORIZED"}
    BY <1>2, <1>5 DEF Started
  <2>2. c = Cancel(p)
    BY <1>5 DEF Applied
  <2>3. /\ Cancel(p) \in Row /\ Sound(Cancel(p))
        /\ Cancel(p).ver = p.ver + 1 /\ Cancel(p).status = "CANCELLED"
    BY <1>2, CancelSound
  <2>. QED
    BY <1>2, <2>1, <2>2, <2>3 DEF Read, Write, Legal
<1>. QED
  BY <1>2, <1>3, <1>4, <1>5 DEF Op

\* RecordAttempt
LEMMA RecordAttemptKeeps ==
    ASSUME IInv, NEW r \in Request, RecordAttempt(r)
    PROVE  IInv'
<1>1. job[r].pc = "record" /\ job[r].op # "refund" /\ row' = row /\ hook' = hook /\ processed' = processed
  BY DEF RecordAttempt, At, hookVars
<1>2. Rest'
  BY DEF IInv, TypeOK, Rest, RecordAttempt, UpdateAttempt, Fault, hookVars, moneyVars,
         OperationStatus
<1>3. CASE job[r].ok /\ Advance(r, "update", TRUE, Applied(job[r].op, job[r].copy, job[r].amt))
  BY <1>1, <1>2, <1>3, AppliedSound, UpdateJob
<1>4. CASE job[r].op = "create" /\ Advance(r, "update", FALSE, Fail(job[r].copy))
  <2>. DEFINE p == job[r].copy
  <2>1. row \in Row /\ job[r] \in Job /\ JobInv(job[r], row)
    BY <1>1, AtWork
  <2>2. /\ p \in Row /\ Sound(p) /\ Read(p, row) /\ p.status = "PENDING"
        /\ p.ver \in Nat /\ row.ver \in Nat
    BY <1>1, <1>4, <2>1 DEF JobInv, Started, Job, Row
  <2>3. /\ Fail(p) \in Row /\ Sound(Fail(p))
        /\ Fail(p).ver = p.ver + 1 /\ Fail(p).status = "FAILED"
    BY <2>2, FailSound
  <2>4. Write(Fail(p), row)
    BY <2>2, <2>3 DEF Read, Write, Legal
  <2>. QED
    BY <1>1, <1>2, <1>4, <2>3, <2>4, UpdateJob
<1>5. CASE Return(r)
  BY <1>1, <1>2, <1>5, ReturnKeeps
<1>. QED
  BY <1>3, <1>4, <1>5 DEF RecordAttempt

\* RecordRefund
LEMMA RecordRefundKeeps ==
    ASSUME IInv, NEW r \in Request, RecordRefund(r)
    PROVE  IInv'
<1>1. /\ job[r].pc = "record" /\ job[r].op = "refund" /\ row' = row /\ hook' = hook /\ processed' = processed
      /\ Advance(r, "update", job[r].ok, SettledRefund(r, job[r].ok))
  BY DEF RecordRefund, At, hookVars
<1>2. job[r].ok \in BOOLEAN
  BY DEF IInv, TypeOK, Job
<1>3. Rest'
  BY DEF IInv, TypeOK, Rest, RecordRefund, Fault, hookVars, moneyVars, RefundStatus
<1>4. /\ SettledRefund(r, job[r].ok) \in Row /\ Sound(SettledRefund(r, job[r].ok))
      /\ Write(SettledRefund(r, job[r].ok), row) /\ SettledRefund(r, job[r].ok).status # "NONE"
  BY <1>1, <1>2, SettledSound
<1>. QED
  BY <1>1, <1>2, <1>3, <1>4, UpdateJob

\* UpdateConditional: only a copy made from the row as it is replaces it.
LEMMA UpdateConditionalKeeps ==
    ASSUME IInv, NEW r \in Request, UpdateConditional(r)
    PROVE  IInv'
<1>. DEFINE c == job[r].copy
<1>1. job[r].pc = "update" /\ hook' = hook /\ processed' = processed
  BY DEF UpdateConditional, At, hookVars
<1>2. /\ row \in Row /\ row.status # "NONE" /\ Sound(row)
      /\ job[r] \in Job /\ JobInv(job[r], row) /\ job[r].op \in Op
  BY <1>1, AtWork DEF Job
<1>3. c \in Row /\ Sound(c) /\ c.status # "NONE" /\ c.ver \in Nat /\ row.ver \in Nat
  BY <1>1, <1>2 DEF JobInv, Job, Row
<1>4. UnchangedSince(c) => Moves(row, c)
  BY <1>2, <1>3 DEF UnchangedSince, Moves
<1>5. row' = row \/ (UnchangedSince(c) /\ row' = c)
  BY DEF UpdateConditional
<1>6. row' \in Row /\ Sound(row') /\ Moves(row, row')
  BY <1>2, <1>3, <1>4, <1>5 DEF Moves
<1>7. Rest'
  <2>1. unsettled' \in BOOLEAN
    BY Zenon DEF IInv, TypeOK, UpdateConditional
  <2>2. faults' \in Nat
    BY DEF IInv, TypeOK, UpdateConditional, Fault
  <2>. QED
    BY <2>1, <2>2 DEF IInv, TypeOK, Rest, UpdateConditional, hookVars
<1>8. CASE Finish(r, "announce")
  <2>1. job' = [job EXCEPT ![r] = Plain("announce", job[r].op)]
    BY <1>8 DEF Finish
  <2>. QED
    BY <1>1, <1>2, <1>6, <1>7, <2>1, ReturnStep
<1>9. CASE Return(r)
  <2>1. job' = [job EXCEPT ![r] = Plain("done", "create")]
    BY <1>9 DEF Return, DoneJob
  <2>. QED
    BY <1>1, <1>2, <1>6, <1>7, <2>1, ReturnStep DEF Op
<1>. QED
  BY <1>8, <1>9 DEF UpdateConditional

\* Announce
LEMMA AnnounceKeeps ==
    ASSUME IInv, NEW r \in Request, Announce(r)
    PROVE  IInv'
<1>1. job[r].pc = "announce" /\ row' = row /\ hook' = hook /\ processed' = processed /\ Return(r)
  BY DEF Announce, At, hookVars
<1>2. EventsOf(job[r].op) \subseteq EventType
  <2>1. job[r].op \in Op
    BY DEF IInv, TypeOK, Job
  <2>. QED
    BY <2>1 DEF Op, EventsOf, EventType
<1>3. Rest'
  BY <1>2 DEF IInv, TypeOK, Rest, Announce, Publish, Fault, hookVars, moneyVars
<1>. QED
  BY <1>1, <1>3, ReturnKeeps

\* RecordNotice: Stripe was asked, so the payment exists.
LEMMA RecordNoticeKeeps ==
    ASSUME IInv, NEW e \in Notice, RecordNotice(e)
    PROVE  IInv'
<1>1. row \in Row /\ Sound(row) /\ row.status # "NONE" /\ row' = row /\ job' = job
  BY DEF IInv, TypeOK, Consistent, RecordNotice, hookRest
<1>2. Rest'
  BY DEF IInv, TypeOK, Rest, RecordNotice, Fault, hookRest
<1>3. processed \subseteq processed'
  BY DEF RecordNotice
<1>4. CASE hook' = [hook EXCEPT ![e] = PlainHook("find")] /\ e \in processed'
  <2>1. PlainHook("find") \in Hook /\ HookInv(PlainHook("find"), row)
    BY <1>1, PlainSound DEF Hook, HookInv, PlainHook
  <2>. QED
    BY <1>1, <1>2, <1>3, <1>4, <2>1, HookStep DEF Moves
<1>5. CASE UNCHANGED hook
  BY <1>1, <1>2, <1>3, <1>5 DEF IInv, TypeOK, Rest, Consistent, At
<1>. QED
  BY <1>4, <1>5 DEF RecordNotice

\* The webhook is done with a notice.
LEMMA HookReturnKeeps ==
    ASSUME IInv, NEW e \in Notice, hook[e].pc # "new", NEW l \in {"announce", "done"},
           hook' = [hook EXCEPT ![e] = PlainHook(l)], job' = job,
           processed' = processed, row' \in Row, Sound(row'), Moves(row, row'), Rest'
    PROVE  IInv'
<1>1. row.status # "NONE" /\ row'.status # "NONE" /\ e \in processed
  BY HookAtWork DEF Moves
<1>2. PlainHook(l) \in Hook /\ HookInv(PlainHook(l), row')
  BY <1>1, PlainSound DEF Hook, HookInv, PlainHook
<1>. QED
  BY <1>1, <1>2, HookStep

\* FindPayment: the copy is the row, completed.
LEMMA FindPaymentKeeps ==
    ASSUME IInv, NEW e \in Notice, FindPayment(e)
    PROVE  IInv'
<1>. DEFINE h == [pc |-> "update", copy |-> Complete(row)]
<1>1. hook[e].pc = "find" /\ row' = row /\ job' = job /\ processed' = processed
  BY DEF FindPayment, hookRest
<1>2. row \in Row /\ row.status # "NONE" /\ Sound(row) /\ e \in processed
  BY <1>1, HookAtWork
<1>3. Rest'
  BY <1>2 DEF IInv, TypeOK, Rest, FindPayment, Fault, hookRest
<1>4. CASE hook' = [hook EXCEPT ![e] = h]
  <2>1. /\ Complete(row) \in Row /\ Sound(Complete(row))
        /\ Complete(row).ver = row.ver + 1 /\ Complete(row).status = "CAPTURED"
    BY <1>2, CompleteSound
  <2>2. row.ver \in Nat
    BY <1>2 DEF Row
  <2>3. h \in Hook /\ HookInv(h, row)
    BY <1>2, <2>1, <2>2 DEF Hook, HookInv
  <2>. QED
    BY <1>1, <1>2, <1>3, <1>4, <2>3, HookStep DEF Moves
<1>5. CASE HookReturn(e)
  BY <1>1, <1>2, <1>3, <1>5, HookReturnKeeps DEF HookReturn, Moves
<1>. QED
  BY <1>4, <1>5 DEF FindPayment

\* SaveCompleted: the copy replaces the row it was made from.
LEMMA SaveCompletedKeeps ==
    ASSUME IInv, NEW e \in Notice, SaveCompleted(e)
    PROVE  IInv'
<1>. DEFINE c == hook[e].copy
<1>1. hook[e].pc = "update" /\ job' = job /\ processed' = processed
  BY DEF SaveCompleted, hookRest
<1>2. /\ row \in Row /\ row.status # "NONE" /\ Sound(row) /\ e \in processed
      /\ hook[e] \in Hook /\ HookInv(hook[e], row)
  BY <1>1, HookAtWork
<1>3. c \in Row /\ Sound(c) /\ c.status = "CAPTURED" /\ c.ver \in Nat /\ row.ver \in Nat
  BY <1>1, <1>2 DEF HookInv, Hook, Row
<1>4. row' = row \/ (UnchangedSince(c) /\ row' = c)
  BY DEF SaveCompleted
<1>5. row' \in Row /\ Sound(row') /\ Moves(row, row')
  BY <1>2, <1>3, <1>4 DEF UnchangedSince, Moves
<1>6. Rest'
  BY <1>2 DEF IInv, TypeOK, Rest, SaveCompleted, Fault, hookRest
<1>7. CASE hook' = [hook EXCEPT ![e] = PlainHook("announce")]
  BY <1>1, <1>5, <1>6, <1>7, HookReturnKeeps
<1>8. CASE HookReturn(e)
  BY <1>1, <1>5, <1>6, <1>8, HookReturnKeeps DEF HookReturn
<1>. QED
  BY <1>7, <1>8 DEF SaveCompleted

\* AnnounceCompleted
LEMMA AnnounceCompletedKeeps ==
    ASSUME IInv, NEW e \in Notice, AnnounceCompleted(e)
    PROVE  IInv'
<1>1. hook[e].pc = "announce" /\ row' = row /\ job' = job /\ processed' = processed /\ HookReturn(e)
  BY DEF AnnounceCompleted, hookRest
<1>2. row \in Row /\ Sound(row)
  BY <1>1, HookAtWork
<1>3. Rest'
  BY DEF IInv, TypeOK, Rest, AnnounceCompleted, Publish, Fault, hookRest, EventType
<1>. QED
  BY <1>1, <1>2, <1>3, HookReturnKeeps DEF HookReturn, Moves

\* StuckRecovery writes attempts only.
LEMMA StuckRecoveryKeeps ==
    ASSUME IInv, NEW r \in Request, StuckRecovery(r)
    PROVE  IInv'
<1>1. UNCHANGED <<row, job, hook, asked, processed>>
  BY DEF StuckRecovery, hookVars
<1>2. Rest'
  BY DEF IInv, TypeOK, Rest, StuckRecovery, hookVars, moneyVars, OperationStatus
<1>. QED
  BY <1>1, <1>2 DEF IInv, TypeOK, Rest, Consistent, At

\* Restart: the handlers are gone, the tables stay.
LEMMA RestartKeeps ==
    ASSUME IInv, Restart
    PROVE  IInv'
<1>1. UNCHANGED <<row, asked, processed>>
  BY DEF Restart
<1>2. row \in Row
  BY DEF IInv, TypeOK
<1>3. ASSUME NEW r \in Request
      PROVE  job'[r] \in Job /\ JobInv(job'[r], row)
  <2>1. CASE job[r].pc = "new"
    <3>1. job'[r] = job[r]
      BY <2>1 DEF Restart
    <3>. QED
      BY <3>1 DEF IInv, TypeOK, Consistent
  <2>2. CASE job[r].pc # "new"
    <3>1. job'[r] = Plain("done", "create") /\ row.status # "NONE"
      BY <2>2, AtWork DEF Restart, DoneJob
    <3>. QED
      BY <3>1, <1>2, PlainJob DEF Op
  <2>. QED
    BY <2>1, <2>2
<1>4. ASSUME NEW e \in Notice
      PROVE  hook'[e] \in Hook /\ HookInv(hook'[e], row) /\ (hook'[e].pc # "new" => e \in processed)
  <2>1. CASE hook[e].pc = "new"
    <3>1. hook'[e] = hook[e]
      BY <2>1 DEF Restart
    <3>. QED
      BY <3>1, <2>1 DEF IInv, TypeOK, Consistent, Hook
  <2>2. CASE hook[e].pc # "new"
    <3>1. hook'[e] = PlainHook("done") /\ row.status # "NONE" /\ e \in processed
      BY <2>2, HookAtWork DEF Restart
    <3>. QED
      BY <3>1, PlainSound DEF PlainHook, Hook, HookInv
  <2>. QED
    BY <2>1, <2>2
<1>5. job' \in [Request -> Job] /\ hook' \in [Notice -> Hook]
  <2>1. /\ job' = [r \in Request |-> job'[r]]
        /\ hook' = [e \in Notice |-> hook'[e]]
    BY DEF Restart
  <2>. QED
    BY <2>1, <1>3, <1>4
<1>6. Rest'
  <2>1. {e \in Notice : hook[e].pc \notin {"new", "done"}} \subseteq processed
    BY DEF IInv, Consistent
  <2>2. faults' \in Nat
    BY DEF IInv, TypeOK, Restart, Fault
  <2>. QED
    BY <2>1, <2>2 DEF IInv, TypeOK, Rest, Restart, moneyVars
<1>7. \A q \in Request : (At(q, "reserve") \/ At(q, "update") => job[q].copy.ver > 0)'
  BY <1>3 DEF JobInv, Write, At
<1>. QED
  BY <1>1, <1>3, <1>4, <1>5, <1>6, <1>7 DEF IInv, TypeOK, Rest, Consistent, Hook

-----------------------------------------------------------------------------
(* The theorems *)

\* Init satisfies the invariant.
LEMMA InitInv == Init => IInv
<1>. SUFFICES ASSUME Init PROVE IInv
  OBVIOUS
<1>1. \A r \in Request : job[r] = Plain("new", "create")
  BY DEF Init, NewJob
<1>2. \A r \in Request : job[r] \in Job /\ JobInv(job[r], row)
  BY <1>1, PlainSound DEF JobInv, JobPC, Op
<1>3. \A e \in Notice : hook[e] \in Hook /\ HookInv(hook[e], row) /\ hook[e].pc = "new"
  BY PlainSound DEF Init, HookInv, Hook, PlainHook
<1>4. job \in [Request -> Job] /\ hook \in [Notice -> Hook]
  BY <1>2, <1>3 DEF Init
<1>5. row \in Row /\ Sound(row)
  BY PlainSound DEF Init
<1>6. Rest
  BY DEF Init, Rest, OperationStatus, RefundStatus
<1>7. \A r \in Request : ~At(r, "reserve") /\ ~At(r, "update")
  BY <1>1 DEF At, Plain
<1>. QED
  BY <1>2, <1>3, <1>4, <1>5, <1>6, <1>7 DEF IInv, TypeOK, Rest, Consistent, Hook, Init

\* Every step keeps it.
LEMMA NextKeeps == IInv /\ [Next]_vars => IInv'
<1>. SUFFICES ASSUME IInv, [Next]_vars PROVE IInv'
  OBVIOUS
<1>1. ASSUME NEW r \in Request, Arrive(r) PROVE IInv'
  <2>1. CASE CreatePayment(r)
    BY <2>1, CreatePaymentKeeps
  <2>2. CASE ReadPayment(r, "authorize", 0)
    BY <2>2, ReadPaymentKeeps
  <2>3. ASSUME NEW n \in CaptureAmount, ReadPayment(r, "capture", n) PROVE IInv'
    BY <2>3, ReadPaymentKeeps, PaymentAssumption DEF PaymentAssumption
  <2>4. CASE ReadPayment(r, "cancel", 0)
    BY <2>4, ReadPaymentKeeps
  <2>5. ASSUME NEW n \in 1..Amount, ReadForRefund(r, n) PROVE IInv'
    BY <2>5, ReadForRefundKeeps, PaymentAssumption DEF PaymentAssumption
  <2>. QED
    BY <1>1, <2>1, <2>2, <2>3, <2>4, <2>5 DEF Arrive
<1>2. ASSUME NEW r \in Request, Proceed(r) PROVE IInv'
  BY <1>2, SaveReservationKeeps, CreateRefundRowKeeps, CallRefundKeeps, CallProviderKeeps,
     MarkUnknownKeeps, RecordAttemptKeeps, RecordRefundKeeps, UpdateConditionalKeeps,
     AnnounceKeeps DEF Proceed
<1>3. ASSUME NEW e \in Notice, RecordNotice(e) \/ Webhook(e) PROVE IInv'
  BY <1>3, RecordNoticeKeeps, FindPaymentKeeps, SaveCompletedKeeps, AnnounceCompletedKeeps
     DEF Webhook
<1>4. CASE UNCHANGED vars
  BY <1>4 DEF vars, IInv, TypeOK, Consistent, At
<1>. QED
  BY <1>1, <1>2, <1>3, <1>4, StuckRecoveryKeeps, RestartKeeps DEF Next

\* The invariant holds throughout.
LEMMA Invariance == Spec => []IInv
BY InitInv, NextKeeps, PTL DEF Spec

\* Type correctness, for any number of requests and notices: in particular no
\* amount of the row becomes negative, however commits and releases of
\* reservations race.
THEOREM TypeCorrect == Spec => []TypeOK
<1>1. IInv => TypeOK
  BY DEF IInv
<1>. QED
  BY <1>1, Invariance, PTL

\* What is refunded and reserved was captured, and what was captured was
\* authorized, however requests and notices interleave and fail.
THEOREM AmountsMakeSense == Spec => []RefundsWithinCapture
<1>1. IInv => RefundsWithinCapture
  BY DEF IInv, Consistent, Sound, RefundsWithinCapture
<1>. QED
  BY <1>1, Invariance, PTL

\* One step changes the status legally, unless it is the webhook's.
LEMMA StepLegal ==
    ASSUME IInv, [Next]_vars, row'.status # row.status, row.status # "NONE"
    PROVE  \/ row'.status \in AllowedTransitions[row.status]
           \/ \E e \in Notice : hook[e].pc = "update" /\ hook'[e].pc # "update"
<1>1. ASSUME NEW s \in PaymentStatus, NEW t, Legal(s, t), t # s
      PROVE  t \in AllowedTransitions[s]
  BY <1>1 DEF Legal, AllowedTransitions, PaymentStatus
<1>2. row.status \in PaymentStatus
  BY DEF IInv, TypeOK, Row
<1>3. ASSUME NEW r \in Request, SaveReservation(r) \/ UpdateConditional(r)
      PROVE  Legal(row.status, row'.status)
  <2>. DEFINE c == job[r].copy
  <2>1. job[r].pc \in {"reserve", "update"} /\ UnchangedSince(c) /\ row' = c
    BY <1>3 DEF SaveReservation, UpdateConditional, At
  <2>2. JobInv(job[r], row) /\ c.ver \in Nat /\ row.ver \in Nat
    BY <2>1, AtWork DEF Job, Row
  <2>3. Write(c, row)
    BY <2>1, <2>2 DEF JobInv
  <2>. QED
    BY <2>1, <2>2, <2>3 DEF Write, UnchangedSince
<1>4. ASSUME NEW e \in Notice, SaveCompleted(e)
      PROVE  hook[e].pc = "update" /\ hook'[e].pc # "update"
  <2>1. \/ hook' = [hook EXCEPT ![e] = PlainHook("announce")]
        \/ hook' = [hook EXCEPT ![e] = PlainHook("done")]
    BY <1>4 DEF SaveCompleted, HookReturn
  <2>2. hook \in [Notice -> Hook]
    BY DEF IInv, TypeOK, Hook
  <2>. QED
    BY <1>4, <2>1, <2>2, PlainSound DEF SaveCompleted
<1>5. \/ \E r \in Request : SaveReservation(r) \/ UpdateConditional(r)
      \/ \E e \in Notice : SaveCompleted(e)
  BY DEF Next, Arrive, Proceed, Webhook, CreatePayment, ReadPayment, ReadForRefund,
         CreateRefundRow, CallRefund, CallProvider, MarkUnknown, RecordAttempt, RecordRefund,
         Announce, RecordNotice, FindPayment, AnnounceCompleted, StuckRecovery, Restart, vars
<1>. QED
  BY <1>1, <1>2, <1>3, <1>4, <1>5

\* The optimistic lock works: between its read of the row and its write a
\* request has called Stripe, and still no request ever overwrites the outcome
\* of another.
THEOREM StatusMovesLegally == Spec => LegalUnlessWebhook
<1>1. IInv /\ [Next]_vars =>
        [row'.status # row.status /\ row.status # "NONE" =>
           \/ row'.status \in AllowedTransitions[row.status]
           \/ \E e \in Notice : hook[e].pc = "update" /\ hook'[e].pc # "update"]_vars
  BY StepLegal
<1>. QED
  BY <1>1, Invariance, PTL DEF Spec, LegalUnlessWebhook

-----------------------------------------------------------------------------
(* The money of the refunds *)

\* A refund that holds its reservation, and one that Stripe has made.
Holds(j) == j.op = "refund" /\ j.pc \in {"create", "provider", "record", "update"}
Paid(j) == j.ok /\ j.pc \in {"record", "update"}

\* What a job keeps reserved, and what of it Stripe may still pay back.
HeldBy(j) == IF Holds(j) THEN j.amt ELSE 0
DueTo(j) == IF Holds(j) /\ ~Paid(j) THEN j.amt ELSE 0

Held(jobs) == [r \in Request |-> HeldBy(jobs[r])]
Due(jobs) == [r \in Request |-> DueTo(jobs[r])]

\* The amounts of refunds in c are those of w.
Same(c, w) == c.refd = w.refd /\ c.pend = w.pend

\* A copy that will replace the row w changes its amounts by those of the refund.
JobMoney(j, w) ==
    /\ j.pc \in {"create", "provider", "record"} /\ j.copy.ver = w.ver => Same(j.copy, w)
    /\ j.pc = "reserve" /\ j.copy.ver = w.ver + 1 =>
          j.copy.refd = w.refd /\ j.copy.pend = w.pend + j.amt
    /\ j.pc = "update" /\ j.copy.ver = w.ver + 1 =>
          j.copy.pend + HeldBy(j) = w.pend /\ j.copy.refd + DueTo(j) = w.refd + HeldBy(j)

\* The webhook does not touch them.
HookMoney(h, w) ==
    h.pc = "update" => h.copy.ver <= w.ver + 1 /\ (h.copy.ver = w.ver + 1 => Same(h.copy, w))

\* The row has reserved what is held, and accounts for what is paid back and may still be.
Accounts(jobs, w, back, unknown) ==
    /\ Total(Held(jobs), Request) <= w.pend
    /\ back + Total(Due(jobs), Request) <= w.refd + w.pend + unknown

Money ==
    /\ \A r \in Request : JobMoney(job[r], row)
    /\ \A e \in Notice : HookMoney(hook[e], row)
    /\ Accounts(job, row, returned, lost)

\* What a job holds is a natural number.
LEMMA HeldNat ==
    ASSUME NEW j \in Job
    PROVE  HeldBy(j) \in Nat /\ DueTo(j) \in Nat /\ DueTo(j) <= HeldBy(j)
BY DEF HeldBy, DueTo, Job

\* The sums are numbers, and a step of one request changes one term.
LEMMA SumsMove ==
    ASSUME NEW jobs \in [Request -> Job], NEW r \in Request, NEW j \in Job
    PROVE  LET next == [jobs EXCEPT ![r] = j] IN
           /\ Total(Held(jobs), Request) \in Nat /\ Total(Due(jobs), Request) \in Nat
           /\ Total(Held(next), Request) \in Nat /\ Total(Due(next), Request) \in Nat
           /\ Total(Held(next), Request) + HeldBy(jobs[r]) = Total(Held(jobs), Request) + HeldBy(j)
           /\ Total(Due(next), Request) + DueTo(jobs[r]) = Total(Due(jobs), Request) + DueTo(j)
<1>1. PICK next \in [Request -> Job] : next = [jobs EXCEPT ![r] = j]
  OBVIOUS
<1>2. next[r] = j /\ \A x \in Request : x # r => next[x] = jobs[x]
  BY <1>1
<1>3. IsFiniteSet(Request)
  BY PaymentAssumption, FS_Interval DEF PaymentAssumption, Request
<1>4. \A x \in Request : /\ Held(jobs)[x] = HeldBy(jobs[x]) /\ Held(jobs)[x] \in Nat
                         /\ Held(next)[x] = HeldBy(next[x]) /\ Held(next)[x] \in Nat
  BY <1>1, HeldNat DEF Held
<1>5. \A x \in Request : /\ Due(jobs)[x] = DueTo(jobs[x]) /\ Due(jobs)[x] \in Nat
                         /\ Due(next)[x] = DueTo(next[x]) /\ Due(next)[x] \in Nat
  BY <1>1, HeldNat DEF Due
<1>6. PICK u, v : u = Held(jobs) /\ v = Held(next)
  OBVIOUS
<1>7. PICK y, z : y = Due(jobs) /\ z = Due(next)
  OBVIOUS
<1>8. /\ Total(u, Request) \in Nat /\ Total(v, Request) \in Nat
      /\ Total(v, Request) + u[r] = Total(u, Request) + v[r]
  <2>1. \A x \in Request : u[x] \in Nat /\ v[x] \in Nat /\ (x # r => v[x] = u[x])
    BY <1>2, <1>4, <1>6
  <2>. QED
    BY <1>3, <2>1, TotalWithout, TotalMoves, SMTT(30)
<1>9. /\ Total(y, Request) \in Nat /\ Total(z, Request) \in Nat
      /\ Total(z, Request) + y[r] = Total(y, Request) + z[r]
  <2>1. \A x \in Request : y[x] \in Nat /\ z[x] \in Nat /\ (x # r => z[x] = y[x])
    BY <1>2, <1>5, <1>7
  <2>. QED
    BY <1>3, <2>1, TotalWithout, TotalMoves, SMTT(30)
<1>10. Held(jobs)[r] = HeldBy(jobs[r]) /\ Held(next)[r] = HeldBy(j)
  BY <1>2, <1>4
<1>11. Due(jobs)[r] = DueTo(jobs[r]) /\ Due(next)[r] = DueTo(j)
  BY <1>2, <1>5
<1>. QED
  BY <1>1, <1>6, <1>7, <1>8, <1>9, <1>10, <1>11

\* A step of one request accounts for what it changes.
LEMMA AccountsMove ==
    ASSUME NEW jobs \in [Request -> Job], NEW r \in Request, NEW j \in Job,
           NEW v \in Row, NEW w \in Row, NEW back \in Nat, NEW back2 \in Nat, NEW un \in Nat,
           NEW un2 \in Nat, Accounts(jobs, v, back, un),
           v.pend + HeldBy(j) <= w.pend + HeldBy(jobs[r]),
           back2 + DueTo(j) + v.refd + v.pend + un <= w.refd + w.pend + un2 + back + DueTo(jobs[r])
    PROVE  Accounts([jobs EXCEPT ![r] = j], w, back2, un2)
<1>. DEFINE next == [jobs EXCEPT ![r] = j]
<1>1. /\ Total(Held(jobs), Request) \in Nat /\ Total(Due(jobs), Request) \in Nat
      /\ Total(Held(next), Request) \in Nat /\ Total(Due(next), Request) \in Nat
      /\ Total(Held(next), Request) + HeldBy(jobs[r]) = Total(Held(jobs), Request) + HeldBy(j)
      /\ Total(Due(next), Request) + DueTo(jobs[r]) = Total(Due(jobs), Request) + DueTo(j)
  BY SumsMove
<1>2. /\ HeldBy(j) \in Nat /\ DueTo(j) \in Nat /\ HeldBy(jobs[r]) \in Nat /\ DueTo(jobs[r]) \in Nat
  BY HeldNat
<1>3. v.pend \in Nat /\ w.pend \in Nat /\ v.refd \in Nat /\ w.refd \in Nat
  BY DEF Row
<1>4. /\ Total(Held(jobs), Request) <= v.pend
      /\ back + Total(Due(jobs), Request) <= v.refd + v.pend + un
  BY DEF Accounts
<1>. HIDE DEF next
<1>5. Total(Held(next), Request) <= w.pend
  BY <1>1, <1>2, <1>3, <1>4
<1>6. back2 + Total(Due(next), Request) <= w.refd + w.pend + un2
  BY <1>1, <1>2, <1>3, <1>4
<1>. QED
  BY <1>5, <1>6 DEF Accounts, next

\* A write of the row by somebody else keeps what is known of the copies.
LEMMA MoneyFrame ==
    ASSUME IInv, Money, NEW w \in Row, Moves(row, w)
    PROVE  /\ \A r \in Request : JobMoney(job[r], w)
           /\ \A e \in Notice : HookMoney(hook[e], w)
<1>1. row \in Row /\ row.ver \in Nat /\ w.ver \in Nat /\ (w = row \/ w.ver = row.ver + 1)
  BY DEF IInv, TypeOK, Row, Moves
<1>2. ASSUME NEW r \in Request PROVE JobMoney(job[r], w)
  <2>1. job[r] \in Job /\ job[r].copy.ver \in Nat /\ JobInv(job[r], row) /\ JobMoney(job[r], row)
    BY DEF IInv, TypeOK, Consistent, Money, Job, Row
  <2>2. CASE w.ver = row.ver + 1
    <3>1. /\ job[r].pc \in {"create", "provider", "record"} => job[r].copy.ver <= row.ver
          /\ job[r].pc \in {"reserve", "update"} => job[r].copy.ver <= row.ver + 1
      BY <2>1 DEF JobInv, Read, Write
    <3>. QED
      BY <1>1, <2>1, <2>2, <3>1 DEF JobMoney
  <2>. QED
    BY <1>1, <2>1, <2>2
<1>3. ASSUME NEW e \in Notice PROVE HookMoney(hook[e], w)
  <2>1. hook[e].copy.ver \in Nat /\ HookMoney(hook[e], row)
    BY DEF IInv, TypeOK, Money, Row
  <2>. QED
    BY <1>1, <2>1 DEF HookMoney
<1>. QED
  BY <1>2, <1>3

\* A request makes a step.
LEMMA MoneyJobStep ==
    ASSUME IInv, Money, NEW r \in Request, NEW j \in Job, job' = [job EXCEPT ![r] = j],
           row' \in Row, Moves(row, row'), JobMoney(j, row'), hook' = hook,
           returned' \in Nat, lost' \in Nat,
           row.pend + HeldBy(j) <= row'.pend + HeldBy(job[r]),
           returned' + DueTo(j) + row.refd + row.pend + lost
              <= row'.refd + row'.pend + lost' + returned + DueTo(job[r])
    PROVE  Money'
<1>1. PICK w \in Row : w = row'
  OBVIOUS
<1>2. /\ \A q \in Request : JobMoney(job[q], w)
      /\ \A e \in Notice : HookMoney(hook[e], w)
  BY <1>1, MoneyFrame
<1>3. job \in [Request -> Job] /\ row \in Row /\ returned \in Nat /\ lost \in Nat
  BY DEF IInv, TypeOK
<1>4. \A q \in Request : job'[q] = IF q = r THEN j ELSE job[q]
  BY <1>3
<1>5. \A q \in Request : JobMoney(job'[q], w)
  BY <1>1, <1>2, <1>4
<1>6. Accounts([job EXCEPT ![r] = j], w, returned', lost')
  <2>1. PICK back \in Nat, un \in Nat : back = returned' /\ un = lost'
    OBVIOUS
  <2>2. /\ row.pend + HeldBy(j) <= w.pend + HeldBy(job[r])
        /\ back + DueTo(j) + row.refd + row.pend + lost <= w.refd + w.pend + un + returned + DueTo(job[r])
    BY <1>1, <2>1
  <2>3. Accounts([job EXCEPT ![r] = j], w, back, un)
    BY <1>3, <2>2, AccountsMove DEF Money
  <2>. QED
    BY <2>1, <2>3
<1>. QED
  BY <1>1, <1>2, <1>5, <1>6 DEF Money

\* The webhook makes a step.
LEMMA MoneyHookStep ==
    ASSUME IInv, Money, NEW e \in Notice, NEW h \in Hook, hook' = [hook EXCEPT ![e] = h],
           row' \in Row, Moves(row, row'), Same(row', row), HookMoney(h, row'),
           UNCHANGED <<job, returned, lost>>
    PROVE  Money'
<1>1. PICK w \in Row : w = row'
  OBVIOUS
<1>2. /\ \A q \in Request : JobMoney(job[q], w)
      /\ \A d \in Notice : HookMoney(hook[d], w)
  BY <1>1, MoneyFrame
<1>3. hook \in [Notice -> Hook]
  BY DEF IInv, TypeOK, Hook
<1>4. \A d \in Notice : hook'[d] = IF d = e THEN h ELSE hook[d]
  BY <1>3
<1>5. \A d \in Notice : HookMoney(hook'[d], w)
  BY <1>1, <1>2, <1>4
<1>6. Accounts(job, w, returned, lost)
  BY <1>1 DEF Money, Accounts, Same
<1>. QED
  BY <1>1, <1>2, <1>5, <1>6 DEF Money

\* A handler that is past its use of the payment holds nothing.
LEMMA PlainMoney ==
    ASSUME NEW l \in {"timeout", "announce", "done"}, NEW o \in Op, NEW w
    PROVE  /\ Plain(l, o) \in Job /\ JobMoney(Plain(l, o), w)
           /\ HeldBy(Plain(l, o)) = 0 /\ DueTo(Plain(l, o)) = 0
<1>1. Plain(l, o) \in Job /\ Plain(l, o).pc = l
  BY PlainSound DEF JobPC
<1>. QED
  BY <1>1 DEF JobMoney, HeldBy, DueTo, Holds


\* A request goes on, holding no more than before, and the row stays.
LEMMA MoneyQuiet ==
    ASSUME IInv, Money, NEW r \in Request, NEW j \in Job, job' = [job EXCEPT ![r] = j],
           row' = row, hook' = hook, returned' = returned, lost' = lost, JobMoney(j, row),
           HeldBy(j) <= HeldBy(job[r]), DueTo(j) <= DueTo(job[r])
    PROVE  Money'
<1>1. /\ row \in Row /\ returned \in Nat /\ lost \in Nat /\ job[r] \in Job
      /\ row.pend \in Nat /\ row.refd \in Nat
  BY DEF IInv, TypeOK, Row
<1>2. HeldBy(j) \in Nat /\ DueTo(j) \in Nat /\ HeldBy(job[r]) \in Nat /\ DueTo(job[r]) \in Nat
  BY <1>1, HeldNat
<1>3. /\ row'.pend = row.pend /\ row'.refd = row.refd /\ row' \in Row /\ Moves(row, row')
      /\ JobMoney(j, row')
  BY <1>1 DEF Moves
<1>4. row.pend + HeldBy(j) <= row'.pend + HeldBy(job[r])
  BY <1>1, <1>2, <1>3
<1>5. returned' + DueTo(j) + row.refd + row.pend + lost
              <= row'.refd + row'.pend + lost' + returned + DueTo(job[r])
  BY <1>1, <1>2, <1>3
<1>. QED
  BY <1>1, <1>3, <1>4, <1>5, MoneyJobStep

\* A request ends, with or without a write that touches nothing else of the refunds.
LEMMA MoneyReturn ==
    ASSUME IInv, Money, NEW r \in Request, NEW l \in {"timeout", "announce", "done"}, NEW o \in Op,
           job' = [job EXCEPT ![r] = Plain(l, o)], row' = row, hook' = hook,
           returned' = returned, lost' = lost
    PROVE  Money'
<1>1. /\ Plain(l, o) \in Job /\ JobMoney(Plain(l, o), row)
      /\ HeldBy(Plain(l, o)) = 0 /\ DueTo(Plain(l, o)) = 0
  BY PlainMoney
<1>2. HeldBy(job[r]) \in Nat /\ DueTo(job[r]) \in Nat
  BY HeldNat DEF IInv, TypeOK
<1>3. HeldBy(Plain(l, o)) <= HeldBy(job[r]) /\ DueTo(Plain(l, o)) <= DueTo(job[r])
  BY <1>1, <1>2
<1>. QED
  BY <1>1, <1>3, MoneyQuiet

\* The same for Return.
LEMMA MoneyReturns ==
    ASSUME IInv, Money, NEW r \in Request, Return(r), row' = row, hook' = hook,
           returned' = returned, lost' = lost
    PROVE  Money'
BY MoneyReturn DEF Return, DoneJob, Op

\* The amounts that the operations of domain.Payment leave behind.
LEMMA Amounts ==
    ASSUME NEW p \in Row, NEW n \in Nat
    PROVE  /\ Same(Authorize(p), p) /\ Same(Capture(p, n), p) /\ Same(Cancel(p), p)
           /\ Same(Fail(p), p) /\ Same(Complete(p), p)
           /\ ReserveRefund(p, n).refd = p.refd /\ ReserveRefund(p, n).pend = p.pend + n
           /\ CommitRefund(p, n).refd = p.refd + n /\ CommitRefund(p, n).pend = p.pend - n
           /\ ReleaseRefundReservation(p, n).refd = p.refd
           /\ ReleaseRefundReservation(p, n).pend = p.pend - n
           /\ Authorize(p).ver = p.ver + 1 /\ Capture(p, n).ver = p.ver + 1
           /\ Cancel(p).ver = p.ver + 1 /\ Fail(p).ver = p.ver + 1 /\ Complete(p).ver = p.ver + 1
           /\ ReserveRefund(p, n).ver = p.ver + 1 /\ CommitRefund(p, n).ver = p.ver + 1
           /\ ReleaseRefundReservation(p, n).ver = p.ver + 1
BY DEF Row, Same, Authorize, Capture, Cancel, Fail, Complete, ReserveRefund, CommitRefund,
       ReleaseRefundReservation

\* CreatePayment: nothing is reserved and nothing paid back yet.
LEMMA CreatePaymentMoney ==
    ASSUME IInv, IInv', Money, NEW r \in Request, CreatePayment(r)
    PROVE  Money'
<1>. DEFINE j == [pc |-> "provider", op |-> "create", amt |-> 0, ok |-> FALSE, copy |-> row']
<1>1. /\ row \in Row /\ Sound(row) /\ row.status = "NONE" /\ job[r] \in Job /\ job \in [Request -> Job]
      /\ returned \in Nat /\ lost \in Nat /\ row' \in Row
      /\ job' = [job EXCEPT ![r] = j] /\ hook' = hook /\ returned' = returned /\ lost' = lost
  BY DEF IInv, TypeOK, Consistent, CreatePayment, hookVars, moneyVars
<1>2. row.refd = 0 /\ row.pend = 0
  BY <1>1 DEF Sound, Row
<1>3. row'.refd = 0 /\ row'.pend = 0
  <2>1. NoRow \in Row /\ NoRow.refd = 0 /\ NoRow.pend = 0 /\ row' = [NoRow EXCEPT !.status = "PENDING"]
    BY PlainSound DEF CreatePayment, NoRow
  <2>. QED
    BY <2>1 DEF Row
<1>4. j \in Job
  BY <1>1 DEF Job, JobPC, Op
<1>5. HeldBy(j) = 0 /\ DueTo(j) = 0 /\ JobMoney(j, row')
  BY DEF HeldBy, DueTo, Holds, JobMoney, Same
<1>6. \A q \in Request : job[q].pc = "new" /\ job[q] \in Job
  BY <1>1 DEF IInv, TypeOK, Consistent, JobInv
<1>7. \A q \in Request : JobMoney(job'[q], row')
  <2>1. ASSUME NEW q \in Request PROVE job'[q] = j \/ job'[q].pc = "new"
    BY <1>1, <1>6
  <2>2. \A k : k.pc = "new" => JobMoney(k, row')
    BY DEF JobMoney
  <2>. QED
    BY <1>5, <2>1, <2>2
<1>8. \A e \in Notice : HookMoney(hook'[e], row')
  <2>1. \A e \in Notice : hook[e].pc = "new"
    BY <1>1 DEF IInv, Consistent, HookInv
  <2>. QED
    BY <1>1, <2>1 DEF HookMoney
<1>9. HeldBy(job[r]) \in Nat /\ DueTo(job[r]) \in Nat
  BY <1>1, HeldNat
<1>10. PICK w \in Row : w = row'
  BY <1>1
<1>11. Accounts([job EXCEPT ![r] = j], w, returned, lost)
  <2>1. /\ row.pend + HeldBy(j) <= w.pend + HeldBy(job[r])
        /\ returned + DueTo(j) + row.refd + row.pend + lost
              <= w.refd + w.pend + lost + returned + DueTo(job[r])
    BY <1>1, <1>2, <1>3, <1>5, <1>9, <1>10
  <2>. QED
    BY <1>1, <1>4, <1>10, <2>1, AccountsMove DEF Money
<1>. QED
  BY <1>1, <1>7, <1>8, <1>10, <1>11 DEF Money

\* ReadPayment: the copy is the row.
LEMMA ReadPaymentMoney ==
    ASSUME IInv, Money, NEW r \in Request, NEW op \in {"authorize", "capture", "cancel"}, NEW n \in Nat,
           ReadPayment(r, op, n)
    PROVE  Money'
<1>. DEFINE j == [pc |-> "provider", op |-> op, amt |-> n, ok |-> FALSE, copy |-> row]
<1>1. /\ row \in Row /\ row' = row /\ hook' = hook /\ returned' = returned /\ lost' = lost
      /\ job' = [job EXCEPT ![r] = j] /\ job[r] \in Job
  BY DEF IInv, TypeOK, ReadPayment, hookVars, moneyVars
<1>2. j \in Job
  BY <1>1 DEF Job, JobPC, Op
<1>3. HeldBy(j) = 0 /\ DueTo(j) = 0 /\ JobMoney(j, row)
  BY DEF HeldBy, DueTo, Holds, JobMoney, Same
<1>4. HeldBy(job[r]) \in Nat /\ DueTo(job[r]) \in Nat
  BY <1>1, HeldNat
<1>5. HeldBy(j) <= HeldBy(job[r]) /\ DueTo(j) <= DueTo(job[r])
  BY <1>3, <1>4
<1>. HIDE DEF j
<1>. QED
  BY <1>1, <1>2, <1>3, <1>5, MoneyQuiet

\* ReadForRefund: the copy has the reservation.
LEMMA ReadForRefundMoney ==
    ASSUME IInv, Money, NEW r \in Request, NEW n \in Nat, ReadForRefund(r, n)
    PROVE  Money'
<1>. DEFINE j == [pc |-> "reserve", op |-> "refund", amt |-> n, ok |-> FALSE,
                  copy |-> ReserveRefund(row, n)]
<1>1. /\ row \in Row /\ row' = row /\ hook' = hook /\ returned' = returned /\ lost' = lost
      /\ job' = [job EXCEPT ![r] = j] /\ job[r] \in Job /\ Sound(row) /\ CanRefund(row, n)
  BY DEF IInv, TypeOK, Consistent, ReadForRefund, hookVars, moneyVars
<1>2. /\ ReserveRefund(row, n) \in Row
      /\ ReserveRefund(row, n).refd = row.refd /\ ReserveRefund(row, n).pend = row.pend + n
  BY <1>1, ReserveSound, Amounts
<1>3. j \in Job
  BY <1>2 DEF Job, JobPC, Op
<1>4. HeldBy(j) = 0 /\ DueTo(j) = 0 /\ JobMoney(j, row)
  BY <1>2 DEF HeldBy, DueTo, Holds, JobMoney
<1>5. HeldBy(job[r]) \in Nat /\ DueTo(job[r]) \in Nat
  BY <1>1, HeldNat
<1>6. HeldBy(j) <= HeldBy(job[r]) /\ DueTo(j) <= DueTo(job[r])
  BY <1>4, <1>5
<1>. HIDE DEF j
<1>. QED
  BY <1>1, <1>3, <1>4, <1>6, MoneyQuiet

\* SaveReservation: what is held is in the row.
LEMMA SaveReservationMoney ==
    ASSUME IInv, Money, NEW r \in Request, SaveReservation(r)
    PROVE  Money'
<1>. DEFINE c == job[r].copy
            j == [pc |-> "create", op |-> job[r].op, amt |-> job[r].amt, ok |-> job[r].ok,
                  copy |-> job[r].copy]
<1>1. job[r].pc = "reserve" /\ hook' = hook /\ returned' = returned /\ lost' = lost
  BY DEF SaveReservation, At, hookVars, moneyVars
<1>2. /\ row \in Row /\ row.status # "NONE" /\ job[r] \in Job /\ JobInv(job[r], row)
      /\ JobMoney(job[r], row) /\ returned \in Nat /\ lost \in Nat
  BY <1>1, AtWork DEF IInv, TypeOK, Money
<1>3. /\ job[r].op = "refund" /\ c \in Row /\ c.ver \in Nat /\ row.ver \in Nat
      /\ c.status = "CAPTURED" /\ job[r].amt \in Nat /\ row.pend \in Nat /\ row.refd \in Nat
  BY <1>1, <1>2 DEF JobInv, Job, Row, Started
<1>4. HeldBy(job[r]) = 0 /\ DueTo(job[r]) = 0
  BY <1>1 DEF HeldBy, DueTo, Holds
<1>5. UnchangedSince(c) => Moves(row, c) /\ c.refd = row.refd /\ c.pend = row.pend + job[r].amt
  BY <1>1, <1>2, <1>3 DEF UnchangedSince, Moves, JobMoney
<1>6. CASE UnchangedSince(c) /\ row' = c /\ Goto(r, "create")
  <2>1. job' = [job EXCEPT ![r] = j]
    BY <1>6 DEF Goto, Advance
  <2>2. j \in Job
    BY <1>2 DEF Job, JobPC
  <2>3. HeldBy(j) = job[r].amt /\ DueTo(j) = job[r].amt
    BY <1>3 DEF HeldBy, DueTo, Holds, Paid
  <2>4. JobMoney(j, c)
    BY DEF JobMoney, Same
  <2>5. /\ row.pend + HeldBy(j) <= row'.pend + HeldBy(job[r])
        /\ returned' + DueTo(j) + row.refd + row.pend + lost
              <= row'.refd + row'.pend + lost' + returned + DueTo(job[r])
    BY <1>1, <1>2, <1>3, <1>4, <1>5, <1>6, <2>3
  <2>. HIDE DEF j
  <2>. QED
    BY <1>1, <1>2, <1>3, <1>5, <1>6, <2>1, <2>2, <2>4, <2>5, MoneyJobStep
<1>7. CASE row' = row /\ Return(r)
  BY <1>1, <1>7, MoneyReturns
<1>8. CASE UnchangedSince(c) /\ row' = c /\ Return(r)
  <2>1. job' = [job EXCEPT ![r] = Plain("done", "create")]
    BY <1>8 DEF Return, DoneJob
  <2>2. /\ Plain("done", "create") \in Job /\ JobMoney(Plain("done", "create"), c)
        /\ HeldBy(Plain("done", "create")) = 0 /\ DueTo(Plain("done", "create")) = 0
    BY PlainMoney DEF Op
  <2>3. /\ row.pend + HeldBy(Plain("done", "create")) <= row'.pend + HeldBy(job[r])
        /\ returned' + DueTo(Plain("done", "create")) + row.refd + row.pend + lost
              <= row'.refd + row'.pend + lost' + returned + DueTo(job[r])
    BY <1>1, <1>2, <1>3, <1>4, <1>5, <1>8, <2>2
  <2>. QED
    BY <1>1, <1>2, <1>3, <1>5, <1>8, <2>1, <2>2, <2>3, MoneyJobStep
<1>. QED
  BY <1>6, <1>7, <1>8 DEF SaveReservation

\* What becomes of a reservation frees what the job holds, and books what is paid.
LEMMA SettledMoney ==
    ASSUME IInv, Money, NEW r \in Request, NEW ok \in BOOLEAN,
           job[r].pc \in {"create", "record"}, job[r].op = "refund",
           Advance(r, "update", ok, SettledRefund(r, ok)),
           ~ok => ~Paid(job[r]),
           row' = row, hook' = hook, returned' = returned, lost' = lost
    PROVE  Money'
<1>. DEFINE c == job[r].copy
            n == job[r].amt
            s == SettledRefund(r, ok)
            j == [pc |-> "update", op |-> job[r].op, amt |-> n, ok |-> ok, copy |-> s]
<1>1. /\ row \in Row /\ job[r] \in Job /\ JobInv(job[r], row) /\ JobMoney(job[r], row)
  BY AtWork DEF Money
<1>2. /\ c \in Row /\ Read(c, row) /\ n \in Nat /\ n <= c.pend /\ c.ver \in Nat /\ row.ver \in Nat
      /\ c.pend \in Nat /\ c.refd \in Nat
  BY <1>1 DEF JobInv, Started, Job, Row
<1>3. s \in Row
  BY SettledSound
<1>4. /\ s.ver = c.ver + 1 /\ s.pend = c.pend - n /\ s.refd = IF ok THEN c.refd + n ELSE c.refd
  BY <1>2, Amounts DEF SettledRefund
<1>5. j \in Job /\ job' = [job EXCEPT ![r] = j]
  BY <1>1, <1>3 DEF Job, JobPC, Advance
<1>6. HeldBy(j) = n /\ DueTo(j) = (IF ok THEN 0 ELSE n) /\ HeldBy(job[r]) = n
  BY DEF HeldBy, DueTo, Holds, Paid
<1>7. DueTo(job[r]) \in Nat /\ (~ok => DueTo(job[r]) = n)
  BY <1>1, HeldNat DEF DueTo, Holds
<1>8. JobMoney(j, row)
  <2>1. s.ver = row.ver + 1 => Same(c, row)
    <3>1. s.ver = row.ver + 1 => c.ver = row.ver
      BY <1>2, <1>4
    <3>2. c.ver = row.ver => Same(c, row)
      BY <1>1 DEF JobMoney
    <3>. QED
      BY <3>1, <3>2
  <2>2. s.ver = row.ver + 1 => s.pend + HeldBy(j) = row.pend /\ s.refd + DueTo(j) = row.refd + HeldBy(j)
    BY <1>2, <1>4, <1>6, <2>1 DEF Same
  <2>. QED
    BY <2>2 DEF JobMoney
<1>9. HeldBy(j) <= HeldBy(job[r]) /\ DueTo(j) <= DueTo(job[r])
  BY <1>2, <1>6, <1>7
<1>. HIDE DEF j
<1>. QED
  BY <1>5, <1>8, <1>9, MoneyQuiet

\* CreateRefundRow
LEMMA CreateRefundRowMoney ==
    ASSUME IInv, Money, NEW r \in Request, CreateRefundRow(r)
    PROVE  Money'
<1>. DEFINE j == [pc |-> "provider", op |-> job[r].op, amt |-> job[r].amt, ok |-> job[r].ok,
                  copy |-> job[r].copy]
<1>1. /\ job[r].pc = "create" /\ row' = row /\ hook' = hook /\ returned' = returned /\ lost' = lost
  BY DEF CreateRefundRow, At, hookVars, moneyVars
<1>2. job[r] \in Job /\ job[r].op = "refund" /\ JobMoney(job[r], row)
  BY <1>1, AtWork DEF JobInv, Money
<1>3. CASE Goto(r, "provider")
  <2>1. job' = [job EXCEPT ![r] = j] /\ j \in Job
    BY <1>2, <1>3 DEF Goto, Advance, Job, JobPC
  <2>2. /\ HeldBy(j) = job[r].amt /\ DueTo(j) = job[r].amt /\ job[r].amt \in Nat
        /\ HeldBy(job[r]) = job[r].amt /\ DueTo(job[r]) = job[r].amt
    BY <1>1, <1>2 DEF HeldBy, DueTo, Holds, Paid, Job
  <2>3. JobMoney(j, row)
    BY <1>1, <1>2 DEF JobMoney
  <2>4. HeldBy(j) <= HeldBy(job[r]) /\ DueTo(j) <= DueTo(job[r])
    BY <2>2
  <2>. HIDE DEF j
  <2>. QED
    BY <1>1, <2>1, <2>3, <2>4, MoneyQuiet
<1>4. CASE Advance(r, "update", FALSE, SettledRefund(r, FALSE))
  <2>1. ~Paid(job[r])
    BY <1>1 DEF Paid
  <2>. QED
    BY <1>1, <1>2, <1>4, <2>1, SettledMoney
<1>. QED
  BY <1>3, <1>4 DEF CreateRefundRow

\* CallRefund: what Stripe pays back is not due any more, or it is lost track of.
LEMMA CallRefundMoney ==
    ASSUME IInv, Money, NEW r \in Request, CallRefund(r)
    PROVE  Money'
<1>1. PICK ok \in BOOLEAN : RefundAtProvider(r, ok) /\ Advance(r, "record", ok, job[r].copy)
  BY DEF CallRefund
<1>. DEFINE n == job[r].amt
            j == [pc |-> "record", op |-> job[r].op, amt |-> n, ok |-> ok, copy |-> job[r].copy]
<1>2. /\ job[r].pc = "provider" /\ job[r].op = "refund" /\ row' = row /\ hook' = hook
  BY DEF CallRefund, At, hookVars
<1>3. /\ row \in Row /\ job[r] \in Job /\ JobMoney(job[r], row) /\ n \in Nat
      /\ returned \in Nat /\ lost \in Nat /\ row.pend \in Nat /\ row.refd \in Nat
  BY <1>2, AtWork DEF IInv, TypeOK, Money, Job, Row
<1>4. j \in Job /\ job' = [job EXCEPT ![r] = j]
  BY <1>1, <1>3 DEF Job, JobPC, Advance
<1>5. JobMoney(j, row)
  BY <1>2, <1>3 DEF JobMoney
<1>6. HeldBy(j) = n /\ DueTo(j) = (IF ok THEN 0 ELSE n) /\ HeldBy(job[r]) = n /\ DueTo(job[r]) = n
  BY <1>2 DEF HeldBy, DueTo, Holds, Paid
<1>7. \/ ok /\ returned' = returned + n /\ lost' = lost
      \/ ~ok /\ returned' = returned /\ lost' = lost
      \/ ~ok /\ returned' = returned + n /\ lost' = lost + n
  BY <1>1 DEF RefundAtProvider
<1>8. returned' \in Nat /\ lost' \in Nat /\ row' \in Row /\ Moves(row, row') /\ JobMoney(j, row')
  BY <1>2, <1>3, <1>5, <1>7 DEF Moves
<1>9. /\ row.pend + HeldBy(j) <= row'.pend + HeldBy(job[r])
      /\ returned' + DueTo(j) + row.refd + row.pend + lost
              <= row'.refd + row'.pend + lost' + returned + DueTo(job[r])
  <2>1. row'.pend = row.pend /\ row'.refd = row.refd
    BY <1>2
  <2>. QED
    BY <1>3, <1>6, <1>7, <2>1
<1>. HIDE DEF j
<1>. QED
  BY <1>2, <1>4, <1>8, <1>9, MoneyJobStep

\* CallProvider is about operations that hold nothing.
LEMMA CallProviderMoney ==
    ASSUME IInv, Money, NEW r \in Request, CallProvider(r)
    PROVE  Money'
<1>1. /\ job[r].pc = "provider" /\ job[r].op # "refund" /\ row' = row /\ hook' = hook
      /\ returned' = returned /\ lost' = lost
  BY DEF CallProvider, At, moneyVars
<1>2. job[r] \in Job /\ job[r].op \in Op /\ JobMoney(job[r], row)
  BY <1>1, AtWork DEF Money, Job
<1>3. ASSUME NEW ok \in BOOLEAN, Advance(r, "record", ok, job[r].copy) PROVE Money'
  <2>. DEFINE j == [pc |-> "record", op |-> job[r].op, amt |-> job[r].amt, ok |-> ok,
                    copy |-> job[r].copy]
  <2>1. job' = [job EXCEPT ![r] = j] /\ j \in Job
    BY <1>2, <1>3 DEF Advance, Job, JobPC
  <2>2. HeldBy(j) = 0 /\ DueTo(j) = 0 /\ HeldBy(job[r]) = 0 /\ DueTo(job[r]) = 0
    BY <1>1 DEF HeldBy, DueTo, Holds
  <2>3. JobMoney(j, row)
    BY <1>1, <1>2 DEF JobMoney
  <2>4. HeldBy(j) <= HeldBy(job[r]) /\ DueTo(j) <= DueTo(job[r])
    BY <2>2
  <2>. HIDE DEF j
  <2>. QED
    BY <1>1, <2>1, <2>3, <2>4, MoneyQuiet
<1>4. CASE Return(r)
  BY <1>1, <1>4, MoneyReturns
<1>5. CASE Finish(r, "timeout")
  BY <1>1, <1>2, <1>5, MoneyReturn DEF Finish
<1>. QED
  BY <1>3, <1>4, <1>5 DEF CallProvider

\* RecordAttempt: the copy has the amounts of the row it was made from.
LEMMA RecordAttemptMoney ==
    ASSUME IInv, Money, NEW r \in Request, RecordAttempt(r)
    PROVE  Money'
<1>1. /\ job[r].pc = "record" /\ job[r].op # "refund" /\ row' = row /\ hook' = hook
      /\ returned' = returned /\ lost' = lost
  BY DEF RecordAttempt, At, hookVars, moneyVars
<1>2. /\ row \in Row /\ job[r] \in Job /\ JobInv(job[r], row) /\ JobMoney(job[r], row)
  BY <1>1, AtWork DEF Money
<1>. DEFINE p == job[r].copy
<1>3. p \in Row /\ p.ver \in Nat /\ row.ver \in Nat /\ job[r].amt \in Nat /\ job[r].op \in Op
      /\ p.pend \in Nat /\ p.refd \in Nat
  BY <1>2 DEF Job, Row
<1>4. ASSUME NEW ok \in BOOLEAN, NEW c \in Row, Same(c, p), c.ver = p.ver + 1,
             Advance(r, "update", ok, c)
      PROVE  Money'
  <2>. DEFINE j == [pc |-> "update", op |-> job[r].op, amt |-> job[r].amt, ok |-> ok, copy |-> c]
  <2>1. job' = [job EXCEPT ![r] = j] /\ j \in Job
    BY <1>2, <1>4 DEF Advance, Job, JobPC
  <2>2. HeldBy(j) = 0 /\ DueTo(j) = 0 /\ HeldBy(job[r]) = 0 /\ DueTo(job[r]) = 0
    BY <1>1 DEF HeldBy, DueTo, Holds
  <2>3. JobMoney(j, row)
    <3>1. c.ver = row.ver + 1 => Same(p, row)
      BY <1>1, <1>2, <1>3, <1>4 DEF JobMoney
    <3>2. c.ver = row.ver + 1 => c.pend + HeldBy(j) = row.pend /\ c.refd + DueTo(j) = row.refd + HeldBy(j)
      BY <1>3, <1>4, <2>2, <3>1 DEF Same
    <3>. QED
      BY <3>2 DEF JobMoney
  <2>4. HeldBy(j) <= HeldBy(job[r]) /\ DueTo(j) <= DueTo(job[r])
    BY <2>2
  <2>. HIDE DEF j
  <2>. QED
    BY <1>1, <2>1, <2>3, <2>4, MoneyQuiet
<1>5. CASE job[r].ok /\ Advance(r, "update", TRUE, Applied(job[r].op, p, job[r].amt))
  <2>1. Applied(job[r].op, p, job[r].amt) \in Row
    BY <1>1, <1>5, AppliedSound
  <2>2. Same(Applied(job[r].op, p, job[r].amt), p) /\ Applied(job[r].op, p, job[r].amt).ver = p.ver + 1
    <3>1. Applied(job[r].op, p, job[r].amt) \in {Authorize(p), Capture(p, job[r].amt), Cancel(p)}
      BY <1>1, <1>3 DEF Applied, Op
    <3>. QED
      BY <1>3, <3>1, Amounts
  <2>. QED
    BY <1>4, <1>5, <2>1, <2>2
<1>6. CASE job[r].op = "create" /\ Advance(r, "update", FALSE, Fail(p))
  <2>1. Sound(p) /\ p.status = "PENDING"
    BY <1>1, <1>2, <1>6 DEF JobInv, Started
  <2>2. Fail(p) \in Row /\ Same(Fail(p), p) /\ Fail(p).ver = p.ver + 1
    BY <1>3, <2>1, FailSound, Amounts
  <2>. QED
    BY <1>4, <1>6, <2>2
<1>7. CASE Return(r)
  BY <1>1, <1>7, MoneyReturns
<1>. QED
  BY <1>5, <1>6, <1>7 DEF RecordAttempt

\* RecordRefund
LEMMA RecordRefundMoney ==
    ASSUME IInv, Money, NEW r \in Request, RecordRefund(r)
    PROVE  Money'
<1>1. /\ job[r].pc = "record" /\ job[r].op = "refund" /\ row' = row /\ hook' = hook
      /\ returned' = returned /\ lost' = lost
      /\ Advance(r, "update", job[r].ok, SettledRefund(r, job[r].ok))
  BY DEF RecordRefund, At, hookVars, moneyVars
<1>2. PICK ok \in BOOLEAN : ok = job[r].ok
  BY DEF IInv, TypeOK, Job
<1>3. ~ok => ~Paid(job[r])
  BY <1>2 DEF Paid
<1>. QED
  BY <1>1, <1>2, <1>3, SettledMoney

\* UpdateConditional: what is not held any more is booked or released, or stays reserved.
LEMMA UpdateConditionalMoney ==
    ASSUME IInv, Money, NEW r \in Request, UpdateConditional(r)
    PROVE  Money'
<1>. DEFINE c == job[r].copy
<1>1. job[r].pc = "update" /\ hook' = hook /\ returned' = returned /\ lost' = lost
  BY DEF UpdateConditional, At, hookVars
<1>2. /\ row \in Row /\ row.status # "NONE" /\ job[r] \in Job /\ JobInv(job[r], row)
      /\ JobMoney(job[r], row) /\ job[r].op \in Op /\ returned \in Nat /\ lost \in Nat
  BY <1>1, AtWork DEF IInv, TypeOK, Money, Job
<1>3. /\ c \in Row /\ c.status # "NONE" /\ c.ver \in Nat /\ row.ver \in Nat
      /\ c.pend \in Nat /\ c.refd \in Nat /\ row.pend \in Nat /\ row.refd \in Nat
  BY <1>1, <1>2 DEF JobInv, Job, Row
<1>4. HeldBy(job[r]) \in Nat /\ DueTo(job[r]) \in Nat
  BY <1>2, HeldNat
<1>5. row' = row \/ (UnchangedSince(c) /\ row' = c)
  BY DEF UpdateConditional
<1>6. UnchangedSince(c) => /\ Moves(row, c) /\ c.pend + HeldBy(job[r]) = row.pend
                           /\ c.refd + DueTo(job[r]) = row.refd + HeldBy(job[r])
  BY <1>1, <1>2, <1>3 DEF UnchangedSince, Moves, JobMoney
<1>7. PICK l \in {"announce", "done"}, o \in Op : job' = [job EXCEPT ![r] = Plain(l, o)]
  <2>1. \/ job' = [job EXCEPT ![r] = Plain("announce", job[r].op)]
        \/ job' = [job EXCEPT ![r] = Plain("done", "create")]
    BY DEF UpdateConditional, Finish, Return, DoneJob
  <2>2. "create" \in Op
    BY DEF Op
  <2>. QED
    BY <1>2, <2>1, <2>2
<1>8. CASE row' = row
  BY <1>1, <1>7, <1>8, MoneyReturn
<1>9. CASE UnchangedSince(c) /\ row' = c
  <2>1. /\ Plain(l, o) \in Job /\ JobMoney(Plain(l, o), c)
        /\ HeldBy(Plain(l, o)) = 0 /\ DueTo(Plain(l, o)) = 0
    BY PlainMoney
  <2>2. /\ row.pend + HeldBy(Plain(l, o)) <= row'.pend + HeldBy(job[r])
        /\ returned' + DueTo(Plain(l, o)) + row.refd + row.pend + lost
              <= row'.refd + row'.pend + lost' + returned + DueTo(job[r])
    BY <1>1, <1>2, <1>3, <1>4, <1>6, <1>9, <2>1
  <2>. QED
    BY <1>1, <1>2, <1>3, <1>6, <1>7, <1>9, <2>1, <2>2, MoneyJobStep
<1>. QED
  BY <1>5, <1>8, <1>9

\* The webhook and the worker leave the amounts of refunds alone.
LEMMA HookMoneyStep ==
    ASSUME IInv, Money, NEW e \in Notice, RecordNotice(e) \/ Webhook(e)
    PROVE  Money'
<1>1. /\ job' = job /\ returned' = returned /\ lost' = lost /\ row \in Row /\ row.ver \in Nat
      /\ hook \in [Notice -> Hook] /\ hook[e].copy \in Row /\ hook[e].copy.ver \in Nat
  BY DEF IInv, TypeOK, Hook, Row, RecordNotice, Webhook, FindPayment, SaveCompleted, AnnounceCompleted, hookRest
<1>2. ASSUME NEW l \in {"find", "announce", "done"}, hook' = [hook EXCEPT ![e] = PlainHook(l)],
             row' \in Row, Moves(row, row'), Same(row', row)
      PROVE  Money'
  <2>1. PlainHook(l) \in Hook /\ HookMoney(PlainHook(l), row')
    BY PlainSound DEF Hook, PlainHook, HookMoney
  <2>. QED
    BY <1>1, <1>2, <2>1, MoneyHookStep
<1>3. Moves(row, row) /\ Same(row, row)
  BY DEF Moves, Same
<1>4. CASE RecordNotice(e)
  <2>1. row' = row /\ (hook' = hook \/ hook' = [hook EXCEPT ![e] = PlainHook("find")])
    BY <1>4 DEF RecordNotice
  <2>2. CASE hook' = hook
    BY <1>1, <2>1, <2>2 DEF Money
  <2>. QED
    BY <1>1, <1>2, <1>3, <2>1, <2>2
<1>5. CASE FindPayment(e)
  <2>. DEFINE h == [pc |-> "update", copy |-> Complete(row)]
  <2>1. row' = row /\ (hook' = [hook EXCEPT ![e] = h] \/ hook' = [hook EXCEPT ![e] = PlainHook("done")])
    BY <1>5 DEF FindPayment, HookReturn
  <2>2. Sound(row)
    BY DEF IInv, Consistent
  <2>3. Complete(row) \in Row /\ Complete(row).ver = row.ver + 1 /\ Same(Complete(row), row)
    BY <1>1, <2>2, CompleteSound, Amounts
  <2>4. h \in Hook /\ HookMoney(h, row)
    BY <1>1, <2>3 DEF Hook, HookMoney
  <2>. HIDE DEF h
  <2>5. CASE hook' = [hook EXCEPT ![e] = h]
    BY <1>1, <1>3, <2>1, <2>4, <2>5, MoneyHookStep
  <2>. QED
    BY <1>1, <1>2, <1>3, <2>1, <2>5
<1>6. CASE SaveCompleted(e)
  <2>. DEFINE c == hook[e].copy
  <2>1. hook[e].pc = "update" /\ (row' = row \/ (UnchangedSince(c) /\ row' = c))
    BY <1>6 DEF SaveCompleted
  <2>2. \/ hook' = [hook EXCEPT ![e] = PlainHook("announce")]
        \/ hook' = [hook EXCEPT ![e] = PlainHook("done")]
    BY <1>6 DEF SaveCompleted, HookReturn
  <2>3. /\ row.status # "NONE" /\ HookInv(hook[e], row) /\ HookMoney(hook[e], row)
    BY <2>1, HookAtWork DEF Money
  <2>4. UnchangedSince(c) => Moves(row, c) /\ Same(c, row)
    BY <1>1, <2>1, <2>3 DEF UnchangedSince, Moves, HookInv, HookMoney
  <2>5. row' \in Row /\ Moves(row, row') /\ Same(row', row)
    BY <1>1, <1>3, <2>1, <2>4
  <2>. QED
    BY <1>2, <2>2, <2>5
<1>7. CASE AnnounceCompleted(e)
  <2>1. row' = row /\ hook' = [hook EXCEPT ![e] = PlainHook("done")]
    BY <1>7 DEF AnnounceCompleted, HookReturn
  <2>. QED
    BY <1>1, <1>2, <1>3, <2>1
<1>. QED
  BY <1>4, <1>5, <1>6, <1>7 DEF Webhook

\* Restart: what was held stays reserved, and what was due is not paid any more.
LEMMA RestartMoney ==
    ASSUME IInv, IInv', Money, Restart
    PROVE  Money'
<1>1. /\ row' = row /\ returned' = returned /\ lost' = lost
      /\ job' = [r \in Request |-> IF job[r].pc = "new" THEN job[r] ELSE DoneJob]
      /\ hook' = [e \in Notice |-> IF hook[e].pc = "new" THEN hook[e] ELSE PlainHook("done")]
  BY DEF Restart, moneyVars
<1>2. /\ job \in [Request -> Job] /\ job' \in [Request -> Job] /\ row.pend \in Nat /\ row.refd \in Nat
      /\ returned \in Nat /\ lost \in Nat
  BY DEF IInv, TypeOK, Row
<1>3. /\ JobMoney(DoneJob, row) /\ HeldBy(DoneJob) = 0 /\ DueTo(DoneJob) = 0
  BY PlainMoney DEF DoneJob, Op
<1>4. \A q \in Request : JobMoney(job'[q], row')
  BY <1>1, <1>3 DEF Money
<1>5. \A e \in Notice : HookMoney(hook'[e], row')
  BY <1>1, PlainSound DEF Money, HookMoney
<1>6. PICK u, v : u = Held(job) /\ v = Held(job')
  OBVIOUS
<1>7. PICK y, z : y = Due(job) /\ z = Due(job')
  OBVIOUS
<1>8. IsFiniteSet(Request)
  BY PaymentAssumption, FS_Interval DEF PaymentAssumption, Request
<1>9. \A x \in Request : /\ u[x] \in Nat /\ v[x] \in Nat /\ v[x] <= u[x]
                         /\ y[x] \in Nat /\ z[x] \in Nat /\ z[x] <= y[x]
  <2>1. ASSUME NEW x \in Request
        PROVE  /\ HeldBy(job[x]) \in Nat /\ HeldBy(job'[x]) \in Nat /\ HeldBy(job'[x]) <= HeldBy(job[x])
               /\ DueTo(job[x]) \in Nat /\ DueTo(job'[x]) \in Nat /\ DueTo(job'[x]) <= DueTo(job[x])
    <3>1. job[x] \in Job /\ job'[x] \in Job /\ (job'[x] = job[x] \/ job'[x] = DoneJob)
      BY <1>1, <1>2
    <3>. QED
      BY <1>3, <3>1, HeldNat
  <2>. QED
    BY <1>6, <1>7, <2>1 DEF Held, Due
<1>10. /\ Total(v, Request) <= Total(u, Request) /\ Total(u, Request) \in Nat /\ Total(v, Request) \in Nat
  BY <1>8, <1>9, TotalGrows, TotalWithout
<1>11. /\ Total(z, Request) <= Total(y, Request) /\ Total(y, Request) \in Nat /\ Total(z, Request) \in Nat
  BY <1>8, <1>9, TotalGrows, TotalWithout
<1>12. Total(u, Request) <= row.pend /\ returned + Total(y, Request) <= row.refd + row.pend + lost
  BY <1>6, <1>7 DEF Money, Accounts
<1>13. Accounts(job', row, returned, lost)
  BY <1>2, <1>6, <1>7, <1>10, <1>11, <1>12 DEF Accounts
<1>. QED
  BY <1>1, <1>4, <1>5, <1>13 DEF Money

\* Every step keeps the money accounted for.
LEMMA MoneyStep == IInv /\ Money /\ [Next]_vars => Money'
<1>. SUFFICES ASSUME IInv, Money, [Next]_vars PROVE Money'
  OBVIOUS
<1>1. IInv'
  BY NextKeeps
<1>2. ASSUME NEW r \in Request, Arrive(r) PROVE Money'
  <2>1. CASE CreatePayment(r)
    BY <1>1, <2>1, CreatePaymentMoney
  <2>2. CASE ReadPayment(r, "authorize", 0)
    BY <2>2, ReadPaymentMoney
  <2>3. ASSUME NEW n \in CaptureAmount, ReadPayment(r, "capture", n) PROVE Money'
    BY <2>3, ReadPaymentMoney, PaymentAssumption DEF PaymentAssumption
  <2>4. CASE ReadPayment(r, "cancel", 0)
    BY <2>4, ReadPaymentMoney
  <2>5. ASSUME NEW n \in 1..Amount, ReadForRefund(r, n) PROVE Money'
    BY <2>5, ReadForRefundMoney, PaymentAssumption DEF PaymentAssumption
  <2>. QED
    BY <1>2, <2>1, <2>2, <2>3, <2>4, <2>5 DEF Arrive
<1>3. ASSUME NEW r \in Request, Proceed(r) PROVE Money'
  <2>1. CASE MarkUnknown(r) \/ Announce(r)
    BY <2>1, MoneyReturns DEF MarkUnknown, Announce, hookVars, moneyVars
  <2>. QED
    BY <1>3, <2>1, SaveReservationMoney, CreateRefundRowMoney, CallRefundMoney, CallProviderMoney,
       RecordAttemptMoney, RecordRefundMoney, UpdateConditionalMoney DEF Proceed
<1>4. ASSUME NEW r \in Request, StuckRecovery(r) PROVE Money'
  BY <1>4 DEF StuckRecovery, hookVars, moneyVars, Money
<1>5. CASE UNCHANGED vars
  BY <1>5 DEF vars, Money
<1>. QED
  BY <1>1, <1>2, <1>3, <1>4, <1>5, HookMoneyStep, RestartMoney DEF Next

\* Nothing is held at first.
LEMMA MoneyInit == Init => Money
<1>. SUFFICES ASSUME Init PROVE Money
  OBVIOUS
<1>1. /\ \A r \in Request : job[r] = Plain("new", "create")
      /\ row = NoRow /\ returned = 0 /\ lost = 0
  BY DEF Init, NewJob
<1>2. \A j : j.pc = "new" => JobMoney(j, row) /\ HeldBy(j) = 0 /\ DueTo(j) = 0
  BY DEF JobMoney, HeldBy, DueTo, Holds
<1>3. Plain("new", "create").pc = "new"
  BY DEF Plain
<1>4. \A e \in Notice : HookMoney(hook[e], row)
  BY PlainSound DEF Init, HookMoney
<1>5. PICK none : none = [r \in Request |-> 0]
  OBVIOUS
<1>6. Held(job) = none /\ Due(job) = none
  BY <1>1, <1>2, <1>3, <1>5 DEF Held, Due
<1>7. Total(none, Request) = 0
  <2>1. IsFiniteSet(Request)
    BY PaymentAssumption, FS_Interval DEF PaymentAssumption, Request
  <2>2. \A x \in Request : none[x] \in Nat /\ none[x] = 0
    BY <1>5
  <2>. QED
    BY <2>1, <2>2, TotalZero
<1>8. row.pend = 0 /\ row.refd = 0
  BY <1>1 DEF NoRow
<1>. QED
  BY <1>1, <1>2, <1>3, <1>4, <1>6, <1>7, <1>8 DEF Money, Accounts

\* The sum of ReturnedIsAccounted is the one of the invariant.
LEMMA HeldIsInFlight ==
    ASSUME IInv
    PROVE  MapThenSumSet(LAMBDA r : job[r].amt, InFlight) = Total(Held(job), Request)
<1>1. \A r \in Request : job[r].amt \in Nat
  BY DEF IInv, TypeOK, Job
<1>2. IsFiniteSet(Request)
  BY PaymentAssumption, FS_Interval DEF PaymentAssumption, Request
<1>3. PICK w : w = [r \in Request |-> job[r].amt]
  OBVIOUS
<1>4. InFlight \subseteq Request /\ IsFiniteSet(InFlight)
  BY <1>2, FS_Subset DEF InFlight
<1>5. \A r \in Request : w[r] = job[r].amt /\ w[r] \in Nat
  BY <1>1, <1>3
<1>6. Total(w, InFlight) = MapThenSumSet(LAMBDA r : job[r].amt, InFlight)
  <2>. DEFINE f == CHOOSE iter : iter = [s \in SUBSET InFlight |-> IF s = {} THEN 0
                ELSE job[CHOOSE x \in s : TRUE].amt + iter[s \ {CHOOSE x \in s : TRUE}]]
  <2>1. MapThenSumSet(LAMBDA r : job[r].amt, InFlight) = f[InFlight]
    BY Zenon DEF MapThenSumSet, MapThenFoldSet
  <2>2. PICK g \in [SUBSET InFlight -> Nat] : TotalTable(w, InFlight, g)
    BY <1>4, <1>5, TableExists
  <2>3. \A s \in SUBSET InFlight : s # {} =>
            job[CHOOSE x \in s : TRUE].amt = w[CHOOSE x \in s : TRUE]
    BY <1>4, <1>5
  <2>4. g = [s \in SUBSET InFlight |-> IF s = {} THEN 0
                ELSE job[CHOOSE x \in s : TRUE].amt + g[s \ {CHOOSE x \in s : TRUE}]]
    BY <2>2, <2>3 DEF TotalTable
  <2>5. f = [s \in SUBSET InFlight |-> IF s = {} THEN 0
                ELSE job[CHOOSE x \in s : TRUE].amt + f[s \ {CHOOSE x \in s : TRUE}]]
    BY <2>4, Zenon
  <2>. HIDE DEF f
  <2>6. TotalTable(w, InFlight, f)
    BY <2>3, <2>5 DEF TotalTable
  <2>7. \E h : TotalTable(w, InFlight, h) /\ Total(w, InFlight) = h[InFlight]
    BY <2>6, TotalIsTable
  <2>8. PICK h : TotalTable(w, InFlight, h) /\ Total(w, InFlight) = h[InFlight]
    BY <2>7
  <2>9. h[InFlight] = f[InFlight]
    BY <1>4, <2>6, <2>8, TablesAgree
  <2>. QED
    BY <2>1, <2>8, <2>9
<1>7. Total(w, InFlight) = Total(Held(job), Request)
  <2>1. PICK v : v = Held(job)
    OBVIOUS
  <2>2. \A r \in Request : v[r] = (IF r \in InFlight THEN w[r] ELSE 0) /\ v[r] \in Nat
    BY <1>5, <2>1 DEF Held, HeldBy, Holds, InFlight
  <2>. QED
    BY <1>2, <1>4, <1>5, <2>1, <2>2, TotalOver
<1>. QED
  BY <1>6, <1>7

\* The refunds, for any number of requests and any amounts: whatever races for the row and
\* whatever fails, no reservation is shared by two refunds that are under way, and what Stripe
\* has paid back is refunded or reserved in the row, but for what the service was told was not.
THEOREM RefundsAreAccounted == Spec => []ReturnedIsAccounted
<1>1. IInv /\ Money => ReturnedIsAccounted
  <2>. SUFFICES ASSUME IInv, Money PROVE ReturnedIsAccounted
    OBVIOUS
  <2>1. job \in [Request -> Job] /\ row \in Row /\ returned \in Nat /\ lost \in Nat
    BY DEF IInv, TypeOK
  <2>2. Total(Due(job), Request) \in Nat
    <3>1. IsFiniteSet(Request)
      BY PaymentAssumption, FS_Interval DEF PaymentAssumption, Request
    <3>2. \A x \in Request : Due(job)[x] \in Nat
      BY <2>1, HeldNat DEF Due
    <3>. QED
      BY <3>1, <3>2, TotalWithout
  <2>3. row.refd + row.pend + lost \in Nat
    BY <2>1 DEF Row
  <2>4. returned <= row.refd + row.pend + lost
    BY <2>1, <2>2, <2>3 DEF Money, Accounts
  <2>5. MapThenSumSet(LAMBDA r : job[r].amt, InFlight) <= row.pend
    BY HeldIsInFlight DEF Money, Accounts
  <2>. QED
    BY <2>4, <2>5 DEF ReturnedIsAccounted
<1>2. Init => IInv /\ Money
  BY InitInv, MoneyInit
<1>3. IInv /\ Money /\ [Next]_vars => IInv' /\ Money'
  BY NextKeeps, MoneyStep
<1>. QED
  BY <1>1, <1>2, <1>3, PTL DEF Spec

=============================================================================
