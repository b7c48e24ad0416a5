--------------------------- MODULE DeliveryProofs ---------------------------
(***************************************************************************)
(* Proofs about delivery-service.                                          *)
(*                                                                         *)
(* DeliveryLifecycle, for any number of drivers, users, inputs and faults, *)
(* and for every set of statuses that users ask for.  What a process may   *)
(* still do is a sequence of commands; the invariant says of which set     *)
(* they are (Allowed), and what the process in the middle of a command     *)
(* holds (Held).                                                           *)
(*                                                                         *)
(* DeliveryOutbox, for any number of replicas, events, faults and crashes. *)
(***************************************************************************)
EXTENDS DeliveryLifecycle, DeliveryOutbox, SequenceTheorems, TLAPS

-----------------------------------------------------------------------------
(* DeliveryLifecycle *)

\* The commands somebody has reason to run: another search for a driver only
\* after the delivery was announced.
Allowed ==
    {c \in Command :
        /\ c.op = "transition" => c.to \in Status
        /\ c.op = "payment" => c.to \in PaymentStatus
        /\ c.op \in {"retry", "redispatch"} => "PAYMENT_CONFIRMED" \in reached}

ProcRecord == [todo : Seq(Command), catch : Seq(Command), pc : {"read", "append", "save", "emit"},
               base : Row, copy : Row]

\* What a process in the middle of command c holds: the status it is about to
\* save is in the history, it is the one the state machine allows after the
\* row that was read, and it is announced only once it was saved.
Held(j, c) ==
    /\ j.pc = "read" => j.copy = NoRow
    /\ j.pc \in {"append", "emit"} => c.op = "transition"
    /\ j.copy # NoRow => j.copy.status \in Status
    /\ j.pc = "save" /\ j.copy # NoRow => j.copy.status \in hist \cup {"CREATED"}
    /\ c.op = "transition" /\ j.pc \in {"append", "save"} /\ j.copy # NoRow =>
          j.copy.status = c.to /\ canTransition(j.base.status, c.to)
    /\ c.op \in {"payment", "accept"} /\ j.pc = "save" /\ j.copy # NoRow => j.copy.status = j.base.status
    /\ j.pc = "emit" => c.to \in reached /\ statusToKafkaTopic(c.to) # "none"

ProcOK(j) ==
    /\ j \in ProcRecord
    /\ j.todo \in Seq(Allowed) /\ j.catch \in Seq(Allowed)
    /\ j.todo # <<>> => Held(j, Head(j.todo))

ProcInv ==
    /\ proc = [p \in Proc |-> proc[p]]
    /\ \A p \in Proc : ProcOK(proc[p])
    /\ \A p \in Proc : ~Idle(p) => row.status # "NONE"

RowInv ==
    /\ row \in Row
    /\ hist \subseteq Status /\ reached \subseteq Status /\ outbox \subseteq Event
    /\ stale \in BOOLEAN /\ byHand \in BOOLEAN
    /\ row.status # "NONE" => row.status \in reached
    /\ row.status = "NONE" => reached = {} /\ outbox = {} /\ payment = "none" /\ timer = FALSE
    /\ AuditTrail

ExtTypes ==
    /\ payment \in Payment /\ calls \subseteq Call
    /\ timer \in BOOLEAN /\ old \in BOOLEAN
    /\ inputs \in Nat /\ faults \in 0..MaxFaults

\* The inductive invariant.
LifeInv == RowInv /\ ProcInv /\ ExtTypes

-----------------------------------------------------------------------------
(* Facts about the operators *)

LEMMA ShortSeq ==
    ASSUME NEW S, NEW a \in S, NEW b \in S, NEW c \in S
    PROVE  <<>> \in Seq(S) /\ <<a>> \in Seq(S) /\ <<a, b>> \in Seq(S) /\ <<a, b, c>> \in Seq(S)
OBVIOUS

LEMMA ShortSeqNonEmpty ==
    ASSUME NEW a, NEW b, NEW c
    PROVE  <<a>> # <<>> /\ <<a, b>> # <<>> /\ <<a, b, c>> # <<>>
OBVIOUS

LEMMA NoRowType == NoRow \in Row /\ NoRow.status = "NONE"
BY DEF NoRow, Row, PaymentStatus

\* Commands that may run at any time.
LEMMA PlainCommands ==
    /\ \A s \in Status, d \in Driver \cup {NoDriver} : Transition(s, d) \in Allowed
    /\ \A v \in PaymentStatus : UpdatePayment(v) \in Allowed
    /\ Cancel \in Allowed /\ SearchTimeout \in Allowed /\ AskPayment \in Allowed
    /\ \A d \in Driver \cup {NoDriver} : AcceptDriver(d) \in Allowed /\ [ReserveStep EXCEPT !.by = d] \in Allowed
    /\ ReserveStep \in Allowed
BY DEF Allowed, Command, Transition, UpdatePayment, Cancel, SearchTimeout, AskPayment, AcceptDriver,
       ReserveStep, Cmd, Status

\* Commands that search for a driver again.
LEMMA SearchCommands ==
    ASSUME "PAYMENT_CONFIRMED" \in reached
    PROVE  StoreRetry \in Allowed /\ Redispatch \in Allowed
BY DEF Allowed, Command, StoreRetry, Redispatch, Cmd

LEMMA TopicIsEvent ==
    ASSUME NEW s \in Status
    PROVE  /\ statusToKafkaTopic(s) \in Event \cup {"none"}
           /\ statusToKafkaTopic(s) = "delivery.created" <=> s = "PAYMENT_CONFIRMED"
BY DEF statusToKafkaTopic, Event, Status

LEMMA TransitionsInStatus ==
    ASSUME NEW s, NEW t, canTransition(s, t)
    PROVE  s \in Status /\ t \in Status /\ t # "CREATED"
BY DEF canTransition, transitions, Status

\* The history variables only grow.
Grows == reached \subseteq reached' /\ hist \subseteq hist'

LEMMA AllowedGrows == ASSUME Grows PROVE Allowed \subseteq Allowed'
BY DEF Grows, Allowed

\* What a process holds stays in order while the history grows.
LEMMA ProcStays ==
    ASSUME NEW j, ProcOK(j), Grows
    PROVE  ProcOK(j)'
<1>1. j.todo \in Seq(Allowed') /\ j.catch \in Seq(Allowed')
  BY AllowedGrows, SeqMonotonic DEF ProcOK
<1>. QED
  BY <1>1 DEF ProcOK, Held, Grows

\* A command is about to be read: nothing is held.
LEMMA FreshProc ==
    ASSUME NEW todo \in Seq(Allowed), NEW catch \in Seq(Allowed)
    PROVE  /\ ProcOK([Stopped EXCEPT !.todo = todo, !.catch = catch])
           /\ ProcOK([Stopped EXCEPT !.todo = todo])
           /\ ProcOK(Stopped)
<1>1. Allowed \subseteq Command
  BY DEF Allowed
<1>2. todo \in Seq(Command) /\ catch \in Seq(Command) /\ <<>> \in Seq(Command) /\ <<>> \in Seq(Allowed)
  BY <1>1, SeqMonotonic, EmptySeq
<1>3. /\ [Stopped EXCEPT !.todo = todo, !.catch = catch] \in ProcRecord
      /\ [Stopped EXCEPT !.todo = todo] \in ProcRecord
      /\ Stopped \in ProcRecord
  BY <1>2, NoRowType DEF Stopped, ProcRecord
<1>. QED
  BY <1>2, <1>3 DEF ProcOK, Held, Stopped

\* The same in the next state.
LEMMA FreshProcNext ==
    ASSUME NEW todo \in Seq(Allowed'), NEW catch \in Seq(Allowed')
    PROVE  /\ ProcOK([Stopped EXCEPT !.todo = todo, !.catch = catch])'
           /\ ProcOK([Stopped EXCEPT !.todo = todo])'
           /\ ProcOK(Stopped)'
<1>1. Allowed' \subseteq Command
  BY DEF Allowed
<1>2. todo \in Seq(Command) /\ catch \in Seq(Command) /\ <<>> \in Seq(Command) /\ <<>> \in Seq(Allowed')
  BY <1>1, SeqMonotonic, EmptySeq
<1>3. /\ [Stopped EXCEPT !.todo = todo, !.catch = catch] \in ProcRecord
      /\ [Stopped EXCEPT !.todo = todo] \in ProcRecord
      /\ Stopped \in ProcRecord
  BY <1>2, NoRowType DEF Stopped, ProcRecord
<1>. QED
  BY <1>2, <1>3 DEF ProcOK, Held, Stopped

\* What a working process has: a current command of the set, and the rest.
LEMMA Working ==
    ASSUME ProcInv, NEW p \in Proc, ~Idle(p)
    PROVE  /\ Current(p) \in Allowed /\ Tail(proc[p].todo) \in Seq(Allowed)
           /\ proc[p].catch \in Seq(Allowed)
           /\ Held(proc[p], Current(p)) /\ proc[p] \in ProcRecord
           /\ row.status # "NONE"
BY HeadTailProperties DEF ProcInv, ProcOK, Idle, Current

LEMMA StartStep ==
    ASSUME NEW p \in Proc, NEW todo \in Seq(Allowed'), Start(p, todo)
    PROVE  \E j : ProcOK(j)' /\ proc' = [proc EXCEPT ![p] = j]
BY FreshProcNext DEF Start

\* The commands that replace the current one are of the set: so is the rest.
LEMMA GoOnStep ==
    ASSUME ProcInv, Grows, NEW p \in Proc, ~Idle(p), NEW cmds \in Seq(Allowed'), GoOn(p, cmds)
    PROVE  \E j : ProcOK(j)' /\ proc' = [proc EXCEPT ![p] = j]
<1>. DEFINE rest == cmds \o Tail(proc[p].todo)
            catch == IF rest = <<>> THEN <<>> ELSE proc[p].catch
<1>1. Tail(proc[p].todo) \in Seq(Allowed') /\ proc[p].catch \in Seq(Allowed')
  BY Working, AllowedGrows, SeqMonotonic
<1>2. rest \in Seq(Allowed')
  BY <1>1, ConcatProperties
<1>3. catch \in Seq(Allowed')
  BY <1>1, EmptySeq
<1>4. PICK t, c \in Seq(Allowed') : t = rest /\ c = catch
  BY <1>2, <1>3
<1>5. ProcOK([Stopped EXCEPT !.todo = t, !.catch = c])'
  BY FreshProcNext
<1>6. proc' = [proc EXCEPT ![p] = [Stopped EXCEPT !.todo = t, !.catch = c]]
  BY <1>4 DEF GoOn
<1>. QED
  BY <1>5, <1>6

LEMMA DoneStep ==
    ASSUME ProcInv, Grows, NEW p \in Proc, ~Idle(p), Done(p)
    PROVE  \E j : ProcOK(j)' /\ proc' = [proc EXCEPT ![p] = j]
BY GoOnStep, EmptySeq DEF Done

LEMMA ThrowStep ==
    ASSUME ProcInv, Grows, NEW p \in Proc, ~Idle(p), Throw(p)
    PROVE  \E j : ProcOK(j)' /\ proc' = [proc EXCEPT ![p] = j]
<1>1. proc[p].catch \in Seq(Allowed')
  BY Working, AllowedGrows, SeqMonotonic
<1>. QED
  BY <1>1, StartStep DEF Throw

\* One process moves on while the history grows.
LEMMA ProcStep ==
    ASSUME ProcInv, Grows, NEW p \in Proc, \E j : ProcOK(j)' /\ proc' = [proc EXCEPT ![p] = j],
           row'.status # "NONE"
    PROVE  ProcInv'
<1>1. PICK j : ProcOK(j)' /\ proc' = [proc EXCEPT ![p] = j]
  OBVIOUS
<1>2. \A q \in Proc : ProcOK(proc[q])
  BY DEF ProcInv
<1>3. \A q \in Proc : proc'[q] = IF q = p THEN j ELSE proc[q]
  BY <1>1 DEF ProcInv
<1>4. \A q \in Proc : ProcOK(proc[q])'
  <2>. TAKE q \in Proc
  <2>1. CASE q = p
    BY <1>1, <1>3, <2>1 DEF ProcOK, Held
  <2>2. CASE q # p
    <3>. PICK k : k = proc[q]
      OBVIOUS
    <3>1. ProcOK(k)'
      BY <1>2, ProcStays
    <3>. QED
      BY <1>3, <2>2, <3>1 DEF ProcOK, Held
  <2>. QED
    BY <2>1, <2>2
<1>5. proc' = [q \in Proc |-> proc'[q]]
  BY <1>1 DEF ProcInv
<1>. QED
  BY <1>4, <1>5 DEF ProcInv

\* A step without a write to the database.
LEMMA QuietStep ==
    ASSUME LifeInv, NEW p \in Proc, \E j : ProcOK(j)' /\ proc' = [proc EXCEPT ![p] = j],
           row.status # "NONE", UNCHANGED dbVars, ExtTypes'
    PROVE  LifeInv'
<1>1. RowInv'
  BY DEF LifeInv, RowInv, AuditTrail, dbVars
<1>2. ProcInv'
  BY ProcStep DEF LifeInv, Grows, dbVars
<1>. QED
  BY <1>1, <1>2 DEF LifeInv

\* DeliveryRepository.save: the status that is saved is in the history.
LEMMA SaveStep ==
    ASSUME LifeInv, NEW p \in Proc, ~Idle(p), proc[p].pc = "save", SaveRow(p),
           \E j : ProcOK(j)' /\ proc' = [proc EXCEPT ![p] = j],
           UNCHANGED <<hist, outbox, extVars>>
    PROVE  LifeInv'
<1>1. /\ proc[p].copy \in Row /\ proc[p].copy.status \in Status
      /\ proc[p].copy.status \in hist \cup {"CREATED"}
  BY Working DEF LifeInv, Held, SaveRow, ProcRecord
<1>2. "NONE" \notin Status
  BY DEF Status
<1>3. RowInv'
  BY <1>1, <1>2 DEF LifeInv, RowInv, AuditTrail, SaveRow
<1>4. ProcInv'
  BY <1>1, <1>2, ProcStep DEF LifeInv, Grows, SaveRow
<1>5. ExtTypes'
  BY DEF LifeInv, ExtTypes, extVars
<1>. QED
  BY <1>3, <1>4, <1>5 DEF LifeInv

-----------------------------------------------------------------------------
(* The commands *)

\* A command has read the row: it holds the row and a copy with another status,
\* driver or payment status.
LEMMA ReadStep ==
    ASSUME ProcInv, NEW p \in Proc, ~Idle(p), NEW label \in {"append", "save"}, NEW new \in Row, row \in Row,
           HasRead(p, label, new), UNCHANGED dbVars,
           new.status \in Status,
           label = "save" => new.status = row.status /\ row.status \in hist \cup {"CREATED"}
                             /\ Current(p).op # "transition",
           label = "append" => Current(p).op = "transition" /\ new.status = Current(p).to
                               /\ canTransition(row.status, Current(p).to)
    PROVE  \E j : ProcOK(j)' /\ proc' = [proc EXCEPT ![p] = j]
<1>. PICK b : b = row
  OBVIOUS
<1>. DEFINE j == [proc[p] EXCEPT !.pc = label, !.base = b, !.copy = new]
<1>1. proc[p] \in ProcRecord /\ proc[p].todo \in Seq(Allowed) /\ proc[p].catch \in Seq(Allowed) /\ proc[p].todo # <<>>
  BY DEF ProcInv, ProcOK, Idle
<1>2. proc' = [proc EXCEPT ![p] = j]
  BY DEF HasRead, ProcInv
<1>3. j \in ProcRecord /\ j.todo = proc[p].todo /\ j.catch = proc[p].catch /\ j.pc = label
      /\ j.base = b /\ j.copy = new
  BY <1>1 DEF ProcRecord
<1>. HIDE DEF j
<1>4. Held(j, Head(j.todo))
  BY <1>3 DEF Held, Current
<1>5. ProcOK(j)
  BY <1>1, <1>3, <1>4 DEF ProcOK
<1>6. PICK k : k = j
  OBVIOUS
<1>7. ProcOK(k)'
  BY <1>5, <1>6, ProcStays DEF Grows, dbVars
<1>. QED
  BY <1>2, <1>6, <1>7

LEMMA ReadTransitionKeeps ==
    ASSUME LifeInv, NEW p \in Proc, ReadTransition(p)
    PROVE  LifeInv'
<1>. USE DEF LifeInv
<1>1. ~Idle(p) /\ Grows /\ ExtTypes' /\ UNCHANGED dbVars
  BY DEF ReadTransition, At, Grows, dbVars, extVars, ExtTypes
<1>2. /\ Current(p) \in Allowed /\ Current(p).op = "transition" /\ Current(p).to \in Status
      /\ Current(p).by \in Driver \cup {NoDriver}
  BY <1>1, Working DEF ReadTransition, At, Allowed, Command
<1>3. CASE Done(p)
  BY <1>1, <1>3, DoneStep, QuietStep, Working
<1>4. CASE Throw(p)
  BY <1>1, <1>4, ThrowStep, QuietStep, Working
<1>5. CASE /\ canTransition(row.status, Current(p).to)
           /\ HasRead(p, "append", [row EXCEPT !.status = Current(p).to,
                                               !.driver = IF Current(p).to = "DRIVER_ASSIGNED" /\ @ = NoDriver
                                                          THEN Current(p).by ELSE @])
  <2>. DEFINE new == [row EXCEPT !.status = Current(p).to,
                                 !.driver = IF Current(p).to = "DRIVER_ASSIGNED" /\ @ = NoDriver
                                            THEN Current(p).by ELSE @]
  <2>0. new \in Row /\ new.status = Current(p).to
    BY <1>2 DEF RowInv, Row
  <2>1. PICK n \in Row : n = new /\ n.status = Current(p).to
    <3>. HIDE DEF new
    <3>. QED
      BY <2>0
  <2>2. HasRead(p, "append", n)
    BY <1>5, <2>1
  <2>3. \E j : ProcOK(j)' /\ proc' = [proc EXCEPT ![p] = j]
    <3>1. row \in Row /\ ProcInv /\ n.status \in Status /\ "append" \in {"append", "save"}
      BY <1>2, <2>1 DEF RowInv
    <3>. QED
      BY <1>1, <1>2, <1>5, <2>1, <2>2, <3>1, ReadStep
  <2>. QED
    BY <1>1, <2>3, QuietStep, Working
<1>. QED
  BY <1>3, <1>4, <1>5 DEF ReadTransition

\* appendHistory: the status is in the history before the row is saved, and
\* nobody else can save a copy from before.
LEMMA AppendHistoryKeeps ==
    ASSUME LifeInv, NEW p \in Proc, AppendHistory(p)
    PROVE  LifeInv'
<1>. USE DEF LifeInv
<1>1. /\ ~Idle(p) /\ Grows /\ Current(p).op = "transition" /\ proc[p].pc = "append"
      /\ hist' = hist \cup {Current(p).to} /\ reached' = reached
  BY DEF AppendHistory, At, Grows
<1>2. Current(p).to \in Status /\ Held(proc[p], Current(p)) /\ row.status # "NONE"
  BY <1>1, Working DEF Allowed
<1>3. RowInv'
  BY <1>2 DEF AppendHistory, RowInv, AuditTrail
<1>4. \A q \in Proc : /\ proc[q] \in ProcRecord /\ proc[q].todo \in Seq(Allowed) /\ proc[q].catch \in Seq(Allowed)
                      /\ proc[q].todo # <<>> => Held(proc[q], Head(proc[q].todo))
  BY DEF ProcInv, ProcOK
<1>5. Allowed' = Allowed
  BY DEF AppendHistory, Allowed
<1>6. \A q \in Proc : /\ proc'[q] \in ProcRecord /\ proc'[q].todo = proc[q].todo /\ proc'[q].catch = proc[q].catch
                      /\ q # p => proc'[q].pc = proc[q].pc /\ proc'[q].copy = NoRow
  BY <1>4, NoRowType DEF AppendHistory, ProcRecord
<1>7. proc'[p].pc = "save" /\ proc'[p].copy = proc[p].copy /\ proc'[p].base = proc[p].base
  BY <1>4 DEF AppendHistory, ProcRecord
<1>8. ASSUME NEW q \in Proc, q # p PROVE (proc[q].todo # <<>> => Held(proc[q], Head(proc[q].todo)))'
  BY <1>1, <1>4, <1>6, <1>8 DEF Held
<1>9. Held(proc[p], Head(proc[p].todo))'
  BY <1>1, <1>2, <1>6, <1>7 DEF Held, Current
<1>10. \A q \in Proc : ProcOK(proc[q])'
  BY <1>4, <1>5, <1>6, <1>8, <1>9 DEF ProcOK
<1>11. proc' = [q \in Proc |-> proc'[q]]
  BY DEF AppendHistory
<1>12. \A q \in Proc : (~Idle(q))' => row'.status # "NONE"
  BY <1>6 DEF ProcInv, Idle, AppendHistory
<1>13. ExtTypes'
  BY DEF AppendHistory, extVars, ExtTypes
<1>. QED
  BY <1>3, <1>10, <1>11, <1>12, <1>13 DEF ProcInv

LEMMA SaveRefusedKeeps ==
    ASSUME LifeInv, NEW p \in Proc, SaveRefused(p)
    PROVE  LifeInv'
<1>1. ~Idle(p) /\ Grows /\ ExtTypes' /\ UNCHANGED dbVars
  BY DEF SaveRefused, At, Grows, dbVars, extVars, ExtTypes, LifeInv
<1>. QED
  BY <1>1, ThrowStep, QuietStep, Working DEF SaveRefused, LifeInv

\* The row takes the status that is in the history; its event comes next.
LEMMA SaveTransitionKeeps ==
    ASSUME LifeInv, NEW p \in Proc, SaveTransition(p)
    PROVE  LifeInv'
<1>. USE DEF LifeInv
<1>1. /\ ~Idle(p) /\ Grows /\ Current(p).op = "transition" /\ proc[p].pc = "save" /\ proc[p].copy # NoRow
      /\ Current(p).to \in reached'
  BY Working DEF SaveTransition, At, Grows, SaveRow, Held
<1>2. CASE Done(p)
  BY <1>1, <1>2, DoneStep, SaveStep DEF SaveTransition
<1>3. CASE /\ Announced(p)
           /\ proc' = [proc EXCEPT ![p] = [@ EXCEPT !.pc = "emit", !.base = NoRow, !.copy = NoRow]]
  <2>1. proc[p] \in ProcRecord /\ proc[p].todo \in Seq(Allowed) /\ proc[p].catch \in Seq(Allowed)
    BY DEF ProcInv, ProcOK
  <2>2. PICK j \in ProcRecord :
           /\ proc' = [proc EXCEPT ![p] = j]
           /\ j.todo = proc[p].todo /\ j.catch = proc[p].catch /\ j.pc = "emit" /\ j.copy = NoRow
    <3>. DEFINE k == [proc[p] EXCEPT !.pc = "emit", !.base = NoRow, !.copy = NoRow]
    <3>1. k \in ProcRecord /\ k.todo = proc[p].todo /\ k.catch = proc[p].catch /\ k.pc = "emit" /\ k.copy = NoRow
      BY <2>1, NoRowType DEF ProcRecord
    <3>2. proc' = [proc EXCEPT ![p] = k]
      BY <1>3 DEF ProcInv
    <3>. HIDE DEF k
    <3>. QED
      BY <3>1, <3>2
  <2>3. j.todo \in Seq(Allowed') /\ j.catch \in Seq(Allowed')
    BY <1>1, <2>1, <2>2, AllowedGrows, SeqMonotonic
  <2>4. PICK c : c = Current(p)
    OBVIOUS
  <2>5. Held(j, c)'
    BY <1>1, <1>3, <2>2, <2>4 DEF Held, Announced
  <2>6. ProcOK(j)'
    BY <2>2, <2>3, <2>4, <2>5 DEF ProcOK, Current
  <2>. QED
    BY <1>1, <2>2, <2>6, SaveStep DEF SaveTransition
<1>. QED
  BY <1>2, <1>3 DEF SaveTransition

\* The event of a status that was saved.
LEMMA StoreEventKeeps ==
    ASSUME LifeInv, NEW p \in Proc, StoreEvent(p)
    PROVE  LifeInv'
<1>. USE DEF LifeInv
<1>1. ~Idle(p) /\ Grows
  BY DEF StoreEvent, At, Grows
<1>2. Current(p).to \in reached /\ statusToKafkaTopic(Current(p).to) # "none" /\ row.status # "NONE"
  BY <1>1, Working DEF StoreEvent, At, Held
<1>3. statusToKafkaTopic(Current(p).to) \in Event
  BY <1>2, TopicIsEvent DEF RowInv
<1>4. RowInv'
  BY <1>2, <1>3 DEF StoreEvent, RowInv, AuditTrail
<1>5. ProcInv'
  BY <1>1, <1>2, DoneStep, ProcStep DEF StoreEvent
<1>6. ExtTypes'
  BY DEF StoreEvent, ExtTypes, Call
<1>. QED
  BY <1>4, <1>5, <1>6

\* A row that exists has a status of the history.
LEMMA RowStatus ==
    ASSUME RowInv, row.status # "NONE"
    PROVE  row.status \in Status /\ row.status \in hist \cup {"CREATED"} /\ row.status \in reached
BY DEF RowInv, AuditTrail

\* updatePaymentStatus and acceptDriver read: the copy has the row's status.
LEMMA ReadColumnKeeps ==
    ASSUME LifeInv, NEW p \in Proc, ~Idle(p), Current(p).op # "transition", UNCHANGED <<dbVars, extVars>>,
           NEW new \in Row, new.status = row.status, WillSave(p, new)
    PROVE  LifeInv'
<1>1. ExtTypes' /\ UNCHANGED dbVars /\ row.status # "NONE" /\ row \in Row
  BY Working DEF LifeInv, RowInv, ExtTypes, extVars
<1>2. \E j : ProcOK(j)' /\ proc' = [proc EXCEPT ![p] = j]
  BY <1>1, RowStatus, ReadStep DEF LifeInv, WillSave
<1>. QED
  BY <1>1, <1>2, QuietStep

LEMMA ReadPaymentKeeps ==
    ASSUME LifeInv, NEW p \in Proc, ReadPayment(p)
    PROVE  LifeInv'
<1>1. ~Idle(p) /\ Current(p).op = "payment" /\ Current(p).to \in PaymentStatus
  BY Working DEF ReadPayment, At, LifeInv, Allowed
<1>. DEFINE new == [row EXCEPT !.pay = Current(p).to]
<1>2. new \in Row /\ new.status = row.status
  BY <1>1 DEF LifeInv, RowInv, Row
<1>3. WillSave(p, new) /\ UNCHANGED <<dbVars, extVars>>
  BY DEF ReadPayment
<1>4. PICK n \in Row : n.status = row.status /\ WillSave(p, n)
  <2>. HIDE DEF new
  <2>. QED
    BY <1>2, <1>3
<1>. QED
  BY <1>1, <1>3, <1>4, ReadColumnKeeps

\* The saga goes on to its driver step with the entity that was saved.
LEMMA SavePaymentKeeps ==
    ASSUME LifeInv, NEW p \in Proc, SavePayment(p)
    PROVE  LifeInv'
<1>. USE DEF LifeInv
<1>1. ~Idle(p) /\ Grows /\ proc[p].pc = "save" /\ proc[p].copy.driver \in Driver \cup {NoDriver}
  BY Working DEF SavePayment, At, Grows, SaveRow, ProcRecord, Row
<1>2. CASE Done(p)
  BY <1>1, <1>2, DoneStep, SaveStep DEF SavePayment
<1>3. CASE Start(p, <<[ReserveStep EXCEPT !.by = proc[p].copy.driver]>>)
  <2>1. PICK c : c = [ReserveStep EXCEPT !.by = proc[p].copy.driver]
    OBVIOUS
  <2>2. c \in Allowed'
    BY <1>1, <2>1, PlainCommands, AllowedGrows
  <2>3. <<c>> \in Seq(Allowed')
    BY <2>2, ShortSeq
  <2>4. Start(p, <<c>>)
    BY <1>3, <2>1
  <2>. QED
    BY <1>1, <2>3, <2>4, StartStep, SaveStep DEF SavePayment
<1>. QED
  BY <1>2, <1>3 DEF SavePayment

LEMMA ReadCancelKeeps ==
    ASSUME LifeInv, NEW p \in Proc, ReadCancel(p)
    PROVE  LifeInv'
<1>. USE DEF LifeInv
<1>1. ~Idle(p) /\ Grows /\ UNCHANGED dbVars
  BY DEF ReadCancel, At, Grows, dbVars
<1>2. <<Transition("CANCELLED", NoDriver)>> \in Seq(Allowed')
  BY <1>1, PlainCommands, AllowedGrows, ShortSeq DEF Status
<1>3. ExtTypes'
  BY DEF ReadCancel, ExtTypes, Call
<1>. QED
  BY <1>1, <1>2, <1>3, GoOnStep, QuietStep, Working DEF ReadCancel

\* acceptDriver goes on with one or two transitions.
LEMMA AcceptingAllowed ==
    ASSUME NEW s, NEW d \in Driver \cup {NoDriver}
    PROVE  Accepting(s, d) \in Seq(Allowed)
BY PlainCommands, ShortSeq DEF Accepting, Status

LEMMA ReadAcceptKeeps ==
    ASSUME LifeInv, NEW p \in Proc, ReadAccept(p)
    PROVE  LifeInv'
<1>. USE DEF LifeInv
<1>1. /\ ~Idle(p) /\ Grows /\ Current(p).op = "accept" /\ Current(p).by \in Driver \cup {NoDriver}
      /\ UNCHANGED <<dbVars, extVars>> /\ ExtTypes'
  BY Working DEF ReadAccept, At, Grows, dbVars, extVars, Allowed, Command, ExtTypes
<1>2. CASE WillSave(p, [row EXCEPT !.driver = Current(p).by])
  <2>. DEFINE new == [row EXCEPT !.driver = Current(p).by]
  <2>1. new \in Row /\ new.status = row.status
    BY <1>1 DEF RowInv, Row
  <2>2. PICK n \in Row : n.status = row.status /\ WillSave(p, n)
    <3>1. WillSave(p, new)
      BY <1>2
    <3>. HIDE DEF new
    <3>. QED
      BY <2>1, <3>1
  <2>. QED
    BY <1>1, <2>2, ReadColumnKeeps
<1>3. CASE GoOn(p, Accepting(row.status, Current(p).by))
  <2>1. Accepting(row.status, Current(p).by) \in Seq(Allowed')
    BY <1>1, AcceptingAllowed, AllowedGrows, SeqMonotonic
  <2>. QED
    BY <1>1, <1>3, <2>1, GoOnStep, QuietStep, Working
<1>. QED
  BY <1>2, <1>3 DEF ReadAccept

LEMMA SaveAcceptKeeps ==
    ASSUME LifeInv, NEW p \in Proc, SaveAccept(p)
    PROVE  LifeInv'
<1>. USE DEF LifeInv
<1>1. /\ ~Idle(p) /\ Grows /\ proc[p].pc = "save" /\ Current(p).by \in Driver \cup {NoDriver}
  BY Working DEF SaveAccept, At, Grows, SaveRow, Allowed, Command
<1>2. Accepting(proc[p].copy.status, Current(p).by) \in Seq(Allowed')
  BY <1>1, AcceptingAllowed, AllowedGrows, SeqMonotonic
<1>. QED
  BY <1>1, <1>2, GoOnStep, SaveStep DEF SaveAccept

\* Either of the two things a search for a driver goes on with.
LEMMA SearchOnAllowed ==
    ASSUME "PAYMENT_CONFIRMED" \in reached
    PROVE  SearchOn \in Seq(Allowed)
BY PlainCommands, SearchCommands, ShortSeq DEF SearchOn

LEMMA ReadRedispatchKeeps ==
    ASSUME LifeInv, NEW p \in Proc, ReadRedispatch(p)
    PROVE  LifeInv'
<1>. USE DEF LifeInv
<1>1. ~Idle(p) /\ Grows /\ UNCHANGED dbVars /\ ExtTypes' /\ Current(p).op = "redispatch" /\ proc[p].pc = "read"
  BY DEF ReadRedispatch, At, Grows, dbVars, extVars, ExtTypes
<1>2. CASE Done(p)
  BY <1>1, <1>2, DoneStep, QuietStep, Working
<1>3. CASE proc' = [proc EXCEPT ![p].pc = "save"]
  <2>1. proc[p] \in ProcRecord /\ proc[p].todo \in Seq(Allowed) /\ proc[p].catch \in Seq(Allowed)
        /\ Held(proc[p], Current(p))
    BY <1>1, Working DEF ProcInv, ProcOK
  <2>. DEFINE j == [proc[p] EXCEPT !.pc = "save"]
  <2>2. j \in ProcRecord /\ j.todo = proc[p].todo /\ j.catch = proc[p].catch /\ j.pc = "save"
        /\ j.copy = proc[p].copy
    BY <2>1 DEF ProcRecord
  <2>3. proc' = [proc EXCEPT ![p] = j]
    BY <1>3 DEF ProcInv
  <2>. HIDE DEF j
  <2>4. ProcOK(j)
    BY <1>1, <2>1, <2>2 DEF ProcOK, Held, Current
  <2>5. PICK k : k = j
    OBVIOUS
  <2>6. ProcOK(k)' /\ proc' = [proc EXCEPT ![p] = k]
    BY <1>1, <2>3, <2>4, <2>5, ProcStays
  <2>. QED
    BY <1>1, <2>6, QuietStep, Working
<1>. QED
  BY <1>2, <1>3 DEF ReadRedispatch

LEMMA ClearDriverIdKeeps ==
    ASSUME LifeInv, NEW p \in Proc, ClearDriverId(p)
    PROVE  LifeInv'
<1>. USE DEF LifeInv
<1>1. ~Idle(p) /\ Grows /\ Current(p).op = "redispatch"
  BY DEF ClearDriverId, At, Grows
<1>2. "PAYMENT_CONFIRMED" \in reached /\ row.status # "NONE"
  BY <1>1, Working DEF Allowed
<1>3. row' \in Row /\ row'.status = row.status
  BY DEF ClearDriverId, RowInv, Row
<1>4. RowInv'
  BY <1>2, <1>3 DEF ClearDriverId, RowInv, AuditTrail
<1>5. SearchOn \in Seq(Allowed')
  BY <1>1, <1>2, SearchOnAllowed, AllowedGrows, SeqMonotonic
<1>6. ProcInv'
  BY <1>1, <1>2, <1>3, <1>5, GoOnStep, ProcStep DEF ClearDriverId
<1>7. ExtTypes'
  BY DEF ClearDriverId, extVars, ExtTypes
<1>. QED
  BY <1>4, <1>6, <1>7

\* delivery.created again: it had been announced before.
LEMMA StoreRetryEventKeeps ==
    ASSUME LifeInv, NEW p \in Proc, StoreRetryEvent(p)
    PROVE  LifeInv'
<1>. USE DEF LifeInv
<1>1. ~Idle(p) /\ Grows /\ Current(p).op = "retry"
  BY DEF StoreRetryEvent, At, Grows
<1>2. "PAYMENT_CONFIRMED" \in reached /\ row.status # "NONE"
  BY <1>1, Working DEF Allowed
<1>3. "PAYMENT_CONFIRMED" \in Status /\ statusToKafkaTopic("PAYMENT_CONFIRMED") = "delivery.created"
      /\ "delivery.created" \in Event
  BY DEF Status, statusToKafkaTopic, Event
<1>4. RowInv'
  BY <1>2, <1>3 DEF StoreRetryEvent, RowInv, AuditTrail
<1>5. ProcInv'
  BY <1>1, <1>2, DoneStep, ProcStep DEF StoreRetryEvent
<1>6. ExtTypes'
  BY DEF StoreRetryEvent, extVars, ExtTypes
<1>. QED
  BY <1>4, <1>5, <1>6

LEMMA ReadTimeoutKeeps ==
    ASSUME LifeInv, NEW p \in Proc, ReadTimeout(p)
    PROVE  LifeInv'
<1>. USE DEF LifeInv
<1>1. ~Idle(p) /\ Grows /\ UNCHANGED dbVars /\ ExtTypes'
  BY DEF ReadTimeout, At, Grows, dbVars, extVars, ExtTypes
<1>2. <<Cancel>> \in Seq(Allowed')
  BY <1>1, PlainCommands, AllowedGrows, ShortSeq
<1>3. CASE Done(p)
  BY <1>1, <1>3, DoneStep, QuietStep, Working
<1>4. CASE GoOn(p, <<Cancel>>)
  BY <1>1, <1>2, <1>4, GoOnStep, QuietStep, Working
<1>. QED
  BY <1>3, <1>4 DEF ReadTimeout

-----------------------------------------------------------------------------
(* The saga, the inputs, time and restarts *)

LEMMA FaultStep == ASSUME ExtTypes, Fault PROVE faults' \in 0..MaxFaults
BY LifecycleAssumption DEF ExtTypes, Fault

\* createDelivery: the first row, with the saga to come.
LEMMA CreateDeliveryKeeps ==
    ASSUME LifeInv, CreateDelivery
    PROVE  LifeInv'
<1>. USE DEF LifeInv
<1>1. row'.status = "CREATED" /\ row' \in Row /\ "CREATED" \in Status
  BY DEF CreateDelivery, NoRow, Row, Status, PaymentStatus
<1>2. RowInv'
  BY <1>1 DEF CreateDelivery, RowInv, AuditTrail
<1>3. Grows
  BY DEF CreateDelivery, RowInv, Grows
<1>4. <<AskPayment>> \in Seq(Allowed')
  BY <1>3, PlainCommands, AllowedGrows, ShortSeq
<1>5. ProcInv'
  BY <1>1, <1>3, <1>4, StartStep, ProcStep DEF CreateDelivery, Proc
<1>6. ExtTypes'
  BY DEF CreateDelivery, extVars, ExtTypes
<1>. QED
  BY <1>2, <1>5, <1>6

LEMMA PaymentFailedAllowed == PaymentFailed \in Seq(Allowed)
BY PlainCommands, ShortSeq DEF PaymentFailed, PaymentStatus

LEMMA RunPaymentStepOK ==
    ASSUME Grows, NEW todo \in Seq(Allowed), RunPaymentStep(todo)
    PROVE  \E j : ProcOK(j)' /\ proc' = [proc EXCEPT !["saga"] = j]
<1>1. todo \in Seq(Allowed') /\ PaymentFailed \in Seq(Allowed')
  BY AllowedGrows, SeqMonotonic, PaymentFailedAllowed
<1>2. PICK c \in Seq(Allowed') : c = PaymentFailed
  BY <1>1
<1>3. ProcOK([Stopped EXCEPT !.todo = todo, !.catch = c])'
  BY <1>1, FreshProcNext
<1>. QED
  BY <1>2, <1>3 DEF RunPaymentStep

LEMMA SagaStepKeeps ==
    ASSUME LifeInv, SagaStep
    PROVE  LifeInv'
<1>. USE DEF LifeInv
<1>1. "saga" \in Proc /\ ~Idle("saga") /\ UNCHANGED dbVars /\ Grows
  BY DEF SagaStep, CreatePayment, ReserveDriver, At, Proc, Grows, dbVars
<1>2. row.status # "NONE"
  BY <1>1, Working
<1>3. ExtTypes'
  BY FaultStep DEF SagaStep, CreatePayment, ReserveDriver, ExtTypes, Payment
<1>4. \E j : ProcOK(j)' /\ proc' = [proc EXCEPT !["saga"] = j]
  <2>1. /\ <<Transition("PENDING_PAYMENT", NoDriver), UpdatePayment("PENDING")>> \in Seq(Allowed)
        /\ <<Transition("PAYMENT_CONFIRMED", NoDriver), UpdatePayment("AUTHORIZED"), ReserveStep>> \in Seq(Allowed)
    BY PlainCommands, ShortSeq DEF Status, PaymentStatus
  <2>2. PaymentFailed \in Seq(Allowed') /\ <<>> \in Seq(Allowed')
    BY <1>1, PaymentFailedAllowed, AllowedGrows, SeqMonotonic, EmptySeq
  <2>3. <<Cancel, UpdatePayment("CANCELLED")>> \in Seq(Allowed)
    BY PlainCommands, ShortSeq DEF PaymentStatus
  <2>4. <<Cancel, UpdatePayment("CANCELLED")>> \in Seq(Allowed')
    BY <1>1, <2>3, AllowedGrows, SeqMonotonic
  <2>5. CASE CreatePayment
    BY <1>1, <2>1, <2>2, <2>5, RunPaymentStepOK, StartStep DEF CreatePayment
  <2>6. CASE ReserveDriver
    BY <1>1, <2>2, <2>4, <2>6, StartStep DEF ReserveDriver
  <2>. QED
    BY <2>5, <2>6 DEF SagaStep
<1>. QED
  BY <1>1, <1>2, <1>3, <1>4, QuietStep

\* A process that was idle starts with commands of the set.
LEMMA StartedKeeps ==
    ASSUME LifeInv, NEW p \in Proc, NEW todo \in Seq(Allowed), Start(p, todo), UNCHANGED dbVars, ExtTypes',
           row.status # "NONE"
    PROVE  LifeInv'
<1>1. todo \in Seq(Allowed')
  BY AllowedGrows, SeqMonotonic DEF Grows, dbVars
<1>. QED
  BY <1>1, StartStep, QuietStep

\* A delivery that was announced has been paid for and still has its row.
LEMMA AnnouncedRow ==
    ASSUME RowInv, "delivery.created" \in outbox
    PROVE  "PAYMENT_CONFIRMED" \in reached /\ row.status # "NONE"
BY TopicIsEvent DEF RowInv, AuditTrail

LEMMA ReceiveDriverEventKeeps ==
    ASSUME LifeInv, ReceiveDriverEvent
    PROVE  LifeInv'
<1>. USE DEF LifeInv
<1>1. "PAYMENT_CONFIRMED" \in reached /\ row.status # "NONE" /\ "consumer" \in Proc
  BY AnnouncedRow DEF ReceiveDriverEvent, Proc
<1>2. <<Redispatch>> \in Seq(Allowed) /\ \A d \in Driver : <<AcceptDriver(d)>> \in Seq(Allowed)
  BY <1>1, PlainCommands, SearchCommands, ShortSeq
<1>3. UNCHANGED dbVars /\ ExtTypes'
  BY DEF ReceiveDriverEvent, ExtTypes, Input
<1>. QED
  BY <1>1, <1>2, <1>3, StartedKeeps DEF ReceiveDriverEvent

LEMMA ReceivePaymentEventKeeps ==
    ASSUME LifeInv, ReceivePaymentEvent
    PROVE  LifeInv'
<1>. USE DEF LifeInv
<1>1. row.status # "NONE" /\ "consumer" \in Proc
  BY DEF ReceivePaymentEvent, Proc, RowInv
<1>2. <<UpdatePayment("COMPLETED"), Transition("PAYMENT_CONFIRMED", NoDriver)>> \in Seq(Allowed)
  BY PlainCommands, ShortSeq DEF PaymentStatus, Status
<1>3. UNCHANGED dbVars /\ ExtTypes'
  BY DEF ReceivePaymentEvent, ExtTypes, Input
<1>. QED
  BY <1>1, <1>2, <1>3, PaymentFailedAllowed, StartedKeeps DEF ReceivePaymentEvent

LEMMA UserRequestKeeps ==
    ASSUME LifeInv, NEW u \in User, UserRequest(u)
    PROVE  LifeInv'
<1>. USE DEF LifeInv
<1>1. u \in Proc /\ UNCHANGED dbVars /\ ExtTypes' /\ row.status # "NONE"
  BY DEF UserRequest, Proc, ExtTypes, Input
<1>2. <<Cancel>> \in Seq(Allowed)
  BY PlainCommands, ShortSeq
<1>3. \A s \in Requests, d \in Driver : <<Transition(s, d)>> \in Seq(Allowed)
  BY PlainCommands, ShortSeq, LifecycleAssumption
<1>. QED
  BY <1>1, <1>2, <1>3, StartedKeeps DEF UserRequest

LEMMA FireTimerKeeps ==
    ASSUME LifeInv, FireTimer
    PROVE  LifeInv'
<1>. USE DEF LifeInv
<1>1. "timer" \in Proc /\ UNCHANGED dbVars /\ ExtTypes' /\ row.status # "NONE"
  BY DEF FireTimer, Proc, ExtTypes, RowInv
<1>2. <<SearchTimeout>> \in Seq(Allowed)
  BY PlainCommands, ShortSeq
<1>. QED
  BY <1>1, <1>2, StartedKeeps DEF FireTimer

LEMMA ScheduleRetryKeeps ==
    ASSUME LifeInv, ScheduleRetry
    PROVE  LifeInv'
<1>. USE DEF LifeInv
<1>1. "scheduler" \in Proc /\ UNCHANGED dbVars /\ ExtTypes' /\ row.status = "PAYMENT_CONFIRMED"
  BY DEF ScheduleRetry, Searching, Proc, extVars, ExtTypes
<1>2. SearchOn \in Seq(Allowed)
  BY <1>1, SearchOnAllowed DEF RowInv
<1>. QED
  BY <1>1, <1>2, StartedKeeps DEF ScheduleRetry

\* CompletePayment, TenMinutesPass and AnswerCall touch neither row nor
\* processes.
LEMMA OutsideKeeps ==
    ASSUME LifeInv, CompletePayment \/ TenMinutesPass \/ \E k \in Call : AnswerCall(k)
    PROVE  LifeInv'
<1>. USE DEF LifeInv
<1>1. UNCHANGED <<row, hist, outbox, reached, stale, byHand, proc>> /\ ExtTypes'
  BY DEF CompletePayment, TenMinutesPass, AnswerCall, dbVars, ExtTypes, Payment, Call
<1>2. RowInv'
  BY <1>1 DEF CompletePayment, TenMinutesPass, AnswerCall, RowInv, AuditTrail
<1>3. ProcInv'
  BY <1>1 DEF ProcInv, ProcOK, Held, Allowed, Idle
<1>. QED
  BY <1>1, <1>2, <1>3

LEMMA StoppedOK == ProcOK(Stopped)
BY FreshProc, EmptySeq

LEMMA RestartKeeps ==
    ASSUME LifeInv, Restart
    PROVE  LifeInv'
<1>. USE DEF LifeInv
<1>1. RowInv'
  BY DEF Restart, dbVars, RowInv, AuditTrail
<1>2. ExtTypes'
  BY FaultStep DEF Restart, ExtTypes
<1>3. ProcOK(Stopped)'
  BY StoppedOK, ProcStays DEF Restart, dbVars, Grows
<1>4. \A p \in Proc : proc'[p] = Stopped /\ proc'[p].todo = <<>>
  BY DEF Restart, Stopped
<1>5. \A p \in Proc : ProcOK(proc[p])'
  BY <1>3, <1>4 DEF ProcOK, Held
<1>6. proc' = [p \in Proc |-> proc'[p]]
  BY DEF Restart
<1>7. ProcInv'
  BY <1>4, <1>5, <1>6 DEF ProcInv, Idle
<1>. QED
  BY <1>1, <1>2, <1>7

-----------------------------------------------------------------------------
(* Theorems *)

\* A new delivery, or one that is under way.
LEMMA InitInv == ASSUME Init PROVE LifeInv
<1>1. PICK n \in DOMAIN Begin : (IF n = 0 THEN New ELSE Underway(n)) /\ inputs = Begin[n]
  BY DEF Init
<1>2. ExtTypes
  <2>1. inputs \in Nat /\ faults \in 0..MaxFaults
    BY <1>1, LifecycleAssumption DEF Init
  <2>2. calls \subseteq Call /\ old \in BOOLEAN
    BY DEF Init
  <2>3. payment \in Payment /\ timer \in BOOLEAN
    <3>1. CASE New
      BY <3>1 DEF New, Payment
    <3>2. CASE Underway(n)
      <4>1. PICK byLink \in BOOLEAN : payment = (IF byLink THEN "captured" ELSE "authorized") /\ timer = ~byLink
        BY <3>2 DEF Underway
      <4>2. payment \in Payment
        BY <4>1 DEF Payment
      <4>3. timer \in BOOLEAN
        BY <4>1
      <4>. QED
        BY <4>2, <4>3
    <3>. QED
      BY <1>1, <3>1, <3>2
  <2>. QED
    BY <2>1, <2>2, <2>3 DEF ExtTypes
<1>3. RowInv
  <2>1. CASE n = 0
    BY <1>1, <2>1, NoRowType DEF Init, New, RowInv, AuditTrail
  <2>2. CASE n # 0
    <3>1. n \in 2..6
      BY <2>2, LifecycleAssumption DEF Path
    <3>2. \A i \in 1..6 : Path[i] \in Status /\ Path[i] # "NONE"
      BY DEF Path, Status
    <3>3. PICK d \in Driver, byLink \in BOOLEAN :
             /\ row = [status |-> Path[n], driver |-> IF n > 2 THEN d ELSE NoDriver,
                       pay |-> IF byLink THEN "COMPLETED" ELSE "AUTHORIZED"]
             /\ reached = {Path[i] : i \in 1..n} \cup (IF byLink THEN {"PENDING_PAYMENT"} ELSE {})
             /\ hist = reached \ {"CREATED"}
             /\ outbox = {statusToKafkaTopic(s) : s \in hist} \ {"none"}
      BY <1>1, <2>2 DEF Underway
    <3>4. row \in Row /\ row.status \in reached /\ row.status # "NONE"
      BY <3>1, <3>2, <3>3 DEF Row, PaymentStatus
    <3>5. reached \subseteq Status /\ hist \subseteq Status
      BY <3>1, <3>2, <3>3 DEF Status
    <3>6. outbox \subseteq Event
      BY <3>3, <3>5, TopicIsEvent
    <3>7. AuditTrail
      BY <3>3 DEF AuditTrail
    <3>. QED
      BY <3>4, <3>5, <3>6, <3>7 DEF RowInv, Init
  <2>. QED
    BY <2>1, <2>2
<1>4. ProcInv
  BY StoppedOK DEF Init, ProcInv, Idle, Stopped
<1>. QED
  BY <1>2, <1>3, <1>4 DEF LifeInv

LEMMA NextInv == ASSUME LifeInv, [Next]_vars PROVE LifeInv'
<1>1. CASE UNCHANGED vars
  BY <1>1 DEF vars, LifeInv, RowInv, AuditTrail, ProcInv, ProcOK, Held, Allowed, Idle, ExtTypes
<1>2. ASSUME NEW p \in Proc, Step(p) PROVE LifeInv'
  BY <1>2, ReadTransitionKeeps, AppendHistoryKeeps, SaveTransitionKeeps, StoreEventKeeps, SaveRefusedKeeps,
     ReadPaymentKeeps, SavePaymentKeeps, ReadCancelKeeps, ReadAcceptKeeps, SaveAcceptKeeps,
     ReadRedispatchKeeps, ClearDriverIdKeeps, StoreRetryEventKeeps, ReadTimeoutKeeps DEF Step
<1>3. CASE Next
  BY <1>2, <1>3, CreateDeliveryKeeps, SagaStepKeeps, ReceiveDriverEventKeeps, ReceivePaymentEventKeeps,
     UserRequestKeeps, FireTimerKeeps, ScheduleRetryKeeps, OutsideKeeps, RestartKeeps DEF Next
<1>. QED
  BY <1>1, <1>3

\* The inductive invariant holds in every behaviour of a delivery.
THEOREM LifeInvariant == Spec => []LifeInv
BY InitInv, NextInv, PTL DEF Spec

\* TypeOK: the row, the history, the outbox and what every process has left to
\* do have their types, and no process works on a row that does not exist.
THEOREM TypeCorrect == Spec => []TypeOK
<1>1. ASSUME LifeInv PROVE TypeOK
  <2>1. ASSUME NEW p \in Proc
        PROVE  /\ DOMAIN proc[p] = {"todo", "catch", "pc", "base", "copy"}
               /\ \A i \in DOMAIN proc[p].todo : proc[p].todo[i] \in Command
               /\ \A i \in DOMAIN proc[p].catch : proc[p].catch[i] \in Command
               /\ proc[p].pc \in {"read", "append", "save", "emit"}
               /\ proc[p].base \in Row /\ proc[p].copy \in Row
               /\ ~Idle(p) => row.status # "NONE"
    <3>1. proc[p] \in ProcRecord /\ (~Idle(p) => row.status # "NONE")
      BY <1>1 DEF LifeInv, ProcInv, ProcOK
    <3>2. proc[p].todo \in Seq(Command) /\ proc[p].catch \in Seq(Command)
      BY <3>1 DEF ProcRecord
    <3>3. /\ \A i \in DOMAIN proc[p].todo : proc[p].todo[i] \in Command
          /\ \A i \in DOMAIN proc[p].catch : proc[p].catch[i] \in Command
      BY <3>2, LenProperties, ElementOfSeq
    <3>. QED
      BY <3>1, <3>3 DEF ProcRecord
  <2>. QED
    BY <1>1, <2>1 DEF LifeInv, RowInv, ExtTypes, TypeOK
<1>. QED
  BY <1>1, LifeInvariant, PTL

\* AuditTrail: wherever a restart cuts appendHistory, the save of the row and
\* the store of the event apart, the history has every status the row has had
\* and no event is stored for a status that was not saved.
THEOREM HistoryComplete == Spec => []AuditTrail
<1>1. LifeInv => AuditTrail
  BY DEF LifeInv, RowInv
<1>. QED
  BY <1>1, LifeInvariant, PTL

\* A save that replaces the row it was read from moves along the state machine
\* or not at all.
LEMMA SaveIsLegal ==
    ASSUME LifeInv, NEW p \in Proc, ~Idle(p), proc[p].pc = "save",
           Current(p).op \in {"transition", "payment", "accept"}, SaveRow(p)
    PROVE  \/ row'.status = row.status
           \/ row'.status \in transitions[row.status]
           \/ stale'
BY Working DEF LifeInv, Held, SaveRow, canTransition

\* LegalUnlessStale: the row moves along DeliveryStateMachine's transitions as
\* long as no save has replaced a row that changed after it was read.
THEOREM StatusMovesLegally == Spec => LegalUnlessStale
<1>. DEFINE Legal == row'.status # row.status /\ row.status # "NONE" =>
                        row'.status \in transitions[row.status] \/ stale'
<1>1. ASSUME LifeInv, Next PROVE Legal
  <2>1. ASSUME NEW p \in Proc, Step(p) PROVE Legal
    <3>1. CASE SaveTransition(p) \/ SavePayment(p) \/ SaveAccept(p)
      BY <1>1, <3>1, SaveIsLegal DEF SaveTransition, SavePayment, SaveAccept, At
    <3>2. CASE ClearDriverId(p)
      BY <1>1, <3>2 DEF ClearDriverId, LifeInv, RowInv, Row
    <3>3. CASE row' = row
      BY <3>3
    <3>. QED
      BY <2>1, <3>1, <3>2, <3>3
         DEF Step, ReadTransition, AppendHistory, StoreEvent, SaveRefused, ReadPayment, ReadCancel, ReadAccept,
             ReadRedispatch, StoreRetryEvent, ReadTimeout, dbVars
  <2>2. CASE CreateDelivery
    BY <2>2 DEF CreateDelivery
  <2>3. CASE row' = row
    BY <2>3
  <2>. QED
    BY <1>1, <2>1, <2>2, <2>3
       DEF Next, SagaStep, CreatePayment, ReserveDriver, ReceiveDriverEvent, CompletePayment, ReceivePaymentEvent,
           UserRequest, TenMinutesPass, FireTimer, ScheduleRetry, AnswerCall, Restart, dbVars
<1>2. ASSUME LifeInv, [Next]_vars PROVE [Legal]_vars
  BY <1>1, <1>2
<1>. QED
  BY <1>2, LifeInvariant, PTL DEF Spec, LegalUnlessStale

-----------------------------------------------------------------------------
(* Dispatch is paid for, or a user has reported PAYMENT_CONFIRMED by hand. *)
(* transitionDelivery lets anybody with UPDATE_DELIVERY_STATUS do that.    *)

Paid == payment \in {"authorized", "captured"} \/ byHand

\* The confirmation of the payment is asked for once payment-service has it,
\* or by a user, and only the saga asks for a payment, once.
PaidFor(p) ==
    {c \in Command :
        /\ c.op = "transition" /\ c.to = "PAYMENT_CONFIRMED" => Paid \/ p \in User
        /\ c.op = "askPayment" => p = "saga" /\ payment = "none"}

PaidProc(p, j) ==
    /\ j.todo \in Seq(PaidFor(p)) /\ j.catch \in Seq(PaidFor(p))
    /\ j.copy.status = "PAYMENT_CONFIRMED" => Paid \/ p \in User

PaidInv ==
    /\ "PAYMENT_CONFIRMED" \in reached => Paid
    /\ \A p \in Proc : PaidProc(p, proc[p])

\* The payment does not go back.
PaymentMoves == (payment' = payment \/ payment # "none") /\ (Paid => Paid')

\* The payment stays, and what is reached without it was reported by hand.
PaidKept == payment' = payment /\ (byHand => byHand') /\ ("PAYMENT_CONFIRMED" \in reached' => Paid')

LEMMA PaidSaves ==
    ASSUME LifeInv, PaidInv, payment' = payment,
           \/ \E p \in Proc : SaveRow(p)
           \/ byHand' = byHand /\ reached' \subseteq reached \cup {"CREATED"}
    PROVE  PaidKept /\ PaymentMoves
<1>1. CASE \E p \in Proc : SaveRow(p)
  <2>1. PICK p \in Proc : SaveRow(p)
    BY <1>1
  <2>2. byHand => byHand'
    BY <2>1 DEF SaveRow
  <2>3. "PAYMENT_CONFIRMED" \in reached' => "PAYMENT_CONFIRMED" \in reached \/ proc[p].copy.status = "PAYMENT_CONFIRMED"
    BY <2>1 DEF SaveRow
  <2>4. proc[p].copy.status = "PAYMENT_CONFIRMED" => Paid \/ byHand'
    BY <2>1 DEF SaveRow, PaidInv, PaidProc
  <2>. QED
    BY <2>2, <2>3, <2>4 DEF PaidInv, Paid, PaidKept, PaymentMoves
<1>2. CASE byHand' = byHand /\ reached' \subseteq reached \cup {"CREATED"}
  BY <1>2 DEF PaidInv, Paid, PaidKept, PaymentMoves
<1>. QED
  BY <1>1, <1>2

LEMMA PaidForGrows == ASSUME PaymentMoves, NEW p PROVE PaidFor(p) \subseteq PaidFor(p)'
BY DEF PaymentMoves, PaidFor, Paid

LEMMA PaidStays ==
    ASSUME PaymentMoves, NEW p, NEW j, PaidProc(p, j)
    PROVE  PaidProc(p, j)'
<1>1. j.todo \in Seq(PaidFor(p)') /\ j.catch \in Seq(PaidFor(p)')
  BY PaidForGrows, SeqMonotonic DEF PaidProc
<1>. QED
  BY <1>1 DEF PaidProc, PaymentMoves, Paid

\* Commands that ask for neither a payment nor its confirmation.
LEMMA UnpaidCommands ==
    ASSUME NEW p
    PROVE  /\ \A s \in Status \ {"PAYMENT_CONFIRMED"}, d \in Driver \cup {NoDriver} : Transition(s, d) \in PaidFor(p)
           /\ \A v \in PaymentStatus : UpdatePayment(v) \in PaidFor(p)
           /\ Cancel \in PaidFor(p) /\ SearchTimeout \in PaidFor(p) /\ StoreRetry \in PaidFor(p)
           /\ Redispatch \in PaidFor(p) /\ ReserveStep \in PaidFor(p)
           /\ \A d \in Driver \cup {NoDriver} : AcceptDriver(d) \in PaidFor(p)
                                                /\ [ReserveStep EXCEPT !.by = d] \in PaidFor(p)
BY DEF PaidFor, Command, Transition, UpdatePayment, Cancel, SearchTimeout, StoreRetry, Redispatch, AcceptDriver,
       ReserveStep, Cmd, Status

LEMMA PaidFresh ==
    ASSUME NEW p, NEW todo \in Seq(PaidFor(p)'), NEW catch \in Seq(PaidFor(p)')
    PROVE  /\ PaidProc(p, [Stopped EXCEPT !.todo = todo, !.catch = catch])'
           /\ PaidProc(p, [Stopped EXCEPT !.todo = todo])'
           /\ PaidProc(p, Stopped)'
<1>1. <<>> \in Seq(PaidFor(p)')
  BY EmptySeq
<1>. QED
  BY <1>1, NoRowType DEF PaidProc, Stopped

LEMMA PaidStart ==
    ASSUME NEW p \in Proc, NEW todo \in Seq(PaidFor(p)'), Start(p, todo)
    PROVE  \E j : PaidProc(p, j)' /\ proc' = [proc EXCEPT ![p] = j]
BY PaidFresh DEF Start

LEMMA PaidGoOn ==
    ASSUME LifeInv, PaidInv, PaymentMoves, NEW p \in Proc, ~Idle(p), NEW cmds \in Seq(PaidFor(p)'), GoOn(p, cmds)
    PROVE  \E j : PaidProc(p, j)' /\ proc' = [proc EXCEPT ![p] = j]
<1>. DEFINE rest == cmds \o Tail(proc[p].todo)
            catch == IF rest = <<>> THEN <<>> ELSE proc[p].catch
<1>1. Tail(proc[p].todo) \in Seq(PaidFor(p)') /\ proc[p].catch \in Seq(PaidFor(p)')
  BY HeadTailProperties, PaidForGrows, SeqMonotonic DEF PaidInv, PaidProc, Idle
<1>2. rest \in Seq(PaidFor(p)')
  BY <1>1, ConcatProperties
<1>3. catch \in Seq(PaidFor(p)')
  BY <1>1, EmptySeq
<1>4. PICK t, c \in Seq(PaidFor(p)') : t = rest /\ c = catch
  BY <1>2, <1>3
<1>5. PaidProc(p, [Stopped EXCEPT !.todo = t, !.catch = c])'
  BY PaidFresh
<1>6. proc' = [proc EXCEPT ![p] = [Stopped EXCEPT !.todo = t, !.catch = c]]
  BY <1>4 DEF GoOn
<1>. QED
  BY <1>5, <1>6

LEMMA PaidDone ==
    ASSUME LifeInv, PaidInv, PaymentMoves, NEW p \in Proc, ~Idle(p), Done(p) \/ Throw(p)
    PROVE  \E j : PaidProc(p, j)' /\ proc' = [proc EXCEPT ![p] = j]
<1>1. CASE Done(p)
  BY <1>1, PaidGoOn, EmptySeq DEF Done
<1>2. CASE Throw(p)
  <2>1. proc[p].catch \in Seq(PaidFor(p)')
    BY PaidForGrows, SeqMonotonic DEF PaidInv, PaidProc
  <2>. QED
    BY <1>2, <2>1, PaidStart DEF Throw
<1>. QED
  BY <1>1, <1>2

\* One process moves on, the payment does not.
LEMMA PaidStep ==
    ASSUME LifeInv, PaidInv, NEW p \in Proc, \E j : PaidProc(p, j)' /\ proc' = [proc EXCEPT ![p] = j],
           PaidKept
    PROVE  PaidInv'
<1>1. PICK j : PaidProc(p, j)' /\ proc' = [proc EXCEPT ![p] = j]
  OBVIOUS
<1>2. \A q \in Proc : proc'[q] = IF q = p THEN j ELSE proc[q]
  BY <1>1 DEF LifeInv, ProcInv
<1>3. ASSUME NEW q \in Proc PROVE PaidProc(q, proc[q])'
  <2>1. CASE q = p
    BY <1>1, <1>2, <2>1 DEF PaidProc
  <2>2. CASE q # p
    <3>. PICK k : k = proc[q]
      OBVIOUS
    <3>1. PaidProc(q, k)'
      BY PaidStays DEF PaidInv, PaidKept, PaymentMoves, Paid
    <3>. QED
      BY <1>2, <2>2, <3>1 DEF PaidProc
  <2>. QED
    BY <2>1, <2>2
<1>. QED
  BY <1>3 DEF PaidInv, PaidKept

\* The command keeps its place and holds another copy, or none.
LEMMA PaidHolds ==
    ASSUME LifeInv, PaidInv, PaymentMoves, NEW p \in Proc, NEW j, proc' = [proc EXCEPT ![p] = j],
           j.todo = proc[p].todo, j.catch = proc[p].catch, j.copy.status = "PAYMENT_CONFIRMED" => Paid \/ p \in User
    PROVE  \E k : PaidProc(p, k)' /\ proc' = [proc EXCEPT ![p] = k]
<1>1. PaidProc(p, j)
  BY DEF PaidInv, PaidProc
<1>2. PICK k : k = j
  OBVIOUS
<1>3. PaidProc(p, k)'
  BY <1>1, <1>2, PaidStays
<1>. QED
  BY <1>2, <1>3

LEMMA PaidRead ==
    ASSUME LifeInv, PaidInv, PaymentMoves, NEW p \in Proc, NEW label, NEW new, HasRead(p, label, new),
           new.status = "PAYMENT_CONFIRMED" => Paid \/ p \in User
    PROVE  \E k : PaidProc(p, k)' /\ proc' = [proc EXCEPT ![p] = k]
<1>. DEFINE j == [proc[p] EXCEPT !.pc = label, !.base = row, !.copy = new]
<1>1. proc[p] \in ProcRecord
  BY DEF LifeInv, ProcInv, ProcOK
<1>2. proc' = [proc EXCEPT ![p] = j]
  BY DEF HasRead, LifeInv, ProcInv
<1>3. j.todo = proc[p].todo /\ j.catch = proc[p].catch /\ j.copy = new
  BY <1>1 DEF ProcRecord
<1>. HIDE DEF j
<1>4. PICK k : k = j
  OBVIOUS
<1>. QED
  BY <1>2, <1>3, <1>4, PaidHolds

\* The current command is one that may be asked for.
LEMMA PaidCurrent ==
    ASSUME PaidInv, NEW p \in Proc, ~Idle(p)
    PROVE  Current(p) \in PaidFor(p)
BY HeadTailProperties DEF PaidInv, PaidProc, Idle, Current

LEMMA PaidTransition ==
    ASSUME LifeInv, PaidInv, NEW p \in Proc, ReadTransition(p) \/ SaveTransition(p) \/ StoreEvent(p) \/ SaveRefused(p)
    PROVE  PaidInv'
<1>1. ~Idle(p) /\ PaidKept /\ PaymentMoves
  <2>1. ~Idle(p) /\ payment' = payment
    BY DEF ReadTransition, SaveTransition, StoreEvent, SaveRefused, At, dbVars, extVars
  <2>2. SaveRow(p) \/ (byHand' = byHand /\ reached' \subseteq reached \cup {"CREATED"})
    BY DEF ReadTransition, SaveTransition, StoreEvent, SaveRefused, At, dbVars, extVars
  <2>. QED
    BY <2>1, <2>2, PaidSaves
<1>2. CASE Done(p) \/ Throw(p)
  BY <1>1, <1>2, PaidDone, PaidStep
<1>3. CASE /\ ReadTransition(p)
           /\ HasRead(p, "append", [row EXCEPT !.status = Current(p).to,
                                               !.driver = IF Current(p).to = "DRIVER_ASSIGNED" /\ @ = NoDriver
                                                          THEN Current(p).by ELSE @])
  <2>. DEFINE new == [row EXCEPT !.status = Current(p).to,
                                 !.driver = IF Current(p).to = "DRIVER_ASSIGNED" /\ @ = NoDriver
                                            THEN Current(p).by ELSE @]
  <2>1. new.status = Current(p).to
    BY DEF LifeInv, RowInv, Row
  <2>2. Current(p).to = "PAYMENT_CONFIRMED" => Paid \/ p \in User
    BY <1>1, <1>3, PaidCurrent DEF ReadTransition, At, PaidFor
  <2>3. PICK n : n.status = Current(p).to /\ HasRead(p, "append", n)
    <3>1. HasRead(p, "append", new)
      BY <1>3
    <3>. HIDE DEF new
    <3>. QED
      BY <2>1, <3>1
  <2>. QED
    BY <1>1, <2>2, <2>3, PaidRead, PaidStep
<1>4. CASE /\ SaveTransition(p)
           /\ proc' = [proc EXCEPT ![p] = [@ EXCEPT !.pc = "emit", !.base = NoRow, !.copy = NoRow]]
  <2>. DEFINE j == [proc[p] EXCEPT !.pc = "emit", !.base = NoRow, !.copy = NoRow]
  <2>1. proc[p] \in ProcRecord
    BY DEF LifeInv, ProcInv, ProcOK
  <2>2. j.todo = proc[p].todo /\ j.catch = proc[p].catch /\ j.copy.status # "PAYMENT_CONFIRMED"
    BY <2>1, NoRowType DEF ProcRecord
  <2>3. proc' = [proc EXCEPT ![p] = j]
    BY <1>4 DEF LifeInv, ProcInv
  <2>. HIDE DEF j
  <2>4. PICK k : k = j
    OBVIOUS
  <2>. QED
    BY <1>1, <2>2, <2>3, <2>4, PaidHolds, PaidStep
<1>. QED
  BY <1>2, <1>3, <1>4 DEF ReadTransition, SaveTransition, StoreEvent, SaveRefused

LEMMA PaidAppendHistory ==
    ASSUME LifeInv, PaidInv, NEW p \in Proc, AppendHistory(p)
    PROVE  PaidInv'
<1>1. PaymentMoves /\ reached' = reached /\ payment' = payment /\ byHand' = byHand
  BY DEF AppendHistory, PaymentMoves, Paid, extVars
<1>2. \A q \in Proc : proc[q] \in ProcRecord
  BY DEF LifeInv, ProcInv, ProcOK
<1>3. ASSUME NEW q \in Proc
      PROVE  /\ proc'[q].todo = proc[q].todo /\ proc'[q].catch = proc[q].catch
             /\ proc'[q].copy.status \in {proc[q].copy.status, "NONE"}
  BY <1>2, NoRowType DEF AppendHistory, ProcRecord
<1>4. \A q \in Proc : PaidFor(q)' = PaidFor(q)
  BY <1>1 DEF PaidFor, Paid
<1>. QED
  BY <1>1, <1>3, <1>4 DEF PaidInv, PaidProc, Paid

LEMMA PaidPayment ==
    ASSUME LifeInv, PaidInv, NEW p \in Proc, ReadPayment(p) \/ SavePayment(p)
    PROVE  PaidInv'
<1>1. ~Idle(p) /\ PaidKept /\ PaymentMoves
  <2>1. ~Idle(p) /\ payment' = payment
    BY DEF ReadPayment, SavePayment, At, dbVars, extVars
  <2>2. SaveRow(p) \/ (byHand' = byHand /\ reached' \subseteq reached \cup {"CREATED"})
    BY DEF ReadPayment, SavePayment, At, dbVars, extVars
  <2>. QED
    BY <2>1, <2>2, PaidSaves
<1>2. CASE ReadPayment(p)
  <2>. DEFINE new == [row EXCEPT !.pay = Current(p).to]
  <2>1. new.status = row.status /\ (row.status = "PAYMENT_CONFIRMED" => Paid)
    BY DEF LifeInv, RowInv, Row, PaidInv
  <2>2. PICK n : n.status = row.status /\ HasRead(p, "save", n)
    <3>1. HasRead(p, "save", new)
      BY <1>2 DEF ReadPayment, WillSave
    <3>. HIDE DEF new
    <3>. QED
      BY <2>1, <3>1
  <2>. QED
    BY <1>1, <2>1, <2>2, PaidRead, PaidStep
<1>3. CASE Done(p)
  BY <1>1, <1>3, PaidDone, PaidStep
<1>4. CASE SavePayment(p) /\ Start(p, <<[ReserveStep EXCEPT !.by = proc[p].copy.driver]>>)
  <2>1. PICK c : c = [ReserveStep EXCEPT !.by = proc[p].copy.driver]
    OBVIOUS
  <2>2. proc[p].copy.driver \in Driver \cup {NoDriver}
    BY DEF LifeInv, ProcInv, ProcOK, ProcRecord, Row
  <2>3. c \in PaidFor(p)'
    BY <1>1, <2>1, <2>2, UnpaidCommands, PaidForGrows
  <2>4. <<c>> \in Seq(PaidFor(p)') /\ Start(p, <<c>>)
    BY <1>4, <2>1, <2>3, ShortSeq
  <2>. QED
    BY <1>1, <2>4, PaidStart, PaidStep
<1>. QED
  BY <1>2, <1>3, <1>4 DEF SavePayment

\* cancel, handleDriverRejectedOrExpired and handleDriverSearchTimeout.
LEMMA PaidSearch ==
    ASSUME LifeInv, PaidInv, NEW p \in Proc,
           ReadCancel(p) \/ ReadRedispatch(p) \/ ClearDriverId(p) \/ StoreRetryEvent(p) \/ ReadTimeout(p)
    PROVE  PaidInv'
<1>1. ~Idle(p) /\ PaidKept /\ PaymentMoves
  <2>1. ~Idle(p) /\ payment' = payment
    BY DEF ReadCancel, ReadRedispatch, ClearDriverId, StoreRetryEvent, ReadTimeout, At, dbVars, extVars
  <2>2. SaveRow(p) \/ (byHand' = byHand /\ reached' \subseteq reached \cup {"CREATED"})
    BY DEF ReadCancel, ReadRedispatch, ClearDriverId, StoreRetryEvent, ReadTimeout, At, dbVars, extVars
  <2>. QED
    BY <2>1, <2>2, PaidSaves
<1>2. CASE Done(p)
  BY <1>1, <1>2, PaidDone, PaidStep
<1>3. ASSUME NEW cmds \in {<<Cancel>>, SearchOn, <<Transition("CANCELLED", NoDriver)>>}, GoOn(p, cmds)
      PROVE  PaidInv'
  <2>1. <<Cancel>> \in Seq(PaidFor(p)) /\ SearchOn \in Seq(PaidFor(p))
        /\ <<Transition("CANCELLED", NoDriver)>> \in Seq(PaidFor(p))
    BY UnpaidCommands, ShortSeq DEF SearchOn, Status
  <2>2. cmds \in Seq(PaidFor(p)')
    BY <1>1, <2>1, PaidForGrows, SeqMonotonic
  <2>. QED
    BY <1>1, <1>3, <2>2, PaidGoOn, PaidStep
<1>4. CASE proc' = [proc EXCEPT ![p].pc = "save"]
  <2>. DEFINE j == [proc[p] EXCEPT !.pc = "save"]
  <2>1. proc[p] \in ProcRecord
    BY DEF LifeInv, ProcInv, ProcOK
  <2>2. j.todo = proc[p].todo /\ j.catch = proc[p].catch /\ j.copy = proc[p].copy
    BY <2>1 DEF ProcRecord
  <2>3. proc' = [proc EXCEPT ![p] = j]
    BY <1>4 DEF LifeInv, ProcInv
  <2>4. proc[p].copy.status = "PAYMENT_CONFIRMED" => Paid \/ p \in User
    BY DEF PaidInv, PaidProc
  <2>. HIDE DEF j
  <2>5. PICK k : k = j
    OBVIOUS
  <2>. QED
    BY <1>1, <2>2, <2>3, <2>4, <2>5, PaidHolds, PaidStep
<1>. QED
  BY <1>2, <1>3, <1>4 DEF ReadCancel, ReadRedispatch, ClearDriverId, StoreRetryEvent, ReadTimeout

LEMMA PaidAccept ==
    ASSUME LifeInv, PaidInv, NEW p \in Proc, ReadAccept(p) \/ SaveAccept(p)
    PROVE  PaidInv'
<1>1. ~Idle(p) /\ PaidKept /\ PaymentMoves
  <2>1. ~Idle(p) /\ payment' = payment
    BY DEF ReadAccept, SaveAccept, At, dbVars, extVars
  <2>2. SaveRow(p) \/ (byHand' = byHand /\ reached' \subseteq reached \cup {"CREATED"})
    BY DEF ReadAccept, SaveAccept, At, dbVars, extVars
  <2>. QED
    BY <2>1, <2>2, PaidSaves
<1>2. Current(p).by \in Driver \cup {NoDriver}
  BY <1>1, Working DEF LifeInv, Allowed, Command
<1>3. ASSUME NEW s, GoOn(p, Accepting(s, Current(p).by)) PROVE PaidInv'
  <2>1. Accepting(s, Current(p).by) \in Seq(PaidFor(p))
    BY <1>2, UnpaidCommands, ShortSeq DEF Accepting, Status
  <2>2. PICK cmds \in Seq(PaidFor(p)') : cmds = Accepting(s, Current(p).by)
    BY <1>1, <2>1, PaidForGrows, SeqMonotonic
  <2>. QED
    BY <1>1, <1>3, <2>2, PaidGoOn, PaidStep
<1>4. CASE ReadAccept(p) /\ WillSave(p, [row EXCEPT !.driver = Current(p).by])
  <2>. DEFINE new == [row EXCEPT !.driver = Current(p).by]
  <2>1. new.status = row.status /\ (row.status = "PAYMENT_CONFIRMED" => Paid)
    BY DEF LifeInv, RowInv, Row, PaidInv
  <2>2. PICK n : n.status = row.status /\ HasRead(p, "save", n)
    <3>1. HasRead(p, "save", new)
      BY <1>4 DEF WillSave
    <3>. HIDE DEF new
    <3>. QED
      BY <2>1, <3>1
  <2>. QED
    BY <1>1, <2>1, <2>2, PaidRead, PaidStep
<1>. QED
  BY <1>3, <1>4 DEF ReadAccept, SaveAccept

LEMMA PaidFailed == ASSUME NEW p PROVE PaymentFailed \in Seq(PaidFor(p))
BY UnpaidCommands, ShortSeq DEF PaymentFailed, PaymentStatus

\* A process starts with commands that may be asked for.
LEMMA PaidStarted ==
    ASSUME LifeInv, PaidInv, NEW p \in Proc, NEW todo \in Seq(PaidFor(p)), Start(p, todo), payment' = payment,
           byHand' = byHand, reached' \subseteq reached \cup {"CREATED"}
    PROVE  PaidInv'
<1>1. PaymentMoves /\ PaidKept
  BY PaidSaves
<1>2. todo \in Seq(PaidFor(p)')
  BY <1>1, PaidForGrows, SeqMonotonic
<1>. QED
  BY <1>1, <1>2, PaidStart, PaidStep

LEMMA PaidCreateDelivery ==
    ASSUME LifeInv, PaidInv, CreateDelivery
    PROVE  PaidInv'
<1>1. /\ payment = "none" /\ payment' = payment /\ byHand' = byHand
      /\ reached' \subseteq reached \cup {"CREATED"} /\ "saga" \in Proc
  BY DEF CreateDelivery, LifeInv, RowInv, extVars, Proc
<1>2. AskPayment \in PaidFor("saga")
  BY <1>1 DEF AskPayment, Cmd, PaidFor, Command
<1>3. <<AskPayment>> \in Seq(PaidFor("saga"))
  BY <1>2, ShortSeq
<1>. QED
  BY <1>1, <1>3, PaidStarted DEF CreateDelivery

\* CreatePayment answers: the payment is asked for no more, and the saga
\* confirms it only when the funds are authorized.
LEMMA PaidCreatePayment ==
    ASSUME LifeInv, PaidInv, CreatePayment
    PROVE  PaidInv'
<1>1. /\ "saga" \in Proc /\ ~Idle("saga") /\ Current("saga").op = "askPayment"
      /\ payment' \in {payment, "checkout", "authorized"} /\ reached' = reached /\ byHand' = byHand
  BY DEF CreatePayment, At, Proc, dbVars
<1>2. payment = "none" /\ (Paid => Paid')
  BY <1>1, PaidCurrent DEF PaidFor, Paid
<1>3. ASSUME NEW q \in Proc, q # "saga" PROVE PaidProc(q, proc[q]) => PaidProc(q, proc[q])'
  <2>1. PaidFor(q) \subseteq PaidFor(q)'
    BY <1>2, <1>3 DEF PaidFor
  <2>2. proc'[q] = proc[q]
    BY <1>3 DEF CreatePayment, RunPaymentStep, Start, LifeInv, ProcInv
  <2>3. ASSUME PaidProc(q, proc[q]) PROVE proc[q].todo \in Seq(PaidFor(q)') /\ proc[q].catch \in Seq(PaidFor(q)')
    BY <2>1, <2>3, SeqMonotonic DEF PaidProc
  <2>. QED
    BY <1>2, <2>2, <2>3 DEF PaidProc
<1>4. PaidProc("saga", proc["saga"])'
  <2>1. PaymentFailed \in Seq(PaidFor("saga")')
    <3>1. UpdatePayment("FAILED") \in PaidFor("saga")' /\ Cancel \in PaidFor("saga")'
      BY DEF PaidFor, Command, UpdatePayment, Cancel, Cmd, PaymentStatus, Status
    <3>. QED
      BY <3>1, ShortSeq DEF PaymentFailed
  <2>2. PICK c \in Seq(PaidFor("saga")') : c = PaymentFailed
    BY <2>1
  <2>3. ASSUME NEW todo \in Seq(PaidFor("saga")'), RunPaymentStep(todo) PROVE PaidProc("saga", proc["saga"])'
    <3>1. proc' = [proc EXCEPT !["saga"] = [Stopped EXCEPT !.todo = todo, !.catch = c]]
      BY <2>2, <2>3 DEF RunPaymentStep
    <3>2. proc'["saga"] = [Stopped EXCEPT !.todo = todo, !.catch = c]
      BY <1>1, <3>1 DEF LifeInv, ProcInv
    <3>3. PaidProc("saga", [Stopped EXCEPT !.todo = todo, !.catch = c])'
      BY PaidFresh
    <3>. QED
      BY <3>2, <3>3 DEF PaidProc
  <2>4. CASE Start("saga", PaymentFailed)
    <3>1. proc'["saga"] = [Stopped EXCEPT !.todo = c]
      BY <1>1, <2>2, <2>4 DEF Start, LifeInv, ProcInv
    <3>2. PaidProc("saga", [Stopped EXCEPT !.todo = c])'
      BY PaidFresh
    <3>. QED
      BY <3>1, <3>2 DEF PaidProc
  <2>5. CASE RunPaymentStep(<<Transition("PENDING_PAYMENT", NoDriver), UpdatePayment("PENDING")>>)
    <3>1. Transition("PENDING_PAYMENT", NoDriver) \in PaidFor("saga")' /\ UpdatePayment("PENDING") \in PaidFor("saga")'
      BY DEF PaidFor, Command, Transition, UpdatePayment, Cmd, PaymentStatus, Status
    <3>. QED
      BY <2>3, <2>5, <3>1, ShortSeq
  <2>6. CASE /\ payment' = "authorized"
             /\ RunPaymentStep(<<Transition("PAYMENT_CONFIRMED", NoDriver), UpdatePayment("AUTHORIZED"), ReserveStep>>)
    <3>1. Transition("PAYMENT_CONFIRMED", NoDriver) \in PaidFor("saga")' /\ UpdatePayment("AUTHORIZED") \in PaidFor("saga")'
          /\ ReserveStep \in PaidFor("saga")'
      BY <2>6 DEF PaidFor, Paid, Command, Transition, UpdatePayment, ReserveStep, Cmd, PaymentStatus, Status
    <3>. QED
      BY <2>3, <2>6, <3>1, ShortSeq
  <2>. QED
    BY <2>4, <2>5, <2>6 DEF CreatePayment
<1>. QED
  BY <1>1, <1>2, <1>3, <1>4 DEF PaidInv

LEMMA PaidReserveDriver ==
    ASSUME LifeInv, PaidInv, ReserveDriver
    PROVE  PaidInv'
<1>1. "saga" \in Proc /\ payment' = payment /\ byHand' = byHand /\ reached' \subseteq reached \cup {"CREATED"}
  BY DEF ReserveDriver, Proc, dbVars
<1>2. <<>> \in Seq(PaidFor("saga")) /\ <<Cancel, UpdatePayment("CANCELLED")>> \in Seq(PaidFor("saga"))
  BY UnpaidCommands, ShortSeq DEF PaymentStatus
<1>. QED
  BY <1>1, <1>2, PaidStarted DEF ReserveDriver

\* Messages, requests and timers.
LEMMA PaidInputs ==
    ASSUME LifeInv, PaidInv,
           \/ ReceiveDriverEvent \/ ReceivePaymentEvent \/ FireTimer \/ ScheduleRetry
           \/ \E u \in User : UserRequest(u)
    PROVE  PaidInv'
<1>1. payment' = payment /\ byHand' = byHand /\ reached' \subseteq reached \cup {"CREATED"}
  BY DEF ReceiveDriverEvent, ReceivePaymentEvent, FireTimer, ScheduleRetry, UserRequest, dbVars, extVars
<1>2. "consumer" \in Proc /\ "timer" \in Proc /\ "scheduler" \in Proc /\ User \subseteq Proc
  BY DEF Proc
<1>3. CASE ReceiveDriverEvent
  <2>1. <<Redispatch>> \in Seq(PaidFor("consumer")) /\ \A d \in Driver : <<AcceptDriver(d)>> \in Seq(PaidFor("consumer"))
    BY UnpaidCommands, ShortSeq
  <2>. QED
    BY <1>1, <1>2, <1>3, <2>1, PaidStarted DEF ReceiveDriverEvent
<1>4. CASE ReceivePaymentEvent
  <2>1. CASE payment = "captured" /\ Start("consumer", <<UpdatePayment("COMPLETED"), Transition("PAYMENT_CONFIRMED", NoDriver)>>)
    <3>1. UpdatePayment("COMPLETED") \in PaidFor("consumer") /\ Transition("PAYMENT_CONFIRMED", NoDriver) \in PaidFor("consumer")
      BY <2>1 DEF PaidFor, Paid, Command, Transition, UpdatePayment, Cmd, PaymentStatus, Status
    <3>2. <<UpdatePayment("COMPLETED"), Transition("PAYMENT_CONFIRMED", NoDriver)>> \in Seq(PaidFor("consumer"))
      BY <3>1, ShortSeq
    <3>. QED
      BY <1>1, <1>2, <2>1, <3>2, PaidStarted
  <2>2. CASE Start("consumer", PaymentFailed)
    BY <1>1, <1>2, <2>2, PaidFailed, PaidStarted
  <2>. QED
    BY <1>4, <2>1, <2>2 DEF ReceivePaymentEvent
<1>5. CASE FireTimer
  <2>1. <<SearchTimeout>> \in Seq(PaidFor("timer"))
    BY UnpaidCommands, ShortSeq
  <2>. QED
    BY <1>1, <1>2, <1>5, <2>1, PaidStarted DEF FireTimer
<1>6. CASE ScheduleRetry
  <2>1. SearchOn \in Seq(PaidFor("scheduler"))
    BY UnpaidCommands, ShortSeq DEF SearchOn
  <2>. QED
    BY <1>1, <1>2, <1>6, <2>1, PaidStarted DEF ScheduleRetry
<1>7. ASSUME NEW u \in User, UserRequest(u) PROVE PaidInv'
  <2>1. \A s \in Requests, d \in Driver : Transition(s, d) \in PaidFor(u)
    BY LifecycleAssumption DEF PaidFor, Command, Transition, Cmd
  <2>2. <<Cancel>> \in Seq(PaidFor(u)) /\ \A s \in Requests, d \in Driver : <<Transition(s, d)>> \in Seq(PaidFor(u))
    BY <2>1, UnpaidCommands, ShortSeq
  <2>. QED
    BY <1>1, <1>2, <1>7, <2>2, PaidStarted DEF UserRequest
<1>. QED
  BY <1>3, <1>4, <1>5, <1>6, <1>7

LEMMA PaidOutside ==
    ASSUME LifeInv, PaidInv, CompletePayment \/ TenMinutesPass \/ Restart \/ \E k \in Call : AnswerCall(k)
    PROVE  PaidInv'
<1>1. PaymentMoves /\ reached' = reached /\ (Paid => Paid')
  BY DEF CompletePayment, TenMinutesPass, Restart, AnswerCall, PaymentMoves, Paid, dbVars
<1>2. ASSUME NEW p \in Proc PROVE PaidProc(p, proc[p])'
  <2>1. PICK k : k = proc[p]
    OBVIOUS
  <2>2. PaidProc(p, k)'
    BY <1>1, <2>1, PaidStays DEF PaidInv
  <2>3. PaidProc(p, Stopped)'
    BY EmptySeq, PaidFresh
  <2>4. proc'[p] = k \/ proc'[p] = Stopped
    BY <2>1 DEF CompletePayment, TenMinutesPass, Restart, AnswerCall
  <2>. QED
    BY <2>2, <2>3, <2>4 DEF PaidProc
<1>. QED
  BY <1>1, <1>2 DEF PaidInv

LEMMA PaidNext ==
    ASSUME LifeInv, PaidInv, [Next]_vars
    PROVE  PaidInv'
<1>1. CASE UNCHANGED vars
  BY <1>1 DEF vars, PaidInv, PaidProc, PaidFor, Paid
<1>2. ASSUME NEW p \in Proc, Step(p) PROVE PaidInv'
  BY <1>2, PaidTransition, PaidAppendHistory, PaidPayment, PaidSearch, PaidAccept DEF Step
<1>3. CASE Next
  BY <1>2, <1>3, PaidCreateDelivery, PaidCreatePayment, PaidReserveDriver, PaidInputs, PaidOutside DEF Next, SagaStep
<1>. QED
  BY <1>1, <1>3

LEMMA PaidInit == ASSUME Init PROVE PaidInv
<1>1. "PAYMENT_CONFIRMED" \in reached => Paid
  BY DEF Init, New, Underway, Paid
<1>2. \A p \in Proc : proc[p] = Stopped /\ proc[p].todo = <<>> /\ proc[p].catch = <<>> /\ proc[p].copy.status = "NONE"
  BY NoRowType DEF Init, Stopped
<1>3. \A p \in Proc : PaidProc(p, proc[p])
  BY <1>2, EmptySeq DEF PaidProc
<1>. QED
  BY <1>1, <1>3 DEF PaidInv

\* DispatchIsPaid: no driver is searched for before payment-service has the
\* money or the authorization, whatever is lost, late or cut off, unless a
\* user's request has saved PAYMENT_CONFIRMED.
THEOREM DispatchPaid == Spec => []DispatchIsPaid
<1>1. LifeInv /\ PaidInv => DispatchIsPaid
  BY AnnouncedRow DEF LifeInv, PaidInv, Paid, DispatchIsPaid
<1>2. Spec => []PaidInv
  BY LifeInvariant, PaidInit, PaidNext, PTL DEF Spec
<1>. QED
  BY <1>1, <1>2, LifeInvariant, PTL

-----------------------------------------------------------------------------
(* DeliveryOutbox *)

\* A claimed row is PROCESSING, except the one whose markPublished was
\* applied although it threw: the claimant is about to mark it FAILED.
ClaimHeld ==
    \A p \in Publisher : \A e \in claimed[p] :
        \/ status[e] = "PROCESSING"
        \/ pc[p] = "failing" /\ cur[p] = e /\ status[e] = "PUBLISHED"

\* The send that nobody has paid for yet: after Emit and before its mark.
Unsettled(p, e) == pc[p] = "marking" /\ cur[p] = e

\* Rows that may still be sent have a failure for every copy sent so far.
SentPaid ==
    /\ \A e \in OutboxEvent : status[e] \in ClaimableStatus \cup {"ABSENT"} => sent[e] <= eventFaults[e]
    /\ \A p \in Publisher : \A e \in claimed[p] : ~Unsettled(p, e) => sent[e] <= eventFaults[e]

\* publish() reaches markPublished only after the send.
MarkingWasSent ==
    \A p \in Publisher : pc[p] = "marking" => sent[cur[p]] > 0

\* The inductive invariant.
OutboxInv ==
    /\ OutboxTypeOK
    /\ ClaimHeld
    /\ ClaimExclusive
    /\ SentPaid
    /\ DuplicatesNeedFaults
    /\ MarkingWasSent
    /\ PublishedWasSent

-----------------------------------------------------------------------------
(* One lemma per action: the action preserves the inductive invariant. *)

\* CreateEvent: a new row is unclaimed and unsent.
LEMMA CreateEventKeeps ==
    ASSUME OutboxInv, NEW e \in OutboxEvent, CreateEvent(e)
    PROVE  OutboxInv'
<1>. USE DEF OutboxInv, OutboxTypeOK, StateTypes, IdleHoldsNothing, WorksOnClaim,
            OutboxStatus, ClaimableStatus, PublisherPC
<1>1. OutboxTypeOK'
  <2>1. StateTypes'
    BY DEF CreateEvent
  <2>2. IdleHoldsNothing'
    BY DEF CreateEvent
  <2>3. WorksOnClaim'
    BY DEF CreateEvent
  <2>. QED
    BY <2>1, <2>2, <2>3
<1>2. ClaimHeld'
  BY DEF CreateEvent, ClaimHeld, ClaimExclusive
<1>3. ClaimExclusive'
  BY DEF CreateEvent, ClaimHeld, ClaimExclusive
<1>4. SentPaid'
  BY DEF CreateEvent, SentPaid, Unsettled, ClaimHeld, ClaimExclusive
<1>5. DuplicatesNeedFaults'
  BY DEF CreateEvent, DuplicatesNeedFaults, SentPaid, Unsettled
<1>6. MarkingWasSent'
  BY DEF CreateEvent, MarkingWasSent
<1>7. PublishedWasSent'
  BY DEF CreateEvent, PublishedWasSent, MarkingWasSent
<1>. QED
  BY <1>1, <1>2, <1>3, <1>4, <1>5, <1>6, <1>7

\* BackoffElapses: only the clock moves.
LEMMA BackoffElapsesKeeps ==
    ASSUME OutboxInv, NEW e \in OutboxEvent, BackoffElapses(e)
    PROVE  OutboxInv'
<1>. USE DEF OutboxInv, OutboxTypeOK, StateTypes, IdleHoldsNothing, WorksOnClaim,
            OutboxStatus, ClaimableStatus, PublisherPC
<1>1. OutboxTypeOK'
  <2>1. StateTypes'
    BY DEF BackoffElapses
  <2>2. IdleHoldsNothing'
    BY DEF BackoffElapses
  <2>3. WorksOnClaim'
    BY DEF BackoffElapses
  <2>. QED
    BY <2>1, <2>2, <2>3
<1>2. ClaimHeld'
  BY DEF BackoffElapses, ClaimHeld, ClaimExclusive
<1>3. ClaimExclusive'
  BY DEF BackoffElapses, ClaimHeld, ClaimExclusive
<1>4. SentPaid'
  BY DEF BackoffElapses, SentPaid, Unsettled, ClaimHeld, ClaimExclusive
<1>5. DuplicatesNeedFaults'
  BY DEF BackoffElapses, DuplicatesNeedFaults, SentPaid, Unsettled
<1>6. MarkingWasSent'
  BY DEF BackoffElapses, MarkingWasSent
<1>7. PublishedWasSent'
  BY DEF BackoffElapses, PublishedWasSent, MarkingWasSent
<1>. QED
  BY <1>1, <1>2, <1>3, <1>4, <1>5, <1>6, <1>7

\* FindPending: the SELECT of claimPending changes no row.
LEMMA FindPendingKeeps ==
    ASSUME OutboxInv, NEW p \in Publisher, FindPending(p)
    PROVE  OutboxInv'
<1>. USE DEF OutboxInv, OutboxTypeOK, StateTypes, IdleHoldsNothing, WorksOnClaim,
            OutboxStatus, ClaimableStatus, PublisherPC
<1>1. OutboxTypeOK'
  <2>1. StateTypes'
    BY DEF FindPending, Claimable, IsOldestBatch
  <2>2. IdleHoldsNothing'
    BY DEF FindPending, Claimable, IsOldestBatch
  <2>3. WorksOnClaim'
    BY DEF FindPending, Claimable, IsOldestBatch
  <2>. QED
    BY <2>1, <2>2, <2>3
<1>2. ClaimHeld'
  BY DEF FindPending, Claimable, IsOldestBatch, ClaimHeld, ClaimExclusive
<1>3. ClaimExclusive'
  BY DEF FindPending, Claimable, IsOldestBatch, ClaimHeld, ClaimExclusive
<1>4. SentPaid'
  BY DEF FindPending, Claimable, IsOldestBatch, SentPaid, Unsettled, ClaimHeld, ClaimExclusive
<1>5. DuplicatesNeedFaults'
  BY DEF FindPending, Claimable, IsOldestBatch, DuplicatesNeedFaults, SentPaid, Unsettled
<1>6. MarkingWasSent'
  BY DEF FindPending, Claimable, IsOldestBatch, MarkingWasSent
<1>7. PublishedWasSent'
  BY DEF FindPending, Claimable, IsOldestBatch, PublishedWasSent, MarkingWasSent
<1>. QED
  BY <1>1, <1>2, <1>3, <1>4, <1>5, <1>6, <1>7

\* ClaimOne: the conditional UPDATE finds a row that nobody has claimed.
LEMMA ClaimOneKeeps ==
    ASSUME OutboxInv, NEW p \in Publisher, ClaimOne(p)
    PROVE  OutboxInv'
<1>. USE DEF OutboxInv, OutboxTypeOK, StateTypes, IdleHoldsNothing, WorksOnClaim,
            OutboxStatus, ClaimableStatus, PublisherPC
<1>0. PICK c \in found[p] :
          LET won  == StillAsRead(c)
              left == found[p] \ {c}
              mine == claimed[p] \cup (IF won THEN {c.id} ELSE {})
          IN  /\ status' = IF won THEN [status EXCEPT ![c.id] = "PROCESSING"] ELSE status
              /\ found' = [found EXCEPT ![p] = left]
              /\ claimed' = [claimed EXCEPT ![p] = mine]
              /\ pc' = [pc EXCEPT ![p] = AfterClaim(left, mine)]
  BY DEF ClaimOne
<1>a. c.id \in OutboxEvent /\ c.read \in ClaimableStatus
  OBVIOUS
<1>b. /\ pc[p] = "claiming"
      /\ UNCHANGED <<due, sent, cur, eventFaults, crashes>>
  BY DEF ClaimOne
<1>c. AfterClaim(found[p] \ {c}, claimed'[p]) \in {"claiming", "publishing", "idle"}
  BY DEF AfterClaim
<1>1. OutboxTypeOK'
  <2>1. StateTypes'
    BY <1>0, <1>a, <1>b, <1>c DEF StillAsRead, AfterClaim
  <2>2. IdleHoldsNothing'
    BY <1>0, <1>a, <1>b, <1>c DEF StillAsRead, AfterClaim
  <2>3. WorksOnClaim'
    BY <1>0, <1>a, <1>b, <1>c DEF StillAsRead, AfterClaim
  <2>. QED
    BY <2>1, <2>2, <2>3
<1>2. ClaimHeld'
  BY <1>0, <1>a, <1>b, <1>c DEF StillAsRead, AfterClaim, ClaimHeld, ClaimExclusive
<1>3. ClaimExclusive'
  BY <1>0, <1>a, <1>b, <1>c DEF StillAsRead, AfterClaim, ClaimHeld, ClaimExclusive
<1>4. SentPaid'
  BY <1>0, <1>a, <1>b, <1>c DEF StillAsRead, AfterClaim, SentPaid, Unsettled, ClaimHeld, ClaimExclusive
<1>5. DuplicatesNeedFaults'
  BY <1>0, <1>a, <1>b, <1>c DEF StillAsRead, AfterClaim, DuplicatesNeedFaults, SentPaid, Unsettled
<1>6. MarkingWasSent'
  BY <1>0, <1>a, <1>b, <1>c DEF StillAsRead, AfterClaim, MarkingWasSent
<1>7. PublishedWasSent'
  BY <1>0, <1>a, <1>b, <1>c DEF StillAsRead, AfterClaim, PublishedWasSent, MarkingWasSent
<1>. QED
  BY <1>1, <1>2, <1>3, <1>4, <1>5, <1>6, <1>7

\* Emit: the send is covered by the pending mark.
LEMMA EmitKeeps ==
    ASSUME OutboxInv, NEW p \in Publisher, Emit(p)
    PROVE  OutboxInv'
<1>. USE DEF OutboxInv, OutboxTypeOK, StateTypes, IdleHoldsNothing, WorksOnClaim,
            OutboxStatus, ClaimableStatus, PublisherPC
<1>0. PICK e \in OutboxEvent :
          Takes(p, e) /\ sent' = [sent EXCEPT ![e] = @ + 1]
  BY DEF Emit
<1>a. /\ pc' = [pc EXCEPT ![p] = "marking"]
      /\ UNCHANGED <<status, due, found, claimed, eventFaults, crashes>>
  BY DEF Emit
<1>1. OutboxTypeOK'
  <2>1. StateTypes'
    BY <1>0, <1>a DEF Takes
  <2>2. IdleHoldsNothing'
    BY <1>0, <1>a DEF Takes
  <2>3. WorksOnClaim'
    BY <1>0, <1>a DEF Takes
  <2>. QED
    BY <2>1, <2>2, <2>3
<1>2. ClaimHeld'
  BY <1>0, <1>a DEF Takes, ClaimHeld, ClaimExclusive
<1>3. ClaimExclusive'
  BY <1>0, <1>a DEF Takes, ClaimHeld, ClaimExclusive
<1>4. SentPaid'
  BY <1>0, <1>a DEF Takes, SentPaid, Unsettled, ClaimHeld, ClaimExclusive
<1>5. DuplicatesNeedFaults'
  BY <1>0, <1>a DEF Takes, DuplicatesNeedFaults, SentPaid, Unsettled
<1>6. MarkingWasSent'
  BY <1>0, <1>a DEF Takes, MarkingWasSent
<1>7. PublishedWasSent'
  BY <1>0, <1>a DEF Takes, PublishedWasSent, MarkingWasSent
<1>. QED
  BY <1>1, <1>2, <1>3, <1>4, <1>5, <1>6, <1>7

\* MarkPublished: the row was sent and is given up.
LEMMA MarkPublishedKeeps ==
    ASSUME OutboxInv, NEW p \in Publisher, MarkPublished(p)
    PROVE  OutboxInv'
<1>. USE DEF OutboxInv, OutboxTypeOK, StateTypes, IdleHoldsNothing, WorksOnClaim,
            OutboxStatus, ClaimableStatus, PublisherPC
<1>0. cur[p] \in OutboxEvent /\ cur[p] \in claimed[p]
  BY DEF MarkPublished
<1>1. OutboxTypeOK'
  <2>1. StateTypes'
    BY <1>0 DEF MarkPublished, SettleClaim
  <2>2. IdleHoldsNothing'
    BY <1>0 DEF MarkPublished, SettleClaim
  <2>3. WorksOnClaim'
    BY <1>0 DEF MarkPublished, SettleClaim
  <2>. QED
    BY <2>1, <2>2, <2>3
<1>2. ClaimHeld'
  BY <1>0 DEF MarkPublished, SettleClaim, ClaimHeld, ClaimExclusive
<1>3. ClaimExclusive'
  BY <1>0 DEF MarkPublished, SettleClaim, ClaimHeld, ClaimExclusive
<1>4. SentPaid'
  BY <1>0 DEF MarkPublished, SettleClaim, SentPaid, Unsettled, ClaimHeld, ClaimExclusive
<1>5. DuplicatesNeedFaults'
  BY <1>0 DEF MarkPublished, SettleClaim, DuplicatesNeedFaults, SentPaid, Unsettled
<1>6. MarkingWasSent'
  BY <1>0 DEF MarkPublished, SettleClaim, MarkingWasSent
<1>7. PublishedWasSent'
  BY <1>0 DEF MarkPublished, SettleClaim, PublishedWasSent, MarkingWasSent
<1>. QED
  BY <1>1, <1>2, <1>3, <1>4, <1>5, <1>6, <1>7

\* MarkFailed: the row becomes claimable with its copies paid for.
LEMMA MarkFailedKeeps ==
    ASSUME OutboxInv, NEW p \in Publisher, MarkFailed(p)
    PROVE  OutboxInv'
<1>. USE DEF OutboxInv, OutboxTypeOK, StateTypes, IdleHoldsNothing, WorksOnClaim,
            OutboxStatus, ClaimableStatus, PublisherPC
<1>0. cur[p] \in OutboxEvent /\ cur[p] \in claimed[p]
  BY DEF MarkFailed
<1>1. OutboxTypeOK'
  <2>1. StateTypes'
    BY <1>0 DEF MarkFailed, SettleClaim
  <2>2. IdleHoldsNothing'
    BY <1>0 DEF MarkFailed, SettleClaim
  <2>3. WorksOnClaim'
    BY <1>0 DEF MarkFailed, SettleClaim
  <2>. QED
    BY <2>1, <2>2, <2>3
<1>2. ClaimHeld'
  BY <1>0 DEF MarkFailed, SettleClaim, ClaimHeld, ClaimExclusive
<1>3. ClaimExclusive'
  BY <1>0 DEF MarkFailed, SettleClaim, ClaimHeld, ClaimExclusive
<1>4. SentPaid'
  BY <1>0 DEF MarkFailed, SettleClaim, SentPaid, Unsettled, ClaimHeld, ClaimExclusive
<1>5. DuplicatesNeedFaults'
  BY <1>0 DEF MarkFailed, SettleClaim, DuplicatesNeedFaults, SentPaid, Unsettled
<1>6. MarkingWasSent'
  BY <1>0 DEF MarkFailed, SettleClaim, MarkingWasSent
<1>7. PublishedWasSent'
  BY <1>0 DEF MarkFailed, SettleClaim, PublishedWasSent, MarkingWasSent
<1>. QED
  BY <1>1, <1>2, <1>3, <1>4, <1>5, <1>6, <1>7

\* ClaimError: the batch is abandoned.
LEMMA ClaimErrorKeeps ==
    ASSUME OutboxInv, NEW p \in Publisher, ClaimError(p)
    PROVE  OutboxInv'
<1>. USE DEF OutboxInv, OutboxTypeOK, StateTypes, IdleHoldsNothing, WorksOnClaim,
            OutboxStatus, ClaimableStatus, PublisherPC
<1>0. PICK c \in found[p] :
          /\ EventFault(c.id)
          /\ \/ StillAsRead(c) /\ status' = [status EXCEPT ![c.id] = "PROCESSING"]
             \/ UNCHANGED status
  BY DEF ClaimError
<1>a. c.id \in OutboxEvent /\ c.read \in ClaimableStatus
  OBVIOUS
<1>b. Abandon(p) /\ UNCHANGED <<due, sent, cur, crashes>>
  BY DEF ClaimError
<1>1. OutboxTypeOK'
  <2>1. StateTypes'
    BY <1>0, <1>a, <1>b DEF StillAsRead, Abandon, EventFault
  <2>2. IdleHoldsNothing'
    BY <1>0, <1>a, <1>b DEF StillAsRead, Abandon, EventFault
  <2>3. WorksOnClaim'
    BY <1>0, <1>a, <1>b DEF StillAsRead, Abandon, EventFault
  <2>. QED
    BY <2>1, <2>2, <2>3
<1>2. ClaimHeld'
  BY <1>0, <1>a, <1>b DEF StillAsRead, Abandon, EventFault, ClaimHeld, ClaimExclusive
<1>3. ClaimExclusive'
  BY <1>0, <1>a, <1>b DEF StillAsRead, Abandon, EventFault, ClaimHeld, ClaimExclusive
<1>4. SentPaid'
  BY <1>0, <1>a, <1>b DEF StillAsRead, Abandon, EventFault, SentPaid, Unsettled, ClaimHeld, ClaimExclusive
<1>5. DuplicatesNeedFaults'
  BY <1>0, <1>a, <1>b DEF StillAsRead, Abandon, EventFault, DuplicatesNeedFaults, SentPaid, Unsettled
<1>6. MarkingWasSent'
  BY <1>0, <1>a, <1>b DEF StillAsRead, Abandon, EventFault, MarkingWasSent
<1>7. PublishedWasSent'
  BY <1>0, <1>a, <1>b DEF StillAsRead, Abandon, EventFault, PublishedWasSent, MarkingWasSent
<1>. QED
  BY <1>1, <1>2, <1>3, <1>4, <1>5, <1>6, <1>7

\* EmitError: the failure pays for the copy that may have been sent.
LEMMA EmitErrorKeeps ==
    ASSUME OutboxInv, NEW p \in Publisher, EmitError(p)
    PROVE  OutboxInv'
<1>. USE DEF OutboxInv, OutboxTypeOK, StateTypes, IdleHoldsNothing, WorksOnClaim,
            OutboxStatus, ClaimableStatus, PublisherPC
<1>0. PICK e \in OutboxEvent :
          /\ Takes(p, e)
          /\ EventFault(e)
          /\ \/ sent' = [sent EXCEPT ![e] = @ + 1]
             \/ UNCHANGED sent
  BY DEF EmitError
<1>a. /\ pc' = [pc EXCEPT ![p] = "failing"]
      /\ UNCHANGED <<status, due, found, claimed, crashes>>
  BY DEF EmitError
<1>1. OutboxTypeOK'
  <2>1. StateTypes'
    BY <1>0, <1>a DEF Takes, EventFault
  <2>2. IdleHoldsNothing'
    BY <1>0, <1>a DEF Takes, EventFault
  <2>3. WorksOnClaim'
    BY <1>0, <1>a DEF Takes, EventFault
  <2>. QED
    BY <2>1, <2>2, <2>3
<1>2. ClaimHeld'
  BY <1>0, <1>a DEF Takes, EventFault, ClaimHeld, ClaimExclusive
<1>3. ClaimExclusive'
  BY <1>0, <1>a DEF Takes, EventFault, ClaimHeld, ClaimExclusive
<1>4. SentPaid'
  BY <1>0, <1>a DEF Takes, EventFault, SentPaid, Unsettled, ClaimHeld, ClaimExclusive
<1>5. DuplicatesNeedFaults'
  BY <1>0, <1>a DEF Takes, EventFault, DuplicatesNeedFaults, SentPaid, Unsettled
<1>6. MarkingWasSent'
  BY <1>0, <1>a DEF Takes, EventFault, MarkingWasSent
<1>7. PublishedWasSent'
  BY <1>0, <1>a DEF Takes, EventFault, PublishedWasSent, MarkingWasSent
<1>. QED
  BY <1>1, <1>2, <1>3, <1>4, <1>5, <1>6, <1>7

\* MarkPublishedError: the failure pays for the copy that was sent.
LEMMA MarkPublishedErrorKeeps ==
    ASSUME OutboxInv, NEW p \in Publisher, MarkPublishedError(p)
    PROVE  OutboxInv'
<1>. USE DEF OutboxInv, OutboxTypeOK, StateTypes, IdleHoldsNothing, WorksOnClaim,
            OutboxStatus, ClaimableStatus, PublisherPC
<1>0. cur[p] \in OutboxEvent /\ cur[p] \in claimed[p]
  BY DEF MarkPublishedError
<1>1. OutboxTypeOK'
  <2>1. StateTypes'
    BY <1>0 DEF MarkPublishedError, EventFault
  <2>2. IdleHoldsNothing'
    BY <1>0 DEF MarkPublishedError, EventFault
  <2>3. WorksOnClaim'
    BY <1>0 DEF MarkPublishedError, EventFault
  <2>. QED
    BY <2>1, <2>2, <2>3
<1>2. ClaimHeld'
  BY <1>0 DEF MarkPublishedError, EventFault, ClaimHeld, ClaimExclusive
<1>3. ClaimExclusive'
  BY <1>0 DEF MarkPublishedError, EventFault, ClaimHeld, ClaimExclusive
<1>4. SentPaid'
  <2>1. eventFaults' = [eventFaults EXCEPT ![cur[p]] = @ + 1] /\ UNCHANGED <<sent, claimed, cur>>
    BY DEF MarkPublishedError, EventFault
  <2>2. sent[cur[p]] <= eventFaults'[cur[p]]
    BY <1>0, <2>1 DEF DuplicatesNeedFaults
  <2>3. ASSUME NEW e \in OutboxEvent, status'[e] \in ClaimableStatus \cup {"ABSENT"}
        PROVE  sent'[e] <= eventFaults'[e]
    BY <1>0, <2>1, <2>2, <2>3 DEF MarkPublishedError, SentPaid
  <2>4. ASSUME NEW q \in Publisher, NEW e \in claimed'[q], ~Unsettled(q, e)'
        PROVE  sent'[e] <= eventFaults'[e]
    BY <1>0, <2>1, <2>2, <2>4 DEF MarkPublishedError, SentPaid, Unsettled, ClaimExclusive
  <2>. QED
    BY <2>3, <2>4 DEF SentPaid
<1>5. DuplicatesNeedFaults'
  BY <1>0 DEF MarkPublishedError, EventFault, DuplicatesNeedFaults, SentPaid, Unsettled
<1>6. MarkingWasSent'
  BY <1>0 DEF MarkPublishedError, EventFault, MarkingWasSent
<1>7. PublishedWasSent'
  BY <1>0 DEF MarkPublishedError, EventFault, PublishedWasSent, MarkingWasSent
<1>. QED
  BY <1>1, <1>2, <1>3, <1>4, <1>5, <1>6, <1>7

\* MarkFailedError: the batch is abandoned.
LEMMA MarkFailedErrorKeeps ==
    ASSUME OutboxInv, NEW p \in Publisher, MarkFailedError(p)
    PROVE  OutboxInv'
<1>. USE DEF OutboxInv, OutboxTypeOK, StateTypes, IdleHoldsNothing, WorksOnClaim,
            OutboxStatus, ClaimableStatus, PublisherPC
<1>0. cur[p] \in OutboxEvent /\ cur[p] \in claimed[p]
  BY DEF MarkFailedError
<1>1. OutboxTypeOK'
  <2>1. StateTypes'
    <3>1. status' \in [OutboxEvent -> OutboxStatus \cup {"ABSENT"}] /\ due' \in [OutboxEvent -> BOOLEAN]
      BY <1>0, ZenonT(60) DEF MarkFailedError, rowVars
    <3>2. eventFaults' \in [OutboxEvent -> Nat]
      BY <1>0 DEF MarkFailedError, EventFault
    <3>. QED
      BY <3>1, <3>2 DEF MarkFailedError, Abandon
  <2>2. IdleHoldsNothing'
    BY <1>0 DEF MarkFailedError, EventFault, Abandon, rowVars
  <2>3. WorksOnClaim'
    BY <1>0 DEF MarkFailedError, EventFault, Abandon, rowVars
  <2>. QED
    BY <2>1, <2>2, <2>3
<1>2. ClaimHeld'
  BY <1>0 DEF MarkFailedError, EventFault, Abandon, rowVars, ClaimHeld, ClaimExclusive
<1>3. ClaimExclusive'
  BY <1>0 DEF MarkFailedError, EventFault, Abandon, rowVars, ClaimHeld, ClaimExclusive
<1>4. SentPaid'
  BY <1>0 DEF MarkFailedError, EventFault, Abandon, rowVars, SentPaid, Unsettled, ClaimHeld, ClaimExclusive
<1>5. DuplicatesNeedFaults'
  BY <1>0 DEF MarkFailedError, EventFault, Abandon, rowVars, DuplicatesNeedFaults, SentPaid, Unsettled
<1>6. MarkingWasSent'
  BY <1>0 DEF MarkFailedError, EventFault, Abandon, rowVars, MarkingWasSent
<1>7. PublishedWasSent'
  BY <1>0 DEF MarkFailedError, EventFault, Abandon, rowVars, PublishedWasSent, MarkingWasSent
<1>. QED
  BY <1>1, <1>2, <1>3, <1>4, <1>5, <1>6, <1>7

\* Crash: the batch is abandoned.
LEMMA CrashKeeps ==
    ASSUME OutboxInv, NEW p \in Publisher, Crash(p)
    PROVE  OutboxInv'
<1>. USE DEF OutboxInv, OutboxTypeOK, StateTypes, IdleHoldsNothing, WorksOnClaim,
            OutboxStatus, ClaimableStatus, PublisherPC
<1>1. OutboxTypeOK'
  <2>1. StateTypes'
    BY DEF Crash, Abandon
  <2>2. IdleHoldsNothing'
    BY DEF Crash, Abandon
  <2>3. WorksOnClaim'
    BY DEF Crash, Abandon
  <2>. QED
    BY <2>1, <2>2, <2>3
<1>2. ClaimHeld'
  BY DEF Crash, Abandon, ClaimHeld, ClaimExclusive
<1>3. ClaimExclusive'
  BY DEF Crash, Abandon, ClaimHeld, ClaimExclusive
<1>4. SentPaid'
  BY DEF Crash, Abandon, SentPaid, Unsettled, ClaimHeld, ClaimExclusive
<1>5. DuplicatesNeedFaults'
  BY DEF Crash, Abandon, DuplicatesNeedFaults, SentPaid, Unsettled
<1>6. MarkingWasSent'
  BY DEF Crash, Abandon, MarkingWasSent
<1>7. PublishedWasSent'
  BY DEF Crash, Abandon, PublishedWasSent, MarkingWasSent
<1>. QED
  BY <1>1, <1>2, <1>3, <1>4, <1>5, <1>6, <1>7

\* The initial state: no row, no claim, nothing sent.
LEMMA InitEstablishes == OutboxInit => OutboxInv
  BY OutboxAssumption DEF OutboxInit, OutboxInv, OutboxTypeOK, StateTypes, IdleHoldsNothing, WorksOnClaim,
        OutboxStatus, ClaimableStatus, PublisherPC, ClaimHeld, ClaimExclusive, SentPaid,
        DuplicatesNeedFaults, MarkingWasSent, PublishedWasSent

\* Every step of the outbox preserves the inductive invariant.
LEMMA NextKeeps == OutboxInv /\ [OutboxNext]_outboxVars => OutboxInv'
<1>. SUFFICES ASSUME OutboxInv, [OutboxNext]_outboxVars PROVE OutboxInv'
  OBVIOUS
<1>1. CASE UNCHANGED outboxVars
  BY <1>1 DEF outboxVars, OutboxInv, OutboxTypeOK, StateTypes, IdleHoldsNothing, WorksOnClaim,
        ClaimHeld, ClaimExclusive, SentPaid, Unsettled, DuplicatesNeedFaults,
        MarkingWasSent, PublishedWasSent
<1>2. CASE \E e \in OutboxEvent : CreateEvent(e) \/ BackoffElapses(e)
  BY <1>2, CreateEventKeeps, BackoffElapsesKeeps
<1>3. CASE \E p \in Publisher : Publish(p)
  BY <1>3, FindPendingKeeps, ClaimOneKeeps, EmitKeeps, MarkPublishedKeeps, MarkFailedKeeps
     DEF Publish
<1>4. CASE \E p \in Publisher : PollEmpty(p)
  BY <1>1, <1>4 DEF PollEmpty
<1>5. CASE \E p \in Publisher : Break(p)
  BY <1>5, ClaimErrorKeeps, EmitErrorKeeps, MarkPublishedErrorKeeps, MarkFailedErrorKeeps,
     CrashKeeps DEF Break
<1>. QED
  BY <1>1, <1>2, <1>3, <1>4, <1>5 DEF OutboxNext

\* The inductive invariant holds in every reachable state.
LEMMA OutboxInvariance == OutboxSpec => []OutboxInv
<1>. QED
  BY InitEstablishes, NextKeeps, PTL DEF OutboxSpec

\* Type correctness, and that a publishBatch that ends leaves nothing behind
\* in the replica's memory.
THEOREM OutboxTypeCorrect == OutboxSpec => []OutboxTypeOK
<1>1. OutboxInv => OutboxTypeOK
  BY DEF OutboxInv
<1>. QED
  BY <1>1, OutboxInvariance, PTL

\* No two replicas publish the same row at once, whatever they read.
THEOREM ClaimsAreExclusive == OutboxSpec => []ClaimExclusive
<1>1. OutboxInv => ClaimExclusive
  BY DEF OutboxInv
<1>. QED
  BY <1>1, OutboxInvariance, PTL

\* A row marked PUBLISHED has been sent to Kafka.
THEOREM PublishedIsSent == OutboxSpec => []PublishedWasSent
<1>1. OutboxInv => PublishedWasSent
  BY DEF OutboxInv
<1>. QED
  BY <1>1, OutboxInvariance, PTL

\* Every copy of an event beyond the first was preceded by a failing call
\* made for that event; without failures the outbox sends exactly once.
THEOREM DuplicatesArePaidFor == OutboxSpec => []DuplicatesNeedFaults
<1>1. OutboxInv => DuplicatesNeedFaults
  BY DEF OutboxInv
<1>. QED
  BY <1>1, OutboxInvariance, PTL

-----------------------------------------------------------------------------
(* Refinement: the outbox implements EventRelay. *)

\* The initial rows are no rows.
LEMMA InitRefines == OutboxInit => Relay!Init
  BY DEF OutboxInit, Relay!Init, StageOf

\* A status update that keeps what the reader sees, or closes or reopens
\* one event, is a step of the relay or a stutter.
LEMMA StepRefines ==
    ASSUME OutboxInv, OutboxInv', [OutboxNext]_outboxVars
    PROVE  [Relay!Next]_(Relay!relayVars)
<1>0. \A e \in OutboxEvent : Relay!Record(e) \/ Relay!Send(e) \/ Relay!Close(e) \/ Relay!Reopen(e)
                        => Relay!Next
  BY DEF Relay!Next
<1>. USE DEF OutboxInv, OutboxTypeOK, StateTypes, WorksOnClaim, OutboxStatus, ClaimableStatus,
            PublisherPC, StageOf
<1>1. CASE UNCHANGED outboxVars
  BY <1>1 DEF outboxVars, Relay!relayVars
<1>2. ASSUME NEW e \in OutboxEvent, CreateEvent(e) PROVE Relay!Record(e)
  BY <1>2 DEF CreateEvent, Relay!Record
<1>3. ASSUME NEW e \in OutboxEvent, BackoffElapses(e) PROVE UNCHANGED Relay!relayVars
  BY <1>3 DEF BackoffElapses, Relay!relayVars
<1>4. ASSUME NEW p \in Publisher, FindPending(p) \/ PollEmpty(p) \/ Crash(p)
      PROVE  UNCHANGED Relay!relayVars
  BY <1>4 DEF FindPending, PollEmpty, Crash, outboxVars, Relay!relayVars
<1>5. ASSUME NEW p \in Publisher, ClaimOne(p) \/ ClaimError(p)
      PROVE  UNCHANGED Relay!relayVars
  <2>1. PICK c \in found[p] :
            \/ status[c.id] = c.read /\ status' = [status EXCEPT ![c.id] = "PROCESSING"]
            \/ UNCHANGED status
    BY <1>5 DEF ClaimOne, ClaimError, StillAsRead
  <2>2. c.id \in OutboxEvent /\ c.read \in ClaimableStatus
    OBVIOUS
  <2>3. UNCHANGED [e \in OutboxEvent |-> StageOf(status[e])]
    BY <2>1, <2>2
  <2>4. UNCHANGED sent
    BY <1>5 DEF ClaimOne, ClaimError
  <2>. QED
    BY <2>3, <2>4 DEF Relay!relayVars
<1>6. ASSUME NEW p \in Publisher, Emit(p) \/ EmitError(p)
      PROVE  [Relay!Next]_(Relay!relayVars)
  <2>1. PICK e \in OutboxEvent : Takes(p, e) /\ (sent' = [sent EXCEPT ![e] = @ + 1] \/ UNCHANGED sent)
    BY <1>6 DEF Emit, EmitError
  <2>2. status[e] = "PROCESSING" /\ UNCHANGED status
    BY <1>6, <2>1 DEF Emit, EmitError, Takes, ClaimHeld
  <2>3. CASE sent' = [sent EXCEPT ![e] = @ + 1]
    <3>1. Relay!Send(e)
      BY <2>2, <2>3 DEF Relay!Send
    <3>. QED
      BY <1>0, <3>1
  <2>4. CASE UNCHANGED sent
    BY <2>2, <2>4 DEF Relay!relayVars
  <2>. QED
    BY <2>1, <2>3, <2>4
<1>7. ASSUME NEW p \in Publisher, MarkPublished(p) \/ MarkPublishedError(p)
      PROVE  [Relay!Next]_(Relay!relayVars)
  <2>1. PICK e \in OutboxEvent : e = cur[p] /\ status[e] = "PROCESSING" /\ sent[e] > 0
    BY <1>7 DEF MarkPublished, MarkPublishedError, ClaimHeld, MarkingWasSent
  <2>2. UNCHANGED sent
    BY <1>7 DEF MarkPublished, MarkPublishedError
  <2>3. CASE UNCHANGED status
    BY <2>2, <2>3 DEF Relay!relayVars
  <2>4. CASE status' = [status EXCEPT ![cur[p]] = "PUBLISHED"]
    <3>1. Relay!Close(e)
      BY <2>1, <2>2, <2>4 DEF Relay!Close
    <3>. QED
      BY <1>0, <2>1, <3>1
  <2>. QED
    BY <1>7, <2>3, <2>4 DEF MarkPublished, MarkPublishedError
<1>8. ASSUME NEW p \in Publisher, MarkFailed(p) \/ MarkFailedError(p)
      PROVE  [Relay!Next]_(Relay!relayVars)
  <2>1. PICK e \in OutboxEvent : e = cur[p] /\ status[e] \in {"PROCESSING", "PUBLISHED"}
    BY <1>8 DEF MarkFailed, MarkFailedError, ClaimHeld
  <2>2. UNCHANGED sent
    BY <1>8 DEF MarkFailed, MarkFailedError
  <2>3. CASE UNCHANGED status
    BY <2>2, <2>3 DEF Relay!relayVars
  <2>4. CASE status' = [status EXCEPT ![cur[p]] = "FAILED"]
    <3>1. CASE status[e] = "PROCESSING"
      BY <2>1, <2>2, <2>4, <3>1 DEF Relay!relayVars
    <3>2. CASE status[e] = "PUBLISHED"
      <4>1. Relay!Reopen(e)
        BY <2>1, <2>2, <2>4, <3>2 DEF Relay!Reopen
      <4>. QED
        BY <1>0, <2>1, <4>1
    <3>. QED
      BY <2>1, <3>1, <3>2
  <2>. QED
    BY <1>8, <2>3, <2>4 DEF MarkFailed, MarkFailedError, rowVars
<1>. QED
  BY <1>0, <1>1, <1>2, <1>3, <1>4, <1>5, <1>6, <1>7, <1>8 DEF OutboxNext, Publish, Break

\* The outbox implements the relay for every number of replicas, events,
\* faults and crashes: it sends only what is recorded and not closed, and
\* closes only what it has sent.
THEOREM OutboxImplementsRelay == OutboxSpec => RelaySpec
<1>1. OutboxInit => Relay!Init
  BY InitRefines
<1>2. OutboxInv /\ OutboxInv' /\ [OutboxNext]_outboxVars => [Relay!Next]_(Relay!relayVars)
  BY StepRefines
<1>. QED
  BY <1>1, <1>2, OutboxInvariance, PTL DEF OutboxSpec, RelaySpec, Relay!Spec

=============================================================================
