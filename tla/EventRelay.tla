----------------------------- MODULE EventRelay -----------------------------
(***************************************************************************)
(* What an outbox promises its readers: an event is recorded once, then    *)
(* sent any number of times, and it is closed only after it has been sent. *)
(* Nothing is sent before it is recorded, nor while it is closed.  An      *)
(* event may be reopened (the acknowledgement can be undone when the       *)
(* database answers with an error after having applied a write).           *)
(***************************************************************************)
EXTENDS Naturals

CONSTANT Event

VARIABLES stage, sent

relayVars == <<stage, sent>>

Init ==
    /\ stage = [e \in Event |-> "none"]
    /\ sent = [e \in Event |-> 0]

Record(e) ==
    /\ stage[e] = "none"
    /\ stage' = [stage EXCEPT ![e] = "open"]
    /\ UNCHANGED sent

Send(e) ==
    /\ stage[e] = "open"
    /\ sent' = [sent EXCEPT ![e] = @ + 1]
    /\ UNCHANGED stage

Close(e) ==
    /\ stage[e] = "open"
    /\ sent[e] > 0
    /\ stage' = [stage EXCEPT ![e] = "closed"]
    /\ UNCHANGED sent

Reopen(e) ==
    /\ stage[e] = "closed"
    /\ stage' = [stage EXCEPT ![e] = "open"]
    /\ UNCHANGED sent

Next == \E e \in Event : Record(e) \/ Send(e) \/ Close(e) \/ Reopen(e)

Spec == Init /\ [][Next]_relayVars
=============================================================================
