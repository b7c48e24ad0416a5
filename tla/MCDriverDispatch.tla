-------------------------- MODULE MCDriverDispatch --------------------------
(* Instances of DriverDispatch for TLC. *)
EXTENDS DriverDispatch, TLC

CONSTANTS d1, x1, x2, r1, r2

\* The handlers are interchangeable.
Symmetry == Permutations({r1, r2})

\* States after a race satisfy the properties trivially; they are checked but
\* not explored further.
RaceFree == \A d \in Driver : races[d] = {}

Play(ops, deliveries, ttl, n) ==
    [ops |-> ops, deliveries |-> deliveries, ttl |-> ttl, faults |-> n]

OfferOps == {"GoOnline", "ReserveDriver", "SelfAccept", "AcceptAssignment", "RejectAssignment",
             "ReleaseDriver"}

\* Edits of the driver document against a driver that takes a delivery: any
\* two kinds of edit meet in one of these sets.
EditSets == {{"GoOffline", "UpdateProfile", "Suspend", "Activate", "Deactivate"},
             {"Block", "Unblock", "Suspend", "Activate"},
             {"Block", "Unblock", "GoOffline", "UpdateProfile"},
             {"Block", "Unblock", "Deactivate"}}

\* The life of two offers, with a lock that may run out and a failing call
\* (with rejections: of one offer); and the edits.
RaceScenes == {Play(OfferOps, {x1, x2}, TRUE, 0), Play(OfferOps \ {"RejectAssignment"}, {x1, x2}, TRUE, 1),
               Play(OfferOps, {x1}, TRUE, 1)}
    \cup {Play(E \cup {"GoOnline", "SelfAccept"}, {x1}, FALSE, 0) : E \in EditSets}

\* Dispatch from the queue.
DispatchScenes == {Play({"GoOnline", "DeliveryCreated", "RejectAssignment"}, {x1}, FALSE, 1)}

\* Just enough to book a driver.
ReserveScenes == {Play({"GoOnline", "ReserveDriver"}, {x1, x2}, FALSE, 0)}

=============================================================================
