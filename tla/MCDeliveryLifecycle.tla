------------------------ MODULE MCDeliveryLifecycle ------------------------
(* Instances of DeliveryLifecycle for TLC. *)
EXTENDS DeliveryLifecycle, TLC

\* A customer who cancels and a driver who reports progress.
RideStatuses == {"CANCELLED", "PICKED_UP", "IN_TRANSIT", "DELIVERED"}

\* transitionDelivery takes every status.
AllRequests == Status

\* A new delivery, one that searches for a driver, one that a driver has
\* accepted, and one in transit.
RaceStarts == 0 :> 1 @@ 2 :> 2 @@ 4 :> 2 @@ 6 :> 2

\* A delivery that a driver has accepted.
AcceptedStart == 4 :> 1

\* A delivery in transit.
DeliveringStart == 6 :> 1

=============================================================================
