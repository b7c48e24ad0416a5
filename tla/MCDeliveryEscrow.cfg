SPECIFICATION Spec
CONSTANTS
    Driver = {d1}
    NoDriver = NoDriver
    User = {u1}
    Requests <- RideStatuses
    Begin <- DeliveringStart
    MaxFaults = 0
PROPERTY EscrowSettles
CHECK_DEADLOCK FALSE
