SPECIFICATION Spec
CONSTANTS
    Driver = {d1}
    NoDriver = NoDriver
    User = {u1}
    Requests <- RideStatuses
    Begin <- AcceptedStart
    MaxFaults = 0
PROPERTY TimeoutSparesPickedUp
CHECK_DEADLOCK FALSE
