SPECIFICATION Spec
CONSTANTS
    Driver = {d1}
    NoDriver = NoDriver
    User = {u1}
    Requests <- AllRequests
    Begin <- RaceStarts
    MaxFaults = 1
INVARIANTS
    TypeOK
    AuditTrail
    DispatchIsPaid
PROPERTIES
    LegalUnlessStale
    SearchTerminates
    EventsReachOutbox
CHECK_DEADLOCK FALSE
