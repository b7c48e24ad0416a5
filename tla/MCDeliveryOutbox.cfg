SPECIFICATION OutboxSpec
CONSTANTS
    Publisher = {p1, p2}
    MaxEvents = 2
    BatchSize = 2
    MaxEventFaults = 2
    MaxCrashes = 1
INVARIANTS
    OutboxTypeOK
    ClaimExclusive
    PublishedWasSent
    DuplicatesNeedFaults
PROPERTIES
    RelaySpec
    EventsSettle
