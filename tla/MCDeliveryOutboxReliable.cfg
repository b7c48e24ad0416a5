SPECIFICATION OutboxSpec
CONSTANTS
    Publisher = {p1, p2}
    MaxEvents = 1
    BatchSize = 1
    MaxEventFaults = 0
    MaxCrashes = 1
PROPERTY
    ReliablePublishing
