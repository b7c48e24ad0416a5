SPECIFICATION Spec
CONSTANTS
    MaxRequests = 3
    Notice = {e1}
    Amount = 2
    CaptureAmount = {0, 1}
    MaxFaults = 1
INVARIANTS
    TypeOK
    RefundsWithinCapture
    ReturnedIsAccounted
PROPERTIES
    LegalUnlessWebhook
    PaidIsAnnounced
    ReservationsEnd
    AttemptsSettle
CHECK_DEADLOCK FALSE
