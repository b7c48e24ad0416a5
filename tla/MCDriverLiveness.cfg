SPECIFICATION Spec
CONSTANTS
    d1 = d1
    x1 = x1
    x2 = x2
    r1 = r1
    r2 = r2
    Driver = {d1}
    Delivery = {x1}
    Req = {r1, r2}
    Scenes <- DispatchScenes
    Topics = {"offered", "noDriver"}
PROPERTIES
    StuckRepaired
    OffersResolve
    LockEventuallyFree
    DeliveryAnswered
CHECK_DEADLOCK FALSE
