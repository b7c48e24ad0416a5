SPECIFICATION Spec
CONSTANTS
    d1 = d1
    x1 = x1
    x2 = x2
    r1 = r1
    r2 = r2
    Driver = {d1}
    Delivery = {x1, x2}
    Req = {r1, r2}
    Scenes <- ReserveScenes
    Topics = {}
INVARIANT NoDoubleBooking
CHECK_DEADLOCK FALSE
