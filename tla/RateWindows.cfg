SPECIFICATION Spec
CONSTANTS
    good = good
    anonymous = anonymous
    ApiKeys = {good, anonymous}
    GatewayKey = good
    Limit = 2
    Window = 3
    Epoch = 3
    MaxTime = 11
    MaxRequests = 7
INVARIANTS
    TwiceTheLimit
    NoUndueRefusal
CHECK_DEADLOCK FALSE
