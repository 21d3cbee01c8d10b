SPECIFICATION Spec
CONSTANTS
    r1 = r1
    r2 = r2
    r3 = r3
    r4 = r4
    None = None
    Requests = {r1, r2, r3, r4}
INVARIANTS
    TypeOK
    SoundUnlessRaced
    OneMemory
PROPERTIES
    EveryRequestServed
CHECK_DEADLOCK FALSE
