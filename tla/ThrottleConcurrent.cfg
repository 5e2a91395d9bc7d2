SPECIFICATION Spec
CONSTANTS
    FREE = FREE
    STARTER = STARTER
    PRO = PRO
    User = {u1}
    Plan = {FREE, STARTER}
    Free = FREE
    Limit <- SmallLimit
    ChargeOnSuccess <- SeededCharge
    Request = {r1, r2, r3}
    MaxPoints = 5
    MaxUrls = 5
    MaxWindows = 1
    MaxFaults = 1
SYMMETRY Ids
INVARIANTS
    TypeOK
    OverrunBounded
    PrepaidWithinLimit
    RecordedIsOwed
CHECK_DEADLOCK FALSE
