SPECIFICATION Spec
CONSTANTS
    FREE = FREE
    STARTER = STARTER
    PRO = PRO
    User = {u1}
    Plan = {FREE, STARTER, PRO}
    Free = FREE
    Limit <- SmallLimit
    ChargeOnSuccess <- SeededCharge
    Request = {r1}
    MaxPoints = 6
    MaxUrls = 5
    MaxWindows = 2
    MaxFaults = 1
PROPERTIES
    PolicyIsOfActivePlan
CHECK_DEADLOCK FALSE
