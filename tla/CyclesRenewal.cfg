SPECIFICATION FairSpec
CONSTANTS
    Cycle = {1, 2}
    Request = {r1}
    MethodKnown = TRUE
PROPERTIES
    PaidIsBooked
CHECK_DEADLOCK FALSE
