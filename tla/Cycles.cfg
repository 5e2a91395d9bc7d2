SPECIFICATION FairSpec
CONSTANTS
    Cycle = {2}
    Request = {r1, r2}
    MethodKnown = FALSE
INVARIANTS
    TypeOK
    StoredWasReported
    RenewedOnce
PROPERTIES
    ImplementsLedger
    SettledIsStored
CHECK_DEADLOCK FALSE
