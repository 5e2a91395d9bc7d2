SPECIFICATION Spec
CONSTANTS
    User = {u1}
    Paid = {s1, s2}
    FreeSub = {f1, f2}
    Plan = {STARTER, PRO}
    Free = FREE
    NoSub = NoSub
    NoUser = NoUser
    Request = {r1, r2}
    GoogleUsers = {u1}
    MaxFaults = 0
    Redelivery = TRUE
    InOrder = FALSE
SYMMETRY Ids
INVARIANTS
    TypeOK
    FreeIsLive
    PaidIsConfirmed
    HeldIsOwned
PROPERTIES
    ImplementsEntitlement
CHECK_DEADLOCK FALSE
