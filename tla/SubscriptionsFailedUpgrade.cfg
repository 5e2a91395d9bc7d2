SPECIFICATION Spec
CONSTANTS
    User = {u1}
    Paid = {s1, s2}
    FreeSub = {f1, f2, f3}
    Plan = {STARTER, PRO}
    Free = FREE
    NoSub = NoSub
    NoUser = NoUser
    Request = {r1}
    GoogleUsers = {}
    MaxFaults = 0
    Redelivery = FALSE
    InOrder = TRUE
INVARIANTS
    FailedUpgradeIsRecorded
CHECK_DEADLOCK FALSE
