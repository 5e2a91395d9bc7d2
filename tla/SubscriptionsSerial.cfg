SPECIFICATION FairSpec
CONSTANTS
    User = {u1}
    Paid = {s1, s2}
    FreeSub = {f1, f2, f3, f4}
    Plan = {STARTER, PRO}
    Free = FREE
    NoSub = NoSub
    NoUser = NoUser
    Request = {r1}
    GoogleUsers = {}
    MaxFaults = 1
    Redelivery = FALSE
    InOrder = TRUE
INVARIANTS
    BillingFollowsPlan
    OneActiveSubscription
    OneUpgradeAtATime
PROPERTIES
    EndReasonIsFinal
    EndedIsReplaced
    ConfirmedIsGranted
CHECK_DEADLOCK FALSE
