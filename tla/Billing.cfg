SPECIFICATION Spec
CONSTANTS
    Method = {"m1", "m2", "m3"}
    Account = {"same", "other"}
    AccountOf <- Accounts
    Address = {"a1", "a2", "a3"}
    Request = {1, 2, 3, 4}
    Earlier <- Ranks
    MaxRank = 3
    MaxDeliveries = 3
    Subscribed <- Subscriptions
    Plans <- PlanSet
    Discounts = {0, 10}
    Moments <- MomentSet
    Mix <- Mixes
INVARIANTS
    TypeOK
    RanksInOrder
    OneMethodPerAccount
    OneDefaultAddress
    QuoteFair
CHECK_DEADLOCK FALSE
