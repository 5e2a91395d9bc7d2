SPECIFICATION FairSpec
CONSTANTS
    Request = {1, 2, 3}
    Slug = {"a", "b", "c"}
    Alias = {"b"}
    NoSlug = "none"
    Ip = {"ip1", "ip2"}
    Channel = {"ch"}
    Address <- Addresses
    MaxAttempts = 3
    MaxFailures = 1
    First <- FirstRows
    Edits <- SomeEdits
    Mix <- Mixes
INVARIANTS
    TypeOK
    
    ChangesKept
    RecordedPerVisit
    AliasChosenFirst
PROPERTY JobsSettle
CHECK_DEADLOCK FALSE
