SPECIFICATION Spec
CONSTANTS
    Session = {s1, s2}
    NoSession = NoSession
    Request = {r1, r2}
    MaxToken = 3
    MaxPassword = 2
    MaxProfile = 2
    Mix <- Mixes
INVARIANTS
    TypeOK
    RevokedStays
    SpentIsRefused
    AccountKept
    CacheCurrent
    ResetOnce
SYMMETRY Ids
