\* Two users, two calls at a time.
SPECIFICATION Spec
CONSTANTS
    Users = {u1, u2}
    TokenIds = {t1}
    Handlers = {h1, h2}
    TtlRequests <- SomeTtls
    DefaultTtl = 3
    MaxTtl = 4
    Throttle = 1
    WriteDelay = 1
    MaxClock = 6
    None = None
SYMMETRY Symmetric
INVARIANTS
    TypeOK
    RevocationSticks
    RevokedIsRefused
    AcceptedWithinLifetime
    LastUsedIsRecent
PROPERTIES
    OnlyOwnerRevokes
