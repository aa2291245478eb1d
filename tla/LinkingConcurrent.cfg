\* Two users, two grants, two calls at a time; refresh tokens rotate.
SPECIFICATION Spec
CONSTANTS
    Users = {u1, u2}
    StateIds = {s1, s2}
    Grants = {g1, g2}
    Handlers = {h1, h2}
    StateTtl = 1
    Leeway = 2
    Lifetime = 4
    SendsExpiry = TRUE
    RefreshPolicy = "rotate"
    Delay = 1
    MaxClock = 4
    MaxGen = 2
    None = None
SYMMETRY Symmetric
VIEW Unanswered
INVARIANTS
    TypeOK
    StateUsedOnce
    TokensOfOwnGrant
    TokenOutlivesCall
    RefreshTokenUsable
PROPERTIES
    LastWordStands
