\* A refresh in progress while the user links again.
SPECIFICATION Spec
CONSTANTS
    Users = {u1}
    StateIds = {s1, s2}
    Grants = {g1, g2}
    Handlers = {h1, h2}
    StateTtl = 1
    Leeway = 2
    Lifetime = 4
    SendsExpiry = TRUE
    RefreshPolicy = "keep"
    Delay = 1
    MaxClock = 5
    MaxGen = 1
    None = None
PROPERTIES
    LinkPersists
