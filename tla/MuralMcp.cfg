\* One tool call and one REST call at a time, of two users and for two boards.
SPECIFICATION Spec
CONSTANTS
    Users = {u1, u2}
    Boards = {b1, b2}
    Reviewers = {v1}
    RequestIds = {r1}
    TokenIds = {t1}
    StateIds = {s1}
    Grants = {g1}
    ToolHandlers = {h1}
    RestHandlers = {p1}
    AllowedBoardIds = {}
    AllowAll = AllowAll
    MaxClock = 1
    MaxGen = 1
    NoRequest = NoRequest
    None = None
SYMMETRY Symmetric
VIEW Unanswered
INVARIANTS
    ContactIsAuthorised
    SamePrincipal
PROPERTIES
    ImplementsBoardLoad
