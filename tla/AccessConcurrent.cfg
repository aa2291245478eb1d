\* Two calls in progress at a time, dates may tie.
SPECIFICATION Spec
CONSTANTS
    Users = {u1, u2}
    Boards = {b1, b2}
    Reviewers = {v1, v2}
    RequestIds = {r1, r2}
    Handlers = {h1, h2}
    AllowAll = AllowAll
    AllowedBoardIds = {b2}
    SelfService = TRUE
    DataHandling = TRUE
    ClockStep = 0
    MaxClock = 2
    NoRequest = NoRequest
    None = None
SYMMETRY Symmetric
CHECK_DEADLOCK FALSE
INVARIANTS
    TypeOK
    DecisionNotTorn
    ReferencesFollowPolicy
    GrantNeedsApproval
PROPERTIES
    RequestsMoveForward
