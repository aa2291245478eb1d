\* One call in progress at a time, dates never tie, no data-handling references.
SPECIFICATION Spec
CONSTANTS
    Users = {u1, u2}
    Boards = {b1}
    Reviewers = {v1}
    RequestIds = {r1, r2, r3}
    Handlers = {h1}
    AllowAll = AllowAll
    AllowedBoardIds = {}
    SelfService = TRUE
    DataHandling = FALSE
    ClockStep = 1
    MaxClock = 4
    NoRequest = NoRequest
    None = None
CHECK_DEADLOCK FALSE
INVARIANTS
    OneOpenRequest
    StatusAgreesWithGuard
PROPERTIES
    DecisionIsFinal
    ImplementsWorkflow
