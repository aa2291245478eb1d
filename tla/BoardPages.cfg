\* Calls of two users on one board of up to three widgets, one or two on a page, under edits.
SPECIFICATION Spec
CONSTANTS
    Users = {u1, u2}
    Boards = {b1}
    Handlers = {h1}
    MaxWidget = 3
    PageSize = 2
    Unreadable = {3}
INVARIANTS
    TypeOK
    GuardBeforeContact
    ResultIsWholeBoard
PROPERTIES
    EveryCallEnds
