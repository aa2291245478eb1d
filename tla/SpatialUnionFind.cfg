\* Union-find, collection and placement over lists of up to five widgets.
SPECIFICATION Spec
CONSTANTS
    ClusterGap = 2
    AnchorRatio = 3
    Boards <- AllBoards
INVARIANTS
    TypeOK
    ChainsHaveRoots
    GroupingIsExact
    PlacedOnce
PROPERTIES
    GroupingEnds
CHECK_DEADLOCK FALSE
