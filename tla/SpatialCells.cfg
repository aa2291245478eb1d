\* Boards with a table: the comment on the cells' place, refuted.
SPECIFICATION Spec
CONSTANTS
    ClusterGap = 2
    AnchorRatio = 3
    Boards <- AllBoards
INVARIANTS
    CellsArePlaced
CHECK_DEADLOCK FALSE
