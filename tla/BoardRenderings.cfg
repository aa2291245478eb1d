\* Summaries, regions, searches and connections of boards of up to four widgets.
SPECIFICATION Spec
CONSTANTS
    ClusterGap = 2
    AnchorRatio = 3
    Boards <- SomeBoards
    Words = {"p", "q"}
INVARIANTS
    TypeOK
    RegionIsWhole
    CountIsRendering
    ListedIsFound
    ConnectionsAgree
    WordsAreFound
    LabelIsHeading
