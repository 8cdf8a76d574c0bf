SPECIFICATION HistoriesSpec
CONSTANTS
    x = x y = y
    Place = {x, y}
    Strokes <- DrawsAndWipes
    MaxEntries = 3
    Normal = 2
    Tight = 1
    FilesGetLost = FALSE
    MaxWalks = 1
    MaxEdits = 4
INVARIANTS
    TypeOK
    RoomIsExact
    OverByNewestOnly
PROPERTIES
    RunKeepsToItsOwn
    ImplementsUndoLine
CHECK_DEADLOCK FALSE
