SPECIFICATION OneSpec
CONSTANTS
    x = x y = y
    Place = {x, y}
    Strokes <- DrawsOnly
    MaxEntries = 4
    Normal = 2
    Tight = 1
    FilesGetLost = FALSE
    MaxWalks = 0
    MaxEdits = 6
CONSTRAINT NoHold
PROPERTIES
    UndoShedOnlyIfRefused
CHECK_DEADLOCK FALSE
