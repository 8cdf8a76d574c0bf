SPECIFICATION SaveSpec
CONSTANTS
    c1 = c1 c2 = c2
    p1 = p1 p2 = p2
    f1 = f1 f2 = f2
    None = None
    Cel = {c1, c2}
    Pic = {p1, p2}
    Blank = {}
    Park = {f1, f2}
    Slot = {1, 2, 3, 4, 5, 6}
    Resized <- Cropped
    NormalBudget = 1
    FloorBudget = 1
    Turns = 1
    RoomFills = FALSE
    MaxEdits = 2
    MaxSaves = 2
    RemovesMidSave = FALSE
    CarriesMidWrite = FALSE
INVARIANT SaveIsSound
PROPERTIES
    ImplementsCelMap
    SnapshotFiled
CONSTRAINT Few
SYMMETRY Symmetric
CHECK_DEADLOCK FALSE
