SPECIFICATION Spec
CONSTANTS
    c1 = c1 c2 = c2
    p1 = p1 p2 = p2 q1 = q1
    f1 = f1 f2 = f2
    s1 = s1 s2 = s2
    None = None
    Cel = {c1, c2}
    Pic = {p1, p2, q1}
    Blank = {q1}
    Park = {f1, f2}
    Slot = {s1, s2}
    Resized <- Cropped
    NormalBudget = 2
    FloorBudget = 1
    Turns = 1
    RoomFills = FALSE
    MaxEdits = 2
INVARIANTS
    ContentKnown
SYMMETRY SymmetricStore
CHECK_DEADLOCK FALSE
