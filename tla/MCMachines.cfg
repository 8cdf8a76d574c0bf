SPECIFICATION MachinesSpec
CONSTANTS
    Channels = 2
    RingFrames = 2
    MaxDrain = 3
    MaxBuffer = 2
    MaxCalls = 3
    Nothing = Nothing
    g1 = g1 g2 = g2
    system = system null = null
    p1 = p1 p2 = p2
    w1 = w1 w2 = w2
    s1 = s1 s2 = s2
    a1 = a1 a2 = a2
    x = x y = y
    tiles = tiles surface_ = surface_
    fullRun = fullRun bandRun = bandRun tileRun = tileRun
INVARIANTS
    InOrder
    FramesWhole
    DevicesAgree
    PensKeepTheirWord
    EngineKeepsItsWord
PROPERTIES
    PiecesAreTheWhole
    CallbackEndsFirst
    NothingWaitsForEver
    SpillSettles
CHECK_DEADLOCK FALSE
