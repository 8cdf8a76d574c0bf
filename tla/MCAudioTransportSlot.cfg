SPECIFICATION Spec
CONSTANTS
    b = b
    Buffer = {b}
    Schedules <- OneBuffer
    Runs <- SomeRuns
    Seeks = {0}
    Frames = 2
    MaxBlock = 1
    Tries = 2
    Never <- BelowAll
    MaxOps = 4
    MaxCalls = 2
PROPERTIES
    SlotStandsWhileMixed
CHECK_DEADLOCK FALSE
