SPECIFICATION ExportSpec
CONSTANTS
    MaxFrames = 2
    MaxAudio = 1
    NoWriter = NoWriter
INVARIANT FormatsAreTracks
CHECK_DEADLOCK FALSE
