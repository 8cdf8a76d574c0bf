SPECIFICATION LawsSpec
CONSTANTS
    None = None
    Corrupt = Corrupt
    TooSmall = TooSmall
    Inter = 3
    Deci = 2
    Half = 7
    MaxInput = 14
    MaxPiece = 5
INVARIANT WritesTheWhole
PROPERTIES
    HoldsItsFilter
    CodecReadsBack
    SoundIsTheFiles
    MixIsItsWindow
    ReadingsHold
    KernelsAgree
CHECK_DEADLOCK FALSE
