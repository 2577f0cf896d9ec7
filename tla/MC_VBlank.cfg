SPECIFICATION FairSpec
CONSTANTS
    Dots = 11
    PostRender = 2
    PreRender = 6
    DmaDots = 9
    MaxCycles = 2
INVARIANTS
    TypeOK
    NmiJustified
    FrameShownInTime
PROPERTIES
    ImplementsNmiLine
    SuppressionLifted
    FramesShown
