SPECIFICATION Spec
CONSTANTS
    NSprites = 3
    NSlots = 2
    EvalDots = 16
    Dots = 54
    NLines = 3
    PreRender = 6
    HideY = 2
    EmptyY = 5
    Height = 2
    Ys = {0, 5}
    MaxMeddles = 2
INVARIANT FetchInBounds
