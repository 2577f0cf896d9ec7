SPECIFICATION PictureSpec
CONSTANTS
    NSprites = 3
    NSlots = 2
    EvalDots = 16
    Dots = 54
    NLines = 3
    PreRender = 6
    HideY = 2
    EmptyY = 5
    Height = 2
    Ys = {0, 1, 2, 5}
    MaxMeddles = 1
    Columns = 2
    Rows = 3
    RowCodes = 4
    RowLow = 2
    Fine = 2
    PictureLines = 3
    Starts = {0, 5, 6}
    Cells = 3
    Palette = 2
    Data = {0, 1}
    Strides = {1, 2}
    LineDots = 5
    CycleDots = 3
    Width = 16
    ShownLines = 1
    Opaque = {0, 2, 3, 5, 7, 8, 9, 12, 14, 15, 16, 19, 20, 21, 23}
    Xs = {5, 12}
    Shapes = {{0, 1, 3, 7}}
    Masks = {TRUE, FALSE}
    Fines = {0, 5}
    MaxWrites = 1
    Buttons = {a}
    Controllers = {c1, c2, c3}
    END_FRAME = END_FRAME
    MaxRecorded = 4
INVARIANTS
    PictureTypeOK
    EvalInBounds
    SearchCorrect
    HandOverCorrect
    SplitScroll
    ReplayFaithful
    PadsExclusive
PROPERTIES
    ImplementsMemoryPort
    PixelsRight
    HitExact
