SPECIFICATION Spec
CONSTANTS
    Dots = 11
    PostRender = 2
    PreRender = 6
    DmaDots = 9
    MaxCycles = 2
INVARIANT SuppressOnlyInVBlank
