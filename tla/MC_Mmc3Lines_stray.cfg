SPECIFICATION Spec
CONSTANTS
    Tiles = 2
    Slots = 2
    PostRender = 1
    PreRender = 3
    DmaDots = 9
PROPERTY SmallSpritesKeepTable
