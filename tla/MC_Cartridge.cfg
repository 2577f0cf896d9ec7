SPECIFICATION CartridgeSpec
CONSTANTS
    Programs = {1, 16}
    Patterns = {0, 1, 16}
    Bytes = {0, 3, 70}
    MaxSet = 2
    Tiles = 2
    Slots = 2
    PostRender = 1
    PreRender = 3
    DmaDots = 9
INVARIANTS
    CartridgeTypeOK
    BanksWhole
    OneClockPerLine
PROPERTIES
    WindowsStay
    ClockBehindPicture
