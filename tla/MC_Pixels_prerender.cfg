SPECIFICATION PixelSpec
CONSTANTS
    Width = 16
    ShownLines = 1
    Opaque = {0, 2, 3, 5, 7, 8, 9, 12, 14, 15, 16, 19, 20, 21, 23}
    Xs = {5, 12}
    Shapes = {{0, 1, 3, 7}}
    Masks = {TRUE}
    Fines = {0, 5}
    MaxWrites = 0
PROPERTY PreRenderRaisesNoHit
