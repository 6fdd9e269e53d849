CONSTANTS
    Button = {1, 2, 3, 9}
    Offset = {7, 300}
    Char = {49}
SPECIFICATION Spec
INVARIANTS
    TypeOK
    MaskOffByCarried
    WheelIsReleased
