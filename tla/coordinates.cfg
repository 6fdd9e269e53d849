CONSTANTS
    Mask = {{}}
    Offset = {300}
    Char = {}
    MaxViewers = 1
SPECIFICATION Spec
INVARIANT ConsumedIsSeen
