CONSTANTS
    Frame <- MCFrame
    PayloadBasic = 2
    PayloadExtended = 4
    MaxMessage = 6
    SizeModulus = 12
    MaxMemory = 8
    BufferSize = 20
    None = None
    MaxHanded = 2
SPECIFICATION Spec
INVARIANTS IInv MaskInStep NothingHeldBack
PROPERTY IsFraming
CHECK_DEADLOCK FALSE
