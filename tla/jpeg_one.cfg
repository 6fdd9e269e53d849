CONSTANTS
    Client = {1}
    Codec = "jpeg"
    UserInput <- AllButMouse
    MaxClicks = 3
    MaxQueue = 3
SPECIFICATION FairSpec
INVARIANTS
    SelfClocking
    EndIsFinal
PROPERTIES
    StallsOnlyByOverwrite
    LeaverForgotten
    CaptureTaken
