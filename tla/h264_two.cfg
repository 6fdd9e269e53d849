CONSTANTS
    Client = {1, 2}
    Codec = "h264"
    UserInput <- StreamAndType
    MaxClicks = 1
    MaxQueue = 1
SPECIFICATION Spec
INVARIANTS
    SendsToMembers
    CrashNeedsChurn
    RequestHasMember
    HeaderReachesLoner
    StallHasCause
    EventsPerViewer
    IInv
PROPERTY KeepsPromise
