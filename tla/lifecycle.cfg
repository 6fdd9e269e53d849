CONSTANT Viewer = {v1, v2, v3}
SPECIFICATION FairSpec
CHECK_DEADLOCK FALSE
INVARIANTS
    IInv
    DeletedAlone
    OneLateViewer
    OnlyStartupThrows
PROPERTY ExitsWhenLeft
