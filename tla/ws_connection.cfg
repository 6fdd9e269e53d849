CONSTANTS
    Payload = {a, b}
    Pong = pong
    Close = close
    MaxSends = 2
    MaxControl = 2
SPECIFICATION FairSpec
CHECK_DEADLOCK FALSE
INVARIANTS
    IInv
    NoLostWrite
    CloseHandlerOnce
PROPERTIES
    IsPipe
    ClosingEnds
    HandshakeEnds
    PushedIsWritten
