CONSTANTS
    Mask = {{}, {3}, {1, 3}}
    Offset = {7}
    Char = {50, 306}
    MaxViewers = 2
SPECIFICATION FairSpec
INVARIANTS
    IInv
    ConsumedIsSeen
    ModeWasTyped
PROPERTY LastDigitShows
