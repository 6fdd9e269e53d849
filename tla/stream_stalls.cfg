CONSTANTS
    Client = {1}
    Codec = "jpeg"
    UserInput <- OnlyStream
    MaxClicks = 1
    MaxQueue = 2
SPECIFICATION FairSpec
PROPERTY StreamNeverStalls
