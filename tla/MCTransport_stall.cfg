CONSTANTS
    Openers = {"client"}
    MayStall = TRUE
    MaxStreams = 1
    MaxFrames = 2
    MaxMessage = 2
SPECIFICATION MCSpec
INVARIANTS
    BoundariesKept
CHECK_DEADLOCK FALSE
