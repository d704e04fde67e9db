CONSTANTS
    Meta = "meta"
    Streams = {"meta", "image"}
    Attrs <- MCAttrs
    Infos <- MCInfos
    Requests <- MCRequests
    NumBufs = 2
    MaxFrame = 3
    MaxRequests = 1
    MaxStarts = 2

SPECIFICATION Spec

INVARIANTS TypeOK QueueSound BuffersHeld
PROPERTIES FramesMatch ComesToRest
CHECK_DEADLOCK FALSE
