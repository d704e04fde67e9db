SPECIFICATION Spec
CONSTANTS
    Reconfigure = {"STOPPED", "READY", "PREVIEWING"}
    Faults = {FALSE, TRUE}
    EarlyRestart = {FALSE, TRUE}
    Hurried = {"START_PREVIEW", "STOP_PREVIEW", "START_RECORDING", "STOP_RECORDING",
               "TAKE_PICTURE", "CANCEL_PICTURE"}
    MaxStale = 0
    MaxStops = 1
INVARIANTS
    TypeOK
    StreamsFitState
    PictureIsOurs
    NoMessageLost
PROPERTIES
    CallReturns
    PictureEnds
