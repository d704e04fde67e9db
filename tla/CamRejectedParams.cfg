SPECIFICATION Spec
CONSTANTS
    Reconfigure = {"RECORDING"}
    Faults = {FALSE}
    EarlyRestart = {FALSE}
    Hurried = {}
    MaxStale = 0
    MaxStops = 1
PROPERTY
    RecordingKeepsMode
