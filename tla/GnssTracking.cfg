CONSTANTS
    c1 = c1
    c2 = c2
    Clients = {c1, c2}
    Mute = {c2}
    Leavers = {c1}
    Options <- MCOptions
    DistanceSupported = TRUE
    Faults = TRUE
    MaxStarts = 1
    MaxCommands = 4
    MaxRestarts = 1
    MaxBacklog = 2

SPECIFICATION Spec

INVARIANTS TypeOK SessionsAgree
PROPERTIES CommandsAnswered
CHECK_DEADLOCK FALSE
