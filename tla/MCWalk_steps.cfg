\* The walker over four joints, started, turned left and stopped.
CONSTANTS
    N = 4
    Main = main
    walker = walker
    Walker = walker
    Drivers = {walker}
    Setters = {}
    Syncers = {walker}
    MinPos = 8
    MaxPos = 11
    Asked = {8, 9, 11}
    Faults = FALSE
    Nobody = nobody
    Unset = unset
    Directions = {"left"}
    Top = 11
    Mid = 9
    Low = 8
    Bottom = 8
    Careful = TRUE
SPECIFICATION WFairSpec
INVARIANTS WTypeOK SyncFindsWaiting SyncReached
PROPERTY StopWalkReturns
CHECK_DEADLOCK FALSE
