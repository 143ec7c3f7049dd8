\* gotoPoseSync from the shell task alone.
CONSTANTS
    N = 1
    Main = main
    walker = walker
    Drivers = {}
    Setters = {}
    Syncers = {main}
    MinPos = 8
    MaxPos = 9
    Asked = {8, 9}
    Faults = FALSE
    Nobody = nobody
    Unset = unset
SPECIFICATION FairSpec
PROPERTIES SyncReturns
\* Main may wait for ever, and every other thread with it.
CHECK_DEADLOCK FALSE
