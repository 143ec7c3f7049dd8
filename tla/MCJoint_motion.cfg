\* Two joints, driven by the shell task alone.
CONSTANTS
    N = 2
    Main = main
    walker = walker
    Drivers = {}
    Setters = {}
    Syncers = {main}
    MinPos = 8
    MaxPos = 10
    Asked = {8, 10}
    Faults = FALSE
    Nobody = nobody
    Unset = unset
SPECIFICATION FairSpec
INVARIANTS RestsNearTarget
PROPERTIES Smooth StopReturns MotionEnds
\* Main may wait for ever, and every other thread with it.
CHECK_DEADLOCK FALSE
