\* Two connections, one stop of the module, writes to the servo driver that may fail.
SPECIFICATION FairSpec
CONSTANTS
    Clients = {face, web}
    Stopper = stopper
    Lists <- TwoLists
    Min <- LowLimits
    Max <- HighLimits
    Rest <- RestPose
    MaxCalls = 2
    MaxStops = 1
    Faulty = TRUE
INVARIANTS TypeOK OwnAnswer ClosedAtRest OldMotionEnds
PROPERTIES CallsReturn StopCloses LastReached
CHECK_DEADLOCK FALSE
