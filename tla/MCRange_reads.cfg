\* Three tasks, of which two can have the device open at a time.
CONSTANTS
    Files = {a, b, c}
    Sensors = {0, 1}
    Refs = 3
    Wrap = 7
    Limit = 2
    Slack = 2
    Short = FALSE
    Nobody = nobody
SPECIFICATION FairSpec
INVARIANTS TypeOK CountExact Measured
PROPERTIES PulseInReturns
CHECK_DEADLOCK FALSE
