\* Two joints, started, stopped and restarted, with failing starts, setPose and
\* requests beyond the limits.
CONSTANTS
    N = 2
    Main = main
    walker = walker
    Drivers = {walker}
    Setters = {main}
    Syncers = {}
    MinPos = 8
    MaxPos = 9
    Asked = {7, 9, 10}
    Faults = TRUE
    Nobody = nobody
    Unset = unset
SPECIFICATION Spec
INVARIANTS TypeOK InRange NoControllerAfterClose NoLostWakeup
\* Main may wait for ever, and every other thread with it.
CHECK_DEADLOCK FALSE
