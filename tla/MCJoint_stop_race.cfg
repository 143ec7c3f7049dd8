\* stopController while another thread still sends requests.
CONSTANTS
    N = 1
    Main = main
    walker = walker
    Drivers = {walker}
    Setters = {}
    Syncers = {}
    MinPos = 8
    MaxPos = 9
    Asked = {8, 9}
    Faults = FALSE
    Nobody = nobody
    Unset = unset
SPECIFICATION FairSpec
PROPERTIES StopReturns
\* Main may wait for ever, and every other thread with it.
CHECK_DEADLOCK FALSE
