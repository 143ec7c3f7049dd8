\* One call after another; a new thread has run before the next call.
CONSTANTS
    Threads = {t1, t2}
    NoThread = none
    Settles = TRUE
SPECIFICATION FairSpec
INVARIANTS TypeOK OneThread QuietWhenStopped
PROPERTIES StopReturns SuspendTakesEffect
\* The owner may join a thread that waits for a lost event.
CHECK_DEADLOCK FALSE
