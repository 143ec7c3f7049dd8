\* resume on a thread that is about to wait for the event.
CONSTANTS
    Threads = {t1, t2}
    NoThread = none
    Settles = TRUE
SPECIFICATION FairSpec
PROPERTIES ResumeWakes
\* The owner may join a thread that waits for a lost event.
CHECK_DEADLOCK FALSE
