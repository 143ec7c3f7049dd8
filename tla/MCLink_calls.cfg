\* Two threads, one character lost or damaged, a handler that is never late.
CONSTANTS
    Callers = {rpc, update}
    Rpc = {rpc}
    Nobody = nobody
    Batch = 2
    MaxLines = 3
    MaxLost = 1
    Room = 1
    Slow = FALSE
    Late = FALSE
    Size = 2
    Depth = 4
    Trigger = 2
    Chars <- CharsOf
    Junk <- Blank
SPECIFICATION LFairSpec
INVARIANTS LTypeOK AnswersOwnCall DoneIfTrue 
PROPERTIES RingKept CallsReturn
\* Once MaxLines lines have been asked for, nothing more happens.
CHECK_DEADLOCK FALSE
