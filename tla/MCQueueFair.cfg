CONSTANTS
    p1 = p1
    p2 = p2
    c1 = c1
    c2 = c2
    m = m
    NoThread = NoThread
    Threads <- MixedThreads
    Calls <- MixedCalls
    Capacity = 1
    Policy = "Block"
    AllocFails = FALSE
    MaxItems = 2
    MaxSpurious = 0
SPECIFICATION FairSpec
PROPERTIES ImplementsFairBoundedQueue
CHECK_DEADLOCK FALSE
