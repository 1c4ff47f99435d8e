CONSTANTS
    p1 = p1
    p2 = p2
    c1 = c1
    c2 = c2
    m = m
    NoThread = NoThread
    Threads <- FreeThreads
    Calls <- FreeCalls
    Capacity = 2
    Policy = "DropOldest"
    AllocFails = TRUE
    MaxItems = 3
    MaxSpurious = 0
SPECIFICATION Spec
SYMMETRY FreeSymmetry
INVARIANTS DropsCounted
PROPERTIES ImplementsBoundedQueue
CHECK_DEADLOCK FALSE
