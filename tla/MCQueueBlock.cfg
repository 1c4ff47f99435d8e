CONSTANTS
    p1 = p1
    p2 = p2
    c1 = c1
    c2 = c2
    m = m
    NoThread = NoThread
    Threads <- MixedThreads
    Calls <- MixedCalls
    Capacity = 2
    Policy = "Block"
    AllocFails = FALSE
    MaxItems = 4
    MaxSpurious = 1
SPECIFICATION Spec
SYMMETRY MixedSymmetry
INVARIANTS TypeOK LockDiscipline CapacityBound FifoConservation BlockingPushNeverDrops
           EndOfStreamIsFinal NoLostItemWakeup NoLostSpaceWakeup
CHECK_DEADLOCK FALSE
