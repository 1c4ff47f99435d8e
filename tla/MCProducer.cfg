SPECIFICATION Spec
CONSTANTS
    Period = 3
    MaxTime = 14
INVARIANTS TypeOK NoDrift NoBurst WaitWithinPeriod
CHECK_DEADLOCK FALSE
