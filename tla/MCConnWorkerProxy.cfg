SPECIFICATION Spec
CONSTANTS
    total = 3
    maxFd = 4
    EVENTS_PER_BATCH = 3
    pa_num = 2
INVARIANTS
    EveryFreeCounted
