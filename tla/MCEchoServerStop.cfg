SPECIFICATION FairSpec
CONSTANTS
    numWorkers = 2
    Jobs = {c1}
    None = None
CHECK_DEADLOCK FALSE
PROPERTY ServerStops
