SPECIFICATION DualSpec
CONSTANTS
    MaxForks = 3
INVARIANTS
    RestartedAfterAbnormalEnd
CHECK_DEADLOCK FALSE
