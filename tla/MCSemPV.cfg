SPECIFICATION SemSpec
CONSTANTS
    SEMVMX = 3
    MaxPrints = 5
INVARIANTS
    SemPBlocks
CHECK_DEADLOCK FALSE
