SPECIFICATION Spec
CONSTANTS
    Workers = {w1}
    Jobs = {j1, j2}
    Destroyers = {d1}
    queue_max_num = 1
    NoJob = NoJob
INVARIANT BlockedAddersLeave
