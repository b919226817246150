SPECIFICATION FairSpec
CONSTANTS
    Workers = {w1, w2}
    Jobs = {j1, j2, j3}
    Destroyers = {d1, d2}
    queue_max_num = 2
    NoJob = NoJob
INVARIANTS
    CountMatchesList
    JobConservation
    NoLostWakeup
    ShutdownPhases
    DestroyDrains
PROPERTIES
    AcceptedJobRuns
    AddReturns
    DestroyReturns
    ImplementsJobPool
