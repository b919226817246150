SPECIFICATION FairSpec
CONSTANTS
    Tasks = {t1, t2, t3, t4}
    threadnum_ = 2
    max_task_num = 3
    NoTask = NoTask
CHECK_DEADLOCK FALSE
INVARIANTS
    RingConsistent
    WorkConserving
PROPERTIES
    AcceptedTaskRuns
    ImplementsJobPool
