SPECIFICATION FairSpec
CONSTANTS
    Tasks = {t1}
    threadnum_ = 2
    max_task_num = 3
    NoTask = NoTask
CHECK_DEADLOCK FALSE
PROPERTY StopReturns
