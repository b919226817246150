SPECIFICATION ServicesSpec
CONSTANTS
    total = 3
    maxFd = 4
    EVENTS_PER_BATCH = 2
    pa_num = 2
    HeapCapacity = 1
    Delays <- MCDelays
    HeapTimers = 3
    HeapClock = 2
    WheelSize = 2
    Timeouts <- MCTimeouts
    WheelTimers = 3
    WheelTurns = 5
    CppWorkers = 2
    Appenders = {a1, a2}
    Requests = {r1, r2, r3, nil}
    NullRequest = nil
    MaxRequests = 1
    MaxWaitFails = 2
    Cpus = 2
    StartCpus = {0, 1}
    WorkerCounts = {0, 1, 2, 3}
    MaxServed = 3
    MaxAlarms = 2
    BUFFER_SIZE = 5
    MaxSent = 6
INVARIANTS
    FreeListSound
    OneOwner
    ArmedForHandler
    ServerNeverStale
    HeapOnTime
    WheelExact
    CppPoolSound
    StatsNeverOvercount
    StopReachesRegistered
    CgiOneProgram
