SPECIFICATION ServersSpec
CONSTANTS
    numWorkers = 2
    Jobs = {c1, c2, c3}
    None = None
    m_process_number = 3
    MaxConn = 3
INVARIANTS
    OneHolder
    ClosedOnce
    WorkConserving
    StopsWithLastChild
    RoundRobin
PROPERTIES
    ConnectionServed
    TermStops
CHECK_DEADLOCK FALSE
