SPECIFICATION PoolFairSpec
CONSTANTS
    m_process_number = 2
    MaxConn = 2
CHECK_DEADLOCK FALSE
PROPERTIES
    ConnectionAssigned
