SPECIFICATION LibrariesSpec
CONSTANTS
    nodeA = nodeA
    nodeB = nodeB
    nodeC = nodeC
    ClusterNodes = {nodeA, nodeB, nodeC}
    MaxReplicas = 3
    ReplicaCounts = {3}
    MaxHash = 8
    NoNode = NoNode
    Hash <- MCHash
    MaxId = 8
    MapSize = 2
    MaxPath = 4
    Items = {x, y}
    RequestLines = {"get", "post", "bad"}
    HeaderLines = {"len2", "tight1", "lower1", "xlen2", "other", "nocolon"}
    MaxHeaders = 3
    C_MAX_HEAD_LINE = 3
    MAX_BUFFER_SIZE = 10
    MaxBody = 2
    Keys <- MCKeys
    Values <- MCValues
    MaxParams = 3
    MaxInt = 32767
    RightMargin = 7
    JsonTokens = {"{", "}", "[", "]", ",", ":", "name", "empty", "seven", "comment"}
    MaxTokens = 5
    MaxValue = 9
SYMMETRY ItemSymmetry
INVARIANTS
    RingSound
    RbTreeSound
    RadixFaithful
    ChunkingIrrelevant
    
    
    JsonRoundTrip
PROPERTY
    ImplementsRing
CHECK_DEADLOCK FALSE
