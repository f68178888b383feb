CONSTANTS
    Conn = {c1, c2, c3}
    Note = {n1, n2}
    Buffer = 1
    NoConn = NoConn
SPECIFICATION StreamFairSpec
INVARIANT RegisteredIsRead
PROPERTY SentIsReceived
CHECK_DEADLOCK FALSE
