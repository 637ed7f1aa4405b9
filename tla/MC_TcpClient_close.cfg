CONSTANTS
    s1 = s1
    s2 = s2
    s3 = s3
    peer = peer
    NoConn = NoConn
    Conns <- MCSockets
    Names <- MCNames
    MaxWrites = 1
    MaxCloses = 2
SPECIFICATION Spec
PROPERTY ClosedWhenAnswered
CHECK_DEADLOCK FALSE
