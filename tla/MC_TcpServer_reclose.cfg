CONSTANTS
    c1 = c1
    c2 = c2
    n1 = n1
    n2 = n2
    NoConn = NoConn
    Conns <- MCOne
    Values <- MCOne
    Names <- MCNames
    MaxWrites = 1
    Timeouts <- MCTimeouts
    Reclose = TRUE
SPECIFICATION Spec
INVARIANT NoEarlyFree
CHECK_DEADLOCK FALSE
