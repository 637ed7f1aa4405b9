CONSTANTS
    c1 = c1
    c2 = c2
    n1 = n1
    n2 = n2
    NoConn = NoConn
    Conns <- MCConns
    Values <- MCConns
    Names <- MCNames
    MaxWrites = 1
    Timeouts <- MCTimeouts
    Reclose = FALSE
SPECIFICATION Spec
INVARIANT TypeOK
INVARIANT NoEarlyFree
INVARIANT RegistryExact
INVARIANT WritesAccounted
INVARIANT HeartbeatWatches
PROPERTY HeartbeatNotEarly
INVARIANT AgeMatchesSlot
INVARIANT NotLate
PROPERTY NotEarly
CHECK_DEADLOCK FALSE
