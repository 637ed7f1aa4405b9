CONSTANTS
    Modes <- MCModes
    Capacity = 30
    SocketRoom = 10
    Replies <- MCReplies
    Routes <- MCRoutes
    Tables <- MCTables
    Requests <- MCRequests
    Probes <- MCProbes
    MaxRoutes = 0
    MaxReqs = 1
    MaxRead = 4
SPECIFICATION Spec
INVARIANT NothingFreedSent
CHECK_DEADLOCK FALSE
