CONSTANTS
    Modes <- MCModes
    Capacity = 14
    SocketRoom = 60
    Replies <- MCReplies
    Routes <- MCRoutes
    Tables <- MCTables
    Requests <- MCRequests
    Probes <- MCProbes
    MaxRoutes = 4
    MaxReqs = 2
    MaxRead = 4
SPECIFICATION FairSpec
INVARIANT RoutesRespected
INVARIANT DispatchedAsSent
INVARIANT ResponseAsMade
PROPERTY Answered
CHECK_DEADLOCK FALSE
