CONSTANTS
    loop = loop
    t1 = t1
    t2 = t2
    Threads <- MCThreads
    Loop <- loop
    MaxPosts <- MCPosts
SPECIFICATION FairSpec
INVARIANT WellFormed
INVARIANT NoLostWakeup
INVARIANT InlineOnlyAfterRun
PROPERTY ImplementsFifo
PROPERTY RunOnceInOrder
PROPERTY QueuedRuns
PROPERTY StopEndsRun
CHECK_DEADLOCK FALSE
