CONSTANTS
    loop = loop
    t1 = t1
    t2 = t2
    Threads <- MCPair
    Loop <- loop
    MaxPosts <- MCPairPosts
SPECIFICATION Spec
INVARIANT NoUseAfterClose
CHECK_DEADLOCK FALSE
