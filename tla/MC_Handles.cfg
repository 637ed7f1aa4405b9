CONSTANTS
    o1 = o1
    Objs <- MCObjs
    MaxCloses = 2
    MaxSends = 2
SPECIFICATION FairSpec
INVARIANT NoDeadCallback
INVARIANT OneShotOnce
INVARIANT SenderNamedRight
INVARIANT FailuresHeard
PROPERTY CloseAnswered
CHECK_DEADLOCK FALSE
