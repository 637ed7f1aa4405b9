CONSTANTS
    Base = 3
    HeadByte = 1
    EndByte = 2
    BigEndian = FALSE
    Messages <- MCMessages
    Noises <- MCNoises
    Modes <- MCModes
    Capacity = 10
    MaxRead = 4
    MaxSent = 2
SPECIFICATION FairSpec
INVARIANT DeliveredWellFormed
INVARIANT NothingRefused
PROPERTY ImplementsRing
PROPERTY KeepsBouncing
CHECK_DEADLOCK FALSE
