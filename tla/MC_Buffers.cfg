CONSTANTS
    Byte <- MCByte
    Chunks <- MCChunks
    Counts <- MCCounts
    Size = 5
SPECIFICATION PairSpec
INVARIANT SizesAddUp
INVARIANT SameReads
PROPERTY CycleImplementsQueue
