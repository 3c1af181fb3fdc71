\* Blocks of 32, 48 and 64 bytes freed in any order.
CONSTANTS
    SegmentSize = 640
    Nil = Nil
    Capacity = 2
    EntrySize = 16
    Lengths = {25, 41, 57}
    Batches = {3}
    MaxSegments = 1
    MaxStrings = 3
    MaxSteps = 6
    InOrder = FALSE
SPECIFICATION Spec
INVARIANTS FreeBlocksListed
CHECK_DEADLOCK FALSE
