\* Up to three segments, of a size that four strings fill; a log of three
\* segments; buckets of one item, so that neighbours share the link.
CONSTANTS
    Parts = {"slots", "log", "skip"}
    SegmentSize = 560
    Nil = Nil
    Capacity = 2
    EntrySize = 16
    Lengths = {25, 41, 57, 500}
    Batches = {3, 5}
    MaxSegments = 3
    MaxStrings = 3
    MaxSteps = 5
    InOrder = TRUE
    LogSegmentSize = 168
    LogAlignment = 8
    HeaderSize = 40
    EntryHead = 8
    NearEnd = 95
    EntryBytes = {13, 24, 96}
    LogReader = {"l"}
    MaxSegment = 3
    MaxEntry = 4
    MaxReopen = 1
    RollsUnderWalk = FALSE
    Writer = {"v", "w"}
    Searcher = {"s"}
    Key = {"a", "b"}
    Hash <- MCHash
    Query = {"all", "none", "b"}
    BucketCapacity = 1
    BucketLocks = 2
    QueueSize = 1
    BucketBytes = 24
    ListHeaderBytes = 13
    MaxItem = 3
    Restarts = FALSE
SPECIFICATION FilesSpec
INVARIANTS
    HeapWhole
    FreeBlocksListed
    FixedWhole
    EntriesLink
    
    SearchesMeetHistory
PROPERTIES
    GrowsOnlyWhenFull
    
CHECK_DEADLOCK FALSE
