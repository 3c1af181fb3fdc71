\* Lazy ranges of a source and up to two stages, read twice.
CONSTANTS
    Sources <- MCSources
    Stages <- MCStages
    Few <- MCFew
    Seconds <- MCSeconds
    Fixed <- MCFixed
    MaxPasses = 2
SPECIFICATION Spec
INVARIANTS
    RangeIsDenoted
    OrderedTold
    CollectorsAgree
CHECK_DEADLOCK FALSE
