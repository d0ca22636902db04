SPECIFICATION FairSpec
CONSTANTS
    MEMORY_SIZE = 4
    CODE_CACHE_CAPACITY = 4
    Entry = 0
    Byte <- MCByte
    Valid <- MCValid
    Length <- MCLength
    Writes <- MCWrites
    Flow <- MCFlow
    Stores <- MCStores
    Targets <- MCTargets
    Images <- MCImages
INVARIANTS TypeOK SlotsDistinct OwnedIsCurrent NeverEmpty
PROPERTIES SweepEnds BatchEnds
