SPECIFICATION FairSpec
CONSTANTS
    MEMORY_SIZE = 11
    CODE_CACHE_CAPACITY = 8
    RESERVE = 3
    Entry = 0
    Byte <- MCByte
    Valid <- MCValid
    Length <- MCLength
    Writes <- MCWrites
    Flow <- MCFlow
    Stores <- MCStores
    Targets <- MCTargets
    Images <- MCImages
    Programs <- MCPrograms
INVARIANT StaysInBlock
PROPERTIES ImplementsLinear ShortBlocksFit StallsOnlyWithoutCode
