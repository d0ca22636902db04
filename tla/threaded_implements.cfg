SPECIFICATION FairSpec
CONSTANTS
    MEMORY_SIZE = 8
    CODE_CACHE_CAPACITY = 8
    Entry = 0
    Byte <- MCByte
    Valid <- MCValid
    Length <- MCLength
    Writes <- MCWrites
    Flow <- MCFlow
    Stores <- MCStores
    Targets <- MCTargets
    Images <- MCImages
    Size <- MCSize
INVARIANT ExecIsCurrent
PROPERTIES ImplementsLinear Progress
