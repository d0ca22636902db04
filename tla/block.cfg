SPECIFICATION Spec
CONSTANTS
    MEMORY_SIZE = 4
    CODE_CACHE_CAPACITY = 6
    RESERVE = 2
    Entry = 0
    Byte <- MCByte
    Valid <- MCValid
    Length <- MCLength
    Writes <- MCWrites
    Flow <- MCFlow
    Stores <- MCStores
    Targets <- MCTargets
    Images <- MCImages
INVARIANTS TypeOK BlocksDistinct MappedIsRunnable OwnedIsCurrent
PROPERTY ReserveSuffices
CONSTRAINT ArenaFits
