SPECIFICATION Spec
CONSTANTS
    CACHE_ENTRY_SIZE = 4
    CACHE_SIZE = 9
    MAX_SEARCH_COUNT = 2
    CACHE_HOT_COUNT = 4
    NULL = NULL
    PCs <- MCPCs
    Objects <- MCObjects
INVARIANTS TypeOK EveryEntryIsFound HotEntryIsRunnable HotInTime SpinsOnlyWhenFull
PROPERTIES CodeNeverChanges ImplementsCodeMap
CHECK_DEADLOCK FALSE
