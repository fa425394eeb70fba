SPECIFICATION MCSpec
CONSTANTS
    STR_MAX_PREALLOC = 3
    Pieces <- MCPieces
    MaxLen = 6
    MaxCalls = 2
    Blocks <- MCBlocks
    Addrs = {0, 2, 4}
    Top = 8
    Last = 3
    CACHE_HOT_COUNT = 2
    MaxWrites = 2
INVARIANTS NoOverrun PointerIsLive TextIsIntact SameUnlessPunned FreshUnlessLate
CHECK_DEADLOCK FALSE
