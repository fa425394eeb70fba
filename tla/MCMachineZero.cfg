SPECIFICATION Spec
CONSTANTS
    Word = 8
    a0 = 2
    Results = {0, 2}
    Entries = {0, 2}
    CACHE_HOT_COUNT = 2
    CACHE_SIZE = 0
    CACHE_ENTRY_SIZE = 3
    NULL = NULL
    exec_block_interp = exec_block_interp
    Regs <- MCRegs
    Programs <- MCPrograms
    PCs <- MCPCs
INVARIANT ReturnToZeroIsNoAssertion
CHECK_DEADLOCK FALSE
