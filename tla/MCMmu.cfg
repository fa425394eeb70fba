SPECIFICATION Spec
CONSTANTS
    page_size = 4
    GUEST_MEMORY_OFFSET = 8
    STACK_SIZE = 8
    Top = 32
    Elfs <- MCElfs
    Argvs <- MCArgvs
    Stores <- MCStores
INVARIANTS TypeOK HostCoversGuest HeapIsMappedExactly ImageIsLoaded
PROPERTIES BrkKeepsCells GuestStartsWithArgv
CHECK_DEADLOCK FALSE
