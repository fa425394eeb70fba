SPECIFICATION Spec
CONSTANTS
    PIPE_CAP = 3
    BINBUF_CAP = 3
    Sources = {1, 4}
    Objects <- MCObjects
    Failures = TRUE
    MaxCompiles = 2
INVARIANTS LinksWholeObject StdoutIsTheGuests ConstantsAreReached
PROPERTY CompilationEnds
CHECK_DEADLOCK FALSE
