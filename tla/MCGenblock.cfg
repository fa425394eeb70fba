SPECIFICATION Spec
CONSTANTS
    Programs <- MCPrograms
    STACK_CAP = 3
    SET_SIZE = 4
    MAX_SEARCH_COUNT = 1
INVARIANTS TypeOK LabelsAreUnique NoDanglingGoto EveryRegisterIsLocal CoversRegion StackIsShallow
PROPERTY Terminates
CHECK_DEADLOCK FALSE
