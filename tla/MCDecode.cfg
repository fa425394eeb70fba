SPECIFICATION Spec
CONSTANTS
    Words <- MCWords
    Halves <- MCHalves
INVARIANTS DecodesEveryWord TablesMatchTypes
CHECK_DEADLOCK FALSE
