SPECIFICATION Spec
CONSTANTS
    MaxFd = 6
    Names = {"f"}
    Requests <- MCRequests
    Word = 65536
    IntWord = 8192
    Base = 600
    Start = 650
CONSTRAINTS AfterAstray AfterBrk AfterTime
INVARIANT StandardStreamsSurvive
PROPERTY ImplementsPosix
CHECK_DEADLOCK FALSE
