SPECIFICATION Spec
CONSTANTS
    W = 8
    H = 4
    Vals <- MCVals
    Imms <- MCImms
    ES = 2
    FS = 1
    ED = 4
    FD = 3
    Doubles <- MCDoubles
    Singles <- MCSingles
    Fusible <- MCFusible
    Ints <- MCInts
INVARIANTS FollowsIsa JitAgrees
CHECK_DEADLOCK FALSE
