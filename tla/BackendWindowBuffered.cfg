CONSTANTS
    MaxRound = 14
    WindowSize = 2
    P = P
SPECIFICATION Spec
INVARIANT WindowExactWithinBuffer
CHECK_DEADLOCK FALSE
