CONSTANTS
    MaxRound = 14
    WindowSize = 2
    P = P
SPECIFICATION Spec
INVARIANT WindowMatchesContract
CHECK_DEADLOCK FALSE
