CONSTANTS
    MaxRound = 14
    WindowSize = 2
    P = P
SPECIFICATION Spec
INVARIANT PrefixAgreement
CHECK_DEADLOCK FALSE
