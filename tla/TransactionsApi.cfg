CONSTANTS
    MaxLedger = 6
    MaxLimit = 3
SPECIFICATION Spec
INVARIANT PageExact
