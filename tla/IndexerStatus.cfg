CONSTANTS
    Tasks = {t1, t2}
    MaxVersion = 3
    PoolSize = 1
    MaxCrashes = 2
SPECIFICATION Spec
INVARIANT ProcessedRecoverable
CHECK_DEADLOCK FALSE
