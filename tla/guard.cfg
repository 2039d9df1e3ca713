\* Three threads call a tasklet three times each.
SPECIFICATION FairSpec
CONSTANTS
    Threads = {a, b, c}
    MaxCalls = 3
INVARIANTS
    TypeOK
    FreeAtRest
PROPERTIES
    CallerGetsIn
CHECK_DEADLOCK FALSE
