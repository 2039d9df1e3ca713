\* Two threads; the first call leaves a count in the semaphore.
SPECIFICATION Spec
CONSTANTS
    Threads = {a, b}
    MaxCalls = 2
INVARIANTS
    Exclusive
CHECK_DEADLOCK FALSE
