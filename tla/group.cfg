\* Three children, two threads of the pool, a canceller; all three relations.
SPECIFICATION FairSpec
CONSTANTS
    Tasks = {t1, t2, t3}
    Runners = {r1, r2}
    Canceller = c
    None = none
INVARIANTS
    TypeOK
    OneAtATime
    CompletedOnce
    NoneLeft
    HonestResult
PROPERTIES
    StopsAtDecision
    GroupCompletes
CHECK_DEADLOCK FALSE
