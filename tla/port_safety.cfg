\* Three submitters and two stops on a port whose START runs to the end.  With all
\* three inside, PushState has no room for EXCLUDE_PENDING on two cores.
SPECIFICATION FairSpec
CONSTANTS
    NumCores = 2
    FuncIrps = {f1, f2, f3}
    StopIrps = {s1, s2}
    StartIrp = start1
    NoIrp = NoIrp
    HasRegPath = TRUE
    ReadyMayFail = FALSE
    ReadyMayPend = FALSE
    StopMayTimeout = FALSE
    FidoPort = FALSE
INVARIANTS
    TypeOK
    StopExclusive
    BusyMatchesInside
    NeverThrown
    NoIrpLeftBehind
PROPERTIES
    GateSpec
    DeferredStopCompletes
CHECK_DEADLOCK FALSE
