\* The timer of a deferred stop fires.
SPECIFICATION Spec
CONSTANTS
    NumCores = 4
    FuncIrps = {f1, f2}
    StopIrps = {s1}
    StartIrp = start1
    NoIrp = NoIrp
    HasRegPath = TRUE
    ReadyMayFail = FALSE
    ReadyMayPend = FALSE
    StopMayTimeout = TRUE
    FidoPort = FALSE
INVARIANTS
    DeferredStopOwned
CHECK_DEADLOCK FALSE
