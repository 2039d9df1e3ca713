\* A TCP fido and everything that may go wrong in the start and the stop, stops
\* that overlap included.
SPECIFICATION Spec
CONSTANTS
    NumCores = 4
    FuncIrps = {f1, f2, f3}
    StopIrps = {s1, s2}
    StartIrp = start1
    NoIrp = NoIrp
    HasRegPath = TRUE
    ReadyMayFail = TRUE
    ReadyMayPend = TRUE
    StopMayTimeout = TRUE
    FidoPort = TRUE
SYMMETRY Symmetry
INVARIANTS
    BalancedUntilStop
PROPERTIES
    DrainOnly
CHECK_DEADLOCK FALSE
