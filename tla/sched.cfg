SPECIFICATION Spec
CONSTANTS
    c1 = c1
    Groups = {g1, g2, g3}
    Conns = {c1}
    ConnOf <- OneConn
    MaxReqs = 2
    MaxPendings = 1
    SlotCounts = {1, 2}
    MaxWork = 5
SYMMETRY Symmetry
INVARIANTS
    TypeOK
    SlotsBound
    FairShare
    SeatsKept
    OverrunBounded
    NoLostWakeup
CHECK_DEADLOCK FALSE
