SPECIFICATION FairSpec
CONSTANTS
    Slaves = {s1, s2}
    Master = m
    Local = s1
    Dummy = null
    Settings = {{}, {"attach"}, {"attach", "timeout"}, {"attach", "stop"},
                {"noconn"}, {"attach", "timeout", "noconn"}}
INVARIANTS
    TypeOK
    NotifiedOnce
    HonestStart
    MasterLast
PROPERTIES
    MasterAnswered
    StartAnsweredUndisturbed
CHECK_DEADLOCK FALSE
