SPECIFICATION FairSpec
CONSTANTS
    MaxChanges = 1
    Envs = {"rough"}
PROPERTIES
    RecoveryEnds
CHECK_DEADLOCK FALSE
