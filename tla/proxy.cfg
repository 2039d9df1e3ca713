SPECIFICATION FairSpec
CONSTANTS
    MaxChanges = 3
    Envs = {"calm", "rough"}
INVARIANTS
    TypeOK
    StopReleases
PROPERTIES
    StopCompletes
    PeerFollowed
CHECK_DEADLOCK FALSE
