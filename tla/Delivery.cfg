SPECIFICATION FairSpec
CONSTANTS
    Convs = {c1, c2}
    None = None
    MaxLands = 3
    MaxMoves = 1
    MaxCrashes = 1
INVARIANTS LandsAccounted SentOnce NewestLandStands
PROPERTIES QueuedGoes
CHECK_DEADLOCK FALSE
