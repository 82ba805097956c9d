SPECIFICATION FairSpec
CONSTANTS
    Builds <- TwoBuilds
    Digest <- TwoOwn
    Trees <- Verdicts
    Files <- Verdicts
    LeavesOf <- VerdictLeaves
    Layout <- VerdictMove
    MovedFrom <- NothingMoved
    Retired <- VerdictGone
    Reads <- VerdictReads
    First = "flat"
    All = All
    None = None
    MaxCrashes = 1
    MaxFails = 0
    MaxEdits = 0
PROPERTY PutBackAsWas
CHECK_DEADLOCK FALSE
