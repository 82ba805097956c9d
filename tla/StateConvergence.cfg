SPECIFICATION FairSpec
CONSTANTS
    Builds <- AllBuilds
    Digest <- EachOwn
    Trees <- SomeTrees
    Files <- SomeFiles
    LeavesOf <- SomeLeaves
    Layout <- Regrouped
    MovedFrom <- Renamed
    Retired <- Leftovers
    Reads <- Opened
    First = "flat"
    All = All
    None = None
    MaxCrashes = 2
    MaxFails = 1
    MaxEdits = 1
INVARIANTS OneOpen ImagesTrue
PROPERTIES PutBackWhole CommitsWhole EpisodeCloses
CHECK_DEADLOCK FALSE
