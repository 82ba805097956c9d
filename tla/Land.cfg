SPECIFICATION FairSpec

CONSTANTS
    Main = Main
    Ana = Ana
    Kid = Kid
    Bob = Bob
    Convs = {Ana, Kid, Bob}
    ParentOf <- Family
    Composed <- TwoRepos
    Doors <- FamilyDoors
    SameLines <- OnSameLines
    MaxWork = 2
    MaxMore = 1
    MaxLands = 2
    Touchable <- AnasFirst
    MaxEdits = 1
    MaxBoots = 1

INVARIANTS
    TipProven
    WholeOrNothing
    RebaseAlone

PROPERTIES
    LandsEnd

CHECK_DEADLOCK FALSE
