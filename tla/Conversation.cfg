SPECIFICATION PartSpec

CONSTANTS
    NoConv = NoConv
    Ana = Ana
    Bob = Bob
    ATTACHMENT_LIMIT = 2
    MaxRun = 1
    Cards = {c1}
    Reasons = {"limit"}
    Plans = {p1, p2}
    MaxLands = 1
    RETRY_LADDER_TRIES = 1
    Messages <- ThreeVoices
    Bookings <- OneInstant
    MaxRevision = 4
    Remints = TRUE
    WritesFail = TRUE

SYMMETRY PlanSymmetry

INVARIANTS
    EntryOnDisk
    HoldOnEntry
    JournalOnDisk
    TypeOK
    QueueOnEntry

PROPERTIES
    OrderKept
    WordsOutliveTurns
    StopHolds
