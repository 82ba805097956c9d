SPECIFICATION RunsSpec

CONSTANTS
    NoConv = NoConv
    ATTACHMENT_LIMIT = 1
    Cards = {}
    MaxLands = 0
    Messages <- NoMessages
    Bookings <- NoBookings
    MaxRevision = 0
    MaxRun = 3
    Reasons = {"limit", "stopped"}
    Plans = {1}
    RETRY_LADDER_TRIES = 1
    Remints = FALSE
    WritesFail = FALSE
    MAX_RESUME_ATTEMPTS = 1
    MaxBoots = 2
    RecordsFail = FALSE
    EarlyTurns = FALSE
    HandLands = FALSE

INVARIANTS
    LiveRunOnDisk
    RestartsBounded
    LadderBound
