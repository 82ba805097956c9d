SPECIFICATION RunsSpec

CONSTANTS
    NoConv = NoConv
    ATTACHMENT_LIMIT = 1
    Cards = {}
    MaxLands = 0
    Messages <- NoMessages
    Bookings <- NoBookings
    MaxRevision = 0
    MaxRun = 2
    Reasons = {"limit"}
    Plans = {1}
    RETRY_LADDER_TRIES = 1
    Remints = FALSE
    WritesFail = TRUE
    MAX_RESUME_ATTEMPTS = 1
    MaxBoots = 1
    RecordsFail = FALSE
    EarlyTurns = FALSE
    HandLands = FALSE

INVARIANTS
    PhaseHasRun
