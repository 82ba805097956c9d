SPECIFICATION PartSpec

CONSTANTS
    NoConv = NoConv
    Ana = Ana
    ATTACHMENT_LIMIT = 2
    Messages <- WordsReportContinue
    Later = {4}
    MaxRun = 2
    MaxBoots = 1
    MaxPresses = 1
    Limits = TRUE
    Promises = TRUE
    GivesUp = TRUE
    Rewinds = TRUE
    Archives = TRUE
    EarlySends = FALSE

INVARIANTS
    DeliveredOnce
    WordsKept

PROPERTIES
    TakenBackUnsaid
    WaitingGoes
    KeepsPromise

CHECK_DEADLOCK FALSE
