SPECIFICATION FairSpec
CONSTANTS
    Items = {d, t}
    Direct = {d}
    Words = {w1, w2}
    Arms = {a1, a2}
    Hold = 1
    Stale = 0
    MaxNow = 1
    MaxYes = 1
    MaxUpsets = 2
INVARIANTS TypeOK OneYesRunsOnce RevokedNeverRuns DoneAsApproved
PROPERTIES ApprovalTakenUp
CHECK_DEADLOCK FALSE
