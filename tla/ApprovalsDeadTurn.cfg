SPECIFICATION FairSpec
CONSTANTS
    Items = {t}
    Direct = {}
    Words = {w1}
    Arms = {a1}
    Hold = 1
    Stale = 1
    MaxNow = 3
    MaxYes = 1
    MaxUpsets = 0
PROPERTIES DeadTurnReconsidered
CHECK_DEADLOCK FALSE
