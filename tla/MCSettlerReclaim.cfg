CONSTANTS
    Tabs = {t1}
    Sizes = {1}
    SignedPoints = {1}
    BadPoints = {}
    ANNOUNCE_WINDOW = 2
    RefundDelay = 1
    Lag = 0
    MayRevert = FALSE
    MayReclaim = TRUE
    MaxHead = 2
    t1 = t1
    t2 = t2
SPECIFICATION Spec
INVARIANTS RefundedMeansReturned
CHECK_DEADLOCK FALSE
