CONSTANTS
    Tabs = {t1, t2}
    Sizes = {3}
    SignedPoints = {1, 2}
    BadPoints = {2}
    ANNOUNCE_WINDOW = 1
    RefundDelay = 1
    Lag = 1
    MayRevert = TRUE
    MayReclaim = TRUE
    MaxHead = 2
    t1 = t1
    t2 = t2
SPECIFICATION Spec
INVARIANTS ClaimedMeansPaid KeysKept
CHECK_DEADLOCK FALSE
