CONSTANTS
    Tabs = {t1}
    Sizes = {0, 3}
    SignedPoints = {1, 2}
    BadPoints = {}
    ANNOUNCE_WINDOW = 2
    RefundDelay = 1
    Lag = 0
    MayRevert = TRUE
    MayReclaim = FALSE
    MaxHead = 2
    t1 = t1
    t2 = t2
SPECIFICATION FairSpec
PROPERTIES SpentStaysSpent SettlesForGood DustEnds
CHECK_DEADLOCK FALSE
