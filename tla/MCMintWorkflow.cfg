CONSTANTS
    s1 = s1
    MaxDeposits = 2
    Refused = {1}
    Sweeps <- MCSweeps
    CatchUpBlocks = 1
    RefundDelay = 1
    MaxHead = 2
    MaxReports = 2
    MaxCrashes = 1
SPECIFICATION FairSpec
INVARIANTS RowsReadAreKnown SearchCoversWaiting NothingDoubleMints
PROPERTIES GoodAnswered
CHECK_DEADLOCK FALSE
