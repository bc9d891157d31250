CONSTANTS
    Deployer = Deployer
    Workflow = Workflow
    Relayer = Relayer
    Other = Other
    LADDER <- MCLadder
    Nets = {0, 7}
    OtherValues = {4}
    MaxTries = 1
    MaxNotes = 2
    MaxDeposits = 2
    MaxBlocks = 2
    MaxPending = 2
    AmountLimit = 100
    Delay = 1
    Fee = 1
SPECIFICATION FairSpec
INVARIANTS ClaimedMeansPaid ReadyIsGood RecordIsTheDeposit AskedIsMinted DustStays
PROPERTIES PaidInTheEnd
CHECK_DEADLOCK FALSE
