CONSTANTS
    alice = alice
    eve = eve
    forwarder = forwarder
    treasury = treasury
    Accounts <- MCAccounts
    Contracts = {eve, treasury}
    Forwarder = forwarder
    Treasury = treasury
    Denoms <- MCDenoms
    Signed <- MCSigned
    MaxPoints = 2
    MapBits = 2
    AmountLimit = 3
    RefundDelay = 1
    Values = {0, 1, 3, 4}
    PointCounts = {0, 2, 3}
    Reports <- MCReports
    MaxDeposits = 2
    MaxTime = 1
    CallDepth = 2
SPECIFICATION FairSpec
INVARIANTS TypeOK Solvent NoOverdraft OneNotePerWallet OneOutcome NoPointSignedTwice
PROPERTIES NoDepositStuck NoEarlyRefund ImplementsIdealMint
CHECK_DEADLOCK FALSE
