CONSTANTS
    LADDER <- MCLadder
    Amounts <- MCAmounts
    Points <- MCPoints
SPECIFICATION SplitSpec
INVARIANTS ContractAccepts NeverInexpressible ClientBringsThePoints FewestNotes
CHECK_DEADLOCK FALSE
