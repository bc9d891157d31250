CONSTANTS
    d1 = d1
    m1 = m1
    m2 = m2
    w1 = w1
    w2 = w2
    NoTask = NoTask
    Screens = {d1}
    Melts = {m1, m2}
    Wallets = {w1, w2}
    PointsOf <- MCPointsOf
    PASSES = 2
    UserChecks = FALSE
    WalletAnswers = FALSE
    StoreAnswers = FALSE
    Erasers = {e1, e2}
    e1 = e1
    e2 = e2
SPECIFICATION Spec
INVARIANTS FactorsKept
SYMMETRY Symmetry
CHECK_DEADLOCK FALSE
