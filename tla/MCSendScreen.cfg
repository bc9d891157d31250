CONSTANTS
    a = a
    b = b
    n1 = n1
    n2 = n2
    p1 = p1
    p2 = p2
    NoWallet = NoWallet
    Screens = {a, b}
    Notes = {n1, n2}
    Pockets = {p1, p2}
    LADDER = {36, 50}
    Amounts = {40, 89}
    Fees = {2, 3}
    Reserves = {3}
    Misses = {0, 5}
    Burns = {1}
    RUNG = 4
    PASSES = 2
    Reloads = TRUE
SPECIFICATION Spec
INVARIANTS PlanIsBest CountedIsHeld HiddenIsEmpty
SYMMETRY Symmetry
CHECK_DEADLOCK FALSE
