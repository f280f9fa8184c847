CONSTANTS
    w1 = w1
    w2 = w2
    Writers <- MCWriters
    Cases <- MCCases
    Strata <- MCStrata
    StratumOf <- MCStratumOf
    Rank <- MCRank
    Declared <- MCDeclared
    SmokeCount = 1
    Paired = TRUE
    Shapes <- MCShapes
    Selections <- MCSelections
    MaxDisturbs = 1
SPECIFICATION Spec
INVARIANTS
    RatesAreEarned
    LockHasItsReport
SYMMETRY Symmetry
