CONSTANTS
    Requests <- MCRequests
    Lists <- MCLists
    RunIds = {r1, r2}
    MaxEdits = 2
SYMMETRY MCSymmetry
SPECIFICATION Spec
INVARIANTS
    LaunchedAsConfirmed
    PassedIsEarned
CHECK_DEADLOCK FALSE
