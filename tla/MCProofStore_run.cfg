SPECIFICATION Spec
CONSTANTS
    p1 = p1  p2 = p2  x1 = x1  x2 = x2  d1 = d1  d2 = d2
    None = None
    Procs = {p1, p2}
    Proofs = {x1, x2}
    Dirs = {d1, d2}
    FaultKinds = {"kill", "edit", "power", "damage", "error"}
    MaxCalls = 4
    MaxFaults = 2
INVARIANTS
    IndexedIsInstalled
    IndexStaysReadable
    OnlyDisturbedIsRefused
    ScanShowsAcked
    AckedRowSurvives
PROPERTIES
    NothingIsReplaced
    ImplementsArchive
SYMMETRY Symmetry
