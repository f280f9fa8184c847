SPECIFICATION Spec
CONSTANTS
    r1 = r1  r2 = r2  m1 = m1  m2 = m2  bench = bench  a = a  b = b  at = at
    p1 = p1  p2 = p2  f1 = f1  f2 = f2  k1 = k1  k2 = k2
    None = None
    RunIds <- MCRunIds
    Models <- MCModels
    Axes <- MCAxes
    AxisValues <- MCAxisValues
    Locators <- MCLocators
    Procs = {p1, p2}
    Records <- OneRunRecords
    Manifests = {f1, f2}
    LockFiles = {k1, k2}
    Restores <- MCRestores
    Cuts = {"fragment", "unterminated"}
    MaxCalls = 3
    MaxFaults = 1
INVARIANTS
    ReadsConsistentHistory
    ManifestIsValid
PROPERTIES
    ProjectionsOnlyExtend
SYMMETRY Symmetry
