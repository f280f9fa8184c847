SPECIFICATION Spec
CONSTANTS
    a = a  b = b  c = c  t1 = t1  t2 = t2  e1 = e1  e2 = e2
    None = None
    Foreign = Foreign
    Runs <- MCRuns
    Trees = {t1, t2}
    Evidences = {e1, e2}
    TreeOf <- MCTreeOf
    EvidenceOf <- MCEvidenceOf
    Native = {a, b}
    MaxRows = 1
    MaxFaults = 1
    MaxBroken = 2
INVARIANTS
    TreeOfOneRun
    EvidenceOfOneRun
    RefusedLeavesNothing
PROPERTIES
    ImplementsGrants
