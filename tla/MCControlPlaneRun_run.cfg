SPECIFICATION FairSpec
CONSTANTS
    Lanes = {"harbor", "bfcl", "swe", "gpqa", "hle"}
    Policies = {"on-success", "always"}
    NumInstances = 3
    PerInstance = 2
    MaxCost = 1
    Costs <- MCCosts
    Second = 2
    Overshoot = 1
    CheckTime = 1
INVARIANTS
    RowsFollowPlan
    SummaryCountsRows
    GateAgreesWithEvidence
    AttemptBounded
    ScratchFollowsPolicy
PROPERTIES
    RunEnds
