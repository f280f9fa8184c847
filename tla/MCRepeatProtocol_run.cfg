CONSTANTS
    Cases <- MCCases
    Strata <- MCStrata
    StratumOf <- MCStratumOf
    Rank <- MCRank
    Declared <- MCDeclared
    SmokeCount = 1
    Paired = TRUE
    Blocks = 4
    Seeds <- MCSeeds
    BlockRank <- MCBlockRank
    DrawRank <- MCDrawRank
    Shaky <- MCShaky
    MaxFaults = 1
SPECIFICATION ProtocolSpec
INVARIANTS
    ReportIsExact
    OnlyEligibleRuns
