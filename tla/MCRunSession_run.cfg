SPECIFICATION FairSpec
CONSTANT
    MaxRuns = 2
INVARIANTS
    AtMostOneRun
    StoppedIsStopped
PROPERTIES
    CompletedIsFinal
    ResultIsShown
    OrphansAreKilled
