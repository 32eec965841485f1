\* Runs follow one another, with all five Gold jobs; an attempt may be lost in each.
SPECIFICATION LiveSpec
CONSTANTS
    GoldTables <- GoldJobs
    Outcomes <- MCOutcomes
    Retries = 1
    MaxFailures = 1
    ErrorMayLookMissing = FALSE
INVARIANTS
    TypeOK
    GateSeesThisRun
    GoldOfOneRun
    GoldWithinThreshold
    GreenRunIsComplete
PROPERTIES
    GoldKeptWhenBlocked
    RunEnds
