\* A failing quarantine query raises an error that says "does not exist".
SPECIFICATION Spec
CONSTANTS
    GoldTables <- GoldJobs
    Outcomes <- MCOutcomes
    Retries = 1
    MaxFailures = 0
    ErrorMayLookMissing = TRUE
INVARIANT
    GoldWithinThreshold
