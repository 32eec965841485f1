\* No attempt is lost: products quarantines too much in one run and nothing in the next.
SPECIFICATION Spec
CONSTANTS
    GoldTables <- GoldJobs
    Outcomes <- MCOutcomes
    Retries = 1
    MaxFailures = 0
    ErrorMayLookMissing = FALSE
INVARIANT
    BlockedOnlyByThisRun
