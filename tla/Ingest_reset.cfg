\* The generator is started again to reset the sources.
SPECIFICATION SpecIngest
CONSTANTS
    Customers = 1
    Days = 1
    Quotes = 2
    Window = 1
    Baseline <- MCBaseline
    MaxLoads = 2
    MaxSeeds = 2
    MaxStarts = 4
    MaxDeaths = 0
INVARIANT
    ResetStartsClean
CHECK_DEADLOCK FALSE
