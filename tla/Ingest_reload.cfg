\* The generator is started again while the sources are extracted.
SPECIFICATION SpecIngest
CONSTANTS
    Customers = 1
    Days = 1
    Quotes = 2
    Window = 1
    Baseline <- MCBaseline
    MaxLoads = 2
    MaxSeeds = 0
    MaxStarts = 2
    MaxDeaths = 0
INVARIANT
    WatermarkIsAValue
CHECK_DEADLOCK FALSE
