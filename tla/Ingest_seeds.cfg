\* Three programs, one of which may die, under extractions that they overtake.
SPECIFICATION SpecIngest
CONSTANTS
    Customers = 1
    Days = 1
    Quotes = 2
    Window = 1
    Baseline <- MCBaseline
    MaxLoads = 2
    MaxSeeds = 2
    MaxStarts = 3
    MaxDeaths = 1
INVARIANTS
    TypeOK
    OrdersHaveCustomers
    RatesCoverOrders
    MissingRowsArePast
    NothingLeftBehind
CHECK_DEADLOCK FALSE
