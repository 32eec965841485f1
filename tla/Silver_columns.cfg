\* The columns of quarantined rows.
SPECIFICATION SpecGold
CONSTANTS
    Bronze <- MCBronze
    Today = 4
    RateOne = 2
    Null = Null
    DaysPerMonth = 2
INVARIANT
    QuarantineHasNoFlagColumns
CHECK_DEADLOCK FALSE
