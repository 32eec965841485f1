\* One run of Silver and Gold over every combination of Bronze tables.
SPECIFICATION SpecGold
CONSTANTS
    Bronze <- MCBronze
    Today = 4
    RateOne = 2
    Null = Null
    DaysPerMonth = 2
INVARIANTS
    TypeOK
    KeysUnique
    EveryKeyOnce
    QuarantinedForCause
    RevenueAgrees
    UnitsAgree
    SharesAddUp
    LinesAddUp
CHECK_DEADLOCK FALSE
