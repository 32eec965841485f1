\* The sources change at any moment of a run.
SPECIFICATION Spec
CONSTANTS
    orders = orders
    order_items = order_items
    customers = customers
    Jobs <- MCJobs
    Tables <- MCTables
    TablesOf <- MCTablesOf
    Databases <- MCDatabases
    Row <- MCTwoRows
    MarkOf <- MCTwoMarks
    Retries = 1
    MaxCrashes = 1
    SeedDuringRun = TRUE
    CatalogCheckMayFail = FALSE
INVARIANTS
    LostOnlyInWindow
    IInv
PROPERTIES
    WatermarkNeverRegresses
    OnlyUncommittedRowsAppended
