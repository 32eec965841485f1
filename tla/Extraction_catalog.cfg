\* catalog.tableExists may raise; nothing else goes wrong.
SPECIFICATION Spec
CONSTANTS
    orders = orders
    order_items = order_items
    customers = customers
    Jobs <- MCJobs
    Tables <- MCTables
    TablesOf <- MCTablesOf
    Databases <- MCDatabases
    Row <- MCTwoRows
    MarkOf <- MCTwoMarks
    Retries = 1
    MaxCrashes = 0
    SeedDuringRun = FALSE
    CatalogCheckMayFail = TRUE
INVARIANT
    NoLoss
