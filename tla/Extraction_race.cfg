\* The sources change at any moment of a run: does the watermark still cover only what Bronze holds?
SPECIFICATION Spec
CONSTANTS
    orders = orders
    order_items = order_items
    customers = customers
    Jobs <- MCJobs
    Tables <- MCTables
    TablesOf <- MCTablesOf
    Databases <- MCDatabases
    Row <- MCTwoRows
    MarkOf <- MCTwoMarks
    Retries = 1
    MaxCrashes = 0
    SeedDuringRun = TRUE
    CatalogCheckMayFail = FALSE
INVARIANT
    NoLoss
