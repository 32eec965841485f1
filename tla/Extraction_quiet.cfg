\* The documented use: seed the sources, then trigger the DAG, again and again.
\* Attempts are lost to one crash and to MERGE conflicts.
SPECIFICATION LiveSpec
CONSTANTS
    orders = orders
    order_items = order_items
    customers = customers
    Jobs <- MCJobs
    Tables <- MCTables
    TablesOf <- MCTablesOf
    Databases <- MCDatabases
    Row <- MCTwoRows
    MarkOf <- MCTwoMarks
    Retries = 1
    MaxCrashes = 1
    SeedDuringRun = FALSE
    CatalogCheckMayFail = FALSE
INVARIANTS
    TypeOK
    NoLoss
    ParentsFirst
PROPERTIES
    ImplementsReplica
    RunsEnd
