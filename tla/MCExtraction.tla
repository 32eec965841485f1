---------------------------- MODULE MCExtraction ----------------------------
(* Extraction on small instances: extract_orders with its two tables beside  *)
(* extract_customers, which shares the watermark table with it.              *)
EXTENDS Extraction

CONSTANTS orders, order_items, customers

MCJobs   == {"extract_orders", "extract_customers"}
MCTables == {orders, order_items, customers}

MCTablesOf ==
    [j \in Jobs |-> CASE j = "extract_orders"    -> <<orders, order_items>>
                      [] j = "extract_customers" -> <<customers>>]

(* Postgres writes orders and order_items in one transaction. *)
MCDatabases == {{orders, order_items}, {customers}}

MCTwoRows  == 1..2
MCTwoMarks == <<1, 2>>
=============================================================================
