----------------------------- MODULE MCPipeline -----------------------------
(* Pipeline on small instances.  Two tables vary from run to run: products,   *)
(* a full refresh whose bad rows can disappear, and orders, which decides the *)
(* rest of the DAG.  The other tables are clean.                              *)
EXTENDS Pipeline

Rec(g, b) == [good |-> g, bad |-> b]

(* Products: no row at all, clean, and 4% bad, above 3%.  Orders: 1.005% bad,  *)
(* which rounds to 1.00, within the threshold, or to 1.01, above it.           *)
MCOutcomes ==
    [t \in SilverTables |->
        CASE t = "products" -> {Rec(0, 0), Rec(100, 0), Rec(96, 4)}
          [] t = "orders"   -> {Rec(19799, 201)}
          [] OTHER          -> {Rec(100, 0)}]
=============================================================================
