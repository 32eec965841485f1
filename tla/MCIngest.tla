------------------------------ MODULE MCIngest ------------------------------
(* One generated customer with an order on the one day of history; the window *)
(* of a seed is set by the cfg files.                                         *)
EXTENDS Ingest

MCBaseline == {[id |-> 1, day |-> 1, customer |-> 1, seed |-> 0]}
=============================================================================
