------------------------------ MODULE Pipeline ------------------------------
(***************************************************************************)
(* The Airflow DAG lakehouse_pipeline, with the writes its tasks make: the *)
(* Silver transforms drop and re-create their table and, only when they    *)
(* have rows to quarantine, a quarantine table; the quality gate compares  *)
(* the two through Trino; the Gold jobs replace their table.               *)
(*                                                                         *)
(* A table is the number of its rows, or Missing.  What one run finds in   *)
(* Bronze is its outcome: for each Silver table how many rows pass the     *)
(* checks and how many do not.  The outcome is fixed during a run, since   *)
(* max_active_runs = 1 and a transform starts after its extracts.          *)
(***************************************************************************)
EXTENDS Integers, FiniteSets

CONSTANTS GoldTables,             \* the Gold jobs of the DAG
          Outcomes,               \* per Silver table, what a run may find
          Retries,                \* default_args["retries"]
          MaxFailures,            \* bound: attempts lost to failures in one run
          ErrorMayLookMissing     \* may a failing quarantine query say "does not exist"

SilverTables == {"products", "customers", "exchange_rates", "orders", "order_items"}
GoldJobs     == {"daily_sales", "customer_360", "monthly_revenue",
                 "inventory_summary", "product_performance"}

ASSUME GoldAssumption == GoldTables \subseteq GoldJobs
ASSUME OutcomeAssumption == Outcomes \in [SilverTables -> SUBSET [good : Nat, bad : Nat]]
ASSUME FailureAssumption ==
    /\ Retries \in Nat
    /\ MaxFailures \in Nat
    /\ ErrorMayLookMissing \in BOOLEAN

-----------------------------------------------------------------------------
(* The tasks and the edges between them. *)

Extract(n)   == <<"extract", n>>
Transform(n) == <<"transform", n>>
Compute(n)   == <<"compute", n>>
Gate         == <<"gate", "dq_quality_gate">>
Validate     == <<"gate", "validate_trino_catalog">>

Extracts   == {Extract(n) : n \in {"orders", "customers", "products", "fx_rates"}}
Transforms == {Transform(n) : n \in SilverTables}
Computes   == {Compute(n) : n \in GoldTables}
Tasks      == Extracts \union Transforms \union Computes \union {Gate, Validate}

(* Mutants: definitions named Mut... state a plausible bug in the definition  *)
(* that follows them; nothing else refers to them.                            *)

MutLayers ==                    \* Gold starts after Silver orders, past no gate
    {<<Transform("order_items"), Gate>>}
    \union ({Transform("orders")} \X Computes)
    \union (({Gate} \union Computes) \X {Validate})

Layers ==
    {<<Transform("order_items"), Gate>>}
    \union ({Gate} \X Computes)
    \union (Computes \X {Validate})

MutEdges ==                     \* order_items no longer waits for products
    {<<Extract("orders"), Transform("orders")>>,
     <<Extract("customers"), Transform("customers")>>,
     <<Extract("products"), Transform("products")>>,
     <<Extract("fx_rates"), Transform("exchange_rates")>>,
     <<Transform("customers"), Transform("orders")>>,
     <<Transform("exchange_rates"), Transform("orders")>>,
     <<Transform("orders"), Transform("order_items")>>} \union Layers

Edges ==
    {<<Extract("orders"), Transform("orders")>>,
     <<Extract("customers"), Transform("customers")>>,
     <<Extract("products"), Transform("products")>>,
     <<Extract("fx_rates"), Transform("exchange_rates")>>,
     <<Transform("customers"), Transform("orders")>>,
     <<Transform("exchange_rates"), Transform("orders")>>,
     <<Transform("orders"), Transform("order_items")>>,
     <<Transform("products"), Transform("order_items")>>} \union Layers

Upstream == [k \in Tasks |-> {u \in Tasks : <<u, k>> \in Edges}]

(* The Silver table whose rows a Gold job reports on, and all that it reads. *)
Base(g) ==
    CASE g \in {"daily_sales", "monthly_revenue"} -> "orders"
      [] g = "customer_360" -> "customers"
      [] g \in {"inventory_summary", "product_performance"} -> "products"

Reads(g) ==
    CASE g = "monthly_revenue" -> {"orders"}
      [] g = "customer_360" -> {"customers", "orders"}
      [] g = "daily_sales" -> {"orders", "order_items"}
      [] g \in {"inventory_summary", "product_performance"} -> {"products", "order_items"}

VARIABLES state,        \* Airflow's state of each task of the current run
          tries,        \* retries each task has used
          step,         \* what a running transform does next
          silver,       \* rows of each Silver table, or Missing
          quarantine,   \* rows of each quarantine table, or Missing
          gold,         \* for each Gold table the Silver rows it was computed from
          empty,        \* the Gold tables without a row
          outcome,      \* what this run finds for each Silver table
          violations,   \* the gate's local: tables above their threshold
          failures      \* attempts lost to failures in this run

tables == <<silver, quarantine, gold, empty>>
vars == <<state, tries, step, tables, outcome, violations, failures>>

Missing  == -1
NoTable  == [t \in {} |-> 0]
Ended    == {"success", "failed", "upstream_failed", "no_run"}
Rows     == Nat \union {Missing}

TypeOK ==
    /\ state \in [Tasks -> Ended \union {"waiting", "running"}]
    /\ tries \in [Tasks -> 0..Retries]
    /\ step \in [SilverTables -> {"drop", "create", "drop_quarantine", "create_quarantine", "finish"}]
    /\ \A t \in SilverTables : silver[t] \in Rows /\ quarantine[t] \in Rows
    /\ \A g \in GoldTables : gold[g] = NoTable \/ DOMAIN gold[g] = Reads(g)
    /\ empty \subseteq GoldTables
    /\ \A t \in SilverTables : outcome[t] \in Outcomes[t]
    /\ violations \subseteq SilverTables
    /\ failures \in 0..MaxFailures

Init ==
    /\ state = [k \in Tasks |-> "no_run"]
    /\ tries = [k \in Tasks |-> 0]
    /\ step = [t \in SilverTables |-> "drop"]
    /\ silver = [t \in SilverTables |-> Missing]
    /\ quarantine = [t \in SilverTables |-> Missing]
    /\ gold = [g \in GoldTables |-> NoTable]
    /\ empty = {}
    /\ outcome \in {o \in [SilverTables -> UNION {Outcomes[t] : t \in SilverTables}] :
                        \A t \in SilverTables : o[t] \in Outcomes[t]}
    /\ violations = {}
    /\ failures = 0

-----------------------------------------------------------------------------
(* The scheduler. *)

RunEnded == \A k \in Tasks : state[k] \in Ended
Ready(k) == state[k] = "waiting" /\ \A u \in Upstream[k] : state[u] = "success"

StartRun ==
    /\ RunEnded
    /\ state' = [k \in Tasks |-> "waiting"]
    /\ tries' = [k \in Tasks |-> 0]
    /\ step' = [t \in SilverTables |-> "drop"]
    /\ outcome' \in {o \in [SilverTables -> UNION {Outcomes[t] : t \in SilverTables}] :
                         \A t \in SilverTables : o[t] \in Outcomes[t]}
    /\ violations' = {}
    /\ failures' = 0
    /\ UNCHANGED tables

(* Trigger rule all_success: one failed upstream task fails what follows.   *)
SkipTask(k) ==
    /\ state[k] = "waiting"
    /\ \E u \in Upstream[k] : state[u] \in {"failed", "upstream_failed"}
    /\ state' = [state EXCEPT ![k] = "upstream_failed"]
    /\ UNCHANGED <<tries, step, tables, outcome, violations, failures>>

MutRetryForever(k) ==           \* the retries are not counted
    /\ state' = [state EXCEPT ![k] = "waiting"]
    /\ step' = [t \in SilverTables |-> IF k = Transform(t) THEN "drop" ELSE step[t]]
    /\ UNCHANGED tries

MutAttemptFails(k) ==           \* one retry too many
    /\ state' = [state EXCEPT ![k] = "waiting"]
    /\ tries' = [tries EXCEPT ![k] = @ + 1]
    /\ step' = [t \in SilverTables |-> IF k = Transform(t) THEN "drop" ELSE step[t]]

AttemptFails(k) ==
    /\ state' = [state EXCEPT ![k] = IF tries[k] < Retries THEN "waiting" ELSE "failed"]
    /\ tries' = [tries EXCEPT ![k] = IF tries[k] < Retries THEN @ + 1 ELSE 0]
    /\ step' = [t \in SilverTables |-> IF k = Transform(t) THEN "drop" ELSE step[t]]

(* Any attempt may die at any point, or find a query or a write failing.    *)
TaskFails(k) ==
    /\ Ready(k) \/ state[k] = "running"
    /\ failures < MaxFailures
    /\ failures' = failures + 1
    /\ AttemptFails(k)
    /\ UNCHANGED <<tables, outcome, violations>>

(* A task that is over has no use for its count of retries. *)
TaskSucceeds(k) ==
    /\ state' = [state EXCEPT ![k] = "success"]
    /\ tries' = [tries EXCEPT ![k] = 0]

-----------------------------------------------------------------------------
(* The tasks.  What an extract does to Bronze is the subject of Extraction.  *)

RunExtract(k) ==
    /\ Ready(k)
    /\ TaskSucceeds(k)
    /\ UNCHANGED <<step, tables, outcome, violations, failures>>

(* write_silver_table: DROP TABLE IF EXISTS, then create.                    *)
DropSilver(t) ==
    /\ Ready(Transform(t))
    /\ state' = [state EXCEPT ![Transform(t)] = "running"]
    /\ silver' = [silver EXCEPT ![t] = Missing]
    /\ step' = [step EXCEPT ![t] = "create"]
    /\ UNCHANGED <<tries, quarantine, gold, empty, outcome, violations, failures>>

CreateSilver(t) ==
    /\ state[Transform(t)] = "running"
    /\ step[t] = "create"
    /\ silver' = [silver EXCEPT ![t] = outcome[t].good]
    /\ step' = [step EXCEPT ![t] = IF outcome[t].bad > 0 THEN "drop_quarantine" ELSE "finish"]
    /\ UNCHANGED <<state, tries, quarantine, gold, empty, outcome, violations, failures>>

(* write_quarantine_table, called only if bad_count > 0. *)
DropQuarantine(t) ==
    /\ state[Transform(t)] = "running"
    /\ step[t] = "drop_quarantine"
    /\ quarantine' = [quarantine EXCEPT ![t] = Missing]
    /\ step' = [step EXCEPT ![t] = "create_quarantine"]
    /\ UNCHANGED <<state, tries, silver, gold, empty, outcome, violations, failures>>

CreateQuarantine(t) ==
    /\ state[Transform(t)] = "running"
    /\ step[t] = "create_quarantine"
    /\ quarantine' = [quarantine EXCEPT ![t] = outcome[t].bad]
    /\ step' = [step EXCEPT ![t] = "finish"]
    /\ UNCHANGED <<state, tries, silver, gold, empty, outcome, violations, failures>>

-----------------------------------------------------------------------------
(* The quality gate.  Rates are in hundredths of a percent, as the gate      *)
(* rounds to two decimals; a tie goes either way in floating point.          *)

Threshold(t) ==
    CASE t = "products"       -> 300
      [] t = "customers"      -> 150
      [] t = "exchange_rates" -> 50
      [] t \in {"orders", "order_items"} -> 100

Rounded(part, total) ==
    IF total = 0 THEN {0}
    ELSE {(20000 * part + total) \div (2 * total), (20000 * part + total - 1) \div (2 * total)}

(* A query that raises an error naming a missing table counts as no rows.    *)
QuarantineCounts(t) ==
    {IF quarantine[t] = Missing THEN 0 ELSE quarantine[t]}
    \union (IF ErrorMayLookMissing THEN {0} ELSE {})

Rates(t) == UNION {Rounded(q, silver[t] + q) : q \in QuarantineCounts(t)}

MutRunGate ==                   \* the breach is logged and not raised
    /\ Ready(Gate)
    /\ \E rate \in [SilverTables -> UNION {Rates(t) : t \in SilverTables}] :
          /\ \A t \in SilverTables : rate[t] \in Rates(t)
          /\ violations' = {t \in SilverTables : rate[t] > Threshold(t)}
    /\ TaskSucceeds(Gate)
    /\ UNCHANGED <<step, tables, outcome, failures>>

RunGate ==
    /\ Ready(Gate)
    /\ \A t \in SilverTables : silver[t] # Missing
    /\ \E rate \in [SilverTables -> UNION {Rates(t) : t \in SilverTables}] :
          /\ \A t \in SilverTables : rate[t] \in Rates(t)
          /\ violations' = {t \in SilverTables : rate[t] > Threshold(t)}
    /\ \/ /\ violations' = {}
          /\ TaskSucceeds(Gate)
          /\ UNCHANGED step
       \/ /\ violations' # {}
          /\ AttemptFails(Gate)
    /\ UNCHANGED <<tables, outcome, failures>>

(* A Gold job replaces its table in one commit (createOrReplace).  Without   *)
(* rows to report on the table is empty; product_performance also drops the  *)
(* products without a category, which may be all there are.                  *)
ComputeGold(g) ==
    /\ Ready(Compute(g))
    /\ \A t \in Reads(g) : silver[t] # Missing
    /\ gold' = [gold EXCEPT ![g] = [t \in Reads(g) |-> silver[t]]]
    /\ \/ (silver[Base(g)] = 0 \/ g = "product_performance") /\ empty' = empty \union {g}
       \/ silver[Base(g)] > 0 /\ empty' = empty \ {g}
    /\ state' = [state EXCEPT ![Compute(g)] = "running"]
    /\ UNCHANGED <<tries, step, silver, quarantine, outcome, violations, failures>>

(* After its last write a process has still to stop its session and exit.    *)
FinishTask(k) ==
    /\ state[k] = "running"
    /\ \A t \in SilverTables : k = Transform(t) => step[t] = "finish"
    /\ TaskSucceeds(k)
    /\ step' = [t \in SilverTables |-> IF k = Transform(t) THEN "drop" ELSE step[t]]
    /\ UNCHANGED <<tables, outcome, violations, failures>>

MutPopulated(g) == gold[g] # NoTable   \* the count is not looked at
Populated(g)    == gold[g] # NoTable /\ g \notin empty

ValidateGold ==
    /\ Ready(Validate)
    /\ \/ /\ \A g \in GoldTables : Populated(g)
          /\ TaskSucceeds(Validate)
          /\ UNCHANGED step
       \/ /\ \E g \in GoldTables : ~Populated(g)
          /\ AttemptFails(Validate)
    /\ UNCHANGED <<tables, outcome, violations, failures>>

TaskStep ==
    \/ \E k \in Extracts : RunExtract(k)
    \/ \E t \in SilverTables :
          DropSilver(t) \/ CreateSilver(t) \/ DropQuarantine(t) \/ CreateQuarantine(t)
    \/ RunGate
    \/ \E g \in GoldTables : ComputeGold(g)
    \/ \E k \in Transforms \union Computes : FinishTask(k)
    \/ ValidateGold
    \/ \E k \in Tasks : SkipTask(k)

Next == StartRun \/ TaskStep \/ \E k \in Tasks : TaskFails(k)

Spec == Init /\ [][Next]_vars

(* A started attempt makes progress or fails; the schedule starts runs.      *)
LiveSpec == Spec /\ WF_vars(TaskStep) /\ WF_vars(StartRun)

-----------------------------------------------------------------------------
Done(k) == state[k] = "success"

(* The gate compares what this run wrote: every Silver table exists and is   *)
(* this run's, and so is the quarantine table of a transform that had rows   *)
(* to quarantine, whatever attempts died between a DROP and a create.        *)
GateSeesThisRun ==
    Ready(Gate) \/ Done(Gate) =>
        \A t \in SilverTables :
            /\ silver[t] = outcome[t].good
            /\ outcome[t].bad > 0 => quarantine[t] = outcome[t].bad

(* Each Gold table of a run is computed from Silver tables of that run.      *)
GoldOfOneRun ==
    \A g \in GoldTables :
        state[Compute(g)] \in {"running", "success"} => \A t \in Reads(g) : gold[g][t] = outcome[t].good

Total(t) == outcome[t].good + outcome[t].bad

(* Gold is rewritten only in a run that quarantined no more than its         *)
(* threshold, half a hundredth of a percent of rounding aside.               *)
GoldWithinThreshold ==
    (\E g \in GoldTables : state[Compute(g)] \in {"running", "success"}) =>
        \A t \in SilverTables : 20000 * outcome[t].bad <= (2 * Threshold(t) + 1) * Total(t)

(* A blocked or broken run leaves every Gold table as the last run that got   *)
(* past the gate made it; a green run has replaced them all, none empty.      *)
GreenRunIsComplete ==
    Done(Validate) =>
        \A g \in GoldTables :
            g \notin empty /\ gold[g] = [t \in Reads(g) |-> outcome[t].good]

(* Only past the gate does a Gold table change.                              *)
GoldKeptWhenBlocked == [][gold' # gold => Done(Gate) /\ violations = {}]_vars

(* Every run comes to an end, with each task in a final state.               *)
RunEnds == ~RunEnded ~> RunEnded

(* "Fail the DAG if a Silver table exceeds its quarantine threshold": the     *)
(* tables the gate reports did quarantine more than their threshold in this   *)
(* run.                                                                       *)
BlockedOnlyByThisRun ==
    \A t \in violations : 10000 * outcome[t].bad > Threshold(t) * Total(t)
=============================================================================
