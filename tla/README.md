# A formal model of the lakehouse

This directory holds TLA+ models of the lakehouse pipeline in this repository,
TLC configurations that check them on small instances, and TLAPS proofs of
their safety properties for instances of any size. Paths below are relative to the
repository's root. `PROJECT.json` lists, for every definition, the source lines
it models.

## 1. The system

A generator fills two databases and some CSV files; a seeder later adds rows
to them. Once a day Airflow runs Spark jobs that copy the sources into Iceberg
tables (Bronze), clean them (Silver and quarantine), gate on the share of
quarantined rows, aggregate (Gold) and finally look at the result through
Trino.

| Component | State it keeps | Operations | Talks to |
|---|---|---|---|
| Generator, `generator/generate_and_load.py` | MySQL `customers`, Postgres `orders` and `order_items`, `products.csv`, `exchange_rates.csv` | write files, drop, create, fill | sources |
| Seeder, `generator/seed_incremental.py` | the same, extended | `seed_customers`, `seed_orders`, `append_fx_rates` | sources |
| Incremental extraction, `spark/jobs/bronze/extract_{orders,customers,fx_rates}.py`, `common/incremental.py`, `common/bronze_writer.py` | Bronze tables, `control.watermarks` | `get_watermark`, count, append, max, `set_watermark` | sources, Iceberg; three jobs share one watermark table |
| Products extraction, `extract_products.py` | Bronze `products` | `createOrReplace` | CSV, Iceberg |
| Silver transforms, `spark/jobs/silver/*`, `common/silver_writer.py` | five Silver and five quarantine tables | deduplicate, join, check, DROP, create | Bronze; `orders` reads Silver `customers` and `exchange_rates`, `order_items` reads Silver `orders` and `products` |
| Checks, `common/dq.py`, `common/dedupe.py` | none (pure) | `apply_dq_checks`, `dedupe_latest` | Silver transforms |
| Gold jobs, `spark/jobs/gold/*`, `common/gold_writer.py` | five Gold tables | aggregate, `createOrReplace` | Silver |
| DAG, `airflow/dags/lakehouse_pipeline.py` | task states | schedule, retry, skip, `_check_dq_quarantine`, `_validate_trino_catalog` | everything, by tasks |
| Session, deployment, tests | configuration | | |

What is hard here, and what makes each part correct:

* **Extraction.** A DataFrame is evaluated three times, for the count, for the
  append and for the maximum that becomes the watermark; no transaction spans
  the append and the watermark; three jobs upsert one Iceberg table; attempts
  die and are retried once. Correct means: a row the watermark has passed is in
  Bronze; a watermark never moves back; a child row is never in Bronze without
  its parent; what is in the sources arrives.
* **Silver, gate and Gold.** DROP and create are two steps; the quarantine
  table is only rewritten when there is something to quarantine; the gate
  compares tables written by different statements of different attempts.
  Correct means: the gate sees what this run wrote, Gold is computed past a
  gate that let this run through, from this run's Silver, and a green run
  replaced all of Gold.
* **Contents of Silver and Gold.** A transform's plan is evaluated three times,
  ties between rows of one key are broken arbitrarily each time, `current_date`
  moves at midnight, checks may be NULL, joins may multiply rows, and several
  Gold jobs aggregate the same rows along different columns. Correct means: one
  row of each key, each key in Silver or in quarantine and not in both, and
  Gold tables that agree.
* **Sources.** Each program commits to three systems in turn and may die
  between any two. Correct means: no order without its customer, and a rate for
  each order's day and currency after a seed that finished.
* **Sources and extraction together.** Keys and days of later seeds have to lie
  past what was extracted, whichever seeds died.

Section 6 of this file and `hazards` in `PROJECT.json` give the lines where each
of these bites.

## 2. The modules

| Module | Models | Checked by |
|---|---|---|
| `Replica` | abstract specification: a copy of each append-only table that moves only to the whole of its source, and does so eventually | `Extraction` implements it |
| `Extraction` | `extract_table` and its two siblings, step by step; the watermark MERGE; crashes and retries | `MCExtraction` |
| `Pipeline` | the DAG with its scheduler, the table writes of Silver, the gate, Gold and validation | `MCPipeline` |
| `Silver` | deduplication, joins, conversion and checks of the five transforms, evaluated three times each | through `Gold` |
| `Gold` | the five aggregations, after `Silver` | `MCGold` |
| `Sources` | the generator and the seeder, one action per commit | through `Ingest` |
| `Ingest` | `Sources` composed with the extraction of its tables | `MCIngest` |
| `ExtractionProofs`, `ReplicaProofs`, `PipelineProofs`, `SilverProofs`, `GoldProofs`, `SourcesProofs`, `IngestProofs` | theorems about the module of that name, for every value of the constants | tlapm |
| `SumProofs` | what `SumFunction` of the community modules returns, for every finite function | tlapm |

The MC modules give the constants values. `Gold` extends `Silver` and `Ingest`
extends `Sources`, each with variables and actions of its own and the actions
of the module it extends, so their runs also check the properties of the latter.

### Extraction

`pc[j]` names the next statement of a job's attempt: `get` (`get_watermark`),
`count` (`df.count()`), `append` (`append_bronze_table`), `max`
(`df.agg(max)`), `scan` and `commit` (the two halves of the MERGE in
`set_watermark`). `at[j]` is the position in `TABLES`; `extract_orders` has two
tables, the others one. `low[j]` and `high[j]` are the locals `watermark` and
`new_watermark`. `count`, `append` and `max` each read `src` anew, since Spark
reruns the JDBC query for every action. (`extract_fx_rates` lists its file once
when the DataFrame is made; for it, a change made meanwhile is one that comes
later.)

An Iceberg MERGE is a scan of a snapshot and a commit that is refused when
another commit replaced that snapshot: the table has one data file, rewritten
by each MERGE. A refused commit fails the attempt; a failed attempt runs `main`
again from the first table while Airflow's single retry lasts.

Bronze tables are sequences of ingested batches, as rows are only ever appended
and a row may be ingested twice (Silver deduplicates). A row is an opaque value
with a watermark, `MarkOf`; mark 0 is the absent watermark. A source
transaction adds rows whose watermark column is past everything committed
before, which is what the seeder does; rows of one transaction may share a
watermark. Two constants choose the environment: `SeedDuringRun`, whether the
sources may change while a run is active, and `CatalogCheckMayFail`, whether
`catalog.tableExists` may raise, which `append_bronze_table` takes for "no".

`late[t]` is a history variable: the rows committed to `t` between an append
and the maximum that follows it. No action reads it.

### Pipeline

`state[k]` is Airflow's state of task `k` of the one active run, `tries[k]` the
retries it used. `Edges` are the `>>` of the DAG file; the trigger rule is
Airflow's default. A table is its number of rows, or `Missing`. A Gold table is
the numbers of the Silver rows it was computed from, and `empty` is the set of
those without a row. A transform has up to four
writes, the last two only if it has rows to quarantine; after its last write it
and a Gold job have still to exit (`FinishTask`), so that an attempt may die
with everything committed. What a run finds, its
`outcome`, is any value of `Outcomes` and does not change within the run, since
`max_active_runs` is 1 and transforms start after their extracts. The gate's
rate is rounded as the code rounds it; a tie rounds either way.
`ErrorMayLookMissing` chooses whether a quarantine query that fails may do so
with a text containing "does not exist".

The `success` of a task resets its count of retries and a starting run resets
all locals, which merges states that differ in nothing the code reads.

### Silver and Gold

One run over Bronze tables that do not change. `Deduped(t)` is the set of
results `dedupe_latest` may have: of each key one of the rows with the highest
`_bronze_ingested_at`. `Transformed(t, r)` is the left joins of a row, as the
set of joined rows; the columns computed from them (`fx_rate_to_usd`,
`order_total_usd`, `line_total_usd`) are operators on a joined row, in whole
cents. A rate is a whole number of its last decimal, of which `RateOne` make 1:
10^6 in the code (`DECIMAL(12,6)`, `extract_fx_rates.py:24`), 2 in the runs. `Usd`
divides exactly; what the code's doubles may do to a tie is left out. A check
is TRUE, FALSE or `Null`; `FailedChecks` are the names of those that are not
TRUE, and a row is good if there are none. The actions of a
transform are its three evaluations, `Count`, `WriteSilver` and
`WriteQuarantine`, each of which chooses a member of `Deduped(t)` again and
reads `today` again; the last runs only if the first found bad rows. `Midnight`
is the date of the cluster's clock. `Upstream` is what the edges of the DAG
require of the Silver tables read. An email is represented by whether it
matches the pattern.

When the tables are dropped, created or left over from an earlier run is the
matter of `Pipeline`, in which row counts stand for contents; here every
transform writes once.

`Compute(g)` computes a Gold table when all Silver tables are done. Sums are
`SumFunction`s over sets of joined rows, `Percent` rounds as Spark does, `MonthBefore` is
`lag` over the months there are, and a join on a NULL category drops the
product. Averages, first and last dates and `days_since_last_order` are left
out: each is a column of a single row from which nothing follows.

### Sources and Ingest

`pc` is the next write of the program that runs; at most one runs at a time.
MySQL commits each DDL statement by itself, so `DropCustomers` and
`CreateCustomers` are two actions; Postgres commits both with one transaction.
The generator writes the exchange rates row by row, a row for each day and
quoted currency, and they reach the disk a buffer at a time: `WriteRates`
extends the file to any longer prefix, and a reader or a death may find one
that ends within a day. The seeder gives up (`SeedRefused`) where the code
raises or exits: a missing table, no orders, no rates. Days are numbers; a seed
adds one customer and one order. `reset` is history: a load began after a seed,
or a seed on a half-loaded source.

`Ingest` adds Bronze, the watermarks and the extraction of each table, which
evaluates its query three times: `CountRows` (with the watermark it reads, and
for the rates the listing of the file), `AppendRows` and `SetWatermark`. Commits of the
generator and the seeder fall anywhere between these, tables are dropped,
emptied and refilled under them, and an attempt may die after any
(`ExtractFails`). A reader of the file sees no more of it than the length it
listed, but of what the file has become (`Seen`). The maximum of no rows is
`None`, which is stored as text (`NoMax`): no key and no date compares with it.

Rows can be lost where an extraction is overtaken by a commit to its own
table, which is finding 1 again and its cousins with a reload; `Ingest` says
that they are lost nowhere else. `overtaken` is history: the tables whose rows
were removed after the count or changed in any way after the append. `doubt`
collects the marks such an extraction passed, and the days of rates that were
in the listed file in part, as happens when the generator is writing it.
`order_items` follows `orders` in both programs and both jobs and is left out.

### Definitions named Mut...

Next to some definitions stands a variant of the same parameters whose name
begins with `Mut`: a bug somebody could have written there, such as a retry
that is not counted or a watermark stored before the append. No specification refers to them.
For each property of each passing run, `PROJECT.json` names one that makes the
property fail when it takes the original's place.

## 3. The runs

| Run | Shows | Bounds |
|---|---|---|
| `extraction_quiet` | `NoLoss`, `ParentsFirst`, `ImplementsReplica` (safety and liveness), `RunsEnd`: the documented use, seeding between runs, loses nothing through crashes, retries and MERGE conflicts, and what the sources hold arrives | 2 jobs, 3 tables, 2 rows; 1 crash |
| `extraction_busy` | `LostOnlyInWindow`, `WatermarkNeverRegresses`, `OnlyUncommittedRowsAppended`, and `IInv`, the invariant of the proofs, with sources that change at any moment | 2 jobs, 3 tables, 2 rows; 1 crash |
| `extraction_race` | violation of `NoLoss`: finding 1 | no crash |
| `extraction_catalog` | violation of `NoLoss`: finding 2 | no crash |
| `pipeline_runs` | `GateSeesThisRun`, `GoldOfOneRun`, `GoldWithinThreshold`, `GreenRunIsComplete`, `GoldKeptWhenBlocked`, `RunEnds` over any number of runs | all 5 Gold jobs, 1 lost attempt in a run |
| `pipeline_stale` | violation of `BlockedOnlyByThisRun`: finding 3 | no lost attempt |
| `pipeline_misread` | violation of `GoldWithinThreshold`: finding 4 | no lost attempt |
| `ingest_seeds` | `OrdersHaveCustomers`, `RatesCoverOrders`, `MissingRowsArePast`, `NothingLeftBehind` | 3 programs: at most 2 loads and 2 seeds; 1 of them dies; 1 day of history, 2 currencies, windows of 1 day |
| `ingest_reset` | violation of `ResetStartsClean`: finding 5 | 4 programs, no death |
| `ingest_reload` | violation of `WatermarkIsAValue`: finding 7 | 2 loads, no death |
| `gold_tables` | `KeysUnique`, `EveryKeyOnce`, `RevenueAgrees`, `UnitsAgree`, `LinesAddUp`, `QuarantinedForCause`, `SharesAddUp` | 240 Bronze layers of up to 3 rows in a table |
| `silver_columns` | violation of `QuarantineHasNoFlagColumns`: finding 6 | the same |

Each module's `TypeOK` is checked in one of its passing runs.

Why the bounds suffice. Two jobs share the watermark table in every way three
do: a MERGE conflicts with one other MERGE. `extract_orders` is the only job
with two tables, and is there. Two rows give a row below and a row above a
watermark. With one retry, one crash and one conflict fail a job for good. In
the pipeline, products vary (the table whose quarantine can vanish from one run
to the next, and that can be empty, where the gate divides by zero), and orders
quarantine 201 of 20000, whose rate of 1.005% rounds to the threshold or past it.
One lost attempt meets each write with its retry; a gate that stays closed fails
its task for good. A transform that loses both its attempts is covered by the theorems
only, since two lost attempts make the run too large. Two loads give one that
is cut short or overtakes an extraction and one that repairs it,
two seeds one that dies and one that repairs what it left; a third would find
what the second found, with higher keys. Windows of 2 days pass as well, in
three times the time, and the theorems cover any. The Bronze layers of
`gold_tables` are every combination of 3 customer, 4 rate, 5 product, 2 order
and 2 item tables, which hold between them a key ingested twice with one
verdict or two, tied rows, keys and columns that are NULL, a missing customer,
rate or product, a foreign base currency, and a signup date of tomorrow; in
some, three products of one category earn 2/9, 3/9 and 4/9 of it, and their
shares add up to 99.99.
Deadlock is checked in `Extraction` and `Pipeline`, where there is always a next
run; in the others everything may have ended, and it is not.

Fairness. `Extraction!LiveSpec` assumes weak fairness of each job's steps and
of `StartRun`: an attempt that Spark has started and that is not killed reaches
its next statement, and `schedule` is `@daily`. `Pipeline!LiveSpec` assumes the
same of the tasks together (one `WF` on `TaskStep`, so that nothing is assumed
of any single task) and of `StartRun`. Nothing is assumed of sources, crashes or failures, which
are bounded by `MaxCrashes` and, per run, by `MaxFailures`. `ImplementsReplica`
thus says: after the last crash, runs go on, and what the sources hold arrives.
It needs that conflicts cannot fail every run: a job fails for good only with
two conflicts in one run, and the MERGEs it conflicts with have succeeded.

## 4. What is proved

For all jobs, tables, rows, retries, crashes, outcomes, Bronze layers, loads,
seeds and deaths:

| Module | Theorem | Assuming | States |
|---|---|---|---|
| `ExtractionProofs` | `TypeCorrect` | | `TypeOK` |
| | `ControlInvariant` | | `ControlInv` |
| | `WatermarksAreMonotone` | | `WatermarkNeverRegresses` |
| | `BatchesAreUncommitted` | | `OnlyUncommittedRowsAppended` |
| | `InductiveInvariant` | `tableExists` does not raise | `IInv` |
| | `LossNeedsTheWindow` | `tableExists` does not raise | `LostOnlyInWindow` |
| | `QuietSourcesLoseNothing` | the same, and no commits during runs | `NoLoss` |
| `ReplicaProofs` | `ParentsComeFirst` | the same | `ParentsFirst` |
| | `StepsAreCopies` | the same | the safety part of `ImplementsReplica` |
| `PipelineProofs` | `TypeCorrect` | | `TypeOK` |
| | `InductiveInvariant` | | `IInv` |
| | `GateComparesThisRun` | | `GateSeesThisRun` |
| | `GoldIsOfOneRun` | | `GoldOfOneRun` |
| | `ThresholdsAreEnforced` | no misread error | `GoldWithinThreshold` |
| | `GreenRunsAreComplete` | | `GreenRunIsComplete` |
| | `BlockedRunsKeepGold` | | `GoldKeptWhenBlocked` |
| `SilverProofs` | `SilverKeysAreUnique` | | `KeysUnique` |
| | `KeysAreNeverLost` | | `EveryKeyOnce` |
| | `SilverTypeCorrect` | | `TypeOK` |
| | `RejectionsHaveCauses` | | `QuarantinedForCause` |
| `GoldProofs` | `RevenueIsOneRevenue` | | `RevenueAgrees` |
| | `UnitsAreTheSameUnits` | | `UnitsAgree` |
| | `LinesAddUpToOrders` | | `LinesAddUp` |
| | `SharesMakeUpTheWhole` | | `SharesAddUp` |
| `SourcesProofs` | `TypeCorrect` | | `TypeOK` |
| | `NoOrphans` | | `OrdersHaveCustomers` |
| | `EveryOrderHasRates` | | `RatesCoverOrders` |
| `IngestProofs` | `ExtractionOnlyReads` | | the properties of `Sources` carry over |
| | `BronzeInvariant` | | `BronzeInv` |
| | `MissingRowsAreFound` | | `MissingRowsArePast` |
| | `CaughtUpIsComplete` | | `NothingLeftBehind` |

The assumptions on the constants are the `ASSUME`s of the modules, and TLC
evaluates all of them on each run. Three of them matter: `OwnerAssumption`, that
no two jobs extract one table, `DatabaseAssumption`, that a table is written
by the transactions of one database, and `BronzeAssumption`, that Bronze tables
are finite and amounts, quantities, signup dates and rates are numbers, the
latter two or NULL. `NoRowIsNull` says only that a row is not the value that
stands for SQL's NULL, so that a left join without a match is told from one with
a match. The amounts and quantities of orders and lines are columns
declared NOT NULL (`generate_and_load.py:260-270`). `SumProofs` holds lemmas
only. None of the properties is inductive by itself.

**Extraction.** That a watermark does not move back needs to know what a MERGE
will write: `ScanIsSnapshot` (a scan whose version is the current one holds the
current watermarks, so a commit that is not refused changes its own table
only), `LowIsStored` (no other job moves this job's watermark, by
`OwnerAssumption`) and `HighIsRead` (the new watermark exceeds the one read).
With `MarksAreRead` (a stored watermark is the mark of a row of the source, so
that rows committed later lie past it) these form `ControlInv`, whatever the
catalog answers. Which rows have arrived is `BatchArrived`: after the append,
what lies past `low` is in Bronze or was committed in the window, and after the
maximum everything up to `high` is. A commit of `high` then preserves
`LostOnlyInWindow`. `WindowClosed` says that `late` stays empty when sources
rest, which turns `LostOnlyInWindow` into `NoLoss`.

**Replica.** With resting sources more is invariant (`QuietInv`): tables of one
database hold the same rows, Bronze holds nothing the source does not,
`HighIsHighest` (the mark about to be stored is that of the last row of the
source) and `PassedArrived` (a running job has delivered all of each table it
has passed). So when `order_items` are appended, all of `orders` is in Bronze;
and a MERGE that commits makes `Delivered` the whole of its source, which is a
step `Copy` of `Replica`. Every other step leaves `Delivered` alone or is `Grow`.

**Pipeline.** `UpstreamDone` says that a task that runs or is done has all of its
upstream tasks done. They do not move again in the run, hence `WroteInv` (a
transform that has its Silver table behind it left this run's rows, and before
it exits this run's quarantine if it had any), `GoldInv` (a Gold table that is
written, its job done or not, is of these), `GateInv` (a gate
that is done found every table within its threshold, up to the rounding, for
which `RateBound` does the arithmetic) and `ValidInv`. Attempts that die between
DROP and create disturb none of them, since their task is not done.

**Silver.** For unique keys, `RatesAreAgainstUsd`: the join on date and quoted
currency finds one rate because the third part of a rate's key is the same in
all that passed. For `EveryKeyOnce`, `DecidedInv`: a key whose evaluations
cannot disagree (no tie, no signup date that became due) has been put where the
verdict on its row says, for each evaluation that is over. It needs that the
Silver tables a transform joins do not change while it runs (`Begun`) and that
a check that does not read `today` keeps its value. A key that midnight makes
due may be lost, but a row that passed once passes from then on
(`PassesStays`), so that none is in both tables (`NeverBoth`).

`JoinInv` says of each row of Silver that it still passes its checks (for
customers, which depend on the date, nothing is said) and that what it was
joined to is still in Silver. A table with rows has had its upstream tables
done, which are then not written again, so `WriteSilver` establishes this for
its own table and disturbs it for no other. `QuarantinedForCause` follows in
the same way: the third evaluation of a transform rejected the row for what
Silver lacked then (`RejectedOrder`, `RejectedItem`), and the tables upstream,
written by then, are not written again (`CauseStays`). `RateIsPositive` says
that a rate in Silver converts, so that no order is blamed for one that is there.

**Sources.** Keys and days are counted on from the highest that is committed, so
type correctness needs that there is one (`BoundedRows`, and `HighestBounds` for
what `Max` returns). `CustomerInv` adds the seeder's local `new_customer_ids` to
the orders: what an order may name next is committed as well. `RatesInv` says
that the file has no gap up to its last day, in each currency, and that the
last day of a seed is past every order.

**Gold.** By `JoinInv` a good order has a customer in Silver and a positive rate
(`OrderRow`), a good line has its order and its product (`ItemRow`), and, keys
being unique, there is one of each. That sorts every order into one row of
`customer_360`, of `daily_sales` and of `monthly_revenue`, and every line into
one row of `daily_sales` and of `inventory_summary`. `SumByGroups` does the
rest: where each row's column is the sum over the rows sorted into it, the
column sums up to the whole, rows into which nothing was sorted included.
`LinesAreClose` uses that a line
converts at the rate of the order it was joined to, which is the order in
Silver, that `Usd` is within half a cent (`Rounding`), and `SumsStayClose` for
any number of lines. For `SharesAddUp`, each product of a category has a row of
its own (`CategoryRows`), so that the rows earned together what the shares were
computed of; `PercentRounding` bounds each share, `SumsStayClose` their sum.
`GoldInv` says that a Gold table is still what its job
would make of Silver.

**Sums.** `SumFunction` takes the elements of a finite domain in an order it
chooses. That the function it recurs on exists is proved by the size of the
subsets (`SumExists`), that the order does not matter in `AnyOrder`. Induction
is over sets: a set of naturals that has 0 and the successor of each member has
all of them (`NaturalSetInduction`, from the well-foundedness of `<`), and a
set of subsets that has each subset whose smaller neighbours it has, has all
(`SubsetInduction`). The library's induction theorems take an operator and
cannot be used.

**Ingest.** Two phases (`PhaseInv`): before the first seed each table is either
empty or what every load writes, and the file is a prefix of that; from then on,
as long as nobody resets the sources, rows are only added past the highest
(`GrowsPast`, for which the keys and days of `SourcesProofs` are used).
`BronzeInv` says of each table, with `Base` for what a load or the seeds have
put there: what Bronze lacks of it lies past the watermark, or has a mark in
`doubt` (`PastMark`); a watermark is the mark of some row
(`MarkIsOfARow`), since a watermark past every row would hide those to come; and
of the days a reader listed, the file gains rows only of one that was listed in
part (`ListedIsEarly`), which is the last, as a file cut anywhere has one such
day at most (`OnlyTheLastDayIsPartial`). The step that counts is `SetWatermark`
(`WatermarkKeepsBronze`): an extraction that was not overtaken has appended all
that it now takes the maximum of (`ReadInv`), so that every row the watermark
passes is in Bronze (`PassedRows`), and one that was overtaken puts all marks it
passes in `doubt`. A reload before the first seed replaces rows by the same
rows, which is why a watermark that outlives them is none the worse for it, and
after a seed is (finding 5).

The proofs have one step per action, and under it one per conjunct the action
disturbs. TLC found no state of `ingest_seeds` or `gold_tables` outside
`PhaseInv`, `BronzeInv`, `JoinInv` or `GoldInv` before they were proved.

Model-checked only: `RunsEnd`, `RunEnds` and the fairness of `ImplementsReplica`,
which are liveness and beyond the prover. The properties of the runs that expect
a violation are false of the code and have counterexamples instead of proofs.

## 5. Findings

1. **A row committed during an extraction can be lost** (`extraction_race`).
   `extract_orders.py:67` evaluates the query again for the maximum. A row
   committed after the append and before the maximum raises the watermark
   without having been appended. `incremental.py:3` says this scheme "catches
   NEW rows past a watermark column". By `LossNeedsTheWindow` this is the only
   way to lose one while the catalog answers.
2. **A failing catalog check discards earlier runs for good**
   (`extraction_catalog`). `bronze_writer.py:53` calls `createOrReplace()`
   after such a failure "still correct (if unnecessarily destructive of prior
   runs)"; the watermark keeps those rows from being read again.
3. **A quarantine table outlives the run that wrote it** (`pipeline_stale`).
   A transform with nothing to quarantine leaves the old table, and the gate
   counts it against the clean run. `docs/design-decisions.md:303` says the
   quarantine tables are dropped and created too and each run rebuilds its
   output.
4. **An unrelated error can count as "nothing quarantined"**
   (`pipeline_misread`). `lakehouse_pipeline.py:60` looks for "does not exist"
   in the text; lines 96-97 say anything but a missing table must not be
   reinterpreted as zero.
5. **Resetting the sources leaves the watermarks** (`ingest_reset`).
   `seed_incremental.py:36` offers a new run of the generator as a reset; the
   next seed's keys and days then repeat ones the watermarks have passed.
6. **Quarantined rows keep the column with their failed checks**
   (`silver_columns`). `dq.py:34` drops the flag columns and not
   `_dq_failed_checks`; `tests/test_dq.py:20` asserts that it is not among the
   columns.

7. **The maximum of no rows is stored as a watermark** (`ingest_reload`).
   The callers of `set_watermark` check the count of an earlier evaluation. When
   the generator empties the table or the file in between, the append and the
   maximum find nothing and 'None' is stored. `customer_id > None` then fails in
   every run that follows, and `extract_fx_rates.py:39` casts it to NULL and
   finds nothing new for good. The docstring of `set_watermark`
   (`incremental.py:55`) says that it must not be called "when zero new rows were read".

## 6. Hazards

| Hazard | Where | Properties |
|---|---|---|
| The query is evaluated three times | `extract_orders.py:67` | `LostOnlyInWindow`, `NoLoss` |
| Death between append and watermark | `extract_orders.py:68` | `NoLoss` |
| Concurrent MERGEs into one table | `incremental.py:61` | `WatermarkNeverRegresses`, `IInv` |
| The only retry is used up by a conflict | `lakehouse_pipeline.py:164` | `NoLoss`, `RunsEnd` |
| Death between two tables of one job | `extract_orders.py:74` | `ParentsFirst` |
| `tableExists` raises | `bronze_writer.py:58` | `NoLoss` |
| Rows that never arrive | `incremental.py:54` | `ImplementsReplica` |
| Stale quarantine table | `transform_products.py:41` | `BlockedOnlyByThisRun` |
| Death between DROP and create | `silver_writer.py:12` | `GateSeesThisRun` |
| A missing edge of the DAG | `lakehouse_pipeline.py:186` | `GateSeesThisRun`, `GoldOfOneRun`, `QuarantinedForCause` |
| Some Gold jobs fail | `lakehouse_pipeline.py:211` | `GreenRunIsComplete` |
| Rounding, empty tables | `lakehouse_pipeline.py:106` | `GoldWithinThreshold` |
| Error text | `lakehouse_pipeline.py:60` | `GoldWithinThreshold` |
| A run that never ends | `lakehouse_pipeline.py:163` | `RunEnds` |
| The seeder dies between two systems | `seed_incremental.py:260` | `OrdersHaveCustomers`, `RatesCoverOrders` |
| Extracts interleave with a seed | `seed_incremental.py:244` | `NothingLeftBehind` |
| Load, seed, load, seed | `seed_incremental.py:36` | `ResetStartsClean` |
| Exchange-rate file read while written | `extract_fx_rates.py:32` | `MissingRowsArePast`, `NothingLeftBehind` |
| Arbitrary order of duplicates | `dedupe.py:22` | `KeysUnique` |
| Midnight between two evaluations | `transform_customers.py:40` | `EveryKeyOnce` |
| A check that is NULL | `dq.py:22` | `EveryKeyOnce` |
| Fan-out of the rate join | `transform_orders.py:41` | `KeysUnique` |
| Orders and lines converted in two jobs | `transform_order_items.py:45` | `LinesAddUp` |
| Orders without a customer in Silver | `customer_360.py:28` | `RevenueAgrees` |
| Items without an order or a product in Silver | `inventory_summary.py:25` | `UnitsAgree` |
| Shares rounded one by one, of a total that may be zero | `product_performance.py:45` | `SharesAddUp` |
| Products without a category | `product_performance.py:39` | modelled as dropped, though line 59 says one row per product |
| Table emptied during a run: maximum of no rows | `extract_customers.py:59` | `WatermarkIsAValue` |
| Table reloaded between two evaluations | `extract_customers.py:50` | `MissingRowsArePast`, `NothingLeftBehind` |
| Products without an id share a partition | `transform_products.py:26` | `EveryKeyOnce` speaks of keys only |
| Growth across a gap of months | `monthly_revenue.py:32` | modelled; nothing says what it should be |

## 7. Not modelled

* A line of `exchange_rates.csv` of which a reader finds a part, and a file
  rewritten with values of other lengths, so that the listed length ends in
  another line than it did: `Ingest` reads whole lines, the listed ones. The first
  could spoil a row of the last day listed, which may be read in part anyway;
  the second takes a reload that overtakes the extraction.
* A row lost in one of the known ways of `Ingest` is not followed further: what
  Silver does with an order whose customer never comes is in `gold_tables`.
* Extraction, Silver and Gold over one set of rows. `Ingest` ends at a Bronze
  that has every order with its customer and rates, `gold_tables` begins at any
  of 240 Bronze layers, and `Pipeline` has every order of tasks; what would
  connect them is that a row of Bronze is a row of the source.
* Updates of source rows in place. The extraction does not see them, as
  `incremental.py` says of itself, so rows are immutable here.
* Averages, first and last order dates and `days_since_last_order` of Gold.
* `products.csv` and its extraction: no watermark, all of Bronze `products`
  replaced in one commit. `Pipeline` has the task, and takes what it read as
  any outcome, that of a file cut short included.
* `spark_session.py`, Compose, HDFS, Hive, Trino and Superset: configuration of
  services whose guarantees (atomic Iceberg commits, Airflow's scheduling) the
  modules take as external.
* The upper limit of an attempt's duration and the delay between retries. A
  lost attempt is retried at some later time; nothing depends on when.
* Two seeders, or a seeder and a generator, at the same time: both are started
  by hand, one at a time.

Worth doing next: a module in which the rows `Ingest` leaves in Bronze are the
ones `Silver` starts from, so that what is proved of each half speaks of the
same rows.
