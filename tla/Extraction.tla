----------------------------- MODULE Extraction -----------------------------
(***************************************************************************)
(* Incremental Bronze extraction: the jobs of spark/jobs/bronze that copy  *)
(* a source table into lakehouse.bronze.<table> past a watermark kept in   *)
(* lakehouse.control.watermarks.                                           *)
(*                                                                         *)
(* A Spark DataFrame is a plan, not a result: df.count(), the append and   *)
(* df.agg(max) each run the JDBC query again, so the source is read three  *)
(* times by three actions below.  (extract_fx_rates lists its CSV file     *)
(* once, so that for it a commit meanwhile is one that comes after.)  The  *)
(* watermark upsert is an Iceberg MERGE, which rewrites the one data file  *)
(* of the control table: it scans a snapshot and commits only if that      *)
(* snapshot is still the current one.                                      *)
(*                                                                         *)
(* A row is a value with a watermark column, MarkOf.  Mark 0 stands for    *)
(* the absent watermark, which callers treat as "extract everything".      *)
(***************************************************************************)
EXTENDS Naturals, Sequences, FiniteSets

CONSTANTS Jobs,                \* the incremental Bronze jobs
          Tables,              \* the incremental source tables
          TablesOf,            \* the tables of a job, in extraction order
          Databases,           \* sets of tables written by one transaction
          Row,                 \* the rows a source may ever hold
          MarkOf,              \* the watermark column of a row
          Retries,             \* default_args["retries"]
          MaxCrashes,          \* bound: attempts lost to a crash
          SeedDuringRun,       \* may the sources change while a run is active
          CatalogCheckMayFail  \* may catalog.tableExists raise

ASSUME JobAssumption ==
    /\ TablesOf \in [Jobs -> Seq(Tables)]
    /\ \A j \in Jobs : TablesOf[j] # <<>>

ASSUME OwnerAssumption ==
    \A j, k \in Jobs : \A a \in DOMAIN TablesOf[j], b \in DOMAIN TablesOf[k] :
        TablesOf[j][a] = TablesOf[k][b] => j = k /\ a = b

ASSUME SourceAssumption ==
    /\ Databases \subseteq SUBSET Tables
    /\ MarkOf \in [Row -> Nat \ {0}]

ASSUME DatabaseAssumption ==
    \A d, e \in Databases : d # e => d \intersect e = {}

ASSUME BoundAssumption ==
    /\ Retries \in Nat
    /\ MaxCrashes \in Nat
    /\ SeedDuringRun \in BOOLEAN
    /\ CatalogCheckMayFail \in BOOLEAN

VARIABLES src,       \* the committed rows of each source table
          bronze,    \* each Bronze table, as the sequence of its ingested batches
          marks,     \* the content of the watermark table
          version,   \* the snapshots committed to the watermark table so far
          pc,        \* what each job does next
          at,        \* which of its tables a job is extracting
          attempt,   \* retries a job has used in this run
          low,       \* a job's local: the watermark it read
          high,      \* a job's local: the watermark it will store
          scan,      \* a job's local: the snapshot its MERGE has scanned
          crashes,   \* attempts lost to a crash so far
          late       \* history: rows committed between the append and the max read

jobVars == <<pc, at, attempt, low, high, scan>>
vars == <<src, bronze, marks, version, jobVars, crashes, late>>

Running  == {"get", "count", "append", "max", "scan", "commit"}
Finished == {"success", "failed"}

TypeOK ==
    /\ src \in [Tables -> SUBSET Row]
    /\ bronze \in [Tables -> Seq(SUBSET Row)]
    /\ marks \in [Tables -> Nat]
    /\ version \in Nat
    /\ pc \in [Jobs -> Running \union Finished]
    /\ at \in [Jobs -> Nat]
    /\ \A j \in Jobs : at[j] \in DOMAIN TablesOf[j]
    /\ attempt \in [Jobs -> 0..Retries]
    /\ low \in [Jobs -> Nat]
    /\ high \in [Jobs -> Nat]
    /\ scan \in [Jobs -> [version : Nat, marks : [Tables -> Nat]]]
    /\ crashes \in 0..MaxCrashes
    /\ late \in [Tables -> SUBSET Row]

(* Mutants: definitions named Mut... state a plausible bug in the definition  *)
(* that follows them; nothing else refers to them.                            *)
Table(j) == TablesOf[j][at[j]]

MutPast(t, w) == {r \in src[t] : MarkOf[r] >= w}   \* ">=" for ">" in the query
Past(t, w)    == {r \in src[t] : MarkOf[r] > w}
BronzeRows(t) == UNION {bronze[t][i] : i \in DOMAIN bronze[t]}
Idle          == \A j \in Jobs : pc[j] \in Finished
NoScan        == [version |-> 0, marks |-> [t \in Tables |-> 0]]

Init ==
    /\ src = [t \in Tables |-> {}]
    /\ bronze = [t \in Tables |-> <<>>]
    /\ marks = [t \in Tables |-> 0]
    /\ version = 0
    /\ pc = [j \in Jobs |-> "success"]
    /\ at = [j \in Jobs |-> 1]
    /\ attempt = [j \in Jobs |-> 0]
    /\ low = [j \in Jobs |-> 0]
    /\ high = [j \in Jobs |-> 0]
    /\ scan = [j \in Jobs |-> NoScan]
    /\ crashes = 0
    /\ late = [t \in Tables |-> {}]

-----------------------------------------------------------------------------
(* The sources.  A transaction (or one append to the CSV) adds a batch      *)
(* whose watermark column is past everything committed before, to every     *)
(* table it writes: the order_items of an order commit with the order.      *)

InWindow(t) == \E j \in Jobs : pc[j] = "max" /\ Table(j) = t

SourceCommit(d) ==
    /\ SeedDuringRun \/ Idle
    /\ \E batch \in (SUBSET Row) \ {{}} :
          /\ \A t \in d : \A r \in batch, q \in src[t] : MarkOf[r] > MarkOf[q]
          /\ src' = [t \in Tables |-> IF t \in d THEN src[t] \union batch ELSE src[t]]
          /\ late' = [t \in Tables |-> IF t \in d /\ InWindow(t)
                                         THEN late[t] \union batch ELSE late[t]]
    /\ UNCHANGED <<bronze, marks, version, jobVars, crashes>>

-----------------------------------------------------------------------------
(* Airflow: a run starts every Bronze task once; max_active_runs = 1.  A    *)
(* failed attempt runs main() again from its first table while retries last.*)

StartRun ==
    /\ Idle
    /\ pc' = [j \in Jobs |-> "get"]
    /\ at' = [j \in Jobs |-> 1]
    /\ attempt' = [j \in Jobs |-> 0]
    /\ UNCHANGED <<src, bronze, marks, version, low, high, scan, crashes, late>>

(* The locals of extract_table are gone when it returns or its process dies. *)
Forget(j) ==
    /\ low' = [low EXCEPT ![j] = 0]
    /\ high' = [high EXCEPT ![j] = 0]
    /\ scan' = [scan EXCEPT ![j] = NoScan]

MutAttemptFails(j) ==           \* the exception is caught table by table
    /\ Forget(j)
    /\ \/ /\ at[j] < Len(TablesOf[j])
          /\ at' = [at EXCEPT ![j] = @ + 1]
          /\ pc' = [pc EXCEPT ![j] = "get"]
       \/ /\ at[j] = Len(TablesOf[j])
          /\ pc' = [pc EXCEPT ![j] = "failed"]
          /\ UNCHANGED at
    /\ UNCHANGED attempt

MutRetryBound(j) ==             \* one retry too many
    /\ Forget(j)
    /\ attempt[j] <= Retries
    /\ attempt' = [attempt EXCEPT ![j] = @ + 1]
    /\ at' = [at EXCEPT ![j] = 1]
    /\ pc' = [pc EXCEPT ![j] = "get"]

AttemptFails(j) ==
    /\ Forget(j)
    /\ \/ /\ attempt[j] < Retries
          /\ attempt' = [attempt EXCEPT ![j] = @ + 1]
          /\ at' = [at EXCEPT ![j] = 1]
          /\ pc' = [pc EXCEPT ![j] = "get"]
       \/ /\ attempt[j] = Retries
          /\ pc' = [pc EXCEPT ![j] = "failed"]
          /\ UNCHANGED <<attempt, at>>

Crash(j) ==
    /\ pc[j] \in Running
    /\ crashes < MaxCrashes
    /\ crashes' = crashes + 1
    /\ AttemptFails(j)
    /\ UNCHANGED <<src, bronze, marks, version, late>>

-----------------------------------------------------------------------------
(* One table's extraction. *)

MutTableDone(j) ==              \* the loop over TABLES does not advance
    /\ Forget(j)
    /\ pc' = [pc EXCEPT ![j] = IF at[j] < Len(TablesOf[j]) THEN "get" ELSE "success"]
    /\ UNCHANGED at

TableDone(j) ==
    /\ Forget(j)
    /\ \/ /\ at[j] < Len(TablesOf[j])
          /\ at' = [at EXCEPT ![j] = @ + 1]
          /\ pc' = [pc EXCEPT ![j] = "get"]
       \/ /\ at[j] = Len(TablesOf[j])
          /\ pc' = [pc EXCEPT ![j] = "success"]
          /\ UNCHANGED at

GetWatermark(j) ==
    /\ pc[j] = "get"
    /\ low' = [low EXCEPT ![j] = marks[Table(j)]]
    /\ pc' = [pc EXCEPT ![j] = "count"]
    /\ UNCHANGED <<src, bronze, marks, version, at, attempt, high, scan, crashes, late>>

MutCountRows(j) ==              \* the watermark is stored before the append
    /\ pc[j] = "count"
    /\ \/ Past(Table(j), low[j]) = {} /\ TableDone(j)
       \/ /\ Past(Table(j), low[j]) # {}
          /\ pc' = [pc EXCEPT ![j] = "max"]
          /\ UNCHANGED <<at, low, high, scan>>
    /\ UNCHANGED <<src, bronze, marks, version, attempt, crashes, late>>

CountRows(j) ==
    /\ pc[j] = "count"
    /\ \/ /\ Past(Table(j), low[j]) = {}
          /\ TableDone(j)
       \/ /\ Past(Table(j), low[j]) # {}
          /\ pc' = [pc EXCEPT ![j] = "append"]
          /\ UNCHANGED <<at, low, high, scan>>
    /\ UNCHANGED <<src, bronze, marks, version, attempt, crashes, late>>

(* append_bronze_table: a Bronze table exists once it holds a batch; a check *)
(* that raises is taken for "does not exist".                                *)
ExistsCheck(t) ==
    {bronze[t] # <<>>} \union (IF CatalogCheckMayFail THEN {FALSE} ELSE {})

MutAppendRows(j) ==             \* createOrReplace on every run
    /\ pc[j] = "append"
    /\ bronze' = [bronze EXCEPT ![Table(j)] = <<Past(Table(j), low[j])>>]
    /\ pc' = [pc EXCEPT ![j] = "max"]
    /\ UNCHANGED <<src, marks, version, at, attempt, low, high, scan, crashes, late>>

AppendRows(j) ==
    /\ pc[j] = "append"
    /\ \E exists \in ExistsCheck(Table(j)) :
          LET batch == Past(Table(j), low[j]) IN
          bronze' = [bronze EXCEPT ![Table(j)] =
                        IF exists THEN Append(@, batch) ELSE <<batch>>]
    /\ pc' = [pc EXCEPT ![j] = "max"]
    /\ UNCHANGED <<src, marks, version, at, attempt, low, high, scan, crashes, late>>

MutReadMax(j) ==                \* the first row's value instead of the maximum
    /\ pc[j] = "max"
    /\ \E r \in Past(Table(j), low[j]) : high' = [high EXCEPT ![j] = MarkOf[r]]
    /\ pc' = [pc EXCEPT ![j] = "scan"]
    /\ UNCHANGED <<src, bronze, marks, version, at, attempt, low, scan, crashes, late>>

ReadMax(j) ==
    /\ pc[j] = "max"
    /\ \E r \in Past(Table(j), low[j]) :
          /\ \A q \in Past(Table(j), low[j]) : MarkOf[q] <= MarkOf[r]
          /\ high' = [high EXCEPT ![j] = MarkOf[r]]
    /\ pc' = [pc EXCEPT ![j] = "scan"]
    /\ UNCHANGED <<src, bronze, marks, version, at, attempt, low, scan, crashes, late>>

ScanWatermarks(j) ==
    /\ pc[j] = "scan"
    /\ scan' = [scan EXCEPT ![j] = [version |-> version, marks |-> marks]]
    /\ pc' = [pc EXCEPT ![j] = "commit"]
    /\ UNCHANGED <<src, bronze, marks, version, at, attempt, low, high, crashes, late>>

MutSnapshotCurrent(j) == TRUE   \* commit without validating the snapshot
SnapshotCurrent(j) == scan[j].version = version

MergeWatermark(j) ==
    /\ pc[j] = "commit"
    /\ SnapshotCurrent(j)
    /\ marks' = [scan[j].marks EXCEPT ![Table(j)] = high[j]]
    /\ version' = version + 1
    /\ TableDone(j)
    /\ UNCHANGED <<src, bronze, attempt, crashes, late>>

MergeConflict(j) ==
    /\ pc[j] = "commit"
    /\ ~SnapshotCurrent(j)
    /\ AttemptFails(j)
    /\ UNCHANGED <<src, bronze, marks, version, crashes, late>>

JobStep(j) ==
    \/ GetWatermark(j)
    \/ CountRows(j)
    \/ AppendRows(j)
    \/ ReadMax(j)
    \/ ScanWatermarks(j)
    \/ MergeWatermark(j)
    \/ MergeConflict(j)

Next ==
    \/ StartRun
    \/ \E d \in Databases : SourceCommit(d)
    \/ \E j \in Jobs : JobStep(j) \/ Crash(j)

Spec == Init /\ [][Next]_vars

(* The schedule is @daily and a submitted Spark application makes progress; *)
(* nothing obliges a source to change or an attempt to crash.               *)
Fairness ==
    /\ WF_vars(StartRun)
    /\ \A j \in Jobs : WF_vars(JobStep(j))

LiveSpec == Spec /\ Fairness

-----------------------------------------------------------------------------
(* Safety. *)

Covered(t) == {r \in src[t] : MarkOf[r] <= marks[t]}
Safe(t)    == BronzeRows(t) \union late[t]

(* A row at or below its table's stored watermark will never be read again. *)
(* Whatever crashes, retries and concurrent MERGEs happen, such a row is in *)
(* Bronze, unless it was committed between the append and the re-evaluated  *)
(* max (extract_orders.extract_table and its two siblings).                 *)
LostOnlyInWindow ==
    \A t \in Tables : Covered(t) \subseteq Safe(t)

(* What the extraction is for: the watermark never passes a row that Bronze *)
(* does not hold.  It holds when the sources rest while a run is active.    *)
NoLoss == \A t \in Tables : Covered(t) \subseteq BronzeRows(t)

(* Two tables written by the same transactions and extracted by one job     *)
(* (orders before order_items) never show a child in Bronze whose parent is *)
(* missing, in whatever state the job's attempts leave them.                *)
ParentsFirst ==
    \A j \in Jobs : \A a, b \in DOMAIN TablesOf[j] :
        a < b /\ (\E d \in Databases : {TablesOf[j][a], TablesOf[j][b]} \subseteq d)
            => BronzeRows(TablesOf[j][b]) \subseteq BronzeRows(TablesOf[j][a])

(* No step lowers any table's watermark: not a retry, and not a concurrent  *)
(* MERGE that rewrites the shared control table from the snapshot it read.  *)
WatermarkNeverRegresses ==
    [][\A t \in Tables : marks'[t] >= marks[t]]_vars

(* A batch holds no row that a stored watermark already covers, so a row is *)
(* ingested twice only when an attempt died between append and set_watermark.*)
OnlyUncommittedRowsAppended ==
    [][\A t \in Tables : bronze'[t] # bronze[t] =>
          \A r \in bronze'[t][Len(bronze'[t])] : MarkOf[r] > marks[t]]_vars

(* The extraction implements the abstract copy: rows that are in Bronze and *)
(* covered by the watermark are the delivered ones, and each move of a      *)
(* watermark delivers everything its source holds.                          *)
Delivered == [t \in Tables |-> {r \in BronzeRows(t) : MarkOf[r] <= marks[t]}]
Copied == INSTANCE Replica WITH copied <- Delivered
ImplementsReplica == Copied!Spec

(* Every run ends: each of its jobs succeeds or fails for good.             *)
RunsEnd == \A j \in Jobs : pc[j] \in Running ~> Idle

-----------------------------------------------------------------------------
(* Why the invariants hold: the facts about jobs in flight that each step    *)
(* maintains, and from which the properties above follow.                    *)

ScanIsSnapshot(j) ==
    pc[j] = "commit" =>
        /\ scan[j].version <= version
        /\ SnapshotCurrent(j) => scan[j].marks = marks

LowIsStored(j) == pc[j] \in Running \ {"get"} => low[j] = marks[Table(j)]

HighIsRead(j) ==
    pc[j] \in {"scan", "commit"} =>
        /\ high[j] > low[j]
        /\ \E r \in src[Table(j)] : MarkOf[r] = high[j]

JobControl(j) == ScanIsSnapshot(j) /\ LowIsStored(j) /\ HighIsRead(j)

MarksAreRead == \A t \in Tables : marks[t] # 0 => \E r \in src[t] : MarkOf[r] = marks[t]

BatchArrived(j) ==
    /\ pc[j] = "max" => Past(Table(j), low[j]) \subseteq Safe(Table(j))
    /\ pc[j] \in {"scan", "commit"} =>
          {r \in src[Table(j)] : MarkOf[r] <= high[j]} \subseteq Safe(Table(j))

WindowClosed == ~SeedDuringRun => \A t \in Tables : late[t] = {}

(* Holds whatever the catalog answers. *)
ControlInv == TypeOK /\ (\A j \in Jobs : JobControl(j)) /\ MarksAreRead

(* Holds as long as tableExists tells the truth. *)
IInv == ControlInv /\ (\A j \in Jobs : BatchArrived(j)) /\ LostOnlyInWindow /\ WindowClosed
=============================================================================
