-------------------------- MODULE ExtractionProofs --------------------------
(***************************************************************************)
(* Extraction for every set of jobs, tables and rows, any number of        *)
(* retries and any number of crashes: type correctness, the watermark      *)
(* table under concurrent MERGEs, and where a row can be lost.             *)
(***************************************************************************)
EXTENDS Extraction, TLAPS

(* The table a job is extracting is one of the tables. *)
LEMMA TableType ==
    ASSUME TypeOK, NEW j \in Jobs
    PROVE  Table(j) \in Tables
<1>1. TablesOf[j] \in Seq(Tables) /\ at[j] \in DOMAIN TablesOf[j]
  BY JobAssumption DEF TypeOK
<1>2. QED
  BY <1>1 DEF Table

(* Every job has a first table. *)
LEMMA FirstTable ==
    ASSUME NEW j \in Jobs
    PROVE  1 \in DOMAIN TablesOf[j]
<1>1. TablesOf[j] \in Seq(Tables) /\ TablesOf[j] # <<>>
  BY JobAssumption
<1>2. QED
  BY <1>1

LEMMA PastType == ASSUME TypeOK, NEW t \in Tables, NEW w PROVE Past(t, w) \in SUBSET Row
  BY DEF Past, TypeOK

(* Losing the locals, failing an attempt and finishing a table keep the job *)
(* state well-typed.                                                        *)
LEMMA ForgetType ==
    ASSUME TypeOK, NEW j \in Jobs, Forget(j)
    PROVE  /\ low' \in [Jobs -> Nat]
           /\ high' \in [Jobs -> Nat]
           /\ scan' \in [Jobs -> [version : Nat, marks : [Tables -> Nat]]]
<1>1. NoScan \in [version : Nat, marks : [Tables -> Nat]]
  BY DEF NoScan
<1>2. QED
  BY <1>1 DEF Forget, TypeOK

JobType ==
    /\ pc \in [Jobs -> Running \union Finished]
    /\ at \in [Jobs -> Nat]
    /\ \A j \in Jobs : at[j] \in DOMAIN TablesOf[j]
    /\ attempt \in [Jobs -> 0..Retries]
    /\ low \in [Jobs -> Nat]
    /\ high \in [Jobs -> Nat]
    /\ scan \in [Jobs -> [version : Nat, marks : [Tables -> Nat]]]

LEMMA AttemptFailsType ==
    ASSUME TypeOK, NEW j \in Jobs, AttemptFails(j)
    PROVE  JobType'
<1>1. 1 \in DOMAIN TablesOf[j]
  BY FirstTable
<1>2. /\ low' \in [Jobs -> Nat]
      /\ high' \in [Jobs -> Nat]
      /\ scan' \in [Jobs -> [version : Nat, marks : [Tables -> Nat]]]
  BY ForgetType DEF AttemptFails
<1>3. CASE attempt[j] < Retries /\ attempt' = [attempt EXCEPT ![j] = @ + 1]
           /\ at' = [at EXCEPT ![j] = 1] /\ pc' = [pc EXCEPT ![j] = "get"]
  <2>1. attempt' \in [Jobs -> 0..Retries]
    BY <1>3, BoundAssumption DEF TypeOK
  <2>2. at' \in [Jobs -> Nat] /\ \A k \in Jobs : at'[k] \in DOMAIN TablesOf[k]
    BY <1>1, <1>3 DEF TypeOK
  <2>3. pc' \in [Jobs -> Running \union Finished]
    BY <1>3 DEF TypeOK, Running
  <2>4. QED
    BY <1>2, <2>1, <2>2, <2>3 DEF JobType
<1>4. CASE pc' = [pc EXCEPT ![j] = "failed"] /\ UNCHANGED <<attempt, at>>
  BY <1>2, <1>4 DEF JobType, TypeOK, Finished
<1>5. QED
  BY <1>3, <1>4 DEF AttemptFails

LEMMA TableDoneType ==
    ASSUME TypeOK, NEW j \in Jobs, TableDone(j), UNCHANGED attempt
    PROVE  JobType'
<1>1. /\ low' \in [Jobs -> Nat]
      /\ high' \in [Jobs -> Nat]
      /\ scan' \in [Jobs -> [version : Nat, marks : [Tables -> Nat]]]
  BY ForgetType DEF TableDone
<1>2. TablesOf[j] \in Seq(Tables)
  BY JobAssumption
<1>3. CASE at[j] < Len(TablesOf[j]) /\ at' = [at EXCEPT ![j] = @ + 1]
           /\ pc' = [pc EXCEPT ![j] = "get"]
  <2>1. at[j] + 1 \in DOMAIN TablesOf[j]
    BY <1>2, <1>3 DEF TypeOK
  <2>2. at \in [Jobs -> Nat] /\ \A k \in Jobs : at[k] \in DOMAIN TablesOf[k]
    BY DEF TypeOK
  <2>3. pc' \in [Jobs -> Running \union Finished]
    BY <1>3 DEF TypeOK, Running
  <2>4. attempt' \in [Jobs -> 0..Retries]
    BY DEF TypeOK
  <2>5. at' \in [Jobs -> Nat]
    BY <1>3, <2>2
  <2>6. ASSUME NEW k \in Jobs
        PROVE  at'[k] \in DOMAIN TablesOf[k]
    <3>1. CASE k = j
      BY <1>3, <2>1, <2>2, <3>1
    <3>2. CASE k # j
      BY <1>3, <2>2, <3>2
    <3>3. QED
      BY <3>1, <3>2
  <2>7. QED
    BY <1>1, <2>3, <2>4, <2>5, <2>6 DEF JobType
<1>4. CASE pc' = [pc EXCEPT ![j] = "success"] /\ UNCHANGED at
  BY <1>1, <1>4 DEF JobType, TypeOK, Finished
<1>5. QED
  BY <1>3, <1>4 DEF TableDone

(* Every step of the system keeps the state well-typed. *)
LEMMA TypeStep ==
    ASSUME TypeOK, [Next]_vars
    PROVE  TypeOK'
<1>1. CASE StartRun
  <2>1. \A j \in Jobs : 1 \in DOMAIN TablesOf[j]
    BY FirstTable
  <2>2. QED
    BY <1>1, <2>1, BoundAssumption DEF StartRun, TypeOK, Running
<1>2. ASSUME NEW d \in Databases, SourceCommit(d)
      PROVE  TypeOK'
  BY <1>2 DEF SourceCommit, TypeOK, jobVars
<1>3. ASSUME NEW j \in Jobs, Crash(j)
      PROVE  TypeOK'
  <2>1. JobType'
    BY <1>3, AttemptFailsType DEF Crash
  <2>2. crashes' \in 0..MaxCrashes
    BY <1>3, BoundAssumption DEF Crash, TypeOK
  <2>3. QED
    BY <1>3, <2>1, <2>2 DEF Crash, TypeOK, JobType
<1>4. ASSUME NEW j \in Jobs, GetWatermark(j)
      PROVE  TypeOK'
  BY <1>4, TableType DEF GetWatermark, TypeOK, Running
<1>5. ASSUME NEW j \in Jobs, CountRows(j)
      PROVE  TypeOK'
  <2>1. CASE TableDone(j)
    BY <1>5, <2>1, TableDoneType DEF CountRows, TypeOK, JobType
  <2>2. CASE pc' = [pc EXCEPT ![j] = "append"] /\ UNCHANGED <<at, low, high, scan>>
    BY <1>5, <2>2 DEF CountRows, TypeOK, Running
  <2>3. QED
    BY <1>5, <2>1, <2>2 DEF CountRows
<1>6. ASSUME NEW j \in Jobs, AppendRows(j)
      PROVE  TypeOK'
  <2>1. Table(j) \in Tables /\ Past(Table(j), low[j]) \in SUBSET Row
    BY TableType, PastType
  <2>2. bronze' \in [Tables -> Seq(SUBSET Row)]
    <3> DEFINE batch == Past(Table(j), low[j])
    <3>1. batch \in SUBSET Row /\ bronze[Table(j)] \in Seq(SUBSET Row)
      BY <2>1 DEF TypeOK
    <3>2. Append(bronze[Table(j)], batch) \in Seq(SUBSET Row) /\ <<batch>> \in Seq(SUBSET Row)
      <4> HIDE DEF batch
      <4> QED BY <3>1
    <3>3. PICK s \in Seq(SUBSET Row) : bronze' = [bronze EXCEPT ![Table(j)] = s]
      BY <1>6, <3>2 DEF AppendRows
    <3>4. QED
      BY <3>3 DEF TypeOK
  <2>3. QED
    BY <1>6, <2>2 DEF AppendRows, TypeOK, Running
<1>7. ASSUME NEW j \in Jobs, ReadMax(j)
      PROVE  TypeOK'
  <2>1. \A r \in Past(Table(j), low[j]) : MarkOf[r] \in Nat
    BY TableType, PastType, SourceAssumption
  <2>2. QED
    BY <1>7, <2>1 DEF ReadMax, TypeOK, Running
<1>8. ASSUME NEW j \in Jobs, ScanWatermarks(j)
      PROVE  TypeOK'
  <2>1. [version |-> version, marks |-> marks] \in [version : Nat, marks : [Tables -> Nat]]
    BY DEF TypeOK
  <2>2. QED
    BY <1>8, <2>1 DEF ScanWatermarks, TypeOK, Running
<1>9. ASSUME NEW j \in Jobs, MergeWatermark(j)
      PROVE  TypeOK'
  <2>1. JobType'
    BY <1>9, TableDoneType DEF MergeWatermark
  <2>2. marks' \in [Tables -> Nat]
    BY <1>9, TableType DEF MergeWatermark, TypeOK
  <2>3. version' \in Nat
    BY <1>9 DEF MergeWatermark, TypeOK
  <2>4. UNCHANGED <<src, bronze, crashes, late>>
    BY <1>9 DEF MergeWatermark
  <2>5. QED
    BY <2>1, <2>2, <2>3, <2>4 DEF TypeOK, JobType
<1>10. ASSUME NEW j \in Jobs, MergeConflict(j)
       PROVE  TypeOK'
  BY <1>10, AttemptFailsType DEF MergeConflict, TypeOK, JobType
<1>11. CASE UNCHANGED vars
  BY <1>11 DEF vars, jobVars, TypeOK
<1>12. QED
  BY <1>1, <1>2, <1>3, <1>4, <1>5, <1>6, <1>7, <1>8, <1>9, <1>10, <1>11
     DEF Next, JobStep

(* The initial state is well-typed. *)
LEMMA TypeInit == Init => TypeOK
<1>1. \A j \in Jobs : 1 \in DOMAIN TablesOf[j]
  BY FirstTable
<1>2. QED
  BY <1>1, BoundAssumption DEF Init, TypeOK, NoScan, Finished

(* Type correctness of the extraction. *)
THEOREM TypeCorrect == Spec => []TypeOK
<1>1. TypeOK /\ [Next]_vars => TypeOK'
  BY TypeStep
<1>2. QED
  BY TypeInit, <1>1, PTL DEF Spec

-----------------------------------------------------------------------------
(* The watermark table under concurrent MERGEs. *)

(* A step of job j leaves every other job where it was. *)
OnlyJob(j) ==
    \A k \in Jobs \ {j} :
        /\ pc'[k] = pc[k] /\ at'[k] = at[k]
        /\ low'[k] = low[k] /\ high'[k] = high[k] /\ scan'[k] = scan[k]

(* A job that finishes a table or fails an attempt holds no watermark. *)
LEMMA Leaving ==
    ASSUME TypeOK, NEW j \in Jobs, TableDone(j) \/ AttemptFails(j)
    PROVE  OnlyJob(j) /\ pc'[j] \in {"get", "success", "failed"}
<1>1. CASE TableDone(j)
  BY <1>1 DEF TableDone, Forget, OnlyJob, TypeOK
<1>2. CASE AttemptFails(j)
  BY <1>2 DEF AttemptFails, Forget, OnlyJob, TypeOK
<1>3. QED
  BY <1>1, <1>2

(* No two jobs extract the same table. *)
LEMMA Owner ==
    ASSUME TypeOK, NEW j \in Jobs, NEW k \in Jobs, j # k
    PROVE  Table(j) # Table(k)
<1>1. at[j] \in DOMAIN TablesOf[j] /\ at[k] \in DOMAIN TablesOf[k]
  BY DEF TypeOK
<1>2. QED
  BY <1>1, OwnerAssumption DEF Table

(* What is known of a job survives a step of another job that does not      *)
(* touch the source or the watermark table.                                 *)
LEMMA Bystander ==
    ASSUME NEW j \in Jobs, NEW k \in Jobs \ {j}, JobControl(k), OnlyJob(j),
           UNCHANGED <<src, marks, version>>
    PROVE  JobControl(k)'
<1>1. Table(k)' = Table(k)
  BY DEF OnlyJob, Table
<1>2. QED
  BY <1>1 DEF OnlyJob, JobControl, ScanIsSnapshot, LowIsStored, HighIsRead, SnapshotCurrent

(* A job outside the extraction of a table has nothing to maintain. *)
LEMMA Outside ==
    ASSUME NEW j \in Jobs, pc'[j] \in {"get", "success", "failed"}
    PROVE  JobControl(j)'
BY DEF JobControl, ScanIsSnapshot, LowIsStored, HighIsRead, Running

(* A step of a job that leaves the source and the watermark table alone. *)
LEMMA LocalStep ==
    ASSUME ControlInv, NEW j \in Jobs, OnlyJob(j), JobControl(j)',
           UNCHANGED <<src, marks, version>>
    PROVE  (\A k \in Jobs : JobControl(k)') /\ MarksAreRead'
<1>1. \A k \in Jobs : JobControl(k)'
  BY Bystander DEF ControlInv
<1>2. QED
  BY <1>1 DEF ControlInv, MarksAreRead

(* The MERGE commits: the snapshot it scanned is the current one, so only    *)
(* the entry of its own table changes.                                       *)
LEMMA MergeEffect ==
    ASSUME ControlInv, NEW j \in Jobs, MergeWatermark(j)
    PROVE  /\ marks' = [marks EXCEPT ![Table(j)] = high[j]]
           /\ high[j] > marks[Table(j)]
           /\ \E r \in src[Table(j)] : MarkOf[r] = high[j]
BY DEF MergeWatermark, ControlInv, JobControl, ScanIsSnapshot, LowIsStored, HighIsRead, Running

LEMMA MergeStep ==
    ASSUME ControlInv, NEW j \in Jobs, MergeWatermark(j)
    PROVE  (\A k \in Jobs : JobControl(k)') /\ MarksAreRead'
<1>1. TypeOK /\ Table(j) \in Tables
  BY TableType DEF ControlInv
<1>2. OnlyJob(j) /\ pc'[j] \in {"get", "success", "failed"}
  BY <1>1, Leaving DEF MergeWatermark
<1>3. version' = version + 1 /\ src' = src
  BY DEF MergeWatermark
<1>4. ASSUME NEW k \in Jobs \ {j}
      PROVE  JobControl(k)'
  <2>1. Table(k) # Table(j) /\ Table(k)' = Table(k) /\ Table(k) \in Tables
    BY <1>1, <1>2, Owner, TableType DEF OnlyJob, Table
  <2>2. marks'[Table(k)] = marks[Table(k)]
    BY <1>1, <2>1, MergeEffect DEF TypeOK
  <2>3. ScanIsSnapshot(k)'
    <3>1. scan[k].version \in Nat /\ version \in Nat
      BY <1>1 DEF TypeOK
    <3>2. pc[k] = "commit" => scan[k].version <= version
      BY DEF ControlInv, JobControl, ScanIsSnapshot
    <3>3. QED
      BY <1>2, <1>3, <3>1, <3>2 DEF ScanIsSnapshot, SnapshotCurrent, OnlyJob
  <2>4. LowIsStored(k)' /\ HighIsRead(k)'
    BY <1>2, <1>3, <2>1, <2>2 DEF ControlInv, JobControl, LowIsStored, HighIsRead, OnlyJob
  <2>5. QED
    BY <2>3, <2>4 DEF JobControl
<1>5. MarksAreRead'
  BY <1>1, <1>3, MergeEffect DEF ControlInv, MarksAreRead, TypeOK
<1>6. QED
  BY <1>2, <1>4, <1>5, Outside

(* Every step maintains what is known of the jobs and the watermark table. *)
LEMMA ControlStep ==
    ASSUME ControlInv, [Next]_vars
    PROVE  ControlInv'
<1>0. TypeOK /\ TypeOK'
  BY TypeStep DEF ControlInv
<1> SUFFICES (\A k \in Jobs : JobControl(k)') /\ MarksAreRead'
  BY <1>0 DEF ControlInv
<1>1. CASE StartRun
  BY <1>0, <1>1, Outside DEF StartRun, ControlInv, MarksAreRead, TypeOK
<1>2. ASSUME NEW d \in Databases, SourceCommit(d)
      PROVE  (\A k \in Jobs : JobControl(k)') /\ MarksAreRead'
  <2>1. UNCHANGED <<marks, version, pc, at, low, high, scan>> /\ \A t \in Tables : src[t] \subseteq src'[t]
    BY <1>0, <1>2 DEF SourceCommit, jobVars, TypeOK
  <2>2. ASSUME NEW k \in Jobs
        PROVE  JobControl(k)'
    <3>1. Table(k)' = Table(k) /\ Table(k) \in Tables
      BY <1>0, <2>1, TableType DEF Table
    <3>2. QED
      BY <2>1, <3>1 DEF ControlInv, JobControl, ScanIsSnapshot, LowIsStored, HighIsRead, SnapshotCurrent
  <2>3. MarksAreRead'
    BY <2>1 DEF ControlInv, MarksAreRead
  <2>4. QED
    BY <2>2, <2>3
<1>3. ASSUME NEW j \in Jobs, Crash(j) \/ MergeConflict(j)
      PROVE  (\A k \in Jobs : JobControl(k)') /\ MarksAreRead'
  <2>1. AttemptFails(j) /\ UNCHANGED <<src, marks, version>>
    BY <1>3 DEF Crash, MergeConflict
  <2>2. QED
    BY <1>0, <2>1, Leaving, Outside, LocalStep
<1>4. ASSUME NEW j \in Jobs, GetWatermark(j)
      PROVE  (\A k \in Jobs : JobControl(k)') /\ MarksAreRead'
  <2>1. OnlyJob(j) /\ UNCHANGED <<src, marks, version>>
    BY <1>0, <1>4 DEF GetWatermark, OnlyJob, TypeOK
  <2>2. JobControl(j)'
    BY <1>0, <1>4 DEF GetWatermark, JobControl, ScanIsSnapshot, LowIsStored, HighIsRead, Table, TypeOK
  <2>3. QED
    BY <2>1, <2>2, LocalStep
<1>5. ASSUME NEW j \in Jobs, CountRows(j)
      PROVE  (\A k \in Jobs : JobControl(k)') /\ MarksAreRead'
  <2>1. CASE TableDone(j)
    BY <1>0, <1>5, <2>1, Leaving, Outside, LocalStep DEF CountRows
  <2>2. CASE pc' = [pc EXCEPT ![j] = "append"] /\ UNCHANGED <<at, low, high, scan>>
    <3>1. OnlyJob(j) /\ UNCHANGED <<src, marks, version>>
      BY <1>0, <1>5, <2>2 DEF CountRows, OnlyJob, TypeOK
    <3>2. JobControl(j)'
      BY <1>0, <1>5, <2>2
         DEF CountRows, ControlInv, JobControl, ScanIsSnapshot, LowIsStored, HighIsRead, Table, TypeOK, Running
    <3>3. QED
      BY <3>1, <3>2, LocalStep
  <2>3. QED
    BY <1>5, <2>1, <2>2 DEF CountRows
<1>6. ASSUME NEW j \in Jobs, AppendRows(j)
      PROVE  (\A k \in Jobs : JobControl(k)') /\ MarksAreRead'
  <2>1. OnlyJob(j) /\ UNCHANGED <<src, marks, version>>
    BY <1>0, <1>6 DEF AppendRows, OnlyJob, TypeOK
  <2>2. JobControl(j)'
    BY <1>0, <1>6
       DEF AppendRows, ControlInv, JobControl, ScanIsSnapshot, LowIsStored, HighIsRead, Table, TypeOK, Running
  <2>3. QED
    BY <2>1, <2>2, LocalStep
<1>7. ASSUME NEW j \in Jobs, ReadMax(j)
      PROVE  (\A k \in Jobs : JobControl(k)') /\ MarksAreRead'
  <2>1. OnlyJob(j) /\ UNCHANGED <<src, marks, version, at, low>> /\ pc'[j] = "scan"
    BY <1>0, <1>7 DEF ReadMax, OnlyJob, TypeOK
  <2>2. PICK r \in src[Table(j)] : MarkOf[r] > low[j] /\ high'[j] = MarkOf[r]
    BY <1>0, <1>7 DEF ReadMax, Past, TypeOK
  <2>3. low[j] = marks[Table(j)]
    BY <1>7 DEF ReadMax, ControlInv, JobControl, LowIsStored, Running
  <2>4. JobControl(j)'
    BY <2>1, <2>2, <2>3 DEF JobControl, ScanIsSnapshot, LowIsStored, HighIsRead, Table
  <2>5. QED
    BY <2>1, <2>4, LocalStep
<1>8. ASSUME NEW j \in Jobs, ScanWatermarks(j)
      PROVE  (\A k \in Jobs : JobControl(k)') /\ MarksAreRead'
  <2>1. OnlyJob(j) /\ UNCHANGED <<src, marks, version>>
    BY <1>0, <1>8 DEF ScanWatermarks, OnlyJob, TypeOK
  <2>2. JobControl(j)'
    BY <1>0, <1>8
       DEF ScanWatermarks, ControlInv, JobControl, ScanIsSnapshot, LowIsStored, HighIsRead,
           SnapshotCurrent, Table, TypeOK, Running
  <2>3. QED
    BY <2>1, <2>2, LocalStep
<1>9. ASSUME NEW j \in Jobs, MergeWatermark(j)
      PROVE  (\A k \in Jobs : JobControl(k)') /\ MarksAreRead'
  BY <1>9, MergeStep
<1>10. CASE UNCHANGED vars
  BY <1>10 DEF vars, jobVars, ControlInv, JobControl, ScanIsSnapshot, LowIsStored, HighIsRead,
               SnapshotCurrent, MarksAreRead, Table
<1>11. QED
  BY <1>1, <1>2, <1>3, <1>4, <1>5, <1>6, <1>7, <1>8, <1>9, <1>10 DEF Next, JobStep

(* At the start no job is in flight and no watermark is stored. *)
LEMMA ControlInit == Init => ControlInv
<1>1. Init => TypeOK
  BY TypeInit
<1>2. QED
  BY <1>1 DEF Init, ControlInv, JobControl, ScanIsSnapshot, LowIsStored, HighIsRead,
              MarksAreRead, Running

(* Whatever the catalog answers and whenever the sources change, a job in    *)
(* flight holds the stored watermark of its table, and a MERGE that can      *)
(* commit holds the current watermark table.                                 *)
THEOREM ControlInvariant == Spec => []ControlInv
<1>1. ControlInv /\ [Next]_vars => ControlInv'
  BY ControlStep
<1>2. QED
  BY ControlInit, <1>1, PTL DEF Spec

(* Only a committed MERGE moves a watermark. *)
LEMMA MarksMove ==
    ASSUME [Next]_vars, marks' # marks
    PROVE  \E j \in Jobs : MergeWatermark(j)
BY DEF Next, JobStep, vars, jobVars, StartRun, SourceCommit, Crash, GetWatermark, CountRows,
       AppendRows, ReadMax, ScanWatermarks, MergeConflict

(* No step lowers a watermark: the retried and the concurrent MERGEs of any  *)
(* number of jobs never put an older value back.                             *)
THEOREM WatermarksAreMonotone == Spec => WatermarkNeverRegresses
<1>1. ASSUME ControlInv, [Next]_vars
      PROVE  \A t \in Tables : marks'[t] >= marks[t]
  <2>1. \A t \in Tables : marks[t] \in Nat
    BY <1>1 DEF ControlInv, TypeOK
  <2>2. CASE marks' = marks
    BY <2>1, <2>2
  <2>3. ASSUME NEW j \in Jobs, MergeWatermark(j)
        PROVE  \A t \in Tables : marks'[t] >= marks[t]
    <3>1. /\ marks' = [marks EXCEPT ![Table(j)] = high[j]]
          /\ high[j] > marks[Table(j)]
      BY <1>1, <2>3, MergeEffect
    <3>2. Table(j) \in Tables /\ high[j] \in Nat
      BY <1>1, TableType DEF ControlInv, TypeOK
    <3>3. QED
      BY <1>1, <2>1, <3>1, <3>2 DEF ControlInv, TypeOK
  <2>4. QED
    BY <1>1, <2>2, <2>3, MarksMove
<1>2. QED
  BY ControlInvariant, <1>1, PTL DEF Spec, WatermarkNeverRegresses

(* Only AppendRows changes a Bronze table. *)
LEMMA BronzeMoves ==
    ASSUME [Next]_vars, bronze' # bronze
    PROVE  \E j \in Jobs : AppendRows(j)
BY DEF Next, JobStep, vars, jobVars, StartRun, SourceCommit, Crash, GetWatermark, CountRows,
       ReadMax, ScanWatermarks, MergeWatermark, MergeConflict

(* A batch appended to a sequence, or alone in one, is its last element. *)
LEMMA LastOfAppend ==
    ASSUME NEW S, NEW q \in Seq(S), NEW b \in S
    PROVE  /\ Append(q, b) \in Seq(S) /\ Append(q, b) # <<>> /\ Append(q, b)[Len(Append(q, b))] = b
           /\ <<b>> \in Seq(S) /\ <<b>> # <<>> /\ <<b>>[Len(<<b>>)] = b
<1>1. Append(q, b) \in Seq(S) /\ Len(Append(q, b)) = Len(q) + 1 /\ Append(q, b)[Len(q) + 1] = b
  OBVIOUS
<1>2. Append(q, b) # <<>>
  BY <1>1
<1>3. <<b>> \in Seq(S) /\ <<b>> # <<>> /\ <<b>>[Len(<<b>>)] = b
  OBVIOUS
<1>4. QED
  BY <1>1, <1>2, <1>3

(* What AppendRows leaves: the batch is the last one of its table, and no    *)
(* other table changes.                                                      *)
LEMMA AppendEffect ==
    ASSUME TypeOK, NEW j \in Jobs, AppendRows(j)
    PROVE  /\ \A t \in Tables \ {Table(j)} : bronze'[t] = bronze[t]
           /\ bronze'[Table(j)] \in Seq(SUBSET Row)
           /\ bronze'[Table(j)] # <<>>
           /\ bronze'[Table(j)][Len(bronze'[Table(j)])] = Past(Table(j), low[j])
<1> DEFINE batch == Past(Table(j), low[j])
<1>1. Table(j) \in Tables /\ batch \in SUBSET Row
  BY TableType, PastType
<1>2. bronze[Table(j)] \in Seq(SUBSET Row)
  BY <1>1 DEF TypeOK
<1>3. PICK s \in {Append(bronze[Table(j)], batch), <<batch>>} :
          bronze' = [bronze EXCEPT ![Table(j)] = s]
  BY DEF AppendRows
<1>4. s \in Seq(SUBSET Row) /\ s # <<>> /\ s[Len(s)] = batch
  <2> DEFINE q == bronze[Table(j)]
  <2>0. q \in Seq(SUBSET Row) /\ batch \in SUBSET Row
    BY <1>1, <1>2
  <2> HIDE DEF batch, q
  <2>1. CASE s = Append(q, batch)
    <3>1. Append(q, batch) \in Seq(SUBSET Row) /\ Append(q, batch) # <<>>
          /\ Append(q, batch)[Len(Append(q, batch))] = batch
      BY <2>0, LastOfAppend
    <3>2. QED
      BY <2>1, <3>1
  <2>2. CASE s = <<batch>>
    <3>1. <<batch>> \in Seq(SUBSET Row) /\ <<batch>> # <<>> /\ <<batch>>[Len(<<batch>>)] = batch
      BY <2>0, LastOfAppend
    <3>2. QED
      BY <2>2, <3>1
  <2>3. QED
    BY <1>3, <2>1, <2>2 DEF q
<1>5. bronze'[Table(j)] = s /\ \A t \in Tables \ {Table(j)} : bronze'[t] = bronze[t]
  BY <1>1, <1>3 DEF TypeOK
<1>6. QED
  BY <1>4, <1>5

(* A batch is disjoint from what the stored watermark covers. *)
THEOREM BatchesAreUncommitted == Spec => OnlyUncommittedRowsAppended
<1>1. ASSUME ControlInv, [Next]_vars
      PROVE  \A t \in Tables : bronze'[t] # bronze[t] =>
                 \A r \in bronze'[t][Len(bronze'[t])] : MarkOf[r] > marks[t]
  <2>1. CASE bronze' = bronze
    BY <2>1
  <2>2. ASSUME NEW j \in Jobs, AppendRows(j), NEW t \in Tables, bronze'[t] # bronze[t]
        PROVE  \A r \in bronze'[t][Len(bronze'[t])] : MarkOf[r] > marks[t]
    <3>1. t = Table(j) /\ bronze'[t][Len(bronze'[t])] = Past(t, low[j])
      BY <1>1, <2>2, AppendEffect DEF ControlInv
    <3>2. low[j] = marks[t]
      BY <1>1, <2>2, <3>1 DEF AppendRows, ControlInv, JobControl, LowIsStored, Running
    <3>3. QED
      BY <3>1, <3>2 DEF Past
  <2>3. QED
    BY <1>1, <2>1, <2>2, BronzeMoves
<1>2. QED
  BY ControlInvariant, <1>1, PTL DEF Spec, OnlyUncommittedRowsAppended

-----------------------------------------------------------------------------
(* Where a row can be lost. *)

(* The rows IInv speaks of, apart from the control facts. *)
Kept == (\A j \in Jobs : BatchArrived(j)) /\ LostOnlyInWindow

(* With a catalog that answers, AppendRows adds the whole batch to the table *)
(* and drops nothing.                                                        *)
LEMMA AppendKeeps ==
    ASSUME ~CatalogCheckMayFail, TypeOK, NEW j \in Jobs, AppendRows(j),
           NEW t \in Tables, t = Table(j)
    PROVE  /\ \A u \in Tables : BronzeRows(u) \subseteq BronzeRows(u)'
           /\ Past(t, low[j]) \subseteq BronzeRows(t)'
<1> DEFINE batch == Past(t, low[j])
<1>1. bronze[t] \in Seq(SUBSET Row)
  BY DEF TypeOK
<1>2. /\ \A u \in Tables \ {t} : bronze'[u] = bronze[u]
      /\ bronze'[t] \in Seq(SUBSET Row)
      /\ bronze'[t] # <<>>
      /\ bronze'[t][Len(bronze'[t])] = batch
  BY AppendEffect
<1>3. batch \subseteq BronzeRows(t)'
  <2>1. Len(bronze'[t]) \in DOMAIN bronze'[t]
    <3> DEFINE b == bronze'[t]
    <3>1. b \in Seq(SUBSET Row) /\ b # <<>>
      BY <1>2
    <3> HIDE DEF b
    <3>2. Len(b) \in DOMAIN b
      BY <3>1
    <3>3. QED
      BY <3>2 DEF b
  <2>2. QED
    BY <1>2, <2>1 DEF BronzeRows
<1>4. BronzeRows(t) \subseteq BronzeRows(t)'
  <2>1. CASE bronze[t] = <<>>
    <3>1. DOMAIN bronze[t] = {}
      BY <2>1
    <3>2. QED
      BY <3>1 DEF BronzeRows
  <2>2. CASE bronze[t] # <<>>
    <3>1. bronze'[t] = Append(bronze[t], batch)
      BY <1>1, <2>2 DEF AppendRows, ExistsCheck, TypeOK
    <3>2. \A i \in DOMAIN bronze[t] : i \in DOMAIN bronze'[t] /\ bronze'[t][i] = bronze[t][i]
      <4> DEFINE b == bronze[t]
      <4>1. b \in Seq(SUBSET Row)
        BY <1>1
      <4> HIDE DEF b, batch
      <4>2. \A i \in DOMAIN b : i \in DOMAIN Append(b, batch) /\ Append(b, batch)[i] = b[i]
        BY <4>1
      <4>3. QED
        BY <3>1, <4>2 DEF b
    <3>3. QED
      BY <3>2 DEF BronzeRows
  <2>3. QED
    BY <2>1, <2>2
<1>5. \A u \in Tables \ {t} : BronzeRows(u)' = BronzeRows(u)
  BY <1>2 DEF BronzeRows
<1>6. QED
  BY <1>3, <1>4, <1>5

(* A job outside the window between append and MERGE has nothing to deliver. *)
LEMMA NothingArrived ==
    ASSUME NEW j \in Jobs, pc'[j] \notin {"max", "scan", "commit"}
    PROVE  BatchArrived(j)'
BY DEF BatchArrived

(* A step of job j that takes nothing out of Bronze and moves no watermark.  *)
LEMMA KeepsOthers ==
    ASSUME TypeOK, Kept, NEW j \in Jobs, OnlyJob(j), BatchArrived(j)',
           UNCHANGED <<src, late, marks>>,
           \A t \in Tables : BronzeRows(t) \subseteq BronzeRows(t)'
    PROVE  Kept'
<1>1. \A t \in Tables : Safe(t) \subseteq Safe(t)'
  BY DEF Safe
<1>2. ASSUME NEW k \in Jobs \ {j}
      PROVE  BatchArrived(k)'
  <2>1. Table(k)' = Table(k) /\ Table(k) \in Tables /\ pc'[k] = pc[k]
        /\ Past(Table(k), low[k])' = Past(Table(k), low[k]) /\ high'[k] = high[k]
    BY TableType DEF OnlyJob, Table, Past
  <2>2. QED
    BY <1>1, <2>1 DEF Kept, BatchArrived
<1>3. LostOnlyInWindow'
  BY <1>1 DEF Kept, LostOnlyInWindow, Covered
<1>4. QED
  BY <1>2, <1>3 DEF Kept

(* A commit of the source lands above every watermark, stored or in flight,  *)
(* and inside a window it is recorded as late.                               *)
LEMMA CommitKeeps ==
    ASSUME ControlInv, Kept, NEW d \in Databases, SourceCommit(d)
    PROVE  Kept'
<1>1. PICK batch \in (SUBSET Row) \ {{}} :
        /\ \A t \in d : \A r \in batch, q \in src[t] : MarkOf[r] > MarkOf[q]
        /\ src' = [t \in Tables |-> IF t \in d THEN src[t] \union batch ELSE src[t]]
        /\ late' = [t \in Tables |-> IF t \in d /\ InWindow(t)
                                       THEN late[t] \union batch ELSE late[t]]
  BY DEF SourceCommit
<1>2. TypeOK /\ UNCHANGED <<bronze, marks, pc, at, low, high>>
  BY DEF ControlInv, SourceCommit, jobVars
<1>3. \A r \in batch : MarkOf[r] \in Nat \ {0}
  BY SourceAssumption
<1>4. \A t \in Tables : Safe(t) \subseteq Safe(t)'
  BY <1>1, <1>2 DEF Safe, BronzeRows
<1>5. ASSUME NEW t \in Tables, NEW m \in Nat, NEW r \in src'[t], r \notin src[t],
             m # 0 => \E q \in src[t] : MarkOf[q] = m
      PROVE  MarkOf[r] > m
  <2>1. t \in d /\ r \in batch
    BY <1>1, <1>5
  <2>2. QED
    BY <1>1, <1>3, <1>5, <2>1
<1>6. LostOnlyInWindow'
  <2> SUFFICES ASSUME NEW t \in Tables, NEW r \in src'[t], MarkOf[r] <= marks[t]
               PROVE  r \in Safe(t)'
    BY <1>2 DEF LostOnlyInWindow, Covered
  <2>1. marks[t] \in Nat /\ (marks[t] # 0 => \E q \in src[t] : MarkOf[q] = marks[t])
    BY <1>2 DEF TypeOK, ControlInv, MarksAreRead
  <2>2. MarkOf[r] \in Nat
    BY <1>1, <1>2, SourceAssumption DEF TypeOK
  <2>3. r \in src[t]
    BY <1>5, <2>1, <2>2
  <2>4. QED
    BY <1>4, <2>3 DEF Kept, LostOnlyInWindow, Covered
<1>7. ASSUME NEW k \in Jobs
      PROVE  BatchArrived(k)'
  <2>1. Table(k)' = Table(k) /\ Table(k) \in Tables /\ pc'[k] = pc[k]
    BY <1>2, TableType DEF Table
  <2>2. ASSUME pc[k] = "max", NEW r \in Past(Table(k), low[k])'
        PROVE  r \in Safe(Table(k))'
    <3>1. r \in src'[Table(k)] /\ MarkOf[r] > low[k]
      BY <1>2, <2>1, <2>2 DEF Past
    <3>2. CASE r \in src[Table(k)]
      BY <1>4, <2>1, <2>2, <3>1, <3>2 DEF Kept, BatchArrived, Past
    <3>3. CASE r \notin src[Table(k)]
      <4>1. InWindow(Table(k)) /\ Table(k) \in d /\ r \in batch
        BY <1>1, <2>1, <2>2, <3>1, <3>3 DEF InWindow
      <4>2. QED
        BY <1>1, <2>1, <4>1 DEF Safe
    <3>4. QED
      BY <3>2, <3>3
  <2>3. ASSUME pc[k] \in {"scan", "commit"}, NEW r \in src'[Table(k)], MarkOf[r] <= high[k]
        PROVE  r \in Safe(Table(k))'
    <3>1. high[k] \in Nat /\ \E q \in src[Table(k)] : MarkOf[q] = high[k]
      BY <1>2, <2>3 DEF TypeOK, ControlInv, JobControl, HighIsRead
    <3>2. MarkOf[r] \in Nat
      BY <1>1, <1>2, <2>1, SourceAssumption DEF TypeOK
    <3>3. r \in src[Table(k)]
      BY <1>5, <2>1, <2>3, <3>1, <3>2
    <3>4. QED
      BY <1>4, <2>1, <2>3, <3>3 DEF Kept, BatchArrived
  <2>4. QED
    BY <1>2, <2>1, <2>2, <2>3 DEF BatchArrived
<1>8. QED
  BY <1>6, <1>7 DEF Kept

(* A batch that is appended holds every row above the watermark the job read. *)
LEMMA AppendStep ==
    ASSUME ~CatalogCheckMayFail, TypeOK, Kept, NEW j \in Jobs, AppendRows(j)
    PROVE  Kept'
<1>1. PICK t \in Tables : t = Table(j)
  BY TableType
<1>2. /\ \A u \in Tables : BronzeRows(u) \subseteq BronzeRows(u)'
      /\ Past(t, low[j]) \subseteq BronzeRows(t)'
  BY <1>1, AppendKeeps
<1>3. OnlyJob(j) /\ UNCHANGED <<src, late, marks, at, low>> /\ pc'[j] = "max"
  BY DEF AppendRows, OnlyJob, TypeOK
<1>4. BatchArrived(j)'
  <2>1. Table(j)' = t /\ Past(Table(j), low[j])' = Past(t, low[j])
    BY <1>1, <1>3 DEF Table, Past
  <2>2. QED
    BY <1>2, <1>3, <2>1 DEF BatchArrived, Safe
<1>5. QED
  BY <1>2, <1>3, <1>4, KeepsOthers

(* The re-evaluated maximum covers the appended batch, what came late, and   *)
(* what the stored watermark already covered.                                *)
LEMMA MaxStep ==
    ASSUME ControlInv, Kept, NEW j \in Jobs, ReadMax(j)
    PROVE  Kept'
<1>1. TypeOK /\ Table(j) \in Tables
  BY TableType DEF ControlInv
<1>2. OnlyJob(j) /\ UNCHANGED <<src, bronze, late, marks, at, low>> /\ pc'[j] = "scan"
  BY <1>1 DEF ReadMax, OnlyJob, TypeOK
<1>3. low[j] = marks[Table(j)]
  BY DEF ReadMax, ControlInv, JobControl, LowIsStored, Running
<1>4. Past(Table(j), low[j]) \subseteq Safe(Table(j))
  BY DEF ReadMax, Kept, BatchArrived
<1>5. \A r \in src[Table(j)] : MarkOf[r] \in Nat /\ low[j] \in Nat
  BY <1>1, SourceAssumption DEF TypeOK
<1>6. src[Table(j)] \subseteq Safe(Table(j))
  <2> SUFFICES ASSUME NEW r \in src[Table(j)] PROVE r \in Safe(Table(j))
    OBVIOUS
  <2>1. CASE MarkOf[r] > low[j]
    BY <1>4, <2>1 DEF Past
  <2>2. CASE MarkOf[r] <= low[j]
    BY <1>1, <1>3, <2>2 DEF Kept, LostOnlyInWindow, Covered
  <2>3. QED
    BY <1>5, <2>1, <2>2
<1>7. BatchArrived(j)'
  <2>1. Table(j)' = Table(j)
    BY <1>2 DEF Table
  <2>2. QED
    BY <1>2, <1>6, <2>1 DEF BatchArrived, Safe, BronzeRows
<1>8. QED
  BY <1>1, <1>2, <1>7, KeepsOthers DEF BronzeRows

(* A MERGE stores a watermark whose rows have all arrived. *)
LEMMA MergeKeeps ==
    ASSUME ControlInv, Kept, NEW j \in Jobs, MergeWatermark(j)
    PROVE  Kept'
<1>1. TypeOK /\ Table(j) \in Tables
  BY TableType DEF ControlInv
<1>2. OnlyJob(j) /\ pc'[j] \in {"get", "success", "failed"}
  BY <1>1, Leaving DEF MergeWatermark
<1>3. UNCHANGED <<src, bronze, late>> /\ marks' = [marks EXCEPT ![Table(j)] = high[j]]
  BY MergeEffect DEF MergeWatermark
<1>4. \A t \in Tables : Safe(t)' = Safe(t)
  BY <1>3 DEF Safe, BronzeRows
<1>5. ASSUME NEW t \in Tables
      PROVE  (Covered(t) \subseteq Safe(t))'
  <2>1. CASE t = Table(j)
    <3>1. {r \in src[Table(j)] : MarkOf[r] <= high[j]} \subseteq Safe(Table(j))
      BY DEF MergeWatermark, Kept, BatchArrived
    <3>2. marks'[t] = high[j]
      BY <1>1, <1>3, <2>1 DEF TypeOK
    <3>3. QED
      BY <1>3, <1>4, <2>1, <3>1, <3>2 DEF Covered
  <2>2. CASE t # Table(j)
    <3>1. marks'[t] = marks[t]
      BY <1>1, <1>3, <2>2 DEF TypeOK
    <3>2. QED
      BY <1>3, <1>4, <3>1 DEF Kept, LostOnlyInWindow, Covered
  <2>3. QED
    BY <2>1, <2>2
<1>6. ASSUME NEW k \in Jobs
      PROVE  BatchArrived(k)'
  <2>1. CASE k = j
    BY <1>2, <2>1, NothingArrived
  <2>2. CASE k # j
    <3>1. Table(k)' = Table(k) /\ Table(k) \in Tables /\ pc'[k] = pc[k]
          /\ Past(Table(k), low[k])' = Past(Table(k), low[k]) /\ high'[k] = high[k]
      BY <1>1, <1>2, <1>3, <2>2, TableType DEF OnlyJob, Table, Past
    <3>2. QED
      BY <1>3, <1>4, <3>1 DEF Kept, BatchArrived
  <2>3. QED
    BY <2>1, <2>2
<1>7. QED
  BY <1>5, <1>6 DEF Kept, LostOnlyInWindow

(* Every step keeps the rows below a watermark in Bronze or recorded as late. *)
LEMMA KeptStep ==
    ASSUME ~CatalogCheckMayFail, ControlInv, Kept, [Next]_vars
    PROVE  Kept'
<1>0. TypeOK
  BY DEF ControlInv
<1>1. ASSUME NEW j \in Jobs, OnlyJob(j), UNCHANGED <<src, bronze, late, marks>>,
             pc'[j] \notin {"max", "scan", "commit"}
      PROVE  Kept'
  BY <1>0, <1>1, NothingArrived, KeepsOthers DEF BronzeRows
<1>2. CASE StartRun
  <2>1. \A k \in Jobs : pc'[k] = "get"
    BY <1>2 DEF StartRun
  <2>2. LostOnlyInWindow'
    BY <1>2 DEF StartRun, Kept, LostOnlyInWindow, Covered, Safe, BronzeRows
  <2>3. QED
    BY <2>1, <2>2, NothingArrived DEF Kept
<1>3. ASSUME NEW d \in Databases, SourceCommit(d)
      PROVE  Kept'
  BY <1>3, CommitKeeps
<1>4. ASSUME NEW j \in Jobs, Crash(j) \/ MergeConflict(j)
      PROVE  Kept'
  <2>1. AttemptFails(j) /\ UNCHANGED <<src, bronze, late, marks>>
    BY <1>4 DEF Crash, MergeConflict
  <2>2. QED
    BY <1>0, <1>1, <2>1, Leaving
<1>5. ASSUME NEW j \in Jobs, GetWatermark(j)
      PROVE  Kept'
  BY <1>0, <1>1, <1>5 DEF GetWatermark, OnlyJob, TypeOK
<1>6. ASSUME NEW j \in Jobs, CountRows(j)
      PROVE  Kept'
  <2>1. CASE TableDone(j)
    BY <1>0, <1>1, <1>6, <2>1, Leaving DEF CountRows
  <2>2. CASE pc' = [pc EXCEPT ![j] = "append"] /\ UNCHANGED <<at, low, high, scan>>
    BY <1>0, <1>1, <1>6, <2>2 DEF CountRows, OnlyJob, TypeOK
  <2>3. QED
    BY <1>6, <2>1, <2>2 DEF CountRows
<1>7. ASSUME NEW j \in Jobs, AppendRows(j)
      PROVE  Kept'
  BY <1>0, <1>7, AppendStep
<1>8. ASSUME NEW j \in Jobs, ReadMax(j)
      PROVE  Kept'
  BY <1>8, MaxStep
<1>9. ASSUME NEW j \in Jobs, ScanWatermarks(j)
      PROVE  Kept'
  <2>1. OnlyJob(j) /\ UNCHANGED <<src, bronze, late, marks, at, low, high>>
        /\ pc[j] = "scan" /\ pc'[j] = "commit"
    BY <1>0, <1>9 DEF ScanWatermarks, OnlyJob, TypeOK
  <2>2. BatchArrived(j)'
    BY <2>1 DEF Kept, BatchArrived, Table, Safe, BronzeRows
  <2>3. QED
    BY <1>0, <2>1, <2>2, KeepsOthers DEF BronzeRows
<1>10. ASSUME NEW j \in Jobs, MergeWatermark(j)
       PROVE  Kept'
  BY <1>10, MergeKeeps
<1>11. CASE UNCHANGED vars
  BY <1>11 DEF vars, jobVars, Kept, BatchArrived, LostOnlyInWindow, Covered, Safe, BronzeRows,
               Table, Past
<1>12. QED
  BY <1>2, <1>3, <1>4, <1>5, <1>6, <1>7, <1>8, <1>9, <1>10, <1>11 DEF Next, JobStep

(* Nothing comes late while the sources rest. *)
LEMMA WindowStep ==
    ASSUME TypeOK, WindowClosed, [Next]_vars
    PROVE  WindowClosed'
<1>1. CASE late' = late
  BY <1>1 DEF WindowClosed
<1>2. ASSUME NEW d \in Databases, SourceCommit(d)
      PROVE  WindowClosed'
  <2>1. CASE SeedDuringRun
    BY <2>1 DEF WindowClosed
  <2>2. CASE Idle
    <3>1. \A t : ~InWindow(t)
      BY <2>2 DEF Idle, InWindow, Finished
    <3>2. QED
      BY <1>2, <3>1 DEF SourceCommit, WindowClosed
  <2>3. QED
    BY <1>2, <2>1, <2>2 DEF SourceCommit
<1>3. QED
  BY <1>1, <1>2 DEF Next, JobStep, vars, StartRun, Crash, GetWatermark, CountRows, AppendRows,
                    ReadMax, ScanWatermarks, MergeWatermark, MergeConflict

(* The inductive invariant holds for any catalog that answers. *)
THEOREM InductiveInvariant ==
    ASSUME ~CatalogCheckMayFail
    PROVE  Spec => []IInv
<1>1. Init => IInv
  <2>1. Init => ControlInv
    BY ControlInit
  <2>2. Init => (\A j \in Jobs : BatchArrived(j)) /\ LostOnlyInWindow /\ WindowClosed
    BY DEF Init, BatchArrived, LostOnlyInWindow, Covered, WindowClosed
  <2>3. QED
    BY <2>1, <2>2 DEF IInv
<1>2. IInv /\ [Next]_vars => IInv'
  <2> SUFFICES ASSUME IInv, [Next]_vars PROVE IInv'
    OBVIOUS
  <2>1. ControlInv /\ Kept /\ WindowClosed /\ TypeOK
    BY DEF IInv, Kept, ControlInv
  <2>2. ControlInv' /\ Kept' /\ WindowClosed'
    BY <2>1, ControlStep, KeptStep, WindowStep
  <2>3. QED
    BY <2>2 DEF IInv, Kept
<1>3. QED
  BY <1>1, <1>2, PTL DEF Spec

(* A row at or below a stored watermark is in Bronze, or was committed        *)
(* between an append and the re-evaluated max: retries, crashes and           *)
(* concurrent MERGEs lose nothing else.                                       *)
THEOREM LossNeedsTheWindow ==
    ASSUME ~CatalogCheckMayFail
    PROVE  Spec => []LostOnlyInWindow
<1>1. IInv => LostOnlyInWindow
  BY DEF IInv
<1>2. QED
  BY InductiveInvariant, <1>1, PTL

(* While the sources rest during a run, the watermark never passes a row     *)
(* that Bronze does not hold, however many attempts fail.                    *)
THEOREM QuietSourcesLoseNothing ==
    ASSUME ~CatalogCheckMayFail, ~SeedDuringRun
    PROVE  Spec => []NoLoss
<1>1. IInv => NoLoss
  BY DEF IInv, WindowClosed, LostOnlyInWindow, Safe, NoLoss
<1>2. QED
  BY InductiveInvariant, <1>1, PTL
=============================================================================
