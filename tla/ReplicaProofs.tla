---------------------------- MODULE ReplicaProofs ----------------------------
(***************************************************************************)
(* Extraction while the sources rest during a run and the catalog answers: *)
(* a parent is in Bronze before its children, and the whole of it is the   *)
(* abstract copy of Replica, step by step.                                 *)
(***************************************************************************)
EXTENDS ExtractionProofs

(* Tables of one database hold the same rows. *)
SameSource == \A d \in Databases : \A t, u \in d : src[t] = src[u]

BronzeIsRead == \A t \in Tables : BronzeRows(t) \subseteq src[t]

HighIsHighest(j) ==
    pc[j] \in {"scan", "commit"} => \A r \in src[Table(j)] : MarkOf[r] <= high[j]

(* A running job has delivered all of the tables it has passed. *)
PassedArrived(j) ==
    pc[j] \in Running =>
        \A a \in DOMAIN TablesOf[j] :
            a < at[j] => src[TablesOf[j][a]] \subseteq BronzeRows(TablesOf[j][a])

Arrived ==
    /\ SameSource
    /\ BronzeIsRead
    /\ \A j \in Jobs : HighIsHighest(j) /\ PassedArrived(j)
    /\ ParentsFirst

QuietInv == IInv /\ Arrived

LEMMA QuietTypes ==
    ASSUME QuietInv
    PROVE  TypeOK /\ ControlInv /\ Kept
BY DEF QuietInv, IInv, ControlInv, Kept

(* Nothing is late while the sources rest. *)
LEMMA SafeIsBronze ==
    ASSUME ~SeedDuringRun, QuietInv, NEW t \in Tables
    PROVE  Safe(t) = BronzeRows(t)
BY DEF QuietInv, IInv, WindowClosed, Safe

LEMMA TablesOfType ==
    ASSUME NEW j \in Jobs
    PROVE  DOMAIN TablesOf[j] \subseteq Nat \ {0} /\ \A a \in DOMAIN TablesOf[j] : TablesOf[j][a] \in Tables
<1>1. TablesOf[j] \in Seq(Tables)
  BY JobAssumption
<1>2. QED
  BY <1>1

(* What AppendRows adds to Bronze is its batch, and nothing else. *)
LEMMA AppendAdds ==
    ASSUME TypeOK, NEW j \in Jobs, AppendRows(j)
    PROVE  BronzeRows(Table(j))' \subseteq BronzeRows(Table(j)) \union Past(Table(j), low[j])
<1> DEFINE t == Table(j)
           batch == Past(t, low[j])
           b == bronze[t]
<1>1. t \in Tables /\ b \in Seq(SUBSET Row) /\ batch \in SUBSET Row
  BY TableType, PastType DEF TypeOK
<1>2. at' = at /\ Table(j)' = t
  BY DEF AppendRows, Table
<1>3. bronze'[t] = Append(b, batch) \/ bronze'[t] = <<batch>>
  BY <1>1 DEF AppendRows, TypeOK
<1>4. \A i \in DOMAIN bronze'[t] :
          bronze'[t][i] = batch \/ (i \in DOMAIN b /\ bronze'[t][i] = b[i])
  <2> HIDE DEF b, batch, t
  <2>1. \A i \in DOMAIN Append(b, batch) :
            Append(b, batch)[i] = batch \/ (i \in DOMAIN b /\ Append(b, batch)[i] = b[i])
    BY <1>1
  <2>2. \A i \in DOMAIN <<batch>> : <<batch>>[i] = batch
    OBVIOUS
  <2>3. QED
    BY <1>3, <2>1, <2>2
<1>5. QED
  BY <1>2, <1>4 DEF BronzeRows

-----------------------------------------------------------------------------
(* A step of job j that changes neither its sources nor Bronze. *)
LEMMA RestKeeps ==
    ASSUME QuietInv, NEW j \in Jobs, OnlyJob(j), UNCHANGED <<src, bronze>>,
           HighIsHighest(j)', PassedArrived(j)'
    PROVE  Arrived'
<1>1. ASSUME NEW k \in Jobs \ {j}
      PROVE  HighIsHighest(k)' /\ PassedArrived(k)'
  <2>1. Table(k)' = Table(k) /\ pc'[k] = pc[k] /\ high'[k] = high[k] /\ at'[k] = at[k]
    BY DEF OnlyJob, Table
  <2>2. HighIsHighest(k)'
    BY <2>1 DEF QuietInv, Arrived, HighIsHighest
  <2>3. PassedArrived(k)'
    BY <2>1 DEF QuietInv, Arrived, PassedArrived, BronzeRows
  <2>4. QED
    BY <2>2, <2>3
<1>2. SameSource' /\ BronzeIsRead' /\ ParentsFirst'
  BY DEF QuietInv, Arrived, SameSource, BronzeIsRead, ParentsFirst, BronzeRows
<1>3. QED
  BY <1>1, <1>2 DEF Arrived

(* A job that stays at its table. *)
LEMMA StayKeeps ==
    ASSUME QuietInv, NEW j \in Jobs, pc[j] \in Running, at'[j] = at[j], UNCHANGED <<src, bronze>>
    PROVE  PassedArrived(j)'
BY DEF QuietInv, Arrived, PassedArrived, BronzeRows

(* A failed attempt starts over, or ends the job. *)
LEMMA FailureArrives ==
    ASSUME QuietInv, NEW j \in Jobs, AttemptFails(j), UNCHANGED <<src, bronze>>
    PROVE  Arrived'
<1>1. OnlyJob(j) /\ pc'[j] \in {"get", "success", "failed"}
  BY QuietTypes, Leaving
<1>2. HighIsHighest(j)'
  BY <1>1 DEF HighIsHighest
<1>3. PassedArrived(j)'
  <2>1. CASE at' = [at EXCEPT ![j] = 1]
    <3>1. at'[j] = 1
      BY <2>1, QuietTypes DEF TypeOK
    <3>2. QED
      BY <3>1, TablesOfType DEF PassedArrived
  <2>2. CASE pc' = [pc EXCEPT ![j] = "failed"]
    <3>1. pc'[j] = "failed"
      BY <2>2, QuietTypes DEF TypeOK
    <3>2. QED
      BY <3>1 DEF PassedArrived, Running
  <2>3. QED
    BY <2>1, <2>2 DEF AttemptFails
<1>4. QED
  BY <1>1, <1>2, <1>3, RestKeeps

(* A job leaves a table all of whose rows are in Bronze. *)
LEMMA DoneArrives ==
    ASSUME QuietInv, NEW j \in Jobs, TableDone(j), UNCHANGED <<src, bronze>>,
           src[Table(j)] \subseteq BronzeRows(Table(j)), pc[j] \in Running
    PROVE  Arrived'
<1>1. OnlyJob(j) /\ pc'[j] \in {"get", "success", "failed"}
  BY QuietTypes, Leaving
<1>2. HighIsHighest(j)'
  BY <1>1 DEF HighIsHighest
<1>3. PassedArrived(j)'
  <2>1. CASE at' = [at EXCEPT ![j] = @ + 1]
    <3>1. at[j] \in Nat /\ at'[j] = at[j] + 1
      BY <2>1, QuietTypes DEF TypeOK
    <3>2. \A a \in DOMAIN TablesOf[j] : a < at'[j] => a < at[j] \/ a = at[j]
      BY <3>1, TablesOfType
    <3>3. \A a \in DOMAIN TablesOf[j] :
              a < at'[j] => src[TablesOf[j][a]] \subseteq BronzeRows(TablesOf[j][a])
      BY <3>2 DEF QuietInv, Arrived, PassedArrived, Table
    <3>4. QED
      BY <3>3 DEF PassedArrived, BronzeRows
  <2>2. CASE pc' = [pc EXCEPT ![j] = "success"]
    <3>1. pc'[j] = "success"
      BY <2>2, QuietTypes DEF TypeOK
    <3>2. QED
      BY <3>1 DEF PassedArrived, Running
  <2>3. QED
    BY <2>1, <2>2 DEF TableDone
<1>4. QED
  BY <1>1, <1>2, <1>3, RestKeeps

(* A query that finds no row, or a MERGE of the highest watermark, means that *)
(* the whole table is in Bronze.                                              *)
LEMMA NothingPast ==
    ASSUME ~SeedDuringRun, QuietInv, NEW j \in Jobs, pc[j] = "count", Past(Table(j), low[j]) = {}
    PROVE  src[Table(j)] \subseteq BronzeRows(Table(j))
<1>1. Table(j) \in Tables /\ low[j] = marks[Table(j)]
  BY QuietTypes, TableType DEF ControlInv, JobControl, LowIsStored, Running
<1>2. \A r \in src[Table(j)] : MarkOf[r] \in Nat /\ low[j] \in Nat
  BY <1>1, QuietTypes, SourceAssumption DEF TypeOK
<1>3. \A r \in src[Table(j)] : MarkOf[r] <= marks[Table(j)]
  BY <1>1, <1>2 DEF Past
<1>4. Covered(Table(j)) \subseteq Safe(Table(j))
  BY <1>1 DEF QuietInv, IInv, LostOnlyInWindow
<1>5. QED
  BY <1>1, <1>3, <1>4, SafeIsBronze DEF Covered

LEMMA HighestCommits ==
    ASSUME ~SeedDuringRun, QuietInv, NEW j \in Jobs, pc[j] = "commit"
    PROVE  src[Table(j)] \subseteq BronzeRows(Table(j))
<1>1. Table(j) \in Tables
  BY QuietTypes, TableType
<1>2. {r \in src[Table(j)] : MarkOf[r] <= high[j]} \subseteq Safe(Table(j))
  BY DEF QuietInv, IInv, BatchArrived
<1>3. \A r \in src[Table(j)] : MarkOf[r] <= high[j]
  BY DEF QuietInv, Arrived, HighIsHighest
<1>4. QED
  BY <1>1, <1>2, <1>3, SafeIsBronze

(* The maximum read last is the highest mark of the table. *)
LEMMA MaxArrives ==
    ASSUME QuietInv, NEW j \in Jobs, ReadMax(j)
    PROVE  Arrived'
<1>1. OnlyJob(j) /\ UNCHANGED <<src, bronze, at, low>> /\ pc[j] = "max"
  BY QuietTypes DEF ReadMax, OnlyJob, TypeOK
<1>2. Table(j) \in Tables /\ Table(j)' = Table(j) /\ low[j] \in Nat
  BY <1>1, QuietTypes, TableType DEF Table, TypeOK
<1>3. PICK r \in Past(Table(j), low[j]) :
          /\ \A q \in Past(Table(j), low[j]) : MarkOf[q] <= MarkOf[r]
          /\ high'[j] = MarkOf[r]
  BY QuietTypes DEF ReadMax, TypeOK
<1>4. \A q \in src[Table(j)] : MarkOf[q] \in Nat
  BY <1>2, QuietTypes, SourceAssumption DEF TypeOK
<1>5. r \in src[Table(j)] /\ MarkOf[r] > low[j]
  BY <1>3 DEF Past
<1>6. \A q \in src[Table(j)] : MarkOf[q] <= MarkOf[r]
  <2> SUFFICES ASSUME NEW q \in src[Table(j)] PROVE MarkOf[q] <= MarkOf[r]
    OBVIOUS
  <2>1. CASE MarkOf[q] > low[j]
    BY <1>3, <2>1 DEF Past
  <2>2. CASE ~(MarkOf[q] > low[j])
    BY <1>2, <1>4, <1>5, <2>2
  <2>3. QED
    BY <2>1, <2>2
<1>7. HighIsHighest(j)'
  BY <1>1, <1>2, <1>3, <1>6 DEF HighIsHighest
<1>8. PassedArrived(j)'
  BY <1>1, StayKeeps DEF Running
<1>9. QED
  BY <1>1, <1>7, <1>8, RestKeeps

(* A batch of a later table is in the earlier one already: both hold the same *)
(* rows at the source, and the job has passed the earlier one.                *)
LEMMA AppendArrives ==
    ASSUME ~CatalogCheckMayFail, QuietInv, NEW j \in Jobs, AppendRows(j)
    PROVE  Arrived'
<1>1. TypeOK /\ Table(j) \in Tables
  BY QuietTypes, TableType
<1>2. OnlyJob(j) /\ UNCHANGED <<src, at, low>> /\ pc[j] = "append" /\ pc'[j] = "max"
  BY <1>1 DEF AppendRows, OnlyJob, TypeOK
<1>3. \A u \in Tables : BronzeRows(u) \subseteq BronzeRows(u)'
  BY <1>1, AppendKeeps
<1>4. \A u \in Tables \ {Table(j)} : BronzeRows(u)' = BronzeRows(u)
  BY <1>1, AppendEffect DEF BronzeRows
<1>5. BronzeRows(Table(j))' \subseteq BronzeRows(Table(j)) \union src[Table(j)]
  <2>1. BronzeRows(Table(j))' \subseteq BronzeRows(Table(j)) \union Past(Table(j), low[j])
    BY <1>1, AppendAdds
  <2>2. QED
    BY <2>1 DEF Past
<1> DEFINE t == Table(j)
<1>6. t' = t
  BY <1>2 DEF Table
<1> HIDE DEF t
<1>7. SameSource'
  BY <1>2 DEF QuietInv, Arrived, SameSource
<1>8. BronzeIsRead'
  <2> SUFFICES ASSUME NEW u \in Tables PROVE (BronzeRows(u) \subseteq src[u])'
    BY DEF BronzeIsRead
  <2>1. BronzeRows(u) \subseteq src[u]
    BY DEF QuietInv, Arrived, BronzeIsRead
  <2>2. CASE u = t
    <3>1. BronzeRows(u)' \subseteq BronzeRows(u) \union src[u]
      BY <1>5, <1>6, <2>2 DEF t, BronzeRows
    <3>2. QED
      BY <1>2, <2>1, <3>1
  <2>3. CASE u # t
    BY <1>2, <1>4, <2>1, <2>3 DEF t
  <2>4. QED
    BY <2>2, <2>3
<1>9. ASSUME NEW k \in Jobs
      PROVE  HighIsHighest(k)' /\ PassedArrived(k)'
  <2>1. at'[k] = at[k] /\ (pc'[k] \in Running => pc[k] \in Running)
    BY <1>2 DEF OnlyJob, Running
  <2>2. PassedArrived(k)'
    BY <1>2, <1>3, <2>1, TablesOfType DEF QuietInv, Arrived, PassedArrived
  <2>3. HighIsHighest(k)'
    <3>1. CASE k = j
      BY <1>2, <3>1 DEF HighIsHighest
    <3>2. CASE k # j
      BY <1>2, <3>2 DEF OnlyJob, QuietInv, Arrived, HighIsHighest, Table
    <3>3. QED
      BY <3>1, <3>2
  <2>4. QED
    BY <2>2, <2>3
<1>10. ParentsFirst'
  <2> SUFFICES ASSUME NEW k \in Jobs, NEW a \in DOMAIN TablesOf[k], NEW b \in DOMAIN TablesOf[k],
                      a < b, NEW d \in Databases, {TablesOf[k][a], TablesOf[k][b]} \subseteq d
               PROVE  BronzeRows(TablesOf[k][b])' \subseteq BronzeRows(TablesOf[k][a])'
    BY DEF ParentsFirst, BronzeRows
  <2> DEFINE A == TablesOf[k][a]
             B == TablesOf[k][b]
  <2>1. A \in Tables /\ B \in Tables
    BY TablesOfType
  <2>2. BronzeRows(B) \subseteq BronzeRows(A)
    BY DEF QuietInv, Arrived, ParentsFirst
  <2>3. BronzeRows(A) \subseteq BronzeRows(A)'
    BY <1>3, <2>1
  <2>4. CASE B # t
    <3>1. BronzeRows(B)' = BronzeRows(B)
      BY <1>4, <2>1, <2>4 DEF t
    <3>2. QED
      BY <2>2, <2>3, <3>1
  <2>5. CASE B = t
    <3>1. k = j /\ b = at[j]
      <4>1. at[j] \in DOMAIN TablesOf[j]
        BY <1>1 DEF TypeOK
      <4>2. TablesOf[k][b] = TablesOf[j][at[j]]
        BY <2>5 DEF t, Table
      <4>3. QED
        BY <4>1, <4>2, OwnerAssumption
    <3>2. src[A] \subseteq BronzeRows(A)
      BY <1>2, <3>1 DEF QuietInv, Arrived, PassedArrived, Running
    <3>3. src[A] = src[B]
      BY DEF QuietInv, Arrived, SameSource
    <3>4. BronzeRows(B)' \subseteq BronzeRows(B) \union src[B]
      BY <1>5, <1>6, <2>5 DEF t, BronzeRows
    <3> HIDE DEF A, B
    <3>5. BronzeRows(B)' \subseteq BronzeRows(A)'
      BY <2>2, <2>3, <3>2, <3>3, <3>4
    <3>6. QED
      BY <3>5 DEF A, B
  <2>6. QED
    BY <2>4, <2>5
<1>11. QED
  BY <1>7, <1>8, <1>9, <1>10 DEF Arrived

(* A commit is of one database, and finds no job running. *)
LEMMA CommitArrives ==
    ASSUME ~SeedDuringRun, QuietInv, NEW d \in Databases, SourceCommit(d)
    PROVE  Arrived'
<1>1. PICK batch \in (SUBSET Row) \ {{}} :
          src' = [t \in Tables |-> IF t \in d THEN src[t] \union batch ELSE src[t]]
  BY DEF SourceCommit
<1>2. UNCHANGED <<bronze, pc, at, high>> /\ \A k \in Jobs : pc[k] \notin Running
  BY DEF SourceCommit, jobVars, Idle, Running, Finished
<1>3. SameSource'
  <2> SUFFICES ASSUME NEW e \in Databases, NEW t \in e, NEW u \in e PROVE src'[t] = src'[u]
    BY DEF SameSource
  <2>1. t \in Tables /\ u \in Tables
    BY SourceAssumption
  <2>2. src[t] = src[u]
    BY DEF QuietInv, Arrived, SameSource
  <2>3. t \in d <=> u \in d
    BY DatabaseAssumption
  <2>4. QED
    BY <1>1, <2>1, <2>2, <2>3
<1>4. \A t \in Tables : src[t] \subseteq src'[t]
  BY <1>1
<1>5. BronzeIsRead'
  BY <1>2, <1>4 DEF QuietInv, Arrived, BronzeIsRead, BronzeRows
<1>6. \A k \in Jobs : HighIsHighest(k)' /\ PassedArrived(k)'
  BY <1>2 DEF HighIsHighest, PassedArrived, Running
<1>7. ParentsFirst'
  BY <1>2 DEF QuietInv, Arrived, ParentsFirst, BronzeRows
<1>8. QED
  BY <1>3, <1>5, <1>6, <1>7 DEF Arrived
-----------------------------------------------------------------------------
LEMMA ArrivedStep ==
    ASSUME ~SeedDuringRun, ~CatalogCheckMayFail, QuietInv, [Next]_vars
    PROVE  Arrived'
<1>1. CASE StartRun
  <2>1. UNCHANGED <<src, bronze>> /\ \A j \in Jobs : pc'[j] = "get" /\ at'[j] = 1
    BY <1>1 DEF StartRun
  <2>2. \A j \in Jobs : HighIsHighest(j)' /\ PassedArrived(j)'
    BY <2>1, TablesOfType DEF HighIsHighest, PassedArrived
  <2>3. QED
    BY <2>1, <2>2 DEF QuietInv, Arrived, SameSource, BronzeIsRead, ParentsFirst, BronzeRows
<1>2. ASSUME NEW d \in Databases, SourceCommit(d)
      PROVE  Arrived'
  BY <1>2, CommitArrives
<1>3. ASSUME NEW j \in Jobs, Crash(j) \/ MergeConflict(j)
      PROVE  Arrived'
  BY <1>3, FailureArrives DEF Crash, MergeConflict
<1>4. ASSUME NEW j \in Jobs, GetWatermark(j)
      PROVE  Arrived'
  <2>1. OnlyJob(j) /\ UNCHANGED <<src, bronze, at>> /\ pc[j] = "get" /\ pc'[j] = "count"
    BY <1>4, QuietTypes DEF GetWatermark, OnlyJob, TypeOK
  <2>2. HighIsHighest(j)' /\ PassedArrived(j)'
    BY <2>1, StayKeeps DEF HighIsHighest, Running
  <2>3. QED
    BY <2>1, <2>2, RestKeeps
<1>5. ASSUME NEW j \in Jobs, CountRows(j)
      PROVE  Arrived'
  <2>1. CASE Past(Table(j), low[j]) = {} /\ TableDone(j)
    BY <1>5, <2>1, NothingPast, DoneArrives DEF CountRows, Running
  <2>2. CASE pc' = [pc EXCEPT ![j] = "append"] /\ UNCHANGED <<at, low, high, scan>>
    <3>1. OnlyJob(j) /\ UNCHANGED <<src, bronze, at>> /\ pc[j] = "count" /\ pc'[j] = "append"
      BY <1>5, <2>2, QuietTypes DEF CountRows, OnlyJob, TypeOK
    <3>2. HighIsHighest(j)' /\ PassedArrived(j)'
      BY <3>1, StayKeeps DEF HighIsHighest, Running
    <3>3. QED
      BY <3>1, <3>2, RestKeeps
  <2>3. QED
    BY <1>5, <2>1, <2>2 DEF CountRows
<1>6. ASSUME NEW j \in Jobs, AppendRows(j)
      PROVE  Arrived'
  BY <1>6, AppendArrives
<1>7. ASSUME NEW j \in Jobs, ReadMax(j)
      PROVE  Arrived'
  BY <1>7, MaxArrives
<1>8. ASSUME NEW j \in Jobs, ScanWatermarks(j)
      PROVE  Arrived'
  <2>1. OnlyJob(j) /\ UNCHANGED <<src, bronze, at, high>> /\ pc[j] = "scan" /\ pc'[j] = "commit"
    BY <1>8, QuietTypes DEF ScanWatermarks, OnlyJob, TypeOK
  <2>2. HighIsHighest(j)'
    BY <2>1 DEF QuietInv, Arrived, HighIsHighest, Table
  <2>3. PassedArrived(j)'
    BY <2>1, StayKeeps DEF Running
  <2>4. QED
    BY <2>1, <2>2, <2>3, RestKeeps
<1>9. ASSUME NEW j \in Jobs, MergeWatermark(j)
      PROVE  Arrived'
  BY <1>9, HighestCommits, DoneArrives DEF MergeWatermark, Running
<1>10. CASE UNCHANGED vars
  BY <1>10 DEF vars, jobVars, QuietInv, Arrived, SameSource, BronzeIsRead, HighIsHighest,
               PassedArrived, ParentsFirst, BronzeRows, Table
<1>11. QED
  BY <1>1, <1>2, <1>3, <1>4, <1>5, <1>6, <1>7, <1>8, <1>9, <1>10 DEF Next, JobStep

THEOREM QuietInvariant ==
    ASSUME ~SeedDuringRun, ~CatalogCheckMayFail
    PROVE  Spec => []QuietInv
<1>1. Init => Arrived
  <2> SUFFICES ASSUME Init PROVE Arrived
    OBVIOUS
  <2>1. \A t \in Tables : src[t] = {} /\ BronzeRows(t) = {}
    BY DEF Init, BronzeRows
  <2>2. SameSource /\ BronzeIsRead
    BY <2>1, SourceAssumption DEF SameSource, BronzeIsRead
  <2>3. \A j \in Jobs : HighIsHighest(j) /\ PassedArrived(j)
    BY DEF Init, HighIsHighest, PassedArrived, Running
  <2>4. ParentsFirst
    BY <2>1, TablesOfType DEF ParentsFirst
  <2>5. QED
    BY <2>2, <2>3, <2>4 DEF Arrived
<1>2. IInv /\ Arrived /\ [Next]_vars => Arrived'
  BY ArrivedStep DEF QuietInv
<1>3. IInv /\ Arrived => QuietInv
  BY DEF QuietInv
<1>4. QED
  BY <1>1, <1>2, <1>3, InductiveInvariant, PTL DEF Spec

(* A child row never reaches Bronze before its parent, whatever attempts of   *)
(* the job die between the two tables and however often it starts over.       *)
THEOREM ParentsComeFirst ==
    ASSUME ~SeedDuringRun, ~CatalogCheckMayFail
    PROVE  Spec => []ParentsFirst
<1>1. QuietInv => ParentsFirst
  BY DEF QuietInv, Arrived
<1>2. QED
  BY <1>1, QuietInvariant, PTL
-----------------------------------------------------------------------------
(* An append delivers nothing yet: its rows are above the watermark. *)
LEMMA AppendStutters ==
    ASSUME ~CatalogCheckMayFail, QuietInv, NEW j \in Jobs, AppendRows(j)
    PROVE  UNCHANGED <<src, Delivered>>
<1>1. TypeOK /\ Table(j) \in Tables /\ UNCHANGED <<src, marks>>
  BY QuietTypes, TableType DEF AppendRows
<1>2. low[j] = marks[Table(j)] /\ low[j] \in Nat
  BY <1>1, QuietTypes DEF AppendRows, ControlInv, JobControl, LowIsStored, Running, TypeOK
<1>3. ASSUME NEW t \in Tables
      PROVE  {r \in BronzeRows(t) : MarkOf[r] <= marks[t]}'
                 = {r \in BronzeRows(t) : MarkOf[r] <= marks[t]}
  <2>1. CASE t # Table(j)
    <3>1. BronzeRows(t)' = BronzeRows(t)
      BY <1>1, <2>1, AppendEffect DEF BronzeRows
    <3>2. QED
      BY <1>1, <3>1
  <2>2. CASE t = Table(j)
    <3>1. Table(j)' = Table(j)
      BY DEF AppendRows, Table
    <3>2. BronzeRows(t) \subseteq BronzeRows(t)'
      BY <1>1, AppendKeeps
    <3>3. BronzeRows(t)' \subseteq BronzeRows(t) \union Past(t, low[j])
      BY <1>1, <2>2, <3>1, AppendAdds DEF BronzeRows
    <3>4. \A r \in Past(t, low[j]) : ~(MarkOf[r] <= marks[t])
      BY <1>1, <1>2, <2>2, SourceAssumption DEF Past, TypeOK
    <3>5. QED
      BY <1>1, <3>2, <3>3, <3>4
  <2>3. QED
    BY <2>1, <2>2
<1>4. QED
  BY <1>1, <1>3 DEF Delivered

(* The MERGE delivers all that the source of its table holds. *)
LEMMA MergeCopies ==
    ASSUME ~SeedDuringRun, QuietInv, NEW j \in Jobs, MergeWatermark(j)
    PROVE  Copied!Copy(Table(j))
<1>1. TypeOK /\ Table(j) \in Tables /\ UNCHANGED <<src, bronze>>
  BY QuietTypes, TableType DEF MergeWatermark
<1> DEFINE t == Table(j)
<1>2. /\ marks' = [marks EXCEPT ![t] = high[j]]
      /\ high[j] > marks[t]
      /\ \E r \in src[t] : MarkOf[r] = high[j]
  BY QuietTypes, MergeEffect
<1>3. BronzeRows(t) = src[t]
  BY <1>1, HighestCommits DEF MergeWatermark, QuietInv, Arrived, BronzeIsRead
<1>4. \A r \in src[t] : MarkOf[r] <= high[j]
  BY DEF MergeWatermark, QuietInv, Arrived, HighIsHighest
<1>5. \A u \in Tables : BronzeRows(u)' = BronzeRows(u)
  BY <1>1 DEF BronzeRows
<1> HIDE DEF t
<1>6. t \in Tables
  BY <1>1 DEF t
<1>7. Delivered[t] # src[t]
  <2>1. PICK r \in src[t] : MarkOf[r] = high[j]
    BY <1>2
  <2>2. high[j] \in Nat /\ marks[t] \in Nat
    BY <1>1, <1>6 DEF TypeOK
  <2>3. r \notin Delivered[t]
    BY <1>2, <1>6, <2>1, <2>2 DEF Delivered
  <2>4. QED
    BY <2>1, <2>3
<1>8. ASSUME NEW u \in Tables
      PROVE  Delivered'[u] = IF u = t THEN src[t] ELSE Delivered[u]
  <2>1. CASE u = t
    <3>1. marks'[t] = high[j]
      BY <1>1, <1>2, <1>6 DEF TypeOK
    <3>2. Delivered'[t] = {r \in src[t] : MarkOf[r] <= high[j]}
      BY <1>3, <1>5, <1>6, <3>1 DEF Delivered
    <3>3. QED
      BY <1>4, <2>1, <3>2
  <2>2. CASE u # t
    <3>1. marks'[u] = marks[u]
      BY <1>1, <1>2, <1>6, <2>2 DEF TypeOK
    <3>2. QED
      BY <1>5, <2>2, <3>1 DEF Delivered
  <2>3. QED
    BY <2>1, <2>2
<1>9. Delivered' = [Delivered EXCEPT ![t] = src[t]]
  BY <1>6, <1>8 DEF Delivered
<1>10. QED
  BY <1>1, <1>7, <1>9 DEF Copied!Copy, t

(* With sources that rest during a run, each step of the extraction is a step *)
(* of the abstract copy or changes nothing of it: a table moves to all that   *)
(* its source holds, and only when its MERGE commits.                         *)
THEOREM StepsAreCopies ==
    ASSUME ~SeedDuringRun, ~CatalogCheckMayFail
    PROVE  Spec => Copied!Init /\ [][Copied!Next]_<<src, Delivered>>
<1>1. Init => Copied!Init
  BY DEF Init, Copied!Init, Delivered, BronzeRows
<1>2. ASSUME QuietInv, [Next]_vars
      PROVE  [Copied!Next]_<<src, Delivered>>
  <2>1. ASSUME UNCHANGED <<src, bronze, marks>>
        PROVE  UNCHANGED <<src, Delivered>>
    BY <2>1 DEF Delivered, BronzeRows
  <2>2. ASSUME NEW d \in Databases, SourceCommit(d)
        PROVE  Copied!Grow
    <3>1. TypeOK /\ UNCHANGED <<bronze, marks>>
      BY <1>2, <2>2, QuietTypes DEF SourceCommit
    <3>2. src' \in [Tables -> SUBSET Row] /\ \A t \in Tables : src[t] \subseteq src'[t]
      <4>1. src \in [Tables -> SUBSET Row]
        BY <3>1 DEF TypeOK
      <4>2. PICK batch \in SUBSET Row :
                src' = [t \in Tables |-> IF t \in d THEN src[t] \union batch ELSE src[t]]
        BY <2>2 DEF SourceCommit
      <4>3. QED
        BY <4>1, <4>2
    <3>3. QED
      BY <3>1, <3>2 DEF Copied!Grow, Delivered, BronzeRows
  <2>3. ASSUME NEW j \in Jobs, AppendRows(j)
        PROVE  UNCHANGED <<src, Delivered>>
    BY <1>2, <2>3, AppendStutters
  <2>4. ASSUME NEW j \in Jobs, MergeWatermark(j)
        PROVE  Copied!Next
    <3>1. Table(j) \in Tables /\ Copied!Copy(Table(j))
      BY <1>2, <2>4, MergeCopies, QuietTypes, TableType
    <3>2. QED
      BY <3>1 DEF Copied!Next
  <2>5. CASE UNCHANGED <<src, bronze, marks>>
    BY <2>1, <2>5
  <2>6. QED
    BY <1>2, <2>2, <2>3, <2>4, <2>5
       DEF Next, JobStep, vars, StartRun, Crash, GetWatermark, CountRows, ReadMax,
           ScanWatermarks, MergeConflict, Copied!Next
<1>3. QED
  BY <1>1, <1>2, QuietInvariant, PTL DEF Spec
=============================================================================
