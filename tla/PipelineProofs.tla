--------------------------- MODULE PipelineProofs ---------------------------
(* Proofs about Pipeline, for any Gold jobs, outcomes of runs, retries and    *)
(* lost attempts.                                                             *)
EXTENDS Pipeline, TLAPS

FunctionInv ==
    /\ TypeOK
    /\ DOMAIN silver = SilverTables
    /\ DOMAIN quarantine = SilverTables
    /\ DOMAIN gold = GoldTables

-----------------------------------------------------------------------------
LEMMA TasksAreDistinct ==
    /\ \A t \in SilverTables : Transform(t) \in Tasks /\ Transform(t) # Gate /\ Transform(t) # Validate
    /\ \A g \in GoldTables : Compute(g) \in Tasks /\ Compute(g) # Gate /\ Compute(g) # Validate
    /\ \A t \in SilverTables, g \in GoldTables : Transform(t) # Compute(g)
    /\ \A t, u \in SilverTables : Transform(t) = Transform(u) => t = u
    /\ \A g, h \in GoldTables : Compute(g) = Compute(h) => g = h
    /\ \A k \in Extracts : /\ k \in Tasks /\ k # Gate /\ k # Validate
                           /\ \A t \in SilverTables : k # Transform(t)
                           /\ \A g \in GoldTables : k # Compute(g)
    /\ Gate \in Tasks /\ Validate \in Tasks /\ Gate # Validate
<1>1. \A t \in SilverTables : Transform(t) \in Tasks /\ Transform(t) # Gate /\ Transform(t) # Validate
  BY DEF Transform, Gate, Validate, Tasks, Transforms
<1>2. \A g \in GoldTables : Compute(g) \in Tasks /\ Compute(g) # Gate /\ Compute(g) # Validate
  BY DEF Compute, Gate, Validate, Tasks, Computes
<1>3. \A t \in SilverTables, g \in GoldTables : Transform(t) # Compute(g)
  BY DEF Transform, Compute
<1>4. \A t, u \in SilverTables : Transform(t) = Transform(u) => t = u
  BY DEF Transform
<1>5. \A g, h \in GoldTables : Compute(g) = Compute(h) => g = h
  BY DEF Compute
<1>6. \A k \in Extracts : /\ k \in Tasks /\ k # Gate /\ k # Validate
                          /\ \A t \in SilverTables : k # Transform(t)
                          /\ \A g \in GoldTables : k # Compute(g)
  BY DEF Extracts, Extract, Tasks, Gate, Validate, Transform, Compute
<1>7. Gate \in Tasks /\ Validate \in Tasks /\ Gate # Validate
  BY DEF Tasks, Gate, Validate
<1>8. QED BY <1>1, <1>2, <1>3, <1>4, <1>5, <1>6, <1>7

LEMMA FinishingTasks == Transforms \union Computes \subseteq Tasks
BY DEF Tasks

LEMMA SilverIsRead ==
    ASSUME NEW g \in GoldTables
    PROVE  Reads(g) \subseteq SilverTables
BY GoldAssumption DEF Reads, GoldJobs, SilverTables

(* What an attempt of k that fails leaves of the scheduler's state. *)
LEMMA FailedAttemptType ==
    ASSUME TypeOK, NEW k \in Tasks, AttemptFails(k)
    PROVE  /\ state' \in [Tasks -> Ended \union {"waiting", "running"}]
           /\ tries' \in [Tasks -> 0..Retries]
           /\ step' \in [SilverTables -> {"drop", "create", "drop_quarantine", "create_quarantine", "finish"}]
<1>1. tries[k] \in 0..Retries /\ Retries \in Nat
  BY FailureAssumption DEF TypeOK
<1>2. (IF tries[k] < Retries THEN tries[k] + 1 ELSE 0) \in 0..Retries
  BY <1>1
<1>3. tries' \in [Tasks -> 0..Retries]
  BY <1>2 DEF TypeOK, AttemptFails
<1>4. state' \in [Tasks -> Ended \union {"waiting", "running"}]
  BY DEF TypeOK, AttemptFails, Ended
<1>5. step' \in [SilverTables -> {"drop", "create", "drop_quarantine", "create_quarantine", "finish"}]
  BY DEF TypeOK, AttemptFails
<1>6. QED BY <1>3, <1>4, <1>5

LEMMA SuccessType ==
    ASSUME TypeOK, NEW k \in Tasks, TaskSucceeds(k)
    PROVE  /\ state' \in [Tasks -> Ended \union {"waiting", "running"}]
           /\ tries' \in [Tasks -> 0..Retries]
BY FailureAssumption DEF TypeOK, TaskSucceeds, Ended

LEMMA OutcomeType ==
    ASSUME FunctionInv, NEW t \in SilverTables
    PROVE  outcome[t].good \in Rows /\ outcome[t].bad \in Rows /\ Missing \in Rows
<1>1. outcome[t] \in [good : Nat, bad : Nat]
  BY OutcomeAssumption DEF FunctionInv, TypeOK
<1>2. QED BY <1>1 DEF Rows

(* The types are kept by each step of the scheduler and of the tasks. *)
LEMMA TypeStep ==
    ASSUME FunctionInv, [Next]_vars
    PROVE  FunctionInv'
<1> USE DEF FunctionInv
<1>1. CASE StartRun
  BY <1>1, FailureAssumption DEF StartRun, tables, TypeOK, Ended
<1>2. ASSUME NEW k \in Extracts, RunExtract(k) PROVE FunctionInv'
  BY <1>2, TasksAreDistinct, SuccessType DEF RunExtract, tables, TypeOK
<1>3. ASSUME NEW t \in SilverTables, DropSilver(t) PROVE FunctionInv'
  BY <1>3, TasksAreDistinct, OutcomeType DEF DropSilver, TypeOK
<1>4. ASSUME NEW t \in SilverTables, CreateSilver(t) PROVE FunctionInv'
  BY <1>4, OutcomeType DEF CreateSilver, TypeOK
<1>5. ASSUME NEW t \in SilverTables, DropQuarantine(t) PROVE FunctionInv'
  BY <1>5, OutcomeType DEF DropQuarantine, TypeOK
<1>6. ASSUME NEW t \in SilverTables, CreateQuarantine(t) PROVE FunctionInv'
  BY <1>6, OutcomeType DEF CreateQuarantine, TypeOK
<1>7. CASE RunGate
  <2>1. /\ state' \in [Tasks -> Ended \union {"waiting", "running"}]
        /\ tries' \in [Tasks -> 0..Retries]
        /\ step' \in [SilverTables -> {"drop", "create", "drop_quarantine", "create_quarantine", "finish"}]
    BY <1>7, TasksAreDistinct, SuccessType, FailedAttemptType DEF RunGate, TypeOK
  <2>2. violations' \subseteq SilverTables
    BY <1>7 DEF RunGate
  <2>3. QED BY <1>7, <2>1, <2>2 DEF RunGate, tables, TypeOK
<1>8. ASSUME NEW g \in GoldTables, ComputeGold(g) PROVE FunctionInv'
  <2>1. \A h \in GoldTables : gold'[h] = IF h = g THEN [t \in Reads(g) |-> silver[t]] ELSE gold[h]
    BY <1>8 DEF ComputeGold
  <2>2. empty' \subseteq GoldTables /\ state' \in [Tasks -> Ended \union {"waiting", "running"}]
    BY <1>8 DEF ComputeGold, TypeOK
  <2>3. QED BY <1>8, <2>1, <2>2 DEF ComputeGold, TypeOK
<1>9. CASE ValidateGold
  <2>1. /\ state' \in [Tasks -> Ended \union {"waiting", "running"}]
        /\ tries' \in [Tasks -> 0..Retries]
        /\ step' \in [SilverTables -> {"drop", "create", "drop_quarantine", "create_quarantine", "finish"}]
    BY <1>9, TasksAreDistinct, SuccessType, FailedAttemptType DEF ValidateGold, TypeOK
  <2>2. QED BY <1>9, <2>1 DEF ValidateGold, tables, TypeOK
<1>10. ASSUME NEW k \in Tasks, SkipTask(k) PROVE FunctionInv'
  BY <1>10 DEF SkipTask, tables, TypeOK, Ended
<1>11. ASSUME NEW k \in Tasks, TaskFails(k) PROVE FunctionInv'
  <2>1. /\ state' \in [Tasks -> Ended \union {"waiting", "running"}]
        /\ tries' \in [Tasks -> 0..Retries]
        /\ step' \in [SilverTables -> {"drop", "create", "drop_quarantine", "create_quarantine", "finish"}]
    BY <1>11, FailedAttemptType DEF TaskFails
  <2>2. failures' \in 0..MaxFailures
    BY <1>11, FailureAssumption DEF TaskFails, TypeOK
  <2>3. QED BY <1>11, <2>1, <2>2 DEF TaskFails, tables, TypeOK
<1>12. ASSUME NEW k \in Transforms \union Computes, FinishTask(k) PROVE FunctionInv'
  BY <1>12, FinishingTasks, SuccessType DEF FinishTask, tables, TypeOK
<1>13. CASE UNCHANGED vars
  BY <1>13 DEF vars, tables, TypeOK
<1>14. QED
  BY <1>1, <1>2, <1>3, <1>4, <1>5, <1>6, <1>7, <1>8, <1>9, <1>10, <1>11, <1>12, <1>13
     DEF Next, TaskStep

(* Every reachable state is well-typed: a task's retries never exceed the     *)
(* limit, and a Gold table is made of the Silver tables its job reads.        *)
THEOREM TypeCorrect == Spec => []TypeOK
<1>1. Init => FunctionInv
  BY FailureAssumption DEF Init, FunctionInv, TypeOK, Ended, Rows, Missing
<1>2. FunctionInv /\ [Next]_vars => FunctionInv'
  BY TypeStep
<1>3. FunctionInv => TypeOK
  BY DEF FunctionInv
<1>4. QED BY <1>1, <1>2, <1>3, PTL DEF Spec

-----------------------------------------------------------------------------
(* Within a run, what is over stays over: a task that runs or is done has all *)
(* of its upstream tasks done, and what those wrote is what the run found.    *)

UpstreamDone ==
    \A u, k \in Tasks :
        <<u, k>> \in Edges /\ state[k] \in {"running", "success"} => state[u] = "success"

WroteInv ==
    \A t \in SilverTables :
        /\ state[Transform(t)] = "running"
              /\ step[t] \in {"drop_quarantine", "create_quarantine", "finish"}
              => silver[t] = outcome[t].good
        /\ (state[Transform(t)] = "running" /\ step[t] = "finish") \/ Done(Transform(t)) =>
              /\ silver[t] = outcome[t].good
              /\ outcome[t].bad > 0 => quarantine[t] = outcome[t].bad

Begun(k) == state[k] \in {"running", "success"}

GoldInv ==
    \A g \in GoldTables :
        Begun(Compute(g)) => gold[g] = [t \in Reads(g) |-> outcome[t].good]

Within(t) == 20000 * outcome[t].bad <= (2 * Threshold(t) + 1) * Total(t)

GateInv ==
    Done(Gate) =>
        /\ violations = {}
        /\ ~ErrorMayLookMissing => \A t \in SilverTables : Within(t)

ValidInv ==
    Done(Validate) => \A g \in GoldTables : g \notin empty

RunInv == UpstreamDone /\ WroteInv /\ GoldInv /\ GateInv /\ ValidInv

IInv == FunctionInv /\ RunInv

(* A step changes the state of one task, and that task was not done. *)
Moves(k) ==
    /\ \A j \in Tasks : j # k => state'[j] = state[j]
    /\ ~Done(k)
    /\ state'[k] \in {"running", "success"} =>
          \A u \in Tasks : <<u, k>> \in Edges => state[u] = "success"

LEMMA FailureMoves ==
    ASSUME FunctionInv, NEW k \in Tasks, AttemptFails(k), ~Done(k)
    PROVE  Moves(k) /\ state'[k] \in {"waiting", "failed"}
BY DEF AttemptFails, Moves, FunctionInv, TypeOK

LEMMA ReadyMoves ==
    ASSUME FunctionInv, NEW k \in Tasks, Ready(k), NEW v, state' = [state EXCEPT ![k] = v]
    PROVE  Moves(k) /\ state'[k] = v
BY DEF Ready, Moves, FunctionInv, TypeOK, Upstream, Done

LEMMA RunningMoves ==
    ASSUME FunctionInv, UpstreamDone, NEW k \in Tasks, state[k] = "running",
           NEW v, state' = [state EXCEPT ![k] = v] \/ state' = state
    PROVE  Moves(k)
BY DEF Moves, FunctionInv, TypeOK, UpstreamDone, Done

LEMMA MovesKeep ==
    ASSUME UpstreamDone, NEW k \in Tasks, Moves(k)
    PROVE  UpstreamDone'
BY DEF Moves, UpstreamDone, Done

LEMMA FailedRunningMoves ==
    ASSUME FunctionInv, NEW k \in Tasks, TaskFails(k)
    PROVE  Moves(k) /\ state'[k] \in {"waiting", "failed"}
BY FailureMoves DEF TaskFails, Ready, Done

LEMMA SkipMoves ==
    ASSUME FunctionInv, NEW k \in Tasks, SkipTask(k)
    PROVE  Moves(k) /\ state'[k] = "upstream_failed"
BY DEF SkipTask, Moves, FunctionInv, TypeOK, Done

(* The gate runs and passes only after every transform. *)
LEMMA GateIsLast ==
    ASSUME UpstreamDone, Ready(Gate) \/ Done(Gate)
    PROVE  \A t \in SilverTables : Done(Transform(t))
<1>1. <<Transform("order_items"), Gate>> \in Edges
  BY DEF Edges, Layers
<1>2. Done(Transform("order_items"))
  BY <1>1, TasksAreDistinct DEF UpstreamDone, Done, Ready, Upstream, SilverTables
<1>3. /\ <<Transform("orders"), Transform("order_items")>> \in Edges
      /\ <<Transform("products"), Transform("order_items")>> \in Edges
      /\ <<Transform("customers"), Transform("orders")>> \in Edges
      /\ <<Transform("exchange_rates"), Transform("orders")>> \in Edges
  BY DEF Edges
<1>4. Done(Transform("orders")) /\ Done(Transform("products"))
  BY <1>2, <1>3, TasksAreDistinct DEF UpstreamDone, Done, SilverTables
<1>5. Done(Transform("customers")) /\ Done(Transform("exchange_rates"))
  BY <1>3, <1>4, TasksAreDistinct DEF UpstreamDone, Done, SilverTables
<1>6. QED BY <1>2, <1>4, <1>5 DEF SilverTables

(* Gold runs only past the gate, and validation only after all of Gold. *)
LEMMA GoldIsPastTheGate ==
    ASSUME UpstreamDone, NEW g \in GoldTables, Ready(Compute(g)) \/ Begun(Compute(g))
    PROVE  Done(Gate)
<1>1. <<Gate, Compute(g)>> \in Edges
  BY DEF Edges, Layers, Computes
<1>2. QED BY <1>1, TasksAreDistinct DEF UpstreamDone, Done, Begun, Ready, Upstream

LEMMA ValidationIsLast ==
    ASSUME UpstreamDone, Ready(Validate) \/ Done(Validate), NEW g \in GoldTables
    PROVE  Done(Compute(g))
<1>1. <<Compute(g), Validate>> \in Edges
  BY DEF Edges, Layers, Computes
<1>2. QED BY <1>1, TasksAreDistinct DEF UpstreamDone, Done, Ready, Upstream

-----------------------------------------------------------------------------
(* A rate that rounds to no more than the threshold exceeds it by less than   *)
(* half a hundredth of a percent.                                             *)
LEMMA DivisionBound ==
    ASSUME NEW x \in Nat, NEW y \in Nat \ {0}, NEW th \in Nat, x \div y <= th
    PROVE  x <= y * th + y - 1
OBVIOUS

LEMMA RateBound ==
    ASSUME NEW part \in Nat, NEW total \in Nat, part <= total, NEW th \in Nat,
           NEW rate \in Rounded(part, total), rate <= th
    PROVE  20000 * part <= (2 * th + 1) * total
<1>1. CASE total = 0
  BY <1>1
<1>2. CASE total # 0
  <2> DEFINE y == 2 * total
             x == 20000 * part + total
  <2>1. y \in Nat \ {0} /\ x \in Nat /\ x - 1 \in Nat
    BY <1>2
  <2>2. rate = x \div y \/ rate = (x - 1) \div y
    BY <1>2 DEF Rounded
  <2>3. x <= y * th + y - 1 \/ x - 1 <= y * th + y - 1
    <3> HIDE DEF x, y
    <3>1. CASE x \div y <= th
      BY <2>1, <3>1, DivisionBound
    <3>2. CASE (x - 1) \div y <= th
      BY <2>1, <3>2, DivisionBound
    <3>3. QED BY <2>2, <3>1, <3>2
  <2>4. x <= y * th + y
    <3>1. y * th \in Nat
      BY <2>1
    <3>2. QED BY <2>1, <2>3, <3>1
  <2>5. (2 * th + 1) * total = y * th + total
    OBVIOUS
  <2>6. y * th \in Nat
    BY <2>1
  <2>7. QED BY <2>4, <2>5, <2>6
<1>3. QED BY <1>1, <1>2

(* The gate lets a table through only if it is within its threshold.          *)
LEMMA GateBound ==
    ASSUME FunctionInv, ~ErrorMayLookMissing, NEW t \in SilverTables,
           silver[t] = outcome[t].good, outcome[t].bad > 0 => quarantine[t] = outcome[t].bad,
           NEW rate \in Rates(t), rate <= Threshold(t)
    PROVE  Within(t)
<1>1. outcome[t].good \in Nat /\ outcome[t].bad \in Nat
  BY OutcomeAssumption DEF FunctionInv, TypeOK
<1>2. Threshold(t) \in Nat
  BY DEF Threshold, SilverTables
<1>3. CASE outcome[t].bad = 0
  BY <1>1, <1>2, <1>3 DEF Within, Total
<1>4. CASE outcome[t].bad > 0
  <2>1. QuarantineCounts(t) = {outcome[t].bad}
    BY <1>1, <1>4 DEF QuarantineCounts, Missing
  <2>2. rate \in Rounded(outcome[t].bad, Total(t))
    BY <2>1 DEF Rates, Total
  <2>3. Total(t) \in Nat /\ outcome[t].bad <= Total(t)
    BY <1>1 DEF Total
  <2>4. QED BY <1>1, <1>2, <2>2, <2>3, RateBound DEF Within
<1>5. QED BY <1>1, <1>3, <1>4

-----------------------------------------------------------------------------
LEMMA StartRunKeeps ==
    ASSUME IInv, StartRun
    PROVE  RunInv'
<1>1. \A k \in Tasks : state'[k] = "waiting"
  BY DEF StartRun
<1>2. QED BY <1>1, TasksAreDistinct DEF RunInv, UpstreamDone, WroteInv, GoldInv, Begun, GateInv, ValidInv, Done

(* A task fails, or is skipped: its tables stay as they are. *)
LEMMA FailureKeeps ==
    ASSUME IInv, NEW k \in Tasks, Moves(k), state'[k] \notin {"running", "success"},
           UNCHANGED <<tables, outcome, violations>>,
           \A t \in SilverTables : k # Transform(t) => step'[t] = step[t]
    PROVE  RunInv'
<1>1. UpstreamDone'
  BY MovesKeep DEF IInv, RunInv
<1>2. WroteInv'
  BY TasksAreDistinct DEF IInv, RunInv, WroteInv, Moves, Done, tables
<1>3. GoldInv'
  BY TasksAreDistinct DEF IInv, RunInv, GoldInv, Begun, Moves, Done, tables
<1>4. GateInv'
  BY TasksAreDistinct DEF IInv, RunInv, GateInv, Moves, Done, Within, Total
<1>5. ValidInv'
  BY TasksAreDistinct DEF IInv, RunInv, ValidInv, Moves, Done, tables
<1>6. QED BY <1>1, <1>2, <1>3, <1>4, <1>5 DEF RunInv

(* An extract ends: nothing of what the invariant speaks of changes. *)
LEMMA ExtractKeeps ==
    ASSUME IInv, NEW k \in Extracts, RunExtract(k)
    PROVE  RunInv'
<1>1. k \in Tasks /\ Moves(k)
  BY TasksAreDistinct, ReadyMoves DEF RunExtract, TaskSucceeds, IInv
<1>2. UpstreamDone'
  BY <1>1, MovesKeep DEF IInv, RunInv
<1>3. WroteInv'
  BY <1>1, TasksAreDistinct DEF RunExtract, IInv, RunInv, WroteInv, Moves, Done, tables
<1>4. GoldInv'
  BY <1>1, TasksAreDistinct DEF RunExtract, IInv, RunInv, GoldInv, Begun, Moves, Done, tables
<1>5. GateInv'
  BY <1>1, TasksAreDistinct DEF RunExtract, IInv, RunInv, GateInv, Moves, Done, Within, Total
<1>6. ValidInv'
  BY <1>1, TasksAreDistinct DEF RunExtract, IInv, RunInv, ValidInv, Moves, Done, tables
<1>7. QED BY <1>2, <1>3, <1>4, <1>5, <1>6 DEF RunInv

(* A step of a transform changes its own tables, for which nothing is claimed *)
(* until they are written.                                                    *)
LEMMA TransformKeeps ==
    ASSUME IInv, NEW t \in SilverTables, Moves(Transform(t)),
           UNCHANGED <<gold, empty, outcome, violations>>,
           \A u \in SilverTables : u # t =>
               step'[u] = step[u] /\ silver'[u] = silver[u] /\ quarantine'[u] = quarantine[u],
           /\ state'[Transform(t)] = "running"
                 /\ step'[t] \in {"drop_quarantine", "create_quarantine", "finish"}
                 => silver'[t] = outcome[t].good
           /\ \/ state'[Transform(t)] = "running" /\ step'[t] = "finish"
              \/ state'[Transform(t)] = "success"
              =>
                 /\ silver'[t] = outcome[t].good
                 /\ outcome[t].bad > 0 => quarantine'[t] = outcome[t].bad
    PROVE  RunInv'
<1>1. UpstreamDone'
  BY TasksAreDistinct, MovesKeep DEF IInv, RunInv
<1>2. WroteInv'
  BY TasksAreDistinct DEF IInv, RunInv, WroteInv, Moves, Done
<1>3. GoldInv'
  BY TasksAreDistinct DEF IInv, RunInv, GoldInv, Begun, Moves, Done
<1>4. GateInv'
  BY TasksAreDistinct DEF IInv, RunInv, GateInv, Moves, Done, Within, Total
<1>5. ValidInv'
  BY TasksAreDistinct DEF IInv, RunInv, ValidInv, Moves, Done
<1>6. QED BY <1>1, <1>2, <1>3, <1>4, <1>5 DEF RunInv

LEMMA DropSilverKeeps ==
    ASSUME IInv, NEW t \in SilverTables, DropSilver(t)
    PROVE  RunInv'
<1>1. Moves(Transform(t)) /\ state'[Transform(t)] = "running"
  BY TasksAreDistinct, ReadyMoves DEF DropSilver, IInv
<1>2. step'[t] = "create"
  BY DEF DropSilver, IInv, FunctionInv, TypeOK
<1>3. \A u \in SilverTables : u # t =>
          step'[u] = step[u] /\ silver'[u] = silver[u] /\ quarantine'[u] = quarantine[u]
  BY DEF DropSilver, IInv, FunctionInv, TypeOK
<1>4. QED BY <1>1, <1>2, <1>3, TransformKeeps DEF DropSilver

LEMMA CreateSilverKeeps ==
    ASSUME IInv, NEW t \in SilverTables, CreateSilver(t)
    PROVE  RunInv'
<1>1. Moves(Transform(t)) /\ state'[Transform(t)] = "running"
  BY TasksAreDistinct, RunningMoves DEF CreateSilver, IInv, RunInv
<1>2. silver'[t] = outcome[t].good
  BY DEF CreateSilver, IInv, FunctionInv
<1>3. step'[t] = "finish" => ~(outcome[t].bad > 0)
  BY DEF CreateSilver, IInv, FunctionInv, TypeOK
<1>4. \A u \in SilverTables : u # t =>
          step'[u] = step[u] /\ silver'[u] = silver[u] /\ quarantine'[u] = quarantine[u]
  BY DEF CreateSilver, IInv, FunctionInv, TypeOK
<1>5. QED BY <1>1, <1>2, <1>3, <1>4, TransformKeeps DEF CreateSilver

LEMMA DropQuarantineKeeps ==
    ASSUME IInv, NEW t \in SilverTables, DropQuarantine(t)
    PROVE  RunInv'
<1>1. Moves(Transform(t)) /\ state'[Transform(t)] = "running"
  BY TasksAreDistinct, RunningMoves DEF DropQuarantine, IInv, RunInv
<1>2. silver'[t] = outcome[t].good
  BY DEF DropQuarantine, IInv, RunInv, WroteInv
<1>3. \A u \in SilverTables : u # t =>
          step'[u] = step[u] /\ silver'[u] = silver[u] /\ quarantine'[u] = quarantine[u]
  BY DEF DropQuarantine, IInv, FunctionInv, TypeOK
<1>4. step'[t] = "create_quarantine"
  BY DEF DropQuarantine, IInv, FunctionInv, TypeOK
<1>5. QED BY <1>1, <1>2, <1>3, <1>4, TransformKeeps DEF DropQuarantine

LEMMA CreateQuarantineKeeps ==
    ASSUME IInv, NEW t \in SilverTables, CreateQuarantine(t)
    PROVE  RunInv'
<1>1. Moves(Transform(t)) /\ state'[Transform(t)] = "running"
  BY TasksAreDistinct, RunningMoves DEF CreateQuarantine, IInv, RunInv
<1>2. silver'[t] = outcome[t].good /\ quarantine'[t] = outcome[t].bad
  BY DEF CreateQuarantine, IInv, RunInv, WroteInv, FunctionInv
<1>3. \A u \in SilverTables : u # t =>
          step'[u] = step[u] /\ silver'[u] = silver[u] /\ quarantine'[u] = quarantine[u]
  BY DEF CreateQuarantine, IInv, FunctionInv, TypeOK
<1>4. QED BY <1>1, <1>2, <1>3, TransformKeeps DEF CreateQuarantine

LEMMA GateFailureKeeps ==
    ASSUME IInv, Ready(Gate), AttemptFails(Gate), UNCHANGED <<tables, outcome>>
    PROVE  RunInv'
<1>1. Moves(Gate) /\ state'[Gate] \in {"waiting", "failed"}
  BY TasksAreDistinct, FailureMoves DEF IInv, Ready, Done
<1>2. \A t \in SilverTables : step'[t] = step[t]
  BY TasksAreDistinct DEF AttemptFails
<1>3. UpstreamDone'
  BY <1>1, TasksAreDistinct, MovesKeep DEF IInv, RunInv
<1>4. WroteInv'
  BY <1>1, <1>2, TasksAreDistinct DEF IInv, RunInv, WroteInv, Moves, Done, tables
<1>5. GoldInv'
  BY <1>1, TasksAreDistinct DEF IInv, RunInv, GoldInv, Begun, Moves, Done, tables
<1>6. GateInv'
  BY <1>1 DEF GateInv, Done
<1>7. ValidInv'
  BY <1>1, TasksAreDistinct DEF IInv, RunInv, ValidInv, Moves, Done, tables
<1>8. QED BY <1>3, <1>4, <1>5, <1>6, <1>7 DEF RunInv

LEMMA GateKeeps ==
    ASSUME IInv, RunGate
    PROVE  RunInv'
<1>1. PICK rate \in [SilverTables -> UNION {Rates(t) : t \in SilverTables}] :
          /\ \A t \in SilverTables : rate[t] \in Rates(t)
          /\ violations' = {t \in SilverTables : rate[t] > Threshold(t)}
  BY DEF RunGate
<1>2. CASE AttemptFails(Gate)
  BY <1>2, GateFailureKeeps DEF RunGate
<1>3. CASE violations' = {} /\ TaskSucceeds(Gate) /\ UNCHANGED step
  <2>1. Moves(Gate) /\ state'[Gate] = "success"
    BY <1>3, TasksAreDistinct, ReadyMoves DEF RunGate, TaskSucceeds, IInv
  <2>2. \A t \in SilverTables :
            /\ silver[t] = outcome[t].good
            /\ outcome[t].bad > 0 => quarantine[t] = outcome[t].bad
    BY GateIsLast DEF RunGate, IInv, RunInv, WroteInv
  <2>3. ASSUME ~ErrorMayLookMissing, NEW t \in SilverTables
        PROVE  Within(t)
    <3>1. rate[t] \in Rates(t) /\ ~(rate[t] > Threshold(t))
      BY <1>1, <1>3
    <3>2. rate[t] \in Int
      <4>1. \A q \in QuarantineCounts(t) : q \in Int
        BY DEF QuarantineCounts, IInv, FunctionInv, TypeOK, Rows, Missing
      <4>2. silver[t] \in Int
        BY DEF IInv, FunctionInv, TypeOK, Rows, Missing
      <4>3. PICK q \in QuarantineCounts(t) : rate[t] \in Rounded(q, silver[t] + q)
        BY <3>1 DEF Rates
      <4>4. q \in Int /\ silver[t] + q \in Int
        BY <4>1, <4>2
      <4> DEFINE n == silver[t] + q
      <4>5. CASE n = 0
        BY <4>3, <4>5 DEF Rounded
      <4>6. CASE n > 0
        <5>1. \A x, y \in Int : y > 0 => x \div y \in Int
          OBVIOUS
        <5>2. rate[t] = (20000 * q + n) \div (2 * n) \/ rate[t] = (20000 * q + n - 1) \div (2 * n)
          BY <4>3, <4>6 DEF Rounded
        <5>3. 20000 * q + n \in Int /\ 20000 * q + n - 1 \in Int /\ 2 * n \in Int /\ 2 * n > 0
          BY <4>4, <4>6
        <5> HIDE DEF n
        <5>4. QED BY <5>1, <5>2, <5>3
      <4>7. n >= 0
        <5>1. silver[t] >= 0
          BY <2>2, OutcomeAssumption DEF IInv, FunctionInv, TypeOK
        <5>2. q >= 0
          BY DEF QuarantineCounts, IInv, FunctionInv, TypeOK, Rows, Missing
        <5>3. QED BY <4>2, <4>4, <5>1, <5>2
      <4>8. QED BY <4>4, <4>5, <4>6, <4>7
    <3>3. Threshold(t) \in Int
      BY DEF Threshold, SilverTables
    <3>4. rate[t] <= Threshold(t)
      BY <3>1, <3>2, <3>3
    <3>5. QED BY <2>2, <2>3, <3>1, <3>4, GateBound DEF IInv
  <2>4. UpstreamDone'
    BY <2>1, TasksAreDistinct, MovesKeep DEF IInv, RunInv
  <2>5. WroteInv'
    BY <1>3, <2>1, TasksAreDistinct DEF RunGate, IInv, RunInv, WroteInv, Moves, Done, tables
  <2>6. GoldInv'
    <3>1. gold' = gold /\ outcome' = outcome
      BY DEF RunGate, tables
    <3>2. \A g \in GoldTables : Begun(Compute(g))' => Begun(Compute(g))
      BY <2>1, TasksAreDistinct DEF Moves, Begun
    <3>3. GoldInv
      BY DEF IInv, RunInv
    <3>4. QED BY <3>1, <3>2, <3>3 DEF GoldInv
  <2>7. GateInv'
    <3>1. outcome' = outcome
      BY DEF RunGate
    <3>2. QED BY <1>3, <2>3, <3>1 DEF GateInv, Within, Total
  <2>8. ValidInv'
    BY <2>1, TasksAreDistinct DEF RunGate, IInv, RunInv, ValidInv, Moves, Done, tables
  <2>9. QED BY <2>4, <2>5, <2>6, <2>7, <2>8 DEF RunInv
<1>4. QED BY <1>2, <1>3 DEF RunGate

LEMMA ComputeKeeps ==
    ASSUME IInv, NEW g \in GoldTables, ComputeGold(g)
    PROVE  RunInv'
<1>1. Moves(Compute(g)) /\ state'[Compute(g)] = "running"
  BY TasksAreDistinct, ReadyMoves DEF ComputeGold, IInv
<1>2. UpstreamDone'
  BY <1>1, TasksAreDistinct, MovesKeep DEF IInv, RunInv
<1>3. WroteInv'
  BY <1>1, TasksAreDistinct DEF ComputeGold, IInv, RunInv, WroteInv, Moves, Done
<1>4. GoldInv'
  <2>1. Done(Gate)
    BY GoldIsPastTheGate DEF ComputeGold, IInv, RunInv
  <2>2. \A t \in SilverTables : silver[t] = outcome[t].good
    BY <2>1, GateIsLast DEF IInv, RunInv, WroteInv
  <2>3. \A h \in GoldTables : gold'[h] = IF h = g THEN [t \in Reads(g) |-> silver[t]] ELSE gold[h]
    BY DEF ComputeGold, IInv, FunctionInv
  <2>4. [t \in Reads(g) |-> silver[t]] = [t \in Reads(g) |-> outcome[t].good]
    BY <2>2, SilverIsRead
  <2>5. outcome' = outcome
    BY DEF ComputeGold
  <2>6. ASSUME NEW h \in GoldTables, Begun(Compute(h))'
        PROVE  gold'[h] = [t \in Reads(h) |-> outcome[t].good]
    <3>1. CASE h = g
      BY <2>3, <2>4, <3>1
    <3>2. CASE h # g
      <4>1. Begun(Compute(h))
        BY <1>1, <2>6, <3>2, TasksAreDistinct DEF Moves, Begun
      <4>2. QED BY <2>3, <3>2, <4>1 DEF IInv, RunInv, GoldInv
    <3>3. QED BY <3>1, <3>2
  <2>7. QED BY <2>5, <2>6 DEF GoldInv
<1>5. GateInv'
  BY <1>1, TasksAreDistinct DEF ComputeGold, IInv, RunInv, GateInv, Moves, Done, Within, Total
<1>6. ValidInv'
  <2>1. ~Done(Validate)
    BY ValidationIsLast DEF ComputeGold, Ready, IInv, RunInv, Done
  <2>2. QED BY <1>1, <2>1, TasksAreDistinct DEF ValidInv, Moves, Done
<1>7. QED BY <1>2, <1>3, <1>4, <1>5, <1>6 DEF RunInv

LEMMA FinishKeeps ==
    ASSUME IInv, NEW k \in Transforms \union Computes, FinishTask(k)
    PROVE  RunInv'
<1>1. k \in Tasks /\ state[k] = "running" /\ UNCHANGED <<tables, outcome, violations>>
  BY FinishingTasks DEF FinishTask
<1>2. Moves(k) /\ state'[k] = "success"
  BY <1>1, RunningMoves DEF FinishTask, TaskSucceeds, IInv, RunInv, FunctionInv, TypeOK
<1>3. \A t \in SilverTables : k # Transform(t) => step'[t] = step[t]
  BY DEF FinishTask
<1>4. CASE k \in Transforms
  <2>1. PICK t \in SilverTables : k = Transform(t)
    BY <1>4 DEF Transforms
  <2>2. \A u \in SilverTables : u # t => k # Transform(u)
    BY <2>1, TasksAreDistinct
  <2>3. /\ silver[t] = outcome[t].good
        /\ outcome[t].bad > 0 => quarantine[t] = outcome[t].bad
    BY <1>1, <2>1 DEF FinishTask, IInv, RunInv, WroteInv
  <2>4. QED BY <1>1, <1>2, <1>3, <2>1, <2>2, <2>3, TransformKeeps DEF tables
<1>5. CASE k \in Computes
  <2>1. PICK g \in GoldTables : k = Compute(g)
    BY <1>5 DEF Computes
  <2>2. /\ k # Gate /\ k # Validate /\ \A t \in SilverTables : k # Transform(t)
    BY <2>1, TasksAreDistinct
  <2>3. UpstreamDone'
    BY <1>1, <1>2, MovesKeep DEF IInv, RunInv
  <2>4. WroteInv'
    BY <1>1, <1>2, <1>3, <2>2, TasksAreDistinct DEF IInv, RunInv, WroteInv, Moves, Done, tables
  <2>5. GoldInv'
    <3>1. \A h \in GoldTables : Begun(Compute(h))' => Begun(Compute(h))
      BY <1>1, <1>2, TasksAreDistinct DEF Moves, Begun
    <3>2. QED BY <1>1, <3>1 DEF tables, IInv, RunInv, GoldInv
  <2>6. GateInv'
    BY <1>1, <1>2, <2>2, TasksAreDistinct DEF IInv, RunInv, GateInv, Moves, Done, Within, Total
  <2>7. ValidInv'
    BY <1>1, <1>2, <2>2, TasksAreDistinct DEF IInv, RunInv, ValidInv, Moves, Done, tables
  <2>8. QED BY <2>3, <2>4, <2>5, <2>6, <2>7 DEF RunInv
<1>6. QED BY <1>4, <1>5

LEMMA ValidateKeeps ==
    ASSUME IInv, ValidateGold
    PROVE  RunInv'
<1>1. CASE AttemptFails(Validate)
  <2>1. Moves(Validate) /\ state'[Validate] \in {"waiting", "failed"}
    BY <1>1, TasksAreDistinct, FailureMoves DEF ValidateGold, IInv, Ready, Done
  <2>2. \A t \in SilverTables : step'[t] = step[t]
    BY <1>1, TasksAreDistinct DEF AttemptFails
  <2>3. QED BY <2>1, <2>2, TasksAreDistinct, FailureKeeps DEF ValidateGold
<1>2. CASE /\ \A g \in GoldTables : Populated(g)
           /\ TaskSucceeds(Validate) /\ UNCHANGED step
  <2>1. Moves(Validate) /\ state'[Validate] = "success"
    BY <1>2, TasksAreDistinct, ReadyMoves DEF ValidateGold, TaskSucceeds, IInv
  <2>2. UpstreamDone'
    BY <2>1, TasksAreDistinct, MovesKeep DEF IInv, RunInv
  <2>3. WroteInv'
    BY <1>2, <2>1, TasksAreDistinct DEF ValidateGold, IInv, RunInv, WroteInv, Moves, Done, tables
  <2>4. GoldInv'
    BY <2>1, TasksAreDistinct DEF ValidateGold, IInv, RunInv, GoldInv, Begun, Moves, Done, tables
  <2>5. GateInv'
    BY <2>1, TasksAreDistinct DEF ValidateGold, IInv, RunInv, GateInv, Moves, Done, Within, Total
  <2>6. ValidInv'
    BY <1>2 DEF ValidInv, ValidateGold, Populated, tables
  <2>7. QED BY <2>2, <2>3, <2>4, <2>5, <2>6 DEF RunInv
<1>3. QED BY <1>1, <1>2 DEF ValidateGold

LEMMA TaskFailureKeeps ==
    ASSUME IInv, NEW k \in Tasks, TaskFails(k)
    PROVE  RunInv'
<1>1. \A t \in SilverTables : k # Transform(t) => step'[t] = step[t]
  BY DEF TaskFails, AttemptFails
<1>2. QED BY <1>1, FailedRunningMoves, FailureKeeps DEF TaskFails, IInv

LEMMA SkipKeeps ==
    ASSUME IInv, NEW k \in Tasks, SkipTask(k)
    PROVE  RunInv'
BY SkipMoves, FailureKeeps DEF SkipTask, IInv

THEOREM InductiveInvariant == Spec => []IInv
<1>1. Init => IInv
  <2> SUFFICES ASSUME Init PROVE IInv
    OBVIOUS
  <2>1. FunctionInv
    BY FailureAssumption DEF Init, FunctionInv, TypeOK, Ended, Rows, Missing
  <2>2. \A k \in Tasks : state[k] = "no_run"
    BY DEF Init
  <2>3. RunInv
    BY <2>2, TasksAreDistinct DEF RunInv, UpstreamDone, WroteInv, GoldInv, Begun, GateInv, ValidInv, Done
  <2>4. QED BY <2>1, <2>3 DEF IInv
<1>2. IInv /\ [Next]_vars => IInv'
  <2> SUFFICES ASSUME IInv, [Next]_vars PROVE RunInv'
    BY TypeStep DEF IInv
  <2>1. CASE StartRun
    BY <2>1, StartRunKeeps
  <2>2. ASSUME NEW k \in Extracts, RunExtract(k) PROVE RunInv'
    BY <2>2, ExtractKeeps
  <2>3. ASSUME NEW t \in SilverTables,
               DropSilver(t) \/ CreateSilver(t) \/ DropQuarantine(t) \/ CreateQuarantine(t)
        PROVE  RunInv'
    BY <2>3, DropSilverKeeps, CreateSilverKeeps, DropQuarantineKeeps, CreateQuarantineKeeps
  <2>4. CASE RunGate
    BY <2>4, GateKeeps
  <2>5. ASSUME NEW g \in GoldTables, ComputeGold(g) PROVE RunInv'
    BY <2>5, ComputeKeeps
  <2>6. CASE ValidateGold
    BY <2>6, ValidateKeeps
  <2>7. ASSUME NEW k \in Tasks, SkipTask(k) PROVE RunInv'
    BY <2>7, SkipKeeps
  <2>8. ASSUME NEW k \in Tasks, TaskFails(k) PROVE RunInv'
    BY <2>8, TaskFailureKeeps
  <2>9. ASSUME NEW k \in Transforms \union Computes, FinishTask(k) PROVE RunInv'
    BY <2>9, FinishKeeps
  <2>10. CASE UNCHANGED vars
    BY <2>10 DEF vars, tables, IInv, RunInv, UpstreamDone, WroteInv, GoldInv, Begun, GateInv, ValidInv,
                 Done, Within, Total
  <2>11. QED
    BY <2>1, <2>2, <2>3, <2>4, <2>5, <2>6, <2>7, <2>8, <2>9, <2>10 DEF Next, TaskStep
<1>3. QED BY <1>1, <1>2, PTL DEF Spec

-----------------------------------------------------------------------------
(* The gate compares what this run wrote, whatever attempts died between a    *)
(* DROP and a create.                                                         *)
THEOREM GateComparesThisRun == Spec => []GateSeesThisRun
<1>1. IInv => GateSeesThisRun
  BY GateIsLast DEF IInv, RunInv, WroteInv, GateSeesThisRun
<1>2. QED BY <1>1, InductiveInvariant, PTL

(* Each Gold table of a run is computed from Silver tables of that run.       *)
THEOREM GoldIsOfOneRun == Spec => []GoldOfOneRun
<1>1. IInv => GoldOfOneRun
  <2> SUFFICES ASSUME IInv, NEW g \in GoldTables, Begun(Compute(g)), NEW t \in Reads(g)
               PROVE  gold[g][t] = outcome[t].good
    BY DEF GoldOfOneRun, Begun
  <2>1. gold[g] = [u \in Reads(g) |-> outcome[u].good]
    BY DEF IInv, RunInv, GoldInv
  <2>2. QED BY <2>1
<1>2. QED BY <1>1, InductiveInvariant, PTL

(* While a failing query never passes for a missing table, Gold is rewritten  *)
(* only in a run within its thresholds, for tables of any size.               *)
THEOREM ThresholdsAreEnforced ==
    ASSUME ~ErrorMayLookMissing
    PROVE  Spec => []GoldWithinThreshold
<1>1. IInv => GoldWithinThreshold
  BY GoldIsPastTheGate DEF IInv, RunInv, GateInv, GoldWithinThreshold, Begun, Within
<1>2. QED BY <1>1, InductiveInvariant, PTL

(* A green run has replaced every Gold table, and none is empty.              *)
THEOREM GreenRunsAreComplete == Spec => []GreenRunIsComplete
<1>1. IInv => GreenRunIsComplete
  BY ValidationIsLast DEF IInv, RunInv, GoldInv, Begun, Done, ValidInv, GreenRunIsComplete
<1>2. QED BY <1>1, InductiveInvariant, PTL

(* Only past the gate does a Gold table change.                               *)
THEOREM BlockedRunsKeepGold == Spec => GoldKeptWhenBlocked
<1>1. IInv /\ [Next]_vars => [gold' # gold => Done(Gate) /\ violations = {}]_vars
  <2> SUFFICES ASSUME IInv, Next, gold' # gold PROVE Done(Gate) /\ violations = {}
    BY DEF vars, tables
  <2>1. PICK g \in GoldTables : ComputeGold(g)
    BY DEF Next, TaskStep, StartRun, RunExtract, DropSilver, CreateSilver, DropQuarantine,
           CreateQuarantine, RunGate, FinishTask, ValidateGold, SkipTask, TaskFails, tables
  <2>2. Done(Gate)
    BY <2>1, GoldIsPastTheGate DEF ComputeGold, IInv, RunInv
  <2>3. QED BY <2>2 DEF IInv, RunInv, GateInv
<1>2. QED BY <1>1, InductiveInvariant, PTL DEF Spec, GoldKeptWhenBlocked
=============================================================================
