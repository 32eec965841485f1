------------------------------ MODULE Replica ------------------------------
(***************************************************************************)
(* What incremental extraction promises, with no job, watermark or retry   *)
(* in sight: a copy of each append-only table that only ever moves to the  *)
(* whole of what the source holds, and that never stays behind for good.   *)
(***************************************************************************)
CONSTANTS Tables, Row
VARIABLES src,     \* the rows of each source table
          copied   \* the rows of each table that have been delivered

Init ==
    /\ src = [t \in Tables |-> {}]
    /\ copied = [t \in Tables |-> {}]

Grow ==
    /\ src' \in [Tables -> SUBSET Row]
    /\ \A t \in Tables : src[t] \subseteq src'[t]
    /\ UNCHANGED copied

Copy(t) ==
    /\ copied[t] # src[t]
    /\ copied' = [copied EXCEPT ![t] = src[t]]
    /\ UNCHANGED src

Next == Grow \/ \E t \in Tables : Copy(t)

Spec == Init /\ [][Next]_<<src, copied>> /\ \A t \in Tables : WF_<<src, copied>>(Copy(t))
=============================================================================
