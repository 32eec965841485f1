------------------------------- MODULE Ingest -------------------------------
(***************************************************************************)
(* The sources of Sources together with what the Bronze jobs take from     *)
(* them: when an extraction has nothing left to read, does Bronze hold     *)
(* what Silver needs?                                                      *)
(*                                                                         *)
(* A job evaluates its query three times: it counts the rows past its      *)
(* watermark, appends them, and asks for their maximum.  Commits of the    *)
(* generator and the seeder fall anywhere between, and an attempt may die  *)
(* after any of them.                                                      *)
(*                                                                         *)
(* The watermark is read, and for the exchange rates the file is listed,   *)
(* before the count.  Both are one step with it here: only the job itself  *)
(* stores its watermark, and the count decides nothing but whether there   *)
(* is anything to append, so that a count of 0 is the same as no attempt.  *)
(***************************************************************************)
EXTENDS Sources, Integers

VARIABLES bronze,    \* the rows extracted from each table
          marks,     \* the stored watermark of each table, 0 when absent
          phase,     \* what the extraction of each table does next, or "idle"
          listed,    \* the rows of the exchange-rate file when its reader listed it
          overtaken, \* history: tables committed to under their extraction
          doubt      \* history: for each table, marks such an extraction passed

extraction == <<bronze, marks, phase, listed, doubt>>
varsIngest == <<extraction, overtaken>>

Extracted == {"customers", "orders", "exchange_rates"}

Rows(t) ==
    CASE t = "customers"      -> customers
      [] t = "orders"         -> orders
      [] t = "exchange_rates" -> fx

Mark(t, r) ==
    CASE t = "customers"      -> r.id
      [] t = "orders"         -> r.day
      [] t = "exchange_rates" -> r[1]

(* What a query meets.  A reader of the file goes no further than the length   *)
(* it listed, and within it sees what the file has become.                     *)
Seen(t) == IF t = "exchange_rates" /\ phase[t] # "idle" THEN fx \intersect listed ELSE Rows(t)

(* str(None), the maximum over no rows.  In SQL the word names no column, and   *)
(* cast to a date it is NULL: no row is past it.                               *)
NoMax == -1

New(t) == {r \in Seen(t) : marks[t] # NoMax /\ Mark(t, r) > marks[t]}

Readable(t) ==
    CASE t = "customers"      -> mysql = "ready"
      [] t = "orders"         -> postgres = "ready"
      [] t = "exchange_rates" -> TRUE

MutHighestNew(t) ==          \* the watermark names the next value expected
    IF New(t) = {} THEN NoMax ELSE Max({Mark(t, r) : r \in New(t)}) + 1

HighestNew(t) == IF New(t) = {} THEN NoMax ELSE Max({Mark(t, r) : r \in New(t)})

(* The days of which a part, and not all, is among the rows.                   *)
PartDays(rows) == {r[1] : r \in {s \in rows : \E q \in 1..Quotes : <<s[1], q>> \notin rows}}

(* The marks that the watermark now goes past without Bronze being sure to     *)
(* hold their rows.                                                            *)
Passed(t) ==
    (IF t \in overtaken THEN (marks[t] + 1)..HighestNew(t) ELSE {})
        \union (IF t = "exchange_rates" THEN PartDays(listed) ELSE {})

Finish(t) ==
    /\ phase' = [phase EXCEPT ![t] = "idle"]
    /\ listed' = IF t = "exchange_rates" THEN {} ELSE listed
    /\ overtaken' = overtaken \ {t}

CountRows(t) ==
    /\ phase[t] = "idle" /\ Readable(t)
    /\ New(t) # {}
    /\ phase' = [phase EXCEPT ![t] = "append"]
    /\ listed' = IF t = "exchange_rates" THEN fx ELSE listed
    /\ UNCHANGED <<vars, bronze, marks, overtaken, doubt>>

(* The query runs again, and appends what it finds now, be it nothing.         *)
AppendRows(t) ==
    /\ phase[t] = "append" /\ Readable(t)
    /\ bronze' = [bronze EXCEPT ![t] = @ \union New(t)]
    /\ phase' = [phase EXCEPT ![t] = "max"]
    /\ UNCHANGED <<vars, marks, listed, overtaken, doubt>>

(* And once more, for the maximum.                                             *)
SetWatermark(t) ==
    /\ phase[t] = "max" /\ Readable(t)
    /\ marks' = [marks EXCEPT ![t] = HighestNew(t)]
    /\ doubt' = [doubt EXCEPT ![t] = @ \union Passed(t)]
    /\ Finish(t)
    /\ UNCHANGED <<vars, bronze>>

(* The attempt dies, or its query meets a table that was dropped.              *)
ExtractFails(t) ==
    /\ phase[t] # "idle"
    /\ Finish(t)
    /\ UNCHANGED <<vars, bronze, marks, doubt>>

Extract(t) == CountRows(t) \/ AppendRows(t) \/ SetWatermark(t) \/ ExtractFails(t)

(* A commit overtakes an extraction when it removes rows that were counted, or *)
(* changes in any way what the append has read.                                *)
Overtakes(t) ==
    \/ phase[t] = "append" /\ ~(Seen(t) \subseteq Seen(t)')
    \/ phase[t] = "max" /\ Seen(t)' # Seen(t)

SourceStep ==
    /\ Next
    /\ UNCHANGED extraction
    /\ overtaken' = overtaken \union {t \in Extracted : Overtakes(t)}

InitIngest ==
    /\ Init
    /\ bronze = [t \in Extracted |-> {}]
    /\ marks = [t \in Extracted |-> 0]
    /\ phase = [t \in Extracted |-> "idle"]
    /\ listed = {}
    /\ overtaken = {}
    /\ doubt = [t \in Extracted |-> {}]

NextIngest == SourceStep \/ \E t \in Extracted : Extract(t)

SpecIngest == InitIngest /\ [][NextIngest]_<<vars, varsIngest>>

-----------------------------------------------------------------------------
Settled  == pc = "idle" /\ ~reloading /\ ~broken

(* The next extraction of each table finds nothing to append, and says so.     *)
CaughtUp ==
    \A t \in Extracted :
        /\ phase[t] = "idle" /\ New(t) = {}
        /\ t # "exchange_rates" => marks[t] # NoMax

Lost(t, r) == marks[t] = NoMax \/ Mark(t, r) \in doubt[t]

(* A row that Bronze does not hold lies above its table's watermark, so that a *)
(* later extraction finds it, whichever program died and whatever was          *)
(* extracted meanwhile.  Rows are lost in two ways only: an extraction was     *)
(* overtaken by a commit to its table, or read the exchange-rate file while    *)
(* the generator was in the middle of a day.  It holds until the generator is  *)
(* run after a seed, or the seeder after a load that did not finish.           *)
MissingRowsArePast ==
    ~reset =>
        \A t \in Extracted : \A r \in Rows(t) \ bronze[t] :
            Mark(t, r) > marks[t] \/ Lost(t, r)

Complete ==
    \A o \in orders :
        /\ o \in bronze["orders"] \/ Lost("orders", o)
        /\ \E c \in customers :
              /\ c.id = o.customer
              /\ c.id \in Ids(bronze["customers"]) \/ Lost("customers", c)
        /\ \A q \in 1..Quotes :
              <<o.day, q>> \in bronze["exchange_rates"]
                  \/ Lost("exchange_rates", <<o.day, q>>)

(* When the last program finished and every extraction reports nothing new,    *)
(* each order is in Bronze with its customer and its rates, so that            *)
(* transform_orders quarantines none for a missing customer or conversion, in  *)
(* whatever order seeds and extractions interleaved before: all but the rows   *)
(* lost in the two ways above.                                                 *)
NothingLeftBehind == Settled /\ CaughtUp /\ ~reset => Complete

(* The same after the sources were reset by running the generator again, as    *)
(* seed_incremental.py:36-38 tells its user to do for a clean baseline.        *)
ResetStartsClean == Settled /\ CaughtUp => Complete

(* A watermark is a value of its column: "callers must NOT call this when zero *)
(* new rows were read" (incremental.py:55-57), and each job counts first.      *)
WatermarkIsAValue == \A t \in Extracted : marks[t] # NoMax
=============================================================================
