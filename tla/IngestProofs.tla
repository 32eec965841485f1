---------------------------- MODULE IngestProofs ----------------------------
(***************************************************************************)
(* Ingest for any number of rows, days, currencies, loads, seeds and       *)
(* deaths, with the generator and the seeder committing under the          *)
(* extractions: what Bronze misses lies past its watermark, but for rows   *)
(* that an overtaken extraction or a file cut within a day has lost, and   *)
(* an extraction that has caught up left nothing else behind.              *)
(*                                                                         *)
(* The argument has two phases.  Until the first seed the sources hold, of *)
(* each table, nothing or what a load always writes, and the file a prefix *)
(* of it; from then on, as long as nobody resets them, rows are only added *)
(* past the highest there is.                                              *)
(***************************************************************************)
EXTENDS Ingest, SourcesProofs

(* What a load writes into each table. *)
Loaded(t) ==
    CASE t = "customers"      -> [id : 1..Customers, seed : {0}]
      [] t = "orders"         -> Baseline
      [] t = "exchange_rates" -> Filled(Days)

(* The rows a table may hold before the next seed. *)
Base(t) == IF seeds = 0 THEN Loaded(t) ELSE Rows(t)

SeedsCounted == pc \in Seeding => seeds > 0

(* The sources before the first seed. *)
Unseeded ==
    /\ customers \in {{}, Loaded("customers")}
    /\ orders \in {{}, Baseline}
    /\ \E n \in 0..(Days * Quotes) : fx = Written(n)
    /\ pc \in {"create_orders", "copy_orders"} => customers = Loaded("customers")
    /\ ~reloading => \A t \in Extracted : Rows(t) = Loaded(t)

PhaseInv ==
    /\ SeedsCounted
    /\ seeds = 0 => Unseeded
    /\ ~reset => seeds = 0 \/ ~reloading

(* A row at or below the watermark is in Bronze, or known to be lost. *)
PastMark(t) ==
    marks[t] # NoMax => \A r \in Base(t) \ bronze[t] : Mark(t, r) > marks[t] \/ Lost(t, r)

(* A watermark is the mark of a row, so that what lies past all rows is past it. *)
MarkIsOfARow(t) == marks[t] \in {0, NoMax} \/ \E r \in Base(t) : Mark(t, r) = marks[t]

(* Of the days a reader listed, the file gains rows only of a day it listed in part. *)
ListedIsEarly ==
    phase["exchange_rates"] # "idle" =>
        /\ listed \subseteq Base("exchange_rates")
        /\ \A r \in Base("exchange_rates") \ listed : \A s \in listed :
              r[1] > s[1] \/ r[1] \in PartDays(listed)

BronzeInv ==
    ~reset => /\ ListedIsEarly
              /\ \A t \in Extracted : PastMark(t) /\ MarkIsOfARow(t)

(* What an extraction that was not overtaken has appended is what it asks the  *)
(* maximum of; and what its reader listed is still in the file.                *)
ReadInv ==
    /\ \A t \in Extracted : phase[t] = "max" /\ t \notin overtaken => New(t) \subseteq bronze[t]
    /\ phase["exchange_rates"] # "idle" /\ "exchange_rates" \notin overtaken => listed \subseteq fx

IngestTypes ==
    /\ DOMAIN bronze = Extracted
    /\ marks \in [Extracted -> Nat \union {NoMax}]
    /\ phase \in [Extracted -> {"idle", "append", "max"}]
    /\ DOMAIN doubt = Extracted

-----------------------------------------------------------------------------
(* The sources take the steps of Sources, whatever is extracted meanwhile. *)

LEMMA ExtractReads ==
    ASSUME NEW t \in Extracted, Extract(t)
    PROVE  UNCHANGED vars
BY DEF Extract, CountRows, AppendRows, SetWatermark, ExtractFails

LEMMA IngestSteps == [NextIngest]_<<vars, varsIngest>> => [Next]_vars
<1> SUFFICES ASSUME [NextIngest]_<<vars, varsIngest>> PROVE [Next]_vars
  OBVIOUS
<1>1. CASE UNCHANGED <<vars, varsIngest>>
  BY <1>1
<1>2. CASE SourceStep
  BY <1>2 DEF SourceStep
<1>3. CASE \E t \in Extracted : Extract(t)
  BY <1>3, ExtractReads
<1>4. QED
  BY <1>1, <1>2, <1>3 DEF NextIngest

(* Extracting changes nothing in the sources: what is proved of Sources holds *)
(* while the Bronze jobs read them.                                           *)
THEOREM ExtractionOnlyReads == SpecIngest => Spec
<1>1. InitIngest => Init
  BY DEF InitIngest
<1>2. QED
  BY <1>1, IngestSteps, PTL DEF SpecIngest, Spec

LEMMA SourcesInvariant == SpecIngest => [](TypeInv /\ CustomerInv /\ RatesInv)
BY ExtractionOnlyReads, RatesInvariant, PTL

-----------------------------------------------------------------------------
(* The sources before and after the first seed. *)

LEMMA NothingWritten == Written(0) = {}
<1>1. Quotes \in Nat \ {0}
  BY BaselineAssumption
<1>2. ASSUME NEW d \in 1..Days, NEW q \in 1..Quotes PROVE ~((d - 1) * Quotes + q <= 0)
  <2>1. (d - 1) * Quotes \in Nat
    BY <1>1
  <2>2. QED
    BY <2>1
<1>3. QED
  BY <1>2 DEF Written

LEMMA PhaseStep ==
    ASSUME CustomerInv, RatesInv, TypeOK, PhaseInv, Next
    PROVE  PhaseInv'
<1> USE DEF PhaseInv, SeedsCounted, Unseeded, Loading, Seeding
<1>0. /\ LoadFlagged /\ FileWritten /\ seeds \in Nat
      /\ Days * Quotes \in Nat /\ reset \in BOOLEAN /\ reloading \in BOOLEAN
  BY BaselineAssumption, LimitAssumption DEF CustomerInv, RatesInv, TypeOK
<1>1. CASE StartLoad
  <2>1. /\ seeds' = seeds /\ reloading' /\ pc' = "open_rates" /\ UNCHANGED tables
    BY <1>1 DEF StartLoad
  <2>2. ~reset' => seeds = 0
    <3>1. reset' = (reset \/ seeds > 0)
      BY <1>1 DEF StartLoad
    <3>2. CASE seeds > 0
      BY <3>1, <3>2
    <3>3. QED
      BY <1>0, <3>2
  <2>3. QED
    BY <2>1, <2>2 DEF tables
<1>2. CASE OpenRates
  <2>1. fx' = Written(0) /\ 0 \in 0..(Days * Quotes)
    BY <1>0, <1>2, NothingWritten DEF OpenRates
  <2>2. QED
    BY <1>0, <1>2, <2>1 DEF OpenRates, history, LoadFlagged
<1>3. CASE WriteRates
  <2>1. PICK n \in 1..(Days * Quotes) :
            fx' = Written(n) /\ pc' = IF n = Days * Quotes THEN "drop_customers" ELSE "rates"
    BY <1>3 DEF WriteRates
  <2>2. n \in 0..(Days * Quotes)
    BY <1>0
  <2>3. QED
    BY <1>0, <1>3, <2>1, <2>2 DEF WriteRates, history, LoadFlagged
<1>4. CASE DropCustomers
  BY <1>0, <1>4 DEF DropCustomers, history, LoadFlagged
<1>5. CASE CreateCustomers
  BY <1>0, <1>5 DEF CreateCustomers, history, LoadFlagged
<1>6. CASE InsertCustomers
  BY <1>0, <1>6 DEF InsertCustomers, history, LoadFlagged, Loaded
<1>7. CASE CreateOrders
  BY <1>0, <1>7 DEF CreateOrders, history, LoadFlagged
<1>8. CASE CopyOrders
  <2>1. /\ customers' = customers /\ orders' = Baseline /\ fx' = fx /\ pc' = "idle"
        /\ seeds' = seeds /\ reset' = reset /\ reloading' = FALSE
    BY <1>8 DEF CopyOrders, Stop
  <2>2. fx = Filled(Days) /\ pc = "copy_orders"
    BY <1>0, <1>8 DEF CopyOrders, FileWritten
  <2>3. ASSUME seeds = 0 PROVE \A t \in Extracted : Rows(t)' = Loaded(t)
    BY <2>1, <2>2, <2>3 DEF Extracted, Rows, Loaded
  <2>4. QED
    BY <2>1, <2>2, <2>3
<1>9. CASE StartSeed
  <2>1. seeds' > 0 /\ (~reset' => ~reloading')
    BY <1>0, <1>9 DEF StartSeed
  <2>2. QED
    BY <2>1
<1>10. CASE SeedCustomers \/ SeedOrders \/ AppendFx
  BY <1>0, <1>10 DEF SeedCustomers, SeedOrders, AppendFx, Stop, history
<1>11. CASE SeedRefused \/ Dies
  <2>1. UNCHANGED <<tables, seeds, reloading, reset>> /\ pc' = "idle"
    BY <1>11 DEF SeedRefused, Dies, Stop
  <2>2. \A t \in Extracted : Rows(t)' = Rows(t)
    BY <2>1 DEF tables, Rows, Extracted
  <2>3. QED
    BY <2>1, <2>2 DEF tables
<1>12. QED
  BY <1>1, <1>2, <1>3, <1>4, <1>5, <1>6, <1>7, <1>8, <1>9, <1>10, <1>11 DEF Next

LEMMA PhaseInvariant == SpecIngest => []PhaseInv
<1>1. Init => PhaseInv
  <2> SUFFICES ASSUME Init PROVE PhaseInv
    OBVIOUS
  <2>1. fx = Written(0) /\ 0 \in 0..(Days * Quotes)
    BY NothingWritten, BaselineAssumption DEF Init
  <2>2. QED
    BY <2>1 DEF Init, PhaseInv, SeedsCounted, Unseeded, Seeding
<1>2. CustomerInv /\ RatesInv /\ TypeInv /\ PhaseInv /\ [Next]_vars => PhaseInv'
  <2> SUFFICES ASSUME CustomerInv, RatesInv, TypeInv, PhaseInv, [Next]_vars PROVE PhaseInv'
    OBVIOUS
  <2>1. CASE UNCHANGED vars
    <3>1. \A t \in Extracted : Rows(t)' = Rows(t)
      BY <2>1 DEF vars, tables, Rows, Extracted
    <3>2. QED
      BY <2>1, <3>1 DEF vars, tables, history, PhaseInv, SeedsCounted, Unseeded
  <2>2. QED
    BY <2>1, PhaseStep DEF TypeInv
<1>3. QED
  BY <1>1, <1>2, ExtractionOnlyReads, SourcesInvariant, PTL DEF Spec

-----------------------------------------------------------------------------
(* Marks, and the highest of those an extraction finds new. *)

Marks(t, rows) == {Mark(t, r) : r \in rows}

LEMMA MarksOfRows ==
    ASSUME TypeInv, NEW t \in Extracted
    PROVE  Marks(t, Rows(t)) \in SUBSET Nat /\ Bounded(Marks(t, Rows(t)))
<1>1. /\ Ids(customers) \in SUBSET Nat /\ OrderDays \in SUBSET Nat /\ RateDays \in SUBSET Nat
      /\ BoundedRows
  BY RowTypes DEF TypeInv
<1>2. CASE t = "customers"
  <2>1. Marks(t, Rows(t)) = Ids(customers)
    BY <1>2 DEF Marks, Mark, Rows, Ids
  <2>2. QED
    BY <1>1, <2>1 DEF BoundedRows
<1>3. CASE t = "orders"
  <2>1. Marks(t, Rows(t)) = OrderDays
    BY <1>3 DEF Marks, Mark, Rows, OrderDays
  <2>2. QED
    BY <1>1, <2>1 DEF BoundedRows
<1>4. CASE t = "exchange_rates"
  <2>1. Marks(t, Rows(t)) = RateDays
    BY <1>4 DEF Marks, Mark, Rows, RateDays
  <2>2. QED
    BY <1>1, <2>1 DEF BoundedRows
<1>5. QED
  BY <1>2, <1>3, <1>4 DEF Extracted

(* The new maximum is the mark of a row that lies past the old one. *)
LEMMA HighestIsNew ==
    ASSUME TypeInv, NEW t \in Extracted, New(t) # {}
    PROVE  /\ HighestNew(t) \in Nat
           /\ \E r \in New(t) : HighestNew(t) = Mark(t, r)
           /\ \A r \in New(t) : Mark(t, r) <= HighestNew(t)
<1> DEFINE S == Marks(t, New(t))
<1>1. S \subseteq Marks(t, Rows(t))
  BY DEF Marks, New, Seen, Rows
<1>2. PICK n \in Nat : \A x \in Marks(t, Rows(t)) : x <= n
  BY MarksOfRows DEF Bounded
<1>3. S \in SUBSET Nat /\ S # {} /\ \A x \in S : x <= n
  <2>1. S # {}
    BY DEF Marks
  <2>2. QED
    BY <1>1, <1>2, <2>1, MarksOfRows
<1>4. Max(S) \in S /\ \A x \in S : x <= Max(S)
  <2> HIDE DEF S
  <2>1. QED
    BY <1>3, BoundedHasMax
<1>5. HighestNew(t) = Max(S)
  BY DEF HighestNew, Marks
<1>6. \A r \in New(t) : Mark(t, r) \in S
  BY DEF Marks
<1>7. \E r \in New(t) : Max(S) = Mark(t, r)
  BY <1>4 DEF Marks
<1>8. QED
  BY <1>3, <1>4, <1>5, <1>6, <1>7, Zenon

(* What a load writes lies past the watermark of a table never extracted. *)
LEMMA LoadedMarks ==
    ASSUME NEW t \in Extracted, NEW r \in Loaded(t)
    PROVE  Mark(t, r) \in Nat /\ Mark(t, r) > 0
<1>1. /\ Days \in Nat /\ Customers \in Nat
      /\ \A o \in Baseline : o.day \in 1..Days
  BY BaselineAssumption
<1>2. CASE t = "customers"
  <2>1. r.id \in 1..Customers
    BY <1>2 DEF Loaded
  <2>2. QED
    BY <1>1, <1>2, <2>1 DEF Mark
<1>3. CASE t = "orders"
  BY <1>1, <1>3 DEF Loaded, Mark
<1>4. CASE t = "exchange_rates"
  <2>1. r[1] \in 1..Days
    BY <1>4 DEF Loaded, Filled
  <2>2. QED
    BY <1>1, <1>4, <2>1 DEF Mark
<1>5. QED
  BY <1>2, <1>3, <1>4 DEF Extracted

LEMMA HighestTypes ==
    ASSUME TypeInv, NEW t \in Extracted
    PROVE  HighestNew(t) \in Nat \union {NoMax}
<1>1. CASE New(t) = {}
  BY <1>1 DEF HighestNew
<1>2. CASE New(t) # {}
  BY <1>2, HighestIsNew
<1>3. QED
  BY <1>1, <1>2

LEMMA TypesStep ==
    ASSUME TypeInv, IngestTypes, [NextIngest]_<<vars, varsIngest>>
    PROVE  IngestTypes'
<1> USE DEF IngestTypes
<1>1. CASE UNCHANGED varsIngest
  BY <1>1 DEF varsIngest, extraction
<1>2. CASE SourceStep
  BY <1>2 DEF SourceStep, extraction
<1>3. CASE \E t \in Extracted : Extract(t)
  <2>1. PICK t \in Extracted : Extract(t)
    BY <1>3
  <2>2. CASE CountRows(t)
    BY <2>2 DEF CountRows
  <2>3. CASE AppendRows(t)
    BY <2>3 DEF AppendRows
  <2>4. CASE SetWatermark(t)
    BY <2>4, HighestTypes DEF SetWatermark, Finish
  <2>5. CASE ExtractFails(t)
    BY <2>5 DEF ExtractFails, Finish
  <2>6. QED
    BY <2>1, <2>2, <2>3, <2>4, <2>5 DEF Extract
<1>4. QED
  BY <1>1, <1>2, <1>3 DEF NextIngest, varsIngest

LEMMA TypesInvariant == SpecIngest => []IngestTypes
<1>1. InitIngest => IngestTypes
  BY DEF InitIngest, IngestTypes, Extracted
<1>2. TypeInv /\ IngestTypes /\ [NextIngest]_<<vars, varsIngest>> => IngestTypes'
  BY TypesStep
<1>3. QED
  BY <1>1, <1>2, SourcesInvariant, PTL DEF SpecIngest

-----------------------------------------------------------------------------
(* What Bronze misses lies past its watermark. *)

LEMMA BaseHoldsRows ==
    ASSUME PhaseInv, NEW t \in {"customers", "orders"}
    PROVE  Rows(t) \subseteq Base(t) /\ (Rows(t) # {} => Base(t) = Rows(t))
BY DEF PhaseInv, Unseeded, Base, Rows, Loaded

LEMMA BaseHoldsRates ==
    ASSUME PhaseInv
    PROVE  Rows("exchange_rates") \subseteq Base("exchange_rates")
<1>1. CASE seeds = 0
  <2>1. PICK n \in 0..(Days * Quotes) : fx = Written(n)
    BY <1>1 DEF PhaseInv, Unseeded
  <2>2. fx \subseteq Filled(Days)
    BY <2>1 DEF Written, Filled
  <2>3. QED
    BY <1>1, <2>2 DEF Base, Rows, Loaded
<1>2. QED
  BY <1>1 DEF Base

LEMMA MarksOfBase ==
    ASSUME TypeInv, NEW t \in Extracted
    PROVE  \A r \in Base(t) : Mark(t, r) \in Nat
<1>1. \A r \in Rows(t) : Mark(t, r) \in Nat
  BY MarksOfRows DEF Marks
<1>2. QED
  BY <1>1, LoadedMarks DEF Base

(* New rows lie past all there are. *)
GrowsPast(t) ==
    /\ \A r \in Base(t)' \ Base(t) :
          /\ Mark(t, r) \in Nat /\ Mark(t, r) > 0
          /\ \A s \in Base(t) : Mark(t, r) > Mark(t, s)
    /\ Base(t) \subseteq Base(t)'

LEMMA SeededCustomers ==
    ASSUME TypeInv, SeedCustomers, seeds > 0
    PROVE  GrowsPast("customers")
<1> DEFINE new == Highest(Ids(customers)) + 1
           added == [id |-> new, seed |-> seeds]
<1>1. Ids(customers) \in SUBSET Nat /\ Bounded(Ids(customers)) /\ seeds \in Nat
  BY RowTypes, LimitAssumption DEF TypeInv, BoundedRows, TypeOK
<1>2. new \in Nat /\ new > 0 /\ \A x \in Ids(customers) : new > x
  <2>1. Highest(Ids(customers)) \in Nat /\ \A x \in Ids(customers) : x <= Highest(Ids(customers))
    BY <1>1, HighestBounds
  <2>2. QED
    BY <1>1, <2>1
<1>3. customers' = customers \union {added} /\ seeds' = seeds
  BY DEF SeedCustomers, history
<1>4. added.id = new
  OBVIOUS
<1> HIDE DEF new, added
<1>5. Base("customers") = customers /\ Base("customers")' = customers \union {added}
  BY <1>1, <1>3 DEF Base, Rows
<1>6. \A r \in customers : Mark("customers", r) \in Ids(customers)
  BY DEF Mark, Ids
<1>7. Mark("customers", added) = new
  BY <1>4 DEF Mark
<1>8. QED
  BY <1>2, <1>5, <1>6, <1>7 DEF GrowsPast

LEMMA SeededOrders ==
    ASSUME TypeInv, SeedOrders, seeds > 0
    PROVE  GrowsPast("orders")
<1>1. OrderDays \in SUBSET Nat /\ Bounded(OrderDays) /\ seeds \in Nat
  BY RowTypes, LimitAssumption DEF TypeInv, BoundedRows, TypeOK
<1>2. Highest(OrderDays) \in Nat /\ \A x \in OrderDays : x <= Highest(OrderDays)
  BY <1>1, HighestBounds
<1>3. PICK customer \in Seedable, day \in WindowStart..(WindowStart + Window - 1) :
          orders' = orders \union {[id |-> Highest(Ids(orders)) + 1, day |-> day,
                                    customer |-> customer, seed |-> seeds]}
  BY DEF SeedOrders
<1> DEFINE added == [id |-> Highest(Ids(orders)) + 1, day |-> day, customer |-> customer, seed |-> seeds]
<1>4. day \in Nat /\ day > 0 /\ \A x \in OrderDays : day > x
  BY <1>1, <1>2, <1>3, BaselineAssumption DEF WindowStart
<1>5. orders' = orders \union {added} /\ seeds' = seeds /\ added.day = day
  BY <1>3 DEF SeedOrders, history
<1> HIDE DEF added
<1>6. Base("orders") = orders /\ Base("orders")' = orders \union {added}
  BY <1>1, <1>5 DEF Base, Rows
<1>7. \A r \in orders : Mark("orders", r) \in OrderDays
  BY DEF Mark, OrderDays
<1>8. Mark("orders", added) = day
  BY <1>5 DEF Mark
<1>9. QED
  BY <1>4, <1>6, <1>7, <1>8 DEF GrowsPast

LEMMA SeededRates ==
    ASSUME TypeInv, AppendFx, seeds > 0
    PROVE  GrowsPast("exchange_rates")
<1>1. RateDays \in SUBSET Nat /\ Bounded(RateDays) /\ seeds \in Nat /\ until \in Nat
  BY RowTypes, LimitAssumption DEF TypeInv, BoundedRows, TypeOK
<1>2. Highest(RateDays) \in Nat /\ \A x \in RateDays : x <= Highest(RateDays)
  BY <1>1, HighestBounds
<1>3. fx' = fx \union NewRates /\ seeds' = seeds
  BY DEF AppendFx
<1>4. \A r \in NewRates : r[1] \in Nat /\ r[1] > Highest(RateDays)
  BY <1>1, <1>2 DEF NewRates
<1>5. Base("exchange_rates") = fx /\ Base("exchange_rates")' = fx \union NewRates
  BY <1>1, <1>3 DEF Base, Rows
<1>6. \A r \in fx : r[1] \in RateDays
  BY DEF RateDays
<1>7. ASSUME NEW r \in NewRates
      PROVE  r[1] \in Nat /\ r[1] > 0 /\ \A s \in fx : r[1] > s[1]
  <2>1. r[1] \in Nat /\ r[1] > Highest(RateDays)
    BY <1>4
  <2>2. ASSUME NEW s \in fx PROVE r[1] > s[1]
    <3>1. s[1] \in Nat /\ s[1] <= Highest(RateDays)
      BY <1>1, <1>2, <1>6
    <3>2. QED
      BY <1>2, <2>1, <3>1
  <2>3. QED
    BY <1>2, <2>1, <2>2
<1>8. QED
  BY <1>5, <1>7 DEF GrowsPast, Mark

(* No step of a source adds a row that an extraction has passed. *)
LEMMA SourcesGrowPast ==
    ASSUME TypeInv, CustomerInv, PhaseInv, Next, ~reset'
    PROVE  ~reset /\ \A t \in Extracted : Base(t)' = Base(t) \/ GrowsPast(t)
<1>0. LoadFlagged /\ reset \in BOOLEAN /\ reloading \in BOOLEAN /\ seeds \in Nat
  BY LimitAssumption DEF CustomerInv, TypeInv, TypeOK
<1>1. CASE StartLoad
  <2>1. ~reset /\ seeds = 0 /\ seeds' = seeds
    <3>1. reset' = (reset \/ seeds > 0) /\ seeds' = seeds
      BY <1>1 DEF StartLoad
    <3>2. CASE seeds > 0
      BY <3>1, <3>2
    <3>3. QED
      BY <1>0, <3>1, <3>2
  <2>2. QED
    BY <2>1 DEF Base, Loaded
<1>2. CASE OpenRates \/ WriteRates \/ DropCustomers \/ CreateCustomers \/ InsertCustomers
           \/ CreateOrders \/ CopyOrders
  <2>1. pc \in Loading /\ reset' = reset /\ seeds' = seeds
    BY <1>2 DEF OpenRates, WriteRates, DropCustomers, CreateCustomers, InsertCustomers,
                CreateOrders, CopyOrders, Loading, history
  <2>2. seeds = 0
    BY <1>0, <2>1 DEF LoadFlagged, PhaseInv
  <2>3. QED
    BY <2>1, <2>2 DEF Base, Loaded
<1>3. CASE StartSeed
  <2>1. ~reset /\ ~reloading /\ seeds' = seeds + 1 /\ UNCHANGED tables
    BY <1>0, <1>3 DEF StartSeed
  <2>2. \A t \in Extracted : Rows(t)' = Rows(t) /\ Base(t) = Rows(t)
    BY <2>1 DEF tables, Rows, Extracted, PhaseInv, Unseeded, Base
  <2>3. \A t \in Extracted : Base(t)' = Rows(t)'
    BY <1>0, <2>1 DEF Base
  <2>4. QED
    BY <2>1, <2>2, <2>3
<1>4. CASE SeedCustomers
  <2>1. /\ pc = "seed_customers" /\ reset' = reset /\ seeds' = seeds /\ UNCHANGED <<orders, fx>>
    BY <1>4 DEF SeedCustomers, history
  <2>2. seeds > 0 /\ GrowsPast("customers")
    BY <1>4, <2>1, SeededCustomers DEF PhaseInv, SeedsCounted, Seeding
  <2>3. \A t \in {"orders", "exchange_rates"} : Base(t)' = Base(t)
    BY <2>1 DEF Base, Rows, Loaded
  <2>4. QED
    BY <2>1, <2>2, <2>3 DEF Extracted
<1>5. CASE SeedOrders
  <2>1. /\ pc = "seed_orders" /\ reset' = reset /\ seeds' = seeds /\ UNCHANGED <<customers, fx>>
    BY <1>5 DEF SeedOrders, history
  <2>2. seeds > 0 /\ GrowsPast("orders")
    BY <1>5, <2>1, SeededOrders DEF PhaseInv, SeedsCounted, Seeding
  <2>3. \A t \in {"customers", "exchange_rates"} : Base(t)' = Base(t)
    BY <2>1 DEF Base, Rows, Loaded
  <2>4. QED
    BY <2>1, <2>2, <2>3 DEF Extracted
<1>6. CASE AppendFx
  <2>1. pc = "append_fx" /\ reset' = reset /\ seeds' = seeds /\ UNCHANGED <<customers, orders>>
    BY <1>6 DEF AppendFx
  <2>2. seeds > 0 /\ GrowsPast("exchange_rates")
    BY <1>6, <2>1, SeededRates DEF PhaseInv, SeedsCounted, Seeding
  <2>3. \A t \in {"customers", "orders"} : Base(t)' = Base(t)
    BY <2>1 DEF Base, Rows, Loaded
  <2>4. QED
    BY <2>1, <2>2, <2>3 DEF Extracted
<1>7. CASE SeedRefused \/ Dies
  <2>1. UNCHANGED <<tables, seeds, reset>>
    BY <1>7 DEF SeedRefused, Dies
  <2>2. QED
    BY <2>1 DEF Base, Rows, Loaded, tables, Extracted
<1>8. QED
  BY <1>1, <1>2, <1>3, <1>4, <1>5, <1>6, <1>7 DEF Next

LEMMA GrowthKeepsBronze ==
    ASSUME TypeInv, IngestTypes, ~reset, BronzeInv, UNCHANGED extraction,
           \A t \in Extracted : Base(t)' = Base(t) \/ GrowsPast(t)
    PROVE  BronzeInv'
<1>1. /\ bronze' = bronze /\ marks' = marks /\ phase' = phase /\ listed' = listed
      /\ doubt' = doubt
  BY DEF extraction
<1>2. ASSUME NEW t \in Extracted PROVE PastMark(t)' /\ MarkIsOfARow(t)'
  <2>1. PastMark(t) /\ MarkIsOfARow(t)
    BY DEF BronzeInv
  <2>2. CASE Base(t)' = Base(t)
    BY <1>1, <2>1, <2>2 DEF PastMark, MarkIsOfARow, Lost
  <2>3. CASE GrowsPast(t)
    <3>1. MarkIsOfARow(t)'
      BY <1>1, <2>1, <2>3 DEF MarkIsOfARow, GrowsPast
    <3>2. ASSUME marks[t] # NoMax, NEW r \in Base(t)' \ bronze[t]
          PROVE  Mark(t, r) > marks[t] \/ Lost(t, r)
      <4>1. CASE r \in Base(t)
        BY <2>1, <3>2, <4>1 DEF PastMark
      <4>2. CASE r \notin Base(t)
        <5>1. /\ Mark(t, r) \in Nat /\ Mark(t, r) > 0
              /\ \A s \in Base(t) : Mark(t, r) > Mark(t, s)
          BY <2>3, <3>2, <4>2 DEF GrowsPast
        <5>2. QED
          BY <2>1, <3>2, <5>1 DEF MarkIsOfARow
      <4>3. QED
        BY <4>1, <4>2
    <3>3. PastMark(t)'
      BY <1>1, <3>2 DEF PastMark, Lost
    <3>4. QED
      BY <3>1, <3>3
  <2>4. QED
    BY <2>2, <2>3
<1>3. ListedIsEarly'
  <2> DEFINE x == "exchange_rates"
  <2>1. ListedIsEarly /\ x \in Extracted /\ PartDays(listed)' = PartDays(listed)
    BY <1>1 DEF BronzeInv, Extracted, PartDays
  <2>2. CASE Base(x)' = Base(x)
    BY <1>1, <2>1, <2>2 DEF ListedIsEarly
  <2>3. CASE GrowsPast(x)
    <3>1. SUFFICES ASSUME phase[x] # "idle"
                   PROVE  /\ listed \subseteq Base(x)'
                          /\ \A r \in Base(x)' \ listed : \A s \in listed :
                                r[1] > s[1] \/ r[1] \in PartDays(listed)
      BY <1>1, <2>1 DEF ListedIsEarly
    <3>2. listed \subseteq Base(x) /\ Base(x) \subseteq Base(x)'
      BY <2>1, <2>3, <3>1 DEF ListedIsEarly, GrowsPast
    <3>3. \A r \in Base(x)' \ Base(x) : \A s \in Base(x) : r[1] > s[1]
      BY <2>3 DEF GrowsPast, Mark
    <3>4. \A r \in Base(x) \ listed : \A s \in listed : r[1] > s[1] \/ r[1] \in PartDays(listed)
      BY <2>1, <3>1 DEF ListedIsEarly
    <3>5. QED
      BY <3>2, <3>3, <3>4
  <2>4. QED
    BY <2>1, <2>2, <2>3
<1>4. QED
  BY <1>2, <1>3 DEF BronzeInv

(* A file that is being written is short only of its last day and the days after. *)
LEMMA OnlyTheLastDayIsPartial ==
    ASSUME NEW n \in Nat, fx = Written(n),
           NEW r \in Filled(Days), r \notin fx, NEW s \in fx, r[1] <= s[1]
    PROVE  r[1] \in PartDays(fx)
<1> DEFINE d == r[1]
           q == r[2]
           e == s[1]
           p == s[2]
<1>1. /\ Days \in Nat /\ Quotes \in Nat /\ d \in 1..Days /\ q \in 1..Quotes /\ r = <<d, q>>
      /\ e \in 1..Days /\ p \in 1..Quotes
  BY BaselineAssumption DEF Filled, Written
<1>2. (e - 1) * Quotes + p <= n /\ ~((d - 1) * Quotes + q <= n)
  BY DEF Filled, Written
<1>3. ASSUME d < e PROVE FALSE
  <2>1. d - 1 \in Nat /\ e - d - 1 \in Nat
    BY <1>1, <1>3
  <2>2. \A a, b, c \in Nat : (a + 1 + b) * c = a * c + c + b * c /\ b * c >= 0
    OBVIOUS
  <2>3. e - 1 = (d - 1) + 1 + (e - d - 1)
    BY <1>1
  <2>4. (e - 1) * Quotes = (d - 1) * Quotes + Quotes + (e - d - 1) * Quotes /\ (e - d - 1) * Quotes >= 0
    BY <1>1, <2>1, <2>2, <2>3
  <2>5. (d - 1) * Quotes \in Nat /\ (e - d - 1) * Quotes \in Nat /\ (e - 1) * Quotes \in Nat
    BY <1>1, <2>1
  <2> HIDE DEF d, q, e, p
  <2>6. QED
    BY <1>1, <1>2, <2>4, <2>5
<1>4. d = e
  BY <1>1, <1>3
<1>5. <<e, q>> \notin fx
  BY <1>1, <1>4
<1>6. s[1] \in PartDays(fx)
  BY <1>1, <1>5 DEF PartDays
<1>7. QED
  BY <1>4, <1>6

LEMMA CountKeepsBronze ==
    ASSUME TypeInv, IngestTypes, PhaseInv, ~reset, BronzeInv,
           NEW t \in Extracted, CountRows(t)
    PROVE  BronzeInv'
<1> DEFINE x == "exchange_rates"
<1>1. /\ bronze' = bronze /\ marks' = marks /\ doubt' = doubt /\ UNCHANGED vars
      /\ phase' = [phase EXCEPT ![t] = "append"] /\ listed' = IF t = x THEN fx ELSE listed
  BY DEF CountRows
<1>2. \A u \in Extracted : Base(u)' = Base(u)
  BY <1>1 DEF Base, Rows, vars, tables, history
<1>3. \A u \in Extracted : PastMark(u)' /\ MarkIsOfARow(u)'
  BY <1>1, <1>2 DEF BronzeInv, PastMark, MarkIsOfARow, Lost
<1>4. CASE t # x
  <2>1. phase'[x] = phase[x] /\ listed' = listed /\ x \in Extracted
    BY <1>1, <1>4 DEF IngestTypes, Extracted
  <2>2. PartDays(listed)' = PartDays(listed)
    BY <2>1 DEF PartDays
  <2>3. ListedIsEarly'
    BY <1>2, <2>1, <2>2 DEF BronzeInv, ListedIsEarly
  <2>4. QED
    BY <1>3, <2>3 DEF BronzeInv
<1>5. CASE t = x
  <2>1. listed' = fx /\ PartDays(listed)' = PartDays(fx) /\ Base(x)' = Base(x)
    BY <1>1, <1>2, <1>5 DEF PartDays
  <2>2. fx \subseteq Base(x)
    BY BaseHoldsRates DEF Rows
  <2>3. ASSUME NEW r \in Base(x) \ fx, NEW s \in fx, ~(r[1] > s[1])
        PROVE  r[1] \in PartDays(fx)
    <3>1. seeds = 0 /\ r \in Filled(Days)
      BY <2>3 DEF Base, Rows, Loaded
    <3>2. PICK n \in 0..(Days * Quotes) : fx = Written(n)
      BY <3>1 DEF PhaseInv, Unseeded
    <3>3. n \in Nat
      BY <3>2, BaselineAssumption
    <3>4. r[1] <= s[1]
      <4>1. r \in (1..Days) \X (1..Quotes) /\ s \in (1..Days) \X (1..Quotes)
        BY <3>1, <3>2, <2>3 DEF Filled, Written
      <4>2. r[1] \in Nat /\ s[1] \in Nat
        BY <4>1, BaselineAssumption
      <4>3. QED
        BY <2>3, <4>2
    <3>5. QED
      BY <2>3, <3>1, <3>2, <3>3, <3>4, OnlyTheLastDayIsPartial
  <2>4. ListedIsEarly'
    BY <2>1, <2>2, <2>3 DEF ListedIsEarly
  <2>5. QED
    BY <1>3, <2>4 DEF BronzeInv
<1>6. QED
  BY <1>4, <1>5

LEMMA EndKeepsListed ==
    ASSUME IngestTypes, ListedIsEarly, NEW t \in Extracted, Finish(t),
           \A u \in Extracted : Base(u)' = Base(u)
    PROVE  ListedIsEarly'
<1> DEFINE x == "exchange_rates"
<1>1. phase' = [phase EXCEPT ![t] = "idle"] /\ listed' = IF t = x THEN {} ELSE listed
  BY DEF Finish
<1>2. CASE t = x
  BY <1>1, <1>2 DEF ListedIsEarly, IngestTypes
<1>3. CASE t # x
  <2>1. phase'[x] = phase[x] /\ listed' = listed /\ x \in Extracted
    BY <1>1, <1>3 DEF IngestTypes, Extracted
  <2>2. PartDays(listed)' = PartDays(listed)
    BY <2>1 DEF PartDays
  <2>3. QED
    BY <2>1, <2>2 DEF ListedIsEarly
<1>4. QED
  BY <1>2, <1>3

(* What an extraction passes when it stores its new maximum, Bronze holds or    *)
(* it is accounted for.                                                         *)
LEMMA PassedRows ==
    ASSUME TypeInv, IngestTypes, PhaseInv, ReadInv, ~reset, BronzeInv,
           NEW t \in Extracted, phase[t] = "max", HighestNew(t) # NoMax,
           NEW r \in Base(t) \ bronze[t], ~(Mark(t, r) > HighestNew(t))
    PROVE  Mark(t, r) \in doubt[t] \union Passed(t)
<1>1. New(t) # {}
  BY DEF HighestNew
<1>2. /\ HighestNew(t) \in Nat
      /\ \E s \in New(t) : HighestNew(t) = Mark(t, s)
  BY <1>1, HighestIsNew
<1>3. marks[t] \in Nat /\ Mark(t, r) \in Nat /\ New(t) \subseteq Seen(t)
  BY <1>1, MarksOfBase DEF New, IngestTypes
<1>4. CASE ~(Mark(t, r) > marks[t])
  <2>1. marks[t] # NoMax /\ PastMark(t)
    BY <1>3 DEF NoMax, BronzeInv
  <2>2. QED
    BY <1>4, <2>1 DEF PastMark, Lost
<1>5. CASE Mark(t, r) > marks[t] /\ t \in overtaken
  <2>1. Mark(t, r) \in (marks[t] + 1)..HighestNew(t)
    BY <1>2, <1>3, <1>5
  <2>2. QED
    BY <1>5, <2>1 DEF Passed
<1>6. CASE Mark(t, r) > marks[t] /\ t \notin overtaken
  <2>1. r \notin Seen(t)
    <3>1. marks[t] # NoMax /\ New(t) \subseteq bronze[t]
      BY <1>3, <1>6 DEF NoMax, ReadInv
    <3>2. QED
      BY <1>6, <3>1 DEF New
  <2>2. CASE t \in {"customers", "orders"}
    <3>1. Seen(t) = Rows(t)
      BY <2>2 DEF Seen
    <3>2. Base(t) = Rows(t)
      BY <1>1, <1>3, <2>2, <3>1, BaseHoldsRows
    <3>3. QED
      BY <2>1, <3>1, <3>2
  <2>3. CASE t = "exchange_rates"
    <3>1. listed \subseteq fx /\ Seen(t) = listed
      BY <1>6, <2>3 DEF ReadInv, Seen
    <3>2. PICK s \in listed : HighestNew(t) = s[1]
      BY <1>2, <1>3, <2>3, <3>1 DEF Mark
    <3>3. Mark(t, r) = r[1] /\ ~(r[1] > s[1])
      BY <2>3, <3>2 DEF Mark
    <3>4. r \in Base("exchange_rates") \ listed
      BY <2>1, <2>3, <3>1
    <3>5. r[1] \in PartDays(listed)
      BY <2>3, <3>2, <3>3, <3>4 DEF BronzeInv, ListedIsEarly
    <3>6. QED
      BY <2>3, <3>3, <3>5 DEF Passed
  <2>4. QED
    BY <2>2, <2>3 DEF Extracted
<1>7. QED
  BY <1>4, <1>5, <1>6

LEMMA WatermarkKeepsBronze ==
    ASSUME TypeInv, IngestTypes, PhaseInv, ReadInv, ~reset, BronzeInv,
           NEW t \in Extracted, SetWatermark(t)
    PROVE  BronzeInv'
<1>1. /\ marks' = [marks EXCEPT ![t] = HighestNew(t)] /\ phase[t] = "max"
      /\ doubt' = [doubt EXCEPT ![t] = @ \union Passed(t)]
      /\ bronze' = bronze /\ UNCHANGED vars
  BY DEF SetWatermark
<1>2. \A u \in Extracted : Base(u)' = Base(u)
  BY <1>1 DEF Base, Rows, vars, tables, history
<1>3. marks'[t] = HighestNew(t) /\ doubt'[t] = doubt[t] \union Passed(t)
  BY <1>1 DEF IngestTypes
<1>4. MarkIsOfARow(t)'
  <2>1. CASE New(t) = {}
    BY <1>3, <2>1 DEF HighestNew, MarkIsOfARow
  <2>2. CASE New(t) # {}
    <3>1. PICK r \in New(t) : HighestNew(t) = Mark(t, r)
      BY <2>2, HighestIsNew
    <3>2. r \in Rows(t)
      BY <3>1 DEF New, Seen, Rows
    <3>3. r \in Base(t)
      BY <3>2, BaseHoldsRows, BaseHoldsRates DEF Extracted
    <3>4. QED
      BY <1>2, <1>3, <3>1, <3>3 DEF MarkIsOfARow
  <2>3. QED
    BY <2>1, <2>2
<1>5. PastMark(t)'
  BY <1>1, <1>2, <1>3, PassedRows DEF PastMark, Lost
<1>6. ASSUME NEW u \in Extracted, u # t PROVE PastMark(u)' /\ MarkIsOfARow(u)'
  <2>1. marks'[u] = marks[u] /\ doubt'[u] = doubt[u]
    BY <1>1, <1>6 DEF IngestTypes
  <2>2. QED
    BY <1>1, <1>2, <2>1 DEF BronzeInv, PastMark, MarkIsOfARow, Lost
<1>7. ListedIsEarly'
  BY <1>2, EndKeepsListed DEF SetWatermark, BronzeInv
<1>8. QED
  BY <1>4, <1>5, <1>6, <1>7 DEF BronzeInv

LEMMA OtherExtractionsKeepBronze ==
    ASSUME IngestTypes, ~reset, BronzeInv, NEW t \in Extracted, AppendRows(t) \/ ExtractFails(t)
    PROVE  BronzeInv'
<1>1. marks' = marks /\ doubt' = doubt /\ UNCHANGED vars
  BY DEF AppendRows, ExtractFails
<1>2. \A u \in Extracted : Base(u)' = Base(u) /\ bronze[u] \subseteq bronze'[u]
  <2>1. \A u \in Extracted : Base(u)' = Base(u)
    BY <1>1 DEF Base, Rows, vars, tables, history
  <2>2. CASE AppendRows(t)
    BY <2>1, <2>2 DEF AppendRows, IngestTypes
  <2>3. CASE ExtractFails(t)
    BY <2>1, <2>3 DEF ExtractFails
  <2>4. QED
    BY <2>2, <2>3
<1>3. \A u \in Extracted : PastMark(u)' /\ MarkIsOfARow(u)'
  BY <1>1, <1>2 DEF BronzeInv, PastMark, MarkIsOfARow, Lost
<1>4. CASE ExtractFails(t)
  BY <1>2, <1>3, <1>4, EndKeepsListed DEF ExtractFails, BronzeInv
<1>5. CASE AppendRows(t)
  <2>1. listed' = listed /\ PartDays(listed)' = PartDays(listed)
    BY <1>5 DEF AppendRows, PartDays
  <2>2. phase'["exchange_rates"] # "idle" => phase["exchange_rates"] # "idle"
    BY <1>5 DEF AppendRows, IngestTypes, Extracted
  <2>3. "exchange_rates" \in Extracted
    BY DEF Extracted
  <2>4. ListedIsEarly'
    BY <1>2, <2>1, <2>2, <2>3 DEF BronzeInv, ListedIsEarly
  <2>5. QED
    BY <1>3, <2>4 DEF BronzeInv
<1>6. QED
  BY <1>4, <1>5

-----------------------------------------------------------------------------
(* What an extraction reads twice. *)

LEMMA ReadStep ==
    ASSUME IngestTypes, ReadInv, [NextIngest]_<<vars, varsIngest>>
    PROVE  ReadInv'
<1> DEFINE x == "exchange_rates"
<1>0. x \in Extracted
  BY DEF Extracted
<1>1. CASE UNCHANGED <<vars, varsIngest>>
  BY <1>1 DEF vars, tables, varsIngest, extraction, ReadInv, New, Seen, Rows
<1>2. CASE SourceStep
  <2>1. /\ bronze' = bronze /\ marks' = marks /\ phase' = phase /\ listed' = listed
        /\ overtaken' = overtaken \union {t \in Extracted : Overtakes(t)}
    BY <1>2 DEF SourceStep, extraction
  <2>2. ASSUME NEW t \in Extracted, phase[t] = "max", t \notin overtaken'
        PROVE  New(t)' \subseteq bronze[t]
    <3>1. Seen(t)' = Seen(t) /\ New(t) \subseteq bronze[t]
      BY <2>1, <2>2 DEF Overtakes, ReadInv
    <3>2. New(t)' = New(t)
      BY <2>1, <3>1 DEF New
    <3>3. QED
      BY <3>1, <3>2
  <2>3. ASSUME phase[x] # "idle", x \notin overtaken' PROVE listed \subseteq fx'
    <3>1. Seen(x) = fx \intersect listed /\ Seen(x)' = fx' \intersect listed
      BY <2>1, <2>3 DEF Seen
    <3>2. listed \subseteq fx /\ phase[x] \in {"append", "max"}
      BY <1>0, <2>1, <2>3 DEF ReadInv, IngestTypes
    <3>3. Seen(x) \subseteq Seen(x)'
      BY <1>0, <2>1, <2>3, <3>2 DEF Overtakes
    <3>4. QED
      BY <3>1, <3>2, <3>3
  <2>4. QED
    BY <2>1, <2>2, <2>3 DEF ReadInv
<1>3. ASSUME NEW t \in Extracted, Extract(t) PROVE ReadInv'
  <2>1. UNCHANGED vars
    BY <1>3, ExtractReads
  <2>2. \A u \in Extracted : Rows(u)' = Rows(u) /\ fx' = fx
    BY <2>1 DEF vars, tables, Rows
  <2>3. \A u \in Extracted \ {t} :
            /\ phase'[u] = phase[u] /\ marks'[u] = marks[u] /\ bronze'[u] = bronze[u]
            /\ u \in overtaken' <=> u \in overtaken
            /\ u = x => listed' = listed
    BY <1>3 DEF Extract, CountRows, AppendRows, SetWatermark, ExtractFails, Finish, IngestTypes
  <2>4. \A u \in Extracted \ {t} : New(u)' = New(u)
    BY <2>2, <2>3 DEF New, Seen
  <2>5. CASE CountRows(t)
    <3>1. phase'[t] = "append" /\ (t = x => listed' = fx)
      BY <2>5 DEF CountRows, IngestTypes
    <3>2. QED
      BY <1>0, <2>2, <2>3, <2>4, <3>1 DEF ReadInv
  <2>6. CASE AppendRows(t)
    <3>1. /\ marks' = marks /\ listed' = listed /\ overtaken' = overtaken
          /\ bronze'[t] = bronze[t] \union New(t) /\ phase[t] = "append" /\ phase'[t] = "max"
      BY <2>6 DEF AppendRows, IngestTypes
    <3>2. New(t)' = New(t)
      BY <2>2, <3>1 DEF New, Seen
    <3>3. QED
      BY <1>0, <2>2, <2>3, <2>4, <3>1, <3>2 DEF ReadInv
  <2>7. CASE SetWatermark(t) \/ ExtractFails(t)
    <3>1. phase'[t] = "idle"
      BY <2>7 DEF SetWatermark, ExtractFails, Finish, IngestTypes
    <3>2. QED
      BY <1>0, <2>2, <2>3, <2>4, <3>1 DEF ReadInv
  <2>8. QED
    BY <1>3, <2>5, <2>6, <2>7 DEF Extract
<1>4. QED
  BY <1>1, <1>2, <1>3 DEF NextIngest

LEMMA ReadInvariant == SpecIngest => []ReadInv
<1>1. InitIngest => ReadInv
  BY DEF InitIngest, ReadInv, Extracted
<1>2. IngestTypes /\ ReadInv /\ [NextIngest]_<<vars, varsIngest>> => ReadInv'
  BY ReadStep
<1>3. QED
  BY <1>1, <1>2, TypesInvariant, PTL DEF SpecIngest

(* Unless the sources were reset, a row at or below a watermark is in Bronze,  *)
(* or an extraction that passed it was overtaken by a commit, or cut its day.  *)
THEOREM BronzeInvariant == SpecIngest => []BronzeInv
<1> DEFINE Known == TypeInv /\ CustomerInv /\ PhaseInv /\ IngestTypes /\ ReadInv
<1>1. InitIngest => BronzeInv
  <2> SUFFICES ASSUME InitIngest PROVE BronzeInv
    OBVIOUS
  <2>1. \A t \in Extracted : marks[t] = 0 /\ phase[t] = "idle" /\ Base(t) = Loaded(t)
    BY DEF InitIngest, Init, Base
  <2>2. ListedIsEarly /\ \A t \in Extracted : MarkIsOfARow(t)
    BY <2>1 DEF ListedIsEarly, MarkIsOfARow, Extracted
  <2>3. \A t \in Extracted : PastMark(t)
    BY <2>1, LoadedMarks DEF PastMark
  <2>4. QED
    BY <2>2, <2>3 DEF BronzeInv
<1>2. Known /\ BronzeInv /\ [NextIngest]_<<vars, varsIngest>> => BronzeInv'
  <2> SUFFICES ASSUME Known, BronzeInv, [NextIngest]_<<vars, varsIngest>>, ~reset'
               PROVE  BronzeInv'
    BY DEF BronzeInv
  <2>1. CASE UNCHANGED <<vars, varsIngest>>
    <3>1. ~reset /\ \A t \in Extracted : Base(t)' = Base(t)
      BY <2>1 DEF vars, tables, history, Base, Rows
    <3>2. QED
      BY <2>1, <3>1, GrowthKeepsBronze DEF varsIngest
  <2>2. CASE SourceStep
    BY <2>2, SourcesGrowPast, GrowthKeepsBronze DEF SourceStep
  <2>3. CASE \E t \in Extracted : Extract(t)
    <3>1. PICK t \in Extracted : Extract(t)
      BY <2>3
    <3>2. ~reset
      BY <3>1, ExtractReads DEF vars, history
    <3>3. QED
      BY <3>1, <3>2, CountKeepsBronze, WatermarkKeepsBronze, OtherExtractionsKeepBronze DEF Extract
  <2>4. QED
    BY <2>1, <2>2, <2>3 DEF NextIngest
<1>3. QED
  BY <1>1, <1>2, SourcesInvariant, TypesInvariant, PhaseInvariant, ReadInvariant, PTL
     DEF SpecIngest

LEMMA PastRowsAreHeld ==
    ASSUME PhaseInv, BronzeInv
    PROVE  MissingRowsArePast
<1>1. \A t \in Extracted : Rows(t) \subseteq Base(t)
  BY BaseHoldsRows, BaseHoldsRates DEF Extracted
<1>2. ASSUME ~reset, NEW t \in Extracted, NEW r \in Rows(t) \ bronze[t]
      PROVE  Mark(t, r) > marks[t] \/ Lost(t, r)
  <2>1. PastMark(t) /\ r \in Base(t)
    BY <1>1, <1>2 DEF BronzeInv
  <2>2. QED
    BY <1>2, <2>1 DEF PastMark, Lost
<1>3. QED
  BY <1>2 DEF MissingRowsArePast

(* As long as the sources are not reset, no interleaving of loads, seeds and   *)
(* extractions that die anywhere leaves a row that is not in Bronze at or      *)
(* below its table's watermark, but one lost by an extraction that a commit    *)
(* overtook, or of a day extracted while the file was written.                 *)
THEOREM MissingRowsAreFound == SpecIngest => []MissingRowsArePast
<1>1. PhaseInv /\ BronzeInv => MissingRowsArePast
  BY PastRowsAreHeld
<1>2. QED
  BY <1>1, PhaseInvariant, BronzeInvariant, PTL

LEMMA CaughtUpHoldsAll ==
    ASSUME TypeInv, IngestTypes, CaughtUp, MissingRowsArePast, ~reset,
           NEW t \in Extracted, NEW r \in Rows(t)
    PROVE  r \in bronze[t] \/ Lost(t, r)
<1>1. CASE marks[t] = NoMax
  BY <1>1 DEF Lost
<1>2. CASE marks[t] # NoMax
  <2>1. New(t) = {} /\ Seen(t) = Rows(t)
    BY DEF CaughtUp, Seen
  <2>2. ~(Mark(t, r) > marks[t])
    BY <1>2, <2>1 DEF New
  <2>3. QED
    BY <2>2 DEF MissingRowsArePast
<1>3. QED
  BY <1>1, <1>2

(* Once the last program has finished and every extraction reports nothing     *)
(* new, Bronze has each order with its customer and its rates, for any number  *)
(* of seeds and deaths and any order of extractions, but for the rows that an  *)
(* overtaken extraction or a file cut within a day has lost.                   *)
THEOREM CaughtUpIsComplete == SpecIngest => []NothingLeftBehind
<1>1. ASSUME TypeInv, CustomerInv, RatesInv, IngestTypes, MissingRowsArePast
      PROVE  NothingLeftBehind
  <2> SUFFICES ASSUME Settled, CaughtUp, ~reset, NEW o \in orders
               PROVE  /\ o \in bronze["orders"] \/ Lost("orders", o)
                      /\ \E c \in customers :
                            /\ c.id = o.customer
                            /\ c.id \in Ids(bronze["customers"]) \/ Lost("customers", c)
                      /\ \A q \in 1..Quotes :
                            <<o.day, q>> \in bronze["exchange_rates"]
                                \/ Lost("exchange_rates", <<o.day, q>>)
    BY DEF NothingLeftBehind, Complete
  <2>1. o \in bronze["orders"] \/ Lost("orders", o)
    <3>1. "orders" \in Extracted /\ o \in Rows("orders")
      BY DEF Extracted, Rows
    <3>2. QED
      BY <1>1, <3>1, CaughtUpHoldsAll
  <2>2. \E c \in customers :
            /\ c.id = o.customer
            /\ c.id \in Ids(bronze["customers"]) \/ Lost("customers", c)
    <3>1. PICK c \in customers : c.id = o.customer
      BY <1>1 DEF CustomerInv, NamedAreThere, Settled, OrderedBy, Ids
    <3>2. "customers" \in Extracted /\ c \in Rows("customers")
      BY DEF Extracted, Rows
    <3>3. c \in bronze["customers"] \/ Lost("customers", c)
      BY <1>1, <3>2, CaughtUpHoldsAll
    <3>4. QED
      BY <3>1, <3>3 DEF Ids
  <2>3. ASSUME NEW q \in 1..Quotes
        PROVE  <<o.day, q>> \in bronze["exchange_rates"] \/ Lost("exchange_rates", <<o.day, q>>)
    <3>1. o.day \in OrderDays
      BY DEF OrderDays
    <3>2. <<o.day, q>> \in fx
      BY <1>1, <3>1 DEF RatesInv, RatesCoverOrders, Settled
    <3>3. "exchange_rates" \in Extracted /\ <<o.day, q>> \in Rows("exchange_rates")
      BY <3>2 DEF Extracted, Rows
    <3>4. QED
      BY <1>1, <3>3, CaughtUpHoldsAll
  <2>4. QED
    BY <2>1, <2>2, <2>3
<1>2. QED
  BY <1>1, SourcesInvariant, TypesInvariant, MissingRowsAreFound, PTL
=============================================================================
