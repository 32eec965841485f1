------------------------------ MODULE Sources -------------------------------
(***************************************************************************)
(* The source systems and the two programs that write them: the one-shot   *)
(* generator (generate_and_load.py), which drops and reloads everything,   *)
(* and the seeder (seed_incremental.py), which adds a batch of customers,  *)
(* orders and exchange rates past what is there.                           *)
(*                                                                         *)
(* Both write MySQL, Postgres and a CSV file one after the other, with     *)
(* nothing that spans the three: a program may die between any two writes  *)
(* and an operator starts the next one from what is left.                  *)
(*                                                                         *)
(* A day is a number, and so is a quoted currency, in the order of the     *)
(* file; an order needs the rate of its day and currency.  A seed writes   *)
(* one customer and one order.  A row carries the number of the seed that  *)
(* wrote it, 0 for the generator, whose random seed is fixed and which     *)
(* therefore writes the same rows every time.                              *)
(***************************************************************************)
EXTENDS Naturals, FiniteSetsExt

CONSTANTS Customers,    \* N_CUSTOMERS
          Days,         \* TOTAL_DAYS of the generator
          Quotes,       \* currencies of FX_BASELINE
          Window,       \* days in the date window of a seed
          Baseline,     \* the orders generate_orders_and_items produces
          MaxLoads,     \* bound: times the generator is started
          MaxSeeds,     \* bound: times the seeder is started
          MaxStarts,    \* bound: times either is started
          MaxDeaths     \* bound: times one of them dies

Order == [id : Nat, day : Nat, customer : Nat, seed : Nat]

ASSUME BaselineAssumption ==
    /\ {Customers, Days, Quotes, Window} \subseteq Nat \ {0}
    /\ Baseline \subseteq Order /\ Baseline # {}
    /\ \A o \in Baseline : o.day \in 1..Days /\ o.customer \in 1..Customers /\ o.seed = 0
    /\ \E last \in Baseline : \A o \in Baseline : o.id <= last.id

ASSUME LimitAssumption == {MaxLoads, MaxSeeds, MaxStarts, MaxDeaths} \subseteq Nat

VARIABLES mysql,        \* "missing" or "ready": the customers table
          customers,    \* rows of MySQL customers
          postgres,     \* "missing" or "ready": the orders tables
          orders,       \* rows of Postgres orders
          fx,           \* the rows of exchange_rates.csv, as <<day, currency>>
          pc,           \* what the running program does next, or "idle"
          fresh,        \* the seeder's local new_customer_ids
          until,        \* the seeder's local new_end_date
          loads, seeds, deaths,
          reloading,    \* history: a load has begun and none has finished since
          broken,       \* history: a program died or gave up, and none has finished since
          reset         \* history: a load began after a seed, or a seed on a half-loaded source

tables  == <<mysql, customers, postgres, orders, fx>>
history == <<loads, seeds, deaths, reloading, broken, reset>>
vars == <<tables, pc, fresh, until, history>>

Loading == {"open_rates", "rates", "drop_customers", "create_customers", "insert_customers",
            "create_orders", "copy_orders"}
Seeding == {"seed_customers", "seed_orders", "append_fx"}

TypeOK ==
    /\ mysql \in {"missing", "ready"} /\ postgres \in {"missing", "ready"}
    /\ customers \subseteq [id : Nat, seed : 0..MaxSeeds]
    /\ orders \subseteq Order
    /\ fx \subseteq (Nat \ {0}) \X (1..Quotes)
    /\ pc \in Loading \union Seeding \union {"idle"}
    /\ fresh \subseteq Nat
    /\ until \in Nat
    /\ loads \in 0..MaxLoads /\ seeds \in 0..MaxSeeds /\ deaths \in 0..MaxDeaths
    /\ reloading \in BOOLEAN /\ broken \in BOOLEAN /\ reset \in BOOLEAN

Init ==
    /\ mysql = "missing" /\ postgres = "missing"
    /\ customers = {} /\ orders = {} /\ fx = {}
    /\ pc = "idle"
    /\ fresh = {} /\ until = 0
    /\ loads = 0 /\ seeds = 0 /\ deaths = 0
    /\ reloading = TRUE
    /\ broken = FALSE
    /\ reset = FALSE

(* Mutants: definitions named Mut... state a plausible bug in the definition  *)
(* that follows them; nothing else refers to them.                            *)

Ids(rows)      == {r.id : r \in rows}
OrderDays      == {o.day : o \in orders}
RateDays       == {r[1] : r \in fx}
Highest(S)     == Max(S \union {0})
OrderedBy      == {o.customer : o \in orders}

Stop(how) ==
    /\ pc' = "idle"
    /\ fresh' = {} /\ until' = 0
    /\ deaths' = IF how = "dies" THEN deaths + 1 ELSE deaths
    /\ broken' = (how # "done")

-----------------------------------------------------------------------------
(* generate_and_load.main: the CSV files, then MySQL, then Postgres.          *)

StartLoad ==
    /\ pc = "idle"
    /\ loads < MaxLoads /\ loads + seeds < MaxStarts
    /\ loads' = loads + 1
    /\ reloading' = TRUE
    /\ reset' = (reset \/ seeds > 0)
    /\ pc' = "open_rates"
    /\ UNCHANGED <<tables, fresh, until, seeds, deaths, broken>>

OpenRates ==                   \* open(..., "w") truncates the file
    /\ pc = "open_rates"
    /\ fx' = {}
    /\ pc' = "rates"
    /\ UNCHANGED <<mysql, customers, postgres, orders, fresh, until, history>>

(* The file is written row by row and reaches the disk a buffer at a time.    *)
Written(n) == {r \in (1..Days) \X (1..Quotes) : (r[1] - 1) * Quotes + r[2] <= n}

MutWriteRates ==             \* a row's currency is counted from 0
    /\ pc = "rates"
    /\ fx' = {<<r[1], r[2] - 1>> : r \in Written(Days * Quotes)}
    /\ pc' = "drop_customers"
    /\ UNCHANGED <<mysql, customers, postgres, orders, fresh, until, history>>

WriteRates ==
    /\ pc = "rates"
    /\ \E n \in 1..(Days * Quotes) :
          /\ fx # Written(n) /\ fx \subseteq Written(n)
          /\ fx' = Written(n)
          /\ pc' = IF n = Days * Quotes THEN "drop_customers" ELSE "rates"
    /\ UNCHANGED <<mysql, customers, postgres, orders, fresh, until, history>>

(* MySQL commits each DDL statement; Postgres commits DROP and CREATE as one. *)
DropCustomers ==
    /\ pc = "drop_customers"
    /\ mysql' = "missing" /\ customers' = {}
    /\ pc' = "create_customers"
    /\ UNCHANGED <<postgres, orders, fx, fresh, until, history>>

CreateCustomers ==
    /\ pc = "create_customers"
    /\ mysql' = "ready"
    /\ pc' = "insert_customers"
    /\ UNCHANGED <<customers, postgres, orders, fx, fresh, until, history>>

InsertCustomers ==
    /\ pc = "insert_customers"
    /\ customers' = [id : 1..Customers, seed : {0}]
    /\ pc' = "create_orders"
    /\ UNCHANGED <<mysql, postgres, orders, fx, fresh, until, history>>

CreateOrders ==
    /\ pc = "create_orders"
    /\ postgres' = "ready" /\ orders' = {}
    /\ pc' = "copy_orders"
    /\ UNCHANGED <<mysql, customers, fx, fresh, until, history>>

CopyOrders ==
    /\ pc = "copy_orders"
    /\ orders' = Baseline
    /\ reloading' = FALSE
    /\ Stop("done")
    /\ UNCHANGED <<mysql, customers, postgres, fx, loads, seeds, reset>>

-----------------------------------------------------------------------------
(* seed_incremental.main: customers, then orders, then exchange rates.        *)

StartSeed ==
    /\ pc = "idle"
    /\ seeds < MaxSeeds /\ loads + seeds < MaxStarts
    /\ loads > 0
    /\ seeds' = seeds + 1
    /\ pc' = "seed_customers"
    /\ reset' = (reset \/ reloading)
    /\ UNCHANGED <<tables, fresh, until, loads, deaths, reloading, broken>>

MutSeedCustomers ==          \* the insert is not committed
    /\ pc = "seed_customers"
    /\ mysql = "ready"
    /\ fresh' = {Highest(Ids(customers)) + 1}
    /\ pc' = "seed_orders"
    /\ UNCHANGED <<mysql, customers, postgres, orders, fx, until, history>>

SeedCustomers ==
    /\ pc = "seed_customers"
    /\ mysql = "ready"
    /\ LET new == Highest(Ids(customers)) + 1 IN
          /\ customers' = customers \union {[id |-> new, seed |-> seeds]}
          /\ fresh' = {new}
    /\ pc' = "seed_orders"
    /\ UNCHANGED <<mysql, postgres, orders, fx, until, history>>

(* The new orders fall in a window that opens the day after the last order.   *)
MutWindowStart == Highest(OrderDays)           \* the window opens on the last order's day
WindowStart    == Highest(OrderDays) + 1

Seedable == fresh \union OrderedBy

SeedOrders ==
    /\ pc = "seed_orders"
    /\ orders # {}
    /\ \E customer \in Seedable, day \in WindowStart..(WindowStart + Window - 1) :
          orders' = orders \union {[id |-> Highest(Ids(orders)) + 1, day |-> day,
                                    customer |-> customer, seed |-> seeds]}
    /\ until' = WindowStart + Window - 1
    /\ pc' = "append_fx"
    /\ UNCHANGED <<mysql, customers, postgres, fx, fresh, history>>

(* The appended rows reach the file in one write when it is closed.           *)
MutNewRates ==               \* only the window of this seed
    ((until + 1 - Window)..until) \X (1..Quotes)
NewRates == ((Highest(RateDays) + 1)..until) \X (1..Quotes)

AppendFx ==
    /\ pc = "append_fx"
    /\ fx # {}
    /\ fx' = fx \union NewRates
    /\ Stop("done")
    /\ UNCHANGED <<mysql, customers, postgres, orders, loads, seeds, reloading, reset>>

(* A table that is missing, or empty where a row is needed, ends the seeder.  *)
SeedRefused ==
    /\ \/ pc = "seed_customers" /\ mysql = "missing"
       \/ pc = "seed_orders" /\ orders = {}
       \/ pc = "append_fx" /\ fx = {}
    /\ Stop("refused")
    /\ UNCHANGED <<tables, loads, seeds, reloading, reset>>

(* A program dies.  What it had committed, or flushed of its file, stays.     *)
Dies ==
    /\ pc # "idle"
    /\ deaths < MaxDeaths
    /\ Stop("dies")
    /\ UNCHANGED <<tables, loads, seeds, reloading, reset>>

Next ==
    \/ StartLoad \/ OpenRates \/ WriteRates \/ DropCustomers \/ CreateCustomers \/ InsertCustomers
    \/ CreateOrders \/ CopyOrders
    \/ StartSeed \/ SeedCustomers \/ SeedOrders \/ AppendFx \/ SeedRefused
    \/ Dies

Spec == Init /\ [][Next]_vars

-----------------------------------------------------------------------------
(* Once a load has finished, no order ever refers to a customer that is not   *)
(* committed, between any two steps of any number of seeds that may die.      *)
OrdersHaveCustomers ==
    ~reloading => \A o \in orders : o.customer \in Ids(customers)

(* A seed that finishes leaves the rates for the day of every order, those of *)
(* earlier seeds that died before their rates were appended included.         *)
RatesCoverOrders ==
    pc = "idle" /\ ~reloading /\ ~broken => OrderDays \X (1..Quotes) \subseteq fx
=============================================================================
