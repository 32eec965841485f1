---------------------------- MODULE SourcesProofs ----------------------------
(***************************************************************************)
(* Sources for any number of customers, days, currencies, loads, seeds and *)
(* deaths: type correctness, orders and their customers, and the rates a   *)
(* finished seed leaves.                                                   *)
(***************************************************************************)
EXTENDS Sources, WellFoundedInduction, TLAPS

-----------------------------------------------------------------------------
(* The highest of a bounded set of naturals. *)

LEMMA LowestNatural ==
    ASSUME NEW T \in SUBSET Nat, T # {}
    PROVE  \E x \in T : \A y \in T : x <= y
<1>1. IsWellFoundedOn(OpToRel(<, Nat), Nat)
  BY NatLessThanWellFounded
<1>2. PICK x \in T : \A y \in T : ~ (<<y, x>> \in OpToRel(<, Nat))
  BY <1>1, WFMin
<1>3. \A y \in T : ~(y < x)
  BY <1>2 DEF OpToRel
<1>4. QED
  BY <1>3

LEMMA BoundedHasMax ==
    ASSUME NEW S \in SUBSET Nat, S # {}, NEW n \in Nat, \A x \in S : x <= n
    PROVE  Max(S) \in S /\ \A x \in S : x <= Max(S)
<1> DEFINE T == {n - x : x \in S}
<1>1. T \in SUBSET Nat /\ T # {}
  <2>1. \A x \in S : n - x \in Nat
    OBVIOUS
  <2>2. T # {}
    OBVIOUS
  <2>3. QED
    BY <2>1, <2>2
<1>2. PICK low \in T : \A y \in T : low <= y
  BY <1>1, LowestNatural
<1>3. PICK m \in S : low = n - m
  BY <1>2
<1>4. \A x \in S : m >= x
  BY <1>2, <1>3
<1>5. QED
  BY <1>3, <1>4 DEF Max

Bounded(S) == \E n \in Nat : \A x \in S : x <= n

LEMMA HighestBounds ==
    ASSUME NEW S \in SUBSET Nat, Bounded(S)
    PROVE  Highest(S) \in Nat /\ (\A x \in S : x <= Highest(S)) /\ Highest(S) \in S \union {0}
<1> DEFINE T == S \union {0}
<1>1. T \in SUBSET Nat /\ T # {}
  OBVIOUS
<1>2. PICK n \in Nat : \A x \in T : x <= n
  BY DEF Bounded
<1> HIDE DEF T
<1>3. Max(T) \in T /\ \A x \in T : x <= Max(T)
  BY <1>1, <1>2, BoundedHasMax
<1>4. Highest(S) = Max(T)
  BY DEF T, Highest
<1>5. S \subseteq T /\ T \subseteq S \union {0}
  BY DEF T
<1>6. QED
  BY <1>1, <1>3, <1>4, <1>5

(* A set with a new highest element is bounded by it. *)
LEMMA AddedHighest ==
    ASSUME NEW S \in SUBSET Nat, NEW m \in Nat, Bounded(S)
    PROVE  Bounded(S \union {m})
<1>1. PICK n \in Nat : \A x \in S : x <= n
  BY DEF Bounded
<1>2. \A x \in S \union {m} : x <= n + m
  BY <1>1
<1>3. QED
  BY <1>2 DEF Bounded

(* The whole file has the rate of each day and currency. *)
LEMMA WholeFile ==
    Written(Days * Quotes) = (1..Days) \X (1..Quotes)
<1>1. Days \in Nat \ {0} /\ Quotes \in Nat \ {0}
  BY BaselineAssumption
<1>2. ASSUME NEW d \in 1..Days, NEW q \in 1..Quotes
      PROVE  (d - 1) * Quotes + q <= Days * Quotes
  <2>1. d - 1 \in Nat /\ Days - d \in Nat
    BY <1>1
  <2>2. \A a, b, c \in Nat : (a + 1 + b) * c = a * c + c + b * c /\ b * c >= 0
    OBVIOUS
  <2>3. Days = (d - 1) + 1 + (Days - d)
    BY <1>1
  <2>4. Days * Quotes = (d - 1) * Quotes + Quotes + (Days - d) * Quotes /\ (Days - d) * Quotes >= 0
    BY <1>1, <2>1, <2>2, <2>3
  <2>5. (d - 1) * Quotes \in Nat /\ (Days - d) * Quotes \in Nat /\ Days * Quotes \in Nat
    BY <1>1, <2>1
  <2>6. QED
    BY <1>1, <2>4, <2>5
<1>3. QED
  BY <1>2 DEF Written
-----------------------------------------------------------------------------
(* Type correctness, with the bounds that give each table a highest row. *)

BoundedRows == Bounded(Ids(customers)) /\ Bounded(Ids(orders)) /\ Bounded(OrderDays) /\ Bounded(RateDays)

TypeInv == TypeOK /\ BoundedRows

LEMMA RowTypes ==
    ASSUME TypeOK
    PROVE  /\ Ids(customers) \in SUBSET Nat /\ Ids(orders) \in SUBSET Nat
           /\ OrderDays \in SUBSET Nat /\ OrderedBy \in SUBSET Nat
           /\ RateDays \in SUBSET (Nat \ {0})
<1>1. orders \subseteq Order /\ customers \subseteq [id : Nat, seed : 0..MaxSeeds]
      /\ fx \subseteq (Nat \ {0}) \X (1..Quotes)
  BY DEF TypeOK
<1>2. Ids(customers) \in SUBSET Nat /\ Ids(orders) \in SUBSET Nat
  BY <1>1 DEF Ids, Order
<1>3. OrderDays \in SUBSET Nat /\ OrderedBy \in SUBSET Nat
  BY <1>1 DEF OrderDays, OrderedBy, Order
<1>4. RateDays \in SUBSET (Nat \ {0})
  BY <1>1 DEF RateDays
<1>5. QED
  BY <1>2, <1>3, <1>4

LEMMA StopType ==
    ASSUME TypeOK, NEW how, Stop(how), how = "dies" => deaths < MaxDeaths
    PROVE  /\ pc' = "idle" /\ fresh' \subseteq Nat /\ until' \in Nat
           /\ deaths' \in 0..MaxDeaths /\ broken' \in BOOLEAN
BY LimitAssumption DEF Stop, TypeOK

LEMMA EmptyBounded == Bounded({})
BY DEF Bounded

LEMMA LoadKeepsTypes ==
    ASSUME TypeInv,
           StartLoad \/ OpenRates \/ WriteRates \/ DropCustomers \/ CreateCustomers
           \/ InsertCustomers \/ CreateOrders \/ CopyOrders
    PROVE  TypeInv'
<1>0. TypeOK /\ BoundedRows
  BY DEF TypeInv
<1>1. CASE StartLoad
  <2>1. TypeOK'
    BY <1>0, <1>1, LimitAssumption DEF StartLoad, TypeOK, Loading, tables
  <2>2. QED
    BY <1>0, <1>1, <2>1 DEF StartLoad, TypeInv, BoundedRows, tables, Ids, OrderDays, RateDays
<1>2. CASE OpenRates
  <2>1. TypeOK'
    BY <1>0, <1>2 DEF OpenRates, TypeOK, Loading, history
  <2>2. RateDays' = {}
    BY <1>2 DEF OpenRates, RateDays
  <2>3. QED
    BY <1>0, <1>2, <2>1, <2>2, EmptyBounded DEF OpenRates, TypeInv, BoundedRows, Ids, OrderDays
<1>3. CASE WriteRates
  <2>1. PICK n \in 1..(Days * Quotes) :
            fx' = Written(n) /\ pc' = IF n = Days * Quotes THEN "drop_customers" ELSE "rates"
    BY <1>3 DEF WriteRates
  <2>2. Written(n) \subseteq (1..Days) \X (1..Quotes)
    BY DEF Written
  <2>3. fx' \subseteq (Nat \ {0}) \X (1..Quotes)
    BY <2>1, <2>2, BaselineAssumption
  <2>4. TypeOK'
    BY <1>0, <1>3, <2>1, <2>3 DEF WriteRates, TypeOK, Loading, history
  <2>5. Bounded(RateDays)'
    <3>1. Days \in Nat /\ \A d \in RateDays' : d <= Days
      BY <2>1, <2>2, BaselineAssumption DEF RateDays
    <3>2. QED
      BY <3>1 DEF Bounded
  <2>6. QED
    BY <1>0, <1>3, <2>4, <2>5 DEF WriteRates, TypeInv, BoundedRows, Ids, OrderDays
<1>4. CASE DropCustomers
  <2>1. TypeOK'
    BY <1>0, <1>4 DEF DropCustomers, TypeOK, Loading, history
  <2>2. Ids(customers)' = {}
    BY <1>4 DEF DropCustomers, Ids
  <2>3. QED
    BY <1>0, <1>4, <2>1, <2>2, EmptyBounded DEF DropCustomers, TypeInv, BoundedRows, Ids, OrderDays, RateDays
<1>5. CASE CreateCustomers
  <2>1. TypeOK'
    BY <1>0, <1>5 DEF CreateCustomers, TypeOK, Loading, history
  <2>2. QED
    BY <1>0, <1>5, <2>1 DEF CreateCustomers, TypeInv, BoundedRows, Ids, OrderDays, RateDays
<1>6. CASE InsertCustomers
  <2>1. Customers \in Nat /\ customers' = [id : 1..Customers, seed : {0}] /\ 0 \in 0..MaxSeeds
    BY <1>6, BaselineAssumption, LimitAssumption DEF InsertCustomers
  <2>2. customers' \subseteq [id : Nat, seed : 0..MaxSeeds] /\ Ids(customers)' \subseteq 1..Customers
    <3>1. \A r \in customers' : r.id \in 1..Customers
      BY <2>1
    <3>2. customers' \subseteq [id : Nat, seed : 0..MaxSeeds]
      BY <2>1
    <3>3. QED
      BY <3>1, <3>2 DEF Ids
  <2>3. TypeOK'
    BY <1>0, <1>6, <2>2 DEF InsertCustomers, TypeOK, Loading, history
  <2>4. Bounded(Ids(customers))'
    <3>1. Ids(customers)' \subseteq 1..Customers /\ Customers \in Nat
      BY <2>1, <2>2
    <3>2. \A x \in 1..Customers : x <= Customers
      BY <3>1
    <3>3. \A x \in Ids(customers)' : x <= Customers
      BY <3>1, <3>2, Zenon
    <3>4. QED
      BY <3>1, <3>3 DEF Bounded
  <2>5. QED
    BY <1>0, <1>6, <2>3, <2>4 DEF InsertCustomers, TypeInv, BoundedRows, Ids, OrderDays, RateDays
<1>7. CASE CreateOrders
  <2>1. TypeOK'
    BY <1>0, <1>7 DEF CreateOrders, TypeOK, Loading, history
  <2>2. Ids(orders)' = {} /\ OrderDays' = {}
    BY <1>7 DEF CreateOrders, Ids, OrderDays
  <2>3. QED
    BY <1>0, <1>7, <2>1, <2>2, EmptyBounded DEF CreateOrders, TypeInv, BoundedRows, Ids, RateDays
<1>8. CASE CopyOrders
  <2>1. orders' = Baseline /\ Baseline \subseteq Order /\ Days \in Nat
    BY <1>8, BaselineAssumption DEF CopyOrders
  <2>2. TypeOK'
    BY <1>0, <1>8, <2>1, StopType DEF CopyOrders, TypeOK
  <2>3. PICK last \in Baseline : \A o \in Baseline : o.id <= last.id
    BY BaselineAssumption
  <2>4. Bounded(Ids(orders))'
    BY <2>1, <2>3 DEF Ids, Bounded, Order
  <2>5. Bounded(OrderDays)'
    BY <2>1, BaselineAssumption DEF OrderDays, Bounded
  <2>6. QED
    BY <1>0, <1>8, <2>2, <2>4, <2>5 DEF CopyOrders, TypeInv, BoundedRows, Ids, RateDays
<1>9. QED
  BY <1>1, <1>2, <1>3, <1>4, <1>5, <1>6, <1>7, <1>8

LEMMA SeedKeepsTypes ==
    ASSUME TypeInv,
           StartSeed \/ SeedCustomers \/ SeedOrders \/ AppendFx \/ SeedRefused \/ Dies
    PROVE  TypeInv'
<1>0. /\ TypeOK /\ BoundedRows
      /\ Ids(customers) \in SUBSET Nat /\ Ids(orders) \in SUBSET Nat
      /\ OrderDays \in SUBSET Nat /\ OrderedBy \in SUBSET Nat
      /\ RateDays \in SUBSET (Nat \ {0})
  BY RowTypes DEF TypeInv
<1>1. CASE StartSeed
  <2>1. TypeOK'
    BY <1>0, <1>1, LimitAssumption DEF StartSeed, TypeOK, Seeding, tables
  <2>2. QED
    BY <1>0, <1>1, <2>1 DEF StartSeed, TypeInv, BoundedRows, tables, Ids, OrderDays, RateDays
<1>2. CASE SeedCustomers
  <2> DEFINE new == Highest(Ids(customers)) + 1
  <2>1. new \in Nat
    BY <1>0, HighestBounds DEF BoundedRows
  <2>2. customers' = customers \union {[id |-> new, seed |-> seeds]} /\ fresh' = {new}
    BY <1>2 DEF SeedCustomers
  <2> HIDE DEF new
  <2>3. Ids(customers)' = Ids(customers) \union {new}
    <3>1. Ids(customers)' = {r.id : r \in customers} \union {r.id : r \in {[id |-> new, seed |-> seeds]}}
      BY <2>2, Zenon DEF Ids
    <3>2. {r.id : r \in {[id |-> new, seed |-> seeds]}} = {new}
      OBVIOUS
    <3>3. QED
      BY <3>1, <3>2, Zenon DEF Ids
  <2>4. customers' \subseteq [id : Nat, seed : 0..MaxSeeds] /\ fresh' \subseteq Nat
    BY <1>0, <2>1, <2>2 DEF TypeOK
  <2>5. TypeOK'
    BY <1>0, <1>2, <2>4 DEF SeedCustomers, TypeOK, Seeding, history
  <2>6. Bounded(Ids(customers))'
    BY <1>0, <2>1, <2>3, AddedHighest DEF BoundedRows
  <2>7. QED
    BY <1>0, <1>2, <2>5, <2>6 DEF SeedCustomers, TypeInv, BoundedRows, Ids, OrderDays, RateDays
<1>3. CASE SeedOrders
  <2>1. PICK customer \in Seedable, day \in WindowStart..(WindowStart + Window - 1) :
            orders' = orders \union {[id |-> Highest(Ids(orders)) + 1, day |-> day,
                                      customer |-> customer, seed |-> seeds]}
    BY <1>3 DEF SeedOrders
  <2> DEFINE new == Highest(Ids(orders)) + 1
  <2>2. WindowStart \in Nat /\ Window \in Nat \ {0} /\ new \in Nat
    BY <1>0, HighestBounds, BaselineAssumption DEF WindowStart, BoundedRows
  <2>3. day \in Nat /\ customer \in Nat /\ seeds \in Nat
    BY <1>0, <2>1, <2>2, LimitAssumption DEF Seedable, TypeOK
  <2> HIDE DEF new
  <2>4. orders' = orders \union {[id |-> new, day |-> day, customer |-> customer, seed |-> seeds]}
    BY <2>1 DEF new
  <2>5. orders' \subseteq Order
    BY <1>0, <2>2, <2>3, <2>4 DEF Order, TypeOK
  <2>6. until' \in Nat
    BY <1>3, <2>2 DEF SeedOrders
  <2>7. TypeOK'
    BY <1>0, <1>3, <2>5, <2>6 DEF SeedOrders, TypeOK, Seeding, history
  <2>8. Ids(orders)' = Ids(orders) \union {new} /\ OrderDays' = OrderDays \union {day}
    <3> DEFINE added == [id |-> new, day |-> day, customer |-> customer, seed |-> seeds]
    <3>1. added.id = new /\ added.day = day /\ orders' = orders \union {added}
      BY <2>4
    <3> HIDE DEF added
    <3>2. Ids(orders)' = Ids(orders) \union {added.id}
      BY <3>1, Zenon DEF Ids
    <3>3. OrderDays' = OrderDays \union {added.day}
      BY <3>1, Zenon DEF OrderDays
    <3>4. QED
      BY <3>1, <3>2, <3>3
  <2>9. Bounded(Ids(orders))' /\ Bounded(OrderDays)'
    BY <1>0, <2>2, <2>3, <2>8, AddedHighest DEF BoundedRows
  <2>10. QED
    BY <1>0, <1>3, <2>7, <2>9 DEF SeedOrders, TypeInv, BoundedRows, Ids, RateDays
<1>4. CASE AppendFx
  <2>1. fx' = fx \union NewRates /\ Highest(RateDays) \in Nat /\ until \in Nat
    BY <1>0, <1>4, HighestBounds DEF AppendFx, BoundedRows, TypeOK
  <2>2. NewRates \subseteq (Nat \ {0}) \X (1..Quotes) /\ \A r \in NewRates : r[1] <= until
    BY <2>1 DEF NewRates
  <2>3. TypeOK'
    BY <1>0, <1>4, <2>1, <2>2, StopType DEF AppendFx, TypeOK
  <2>4. Bounded(RateDays)'
    <3>1. PICK n \in Nat : \A d \in RateDays : d <= n
      BY <1>0 DEF BoundedRows, Bounded
    <3>2. \A d \in RateDays' : d \in RateDays \/ (d \in Nat /\ d <= until)
      BY <2>1, <2>2 DEF RateDays
    <3>3. ASSUME NEW d \in RateDays' PROVE d <= n + until
      <4>1. CASE d \in RateDays
        <5>1. d \in Nat /\ d <= n
          BY <1>0, <3>1, <4>1
        <5>2. QED
          BY <2>1, <5>1
      <4>2. CASE d \in Nat /\ d <= until
        BY <2>1, <4>2
      <4>3. QED
        BY <3>2, <4>1, <4>2
    <3>4. n + until \in Nat
      BY <2>1
    <3>5. QED
      BY <3>3, <3>4 DEF Bounded
  <2>5. QED
    BY <1>0, <1>4, <2>3, <2>4 DEF AppendFx, TypeInv, BoundedRows, Ids, OrderDays
<1>5. CASE SeedRefused
  <2>1. TypeOK'
    BY <1>0, <1>5, StopType DEF SeedRefused, TypeOK, tables
  <2>2. QED
    BY <1>0, <1>5, <2>1 DEF SeedRefused, TypeInv, BoundedRows, tables, Ids, OrderDays, RateDays
<1>6. CASE Dies
  <2>1. TypeOK'
    BY <1>0, <1>6, StopType DEF Dies, TypeOK, tables
  <2>2. QED
    BY <1>0, <1>6, <2>1 DEF Dies, TypeInv, BoundedRows, tables, Ids, OrderDays, RateDays
<1>7. QED
  BY <1>1, <1>2, <1>3, <1>4, <1>5, <1>6

THEOREM TypeInvariant == Spec => []TypeInv
<1>1. Init => TypeInv
  <2> SUFFICES ASSUME Init PROVE TypeInv
    OBVIOUS
  <2>1. TypeOK
    <3>1. 0 \in 0..MaxLoads /\ 0 \in 0..MaxSeeds /\ 0 \in 0..MaxDeaths
      BY LimitAssumption
    <3>2. /\ mysql \in {"missing", "ready"} /\ postgres \in {"missing", "ready"}
          /\ pc \in Loading \union Seeding \union {"idle"}
      BY DEF Init
    <3>3. fresh \subseteq Nat /\ until \in Nat /\ reloading \in BOOLEAN /\ broken \in BOOLEAN /\ reset \in BOOLEAN
      BY DEF Init
    <3>4. loads \in 0..MaxLoads /\ seeds \in 0..MaxSeeds /\ deaths \in 0..MaxDeaths
      BY <3>1 DEF Init
    <3>5. customers = {} /\ orders = {} /\ fx = {}
      BY DEF Init
    <3>6. QED
      BY <3>2, <3>3, <3>4, <3>5, Zenon DEF TypeOK
  <2>2. Ids(customers) = {} /\ Ids(orders) = {} /\ OrderDays = {} /\ RateDays = {}
    BY DEF Init, Ids, OrderDays, RateDays
  <2>3. QED
    BY <2>1, <2>2, EmptyBounded DEF TypeInv, BoundedRows
<1>2. TypeInv /\ [Next]_vars => TypeInv'
  <2> SUFFICES ASSUME TypeInv, [Next]_vars PROVE TypeInv'
    OBVIOUS
  <2>1. CASE UNCHANGED vars
    BY <2>1 DEF vars, tables, history, TypeInv, TypeOK, BoundedRows, Ids, OrderDays, RateDays
  <2>2. QED
    BY <2>1, LoadKeepsTypes, SeedKeepsTypes DEF Next
<1>3. QED
  BY <1>1, <1>2, PTL DEF Spec

(* Every reachable state of the sources is well-typed, so that the highest    *)
(* key, day and rate a seed counts on from always exist.                      *)
THEOREM TypeCorrect == Spec => []TypeOK
<1>1. TypeInv => TypeOK
  BY DEF TypeInv
<1>2. QED
  BY <1>1, TypeInvariant, PTL

-----------------------------------------------------------------------------
(* Orders and their customers. *)

(* A load sets the flag that ends with it. *)
LoadFlagged == pc \in Loading => reloading
(* What the load has inserted is there when it copies the orders. *)
CustomersLoaded == pc \in {"create_orders", "copy_orders"} => 1..Customers \subseteq Ids(customers)
(* The customers an order may name next are committed as well. *)
NamedAreThere == ~reloading => OrderedBy \union fresh \subseteq Ids(customers)

CustomerInv == LoadFlagged /\ CustomersLoaded /\ NamedAreThere

LEMMA AddedCustomer ==
    ASSUME SeedCustomers
    PROVE  Ids(customers) \union fresh' \subseteq Ids(customers)'
<1> DEFINE new == Highest(Ids(customers)) + 1
<1>1. customers' = customers \union {[id |-> new, seed |-> seeds]} /\ fresh' = {new}
  BY DEF SeedCustomers
<1> HIDE DEF new
<1>2. [id |-> new, seed |-> seeds].id = new
  OBVIOUS
<1>3. new \in Ids(customers)'
  BY <1>1, <1>2, Zenon DEF Ids
<1>4. Ids(customers) \subseteq Ids(customers)'
  BY <1>1, Zenon DEF Ids
<1>5. QED
  BY <1>1, <1>3, <1>4

LEMMA LoadKeepsCustomers ==
    ASSUME CustomerInv,
           StartLoad \/ OpenRates \/ WriteRates \/ DropCustomers \/ CreateCustomers
           \/ InsertCustomers \/ CreateOrders \/ CopyOrders
    PROVE  CustomerInv'
<1> USE DEF CustomerInv, LoadFlagged, CustomersLoaded, NamedAreThere, Loading
<1>1. CASE StartLoad
  BY <1>1 DEF StartLoad
<1>2. CASE OpenRates
  BY <1>2 DEF OpenRates, history
<1>3. CASE WriteRates
  BY <1>3 DEF WriteRates, history
<1>4. CASE DropCustomers
  BY <1>4 DEF DropCustomers, history
<1>5. CASE CreateCustomers
  BY <1>5 DEF CreateCustomers, history
<1>6. CASE InsertCustomers
  <2>1. customers' = [id : 1..Customers, seed : {0}]
    BY <1>6 DEF InsertCustomers
  <2>2. ASSUME NEW x \in 1..Customers PROVE x \in Ids(customers)'
    <3>1. [id |-> x, seed |-> 0] \in customers' /\ [id |-> x, seed |-> 0].id = x
      BY <2>1
    <3>2. QED
      BY <3>1, Zenon DEF Ids
  <2>3. QED
    BY <1>6, <2>2 DEF InsertCustomers, history
<1>7. CASE CreateOrders
  <2>1. Ids(customers)' = Ids(customers)
    BY <1>7 DEF CreateOrders, Ids
  <2>2. QED
    BY <1>7, <2>1 DEF CreateOrders, history
<1>8. CASE CopyOrders
  <2>1. Ids(customers)' = Ids(customers) /\ 1..Customers \subseteq Ids(customers)
    BY <1>8 DEF CopyOrders, Ids
  <2>2. OrderedBy' \subseteq 1..Customers
    BY <1>8, BaselineAssumption DEF CopyOrders, OrderedBy
  <2>3. fresh' = {} /\ pc' = "idle"
    BY <1>8 DEF CopyOrders, Stop
  <2>4. QED
    BY <2>1, <2>2, <2>3
<1>9. QED
  BY <1>1, <1>2, <1>3, <1>4, <1>5, <1>6, <1>7, <1>8

LEMMA SeedKeepsCustomers ==
    ASSUME CustomerInv,
           StartSeed \/ SeedCustomers \/ SeedOrders \/ AppendFx \/ SeedRefused \/ Dies
    PROVE  CustomerInv'
<1> USE DEF CustomerInv, LoadFlagged, CustomersLoaded, NamedAreThere, Loading
<1>1. CASE StartSeed
  BY <1>1 DEF StartSeed, tables, Ids, OrderedBy
<1>2. CASE SeedCustomers
  <2>1. Ids(customers) \union fresh' \subseteq Ids(customers)' /\ OrderedBy' = OrderedBy
    BY <1>2, AddedCustomer DEF SeedCustomers, OrderedBy
  <2>2. pc' = "seed_orders" /\ reloading' = reloading
    BY <1>2 DEF SeedCustomers, history
  <2>3. QED
    BY <2>1, <2>2
<1>3. CASE SeedOrders
  <2>1. PICK customer \in Seedable, day \in WindowStart..(WindowStart + Window - 1) :
            orders' = orders \union {[id |-> Highest(Ids(orders)) + 1, day |-> day,
                                      customer |-> customer, seed |-> seeds]}
    BY <1>3 DEF SeedOrders
  <2>2. OrderedBy' \subseteq OrderedBy \union {customer}
    BY <2>1 DEF OrderedBy
  <2>3. Ids(customers)' = Ids(customers) /\ fresh' = fresh /\ pc' = "append_fx" /\ reloading' = reloading
    BY <1>3 DEF SeedOrders, history, Ids
  <2>4. QED
    BY <2>2, <2>3 DEF Seedable
<1>4. CASE AppendFx
  BY <1>4 DEF AppendFx, Stop, Ids, OrderedBy
<1>5. CASE SeedRefused
  BY <1>5 DEF SeedRefused, Stop, tables, Ids, OrderedBy
<1>6. CASE Dies
  BY <1>6 DEF Dies, Stop, tables, Ids, OrderedBy
<1>7. QED
  BY <1>1, <1>2, <1>3, <1>4, <1>5, <1>6

THEOREM CustomerInvariant == Spec => []CustomerInv
<1>1. Init => CustomerInv
  BY DEF Init, CustomerInv, LoadFlagged, CustomersLoaded, NamedAreThere, Loading
<1>2. CustomerInv /\ [Next]_vars => CustomerInv'
  <2> SUFFICES ASSUME CustomerInv, [Next]_vars PROVE CustomerInv'
    OBVIOUS
  <2>1. CASE UNCHANGED vars
    BY <2>1 DEF vars, tables, history, CustomerInv, LoadFlagged, CustomersLoaded, NamedAreThere, Ids, OrderedBy
  <2>2. QED
    BY <2>1, LoadKeepsCustomers, SeedKeepsCustomers DEF Next
<1>3. QED
  BY <1>1, <1>2, PTL DEF Spec

(* However many loads and seeds run and wherever they die: once a load has    *)
(* finished, each order names a committed customer.                           *)
THEOREM NoOrphans == Spec => []OrdersHaveCustomers
<1>1. CustomerInv => OrdersHaveCustomers
  BY DEF CustomerInv, NamedAreThere, OrdersHaveCustomers, OrderedBy
<1>2. QED
  BY <1>1, CustomerInvariant, PTL

-----------------------------------------------------------------------------
(* Orders and the rates of their days. *)

Filled(h) == (1..h) \X (1..Quotes)

(* A load copies orders after it wrote the whole file. *)
FileWritten ==
    pc \in {"drop_customers", "create_customers", "insert_customers", "create_orders", "copy_orders"}
        => fx = Filled(Days)
(* From then on the file has every day up to its last, in each currency. *)
NoGap == ~reloading => \E h \in Nat : fx = Filled(h)
(* A seed closes the file at its last day, which is that of the last order. *)
UntilIsLast == pc = "append_fx" => \A d \in OrderDays : d <= until
DaysCounted == OrderDays \subseteq Nat \ {0}

RatesInv == FileWritten /\ NoGap /\ UntilIsLast /\ DaysCounted /\ RatesCoverOrders

LEMMA DaysOfFilled ==
    ASSUME NEW h \in Nat, fx = Filled(h)
    PROVE  RateDays = 1..h /\ Highest(RateDays) = h
<1>1. Quotes \in Nat \ {0}
  BY BaselineAssumption
<1>2. RateDays \subseteq 1..h
  BY DEF RateDays, Filled
<1>3. ASSUME NEW d \in 1..h PROVE d \in RateDays
  <2>1. <<d, 1>> \in fx /\ <<d, 1>>[1] = d
    BY <1>1 DEF Filled
  <2>2. QED
    BY <2>1, Zenon DEF RateDays
<1>4. RateDays = 1..h
  BY <1>2, <1>3
<1>5. RateDays \in SUBSET Nat /\ \A x \in RateDays : x <= h
  BY <1>4
<1>6. Bounded(RateDays)
  BY <1>5 DEF Bounded
<1>7. /\ Highest(RateDays) \in Nat /\ Highest(RateDays) \in RateDays \union {0}
      /\ \A x \in RateDays : x <= Highest(RateDays)
  BY <1>5, <1>6, HighestBounds
<1>8. Highest(RateDays) = h
  <2>1. CASE h = 0
    BY <1>4, <1>7, <2>1
  <2>2. CASE h # 0
    <3>1. h \in RateDays
      BY <1>4, <2>2
    <3>2. h <= Highest(RateDays)
      BY <1>7, <3>1
    <3>3. Highest(RateDays) <= h
      BY <1>4, <1>7
    <3>4. QED
      BY <1>7, <3>2, <3>3
  <2>3. QED
    BY <2>1, <2>2
<1>9. QED
  BY <1>4, <1>8

LEMMA LoadKeepsRates ==
    ASSUME TypeInv, CustomerInv, RatesInv,
           StartLoad \/ OpenRates \/ WriteRates \/ DropCustomers \/ CreateCustomers
           \/ InsertCustomers \/ CreateOrders \/ CopyOrders
    PROVE  RatesInv'
<1>0. FileWritten /\ NoGap /\ UntilIsLast /\ DaysCounted /\ LoadFlagged
  BY DEF RatesInv, CustomerInv
<1>1. CASE StartLoad
  BY <1>0, <1>1 DEF StartLoad, tables, RatesInv, FileWritten, NoGap, UntilIsLast, DaysCounted,
                    RatesCoverOrders, OrderDays
<1>2. CASE OpenRates
  <2>1. reloading' /\ pc' = "rates" /\ OrderDays' = OrderDays
    BY <1>0, <1>2 DEF OpenRates, history, LoadFlagged, Loading, OrderDays
  <2>2. QED
    BY <1>0, <2>1 DEF RatesInv, FileWritten, NoGap, UntilIsLast, DaysCounted, RatesCoverOrders
<1>3. CASE WriteRates
  <2>1. PICK n \in 1..(Days * Quotes) :
            fx' = Written(n) /\ pc' = IF n = Days * Quotes THEN "drop_customers" ELSE "rates"
    BY <1>3 DEF WriteRates
  <2>2. reloading' /\ OrderDays' = OrderDays /\ pc' \in {"rates", "drop_customers"}
    BY <1>0, <1>3, <2>1 DEF WriteRates, history, LoadFlagged, Loading, OrderDays
  <2>3. pc' = "drop_customers" => fx' = Filled(Days)
    BY <2>1, WholeFile DEF Filled
  <2>4. QED
    BY <1>0, <2>2, <2>3 DEF RatesInv, FileWritten, NoGap, UntilIsLast, DaysCounted, RatesCoverOrders
<1>4. CASE DropCustomers \/ CreateCustomers \/ InsertCustomers
  <2>1. /\ fx' = fx /\ reloading' /\ OrderDays' = OrderDays /\ fx = Filled(Days)
        /\ pc' \in {"create_customers", "insert_customers", "create_orders"}
    BY <1>0, <1>4 DEF DropCustomers, CreateCustomers, InsertCustomers, history, LoadFlagged, Loading,
                      OrderDays, FileWritten
  <2>2. QED
    BY <1>0, <2>1 DEF RatesInv, FileWritten, NoGap, UntilIsLast, DaysCounted, RatesCoverOrders
<1>5. CASE CreateOrders
  <2>1. fx' = fx /\ reloading' /\ OrderDays' = {} /\ fx = Filled(Days) /\ pc' = "copy_orders"
    BY <1>0, <1>5 DEF CreateOrders, history, LoadFlagged, Loading, OrderDays, FileWritten
  <2>2. QED
    BY <2>1 DEF RatesInv, FileWritten, NoGap, UntilIsLast, DaysCounted, RatesCoverOrders
<1>6. CASE CopyOrders
  <2>1. fx' = Filled(Days) /\ pc' = "idle"
    BY <1>0, <1>6 DEF CopyOrders, Stop, FileWritten
  <2>2. OrderDays' \subseteq 1..Days /\ Days \in Nat
    BY <1>6, BaselineAssumption DEF CopyOrders, OrderDays
  <2>3. OrderDays' \X (1..Quotes) \subseteq fx'
    BY <2>1, <2>2 DEF Filled
  <2>4. FileWritten' /\ UntilIsLast' /\ RatesCoverOrders'
    BY <2>1, <2>3 DEF FileWritten, UntilIsLast, RatesCoverOrders
  <2>5. NoGap' /\ DaysCounted'
    BY <2>1, <2>2 DEF NoGap, DaysCounted, Filled
  <2>6. QED
    BY <2>4, <2>5 DEF RatesInv
<1>7. QED
  BY <1>1, <1>2, <1>3, <1>4, <1>5, <1>6

LEMMA SeedKeepsRates ==
    ASSUME TypeInv, RatesInv,
           StartSeed \/ SeedCustomers \/ SeedOrders \/ AppendFx \/ SeedRefused \/ Dies
    PROVE  RatesInv'
<1>0. /\ FileWritten /\ NoGap /\ UntilIsLast /\ DaysCounted /\ TypeOK /\ BoundedRows
      /\ OrderDays \in SUBSET Nat
  BY RowTypes DEF RatesInv, TypeInv
<1>1. CASE StartSeed \/ SeedCustomers
  <2>1. fx' = fx /\ OrderDays' = OrderDays /\ reloading' = reloading /\ pc' \in {"seed_customers", "seed_orders"}
    BY <1>1 DEF StartSeed, SeedCustomers, tables, history, OrderDays
  <2>2. NoGap'
    BY <1>0, <2>1 DEF NoGap, Filled
  <2>3. QED
    BY <1>0, <2>1, <2>2 DEF RatesInv, FileWritten, UntilIsLast, DaysCounted, RatesCoverOrders
<1>2. CASE SeedOrders
  <2>1. PICK customer \in Seedable, day \in WindowStart..(WindowStart + Window - 1) :
            orders' = orders \union {[id |-> Highest(Ids(orders)) + 1, day |-> day,
                                      customer |-> customer, seed |-> seeds]}
    BY <1>2 DEF SeedOrders
  <2>2. /\ Highest(OrderDays) \in Nat /\ Window \in Nat \ {0} /\ WindowStart = Highest(OrderDays) + 1
        /\ \A d \in OrderDays : d <= Highest(OrderDays)
    BY <1>0, HighestBounds, BaselineAssumption DEF WindowStart, BoundedRows
  <2>3. OrderDays' \subseteq OrderDays \union {day}
    BY <2>1 DEF OrderDays
  <2>4. /\ fx' = fx /\ reloading' = reloading /\ pc' = "append_fx"
        /\ until' = WindowStart + Window - 1
    BY <1>2 DEF SeedOrders, history
  <2>5. day \in Nat \ {0} /\ day <= until'
    BY <2>1, <2>2, <2>4
  <2>6. ASSUME NEW d \in OrderDays' PROVE d \in Nat \ {0} /\ d <= until'
    <3>1. CASE d \in OrderDays
      <4>1. d \in Nat \ {0} /\ d <= Highest(OrderDays)
        BY <1>0, <2>2, <3>1 DEF DaysCounted
      <4>2. QED
        BY <2>2, <2>4, <4>1
    <3>2. QED
      BY <2>3, <2>5, <3>1
  <2>7. NoGap'
    BY <1>0, <2>4 DEF NoGap, Filled
  <2>8. QED
    BY <2>4, <2>6, <2>7 DEF RatesInv, FileWritten, UntilIsLast, DaysCounted, RatesCoverOrders
<1>3. CASE AppendFx
  <2>1. /\ fx' = fx \union NewRates /\ OrderDays' = OrderDays /\ reloading' = reloading /\ pc' = "idle"
        /\ until \in Nat /\ \A d \in OrderDays : d <= until
    BY <1>0, <1>3 DEF AppendFx, Stop, OrderDays, UntilIsLast, TypeOK
  <2>2. FileWritten' /\ UntilIsLast' /\ DaysCounted'
    BY <1>0, <2>1 DEF FileWritten, UntilIsLast, DaysCounted
  <2>3. ASSUME ~reloading
        PROVE  \E g \in Nat : fx' = Filled(g) /\ OrderDays \subseteq 1..g
    <3>1. PICK h \in Nat : fx = Filled(h)
      BY <1>0, <2>3 DEF NoGap
    <3>2. NewRates = ((h + 1)..until) \X (1..Quotes)
      BY <3>1, DaysOfFilled DEF NewRates
    <3> DEFINE g == IF until <= h THEN h ELSE until
    <3>3. g \in Nat /\ until <= g
      BY <2>1
    <3>4. (1..h) \union ((h + 1)..until) = 1..g
      BY <2>1
    <3>5. fx' = Filled(g)
      <4>1. ((1..h) \X (1..Quotes)) \union (((h + 1)..until) \X (1..Quotes))
                = ((1..h) \union ((h + 1)..until)) \X (1..Quotes)
        OBVIOUS
      <4>2. QED
        BY <2>1, <3>1, <3>2, <3>4, <4>1, Zenon DEF Filled
    <3>6. OrderDays \subseteq 1..g
      <4>1. ASSUME NEW d \in OrderDays PROVE d \in 1..g
        <5>1. d \in Nat \ {0} /\ d <= until
          BY <1>0, <2>1 DEF DaysCounted
        <5>2. QED
          BY <2>1, <3>3, <5>1
      <4>2. QED
        BY <4>1
    <3>7. QED
      BY <3>3, <3>5, <3>6
  <2>4. NoGap'
    BY <2>1, <2>3 DEF NoGap, Filled
  <2>5. RatesCoverOrders'
    BY <2>1, <2>3 DEF RatesCoverOrders, Filled
  <2>6. QED
    BY <2>2, <2>4, <2>5 DEF RatesInv
<1>4. CASE SeedRefused \/ Dies
  <2>1. fx' = fx /\ OrderDays' = OrderDays /\ reloading' = reloading /\ pc' = "idle" /\ broken'
    BY <1>4 DEF SeedRefused, Dies, Stop, tables, OrderDays
  <2>2. NoGap'
    BY <1>0, <2>1 DEF NoGap, Filled
  <2>3. QED
    BY <1>0, <2>1, <2>2 DEF RatesInv, FileWritten, UntilIsLast, DaysCounted, RatesCoverOrders
<1>5. QED
  BY <1>1, <1>2, <1>3, <1>4

THEOREM RatesInvariant == Spec => [](TypeInv /\ CustomerInv /\ RatesInv)
<1>1. Init => RatesInv
  <2> SUFFICES ASSUME Init PROVE RatesInv
    OBVIOUS
  <2>1. OrderDays = {} /\ pc = "idle" /\ reloading
    BY DEF Init, OrderDays
  <2>2. QED
    BY <2>1 DEF RatesInv, FileWritten, NoGap, UntilIsLast, DaysCounted, RatesCoverOrders
<1>2. TypeInv /\ CustomerInv /\ RatesInv /\ [Next]_vars => RatesInv'
  <2> SUFFICES ASSUME TypeInv, CustomerInv, RatesInv, [Next]_vars PROVE RatesInv'
    OBVIOUS
  <2>1. CASE UNCHANGED vars
    BY <2>1 DEF vars, tables, history, RatesInv, FileWritten, NoGap, UntilIsLast, DaysCounted,
                RatesCoverOrders, OrderDays, Filled
  <2>2. QED
    BY <2>1, LoadKeepsRates, SeedKeepsRates DEF Next
<1>3. QED
  BY <1>1, <1>2, TypeInvariant, CustomerInvariant, PTL DEF Spec

(* A seed that finishes leaves a rate for the day and each currency of every  *)
(* order, whichever seeds died before they had appended theirs.               *)
THEOREM EveryOrderHasRates == Spec => []RatesCoverOrders
<1>1. RatesInv => RatesCoverOrders
  BY DEF RatesInv
<1>2. QED
  BY <1>1, RatesInvariant, PTL
=============================================================================
