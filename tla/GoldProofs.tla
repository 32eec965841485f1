----------------------------- MODULE GoldProofs -----------------------------
(***************************************************************************)
(* Proofs about Gold, for every Bronze layer.  The tables agree because    *)
(* each good row is joined to good rows of the tables upstream, one of     *)
(* them, and these are still there when Gold is computed: every order then *)
(* falls into one row of each table that counts it.                        *)
(***************************************************************************)
EXTENDS Gold, SilverProofs, SumProofs

-----------------------------------------------------------------------------
(* The rows of Silver. *)

LEMMA SilverIsFinite ==
    ASSUME JoinInv, NEW t \in Tables
    PROVE  IsFiniteSet(silver[t])
<1> DEFINE f == [j \in silver[t] |-> j.row]
<1>1. f \in [silver[t] -> bronze[t]]
  BY DEF JoinInv, TypeOK
<1>2. \A j, k \in silver[t] : f[j] = f[k] => j = k
  BY DEF JoinInv, VerdictInv, SilverInv, KeysUnique
<1>3. IsFiniteSet(bronze[t])
  BY BronzeAssumption DEF JoinInv, TypeOK
<1> HIDE DEF f
<1>4. f \in Injection(silver[t], bronze[t])
  BY <1>1, <1>2 DEF Injection, IsInjective
<1>5. QED
  BY <1>3, <1>4, FS_Injection

(* Half a cent rounds up, and nothing rounds further.                         *)
LEMMA Rounding ==
    ASSUME NEW a \in Int, NEW q \in Nat \ {0}
    PROVE  /\ Usd(a, q) \in Int
           /\ -q <= (2 * q) * Usd(a, q) - (2 * RateOne) * a
           /\ (2 * q) * Usd(a, q) - (2 * RateOne) * a <= q
<1> DEFINE m == 2 * RateOne * a
           u == (m + q) \div (2 * q)
<1>1. Usd(a, q) = u
  BY NullAssumption DEF Usd
<1>2. m \in Int /\ m = (2 * RateOne) * a
  BY RateAssumption
<1> HIDE DEF m
<1>3. u \in Int /\ -q <= (2 * q) * u - m /\ (2 * q) * u - m <= q
  BY <1>2
<1> HIDE DEF u
<1>4. QED
  BY <1>1, <1>2, <1>3

(* A good order has a customer in Silver, and a rate to convert at.           *)
LEMMA OrderRow ==
    ASSUME JoinInv, NEW o \in Orders
    PROVE  /\ o.customer \in silver["customers"]
           /\ o.customer.row.customer_id = o.row.customer_id
           /\ o.row.order_total \in Int /\ o.row.shipping_cost \in Int
           /\ FxRateToUsd(o) \in Nat \ {0}
           /\ OrderTotalUsd(o) \in Int
<1>1. "orders" \in Tables /\ o.row \in bronze["orders"]
  BY DEF Orders, JoinInv, TypeOK, Tables
<1>2. o \in Transformed("orders", o.row) /\ FailedChecks("orders", o) = {}
  BY <1>1 DEF Orders, JoinInv, Joined
<1>3. o \in [row : {o.row}, customer : LeftJoin(KnownCustomer(o.row)),
             rate : LeftJoin(RateOf(o.row))]
  BY <1>2 DEF Transformed, Independent
<1>4. o.customer \in LeftJoin(KnownCustomer(o.row)) /\ o.rate \in LeftJoin(RateOf(o.row))
  BY <1>3
<1>5. Checks("orders", o) = OrderChecks(o)
  BY DEF Checks
<1>6. /\ "customer_id_exists" \in DOMAIN OrderChecks(o)
      /\ "fx_conversion_resolved" \in DOMAIN OrderChecks(o)
  BY DEF OrderChecks
<1>7. /\ OrderChecks(o)["customer_id_exists"] = TRUE
      /\ OrderChecks(o)["fx_conversion_resolved"] = TRUE
  BY <1>2, <1>5, <1>6 DEF FailedChecks
<1>8. NotNull(o.customer) /\ NotNull(OrderTotalUsd(o))
  BY <1>7 DEF OrderChecks
<1>9. o.customer \in KnownCustomer(o.row)
  BY <1>4, <1>8 DEF NotNull, LeftJoin
<1>10. o.row.order_total \in Int /\ o.row.shipping_cost \in Int
  BY <1>1, BronzeAssumption DEF JoinInv, TypeOK
<1>11. FxRateToUsd(o) # Null
  BY <1>8 DEF NotNull, OrderTotalUsd, Usd
<1>12. FxRateToUsd(o) \in Nat \ {0}
  <2>1. CASE o.row.currency_code = "USD"
    BY <2>1, RateAssumption DEF FxRateToUsd
  <2>2. CASE o.row.currency_code # "USD"
    <3>1. o.rate # Null /\ FxRateToUsd(o) = o.rate.row.rate
      BY <1>11, <2>2 DEF FxRateToUsd
    <3>2. o.rate \in silver["exchange_rates"]
      BY <1>4, <3>1 DEF LeftJoin, RateOf
    <3>3. QED
      BY <3>1, <3>2, RateIsPositive
  <2>3. QED
    BY <2>1, <2>2
<1>13. OrderTotalUsd(o) \in Int
  BY <1>10, <1>12, Rounding DEF OrderTotalUsd
<1>14. QED
  BY <1>9, <1>10, <1>12, <1>13 DEF KnownCustomer

(* A good order item has its order and its product in Silver.                 *)
LEMMA ItemRow ==
    ASSUME JoinInv, NEW i \in Items
    PROVE  /\ i.order \in Orders /\ i.order.row.order_id = i.row.order_id
           /\ i.product \in silver["products"] /\ i.product.row.product_id = i.row.product_id
           /\ i.row.quantity \in Int /\ i.row.line_total \in Int
<1>1. "order_items" \in Tables /\ i.row \in bronze["order_items"]
  BY DEF Items, JoinInv, TypeOK, Tables
<1>2. i \in Transformed("order_items", i.row) /\ FailedChecks("order_items", i) = {}
  BY <1>1 DEF Items, JoinInv, Joined
<1>3. i \in [row : {i.row}, order : LeftJoin(KnownOrder(i.row)),
             product : LeftJoin(KnownProduct(i.row))]
  BY <1>2 DEF Transformed, Independent
<1>4. i.order \in LeftJoin(KnownOrder(i.row)) /\ i.product \in LeftJoin(KnownProduct(i.row))
  BY <1>3
<1>5. Checks("order_items", i) = OrderItemChecks(i)
  BY DEF Checks
<1>6. /\ "order_id_exists" \in DOMAIN OrderItemChecks(i)
      /\ "product_id_exists" \in DOMAIN OrderItemChecks(i)
  BY DEF OrderItemChecks
<1>7. /\ OrderItemChecks(i)["order_id_exists"] = TRUE
      /\ OrderItemChecks(i)["product_id_exists"] = TRUE
  BY <1>2, <1>5, <1>6 DEF FailedChecks
<1>8. NotNull(i.order) /\ NotNull(i.product)
  BY <1>7 DEF OrderItemChecks
<1>9. i.order \in KnownOrder(i.row) /\ i.product \in KnownProduct(i.row)
  BY <1>4, <1>8 DEF NotNull, LeftJoin
<1>10. i.row.quantity \in Int /\ i.row.line_total \in Int
  BY <1>1, BronzeAssumption DEF JoinInv, TypeOK
<1>11. QED
  BY <1>9, <1>10 DEF KnownOrder, KnownProduct, Orders

(* A key names one row of a Silver table.                                     *)
LEMMA OneRowOfAKey ==
    ASSUME JoinInv
    PROVE  /\ \A c, d \in silver["customers"] : c.row.customer_id = d.row.customer_id => c = d
           /\ \A o, p \in Orders : o.row.order_id = p.row.order_id => o = p
           /\ \A p, q \in silver["products"] : p.row.product_id = q.row.product_id => p = q
<1>1. \A t \in Tables : \A j, k \in silver[t] : Key(t, j.row) = Key(t, k.row) => j = k
  BY DEF JoinInv, VerdictInv, SilverInv, KeysUnique
<1>2. {"customers", "orders", "products"} \subseteq Tables
  BY DEF Tables, Independent
<1>3. \A r : /\ Key("customers", r) = r.customer_id
             /\ Key("orders", r) = r.order_id
             /\ Key("products", r) = r.product_id
  BY DEF Key
<1>4. QED
  BY <1>1, <1>2, <1>3 DEF Orders

LEMMA ImageIsFinite ==
    ASSUME NEW S, IsFiniteSet(S), NEW h, DOMAIN h = S
    PROVE  IsFiniteSet({h[s] : s \in S})
<1> DEFINE R == {h[s] : s \in S}
           f == [s \in S |-> h[s]]
<1>1. f \in [S -> R] /\ \A r \in R : \E s \in S : f[s] = r
  OBVIOUS
<1> HIDE DEF R, f
<1>2. f \in Surjection(S, R)
  BY <1>1 DEF Surjection
<1>3. IsFiniteSet(R)
  BY <1>2, FS_Surjection
<1>4. QED
  BY <1>3 DEF R

-----------------------------------------------------------------------------
(* Revenue: sorted into the rows of a table, the orders are worth the same.   *)

Worth == [o \in Orders |-> OrderTotalUsd(o)]

LEMMA RevenueIsPart ==
    ASSUME NEW T \in SUBSET Orders
    PROVE  Revenue(T) = Part(Worth, T)
<1>1. [o \in T |-> OrderTotalUsd(o)] = [o \in T |-> Worth[o]]
  BY DEF Worth
<1>2. QED
  BY <1>1 DEF Revenue, Part

LEMMA RevenueByRow ==
    ASSUME JoinInv, NEW R, IsFiniteSet(R), NEW h \in [Orders -> R]
    PROVE  SumFunction([r \in R |-> Revenue({o \in Orders : h[o] = r})]) = Revenue(Orders)
<1> DEFINE w == [r \in R |-> Revenue({o \in Orders : h[o] = r})]
<1>1. IsFiniteSet(Orders) /\ Worth \in [Orders -> Int]
  BY SilverIsFinite, OrderRow DEF Orders, Worth, Tables
<1>2. \A r \in R : w[r] = Part(Worth, {o \in Orders : h[o] = r})
  BY RevenueIsPart
<1>3. \A T \in SUBSET Orders : Part(Worth, T) \in Int
  BY <1>1, PartSteps
<1>4. w \in [R -> Int]
  BY <1>2, <1>3
<1> HIDE DEF w
<1>5. SumFunction(w) = SumFunction(Worth)
  BY <1>1, <1>2, <1>4, SumByGroups
<1>6. QED
  BY <1>5 DEF w, Worth, Revenue

SameDay(o) == {p \in Orders : /\ p.row.order_date = o.row.order_date
                              /\ p.row.sales_channel = o.row.sales_channel}

DailyRowOf(o) == DailyRow(o.row.order_date, o.row.sales_channel, SameDay(o))

LEMMA DailyRows ==
    ASSUME JoinInv
    PROVE  /\ DailySales = {DailyRowOf(o) : o \in Orders}
           /\ IsFiniteSet(DailySales)
           /\ \A o, p \in Orders : DailyRowOf(p) = DailyRowOf(o) <=> p \in SameDay(o)
<1>1. DailySales = {DailyRowOf(o) : o \in Orders}
  BY DEF DailySales, DailyRowOf, SameDay
<1>2. IsFiniteSet(DailySales)
  <2> DEFINE h == [o \in Orders |-> DailyRowOf(o)]
  <2>1. IsFiniteSet(Orders) /\ DOMAIN h = Orders
    BY SilverIsFinite DEF Orders, Tables
  <2>2. DailySales = {h[o] : o \in Orders}
    BY <1>1
  <2> HIDE DEF h
  <2>3. QED
    BY <2>1, <2>2, ImageIsFinite
<1>3. ASSUME NEW o \in Orders, NEW p \in Orders
      PROVE  DailyRowOf(p) = DailyRowOf(o) <=> p \in SameDay(o)
  <2>1. \A q \in Orders : /\ DailyRowOf(q).order_date = q.row.order_date
                          /\ DailyRowOf(q).sales_channel = q.row.sales_channel
    BY DEF DailyRowOf, DailyRow
  <2>2. p \in SameDay(o) => SameDay(p) = SameDay(o)
    BY DEF SameDay
  <2>3. p \in SameDay(o) => DailyRowOf(p) = DailyRowOf(o)
    BY <2>2 DEF DailyRowOf, SameDay
  <2>4. QED
    BY <2>1, <2>3 DEF SameDay
<1>4. QED
  BY <1>1, <1>2, <1>3

LEMMA RevenueByDay ==
    ASSUME JoinInv
    PROVE  SumFunction([r \in DailySales |-> r.total_revenue_usd]) = Revenue(Orders)
<1> DEFINE h == [o \in Orders |-> DailyRowOf(o)]
<1>1. h \in [Orders -> DailySales]
  BY DailyRows
<1>2. ASSUME NEW r \in DailySales
      PROVE  r.total_revenue_usd = Revenue({o \in Orders : h[o] = r})
  <2>1. PICK o \in Orders : r = DailyRowOf(o)
    BY DailyRows
  <2>2. {p \in Orders : h[p] = r} = SameDay(o)
    BY <2>1, DailyRows DEF SameDay
  <2>3. r.total_revenue_usd = Revenue(SameDay(o))
    BY <2>1 DEF DailyRowOf, DailyRow
  <2>4. QED
    BY <2>2, <2>3
<1>3. [r \in DailySales |-> r.total_revenue_usd]
          = [r \in DailySales |-> Revenue({o \in Orders : h[o] = r})]
  BY <1>2
<1> HIDE DEF h
<1>4. QED
  BY <1>1, <1>3, DailyRows, RevenueByRow

LEMMA RevenueByMonth ==
    ASSUME JoinInv
    PROVE  SumFunction([r \in MonthlyRevenue |-> r.total_revenue_usd]) = Revenue(Orders)
<1> DEFINE h == [o \in Orders |-> MonthlyRow(YearMonth(o.row.order_date))]
<1>1. /\ \A m : /\ MonthlyRow(m).year_month = m
                /\ MonthlyRow(m).total_revenue_usd = Revenue(OrdersIn(m))
  BY DEF MonthlyRow
<1>2. MonthlyRevenue = {h[o] : o \in Orders} /\ h \in [Orders -> MonthlyRevenue]
  BY DEF MonthlyRevenue
<1>3. ASSUME NEW r \in MonthlyRevenue
      PROVE  r.total_revenue_usd = Revenue({o \in Orders : h[o] = r})
  <2>1. PICK o \in Orders : r = MonthlyRow(YearMonth(o.row.order_date))
    BY <1>2
  <2>2. \A p \in Orders : h[p] = r <=> YearMonth(p.row.order_date) = YearMonth(o.row.order_date)
    BY <1>1, <2>1
  <2>3. {p \in Orders : h[p] = r} = OrdersIn(YearMonth(o.row.order_date))
    BY <2>2 DEF OrdersIn
  <2>4. QED
    BY <1>1, <2>1, <2>3
<1>4. [r \in MonthlyRevenue |-> r.total_revenue_usd]
          = [r \in MonthlyRevenue |-> Revenue({o \in Orders : h[o] = r})]
  BY <1>3
<1>5. DOMAIN h = Orders
  OBVIOUS
<1> HIDE DEF h
<1>6. IsFiniteSet(MonthlyRevenue)
  BY <1>2, <1>5, ImageIsFinite, SilverIsFinite DEF Orders, Tables
<1>7. QED
  BY <1>2, <1>4, <1>6, RevenueByRow

(* Each order has its customer in Silver, so no order falls out.              *)
CustomerRow(c) ==
    [customer_id          |-> c.row.customer_id,
     lifetime_order_count |-> Cardinality(OrdersOf(c)),
     lifetime_revenue_usd |-> Revenue(OrdersOf(c))]

LEMMA RevenueByCustomer ==
    ASSUME JoinInv
    PROVE  SumFunction([r \in Customer360 |-> r.lifetime_revenue_usd]) = Revenue(Orders)
<1> DEFINE h == [o \in Orders |-> CustomerRow(o.customer)]
           rows == [c \in silver["customers"] |-> CustomerRow(c)]
<1>1. \A c : /\ CustomerRow(c).customer_id = c.row.customer_id
             /\ CustomerRow(c).lifetime_revenue_usd = Revenue(OrdersOf(c))
  BY DEF CustomerRow
<1>2. Customer360 = {CustomerRow(c) : c \in silver["customers"]}
  BY DEF Customer360, CustomerRow
<1>3. h \in [Orders -> Customer360]
  BY <1>2, OrderRow
<1>4. ASSUME NEW r \in Customer360
      PROVE  r.lifetime_revenue_usd = Revenue({o \in Orders : h[o] = r})
  <2>1. PICK c \in silver["customers"] : r = CustomerRow(c)
    BY <1>2
  <2>2. ASSUME NEW o \in Orders
        PROVE  h[o] = r <=> o.row.customer_id = c.row.customer_id
    <3>1. o.customer \in silver["customers"] /\ o.customer.row.customer_id = o.row.customer_id
      BY OrderRow
    <3>2. h[o] = r => o.row.customer_id = c.row.customer_id
      BY <1>1, <2>1, <3>1
    <3>3. o.row.customer_id = c.row.customer_id => o.customer = c
      BY <3>1, OneRowOfAKey
    <3>4. QED
      BY <2>1, <3>2, <3>3
  <2>3. {o \in Orders : h[o] = r} = OrdersOf(c)
    BY <2>2 DEF OrdersOf
  <2>4. QED
    BY <1>1, <2>1, <2>3
<1>5. [r \in Customer360 |-> r.lifetime_revenue_usd]
          = [r \in Customer360 |-> Revenue({o \in Orders : h[o] = r})]
  BY <1>4
<1>6. Customer360 = {rows[c] : c \in silver["customers"]} /\ DOMAIN rows = silver["customers"]
  BY <1>2
<1> HIDE DEF h, rows
<1>7. IsFiniteSet(Customer360)
  BY <1>6, ImageIsFinite, SilverIsFinite DEF Tables, Independent
<1>8. QED
  BY <1>3, <1>5, <1>7, RevenueByRow

-----------------------------------------------------------------------------
(* Units: each good item has its order, and so a day, and its product.        *)

Units == [i \in Items |-> i.row.quantity]

LEMMA SoldIsPart ==
    ASSUME NEW T \in SUBSET Items
    PROVE  Sold(T) = Part(Units, T)
<1>1. [i \in T |-> i.row.quantity] = [i \in T |-> Units[i]]
  BY DEF Units
<1>2. QED
  BY <1>1 DEF Sold, Part

LEMMA SoldType ==
    ASSUME JoinInv
    PROVE  /\ IsFiniteSet(Items) /\ Units \in [Items -> Int]
           /\ \A T \in SUBSET Items : Sold(T) \in Int
           /\ Sold({}) = 0
<1>1. IsFiniteSet(Items) /\ Units \in [Items -> Int]
  BY SilverIsFinite, ItemRow DEF Items, Units, Tables
<1>2. \A T \in SUBSET Items : Part(Units, T) \in Int
  BY <1>1, PartSteps
<1>3. Part(Units, {}) = 0
  <2>1. {} \in SUBSET Items
    OBVIOUS
  <2>2. QED
    BY <1>1, <2>1, PartSteps
<1>4. QED
  BY <1>1, <1>2, <1>3, SoldIsPart

LEMMA SoldByRow ==
    ASSUME JoinInv, NEW R, IsFiniteSet(R), NEW h \in [Items -> R]
    PROVE  SumFunction([r \in R |-> Sold({i \in Items : h[i] = r})]) = Sold(Items)
<1> DEFINE w == [r \in R |-> Sold({i \in Items : h[i] = r})]
<1>1. IsFiniteSet(Items) /\ Units \in [Items -> Int]
  BY SoldType
<1>2. \A r \in R : w[r] = Part(Units, {i \in Items : h[i] = r})
  BY SoldIsPart
<1>3. w \in [R -> Int]
  BY SoldType
<1> HIDE DEF w
<1>4. SumFunction(w) = SumFunction(Units)
  BY <1>1, <1>2, <1>3, SumByGroups
<1>5. QED
  BY <1>4 DEF w, Units, Sold

LEMMA SoldByDay ==
    ASSUME JoinInv
    PROVE  SumFunction([r \in DailySales |->
                           IF r.total_items_sold = Null THEN 0 ELSE r.total_items_sold])
               = Sold(Items)
<1> DEFINE h == [i \in Items |-> DailyRowOf(i.order)]
           sold(r) == IF r.total_items_sold = Null THEN 0 ELSE r.total_items_sold
<1>1. h \in [Items -> DailySales]
  BY DailyRows, ItemRow
<1>2. ASSUME NEW r \in DailySales
      PROVE  sold(r) = Sold({i \in Items : h[i] = r})
  <2>1. PICK o \in Orders : r = DailyRowOf(o)
    BY DailyRows
  <2> DEFINE there == ItemsOf(SameDay(o))
  <2>2. ASSUME NEW i \in Items
        PROVE  h[i] = r <=> i \in there
    <3>1. i.order \in Orders /\ i.order.row.order_id = i.row.order_id
      BY ItemRow
    <3>2. h[i] = r <=> i.order \in SameDay(o)
      BY <2>1, <3>1, DailyRows
    <3>3. \A p \in SameDay(o) : i.row.order_id = p.row.order_id => p = i.order
      BY <3>1, OneRowOfAKey DEF SameDay
    <3>4. QED
      BY <3>1, <3>2, <3>3 DEF ItemsOf
  <2>3. {i \in Items : h[i] = r} = there
    BY <2>2 DEF ItemsOf
  <2>4. r.total_items_sold = IF there = {} THEN Null ELSE Sold(there)
    BY <2>1 DEF DailyRowOf, DailyRow
  <2>5. there \in SUBSET Items
    BY DEF ItemsOf
  <2> HIDE DEF there
  <2>6. Sold(there) \in Int /\ (there = {} => Sold(there) = 0)
    BY <2>5, SoldType
  <2>7. sold(r) = Sold(there)
    BY <2>4, <2>6, NullAssumption
  <2>8. QED
    BY <2>3, <2>7
<1>3. [r \in DailySales |-> sold(r)] = [r \in DailySales |-> Sold({i \in Items : h[i] = r})]
  BY <1>2
<1> HIDE DEF h
<1>4. QED
  BY <1>1, <1>3, DailyRows, SoldByRow

InventoryRow(p) ==
    [product_id           |-> p.row.product_id,
     category             |-> p.row.category,
     margin_pct           |-> Percent(p.row.list_price - p.row.unit_cost, p.row.list_price),
     lifetime_units_sold  |-> Sold(ItemsFor(p)),
     lifetime_revenue_usd |-> LineRevenue(ItemsFor(p))]

LEMMA InventoryRows ==
    /\ InventorySummary = {InventoryRow(p) : p \in silver["products"]}
    /\ \A p : /\ InventoryRow(p).product_id = p.row.product_id
              /\ InventoryRow(p).lifetime_units_sold = Sold(ItemsFor(p))
BY DEF InventorySummary, InventoryRow

LEMMA SoldByProduct ==
    ASSUME JoinInv
    PROVE  SumFunction([r \in InventorySummary |-> r.lifetime_units_sold]) = Sold(Items)
<1> DEFINE h == [i \in Items |-> InventoryRow(i.product)]
           rows == [p \in silver["products"] |-> InventoryRow(p)]
<1>1. h \in [Items -> InventorySummary]
  BY InventoryRows, ItemRow
<1>2. ASSUME NEW r \in InventorySummary
      PROVE  r.lifetime_units_sold = Sold({i \in Items : h[i] = r})
  <2>1. PICK p \in silver["products"] : r = InventoryRow(p)
    BY InventoryRows
  <2>2. ASSUME NEW i \in Items
        PROVE  h[i] = r <=> i.row.product_id = p.row.product_id
    <3>1. i.product \in silver["products"] /\ i.product.row.product_id = i.row.product_id
      BY ItemRow
    <3>2. h[i] = r => i.row.product_id = p.row.product_id
      BY <2>1, <3>1, InventoryRows
    <3>3. i.row.product_id = p.row.product_id => i.product = p
      BY <3>1, OneRowOfAKey
    <3>4. QED
      BY <2>1, <3>2, <3>3
  <2>3. {i \in Items : h[i] = r} = ItemsFor(p)
    BY <2>2 DEF ItemsFor
  <2>4. QED
    BY <2>1, <2>3, InventoryRows
<1>3. [r \in InventorySummary |-> r.lifetime_units_sold]
          = [r \in InventorySummary |-> Sold({i \in Items : h[i] = r})]
  BY <1>2
<1>4. InventorySummary = {rows[p] : p \in silver["products"]} /\ DOMAIN rows = silver["products"]
  BY InventoryRows
<1> HIDE DEF h, rows
<1>5. IsFiniteSet(InventorySummary)
  BY <1>4, ImageIsFinite, SilverIsFinite DEF Tables, Independent
<1>6. QED
  BY <1>1, <1>3, <1>5, SoldByRow

-----------------------------------------------------------------------------
(* The lines of an order are converted at the rate of the order.              *)
LEMMA LinesAreClose ==
    ASSUME JoinInv
    PROVE  LinesAddUp
<1> SUFFICES ASSUME NEW o \in Orders,
                    SumFunction([i \in ItemsOf({o}) |-> i.row.line_total])
                        + o.row.shipping_cost = o.row.order_total
             PROVE  2 * (LineRevenue(ItemsOf({o})) + ShippingCostUsd(o) - OrderTotalUsd(o))
                        \in -(Cardinality(ItemsOf({o})) + 2)..(Cardinality(ItemsOf({o})) + 2)
  BY DEF LinesAddUp
<1> DEFINE lines == ItemsOf({o})
           q == FxRateToUsd(o)
           z == 2 * RateOne
           e == [i \in lines |-> i.row.line_total]
           f == [i \in lines |-> LineTotalUsd(i)]
           n == Cardinality(lines)
<1>1. q \in Nat \ {0} /\ z \in Nat /\ o.row.order_total \in Int /\ o.row.shipping_cost \in Int
  BY OrderRow, RateAssumption
<1>2. IsFiniteSet(lines) /\ n \in Nat
  <2>1. lines \subseteq Items
    BY DEF ItemsOf
  <2>2. IsFiniteSet(lines)
    BY <2>1, SoldType, FS_Subset
  <2>3. QED
    BY <2>2, FS_CardinalityType
<1>3. ASSUME NEW i \in lines
      PROVE  /\ i.row.line_total \in Int
             /\ LineTotalUsd(i) = Usd(i.row.line_total, q)
  <2>1. i \in Items /\ i.row.order_id = o.row.order_id
    BY DEF ItemsOf
  <2>2. i.order = o /\ i.row.line_total \in Int
    BY <2>1, ItemRow, OneRowOfAKey
  <2>3. QED
    BY <2>2 DEF LineTotalUsd
<1>4. /\ e \in [lines -> Int] /\ f \in [lines -> Int]
      /\ \A i \in lines : -q <= (2 * q) * f[i] - z * e[i] /\ (2 * q) * f[i] - z * e[i] <= q
  <2> HIDE DEF lines, q
  <2>1. \A i \in lines : /\ Usd(i.row.line_total, q) \in Int
                         /\ -q <= (2 * q) * Usd(i.row.line_total, q) - z * i.row.line_total
                         /\ (2 * q) * Usd(i.row.line_total, q) - z * i.row.line_total <= q
    BY <1>1, <1>3, Rounding
  <2>2. QED
    BY <1>3, <2>1
<1> DEFINE F == SumFunction(f)
           E == SumFunction(e)
           S == Usd(o.row.shipping_cost, q)
           T == Usd(o.row.order_total, q)
<1>5. ShippingCostUsd(o) = S /\ OrderTotalUsd(o) = T /\ LineRevenue(lines) = F
  BY DEF ShippingCostUsd, OrderTotalUsd, LineRevenue
<1> HIDE DEF lines, q, z, e, f, n
<1>6. F \in Int /\ E \in Int
  BY <1>2, <1>4, SumType
<1>7. /\ -(q * n) <= (2 * q) * F - z * E
      /\ (2 * q) * F - z * E <= q * n
  <2>1. 2 * q \in Nat
    BY <1>1
  <2>2. QED
    BY <1>1, <1>2, <1>4, <2>1, SumsStayClose DEF n
<1>8. /\ S \in Int /\ -q <= (2 * q) * S - z * o.row.shipping_cost
      /\ (2 * q) * S - z * o.row.shipping_cost <= q
  BY <1>1, Rounding DEF z
<1>9. /\ T \in Int /\ -q <= (2 * q) * T - z * o.row.order_total
      /\ (2 * q) * T - z * o.row.order_total <= q
  BY <1>1, Rounding DEF z
<1>10. E + o.row.shipping_cost = o.row.order_total
  BY DEF e, lines
<1> DEFINE x == 2 * (F + S - T)
<1> HIDE DEF F, E, S, T
<1>11. /\ -(q * n) - 2 * q <= q * x
       /\ q * x <= q * n + 2 * q
  <2>1. q * x = (2 * q) * F + (2 * q) * S - (2 * q) * T
    BY <1>1, <1>6, <1>8, <1>9
  <2>2. z * o.row.order_total = z * E + z * o.row.shipping_cost
    BY <1>1, <1>6, <1>10
  <2>3. {(2 * q) * F, (2 * q) * S, (2 * q) * T, q * n, z * E, z * o.row.shipping_cost} \subseteq Int
    BY <1>1, <1>2, <1>6, <1>8, <1>9
  <2> HIDE DEF x
  <2>4. QED
    BY <1>1, <1>2, <1>6, <1>7, <1>8, <1>9, <2>1, <2>2, <2>3
<1>12. x \in Int
  BY <1>6, <1>8, <1>9
<1> HIDE DEF x
<1>13. -(n + 2) <= x /\ x <= n + 2
  <2>1. q * (-(n + 2)) <= q * x /\ q * x <= q * (n + 2)
    BY <1>1, <1>2, <1>11
  <2>2. QED
    BY <1>1, <1>2, <1>12, <2>1
<1>14. QED
  BY <1>2, <1>5, <1>12, <1>13 DEF x, n, lines

-----------------------------------------------------------------------------
(* Shares of a category: each is rounded, away from zero, by half at most.    *)
LEMMA PercentRounding ==
    ASSUME NEW a \in Int, NEW q \in Nat \ {0}
    PROVE  /\ Percent(a, q) \in Int
           /\ -q <= (2 * q) * Percent(a, q) - 20000 * a
           /\ (2 * q) * Percent(a, q) - 20000 * a <= q
<1> DEFINE up   == (20000 * a + q) \div (2 * q)
           down == (q - 20000 * a) \div (2 * q)
<1>1. up \in Int /\ -q <= (2 * q) * up - 20000 * a /\ (2 * q) * up - 20000 * a <= q
  OBVIOUS
<1>2. down \in Int /\ -q <= (2 * q) * down + 20000 * a /\ (2 * q) * down + 20000 * a <= q
  OBVIOUS
<1>3. Percent(a, q) = IF a >= 0 THEN up ELSE -down
  BY DEF Percent
<1> HIDE DEF up, down
<1>4. CASE a >= 0
  BY <1>1, <1>3, <1>4
<1>5. CASE ~(a >= 0)
  <2>1. Percent(a, q) = -down
    BY <1>3, <1>5
  <2>2. (2 * q) * (-down) = -((2 * q) * down)
    BY <1>2
  <2>3. (2 * q) * down \in Int /\ 20000 * a \in Int
    BY <1>2
  <2>4. QED
    BY <1>2, <2>1, <2>2, <2>3
<1>6. QED
  BY <1>4, <1>5

LEMMA LineRevenueType ==
    ASSUME JoinInv, NEW T \in SUBSET Items
    PROVE  LineRevenue(T) \in Int
<1> DEFINE f == [i \in T |-> LineTotalUsd(i)]
<1>1. ASSUME NEW i \in T PROVE LineTotalUsd(i) \in Int
  <2>1. i.order \in Orders /\ i.row.line_total \in Int
    BY ItemRow
  <2>2. FxRateToUsd(i.order) \in Nat \ {0}
    BY <2>1, OrderRow
  <2>3. QED
    BY <2>1, <2>2, Rounding DEF LineTotalUsd
<1>2. f \in [T -> Int]
  BY <1>1
<1>3. IsFiniteSet(T)
  BY SoldType, FS_Subset
<1> HIDE DEF f
<1>4. SumFunction(f) \in Int
  BY <1>2, <1>3, SumType
<1>5. QED
  BY <1>4 DEF LineRevenue, f

Earned(S) == SumFunction([s \in S |-> LineRevenue(ItemsFor(s))])

LEMMA PerformanceRows ==
    /\ ProductPerformance
           = {PerformanceRow(p) : p \in {p \in silver["products"] : p.row.category # Null}}
    /\ \A p : /\ PerformanceRow(p).product_id = p.row.product_id
              /\ PerformanceRow(p).category = p.row.category
              /\ PerformanceRow(p).revenue_usd = LineRevenue(ItemsFor(p))
              /\ PerformanceRow(p).pct_of_category_revenue
                     = IF Earned(SameCategory(p)) > 0
                       THEN Percent(LineRevenue(ItemsFor(p)), Earned(SameCategory(p)))
                       ELSE 0
<1>1. \A p \in silver["products"] : SameCategory(p) # {} <=> p.row.category # Null
  BY DEF SameCategory
<1>2. QED
  BY <1>1 DEF ProductPerformance, PerformanceRow, Earned

(* Each product of a category has a row of its own, so that the rows earned   *)
(* together what the window function computed the shares of.                  *)
LEMMA CategoryRows ==
    ASSUME JoinInv, NEW S \in SUBSET silver["products"],
           NEW R, R = {PerformanceRow(s) : s \in S}
    PROVE  /\ IsFiniteSet(R)
           /\ [r \in R |-> r.revenue_usd] \in [R -> Int]
           /\ SumFunction([r \in R |-> r.revenue_usd]) = Earned(S)
<1> DEFINE f == [s \in S |-> LineRevenue(ItemsFor(s))]
           w == [r \in R |-> r.revenue_usd]
           h == [s \in S |-> PerformanceRow(s)]
<1>1. IsFiniteSet(S)
  <2>1. IsFiniteSet(silver["products"])
    BY SilverIsFinite DEF Tables, Independent
  <2>2. QED
    BY <2>1, FS_Subset
<1>2. IsFiniteSet(R)
  <2>1. R = {h[s] : s \in S} /\ DOMAIN h = S
    OBVIOUS
  <2> HIDE DEF h
  <2>2. QED
    BY <1>1, <2>1, ImageIsFinite
<1>3. f \in [S -> Int]
  <2>1. \A s \in S : ItemsFor(s) \in SUBSET Items
    BY DEF ItemsFor
  <2>2. QED
    BY <2>1, LineRevenueType
<1>4. h \in [S -> R]
  OBVIOUS
<1>5. w \in [R -> Int]
  BY <1>3, PerformanceRows
<1>6. ASSUME NEW r \in R
      PROVE  w[r] = Part(f, {s \in S : h[s] = r})
  <2>1. PICK s \in S : r = PerformanceRow(s)
    OBVIOUS
  <2>2. ASSUME NEW t \in S, h[t] = r PROVE t = s
    <3>1. t.row.product_id = s.row.product_id
      BY <2>1, <2>2, PerformanceRows
    <3>2. QED
      BY <3>1, OneRowOfAKey
  <2>3. {t \in S : h[t] = r} = {s}
    BY <2>1, <2>2
  <2>4. w[r] = f[s]
    BY <2>1, PerformanceRows
  <2> HIDE DEF f, w, h
  <2>5. Part(f, {s}) = f[s] + Part(f, {s} \ {s}) /\ Part(f, {}) = 0
    <3>1. {s} \in SUBSET S /\ s \in {s}
      OBVIOUS
    <3>2. QED
      BY <1>1, <1>3, <3>1, PartSteps
  <2>6. {s} \ {s} = {}
    OBVIOUS
  <2>7. f[s] \in Int
    BY <1>3
  <2>8. Part(f, {s}) = f[s]
    <3>1. Part(f, {s} \ {s}) = 0
      BY <2>5, <2>6, Zenon
    <3>2. QED
      BY <2>5, <2>7, <3>1
  <2>9. QED
    BY <2>3, <2>4, <2>8
<1> HIDE DEF f, w, h
<1>7. SumFunction(w) = SumFunction(f)
  BY <1>1, <1>2, <1>3, <1>4, <1>5, <1>6, SumByGroups
<1>8. QED
  BY <1>2, <1>5, <1>7 DEF w, f, Earned

LEMMA SharesAreClose ==
    ASSUME JoinInv, NEW p \in silver["products"], p.row.category # Null,
           NEW R, R = {r \in ProductPerformance : r.category = p.row.category}
    PROVE  AddUp(R)
<1> DEFINE S == SameCategory(p)
           W == Earned(S)
           w == [r \in R |-> r.revenue_usd]
           v == [r \in R |-> r.pct_of_category_revenue]
           n == Cardinality(R)
<1>1. S \in SUBSET silver["products"]
  BY DEF SameCategory
<1>2. R = {PerformanceRow(s) : s \in S}
  BY PerformanceRows DEF SameCategory
<1>3. IsFiniteSet(R) /\ w \in [R -> Int] /\ SumFunction(w) = W
  <2> HIDE DEF S
  <2>1. QED
    BY <1>1, <1>2, CategoryRows
<1>4. n \in Nat /\ W \in Int
  BY <1>3, FS_CardinalityType, SumType
<1>5. ASSUME NEW r \in R
      PROVE  r.pct_of_category_revenue = IF W > 0 THEN Percent(r.revenue_usd, W) ELSE 0
  <2>1. PICK s \in S : r = PerformanceRow(s)
    BY <1>2
  <2>2. SameCategory(s) = S
    BY <2>1 DEF SameCategory
  <2>3. QED
    BY <2>1, <2>2, PerformanceRows
<1> HIDE DEF S, W, w, v, n
<1>6. \A r \in R : w[r] \in Int /\ w[r] = r.revenue_usd /\ v[r] = r.pct_of_category_revenue
  BY <1>3 DEF w, v
<1>7. CASE W > 0
  <2>1. W \in Nat \ {0} /\ 2 * W \in Nat
    BY <1>4, <1>7
  <2>2. ASSUME NEW r \in R
        PROVE  /\ v[r] \in Int
               /\ -W <= (2 * W) * v[r] - 20000 * w[r]
               /\ (2 * W) * v[r] - 20000 * w[r] <= W
    <3>1. v[r] = Percent(w[r], W) /\ w[r] \in Int
      BY <1>5, <1>6, <1>7
    <3> DEFINE z == 20000
    <3> HIDE DEF z
    <3>2. \A a \in Int : \A q \in Nat \ {0} :
              /\ Percent(a, q) \in Int
              /\ -q <= (2 * q) * Percent(a, q) - z * a
              /\ (2 * q) * Percent(a, q) - z * a <= q
      BY PercentRounding DEF z
    <3>3. /\ Percent(w[r], W) \in Int
          /\ -W <= (2 * W) * Percent(w[r], W) - z * w[r]
          /\ (2 * W) * Percent(w[r], W) - z * w[r] <= W
      BY <2>1, <3>1, <3>2
    <3>4. QED
      BY <3>1, <3>3 DEF z
  <2>3. v \in [R -> Int]
    BY <2>2 DEF v
  <2> DEFINE V == SumFunction(v)
  <2>4. V \in Int
    BY <1>3, <2>3, SumType
  <2>5. /\ -(W * Cardinality(R)) <= (2 * W) * V - 20000 * SumFunction(w)
        /\ (2 * W) * V - 20000 * SumFunction(w) <= W * Cardinality(R)
    <3> DEFINE c == 2 * W
               d == 20000
    <3>1. \A r \in R : -W <= c * v[r] - d * w[r] /\ c * v[r] - d * w[r] <= W
      BY <2>2
    <3>2. c \in Nat /\ d \in Nat /\ W \in Nat
      BY <2>1
    <3> HIDE DEF c, d, V
    <3>3. /\ -(W * Cardinality(R)) <= c * SumFunction(v) - d * SumFunction(w)
          /\ c * SumFunction(v) - d * SumFunction(w) <= W * Cardinality(R)
      BY <1>3, <2>3, <3>1, <3>2, SumsStayClose
    <3>4. QED
      BY <3>3 DEF c, d, V
  <2>6. W * (-n) <= W * (2 * (V - 10000)) /\ W * (2 * (V - 10000)) <= W * n
    <3>1. -(W * n) <= (2 * W) * V - 20000 * W /\ (2 * W) * V - 20000 * W <= W * n
      BY <1>3, <2>5 DEF n
    <3> HIDE DEF V
    <3>2. W * (2 * (V - 10000)) = (2 * W) * V - 20000 * W /\ W * (-n) = -(W * n)
      BY <1>4, <2>1, <2>4
    <3>3. QED
      BY <3>1, <3>2
  <2> DEFINE x == 2 * (V - 10000)
  <2>7. x \in Int
    BY <2>4
  <2>8. W * (-n) <= W * x /\ W * x <= W * n
    BY <2>6
  <2> HIDE DEF x
  <2>9. -n <= x /\ x <= n
    BY <1>4, <2>1, <2>7, <2>8
  <2>10. x \in -n..n
    BY <1>4, <2>7, <2>9
  <2>11. SumFunction(w) > 0
    BY <1>3, <1>7
  <2>12. QED
    BY <2>10, <2>11 DEF x, w, v, n, AddUp
<1>8. CASE ~(W > 0)
  <2>1. \A r \in R : v[r] = 0
    BY <1>5, <1>6, <1>8
  <2>2. v \in [R -> Int]
    BY <2>1 DEF v
  <2>3. SumFunction(v) \in Int
    BY <1>3, <2>2, SumType
  <2>4. \A r \in R : -0 <= 1 * v[r] - 0 * w[r] /\ 1 * v[r] - 0 * w[r] <= 0
    BY <1>6, <2>1
  <2>5. /\ -(0 * Cardinality(R)) <= 1 * SumFunction(v) - 0 * SumFunction(w)
        /\ 1 * SumFunction(v) - 0 * SumFunction(w) <= 0 * Cardinality(R)
    <3>1. 0 \in Nat /\ 1 \in Nat
      OBVIOUS
    <3>2. QED
      BY <1>3, <2>2, <2>4, <3>1, SumsStayClose
  <2>6. SumFunction(v) = 0
    <3>1. 0 * Cardinality(R) = 0 /\ 0 * SumFunction(w) = 0
      BY <1>3, <1>4 DEF n
    <3>2. QED
      BY <2>3, <2>5, <3>1
  <2>7. ~(SumFunction(w) > 0)
    BY <1>3, <1>8
  <2>8. QED
    BY <2>6, <2>7 DEF w, v, AddUp
<1>9. QED
  BY <1>7, <1>8

-----------------------------------------------------------------------------
(* A Gold table is what its job makes of Silver as it still is: nothing is    *)
(* written to Silver once its last transform is done.                         *)
GoldInv ==
    /\ DOMAIN gold \subseteq GoldJobs
    /\ DOMAIN gold # {} => \A t \in Tables : phase[t] = "done"
    /\ \A g \in DOMAIN gold : gold[g] = Table(g)

LEMMA TablesUnchanged ==
    ASSUME silver' = silver
    PROVE  \A g \in GoldJobs : Table(g)' = Table(g)
<1>1. Orders' = Orders /\ Items' = Items
  BY DEF Orders, Items
<1>2. \A c : OrdersOf(c)' = OrdersOf(c)
  BY <1>1 DEF OrdersOf
<1>3. \A orders : ItemsOf(orders)' = ItemsOf(orders)
  BY <1>1 DEF ItemsOf
<1>4. \A p : ItemsFor(p)' = ItemsFor(p) /\ SameCategory(p)' = SameCategory(p)
  BY <1>1 DEF ItemsFor, SameCategory
<1>5. \A m : OrdersIn(m)' = OrdersIn(m) /\ MonthBefore(m)' = MonthBefore(m)
  BY <1>1 DEF OrdersIn, MonthBefore, Max
<1>6. Customer360' = Customer360
  BY <1>2 DEF Customer360
<1>7. \A d, c, orders : DailyRow(d, c, orders)' = DailyRow(d, c, orders)
  BY <1>3 DEF DailyRow
<1>8. DailySales' = DailySales
  BY <1>1, <1>7 DEF DailySales
<1>9. \A m : MonthlyRow(m)' = MonthlyRow(m)
  BY <1>5 DEF MonthlyRow
<1>10. MonthlyRevenue' = MonthlyRevenue
  BY <1>1, <1>9 DEF MonthlyRevenue
<1>11. InventorySummary' = InventorySummary
  BY <1>4 DEF InventorySummary
<1>12. \A p : PerformanceRow(p)' = PerformanceRow(p)
  BY <1>4 DEF PerformanceRow
<1>13. ProductPerformance' = ProductPerformance
  BY <1>4, <1>12 DEF ProductPerformance
<1>14. QED
  BY <1>6, <1>8, <1>10, <1>11, <1>13 DEF Table, GoldJobs

LEMMA SilverIsSpec == SpecGold => Spec
<1>1. InitGold => Init
  BY DEF InitGold
<1>2. [NextGold]_varsGold => [Next]_vars
  BY DEF NextGold, Compute, varsGold
<1>3. QED
  BY <1>1, <1>2, PTL DEF SpecGold, Spec

LEMMA ComputeKeepsGold ==
    ASSUME GoldInv, NEW g \in GoldJobs, Compute(g)
    PROVE  GoldInv'
<1>1. /\ \A t \in Tables : phase[t] = "done"
      /\ gold' = [h \in DOMAIN gold \union {g} |-> IF h = g THEN Table(g) ELSE gold[h]]
      /\ UNCHANGED <<phase, silver>>
  BY DEF Compute, vars, locals
<1>2. DOMAIN gold' = DOMAIN gold \union {g}
  BY <1>1
<1>3. \A h \in DOMAIN gold' : gold'[h] = Table(h)
  BY <1>1, <1>2 DEF GoldInv
<1>4. DOMAIN gold' \subseteq GoldJobs
  BY <1>2 DEF GoldInv
<1>5. \A h \in DOMAIN gold' : gold'[h] = Table(h)'
  BY <1>1, <1>3, <1>4, TablesUnchanged
<1>6. QED
  BY <1>1, <1>4, <1>5 DEF GoldInv

LEMMA SilverStepKeepsGold ==
    ASSUME GoldInv, Next \/ UNCHANGED vars, UNCHANGED gold
    PROVE  GoldInv'
<1>1. CASE DOMAIN gold = {}
  BY <1>1 DEF GoldInv
<1>2. CASE DOMAIN gold # {}
  <2>1. \A t \in Tables : phase[t] = "done"
    BY <1>2 DEF GoldInv
  <2>2. UNCHANGED <<phase, silver>>
    BY <2>1 DEF Next, Count, WriteSilver, WriteQuarantine, Midnight, vars, locals
  <2>3. \A h \in DOMAIN gold : Table(h)' = Table(h)
    BY <2>2, TablesUnchanged DEF GoldInv
  <2>4. QED
    BY <2>2, <2>3 DEF GoldInv
<1>3. QED
  BY <1>1, <1>2

LEMMA GoldInvariant == SpecGold => [](JoinInv /\ GoldInv)
<1>1. InitGold => GoldInv
  BY DEF InitGold, GoldInv
<1>2. GoldInv /\ [NextGold]_varsGold => GoldInv'
  BY ComputeKeepsGold, SilverStepKeepsGold DEF NextGold, varsGold
<1>3. QED
  BY <1>1, <1>2, SilverIsSpec, JoinInvariant, PTL DEF SpecGold

(* Summed over customers, over days and over months, lifetime, daily and      *)
(* monthly revenue are the revenue of the same orders, each counted once,     *)
(* whoever was quarantined.                                                   *)
THEOREM RevenueIsOneRevenue == SpecGold => []RevenueAgrees
<1>1. JoinInv /\ GoldInv => RevenueAgrees
  <2> SUFFICES ASSUME JoinInv, GoldInv,
                      Computed({"customer_360", "daily_sales", "monthly_revenue"})
               PROVE  LET total(g) == SumFunction([r \in gold[g] |-> r.total_revenue_usd])
                      IN /\ SumFunction([r \in gold["customer_360"] |-> r.lifetime_revenue_usd])
                               = total("daily_sales")
                         /\ total("monthly_revenue") = total("daily_sales")
    BY DEF RevenueAgrees
  <2>1. /\ gold["customer_360"] = Customer360
        /\ gold["daily_sales"] = DailySales
        /\ gold["monthly_revenue"] = MonthlyRevenue
    BY DEF GoldInv, Computed, Table
  <2>2. QED
    BY <2>1, RevenueByCustomer, RevenueByDay, RevenueByMonth
<1>2. QED
  BY <1>1, GoldInvariant, PTL

(* The units sold by day are the units sold by product: a good item counts in *)
(* the row of its order's day and in that of its product.                     *)
THEOREM UnitsAreTheSameUnits == SpecGold => []UnitsAgree
<1>1. JoinInv /\ GoldInv => UnitsAgree
  <2> SUFFICES ASSUME JoinInv, GoldInv, Computed({"daily_sales", "inventory_summary"})
               PROVE  SumFunction([r \in gold["daily_sales"] |->
                          IF r.total_items_sold = Null THEN 0 ELSE r.total_items_sold])
                      = SumFunction([r \in gold["inventory_summary"] |-> r.lifetime_units_sold])
    BY DEF UnitsAgree
  <2>1. gold["daily_sales"] = DailySales /\ gold["inventory_summary"] = InventorySummary
    BY DEF GoldInv, Computed, Table
  <2>2. QED
    BY <2>1, SoldByDay, SoldByProduct
<1>2. QED
  BY <1>1, GoldInvariant, PTL

(* However many lines an order has, converting them one by one moves it from  *)
(* its converted total by no more than half a cent for each amount rounded.   *)
THEOREM LinesAddUpToOrders == SpecGold => []LinesAddUp
<1>1. JoinInv => LinesAddUp
  BY LinesAreClose
<1>2. QED
  BY <1>1, GoldInvariant, PTL

(* In product_performance the shares of a category's products make up the     *)
(* whole, up to half a hundredth of a percent for each, however many products *)
(* it has; all are 0 where the category earned nothing.                       *)
THEOREM SharesMakeUpTheWhole == SpecGold => []SharesAddUp
<1>1. JoinInv /\ GoldInv => SharesAddUp
  <2>1. ASSUME JoinInv, GoldInv, Computed({"product_performance"}),
               NEW c \in {r.category : r \in gold["product_performance"]}
        PROVE  AddUp({r \in gold["product_performance"] : r.category = c})
    <3>1. gold["product_performance"] = ProductPerformance
      BY <2>1 DEF GoldInv, Computed, Table
    <3>2. PICK p \in silver["products"] : p.row.category # Null /\ c = p.row.category
      BY <3>1, PerformanceRows
    <3>3. QED
      BY <2>1, <3>1, <3>2, SharesAreClose
  <2>2. QED
    BY <2>1 DEF SharesAddUp
<1>2. QED
  BY <1>1, GoldInvariant, PTL
=============================================================================
