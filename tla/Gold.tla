-------------------------------- MODULE Gold --------------------------------
(***************************************************************************)
(* The five Gold tables, computed from the Silver tables that one run of   *)
(* Silver leaves.  The jobs run after all of Silver and beside each other, *)
(* and several of them aggregate the same rows along different columns.    *)
(*                                                                         *)
(* Amounts are whole cents; percentages are in hundredths.  Averages and   *)
(* days_since_last_order, columns of one row each, are left out.           *)
(***************************************************************************)
EXTENDS Silver, FiniteSetsExt, Functions

CONSTANT DaysPerMonth

ASSUME MonthAssumption == DaysPerMonth \in Nat \ {0}

VARIABLE gold           \* gold[g]: the rows of a Gold table, for the jobs that are done

varsGold == <<vars, gold>>

GoldJobs == {"customer_360", "daily_sales", "monthly_revenue",
             "inventory_summary", "product_performance"}

Orders == silver["orders"]
Items  == silver["order_items"]

Revenue(orders)    == SumFunction([o \in orders |-> OrderTotalUsd(o)])
Sold(items)        == SumFunction([i \in items |-> i.row.quantity])
LineRevenue(items) == SumFunction([i \in items |-> LineTotalUsd(i)])

(* F.round(part / whole * 100, 2), away from zero; NULL over zero.            *)
Percent(part, whole) ==
    IF whole = 0 THEN Null
    ELSE IF part >= 0 THEN (20000 * part + whole) \div (2 * whole)
    ELSE -((whole - 20000 * part) \div (2 * whole))

-----------------------------------------------------------------------------
OrdersOf(c) == {o \in Orders : o.row.customer_id = c.row.customer_id}

Customer360 ==
    {[customer_id          |-> c.row.customer_id,
      lifetime_order_count |-> Cardinality(OrdersOf(c)),
      lifetime_revenue_usd |-> Revenue(OrdersOf(c))] : c \in silver["customers"]}

ItemsOf(orders) == {i \in Items : \E o \in orders : i.row.order_id = o.row.order_id}
WithStatus(orders, status) == {o \in orders : o.row.order_status = status}

DailyRow(date, channel, orders) ==
    [order_date            |-> date,
     sales_channel         |-> channel,
     order_count           |-> Cardinality(orders),
     total_revenue_usd     |-> Revenue(orders),
     total_items_sold      |-> IF ItemsOf(orders) = {} THEN Null ELSE Sold(ItemsOf(orders)),
     returned_order_count  |-> Cardinality(WithStatus(orders, "RETURNED")),
     cancelled_order_count |-> Cardinality(WithStatus(orders, "CANCELLED"))]

DailySales ==
    {DailyRow(o.row.order_date, o.row.sales_channel,
              {p \in Orders : /\ p.row.order_date = o.row.order_date
                              /\ p.row.sales_channel = o.row.sales_channel}) : o \in Orders}

YearMonth(date) == date \div DaysPerMonth
OrdersIn(month) == {o \in Orders : YearMonth(o.row.order_date) = month}

(* lag over the months that have orders. *)
MonthBefore(month) ==
    LET before == {m \in {YearMonth(o.row.order_date) : o \in Orders} : m < month}
    IN IF before = {} THEN Null ELSE Max(before)

MonthlyRow(month) ==
    LET total == Revenue(OrdersIn(month))
        prev  == IF MonthBefore(month) = Null THEN Null
                 ELSE Revenue(OrdersIn(MonthBefore(month)))
    IN [year_month             |-> month,
        total_revenue_usd      |-> total,
        order_count            |-> Cardinality(OrdersIn(month)),
        prev_month_revenue_usd |-> prev,
        mom_revenue_growth_pct |-> IF prev = Null THEN Null ELSE Percent(total - prev, prev)]

MonthlyRevenue == {MonthlyRow(YearMonth(o.row.order_date)) : o \in Orders}

-----------------------------------------------------------------------------
ItemsFor(p) == {i \in Items : i.row.product_id = p.row.product_id}

InventorySummary ==
    {[product_id           |-> p.row.product_id,
      category             |-> p.row.category,
      margin_pct           |-> Percent(p.row.list_price - p.row.unit_cost, p.row.list_price),
      lifetime_units_sold  |-> Sold(ItemsFor(p)),
      lifetime_revenue_usd |-> LineRevenue(ItemsFor(p))] : p \in silver["products"]}

(* The join on category drops the products that have none.                    *)
MutSameCategory(p) ==        \* all categories in one group
    {s \in silver["products"] : s.row.category # Null /\ p.row.category # Null}

SameCategory(p) ==
    {s \in silver["products"] : s.row.category = p.row.category /\ p.row.category # Null}

PerformanceRow(p) ==
    LET revenue(s) == LineRevenue(ItemsFor(s))
        total == SumFunction([s \in SameCategory(p) |-> revenue(s)])
    IN [product_id              |-> p.row.product_id,
        category                |-> p.row.category,
        units_sold              |-> Sold(ItemsFor(p)),
        revenue_usd             |-> revenue(p),
        rank_in_category        |->
            1 + Cardinality({revenue(s) : s \in {r \in SameCategory(p) : revenue(r) > revenue(p)}}),
        pct_of_category_revenue |-> IF total > 0 THEN Percent(revenue(p), total) ELSE 0]

ProductPerformance == {PerformanceRow(p) : p \in {p \in silver["products"] : SameCategory(p) # {}}}

-----------------------------------------------------------------------------
Table(g) ==
    CASE g = "customer_360"        -> Customer360
      [] g = "daily_sales"         -> DailySales
      [] g = "monthly_revenue"     -> MonthlyRevenue
      [] g = "inventory_summary"   -> InventorySummary
      [] g = "product_performance" -> ProductPerformance

InitGold == Init /\ gold = [g \in {} |-> {}]

Compute(g) ==
    /\ \A t \in Tables : phase[t] = "done"
    /\ g \notin DOMAIN gold
    /\ gold' = [h \in DOMAIN gold \union {g} |-> IF h = g THEN Table(g) ELSE gold[h]]
    /\ UNCHANGED vars

NextGold ==
    \/ Next /\ UNCHANGED gold
    \/ \E g \in GoldJobs : Compute(g)

SpecGold == InitGold /\ [][NextGold]_varsGold
-----------------------------------------------------------------------------
Computed(jobs) == jobs \subseteq DOMAIN gold

(* Revenue by customer, by day and by month is one revenue: no good order is  *)
(* without a customer in Silver, whoever was quarantined, and none is counted *)
(* twice.                                                                     *)
RevenueAgrees ==
    Computed({"customer_360", "daily_sales", "monthly_revenue"}) =>
        LET total(g) == SumFunction([r \in gold[g] |-> r.total_revenue_usd])
        IN /\ SumFunction([r \in gold["customer_360"] |-> r.lifetime_revenue_usd])
                 = total("daily_sales")
           /\ total("monthly_revenue") = total("daily_sales")

(* The units sold per day and per product are the same units: a good item has *)
(* its order and its product in Silver.                                       *)
UnitsAgree ==
    Computed({"daily_sales", "inventory_summary"}) =>
        SumFunction([r \in gold["daily_sales"] |->
                        IF r.total_items_sold = Null THEN 0 ELSE r.total_items_sold])
            = SumFunction([r \in gold["inventory_summary"] |-> r.lifetime_units_sold])

AddUp(products) ==
    LET total   == SumFunction([r \in products |-> r.revenue_usd])
        shares  == SumFunction([r \in products |-> r.pct_of_category_revenue])
        rounded == Cardinality(products)
    IN IF total > 0 THEN 2 * (shares - 10000) \in -rounded..rounded ELSE shares = 0

(* The shares of the products of a category make up the whole, up to the      *)
(* rounding of each, unless the category earned nothing.                      *)
SharesAddUp ==
    Computed({"product_performance"}) =>
        \A c \in {r.category : r \in gold["product_performance"]} :
            AddUp({r \in gold["product_performance"] : r.category = c})

(* An order whose lines are all in Silver is worth its lines and its shipping *)
(* after conversion too, up to half a cent for each amount rounded: orders    *)
(* and order_items convert at one rate, although in different jobs.           *)
LinesAddUp ==
    \A o \in Orders :
        LET lines    == ItemsOf({o})
            amounts  == SumFunction([i \in lines |-> i.row.line_total])
            excess   == LineRevenue(lines) + ShippingCostUsd(o) - OrderTotalUsd(o)
            rounded  == Cardinality(lines) + 2
        IN amounts + o.row.shipping_cost = o.row.order_total =>
              2 * excess \in -rounded..rounded
=============================================================================
