------------------------------- MODULE Silver -------------------------------
(***************************************************************************)
(* What the five Silver transforms make of Bronze: which rows reach Silver *)
(* and which reach quarantine.  Bronze accumulates, so one key may have    *)
(* several rows; a transform keeps the latest of each key, joins it to     *)
(* Silver tables that are ready, and splits the result by checks that are  *)
(* true, false or NULL.                                                    *)
(*                                                                         *)
(* Spark evaluates that plan anew for the count, for the Silver table and  *)
(* for the quarantine table.  Each evaluation breaks ties between rows     *)
(* ingested together in its own way, and takes the date of its own start.  *)
(*                                                                         *)
(* This is one run of the DAG.  When the tables themselves are dropped,    *)
(* created and left over from other runs is the subject of Pipeline.       *)
(***************************************************************************)
EXTENDS Integers, FiniteSets

CONSTANTS Bronze,       \* the Bronze layers to start from: for each table a set of rows
          Today,        \* the date on which the run starts
          RateOne,      \* the rate 1 in the last decimal that rates have
          Null          \* SQL's NULL

Independent == {"products", "customers", "exchange_rates"}
Tables      == Independent \union {"orders", "order_items"}

(* A field of a file that does not parse is NULL; the amounts and quantities  *)
(* of orders and lines are columns declared NOT NULL.                         *)
ASSUME BronzeAssumption ==
    \A b \in Bronze :
        /\ \A t \in Tables : IsFiniteSet(b[t])
        /\ \A c \in b["customers"] : c.signup_date \in Int \union {Null}
        /\ \A r \in b["exchange_rates"] : r.rate \in Int \union {Null}
        /\ \A o \in b["orders"] : {o.order_total, o.shipping_cost} \subseteq Int
        /\ \A i \in b["order_items"] : {i.quantity, i.line_total} \subseteq Int
ASSUME TodayAssumption == Today \in Int
ASSUME RateAssumption == RateOne \in Nat \ {0}
ASSUME NullAssumption == Null \notin BOOLEAN /\ Null \notin Int
ASSUME NoRowIsNull ==
    \A b \in Bronze :
        /\ \A t \in Independent : Null \notin [row : b[t]]
        /\ Null \notin [row : b["orders"], customer : {Null} \union [row : b["customers"]],
                         rate : {Null} \union [row : b["exchange_rates"]]]

VARIABLES bronze,       \* bronze[t]: the rows of a Bronze table
          today,        \* current_date()
          phase,        \* phase[t]: what the transform of t does next
          anyBad,       \* anyBad[t]: its bad_count > 0
          silver,       \* silver[t]: rows of the Silver table, {} until written
          quarantine    \* quarantine[t]: rows of the quarantine table

locals == <<phase, anyBad>>
vars   == <<bronze, today, locals, silver, quarantine>>

(* Mutants: definitions named Mut... state a plausible bug in the definition  *)
(* that follows them; nothing else refers to them.                            *)

-----------------------------------------------------------------------------
(* dedupe_latest: of each key one row with the highest _bronze_ingested_at.   *)
(* NULL keys form one partition.                                              *)

Key(t, r) ==
    CASE t = "customers"      -> r.customer_id
      [] t = "exchange_rates" -> <<r.rate_date, r.base_currency, r.quote_currency>>
      [] t = "products"       -> r.product_id
      [] t = "orders"         -> r.order_id
      [] t = "order_items"    -> r.order_item_id

Keys(t, rows) == {Key(t, r) : r \in rows}

Latest(t) ==
    {r \in bronze[t] : \A s \in bronze[t] :
        Key(t, s) = Key(t, r) => s._bronze_ingested_at <= r._bronze_ingested_at}

Deduped(t) ==
    {rows \in SUBSET Latest(t) :
        /\ Keys(t, rows) = Keys(t, bronze[t])
        /\ \A r, s \in rows : Key(t, r) = Key(t, s) => r = s}

-----------------------------------------------------------------------------
(* The joins.  A transformed row is the Bronze row and the rows joined to it; *)
(* the columns computed from them are operators on it.                        *)

LeftJoin(matches) == IF matches = {} THEN {Null} ELSE matches

KnownCustomer(o) ==
    {c \in silver["customers"] : c.row.customer_id = o.customer_id}

RateOf(o) ==
    {r \in silver["exchange_rates"] :
        r.row.rate_date = o.order_date /\ r.row.quote_currency = o.currency_code}

KnownOrder(i)   == {o \in silver["orders"] : o.row.order_id = i.order_id}
KnownProduct(i) == {p \in silver["products"] : p.row.product_id = i.product_id}

Transformed(t, r) ==
    CASE t \in Independent   -> {[row |-> r]}
      [] t = "orders"        -> [row : {r}, customer : LeftJoin(KnownCustomer(r)),
                                 rate : LeftJoin(RateOf(r))]
      [] t = "order_items"   -> [row : {r}, order : LeftJoin(KnownOrder(r)),
                                 product : LeftJoin(KnownProduct(r))]

(* F.round(amount / rate, 2) on whole cents; half a cent rounds up.           *)
Usd(amount, rate) ==
    IF rate = Null THEN Null ELSE (2 * RateOne * amount + rate) \div (2 * rate)

FxRateToUsd(o) ==
    IF o.row.currency_code = "USD" THEN RateOne
    ELSE IF o.rate = Null THEN Null ELSE o.rate.row.rate

OrderTotalUsd(o)   == Usd(o.row.order_total, FxRateToUsd(o))
ShippingCostUsd(o) == Usd(o.row.shipping_cost, FxRateToUsd(o))

MutLineTotalUsd(i) == i.row.line_total          \* left in the order's currency
LineTotalUsd(i)    == Usd(i.row.line_total, FxRateToUsd(i.order))

-----------------------------------------------------------------------------
(* The checks.  A comparison with NULL is NULL, and only TRUE passes.         *)

AtLeast(a, b) == IF Null \in {a, b} THEN Null ELSE a >= b
Positive(a)   == IF a = Null THEN Null ELSE a > 0
Equal(a, b)   == IF Null \in {a, b} THEN Null ELSE a = b
NotNull(a)    == a # Null

CustomerChecks(j) ==
    [customer_id_not_null   |-> NotNull(j.row.customer_id),
     email_well_formed      |-> j.row.email_matches,
     signup_date_not_null   |-> NotNull(j.row.signup_date),
     signup_date_not_future |-> AtLeast(today, j.row.signup_date),
     customer_segment_valid |-> j.row.customer_segment \in {"VIP", "RETAIL", "WHOLESALE"}]

MutExchangeRateChecks(j) ==  \* any base currency passes
    [rate_date_not_null |-> NotNull(j.row.rate_date),
     rate_positive      |-> Positive(j.row.rate)]

ExchangeRateChecks(j) ==
    [rate_date_not_null   |-> NotNull(j.row.rate_date),
     rate_positive        |-> Positive(j.row.rate),
     base_currency_is_usd |-> Equal(j.row.base_currency, "USD")]

ProductChecks(j) ==
    [product_id_not_null      |-> NotNull(j.row.product_id),
     product_name_not_null    |-> NotNull(j.row.product_name),
     unit_cost_non_negative   |-> AtLeast(j.row.unit_cost, 0),
     list_price_non_negative  |-> AtLeast(j.row.list_price, 0),
     list_price_gte_unit_cost |-> AtLeast(j.row.list_price, j.row.unit_cost)]

MutOrderChecks(j) ==         \* the customer is not looked for
    [order_id_not_null        |-> NotNull(j.row.order_id),
     order_total_non_negative |-> AtLeast(j.row.order_total, 0),
     fx_conversion_resolved   |-> NotNull(OrderTotalUsd(j))]

OrderChecks(j) ==
    [order_id_not_null        |-> NotNull(j.row.order_id),
     customer_id_exists       |-> NotNull(j.customer),
     order_status_valid       |-> j.row.order_status \in
                                    {"PLACED", "SHIPPED", "DELIVERED", "CANCELLED", "RETURNED"},
     sales_channel_valid      |-> j.row.sales_channel \in {"ONLINE", "STORE"},
     order_total_non_negative |-> AtLeast(j.row.order_total, 0),
     fx_conversion_resolved   |-> NotNull(OrderTotalUsd(j))]

MutOrderItemChecks(j) ==     \* the product is not looked for
    [order_item_id_not_null  |-> NotNull(j.row.order_item_id),
     order_id_exists         |-> NotNull(j.order),
     quantity_positive       |-> Positive(j.row.quantity),
     unit_price_non_negative |-> AtLeast(j.row.unit_price, 0)]

OrderItemChecks(j) ==
    [order_item_id_not_null  |-> NotNull(j.row.order_item_id),
     order_id_exists         |-> NotNull(j.order),
     product_id_exists       |-> NotNull(j.product),
     quantity_positive       |-> Positive(j.row.quantity),
     unit_price_non_negative |-> AtLeast(j.row.unit_price, 0)]

Checks(t, j) ==
    CASE t = "customers"      -> CustomerChecks(j)
      [] t = "exchange_rates" -> ExchangeRateChecks(j)
      [] t = "products"       -> ProductChecks(j)
      [] t = "orders"         -> OrderChecks(j)
      [] t = "order_items"    -> OrderItemChecks(j)

FailedChecks(t, j) ==
    {name \in DOMAIN Checks(t, j) : Checks(t, j)[name] # TRUE}

(* apply_dq_checks: the good rows, and the others with the checks they failed. *)
Evaluated(t, rows) == UNION {Transformed(t, r) : r \in rows}

Good(t, rows) == {j \in Evaluated(t, rows) : FailedChecks(t, j) = {}}

MutNullIsLost(t, rows) ==    \* ~condition, which is NULL for NULL
    {[row |-> j.row, _dq_failed_checks |-> FailedChecks(t, j)] :
        j \in {j \in Evaluated(t, rows) : FALSE \in {Checks(t, j)[n] : n \in DOMAIN Checks(t, j)}}}

MutQuarantined(t, rows) ==   \* the filter is left out
    {[row |-> j.row, _dq_failed_checks |-> FailedChecks(t, j)] : j \in Evaluated(t, rows)}

Quarantined(t, rows) ==
    {[row |-> j.row, _dq_failed_checks |-> FailedChecks(t, j)] :
        j \in Evaluated(t, rows) \ Good(t, rows)}

-----------------------------------------------------------------------------
Phases == {"count", "write_silver", "write_quarantine", "done"}

Init ==
    /\ bronze \in Bronze
    /\ today = Today
    /\ phase = [t \in Tables |-> "count"]
    /\ anyBad = [t \in Tables |-> FALSE]
    /\ silver = [t \in Tables |-> {}]
    /\ quarantine = [t \in Tables |-> {}]

MutUpstream(t) ==            \* order_items does not wait for products
    CASE t \in Independent -> {}
      [] t = "orders"      -> {"customers", "exchange_rates"}
      [] t = "order_items" -> {"orders"}

Upstream(t) ==
    CASE t \in Independent -> {}
      [] t = "orders"      -> {"customers", "exchange_rates"}
      [] t = "order_items" -> {"orders", "products"}

Count(t) ==
    /\ phase[t] = "count"
    /\ \A u \in Upstream(t) : phase[u] = "done"
    /\ \E rows \in Deduped(t) :
          anyBad' = [anyBad EXCEPT ![t] = Quarantined(t, rows) # {}]
    /\ phase' = [phase EXCEPT ![t] = "write_silver"]
    /\ UNCHANGED <<bronze, today, silver, quarantine>>

WriteSilver(t) ==
    /\ phase[t] = "write_silver"
    /\ \E rows \in Deduped(t) : silver' = [silver EXCEPT ![t] = Good(t, rows)]
    /\ phase' = [phase EXCEPT ![t] = IF anyBad[t] THEN "write_quarantine" ELSE "done"]
    /\ UNCHANGED <<bronze, today, anyBad, quarantine>>

WriteQuarantine(t) ==
    /\ phase[t] = "write_quarantine"
    /\ \E rows \in Deduped(t) : quarantine' = [quarantine EXCEPT ![t] = Quarantined(t, rows)]
    /\ phase' = [phase EXCEPT ![t] = "done"]
    /\ UNCHANGED <<bronze, today, anyBad, silver>>

(* A run crosses at most one midnight. *)
Midnight ==
    /\ today = Today
    /\ today' = Today + 1
    /\ UNCHANGED <<bronze, locals, silver, quarantine>>

Next ==
    \/ \E t \in Tables : Count(t) \/ WriteSilver(t) \/ WriteQuarantine(t)
    \/ Midnight

Spec == Init /\ [][Next]_vars

-----------------------------------------------------------------------------
CheckNames(t, r) ==
    DOMAIN Checks(t, [row |-> r, customer |-> Null, rate |-> Null, order |-> Null, product |-> Null])

(* Every row of Silver and of quarantine was read from Bronze, and a row in   *)
(* quarantine names checks of its own table, at least one.                    *)
TypeOK ==
    /\ bronze \in Bronze
    /\ today \in {Today, Today + 1}
    /\ phase \in [Tables -> Phases]
    /\ anyBad \in [Tables -> BOOLEAN]
    /\ DOMAIN silver = Tables /\ DOMAIN quarantine = Tables
    /\ \A t \in Tables :
          /\ \A j \in silver[t] : j.row \in bronze[t]
          /\ \A q \in quarantine[t] :
                /\ q.row \in bronze[t]
                /\ q._dq_failed_checks \in (SUBSET CheckNames(t, q.row)) \ {{}}

(* A Silver table holds one row of each key, however often a key was          *)
(* ingested: dedupe_latest leaves one, and no join multiplies it, since rates *)
(* are matched by date and quoted currency and every rate kept is against USD. *)
KeysUnique ==
    \A t \in Tables : \A j, k \in silver[t] : Key(t, j.row) = Key(t, k.row) => j = k

(* The evaluations of one transform can disagree about a key only if several  *)
(* of its rows were ingested last, or if midnight makes its signup date due.  *)
Tied(t, key) == \E r, s \in Latest(t) : r # s /\ Key(t, r) = key /\ Key(t, s) = key

BecameDue(t, key) ==
    /\ t = "customers"
    /\ today = Today + 1
    /\ \E r \in Latest(t) : Key(t, r) = key /\ r.signup_date = today

(* A transform that is done has put each key it read in Silver or in          *)
(* quarantine, and not in both.  A key that midnight makes due may get lost,  *)
(* rejected from Silver before it and from quarantine after it; but never is  *)
(* it in both.                                                                *)
EveryKeyOnce ==
    \A t \in Tables : phase[t] = "done" =>
        \A key \in Keys(t, bronze[t]) :
            LET good     == \E j \in silver[t] : Key(t, j.row) = key
                rejected == \E q \in quarantine[t] : Key(t, q.row) = key
            IN \/ good # rejected
               \/ BecameDue(t, key) /\ ~good
               \/ Tied(t, key)

(* What a quarantined row is blamed for is so: it names the check of a         *)
(* reference if and only if what it refers to is not in Silver, although      *)
(* other jobs wrote that, and several evaluations ago.                        *)
QuarantinedForCause ==
    /\ \A q \in quarantine["orders"] :
          /\ "customer_id_exists" \in q._dq_failed_checks <=> KnownCustomer(q.row) = {}
          /\ "fx_conversion_resolved" \in q._dq_failed_checks <=>
                q.row.currency_code # "USD" /\ RateOf(q.row) = {}
    /\ \A q \in quarantine["order_items"] :
          /\ "order_id_exists" \in q._dq_failed_checks <=> KnownOrder(q.row) = {}
          /\ "product_id_exists" \in q._dq_failed_checks <=> KnownProduct(q.row) = {}

(* "_dq_failed_checks" is not among the columns of quarantined rows.          *)
QuarantineHasNoFlagColumns ==
    \A t \in Tables : \A q \in quarantine[t] : "_dq_failed_checks" \notin DOMAIN q
=============================================================================
