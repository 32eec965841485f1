------------------------------- MODULE MCGold -------------------------------
(* Bronze layers of two customers, two days with orders, and up to three      *)
(* products, with what makes rows of one key or bad rows: ingestion twice, a  *)
(* signup dated tomorrow by the seeder's clock, missing, torn or foreign      *)
(* rates, and CSV fields that do not parse and are NULL.  The three shares of *)
(* one category can be 2/9, 3/9 and 4/9, which do not round to the whole.     *)
EXTENDS Gold

C(id, signup, segment, at) ==
    [customer_id |-> id, email_matches |-> TRUE, signup_date |-> signup,
     customer_segment |-> segment, _bronze_ingested_at |-> at]

R(date, base, rate, at) ==
    [rate_date |-> date, base_currency |-> base, quote_currency |-> "EUR", rate |-> rate,
     _bronze_ingested_at |-> at]

P(id, category, cost, price) ==
    [product_id |-> id, product_name |-> "name", category |-> category, unit_cost |-> cost,
     list_price |-> price, _bronze_ingested_at |-> 1]

O(id, customer, date, status, channel, currency, total, at) ==
    [order_id |-> id, customer_id |-> customer, order_date |-> date, order_status |-> status,
     sales_channel |-> channel, currency_code |-> currency, shipping_cost |-> 1,
     order_total |-> total, _bronze_ingested_at |-> at]

I(id, order, product, quantity, price, at) ==
    [order_item_id |-> id, order_id |-> order, product_id |-> product, quantity |-> quantity,
     unit_price |-> price, line_total |-> quantity * price, _bronze_ingested_at |-> at]

MCCustomers ==
    {{C(1, 1, "VIP", 1), C(2, Today + 1, "RETAIL", 1)},
     {C(1, 1, "OTHER", 1), C(1, 1, "VIP", 2), C(2, 1, "RETAIL", 2)},
     {C(1, 1, "VIP", 1), C(1, 1, "OTHER", 2), C(2, 1, "VIP", 1)}}

MCRates ==
    {{R(1, "USD", 3, 1)},
     {R(1, "USD", 3, 1), R(1, "USD", Null, 2)},
     {R(1, "USD", 3, 1), R(1, "GBP", 5, 1)},
     {R(Null, "USD", 3, 1), R(Null, "USD", 5, 1)}}

MCProducts ==
    {{P(1, "bags", 1, 3), P(2, "bags", 1, 2), P(3, "bags", 1, 2)},
     {P(1, "bags", 1, 3), P(2, Null, 0, 0)},
     {P(1, "bags", 1, 3), P(2, "hats", 1, Null)},
     {P(1, "bags", 1, 3), P(2, "hats", 2, 1), P(2, "hats", 1, 2)},
     {P(1, "bags", 1, 3), P(Null, "hats", 1, 2), P(Null, "bags", 1, 2)}}

MCOrders ==
    {{O(1, 1, 1, "PLACED", "ONLINE", "EUR", 8, 1), O(2, 2, 3, "RETURNED", "STORE", "USD", 4, 1)},
     {O(1, 1, 1, "PLACED", "ONLINE", "EUR", 8, 1), O(1, 1, 1, "PLACED", "ONLINE", "EUR", 8, 2),
      O(2, 3, 1, "CANCELLED", "ONLINE", "USD", 4, 1)}}

MCItems ==
    {{I(1, 1, 1, 1, 3, 1), I(2, 1, 2, 2, 2, 1), I(4, 2, 3, 2, 2, 1)},
     {I(1, 1, 1, 1, 3, 1), I(1, 1, 1, 1, 3, 2), I(2, 1, 2, 2, 2, 1), I(3, 2, 1, 1, 3, 1)}}

MCBronze ==
    {[t \in Tables |->
        CASE t = "customers" -> c [] t = "exchange_rates" -> r [] t = "products" -> p
          [] t = "orders" -> o [] t = "order_items" -> i] :
     c \in MCCustomers, r \in MCRates, p \in MCProducts, o \in MCOrders, i \in MCItems}
=============================================================================
