---------------------------- MODULE SilverProofs ----------------------------
(* Proofs about Silver, for every Bronze layer.                              *)
EXTENDS Silver, TLAPS

(* Rates are matched by date and quoted currency only; that the third part of *)
(* their key is the same for all is what keeps the match unique.              *)
RatesAreAgainstUsd ==
    \A r \in silver["exchange_rates"] : r.row.base_currency = "USD"

SilverInv ==
    /\ DOMAIN silver = Tables
    /\ KeysUnique
    /\ RatesAreAgainstUsd

(* What dedupe_latest keeps of a table has one row of each key. *)
LEMMA DedupedIsUnique ==
    ASSUME NEW t, NEW rows \in Deduped(t), NEW r \in rows, NEW s \in rows,
           Key(t, r) = Key(t, s)
    PROVE  r = s
BY DEF Deduped

(* A transformed row carries the Bronze row it was made from. *)
LEMMA TransformedRow ==
    ASSUME NEW t \in Tables, NEW r, NEW j \in Transformed(t, r)
    PROVE  j.row = r
<1>1. CASE t \in Independent
  BY <1>1 DEF Transformed, Independent
<1>2. CASE t = "orders"
  BY <1>2 DEF Transformed, Independent
<1>3. CASE t = "order_items"
  BY <1>3 DEF Transformed, Independent
<1>4. QED BY <1>1, <1>2, <1>3 DEF Tables

(* A good row is a transformed row of one of the rows kept. *)
LEMMA GoodRow ==
    ASSUME NEW t \in Tables, NEW rows, NEW j \in Good(t, rows)
    PROVE  /\ j.row \in rows
           /\ j \in Transformed(t, j.row)
           /\ FailedChecks(t, j) = {}
<1>1. /\ j \in Evaluated(t, rows)
      /\ FailedChecks(t, j) = {}
  BY DEF Good
<1>2. PICK r \in rows : j \in Transformed(t, r)
  BY <1>1 DEF Evaluated
<1>3. QED BY <1>1, <1>2, TransformedRow

(* A rate is kept only if it is quoted against USD. *)
LEMMA GoodRateIsAgainstUsd ==
    ASSUME NEW rows, NEW j \in Good("exchange_rates", rows)
    PROVE  j.row.base_currency = "USD"
<1>1. FailedChecks("exchange_rates", j) = {}
  BY GoodRow DEF Tables, Independent
<1>2. Checks("exchange_rates", j) = ExchangeRateChecks(j)
  BY DEF Checks
<1>3. "base_currency_is_usd" \in DOMAIN ExchangeRateChecks(j)
  BY DEF ExchangeRateChecks
<1>4. ExchangeRateChecks(j)["base_currency_is_usd"] = TRUE
  BY <1>1, <1>2, <1>3 DEF FailedChecks
<1>5. Equal(j.row.base_currency, "USD") = TRUE
  BY <1>4 DEF ExchangeRateChecks
<1>6. QED BY <1>5, NullAssumption DEF Equal

(* Where each key of the joined table has one row, a left join yields one row. *)
LEMMA JoinIsFunctional ==
    ASSUME NEW matches, \A a, b \in matches : a = b,
           NEW x \in LeftJoin(matches), NEW y \in LeftJoin(matches)
    PROVE  x = y
BY DEF LeftJoin

(* From unique Silver tables upstream a row is transformed in one way. *)
LEMMA TransformedOnce ==
    ASSUME SilverInv, NEW t \in Tables, NEW r,
           NEW j \in Transformed(t, r), NEW k \in Transformed(t, r)
    PROVE  j = k
<1>1. CASE t \in Independent
  BY <1>1 DEF Transformed, Independent
<1>2. CASE t = "orders"
  <2>1. \A a, b \in KnownCustomer(r) : a = b
    BY DEF KnownCustomer, SilverInv, KeysUnique, Key, Tables, Independent
  <2>2. \A a, b \in RateOf(r) : a = b
    BY DEF RateOf, SilverInv, KeysUnique, RatesAreAgainstUsd, Key, Tables, Independent
  <2>3. /\ j \in [row : {r}, customer : LeftJoin(KnownCustomer(r)), rate : LeftJoin(RateOf(r))]
        /\ k \in [row : {r}, customer : LeftJoin(KnownCustomer(r)), rate : LeftJoin(RateOf(r))]
    BY <1>2 DEF Transformed, Independent
  <2>4. j.customer = k.customer /\ j.rate = k.rate /\ j.row = k.row
    BY <2>1, <2>2, <2>3, JoinIsFunctional
  <2>5. QED BY <2>3, <2>4
<1>3. CASE t = "order_items"
  <2>1. \A a, b \in KnownOrder(r) : a = b
    BY DEF KnownOrder, SilverInv, KeysUnique, Key, Tables
  <2>2. \A a, b \in KnownProduct(r) : a = b
    BY DEF KnownProduct, SilverInv, KeysUnique, Key, Tables, Independent
  <2>3. /\ j \in [row : {r}, order : LeftJoin(KnownOrder(r)), product : LeftJoin(KnownProduct(r))]
        /\ k \in [row : {r}, order : LeftJoin(KnownOrder(r)), product : LeftJoin(KnownProduct(r))]
    BY <1>3 DEF Transformed, Independent
  <2>4. j.order = k.order /\ j.product = k.product /\ j.row = k.row
    BY <2>1, <2>2, <2>3, JoinIsFunctional
  <2>5. QED BY <2>3, <2>4
<1>4. QED BY <1>1, <1>2, <1>3 DEF Tables

(* Writing one Silver table keeps all of them unique. *)
LEMMA WriteSilverKeeps ==
    ASSUME SilverInv, NEW t \in Tables, WriteSilver(t)
    PROVE  SilverInv'
<1>1. PICK rows \in Deduped(t) : silver' = [silver EXCEPT ![t] = Good(t, rows)]
  BY DEF WriteSilver
<1>2. DOMAIN silver' = Tables
  BY <1>1 DEF SilverInv
<1>3. \A u \in Tables : silver'[u] = IF u = t THEN Good(t, rows) ELSE silver[u]
  BY <1>1 DEF SilverInv
<1>4. ASSUME NEW j \in Good(t, rows), NEW k \in Good(t, rows), Key(t, j.row) = Key(t, k.row)
      PROVE  j = k
  <2>1. /\ j.row \in rows /\ j \in Transformed(t, j.row)
        /\ k.row \in rows /\ k \in Transformed(t, k.row)
    BY GoodRow
  <2>2. j.row = k.row
    BY <1>4, <2>1, DedupedIsUnique
  <2>3. QED BY <2>1, <2>2, TransformedOnce
<1>5. KeysUnique'
  <2>1. ASSUME NEW u \in Tables, NEW j \in silver'[u], NEW k \in silver'[u],
               Key(u, j.row) = Key(u, k.row)
        PROVE  j = k
    BY <1>3, <1>4, <2>1 DEF SilverInv, KeysUnique
  <2>2. QED BY <2>1 DEF KeysUnique
<1>6. RatesAreAgainstUsd'
  BY <1>3, GoodRateIsAgainstUsd DEF RatesAreAgainstUsd, SilverInv, Tables, Independent
<1>7. QED BY <1>2, <1>5, <1>6 DEF SilverInv

(* Whatever Bronze holds and however often, a Silver table never holds two    *)
(* rows of one key.                                                           *)
THEOREM SilverKeysAreUnique == Spec => []KeysUnique
<1>1. Init => SilverInv
  BY DEF Init, SilverInv, KeysUnique, RatesAreAgainstUsd, Tables, Independent
<1>2. SilverInv /\ [Next]_vars => SilverInv'
  <2> SUFFICES ASSUME SilverInv, [Next]_vars PROVE SilverInv'
    OBVIOUS
  <2>1. CASE UNCHANGED silver
    BY <2>1 DEF SilverInv, KeysUnique, RatesAreAgainstUsd
  <2>2. ASSUME NEW t \in Tables, WriteSilver(t) PROVE SilverInv'
    BY <2>2, WriteSilverKeeps
  <2>3. QED
    BY <2>1, <2>2 DEF Next, Count, WriteQuarantine, Midnight, vars
<1>3. SilverInv => KeysUnique
  BY DEF SilverInv
<1>4. QED BY <1>1, <1>2, <1>3, PTL DEF Spec
-----------------------------------------------------------------------------
(* The verdict on a row, if nothing disturbs it, is the same in each          *)
(* evaluation: it depends on Silver tables that are done and on the date.     *)

Passes(t, r) == \E j \in Transformed(t, r) : FailedChecks(t, j) = {}

Steady(t, key)       == ~Tied(t, key) /\ ~BecameDue(t, key)
InSilver(t, key)     == \E j \in silver[t] : Key(t, j.row) = key
InQuarantine(t, key) == \E q \in quarantine[t] : Key(t, q.row) = key

(* What the transform of t has decided about a row at each of its steps. *)
Decided(t, r) ==
    /\ phase[t] = "write_silver" /\ ~anyBad[t] => Passes(t, r)
    /\ phase[t] \in {"write_quarantine", "done"} => (InSilver(t, Key(t, r)) <=> Passes(t, r))
    /\ phase[t] = "done" => (InQuarantine(t, Key(t, r)) <=> ~Passes(t, r))

Begun(t) ==
    phase[t] # "count" => Deduped(t) # {} /\ \A u \in Upstream(t) : phase[u] = "done"

NotYet(t) == phase[t] # "done" => quarantine[t] = {}

DecidedInv(t) == \A r \in Latest(t) : Steady(t, Key(t, r)) => Decided(t, r)

FunctionInv ==
    /\ DOMAIN phase = Tables /\ DOMAIN anyBad = Tables /\ DOMAIN quarantine = Tables
    /\ bronze \in Bronze
    /\ today \in {Today, Today + 1}

VerdictInv ==
    /\ SilverInv
    /\ FunctionInv
    /\ \A t \in Tables : Begun(t) /\ NotYet(t) /\ DecidedInv(t)

(* A row alone in its key among the latest is the one every evaluation keeps. *)
LEMMA LoneRowIsKept ==
    ASSUME NEW t \in Tables, NEW rows \in Deduped(t), NEW r \in Latest(t),
           ~Tied(t, Key(t, r))
    PROVE  /\ r \in rows
           /\ \A s \in rows : Key(t, s) = Key(t, r) => s = r
<1>1. rows \subseteq Latest(t)
  BY DEF Deduped
<1>2. \A s \in rows : Key(t, s) = Key(t, r) => s = r
  BY <1>1 DEF Tied
<1>3. Key(t, r) \in Keys(t, rows)
  <2>1. r \in bronze[t]
    BY DEF Latest
  <2>2. Keys(t, rows) = Keys(t, bronze[t])
    BY DEF Deduped
  <2>3. QED BY <2>1, <2>2 DEF Keys
<1>4. PICK s \in rows : Key(t, s) = Key(t, r)
  BY <1>3 DEF Keys
<1>5. QED BY <1>2, <1>4

LEMMA TransformedExists ==
    ASSUME NEW t \in Tables, NEW r
    PROVE  Transformed(t, r) # {}
<1>1. \A matches : LeftJoin(matches) # {}
  BY DEF LeftJoin
<1>2. CASE t \in Independent
  BY <1>2 DEF Transformed, Independent
<1>3. CASE t = "orders"
  <2>1. PICK c, x : c \in LeftJoin(KnownCustomer(r)) /\ x \in LeftJoin(RateOf(r))
    BY <1>1
  <2>2. [row |-> r, customer |-> c, rate |-> x] \in
            [row : {r}, customer : LeftJoin(KnownCustomer(r)), rate : LeftJoin(RateOf(r))]
    BY <2>1
  <2>3. QED BY <1>3, <2>2 DEF Transformed, Independent
<1>4. CASE t = "order_items"
  <2>1. PICK o, p : o \in LeftJoin(KnownOrder(r)) /\ p \in LeftJoin(KnownProduct(r))
    BY <1>1
  <2>2. [row |-> r, order |-> o, product |-> p] \in
            [row : {r}, order : LeftJoin(KnownOrder(r)), product : LeftJoin(KnownProduct(r))]
    BY <2>1
  <2>3. QED BY <1>4, <2>2 DEF Transformed, Independent
<1>5. QED BY <1>2, <1>3, <1>4 DEF Tables

(* An evaluation puts such a row among the good or among the quarantined. *)
LEMMA Verdict ==
    ASSUME SilverInv, NEW t \in Tables, NEW rows \in Deduped(t), NEW r \in Latest(t),
           ~Tied(t, Key(t, r))
    PROVE  /\ (\E j \in Good(t, rows) : Key(t, j.row) = Key(t, r)) <=> Passes(t, r)
           /\ (\E q \in Quarantined(t, rows) : Key(t, q.row) = Key(t, r)) <=> ~Passes(t, r)
<1>1. PICK k : k \in Transformed(t, r)
  BY TransformedExists
<1>2. \A j \in Transformed(t, r) : j = k /\ j.row = r
  BY <1>1, TransformedOnce, TransformedRow
<1>3. Passes(t, r) <=> FailedChecks(t, k) = {}
  BY <1>1, <1>2 DEF Passes
<1>4. r \in rows /\ \A s \in rows : Key(t, s) = Key(t, r) => s = r
  BY LoneRowIsKept
<1>5. k \in Evaluated(t, rows)
  BY <1>1, <1>4 DEF Evaluated
<1>6. \A j \in Evaluated(t, rows) : Key(t, j.row) = Key(t, r) => j = k
  <2>1. ASSUME NEW j \in Evaluated(t, rows), Key(t, j.row) = Key(t, r)
        PROVE  j = k
    <3>1. PICK s \in rows : j \in Transformed(t, s)
      BY DEF Evaluated
    <3>2. j.row = s
      BY <3>1, TransformedRow
    <3>3. s = r
      BY <2>1, <3>2, <1>4
    <3>4. QED BY <3>1, <3>3, <1>2
  <2>2. QED BY <2>1
<1>7. Key(t, k.row) = Key(t, r)
  BY <1>1, <1>2
<1>8. (\E j \in Good(t, rows) : Key(t, j.row) = Key(t, r)) <=> Passes(t, r)
  BY <1>3, <1>5, <1>6, <1>7 DEF Good
<1>9. (\E q \in Quarantined(t, rows) : Key(t, q.row) = Key(t, r)) <=> ~Passes(t, r)
  <2>1. ASSUME NEW q \in Quarantined(t, rows), Key(t, q.row) = Key(t, r)
        PROVE  ~Passes(t, r)
    <3>1. PICK j \in Evaluated(t, rows) \ Good(t, rows) :
              q = [row |-> j.row, _dq_failed_checks |-> FailedChecks(t, j)]
      BY DEF Quarantined
    <3>2. j = k
      BY <2>1, <3>1, <1>6
    <3>3. QED BY <3>1, <3>2, <1>3 DEF Good
  <2>2. ASSUME ~Passes(t, r)
        PROVE  \E q \in Quarantined(t, rows) : Key(t, q.row) = Key(t, r)
    <3>1. k \in Evaluated(t, rows) \ Good(t, rows)
      BY <2>2, <1>3, <1>5 DEF Good
    <3> DEFINE q == [row |-> k.row, _dq_failed_checks |-> FailedChecks(t, k)]
    <3>2. q \in Quarantined(t, rows)
      BY <3>1 DEF Quarantined
    <3>3. q.row = k.row
      OBVIOUS
    <3>4. QED BY <3>2, <3>3, <1>7
  <2>3. QED BY <2>1, <2>2
<1>10. QED BY <1>8, <1>9

-----------------------------------------------------------------------------
(* What a verdict depends on stays as it was. *)
LEMMA TransformedUnchanged ==
    ASSUME NEW t \in Tables, NEW r, \A u \in Upstream(t) : silver'[u] = silver[u]
    PROVE  Transformed(t, r)' = Transformed(t, r)
<1>1. CASE t \in Independent
  BY <1>1 DEF Transformed, Independent
<1>2. CASE t = "orders"
  <2>1. silver'["customers"] = silver["customers"]
    BY <1>2 DEF Upstream, Independent
  <2>2. silver'["exchange_rates"] = silver["exchange_rates"]
    BY <1>2 DEF Upstream, Independent
  <2>3. KnownCustomer(r)' = KnownCustomer(r) /\ RateOf(r)' = RateOf(r)
    BY <2>1, <2>2 DEF KnownCustomer, RateOf
  <2>4. QED BY <1>2, <2>3 DEF Transformed, Independent, LeftJoin
<1>3. CASE t = "order_items"
  <2>1. silver'["orders"] = silver["orders"]
    BY <1>3 DEF Upstream, Independent
  <2>2. silver'["products"] = silver["products"]
    BY <1>3 DEF Upstream, Independent
  <2>3. KnownOrder(r)' = KnownOrder(r) /\ KnownProduct(r)' = KnownProduct(r)
    BY <2>1, <2>2 DEF KnownOrder, KnownProduct
  <2>4. QED BY <1>3, <2>3 DEF Transformed, Independent, LeftJoin
<1>4. QED BY <1>1, <1>2, <1>3 DEF Tables

LEMMA ChecksUnchanged ==
    ASSUME NEW t \in Tables, NEW j, t = "customers" => today' = today
    PROVE  FailedChecks(t, j)' = FailedChecks(t, j)
<1>1. CASE t = "customers"
  BY <1>1 DEF FailedChecks, Checks, CustomerChecks
<1>2. CASE t # "customers"
  BY <1>2 DEF FailedChecks, Checks, ExchangeRateChecks, ProductChecks, OrderChecks,
              OrderItemChecks, Tables, Independent
<1>3. QED BY <1>1, <1>2

LEMMA PassesUnchanged ==
    ASSUME NEW t \in Tables, NEW r, t = "customers" => today' = today,
           \A u \in Upstream(t) : silver'[u] = silver[u]
    PROVE  Passes(t, r)' <=> Passes(t, r)
<1>1. Transformed(t, r)' = Transformed(t, r)
  BY TransformedUnchanged
<1>2. \A j : FailedChecks(t, j)' = FailedChecks(t, j)
  BY ChecksUnchanged
<1>3. QED BY <1>1, <1>2 DEF Passes

(* Midnight changes a verdict only for a signup date that becomes due. *)
LEMMA PassesAtMidnight ==
    ASSUME FunctionInv, NEW t \in Tables, NEW r \in Latest(t), Midnight,
           ~BecameDue(t, Key(t, r))'
    PROVE  Passes(t, r)' <=> Passes(t, r)
<1>1. CASE t # "customers"
  BY <1>1, PassesUnchanged DEF Midnight
<1>2. CASE t = "customers"
  <2> DEFINE j == [row |-> r]
  <2>1. Transformed(t, r) = {j} /\ Transformed(t, r)' = {j}
    BY <1>2 DEF Transformed, Independent
  <2>2. r.signup_date \in Int \union {Null}
    BY <1>2, BronzeAssumption DEF FunctionInv, Latest
  <2>3. r.signup_date # Today + 1
    <3>1. today' = Today + 1 /\ Latest(t)' = Latest(t)
      BY DEF Midnight, Latest
    <3>2. QED BY <1>2, <3>1 DEF BecameDue
  <2>4. AtLeast(today, r.signup_date)' = AtLeast(today, r.signup_date)
    BY <2>2, <2>3, TodayAssumption, NullAssumption DEF AtLeast, Midnight
  <2>5. FailedChecks(t, j)' = FailedChecks(t, j)
    BY <1>2, <2>4 DEF FailedChecks, Checks, CustomerChecks
  <2>6. QED BY <2>1, <2>5 DEF Passes
<1>3. QED BY <1>1, <1>2

(* A date that became due stays due, and ties depend on Bronze alone. *)
LEMMA SteadyWas ==
    ASSUME FunctionInv, NEW t \in Tables, NEW key, Steady(t, key)', bronze' = bronze,
           today' = today \/ Midnight
    PROVE  Steady(t, key)
<1>1. Latest(t)' = Latest(t)
  BY DEF Latest
<1>2. Tied(t, key)' <=> Tied(t, key)
  BY <1>1 DEF Tied
<1>3. BecameDue(t, key) => BecameDue(t, key)'
  <2>1. CASE today' = today
    BY <1>1, <2>1 DEF BecameDue
  <2>2. CASE Midnight
    BY <2>2, TodayAssumption DEF BecameDue, Midnight
  <2>3. QED BY <2>1, <2>2
<1>4. QED BY <1>2, <1>3 DEF Steady

(* A step of another transform disturbs nothing of u: what u read is done. *)
LEMMA Undisturbed ==
    ASSUME VerdictInv, NEW u \in Tables, bronze' = bronze, today' = today,
           phase'[u] = phase[u], anyBad'[u] = anyBad[u], silver'[u] = silver[u],
           quarantine'[u] = quarantine[u],
           \A v \in Tables : phase[v] = "done" => phase'[v] = "done" /\ silver'[v] = silver[v]
    PROVE  Begun(u)' /\ NotYet(u)' /\ DecidedInv(u)'
<1>1. Begun(u) /\ NotYet(u) /\ DecidedInv(u) /\ FunctionInv
  BY DEF VerdictInv
<1>2. Latest(u)' = Latest(u) /\ Deduped(u)' = Deduped(u)
  BY DEF Latest, Deduped, Keys
<1>3. Upstream(u) \subseteq Tables
  BY DEF Upstream, Tables, Independent
<1>4. Begun(u)'
  BY <1>1, <1>2, <1>3 DEF Begun
<1>5. NotYet(u)'
  BY <1>1 DEF NotYet
<1>6. DecidedInv(u)'
  <2> SUFFICES ASSUME NEW r \in Latest(u), Steady(u, Key(u, r))' PROVE Decided(u, r)'
    BY <1>2 DEF DecidedInv
  <2>1. Decided(u, r)
    BY <1>1, SteadyWas DEF DecidedInv
  <2>2. CASE phase[u] = "count"
    BY <2>2 DEF Decided
  <2>3. CASE phase[u] # "count"
    <3>1. \A v \in Upstream(u) : silver'[v] = silver[v]
      BY <1>1, <1>3, <2>3 DEF Begun
    <3>2. Passes(u, r)' <=> Passes(u, r)
      BY <3>1, PassesUnchanged
    <3>3. QED BY <2>1, <3>2 DEF Decided, InSilver, InQuarantine
  <2>4. QED BY <2>2, <2>3
<1>7. QED BY <1>4, <1>5, <1>6

-----------------------------------------------------------------------------
(* Each step of a transform, and midnight, keep what has been decided. *)
LEMMA CountKeeps ==
    ASSUME VerdictInv, NEW t \in Tables, Count(t)
    PROVE  VerdictInv'
<1>1. FunctionInv' /\ UNCHANGED <<bronze, today, silver, quarantine>>
  BY DEF Count, FunctionInv, VerdictInv
<1>2. SilverInv'
  BY <1>1 DEF VerdictInv, SilverInv, KeysUnique, RatesAreAgainstUsd
<1>3. \A v \in Tables : phase'[v] = IF v = t THEN "write_silver" ELSE phase[v]
  BY DEF Count, VerdictInv, FunctionInv
<1>4. PICK rows \in Deduped(t) :
          anyBad' = [anyBad EXCEPT ![t] = Quarantined(t, rows) # {}]
  BY DEF Count
<1>5. \A v \in Tables : v # t => anyBad'[v] = anyBad[v]
  BY <1>4 DEF VerdictInv, FunctionInv
<1>6. anyBad'[t] <=> Quarantined(t, rows) # {}
  BY <1>4 DEF VerdictInv, FunctionInv
<1>7. phase[t] = "count" /\ \A u \in Upstream(t) : phase[u] = "done"
  BY DEF Count
<1>8. ASSUME NEW u \in Tables, u # t
      PROVE  Begun(u)' /\ NotYet(u)' /\ DecidedInv(u)'
  BY <1>1, <1>3, <1>5, <1>7, <1>8, Undisturbed
<1>9. Latest(t)' = Latest(t) /\ Deduped(t)' = Deduped(t)
  BY <1>1 DEF Latest, Deduped, Keys
<1>10. t \notin Upstream(t) /\ Upstream(t) \subseteq Tables
  BY DEF Upstream, Tables, Independent
<1>11. Begun(t)'
  BY <1>3, <1>7, <1>9, <1>10 DEF Begun
<1>12. NotYet(t)'
  BY <1>1, <1>7 DEF NotYet, VerdictInv
<1>13. DecidedInv(t)'
  <2> SUFFICES ASSUME NEW r \in Latest(t), Steady(t, Key(t, r))' PROVE Decided(t, r)'
    BY <1>9 DEF DecidedInv
  <2>1. ~Tied(t, Key(t, r))
    BY <1>1, SteadyWas DEF VerdictInv, Steady
  <2>2. ~anyBad'[t] => Passes(t, r)
    BY <1>6, <2>1, Verdict DEF VerdictInv
  <2>3. Passes(t, r)' <=> Passes(t, r)
    BY <1>1, PassesUnchanged
  <2>4. QED BY <1>3, <2>2, <2>3 DEF Decided
<1>14. QED BY <1>1, <1>2, <1>8, <1>11, <1>12, <1>13 DEF VerdictInv

LEMMA WriteSilverDecides ==
    ASSUME VerdictInv, NEW t \in Tables, WriteSilver(t)
    PROVE  VerdictInv'
<1>1. FunctionInv' /\ UNCHANGED <<bronze, today, anyBad, quarantine>>
  BY DEF WriteSilver, FunctionInv, VerdictInv
<1>2. SilverInv'
  BY WriteSilverKeeps DEF VerdictInv
<1>3. \A v \in Tables : phase'[v] =
          IF v = t THEN (IF anyBad[t] THEN "write_quarantine" ELSE "done") ELSE phase[v]
  BY DEF WriteSilver, VerdictInv, FunctionInv
<1>4. PICK rows \in Deduped(t) : silver' = [silver EXCEPT ![t] = Good(t, rows)]
  BY DEF WriteSilver
<1>5. \A v \in Tables : silver'[v] = IF v = t THEN Good(t, rows) ELSE silver[v]
  BY <1>4 DEF VerdictInv, SilverInv
<1>6. phase[t] = "write_silver"
  BY DEF WriteSilver
<1>7. ASSUME NEW u \in Tables, u # t
      PROVE  Begun(u)' /\ NotYet(u)' /\ DecidedInv(u)'
  BY <1>1, <1>3, <1>5, <1>6, <1>7, Undisturbed
<1>8. Latest(t)' = Latest(t) /\ Deduped(t)' = Deduped(t)
  BY <1>1 DEF Latest, Deduped, Keys
<1>9. t \notin Upstream(t) /\ Upstream(t) \subseteq Tables
  BY DEF Upstream, Tables, Independent
<1>10. Begun(t) /\ NotYet(t) /\ DecidedInv(t)
  BY DEF VerdictInv
<1>11. Begun(t)'
  BY <1>3, <1>6, <1>8, <1>9, <1>10 DEF Begun
<1>12. NotYet(t)'
  BY <1>1, <1>6, <1>10 DEF NotYet
<1>13. DecidedInv(t)'
  <2> SUFFICES ASSUME NEW r \in Latest(t), Steady(t, Key(t, r))' PROVE Decided(t, r)'
    BY <1>8 DEF DecidedInv
  <2>1. Steady(t, Key(t, r))
    BY <1>1, SteadyWas DEF VerdictInv
  <2>2. InSilver(t, Key(t, r))' <=> Passes(t, r)
    BY <1>5, <2>1, Verdict DEF VerdictInv, InSilver, Steady
  <2>3. Passes(t, r)' <=> Passes(t, r)
    BY <1>1, <1>5, <1>9, PassesUnchanged
  <2>4. ~anyBad[t] => Passes(t, r)
    BY <1>6, <1>10, <2>1 DEF DecidedInv, Decided
  <2>5. ~InQuarantine(t, Key(t, r))'
    BY <1>1, <1>6, <1>10 DEF NotYet, InQuarantine
  <2>6. QED BY <1>3, <2>2, <2>3, <2>4, <2>5 DEF Decided
<1>14. QED BY <1>1, <1>2, <1>7, <1>11, <1>12, <1>13 DEF VerdictInv

LEMMA WriteQuarantineDecides ==
    ASSUME VerdictInv, NEW t \in Tables, WriteQuarantine(t)
    PROVE  VerdictInv'
<1>1. FunctionInv' /\ UNCHANGED <<bronze, today, anyBad, silver>>
  BY DEF WriteQuarantine, FunctionInv, VerdictInv
<1>2. SilverInv'
  BY <1>1 DEF VerdictInv, SilverInv, KeysUnique, RatesAreAgainstUsd
<1>3. \A v \in Tables : phase'[v] = IF v = t THEN "done" ELSE phase[v]
  BY DEF WriteQuarantine, VerdictInv, FunctionInv
<1>4. PICK rows \in Deduped(t) :
          quarantine' = [quarantine EXCEPT ![t] = Quarantined(t, rows)]
  BY DEF WriteQuarantine
<1>5. \A v \in Tables : quarantine'[v] = IF v = t THEN Quarantined(t, rows) ELSE quarantine[v]
  BY <1>4 DEF VerdictInv, FunctionInv
<1>6. phase[t] = "write_quarantine"
  BY DEF WriteQuarantine
<1>7. ASSUME NEW u \in Tables, u # t
      PROVE  Begun(u)' /\ NotYet(u)' /\ DecidedInv(u)'
  BY <1>1, <1>3, <1>5, <1>6, <1>7, Undisturbed
<1>8. Latest(t)' = Latest(t) /\ Deduped(t)' = Deduped(t)
  BY <1>1 DEF Latest, Deduped, Keys
<1>9. t \notin Upstream(t) /\ Upstream(t) \subseteq Tables
  BY DEF Upstream, Tables, Independent
<1>10. Begun(t) /\ DecidedInv(t)
  BY DEF VerdictInv
<1>11. Begun(t)'
  BY <1>3, <1>6, <1>8, <1>9, <1>10 DEF Begun
<1>12. NotYet(t)'
  BY <1>3 DEF NotYet
<1>13. DecidedInv(t)'
  <2> SUFFICES ASSUME NEW r \in Latest(t), Steady(t, Key(t, r))' PROVE Decided(t, r)'
    BY <1>8 DEF DecidedInv
  <2>1. Steady(t, Key(t, r))
    BY <1>1, SteadyWas DEF VerdictInv
  <2>2. InQuarantine(t, Key(t, r))' <=> ~Passes(t, r)
    BY <1>5, <2>1, Verdict DEF VerdictInv, InQuarantine, Steady
  <2>3. Passes(t, r)' <=> Passes(t, r)
    BY <1>1, PassesUnchanged
  <2>4. InSilver(t, Key(t, r))' <=> Passes(t, r)
    BY <1>1, <1>6, <1>10, <2>1 DEF DecidedInv, Decided, InSilver
  <2>5. QED BY <1>3, <2>2, <2>3, <2>4 DEF Decided
<1>14. QED BY <1>1, <1>2, <1>7, <1>11, <1>12, <1>13 DEF VerdictInv

LEMMA MidnightDecides ==
    ASSUME VerdictInv, Midnight
    PROVE  VerdictInv'
<1>1. FunctionInv' /\ UNCHANGED <<bronze, phase, anyBad, silver, quarantine>>
  BY DEF Midnight, locals, FunctionInv, VerdictInv
<1>2. SilverInv'
  BY <1>1 DEF VerdictInv, SilverInv, KeysUnique, RatesAreAgainstUsd
<1>3. ASSUME NEW t \in Tables PROVE Begun(t)' /\ NotYet(t)' /\ DecidedInv(t)'
  <2>1. Latest(t)' = Latest(t) /\ Deduped(t)' = Deduped(t)
    BY <1>1 DEF Latest, Deduped, Keys
  <2>2. Begun(t)' /\ NotYet(t)'
    BY <1>1, <2>1 DEF VerdictInv, Begun, NotYet
  <2>3. ASSUME NEW r \in Latest(t), Steady(t, Key(t, r))' PROVE Decided(t, r)'
    <3>1. Steady(t, Key(t, r))
      BY <1>1, <2>3, SteadyWas DEF VerdictInv
    <3>2. Decided(t, r)
      BY <3>1 DEF VerdictInv, DecidedInv
    <3>3. Passes(t, r)' <=> Passes(t, r)
      BY <2>3, PassesAtMidnight DEF VerdictInv, Steady
    <3>4. QED BY <1>1, <3>2, <3>3 DEF Decided, InSilver, InQuarantine
  <2>4. QED BY <2>1, <2>2, <2>3 DEF DecidedInv
<1>4. QED BY <1>1, <1>2, <1>3 DEF VerdictInv

LEMMA VerdictInvariant == Spec => []VerdictInv
<1>1. Init => VerdictInv
  <2> SUFFICES ASSUME Init PROVE VerdictInv
    OBVIOUS
  <2>1. SilverInv /\ FunctionInv
    BY DEF Init, SilverInv, KeysUnique, RatesAreAgainstUsd, FunctionInv, Tables, Independent
  <2>2. \A t \in Tables : phase[t] = "count" /\ quarantine[t] = {}
    BY DEF Init
  <2>3. QED BY <2>1, <2>2 DEF VerdictInv, Begun, NotYet, DecidedInv, Decided
<1>2. VerdictInv /\ [Next]_vars => VerdictInv'
  <2> SUFFICES ASSUME VerdictInv, [Next]_vars PROVE VerdictInv'
    OBVIOUS
  <2>1. ASSUME NEW t \in Tables, Count(t) PROVE VerdictInv'
    BY <2>1, CountKeeps
  <2>2. ASSUME NEW t \in Tables, WriteSilver(t) PROVE VerdictInv'
    BY <2>2, WriteSilverDecides
  <2>3. ASSUME NEW t \in Tables, WriteQuarantine(t) PROVE VerdictInv'
    BY <2>3, WriteQuarantineDecides
  <2>4. CASE Midnight
    BY <2>4, MidnightDecides
  <2>5. CASE UNCHANGED vars
    <3>1. UNCHANGED <<bronze, today, phase, anyBad, silver, quarantine>>
      BY <2>5 DEF vars, locals
    <3>2. SilverInv' /\ FunctionInv'
      BY <3>1 DEF VerdictInv, SilverInv, KeysUnique, RatesAreAgainstUsd, FunctionInv
    <3>3. \A t \in Tables : Begun(t)' /\ NotYet(t)' /\ DecidedInv(t)'
      BY <3>1, Undisturbed
    <3>4. QED BY <3>2, <3>3 DEF VerdictInv
  <2>6. QED BY <2>1, <2>2, <2>3, <2>4, <2>5 DEF Next
<1>3. QED BY <1>1, <1>2, PTL DEF Spec

(* Time makes a row only better, so that one found good stays good and is not *)
(* quarantined by a later evaluation.                                         *)
LEMMA PassesStays ==
    ASSUME FunctionInv, NEW t \in Tables, NEW r \in Latest(t), Midnight, Passes(t, r)
    PROVE  Passes(t, r)'
<1>1. CASE t # "customers"
  BY <1>1, PassesUnchanged DEF Midnight
<1>2. CASE t = "customers"
  <2> DEFINE j == [row |-> r]
  <2>1. Transformed(t, r) = {j} /\ Transformed(t, r)' = {j}
    BY <1>2 DEF Transformed, Independent
  <2>2. r.signup_date \in Int \union {Null}
    BY <1>2, BronzeAssumption DEF FunctionInv, Latest
  <2>3. AtLeast(today, r.signup_date) = TRUE => AtLeast(today, r.signup_date)' = TRUE
    BY <2>2, TodayAssumption, NullAssumption DEF AtLeast, Midnight
  <2>4. FailedChecks(t, j) = {}
    BY <2>1 DEF Passes
  <2>5. CustomerChecks(j)' = [CustomerChecks(j) EXCEPT
                                 !["signup_date_not_future"] = AtLeast(today, r.signup_date)']
    BY DEF CustomerChecks
  <2>6. FailedChecks(t, j)' = {}
    <3>1. \A name \in DOMAIN CustomerChecks(j) : CustomerChecks(j)[name] = TRUE
      BY <1>2, <2>4 DEF FailedChecks, Checks
    <3>2. CustomerChecks(j).signup_date_not_future = AtLeast(today, r.signup_date)
      BY DEF CustomerChecks
    <3>3. "signup_date_not_future" \in DOMAIN CustomerChecks(j)
      BY DEF CustomerChecks
    <3>4. AtLeast(today, r.signup_date)' = TRUE
      BY <2>3, <3>1, <3>2, <3>3
    <3> DEFINE f == CustomerChecks(j)
    <3> HIDE DEF f
    <3>5. CustomerChecks(j)' = [f EXCEPT !["signup_date_not_future"] = TRUE]
      BY <2>5, <3>4 DEF f
    <3>6. \A name \in DOMAIN CustomerChecks(j)' : CustomerChecks(j)'[name] = TRUE
      BY <3>1, <3>5 DEF f
    <3>7. QED BY <1>2, <3>6 DEF FailedChecks, Checks
  <2>7. QED BY <2>1, <2>6 DEF Passes
<1>3. QED BY <1>1, <1>2

(* A key whose row reached Silver is not rejected by the evaluation that      *)
(* follows, before or after midnight.                                         *)
NeverBoth(t) ==
    /\ phase[t] = "count" => silver[t] = {}
    /\ \A r \in Latest(t) : ~Tied(t, Key(t, r)) /\ InSilver(t, Key(t, r)) =>
          Passes(t, r) /\ ~InQuarantine(t, Key(t, r))

LEMMA SilverStepKeepsApart ==
    ASSUME VerdictInv, \A t \in Tables : NeverBoth(t), NEW u \in Tables, WriteSilver(u),
           NEW t \in Tables
    PROVE  NeverBoth(t)'
<1>1. /\ phase[u] = "write_silver" /\ UNCHANGED <<bronze, today, quarantine>>
      /\ \A v \in Tables : v # u => silver'[v] = silver[v] /\ phase'[v] = phase[v]
      /\ phase'[u] # "count"
  BY DEF WriteSilver, VerdictInv, SilverInv, FunctionInv
<1>2. Latest(t)' = Latest(t) /\ \A key : Tied(t, key)' <=> Tied(t, key)
  BY <1>1 DEF Latest, Tied
<1>3. Upstream(t) \subseteq Tables /\ t \notin Upstream(t) /\ Begun(t) /\ NotYet(t)
  BY DEF VerdictInv, Upstream, Tables, Independent
<1>4. CASE t = u
  <2>1. PICK rows \in Deduped(t) : silver'[t] = Good(t, rows)
    BY <1>4 DEF WriteSilver, VerdictInv, SilverInv
  <2>2. ASSUME NEW r \in Latest(t), ~Tied(t, Key(t, r)), InSilver(t, Key(t, r))'
        PROVE  Passes(t, r)' /\ ~InQuarantine(t, Key(t, r))'
    <3>1. Passes(t, r)
      BY <2>1, <2>2, Verdict DEF VerdictInv, InSilver
    <3>2. \A v \in Upstream(t) : silver'[v] = silver[v]
      BY <1>1, <1>3, <1>4
    <3>3. ~InQuarantine(t, Key(t, r))'
      BY <1>1, <1>3, <1>4 DEF NotYet, InQuarantine
    <3>4. QED BY <1>1, <3>1, <3>2, <3>3, PassesUnchanged
  <2>3. QED BY <1>1, <1>2, <1>4, <2>2 DEF NeverBoth
<1>5. CASE t # u
  <2>1. NeverBoth(t) /\ silver'[t] = silver[t] /\ phase'[t] = phase[t]
    BY <1>1, <1>5
  <2>2. ASSUME NEW r \in Latest(t), ~Tied(t, Key(t, r)), InSilver(t, Key(t, r))'
        PROVE  Passes(t, r)' /\ ~InQuarantine(t, Key(t, r))'
    <3>1. InSilver(t, Key(t, r)) /\ phase[t] # "count"
      BY <2>1, <2>2 DEF InSilver, NeverBoth
    <3>2. Passes(t, r) /\ ~InQuarantine(t, Key(t, r))
      BY <2>1, <2>2, <3>1 DEF NeverBoth
    <3>3. \A v \in Upstream(t) : silver'[v] = silver[v]
      BY <1>1, <1>3, <3>1 DEF Begun
    <3>4. QED BY <1>1, <3>2, <3>3, PassesUnchanged DEF InQuarantine
  <2>3. QED BY <1>2, <2>1, <2>2 DEF NeverBoth
<1>6. QED BY <1>4, <1>5

LEMMA QuarantineStepKeepsApart ==
    ASSUME VerdictInv, \A t \in Tables : NeverBoth(t), NEW u \in Tables,
           WriteQuarantine(u) \/ Count(u) \/ UNCHANGED vars, NEW t \in Tables
    PROVE  NeverBoth(t)'
<1>1. /\ UNCHANGED <<bronze, today, silver>>
      /\ phase'[t] = "count" => phase[t] = "count"
  BY DEF WriteQuarantine, Count, vars, locals, VerdictInv, FunctionInv
<1>2. Latest(t)' = Latest(t) /\ \A key : Tied(t, key)' <=> Tied(t, key)
  BY <1>1 DEF Latest, Tied
<1>3. ASSUME NEW r \in Latest(t), ~Tied(t, Key(t, r)), InSilver(t, Key(t, r))'
      PROVE  Passes(t, r)' /\ ~InQuarantine(t, Key(t, r))'
  <2>1. Passes(t, r) /\ ~InQuarantine(t, Key(t, r))
    BY <1>1, <1>3 DEF NeverBoth, InSilver
  <2>2. Passes(t, r)'
    BY <1>1, <2>1, PassesUnchanged
  <2>3. CASE quarantine'[t] = quarantine[t]
    BY <2>1, <2>2, <2>3 DEF InQuarantine
  <2>4. CASE WriteQuarantine(t)
    <3>1. PICK rows \in Deduped(t) : quarantine'[t] = Quarantined(t, rows)
      BY <2>4 DEF WriteQuarantine, VerdictInv, FunctionInv
    <3>2. QED BY <1>3, <2>1, <2>2, <3>1, Verdict DEF VerdictInv, InQuarantine
  <2>5. QED
    BY <2>3, <2>4 DEF WriteQuarantine, Count, vars, VerdictInv, FunctionInv
<1>4. QED BY <1>1, <1>2, <1>3 DEF NeverBoth

LEMMA MidnightKeepsApart ==
    ASSUME VerdictInv, \A t \in Tables : NeverBoth(t), Midnight, NEW t \in Tables
    PROVE  NeverBoth(t)'
<1>1. UNCHANGED <<bronze, phase, silver, quarantine>> /\ FunctionInv
  BY DEF Midnight, locals, VerdictInv
<1>2. Latest(t)' = Latest(t) /\ \A key : Tied(t, key)' <=> Tied(t, key)
  BY <1>1 DEF Latest, Tied
<1>3. ASSUME NEW r \in Latest(t), ~Tied(t, Key(t, r)), InSilver(t, Key(t, r))'
      PROVE  Passes(t, r)' /\ ~InQuarantine(t, Key(t, r))'
  <2>1. Passes(t, r) /\ ~InQuarantine(t, Key(t, r))
    BY <1>1, <1>3 DEF NeverBoth, InSilver
  <2>2. Passes(t, r)'
    BY <1>1, <2>1, PassesStays
  <2>3. QED BY <1>1, <2>1, <2>2 DEF InQuarantine
<1>4. QED BY <1>1, <1>2, <1>3 DEF NeverBoth

LEMMA NeverBothInvariant == Spec => [](\A t \in Tables : NeverBoth(t))
<1>1. Init => \A t \in Tables : NeverBoth(t)
  BY DEF Init, NeverBoth, InSilver
<1>2. VerdictInv /\ (\A t \in Tables : NeverBoth(t)) /\ [Next]_vars
          => (\A t \in Tables : NeverBoth(t))'
  <2> SUFFICES ASSUME VerdictInv, \A t \in Tables : NeverBoth(t), [Next]_vars, NEW t \in Tables
               PROVE  NeverBoth(t)'
    BY DEF Tables
  <2>1. QED
    BY SilverStepKeepsApart, QuarantineStepKeepsApart, MidnightKeepsApart DEF Next
<1>3. QED BY <1>1, <1>2, VerdictInvariant, PTL DEF Spec

(* A transform that is done has put each key it read in Silver or in          *)
(* quarantine and not in both, whatever the checks, the joins and the rows    *)
(* are, ties aside; one that midnight makes due may be in neither.            *)
THEOREM KeysAreNeverLost == Spec => []EveryKeyOnce
<1>1. VerdictInv /\ (\A t \in Tables : NeverBoth(t)) => EveryKeyOnce
  <2> SUFFICES ASSUME VerdictInv, \A t \in Tables : NeverBoth(t),
                      NEW t \in Tables, phase[t] = "done",
                      NEW key \in Keys(t, bronze[t]), ~Tied(t, key)
               PROVE  \/ InSilver(t, key) # InQuarantine(t, key)
                      \/ BecameDue(t, key) /\ ~InSilver(t, key)
    BY DEF EveryKeyOnce, InSilver, InQuarantine
  <2>1. PICK rows \in Deduped(t) : TRUE
    BY DEF VerdictInv, Begun
  <2>2. Keys(t, rows) = Keys(t, bronze[t]) /\ rows \subseteq Latest(t)
    BY DEF Deduped
  <2>3. PICK r \in Latest(t) : Key(t, r) = key
    BY <2>2 DEF Keys
  <2>4. CASE Steady(t, key)
    <3>1. Decided(t, r)
      BY <2>3, <2>4 DEF VerdictInv, DecidedInv
    <3>2. (InSilver(t, key) <=> Passes(t, r)) /\ (InQuarantine(t, key) <=> ~Passes(t, r))
      BY <2>3, <3>1 DEF Decided
    <3>3. QED BY <3>2 DEF InSilver, InQuarantine
  <2>5. CASE BecameDue(t, key)
    <3>1. InSilver(t, key) => ~InQuarantine(t, key)
      BY <2>3 DEF NeverBoth
    <3>2. QED BY <2>5, <3>1 DEF InSilver, InQuarantine
  <2>6. QED BY <2>4, <2>5 DEF Steady
<1>2. QED BY <1>1, VerdictInvariant, NeverBothInvariant, PTL

-----------------------------------------------------------------------------
(* What reaches Silver and quarantine comes from Bronze. *)

LEMMA ChecksHaveOneDomain ==
    ASSUME NEW t \in Tables, NEW j, NEW k
    PROVE  DOMAIN Checks(t, j) = DOMAIN Checks(t, k)
<1>1. DOMAIN CustomerChecks(j) = DOMAIN CustomerChecks(k)
  BY DEF CustomerChecks
<1>2. DOMAIN ExchangeRateChecks(j) = DOMAIN ExchangeRateChecks(k)
  BY DEF ExchangeRateChecks
<1>3. DOMAIN ProductChecks(j) = DOMAIN ProductChecks(k)
  BY DEF ProductChecks
<1>4. DOMAIN OrderChecks(j) = DOMAIN OrderChecks(k)
  BY DEF OrderChecks
<1>5. DOMAIN OrderItemChecks(j) = DOMAIN OrderItemChecks(k)
  BY DEF OrderItemChecks
<1>6. QED
  BY <1>1, <1>2, <1>3, <1>4, <1>5 DEF Checks, Tables, Independent

LEMMA ChecksKeepTheirNames ==
    ASSUME NEW t \in Tables, NEW j
    PROVE  (DOMAIN Checks(t, j))' = DOMAIN Checks(t, j)
<1>1. CASE t = "customers"
  <2>1. (DOMAIN CustomerChecks(j))' = DOMAIN CustomerChecks(j)
    BY DEF CustomerChecks
  <2>2. QED
    BY <1>1, <2>1 DEF Checks
<1>2. CASE t # "customers"
  <2>1. UNCHANGED <<ExchangeRateChecks(j), ProductChecks(j), OrderChecks(j), OrderItemChecks(j)>>
    BY DEF ExchangeRateChecks, ProductChecks, OrderChecks, OrderItemChecks, FxRateToUsd,
           OrderTotalUsd
  <2>2. QED
    BY <1>2, <2>1 DEF Checks, Tables, Independent
<1>3. QED
  BY <1>1, <1>2

LEMMA CheckNamesStay ==
    \A t \in Tables : \A r : CheckNames(t, r)' = CheckNames(t, r)
BY ChecksKeepTheirNames DEF CheckNames

LEMMA DedupedRows ==
    ASSUME NEW t, NEW rows \in Deduped(t)
    PROVE  rows \subseteq bronze[t]
BY DEF Deduped, Latest

LEMMA QuarantinedRow ==
    ASSUME NEW t \in Tables, NEW rows, NEW q \in Quarantined(t, rows)
    PROVE  /\ q.row \in rows
           /\ q._dq_failed_checks \in (SUBSET CheckNames(t, q.row)) \ {{}}
<1>1. PICK j \in Evaluated(t, rows) \ Good(t, rows) :
          q = [row |-> j.row, _dq_failed_checks |-> FailedChecks(t, j)]
  BY DEF Quarantined
<1>2. PICK r \in rows : j \in Transformed(t, r)
  BY DEF Evaluated
<1>3. j.row = r
  BY <1>2, TransformedRow
<1>4. FailedChecks(t, j) # {}
  BY DEF Good
<1>5. q.row = j.row /\ q._dq_failed_checks = FailedChecks(t, j)
  BY <1>1
<1>6. q.row \in rows
  BY <1>3, <1>5
<1>7. FailedChecks(t, j) \subseteq DOMAIN Checks(t, j)
  BY DEF FailedChecks
<1>8. DOMAIN Checks(t, j) = CheckNames(t, q.row)
  BY ChecksHaveOneDomain DEF CheckNames
<1>9. q._dq_failed_checks \subseteq CheckNames(t, q.row) /\ q._dq_failed_checks # {}
  BY <1>4, <1>5, <1>7, <1>8
<1>10. QED
  BY <1>6, <1>9

(* Every row of Silver and of quarantine was read from Bronze, and a row in   *)
(* quarantine failed a check.                                                 *)
THEOREM SilverTypeCorrect == Spec => []TypeOK
<1>1. Init => TypeOK
  BY DEF Init, TypeOK, Phases
<1>2. TypeOK /\ [Next]_vars => TypeOK'
  <2> SUFFICES ASSUME TypeOK, [Next]_vars PROVE TypeOK'
    OBVIOUS
  <2> USE DEF TypeOK, Phases
  <2>1. ASSUME NEW t \in Tables, Count(t) PROVE TypeOK'
    <3>1. PICK rows \in Deduped(t) :
              anyBad' = [anyBad EXCEPT ![t] = Quarantined(t, rows) # {}]
      BY <2>1 DEF Count
    <3>2. anyBad' \in [Tables -> BOOLEAN]
      BY <3>1
    <3>3. QED
      BY <2>1, <3>2, CheckNamesStay DEF Count
  <2>2. ASSUME NEW t \in Tables, WriteSilver(t) PROVE TypeOK'
    <3>1. PICK rows \in Deduped(t) : silver' = [silver EXCEPT ![t] = Good(t, rows)]
      BY <2>2 DEF WriteSilver
    <3>2. \A j \in Good(t, rows) : j.row \in bronze[t]
      BY GoodRow, DedupedRows
    <3>3. \A u \in Tables : silver'[u] = IF u = t THEN Good(t, rows) ELSE silver[u]
      BY <3>1
    <3>4. DOMAIN silver' = Tables /\ \A u \in Tables : \A j \in silver'[u] : j.row \in bronze[u]
      BY <3>1, <3>2, <3>3
    <3>5. phase' \in [Tables -> {"count", "write_silver", "write_quarantine", "done"}]
      BY <2>2 DEF WriteSilver
    <3>6. QED
      BY <2>2, <3>4, <3>5, CheckNamesStay DEF WriteSilver
  <2>3. ASSUME NEW t \in Tables, WriteQuarantine(t) PROVE TypeOK'
    <3>1. PICK rows \in Deduped(t) :
              quarantine' = [quarantine EXCEPT ![t] = Quarantined(t, rows)]
      BY <2>3 DEF WriteQuarantine
    <3>2. \A q \in Quarantined(t, rows) :
              /\ q.row \in bronze[t]
              /\ q._dq_failed_checks \in (SUBSET CheckNames(t, q.row)) \ {{}}
      BY QuarantinedRow, DedupedRows
    <3>3. \A u \in Tables :
              quarantine'[u] = IF u = t THEN Quarantined(t, rows) ELSE quarantine[u]
      BY <3>1
    <3>4. /\ DOMAIN quarantine' = Tables
          /\ \A u \in Tables : \A q \in quarantine'[u] :
                /\ q.row \in bronze[u]
                /\ q._dq_failed_checks \in (SUBSET CheckNames(u, q.row)) \ {{}}
      BY <3>1, <3>2, <3>3
    <3>5. phase' \in [Tables -> {"count", "write_silver", "write_quarantine", "done"}]
      BY <2>3 DEF WriteQuarantine
    <3>6. QED
      BY <2>3, <3>4, <3>5, CheckNamesStay DEF WriteQuarantine
  <2>4. CASE Midnight
    BY <2>4, CheckNamesStay DEF Midnight, locals
  <2>5. CASE UNCHANGED vars
    BY <2>5, CheckNamesStay DEF vars, locals
  <2>6. QED
    BY <2>1, <2>2, <2>3, <2>4, <2>5 DEF Next
<1>3. QED
  BY <1>1, <1>2, PTL DEF Spec

-----------------------------------------------------------------------------
(* What the rows of a Silver table were joined to is still in Silver, and     *)
(* they still pass their checks, which for customers depend on the date.      *)
Joined(t) ==
    /\ silver[t] # {} => phase[t] \in {"write_quarantine", "done"}
    /\ \A j \in silver[t] :
          /\ j \in Transformed(t, j.row)
          /\ t # "customers" => FailedChecks(t, j) = {}

JoinInv ==
    /\ TypeOK
    /\ VerdictInv
    /\ \A t \in Tables : Joined(t)

(* A step that writes nothing upstream of t keeps what holds of t's rows.     *)
LEMMA JoinedUndisturbed ==
    ASSUME NEW t \in Tables, Joined(t), silver'[t] = silver[t],
           silver[t] # {} => \A u \in Upstream(t) : silver'[u] = silver[u],
           silver[t] # {} => phase'[t] \in {"write_quarantine", "done"}
    PROVE  Joined(t)'
<1>1. CASE silver[t] = {}
  BY <1>1 DEF Joined
<1>2. CASE silver[t] # {}
  <2>1. \A r : Transformed(t, r)' = Transformed(t, r)
    BY <1>2, TransformedUnchanged
  <2>2. t # "customers" => \A j : FailedChecks(t, j)' = FailedChecks(t, j)
    BY ChecksUnchanged
  <2>3. QED
    BY <1>2, <2>1, <2>2 DEF Joined
<1>3. QED
  BY <1>1, <1>2

(* A table that has rows has had its upstream tables done.                    *)
LEMMA UpstreamIsDone ==
    ASSUME VerdictInv, NEW t \in Tables, Joined(t), silver[t] # {}, NEW u \in Upstream(t)
    PROVE  phase[u] = "done"
BY DEF VerdictInv, Begun, Joined

LEMMA UpstreamIsOther ==
    ASSUME NEW t \in Tables
    PROVE  Upstream(t) \subseteq Tables /\ t \notin Upstream(t)
BY DEF Upstream, Tables, Independent

LEMMA WriteSilverJoins ==
    ASSUME VerdictInv, \A t \in Tables : Joined(t), NEW t \in Tables, WriteSilver(t)
    PROVE  \A u \in Tables : Joined(u)'
<1>1. PICK rows \in Deduped(t) : silver' = [silver EXCEPT ![t] = Good(t, rows)]
  BY DEF WriteSilver
<1>2. \A u \in Tables : silver'[u] = IF u = t THEN Good(t, rows) ELSE silver[u]
  BY <1>1 DEF VerdictInv, SilverInv
<1>3. phase[t] = "write_silver" /\ today' = today
  BY DEF WriteSilver
<1>4. \A u \in Tables : phase'[u] = IF u = t THEN IF anyBad[t] THEN "write_quarantine" ELSE "done"
                                              ELSE phase[u]
  BY DEF WriteSilver, VerdictInv, FunctionInv
<1>5. ASSUME NEW u \in Tables, u # t PROVE Joined(u)'
  <2>1. silver[u] # {} => \A v \in Upstream(u) : v # t /\ v \in Tables
    BY <1>3, UpstreamIsDone, UpstreamIsOther
  <2>2. silver[u] # {} => \A v \in Upstream(u) : silver'[v] = silver[v]
    BY <1>2, <2>1
  <2>3. silver'[u] = silver[u] /\ phase'[u] = phase[u]
    BY <1>2, <1>4, <1>5
  <2>4. silver[u] # {} => phase'[u] \in {"write_quarantine", "done"}
    BY <2>3 DEF Joined
  <2>5. QED
    BY <2>2, <2>3, <2>4, JoinedUndisturbed
<1>6. Joined(t)'
  <2>1. \A u \in Upstream(t) : silver'[u] = silver[u]
    BY <1>2, UpstreamIsOther
  <2>2. \A r : Transformed(t, r)' = Transformed(t, r)
    BY <2>1, TransformedUnchanged
  <2>3. \A j : FailedChecks(t, j)' = FailedChecks(t, j)
    BY <1>3, ChecksUnchanged
  <2>4. \A j \in Good(t, rows) : j \in Transformed(t, j.row) /\ FailedChecks(t, j) = {}
    BY GoodRow
  <2>5. silver'[t] = Good(t, rows) /\ phase'[t] \in {"write_quarantine", "done"}
    BY <1>2, <1>4
  <2>6. QED
    BY <2>2, <2>3, <2>4, <2>5 DEF Joined
<1>7. QED
  BY <1>5, <1>6

LEMMA JoinInvariant == Spec => []JoinInv
<1> DEFINE AllJoined == \A t \in Tables : Joined(t)
<1>1. Init => AllJoined
  BY DEF Init, Joined
<1>2. VerdictInv /\ AllJoined /\ [Next]_vars => AllJoined'
  <2> SUFFICES ASSUME VerdictInv, AllJoined, [Next]_vars PROVE AllJoined'
    OBVIOUS
  <2>1. ASSUME NEW t \in Tables, WriteSilver(t) PROVE AllJoined'
    BY <2>1, WriteSilverJoins
  <2>2. ASSUME silver' = silver,
               \A u \in Tables : phase[u] \in {"write_quarantine", "done"} =>
                                    phase'[u] \in {"write_quarantine", "done"}
        PROVE  AllJoined'
    <3>1. ASSUME NEW u \in Tables PROVE Joined(u)'
      <4>1. silver[u] # {} => phase'[u] \in {"write_quarantine", "done"}
        BY <2>2 DEF Joined
      <4>2. QED
        BY <2>2, <4>1, JoinedUndisturbed
    <3>2. QED
      BY <3>1
  <2> HIDE DEF AllJoined
  <2>3. ASSUME NEW t \in Tables, Count(t) PROVE AllJoined'
    BY <2>2, <2>3 DEF Count, VerdictInv, FunctionInv
  <2>4. ASSUME NEW t \in Tables, WriteQuarantine(t) PROVE AllJoined'
    BY <2>2, <2>4 DEF WriteQuarantine, VerdictInv, FunctionInv
  <2>5. CASE Midnight
    BY <2>2, <2>5 DEF Midnight, locals
  <2>6. CASE UNCHANGED vars
    BY <2>2, <2>6 DEF vars, locals
  <2>7. QED
    BY <2>1, <2>3, <2>4, <2>5, <2>6 DEF Next
<1>3. TypeOK /\ VerdictInv /\ AllJoined => JoinInv
  BY DEF JoinInv
<1>4. QED
  BY <1>1, <1>2, <1>3, SilverTypeCorrect, VerdictInvariant, PTL DEF Spec

LEMMA RateIsPositive ==
    ASSUME JoinInv, NEW r \in silver["exchange_rates"]
    PROVE  r.row.rate \in Nat \ {0}
<1>1. "exchange_rates" \in Tables /\ FailedChecks("exchange_rates", r) = {}
  BY DEF JoinInv, Joined, Tables, Independent
<1>2. Checks("exchange_rates", r) = ExchangeRateChecks(r)
  BY DEF Checks
<1>3. "rate_positive" \in DOMAIN ExchangeRateChecks(r)
  BY DEF ExchangeRateChecks
<1>4. ExchangeRateChecks(r)["rate_positive"] = TRUE
  BY <1>1, <1>2, <1>3 DEF FailedChecks
<1>5. Positive(r.row.rate) = TRUE
  BY <1>4 DEF ExchangeRateChecks
<1>6. r.row.rate \in Int \union {Null}
  BY <1>1, BronzeAssumption DEF JoinInv, TypeOK
<1>7. r.row.rate # Null
  BY <1>5, NullAssumption DEF Positive
<1>8. r.row.rate > 0
  BY <1>5, <1>7 DEF Positive
<1>9. QED
  BY <1>6, <1>7, <1>8

-----------------------------------------------------------------------------
(* What a row is rejected for. *)

LEMMA IndependentRows ==
    ASSUME JoinInv, NEW t \in Independent
    PROVE  silver[t] \subseteq [row : bronze[t]]
<1> SUFFICES ASSUME NEW j \in silver[t] PROVE j \in [row : bronze[t]]
  OBVIOUS
<1>1. t \in Tables /\ j.row \in bronze[t]
  BY DEF JoinInv, TypeOK, Tables
<1>2. j \in Transformed(t, j.row)
  BY <1>1 DEF JoinInv, Joined
<1>3. Transformed(t, j.row) = {[row |-> j.row]}
  <2>1. t \notin {"orders", "order_items"}
    BY DEF Independent
  <2>2. QED
    BY <2>1, Zenon DEF Transformed
<1>4. j = [row |-> j.row]
  BY <1>2, <1>3
<1>5. QED
  BY <1>1, <1>4

LEMMA NoSilverRowIsNull ==
    ASSUME JoinInv, NEW t \in Tables \ {"order_items"}
    PROVE  Null \notin silver[t]
<1>0. bronze \in Bronze
  BY DEF JoinInv, TypeOK
<1>1. CASE t \in Independent
  BY <1>0, <1>1, IndependentRows, NoRowIsNull
<1>2. CASE t = "orders"
  <2>1. \A u \in {"customers", "exchange_rates"} : silver[u] \subseteq [row : bronze[u]]
    BY IndependentRows DEF Independent
  <2>2. ASSUME NEW o \in silver["orders"]
        PROVE  o \in [row : bronze["orders"],
                      customer : {Null} \union [row : bronze["customers"]],
                      rate : {Null} \union [row : bronze["exchange_rates"]]]
    <3>1. o.row \in bronze["orders"] /\ o \in Transformed("orders", o.row)
      BY DEF JoinInv, TypeOK, Joined, Tables
    <3>2. o \in [row : {o.row}, customer : LeftJoin(KnownCustomer(o.row)),
                 rate : LeftJoin(RateOf(o.row))]
      BY <3>1 DEF Transformed, Independent
    <3>3. /\ LeftJoin(KnownCustomer(o.row)) \subseteq {Null} \union [row : bronze["customers"]]
          /\ LeftJoin(RateOf(o.row)) \subseteq {Null} \union [row : bronze["exchange_rates"]]
      BY <2>1 DEF LeftJoin, KnownCustomer, RateOf
    <3>4. QED
      BY <3>1, <3>2, <3>3
  <2>3. QED
    BY <1>0, <1>2, <2>2, NoRowIsNull
<1>3. QED
  BY <1>1, <1>2 DEF Tables

LEMMA LeftJoinIsNull ==
    ASSUME NEW matches, Null \notin matches, NEW x \in LeftJoin(matches)
    PROVE  x = Null <=> matches = {}
BY DEF LeftJoin

LEMMA RejectedOrder ==
    ASSUME JoinInv, NEW r \in bronze["orders"], NEW j \in Transformed("orders", r)
    PROVE  /\ "customer_id_exists" \in FailedChecks("orders", j) <=> KnownCustomer(r) = {}
           /\ "fx_conversion_resolved" \in FailedChecks("orders", j) <=>
                 r.currency_code # "USD" /\ RateOf(r) = {}
<1>1. j \in [row : {r}, customer : LeftJoin(KnownCustomer(r)), rate : LeftJoin(RateOf(r))]
  BY DEF Transformed, Independent
<1>2. /\ j.row = r
      /\ j.customer \in LeftJoin(KnownCustomer(r))
      /\ j.rate \in LeftJoin(RateOf(r))
  BY <1>1
<1>3. Null \notin KnownCustomer(r) /\ Null \notin RateOf(r)
  BY NoSilverRowIsNull DEF KnownCustomer, RateOf, Tables, Independent
<1>4. /\ j.customer = Null <=> KnownCustomer(r) = {}
      /\ j.rate = Null <=> RateOf(r) = {}
  BY <1>2, <1>3, LeftJoinIsNull
<1>5. Checks("orders", j) = OrderChecks(j)
  BY DEF Checks
<1>6. /\ "customer_id_exists" \in DOMAIN OrderChecks(j)
      /\ "fx_conversion_resolved" \in DOMAIN OrderChecks(j)
      /\ OrderChecks(j)["customer_id_exists"] = NotNull(j.customer)
      /\ OrderChecks(j)["fx_conversion_resolved"] = NotNull(OrderTotalUsd(j))
  BY DEF OrderChecks
<1>7. /\ "customer_id_exists" \in FailedChecks("orders", j) <=> j.customer = Null
      /\ "fx_conversion_resolved" \in FailedChecks("orders", j) <=> OrderTotalUsd(j) = Null
  BY <1>5, <1>6 DEF FailedChecks, NotNull
<1>8. OrderTotalUsd(j) = Null <=> FxRateToUsd(j) = Null
  <2>1. r.order_total \in Int
    BY BronzeAssumption DEF JoinInv, TypeOK
  <2>2. FxRateToUsd(j) # Null => FxRateToUsd(j) \in Nat \ {0}
    <3>1. j.rate # Null => j.rate \in silver["exchange_rates"]
      BY <1>2 DEF LeftJoin, RateOf
    <3>2. QED
      BY <3>1, RateIsPositive, RateAssumption DEF FxRateToUsd
  <2>3. ASSUME NEW q \in Nat \ {0} PROVE Usd(r.order_total, q) \in Int
    BY <2>1, NullAssumption, RateAssumption DEF Usd
  <2>4. QED
    BY <1>2, <2>2, <2>3, NullAssumption DEF OrderTotalUsd, Usd
<1>9. FxRateToUsd(j) = Null <=> r.currency_code # "USD" /\ j.rate = Null
  <2>1. j.rate # Null => j.rate.row.rate \in Nat \ {0}
    BY <1>2, RateIsPositive DEF LeftJoin, RateOf
  <2>2. QED
    BY <1>2, <2>1, RateAssumption, NullAssumption DEF FxRateToUsd
<1>10. QED
  BY <1>4, <1>7, <1>8, <1>9

LEMMA RejectedItem ==
    ASSUME JoinInv, NEW r, NEW j \in Transformed("order_items", r)
    PROVE  /\ "order_id_exists" \in FailedChecks("order_items", j) <=> KnownOrder(r) = {}
           /\ "product_id_exists" \in FailedChecks("order_items", j) <=> KnownProduct(r) = {}
<1>1. j \in [row : {r}, order : LeftJoin(KnownOrder(r)), product : LeftJoin(KnownProduct(r))]
  BY DEF Transformed, Independent
<1>2. Null \notin KnownOrder(r) /\ Null \notin KnownProduct(r)
  BY NoSilverRowIsNull DEF KnownOrder, KnownProduct, Tables, Independent
<1>3. /\ j.order = Null <=> KnownOrder(r) = {}
      /\ j.product = Null <=> KnownProduct(r) = {}
  BY <1>1, <1>2, LeftJoinIsNull
<1>4. Checks("order_items", j) = OrderItemChecks(j)
  BY DEF Checks
<1>5. /\ "order_id_exists" \in DOMAIN OrderItemChecks(j)
      /\ "product_id_exists" \in DOMAIN OrderItemChecks(j)
      /\ OrderItemChecks(j)["order_id_exists"] = NotNull(j.order)
      /\ OrderItemChecks(j)["product_id_exists"] = NotNull(j.product)
  BY DEF OrderItemChecks
<1>6. QED
  BY <1>3, <1>4, <1>5 DEF FailedChecks, NotNull

LEMMA WriteQuarantineHasCause ==
    ASSUME JoinInv, QuarantinedForCause, NEW t \in Tables, WriteQuarantine(t)
    PROVE  QuarantinedForCause'
<1>1. PICK rows \in Deduped(t) : quarantine' = [quarantine EXCEPT ![t] = Quarantined(t, rows)]
  BY DEF WriteQuarantine
<1>2. \A u \in Tables : quarantine'[u] = IF u = t THEN Quarantined(t, rows) ELSE quarantine[u]
  BY <1>1 DEF JoinInv, TypeOK
<1>3. \A r : /\ KnownCustomer(r)' = KnownCustomer(r) /\ RateOf(r)' = RateOf(r)
             /\ KnownOrder(r)' = KnownOrder(r) /\ KnownProduct(r)' = KnownProduct(r)
  BY DEF WriteQuarantine, KnownCustomer, RateOf, KnownOrder, KnownProduct
<1>4. ASSUME NEW q \in Quarantined(t, rows)
      PROVE  \E j \in Transformed(t, q.row) :
                q.row \in bronze[t] /\ q._dq_failed_checks = FailedChecks(t, j)
  <2>1. PICK j \in Evaluated(t, rows) :
            q = [row |-> j.row, _dq_failed_checks |-> FailedChecks(t, j)]
    BY DEF Quarantined
  <2>2. PICK r \in rows : j \in Transformed(t, r)
    BY DEF Evaluated
  <2>3. j.row = r /\ r \in bronze[t]
    BY <2>2, TransformedRow, DedupedRows
  <2>4. q.row = j.row /\ q._dq_failed_checks = FailedChecks(t, j)
    BY <2>1
  <2>5. j \in Transformed(t, q.row) /\ q.row \in bronze[t]
    BY <2>2, <2>3, <2>4
  <2>6. QED
    BY <2>4, <2>5
<1>5. ASSUME NEW q \in quarantine'["orders"]
      PROVE  /\ "customer_id_exists" \in q._dq_failed_checks <=> KnownCustomer(q.row) = {}
             /\ "fx_conversion_resolved" \in q._dq_failed_checks <=>
                   q.row.currency_code # "USD" /\ RateOf(q.row) = {}
  <2>1. CASE t = "orders"
    <3>1. q \in Quarantined("orders", rows)
      BY <1>2, <2>1
    <3>2. PICK j \in Transformed("orders", q.row) :
              q.row \in bronze["orders"] /\ q._dq_failed_checks = FailedChecks("orders", j)
      BY <1>4, <2>1, <3>1
    <3>3. QED
      BY <3>2, RejectedOrder
  <2>2. CASE t # "orders"
    BY <1>2, <2>2 DEF QuarantinedForCause, Tables
  <2>3. QED
    BY <2>1, <2>2
<1>6. ASSUME NEW q \in quarantine'["order_items"]
      PROVE  /\ "order_id_exists" \in q._dq_failed_checks <=> KnownOrder(q.row) = {}
             /\ "product_id_exists" \in q._dq_failed_checks <=> KnownProduct(q.row) = {}
  <2>1. CASE t = "order_items"
    <3>1. q \in Quarantined("order_items", rows)
      BY <1>2, <2>1
    <3>2. PICK j \in Transformed("order_items", q.row) :
              q._dq_failed_checks = FailedChecks("order_items", j)
      BY <1>4, <2>1, <3>1
    <3>3. QED
      BY <3>2, RejectedItem
  <2>2. CASE t # "order_items"
    BY <1>2, <2>2 DEF QuarantinedForCause, Tables
  <2>3. QED
    BY <2>1, <2>2
<1>7. QED
  BY <1>3, <1>5, <1>6 DEF QuarantinedForCause

(* A table that has quarantined rows is done, and so is all it was joined to. *)
LEMMA QuarantineIsLast ==
    ASSUME VerdictInv, NEW t \in Tables, quarantine[t] # {}
    PROVE  phase[t] = "done" /\ \A u \in Upstream(t) : phase[u] = "done"
BY DEF VerdictInv, NotYet, Begun

LEMMA CauseStays ==
    ASSUME QuarantinedForCause, UNCHANGED quarantine,
           \A t \in {"orders", "order_items"} : quarantine[t] # {} =>
                \A u \in Upstream(t) : silver'[u] = silver[u]
    PROVE  QuarantinedForCause'
<1>1. \A q \in quarantine["orders"] :
          KnownCustomer(q.row)' = KnownCustomer(q.row) /\ RateOf(q.row)' = RateOf(q.row)
  <2>1. Upstream("orders") = {"customers", "exchange_rates"}
    BY DEF Upstream, Independent
  <2>2. quarantine["orders"] # {} => /\ silver'["customers"] = silver["customers"]
                                     /\ silver'["exchange_rates"] = silver["exchange_rates"]
    BY <2>1
  <2>3. QED
    BY <2>2 DEF KnownCustomer, RateOf
<1>2. \A q \in quarantine["order_items"] :
          KnownOrder(q.row)' = KnownOrder(q.row) /\ KnownProduct(q.row)' = KnownProduct(q.row)
  <2>1. Upstream("order_items") = {"orders", "products"}
    BY DEF Upstream, Independent
  <2>2. quarantine["order_items"] # {} => /\ silver'["orders"] = silver["orders"]
                                          /\ silver'["products"] = silver["products"]
    BY <2>1
  <2>3. QED
    BY <2>2 DEF KnownOrder, KnownProduct
<1>3. QED
  BY <1>1, <1>2 DEF QuarantinedForCause

(* A row is quarantined for a reference if and only if Silver lacks what it   *)
(* refers to, whichever job wrote that and whenever.                          *)
THEOREM RejectionsHaveCauses == Spec => []QuarantinedForCause
<1>1. Init => QuarantinedForCause
  BY DEF Init, QuarantinedForCause, Tables
<1>2. JoinInv /\ QuarantinedForCause /\ [Next]_vars => QuarantinedForCause'
  <2> SUFFICES ASSUME JoinInv, QuarantinedForCause, [Next]_vars PROVE QuarantinedForCause'
    OBVIOUS
  <2>1. ASSUME NEW t \in Tables, WriteQuarantine(t) PROVE QuarantinedForCause'
    BY <2>1, WriteQuarantineHasCause
  <2>2. ASSUME NEW t \in Tables, WriteSilver(t) PROVE QuarantinedForCause'
    <3>1. \A u \in Tables : u # t => silver'[u] = silver[u]
      BY <2>2 DEF WriteSilver, JoinInv, TypeOK
    <3>2. phase[t] = "write_silver" /\ UNCHANGED quarantine
      BY <2>2 DEF WriteSilver
    <3>3. ASSUME NEW u \in {"orders", "order_items"}, quarantine[u] # {}, NEW v \in Upstream(u)
          PROVE  silver'[v] = silver[v]
      BY <3>1, <3>2, <3>3, QuarantineIsLast, UpstreamIsOther DEF JoinInv, Tables
    <3>4. QED
      BY <3>2, <3>3, CauseStays
  <2>3. CASE UNCHANGED <<silver, quarantine>>
    BY <2>3, CauseStays
  <2>4. QED
    BY <2>1, <2>2, <2>3 DEF Next, Count, Midnight, vars
<1>3. QED
  BY <1>1, <1>2, JoinInvariant, PTL DEF Spec
=============================================================================
