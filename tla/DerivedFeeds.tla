---------------------------- MODULE DerivedFeeds ----------------------------
(***************************************************************************)
(* Prices computed from other prices: inverse, ratio and cross rates       *)
(* (derived_feeds.rs) and weighted baskets (basket.rs).  A feed is computed *)
(* when it is read and stores nothing; what changes under it are the       *)
(* aggregates, the pinned bases, the compositions and the clock.  The      *)
(* assets of the model are registered ones.                                *)
(***************************************************************************)
EXTENDS Integers, Sequences, SequencesExt, FiniteSets, FiniteSetsExt

CONSTANTS
    FeedAssets,      \* registered assets
    BasketKeys,      \* addresses a basket may be stored under
    FeedPrices,      \* prices of aggregates
    BasePrices,      \* pinned base prices, zero included
    BaseStamps,      \* their timestamps
    Scale,           \* 10^decimals
    WeightScale,     \* BASKET_WEIGHT_SCALE
    Compositions,    \* sequences of [asset, weight] an admin may send
    MaxConstituents, \* MAX_BASKET_CONSTITUENTS
    AgeLimits,       \* values set_basket_max_staleness is called with
    DefaultAgeLimit, \* DEFAULT_BASKET_MAX_STALENESS
    Threshold,       \* timestamp threshold of a pinned base
    MaxFeedTime      \* bound: the last ledger time

VARIABLES
    ftime,      \* ledger time
    quoted,     \* Aggregate: asset -> [price, at], or Absent
    base,       \* DerivedFeedBase: asset -> [price, at], or Absent
    baskets,    \* Basket: key -> [parts, policy]
    age_limit   \* BasketMaxStaleness

dvars == <<ftime, quoted, base, baskets, age_limit>>

Absent == [price |-> -1, at |-> 0]

(***************************************************************************)
(* Derived feeds                                                           *)
(***************************************************************************)
mul_div(a, b, c) == (a * b) \div c

invert(p) == mul_div(Scale, Scale, p)
ratio(pb, pq) == mul_div(pb, Scale, pq)

\* Truncated at each step.
triangulateUp(pb, pp, pq) == mul_div(mul_div(pb, Scale, pp) + 1, pp, pq)
triangulate(pb, pp, pq) == mul_div(mul_div(pb, Scale, pp), pp, pq)

\* A pinned base is preferred to the aggregate, however old it is.
resolve_base(a) == IF base[a] # Absent THEN base[a] ELSE quoted[a]
Resolves(a) == resolve_base(a) # Absent

Age(at) == IF ftime > at THEN ftime - at ELSE 0
Stalest(as) == Max({Age(resolve_base(a).at) : a \in as})

\* The feeds that compute: distinct assets with a price, and no zero divisor.
RatioComputes(b, q) ==
    b # q /\ Resolves(b) /\ Resolves(q) /\ resolve_base(q).price > 0
CrossComputes(b, p, q) ==
    /\ Cardinality({b, p, q}) = 3
    /\ \A a \in {b, p, q} : Resolves(a)
    /\ resolve_base(p).price > 0 /\ resolve_base(q).price > 0

get_inverse_feed(a) ==
    [price |-> invert(resolve_base(a).price), staleness |-> Stalest({a})]
get_ratio_feed(b, q) ==
    [price |-> ratio(resolve_base(b).price, resolve_base(q).price), staleness |-> Stalest({b, q})]
get_triangulated_feed(b, p, q) ==
    [price |-> triangulate(resolve_base(b).price, resolve_base(p).price, resolve_base(q).price),
     staleness |-> Stalest({b, p, q})]

set_derived_feed_base(a, price, at) ==
    /\ price >= 0
    /\ at <= ftime + Threshold
    /\ base' = [base EXCEPT ![a] = [price |-> price, at |-> at]]
    /\ UNCHANGED <<ftime, quoted, baskets, age_limit>>

(***************************************************************************)
(* Baskets                                                                 *)
(***************************************************************************)
Total(ws) == FoldLeft(+, 0, ws)
Weights(parts) == [i \in DOMAIN parts |-> parts[i].weight]

ValidWeights(ws) == (\A i \in DOMAIN ws : ws[i] # 0) /\ Total(ws) = WeightScale

validate_constituents(key, parts) ==
    /\ parts # <<>> /\ Len(parts) <= MaxConstituents
    /\ ValidWeights(Weights(parts))
    /\ \A i \in DOMAIN parts :
         /\ parts[i].asset # key
         /\ parts[i].asset \notin DOMAIN baskets
         /\ \A j \in 1..(i - 1) : parts[j].asset # parts[i].asset

set_basket(key, parts, policy) ==
    /\ validate_constituents(key, parts)
    /\ baskets' = [k \in DOMAIN baskets \cup {key} |->
                     IF k = key THEN [parts |-> parts, policy |-> policy] ELSE baskets[k]]
    /\ UNCHANGED <<ftime, quoted, base, age_limit>>

rebalance_basket(key, ws) ==
    /\ key \in DOMAIN baskets
    /\ Len(ws) = Len(baskets[key].parts)
    /\ ValidWeights(ws)
    /\ baskets' = [baskets EXCEPT ![key].parts =
                     [i \in DOMAIN @ |-> [@[i] EXCEPT !.weight = ws[i]]]]
    /\ UNCHANGED <<ftime, quoted, base, age_limit>>

set_basket_max_staleness(secs) ==
    /\ secs # 0
    /\ age_limit' = secs
    /\ UNCHANGED <<ftime, quoted, base, baskets>>

Usable(a) == quoted[a] # Absent /\ Age(quoted[a].at) <= age_limit

Weighted(c) == IF Usable(c.asset) THEN quoted[c.asset].price * c.weight ELSE 0

get_basket_contribution(c) == Weighted(c) \div WeightScale

\* The sum is divided once, so it keeps what the parts round away.
get_basket_valueRounded(key) ==
    LET parts == baskets[key].parts
        live == {i \in DOMAIN parts : Usable(parts[i].asset)} IN
    [value |-> Total([i \in DOMAIN parts |-> (Weighted(parts[i]) + WeightScale - 1) \div WeightScale]),
     live |-> Cardinality(live), degraded |-> live # DOMAIN parts,
     staleness |-> Max({0} \cup {Age(quoted[parts[i].asset].at) : i \in live})]
get_basket_value(key) ==
    LET parts == baskets[key].parts
        live == {i \in DOMAIN parts : Usable(parts[i].asset)} IN
    [value |-> Total([i \in DOMAIN parts |-> Weighted(parts[i])]) \div WeightScale,
     live |-> Cardinality(live), degraded |-> live # DOMAIN parts,
     staleness |-> Max({0} \cup {Age(quoted[parts[i].asset].at) : i \in live})]

\* Under Reject a basket with an unusable part has no value.
Readable(key) == baskets[key].policy = "Degrade" \/ ~get_basket_value(key).degraded

(***************************************************************************)
(* The specification                                                       *)
(***************************************************************************)
\* An aggregate published by the submission path (PriceOracle).
Publish(a, price) ==
    /\ quoted' = [quoted EXCEPT ![a] = [price |-> price, at |-> ftime]]
    /\ UNCHANGED <<ftime, base, baskets, age_limit>>

Elapse ==
    /\ ftime < MaxFeedTime
    /\ ftime' = ftime + 1
    /\ UNCHANGED <<quoted, base, baskets, age_limit>>

Init ==
    /\ ftime = 0
    /\ quoted = [a \in FeedAssets |-> Absent]
    /\ base = [a \in FeedAssets |-> Absent]
    /\ baskets = <<>>
    /\ age_limit = DefaultAgeLimit

FeedCalls == \E a \in FeedAssets, p \in BasePrices, at \in BaseStamps : set_derived_feed_base(a, p, at)

BasketCalls ==
    \/ \E key \in BasketKeys, parts \in Compositions, policy \in {"Reject", "Degrade"} :
         set_basket(key, parts, policy)
    \/ \E key \in BasketKeys : \E ws \in {Weights(parts) : parts \in Compositions} :
         rebalance_basket(key, ws)
    \/ \E secs \in AgeLimits : set_basket_max_staleness(secs)

Next == (\E a \in FeedAssets, p \in FeedPrices : Publish(a, p)) \/ FeedCalls \/ BasketCalls \/ Elapse

Spec == Init /\ [][Next]_dvars

(***************************************************************************)
(* Properties                                                              *)
(***************************************************************************)
\* Truncation only ever lowers a derived price (derived_feeds.rs:45): two
\* opposite ratios never multiply to more than one, and a cross rate is at
\* most the direct ratio and short of it by no more than one unit of the
\* pivot in the quote and one of rounding.  The age reported is that of the
\* oldest leg, so a fresh leg never hides a stale one.
CrossRatesNeverHigh ==
    /\ \A b, q \in FeedAssets :
         RatioComputes(b, q) /\ RatioComputes(q, b) =>
             get_ratio_feed(b, q).price * get_ratio_feed(q, b).price <= Scale * Scale
    /\ \A b, p, q \in FeedAssets : CrossComputes(b, p, q) =>
         LET cross == get_triangulated_feed(b, p, q)
             direct == get_ratio_feed(b, q)
             unit == resolve_base(p).price \div resolve_base(q).price + 1
         IN /\ cross.price <= direct.price /\ direct.price <= cross.price + unit
            /\ \A a \in {b, p, q} : cross.staleness >= Age(resolve_base(a).at)

\* A basket that can be read is worth its parts and the units they round
\* away, never a unit per part (basket.rs:360, 385), and under Degrade it is
\* worth no more than the same basket complete: whatever set_basket and
\* rebalance_basket did, the value lies between the least and the greatest
\* price of the parts when all are live.
BasketIsItsParts ==
    \A key \in {k \in DOMAIN baskets : Readable(k)} :
        LET v == get_basket_value(key)
            parts == baskets[key].parts
            sum == Total([i \in DOMAIN parts |-> get_basket_contribution(parts[i])])
            prices == {quoted[parts[i].asset].price : i \in DOMAIN parts}
        IN /\ sum <= v.value /\ v.value < sum + Max({1, v.live})
           /\ v.value <= Max(prices \cup {0})
           /\ ~v.degraded => v.value >= Min(prices) /\ v.staleness <= age_limit

\* No basket contains a basket (basket.rs:59).  The code refuses a part that is
\* a basket and not a basket that is a part.
NoNestedBasket ==
    \A k \in DOMAIN baskets : \A i \in DOMAIN baskets[k].parts :
        baskets[k].parts[i].asset \notin DOMAIN baskets

=============================================================================
