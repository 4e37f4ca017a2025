------------------------- MODULE AggregationPolicy -------------------------
(***************************************************************************)
(* How one asset's submissions become a price: the layered policy           *)
(* (policy.rs, risk_tier.rs), the freshness windows (freshness_quorum.rs), *)
(* the outlier and deviation filters, the freshness weights under their    *)
(* influence cap, and the aggregation methods with the fault-tolerant one  *)
(* (prices.rs, storage.rs).                                                *)
(*                                                                         *)
(* The reporters are registered sources none of which is excluded, flagged *)
(* or on probation, the asset stays registered, and no publication gate is *)
(* set (PublicationGates has those).  A feature flag that is off reads the *)
(* same defaults as an absent entry, so the flags are left out.  Prices    *)
(* are positive and far from the limits of i128.                           *)
(***************************************************************************)
EXTENDS Integers, FiniteSets, FiniteSetsExt, PriceMath

CONSTANTS
    Reporters,    \* the registered sources
    Suspect,      \* the reporter that may be wrong
    Offers,       \* the prices each reporter may submit
    Volume,       \* the volume each reporter submits
    Methods,      \* the methods the admin may set for all assets
    MinQuorums,   \* the quorums the admin may set for all assets
    Overrides,    \* the PolicyOverride values of an asset or its class
    RiskTiers,    \* the tiers the admin may assign
    FreshWindows, \* the freshness windows the admin may set
    OutlierConfigs, FreshnessCurves, InfluenceCaps, Tolerances,
    Period,       \* the time between two instants, in seconds
    LastInstant,  \* bound on time
    MaxSettings,  \* bound on the configuration calls
    None          \* an absent entry

VARIABLES
    instant,      \* env.ledger().timestamp()
    submitted,    \* Submission, by reporter
    setting,      \* the configuration entries read by a round
    calls,        \* the configuration calls made
    result,       \* Aggregate
    exclusions,   \* OutlierExclusions
    freshness     \* AssetFreshnessStatus

pvars == <<instant, submitted, setting, calls, result, exclusions, freshness>>

BPS == 10000
Nothing == [f \in {} |-> 0]

Init ==
    /\ instant = 0 /\ calls = 0
    /\ submitted = Nothing
    /\ setting = [method |-> 0, min_sources |-> 2, class |-> Nothing, in_class |-> FALSE,
                  asset |-> Nothing, tier |-> None, enforced |-> FALSE,
                  asset_window |-> 0, default_window |-> 0, noted |-> FALSE,
                  outlier |-> None, curve |-> [window_secs |-> 300, min_weight |-> 100],
                  cap |-> 5000, tolerance |-> 0, bft_method |-> 0]
    /\ result = None /\ exclusions = {} /\ freshness = None

-----------------------------------------------------------------------------
(* The policy in force.                                                    *)

\* The fields an override supplies, the rest from the layer below.
Over(p, base) == [f \in DOMAIN base |-> IF f \in DOMAIN p THEN p[f] ELSE base[f]]

effective_policy ==
    Over(setting.asset,
         Over(IF setting.in_class THEN setting.class ELSE Nothing,
              [method |-> setting.method, min_sources |-> setting.min_sources,
               freshness_secs |-> 0, max_deviation_bps |-> 0]))

TierParams(m, q, f, d) ==
    [method |-> m, min_sources |-> q, freshness_secs |-> f, max_deviation_bps |-> d]

TIER_PARAMS == <<TierParams(0, 5, 60, 100), TierParams(0, 3, 300, 300),
                 TierParams(2, 2, 1800, 1000), TierParams(2, 2, 900, 3000)>>

\* A tier replaces the class and the global layer, never the asset's own.
apply_to_policy ==
    IF setting.tier = None THEN effective_policy
                           ELSE Over(setting.asset, TIER_PARAMS[setting.tier])

window_for ==
    CASE setting.asset_window > 0 -> setting.asset_window
      [] setting.asset_window = 0 /\ setting.tier # None -> TIER_PARAMS[setting.tier].freshness_secs
      [] OTHER -> setting.default_window

-----------------------------------------------------------------------------
(* The arithmetic of a round over f, the prices by contributor.            *)

Count(f) == Cardinality(DOMAIN f)
Abs(x) == IF x < 0 THEN -x ELSE x
Least(x, y) == IF x < y THEN x ELSE y
Total(f, S) == MapThenSumSet(LAMBDA i : f[i], S)
Only(f, S) == [i \in S |-> f[i]]

\* The sorted vector, indexed from zero.
Sorted(f) == [k \in 0..Count(f) - 1 |-> select_kth(f, k)]

\* The contributors left after the k lowest and the k highest of a sorted vector.
Trimmed(sorted, k) ==
    Only(sorted, {i \in DOMAIN sorted :
        /\ Cardinality({j \in DOMAIN sorted : j < i}) >= k
        /\ Cardinality({j \in DOMAIN sorted : j > i}) >= k})

compute_mean(f) == Total(f, DOMAIN f) \div Count(f)

\* Ten percent, half of it on each side.
compute_trimmed_mean(f) == compute_mean(Trimmed(Sorted(f), ((Count(f) * 10) \div 100) \div 2))

compute_vwap(f, volumes) ==
    LET traded == {i \in DOMAIN f : volumes[i] > 0}
    IN  IF traded = {} THEN compute_mean(f)
        ELSE Total([i \in traded |-> f[i] * volumes[i]], traded) \div Total(volumes, traded)

ByMethod(method, f) ==
    CASE method = 1 -> compute_mean(f)
      [] method = 2 -> compute_trimmed_mean(f)
      [] OTHER -> compute_median(f)

\* The values inside the fence, or all of them when there are fewer than four.
Fenced(sorted) ==
    LET n == Count(sorted)
        q1 == sorted[n \div 4]
        q3 == sorted[((n * 3) \div 4) - 1]
        margin == ((q3 - q1) * 3) \div 2
    IN  IF n < 4 THEN sorted
        ELSE Only(sorted, {i \in DOMAIN sorted : sorted[i] >= q1 - margin /\ sorted[i] <= q3 + margin})

aggregate_bft_pricesUntrimmed(f) ==   \* slip: the fence is trusted alone
    ByMethod(setting.bft_method, Fenced(Sorted(f)))

aggregate_bft_prices(f) ==
    LET fenced == Fenced(Sorted(f))
        trim == Least(setting.tolerance, Count(fenced) \div 2)
    IN  ByMethod(setting.bft_method,
                 IF Count(fenced) > trim * 2 THEN Trimmed(fenced, trim) ELSE fenced)

\* The method is the one of the policy without the tier.
aggregate_prices(f) ==
    CASE setting.tolerance > 0 -> aggregate_bft_prices(f)
      [] setting.tolerance = 0 /\ effective_policy.method = 3 -> compute_vwap(f, Volume)
      [] OTHER -> ByMethod(effective_policy.method, f)

-----------------------------------------------------------------------------
(* The weighted median.                                                    *)

W_MAX == 1000
MIN_CAP_BPS == 1000
MAX_WINDOW_SECS == 86400
MAX_FRESHNESS_WINDOW_SECS == 604800
MAX_SENSITIVITY_BPS == 1000000

\* entry_weight: the age of an entry is ledger time since it was stored.
Age(entry) == (instant - entry.at) * Period

weight_for_age(age) ==
    LET curve == setting.curve
    IN  W_MAX - (((W_MAX - curve.min_weight) * Least(age, curve.window_secs)) \div curve.window_secs)

within_cap(w, cap) ==
    LET total == Total(w, DOMAIN w) IN \A i \in DOMAIN w : w[i] * BPS <= cap * total

\* One pass lowers every weight that is above the cap of the others' total.
CapPass(w, cap) ==
    LET total == Total(w, DOMAIN w)
        max(i) == ((total - w[i]) * cap) \div (BPS - cap)
    IN  [i \in DOMAIN w |-> IF w[i] > max(i) THEN Max({max(i), 1}) ELSE w[i]]

Equal(w) == [i \in DOMAIN w |-> 1]

\* A pass that changes nothing ends the loop there: the ones left would not
\* change anything either.
apply_cap(w, cap) ==
    LET n == Count(w)
        pass == [x \in [DOMAIN w -> 1..W_MAX] |-> CapPass(x, cap)]
        lower[k \in 0..n * 4] == IF k = 0 THEN w ELSE pass[lower[k - 1]]
        lowered == lower[n * 4]
    IN  CASE n < 3 \/ cap >= BPS -> w
          [] n >= 3 /\ n * cap < BPS -> Equal(w)
          [] OTHER -> IF within_cap(lowered, cap) THEN lowered ELSE Equal(w)

Capped(held) == apply_cap([r \in DOMAIN held |-> weight_for_age(Age(held[r]))], setting.cap)

\* The first price at which the running weight reaches half of the total,
\* halfway to the next one when it is exactly half.
weighted_median(f, w) ==
    LET upto(v) == 2 * Total(w, AtMost(f, v))
        total == Total(w, DOMAIN f)
        values == {f[i] : i \in DOMAIN f}
        mid == Min({v \in values : upto(v) >= total})
        above == {v \in values : v > mid}
    IN  IF upto(mid) = total /\ above # {} THEN mid + ((Min(above) - mid) \div 2) ELSE mid

-----------------------------------------------------------------------------
(* The filters.                                                            *)

deviation_mask(f, bps) ==
    LET median == compute_median(f)
    IN  {i \in DOMAIN f : Abs(f[i] - median) * BPS <= median * bps}

\* The scale of the detector is zero when more than half of the values agree:
\* the distance from the centre is then taken relative to the centre.
Flagged(score, scale, f, center, sensitivity) ==
    {i \in DOMAIN f :
        IF scale > 0 THEN score[i] >= sensitivity
        ELSE (Abs(f[i] - center) * BPS) \div center >= sensitivity}

mad_score(f, sensitivity) ==
    LET median == compute_median(f)
        mad == compute_median([i \in DOMAIN f |-> Abs(f[i] - median)])
        scaled == (mad * 14826) \div BPS
        score == [i \in DOMAIN f |-> IF scaled = 0 THEN 0 ELSE (Abs(f[i] - median) * BPS) \div scaled]
    IN  Flagged(score, scaled, f, median, sensitivity)

iqr_score(f, sensitivity) ==
    LET n == Count(f)
        q1 == Sorted(f)[(n - 1) \div 4]
        q3 == Sorted(f)[((3 * (n - 1)) + 3) \div 4]
        iqr == q3 - q1
        fence == (iqr * sensitivity) \div BPS
        past == [i \in DOMAIN f |-> Max({0, f[i] - (q3 + fence), (q1 - fence) - f[i]})]
        score == [i \in DOMAIN f |-> IF iqr = 0 THEN 0 ELSE (past[i] * BPS) \div iqr]
    IN  Flagged(score, iqr, f, q1 + (iqr \div 2), sensitivity)

\* The filter stands down when it would drop more than half of the round.
filter_round(f) ==
    LET c == setting.outlier
    IN  IF c = None THEN {}
        ELSE IF c.detector = "none" \/ Count(f) < c.min_sources THEN {}
        ELSE LET flagged == IF c.detector = "iqr" THEN iqr_score(f, c.sensitivity_bps)
                                                  ELSE mad_score(f, c.sensitivity_bps)
             IN  IF Cardinality(flagged) > Count(f) \div 2 THEN {} ELSE flagged

-----------------------------------------------------------------------------
(* A round.                                                                *)

InPolicyWindow(held) ==
    LET secs == apply_to_policy.freshness_secs
    IN  {r \in DOMAIN held : secs = 0 \/ Age(held[r]) <= secs}

is_fresh(entry) == window_for = 0 \/ Age(entry) <= window_for

Fresh(held) == {r \in InPolicyWindow(held) : is_fresh(held[r])}

\* What the filters leave of the prices f: both look at the unfiltered prices.
Kept(f) ==
    LET bps == apply_to_policy.max_deviation_bps
    IN  (DOMAIN f \ filter_round(f))
            \cap (IF bps = 0 \/ f = Nothing THEN DOMAIN f ELSE deviation_mask(f, bps))

PricesOf(held, S) == [r \in S |-> held[r].price]

Price(held) ==
    LET f == PricesOf(held, DOMAIN held)
    IN  IF apply_to_policy.method = 4 /\ setting.tolerance = 0
        THEN weighted_median(f, Capped(held))
        ELSE aggregate_prices(f)

\* The round over the submissions held: quorum is counted on what is left.
Round(held) ==
    LET f == PricesOf(held, Fresh(held))
        kept == Only(held, Kept(f))
        quorate == Count(kept) >= apply_to_policy.min_sources /\ kept # Nothing
    IN  [published |-> quorate, price |-> IF quorate THEN Price(kept) ELSE 0,
         contributors |-> DOMAIN kept, excluded |-> filter_round(f)]

\* The policy's own window drops a submission before the stale ones are counted.
record_round(held) ==
    LET fresh == Cardinality(Fresh(held))
        stale == Cardinality(InPolicyWindow(held)) - fresh
    IN  CASE fresh = 0 /\ stale = 0 -> "Absent"
          [] fresh + stale > 0 /\ fresh >= apply_to_policy.min_sources -> "Fresh"
          [] OTHER -> "Stale"

\* With enforcement on, an asset without a tier is not aggregated at all.
Unaggregated == setting.enforced /\ setting.tier = None

aggregate_asset(held) ==
    IF Unaggregated THEN UNCHANGED <<result, exclusions, freshness>>
    ELSE \E round \in {Round(held)} :
            /\ freshness' = IF setting.noted THEN record_round(held) ELSE freshness
            /\ exclusions' = round.excluded
            /\ result' = IF round.published
                         THEN [price |-> round.price,
                               num_sources |-> Cardinality(round.contributors)]
                         ELSE result

recompute_asset ==
    /\ aggregate_asset(submitted)
    /\ UNCHANGED <<instant, submitted, setting, calls>>

\* The early test counts every stored submission and ignores the tier.
maybe_aggregate(held) == Count(held) >= effective_policy.min_sources

submit(r, p) ==
    \E held \in {[s \in DOMAIN submitted \cup {r} |->
                     IF s = r THEN [price |-> p, at |-> instant] ELSE submitted[s]]} :
        /\ submitted' = held
        /\ IF maybe_aggregate(held) THEN aggregate_asset(held)
           ELSE UNCHANGED <<result, exclusions, freshness>>
        /\ UNCHANGED <<instant, setting, calls>>

\* prices.rs simulate_aggregation over the stored prices: global settings only.
simulate_aggregation ==
    IF Cardinality(DOMAIN submitted) < setting.min_sources THEN None
    ELSE ByMethod(setting.method, PricesOf(submitted, DOMAIN submitted))

get_weighted_aggregate ==
    IF submitted = Nothing THEN None
    ELSE weighted_median(PricesOf(submitted, DOMAIN submitted), Capped(submitted))

-----------------------------------------------------------------------------
(* The configuration.                                                      *)

Set(s) ==
    /\ calls < MaxSettings
    /\ setting' = s /\ calls' = calls + 1
    /\ UNCHANGED <<instant, submitted, result, exclusions, freshness>>

\* policy.rs validate.
Valid(p) ==
    /\ "method" \in DOMAIN p => p.method <= 4
    /\ "min_sources" \in DOMAIN p => p.min_sources \in 1..100000
    /\ "freshness_secs" \in DOMAIN p => p.freshness_secs \in 1..604800
    /\ "max_deviation_bps" \in DOMAIN p => p.max_deviation_bps \in 1..BPS

set_aggregation_method(m) == m <= 4 /\ Set([setting EXCEPT !.method = m])
set_min_sources_required(q) == q \in 1..Cardinality(Reporters) /\ Set([setting EXCEPT !.min_sources = q])
set_asset_policy(p) == Valid(p) /\ Set([setting EXCEPT !.asset = p])
set_class_policy(p) == Valid(p) /\ Set([setting EXCEPT !.class = p])
set_asset_class(in) == Set([setting EXCEPT !.in_class = in])
set_tier(t) == Set([setting EXCEPT !.tier = t, !.noted = @ \/ t # None])
set_enforcement(on) == (on => setting.tier # None) /\ Set([setting EXCEPT !.enforced = on])
set_asset_window(s) ==
    /\ s <= MAX_FRESHNESS_WINDOW_SECS
    /\ Set([setting EXCEPT !.asset_window = s, !.noted = TRUE])
set_default_window(s) ==
    /\ s <= MAX_FRESHNESS_WINDOW_SECS
    /\ Set([setting EXCEPT !.default_window = s, !.noted = TRUE])
set_curve(c) ==
    /\ c.window_secs \in 1..MAX_WINDOW_SECS /\ c.min_weight \in 1..W_MAX
    /\ Set([setting EXCEPT !.curve = c])
set_cap_bps(cap) == cap \in MIN_CAP_BPS..BPS /\ Set([setting EXCEPT !.cap = cap])
set_bft_parameters(f, m) == m <= 2 /\ Set([setting EXCEPT !.tolerance = f, !.bft_method = m])
set_config(c) ==
    /\ c # None => c.sensitivity_bps <= MAX_SENSITIVITY_BPS /\ c.min_sources \in 4..64
    /\ Set([setting EXCEPT !.outlier = c])

PolicyCalls ==
    \/ \E m \in Methods : set_aggregation_method(m)
    \/ \E q \in MinQuorums : set_min_sources_required(q)
    \/ \E p \in Overrides : set_asset_policy(p) \/ set_class_policy(p)
    \/ \E in \in BOOLEAN : set_asset_class(in) \/ set_enforcement(in)
    \/ \E t \in RiskTiers \cup {None} : set_tier(t)

FilterCalls ==
    \/ \E s \in FreshWindows : set_asset_window(s) \/ set_default_window(s)
    \/ \E c \in FreshnessCurves : set_curve(c)
    \/ \E cap \in InfluenceCaps : set_cap_bps(cap)
    \/ \E f \in Tolerances, m \in 0..2 : set_bft_parameters(f, m)
    \/ \E c \in OutlierConfigs : set_config(c)

Pass ==
    /\ instant < LastInstant
    /\ instant' = instant + 1
    /\ UNCHANGED <<submitted, setting, calls, result, exclusions, freshness>>

Next ==
    \/ \E r \in Reporters : \E p \in Offers[r] : submit(r, p)
    \/ recompute_asset \/ PolicyCalls \/ FilterCalls \/ Pass

Spec == Init /\ [][Next]_pvars

-----------------------------------------------------------------------------

\* Methods under which a round of n >= 3 contributors bounds every single
\* source: the median, the weighted median under a cap below one half, and the
\* fault-tolerant ones.  Of these a mean does when it is set to tolerate less
\* than a third of four contributors or more: the trimming is skipped when it
\* would leave nothing of what the fence kept.
Robust(n) ==
    CASE setting.tolerance > 0 -> setting.bft_method = 0 \/ n = 3 \/ 3 * setting.tolerance < n
      [] setting.tolerance = 0 /\ apply_to_policy.method = 4 -> setting.cap < 5000
      [] OTHER -> effective_policy.method \in {0, 4}

Between(p, S) == \E r, s \in S : submitted[r].price <= p /\ p <= submitted[s].price

\* Whatever the suspect reports and whichever filters, windows and tiers are in
\* force, a robust round of three or more publishes a price between two prices
\* of the other contributors, and any round one between its contributors'.
OneSourceIsBounded(round) ==
    LET n == Cardinality(round.contributors)
    IN  round.published =>
            /\ Between(round.price, round.contributors)
            /\ n >= 3 /\ Robust(n) => Between(round.price, round.contributors \ {Suspect})

\* No contributor of a weighted round holds more than the cap when the cap can
\* be met, and capping raises no weight.
SharesCapped(round) ==
    LET n == Cardinality(round.contributors)
        capped == Capped(Only(submitted, round.contributors))
    IN  /\ n >= 3 /\ n * setting.cap >= BPS => within_cap(capped, setting.cap)
        /\ \A r \in round.contributors : capped[r] \in 1..weight_for_age(Age(submitted[r]))

\* With nothing but the global settings in use the views tell the result of a
\* round: its simulation, or the weighted view under the weighted method.
ViewsAgree(round) ==
    /\ setting.asset = Nothing /\ ~setting.in_class /\ setting.method # 3
    /\ setting.tier = None /\ setting.asset_window = 0 /\ setting.default_window = 0
    /\ setting.outlier = None /\ setting.tolerance = 0
    => LET view == IF setting.method = 4 THEN get_weighted_aggregate ELSE simulate_aggregation
       IN  round.published => round.price = view

\* The three of the round that a recomputation would run now.
AggregateBounded ==
    \E round \in {Round(submitted)} :
        OneSourceIsBounded(round) /\ SharesCapped(round) /\ ViewsAgree(round)

=============================================================================
