----------------------------- MODULE PriceReads -----------------------------
(***************************************************************************)
(* What a consumer is served for one asset (prices.rs): the live           *)
(* aggregate, an admin override, a frozen price or nothing, the            *)
(* time-weighted average over the history, and the counters that record    *)
(* every degraded read (degradation.rs).                                   *)
(*                                                                         *)
(* The asset is registered and enabled, and prices are positive (an        *)
(* external price ruled on unchecked, and the zero aggregate of the        *)
(* migration, are left out).  Ledger sequence and ledger time are one      *)
(* counter, and an aggregate is dated by its ledger.  The circuit breaker  *)
(* never opens, so the fallback it guards is not served and no read is     *)
(* Deferred.                                                               *)
(***************************************************************************)
EXTENDS Naturals, Sequences, FiniteSets, FiniteSetsExt, Functions

CONSTANTS
    Quotes,          \* prices
    Counts,          \* numbers of contributing sources
    MinSources,      \* effective_policy().min_sources
    Resolution,      \* get_asset_resolution, in ledgers
    ReadAges,        \* max_age arguments, 0 for none
    WindowLedgers,   \* DegradationConfig.window_ledgers
    Samplings,       \* values of DegradationConfig.sample_every
    RetainedWindows, \* RETAINED_WINDOWS
    TwapFloors,      \* values of TwapMinCardinality
    OverrideTerms,   \* ledgers an override lasts
    MaxLedgers,      \* bound on the ledger sequence
    MaxReads         \* bound on the degraded reads per window

VARIABLES
    now,          \* env.ledger()
    live,         \* Aggregate
    snapshots,    \* history, by ledger
    frozen,       \* FrozenPrice
    forced,       \* PriceOverride
    sample_every, \* DegradationConfig.sample_every
    floor,        \* TwapMinCardinality
    counters,     \* DegradationCounters, by window
    degraded      \* degraded reads, by window (history)

pvars == <<now, live, snapshots, frozen, forced, sample_every, floor, counters, degraded>>

NoPrice == [price |-> 0, at |-> 0, sources |-> 0]   \* no aggregate, nothing frozen or served
NoOverride == [price |-> 0, expiry |-> 0]
With(f, k, v) == [x \in DOMAIN f \cup {k} |-> IF x = k THEN v ELSE f[x]]

Init ==
    /\ now = 1
    /\ live = NoPrice /\ snapshots = <<>>
    /\ frozen = NoPrice /\ forced = NoOverride
    /\ sample_every \in Samplings
    /\ floor = 1
    /\ counters = <<>>
    /\ degraded = [w \in 0..(MaxLedgers \div WindowLedgers) |-> 0]

-----------------------------------------------------------------------------
(* The price of the moment *)

\* An aggregation, or a finalised proposal, stores the aggregate and the
\* snapshot of its ledger, over an earlier one.  Neither asks for a freeze: only
\* a submission does.
publish(p, n) ==
    /\ live' = [price |-> p, at |-> now, sources |-> n]
    /\ snapshots' = With(snapshots, now, p)
    /\ UNCHANGED <<now, frozen, forced, sample_every, floor, counters, degraded>>

\* The aggregate alone is written by trigger_aggregation and correct_price, which
\* keep no history, and by a publication whose snapshot is skipped because the
\* price stayed within the threshold of the last one.
write_live(p, n) ==
    /\ live' = [price |-> p, at |-> now, sources |-> n]
    /\ UNCHANGED <<now, snapshots, frozen, forced, sample_every, floor, counters, degraded>>

freeze_price ==
    /\ frozen = NoPrice /\ live # NoPrice
    /\ frozen' = live
    /\ UNCHANGED <<now, live, snapshots, forced, sample_every, floor, counters, degraded>>

unfreeze_price ==
    /\ frozen # NoPrice
    /\ frozen' = NoPrice
    /\ UNCHANGED <<now, live, snapshots, forced, sample_every, floor, counters, degraded>>

override_price(p, expiry) ==
    /\ expiry > now
    /\ forced' = [price |-> p, expiry |-> expiry]
    /\ UNCHANGED <<now, live, snapshots, frozen, sample_every, floor, counters, degraded>>

remove_price_override ==
    /\ forced # NoOverride
    /\ forced' = NoOverride
    /\ UNCHANGED <<now, live, snapshots, frozen, sample_every, floor, counters, degraded>>

Older(entry, age) == age > 0 /\ entry.at + age < now
Overridden == forced # NoOverride /\ now <= forced.expiry

\* lastprice: neither freeze nor override is consulted.
lastprice == IF live = NoPrice \/ Older(live, Resolution) THEN NoPrice ELSE live

\* get_price, the value: the freeze before the override before the aggregate.
Served(max_age) ==
    CASE frozen # NoPrice -> [frozen EXCEPT !.sources = 0]
      [] frozen = NoPrice /\ Overridden -> [price |-> forced.price, at |-> now, sources |-> 0]
      [] OTHER -> IF Older(live, max_age) THEN NoPrice ELSE lastprice

-----------------------------------------------------------------------------
(* Degraded reads *)

\* classify, on the path get_price takes.  A read that finds no aggregate is
\* attributed to no state.
classify(max_age) ==
    CASE frozen # NoPrice -> IF Older(frozen, Resolution) THEN "Stale" ELSE "Clamped"
      [] frozen = NoPrice /\ Overridden -> "Clamped"
      [] OTHER -> IF live = NoPrice THEN "Nothing"
                  ELSE IF Served(max_age) = NoPrice THEN "Stale"
                  ELSE IF live.sources < MinSources THEN "LowConfidence" ELSE "Fresh"

is_severe(state) == state = "Clamped"
current_window == now \div WindowLedgers
States == {"Stale", "Clamped", "LowConfidence"}
Zeroed == [total |-> 0, by_state |-> [s \in States |-> 0], severe |-> 0, emitted |-> 0]
read_counters(w) == IF w \in DOMAIN counters THEN counters[w] ELSE Zeroed

\* Every severe read and one in sample_every others is emitted, counted from
\* the start of the previous window.
Emits(state, before) ==
    \/ is_severe(state) \/ sample_every <= 1
    \/ LET earlier == IF current_window > 0 THEN read_counters(current_window - 1).total ELSE 0
       IN  (before + earlier) % sample_every = 0

prune_windowsEarly(w) == DOMAIN counters \ {w + 1 - RetainedWindows}   \* slip: one window early
\* The windows kept when window w is opened.
prune_windows(w) ==
    IF w <= RetainedWindows THEN DOMAIN counters ELSE DOMAIN counters \ {w - RetainedWindows}

record_read(state) ==
    LET w == current_window
        was == read_counters(w)
        stats == [total |-> was.total + 1,
                  by_state |-> [was.by_state EXCEPT ![state] = @ + 1],
                  severe |-> was.severe + (IF is_severe(state) THEN 1 ELSE 0),
                  emitted |-> was.emitted + (IF Emits(state, was.total) THEN 1 ELSE 0)]
        kept == IF w \in DOMAIN counters THEN DOMAIN counters ELSE prune_windows(w)
    IN  /\ was.total < MaxReads
        /\ counters' = With(Restrict(counters, kept), w, stats)
        /\ degraded' = [degraded EXCEPT ![w] = @ + 1]

\* get_price: a read past the expiry removes the override; a fresh read, and
\* one that finds nothing, records nothing.
get_price(max_age) ==
    LET state == classify(max_age)
    IN  /\ forced' = IF frozen = NoPrice /\ ~Overridden THEN NoOverride ELSE forced
        /\ IF state \in States THEN record_read(state) ELSE UNCHANGED <<counters, degraded>>
        /\ UNCHANGED <<now, live, snapshots, frozen, sample_every, floor>>

-----------------------------------------------------------------------------
(* The time-weighted average *)

Later(a, b) == IF a > b THEN a ELSE b

\* The observations compute_twap_stats collects for a window that starts at a
\* ledger: the aggregate, dated now, and the snapshots before now down to the
\* first one that is not after the start.
Observations(start) ==
    LET past == {l \in DOMAIN snapshots : l < now}
    IN  {now} \cup {l \in past : ~\E m \in past : l < m /\ m <= start}
PriceOf(l) == IF l = now THEN live.price ELSE snapshots[l]

WeightShort(l, start) ==   \* slip: the current ledger is not counted
    LET later == {m \in Observations(start) : m > l}
        boundary == IF later = {} THEN now ELSE Later(Min(later), start)
    IN  boundary - Later(l, start)
\* An observation weighs the ledgers from it, or from the start, up to the
\* next observation.
Weight(l, start) ==
    LET later == {m \in Observations(start) : m > l}
        boundary == IF later = {} THEN now + 1 ELSE Later(Min(later), start)
    IN  boundary - Later(l, start)

compute_twap_stats(start) ==
    LET O == Observations(start)
        total == SumFunction([l \in O |-> Weight(l, start)])
        used == {l \in O : Weight(l, start) > 0}
        sum == SumFunction([l \in O |-> PriceOf(l) * Weight(l, start)])
    IN  [price |-> IF total = 0 THEN 0 ELSE sum \div total,
         weight |-> total,
         cardinality |-> Cardinality(used),
         concentrated |-> Cardinality(used) = 1]

\* get_twap_ex, and get_twap without the statistics: the window of a number of
\* ledgers that ends now, refused below the floor.
StartOf(window) == IF window > now THEN 0 ELSE now + 1 - window
get_twap_exOpen(window) == compute_twap_stats(StartOf(window))   \* slip: the floor is not asked
get_twap_ex(window) ==
    LET r == compute_twap_stats(StartOf(window))
    IN  IF r.cardinality < floor THEN [r EXCEPT !.price = 0] ELSE r

set_twap_min_cardinality(n) ==
    /\ n > 0
    /\ floor' = n
    /\ UNCHANGED <<now, live, snapshots, frozen, forced, sample_every, counters, degraded>>

CloseLedger ==
    /\ now < MaxLedgers
    /\ now' = now + 1
    /\ UNCHANGED <<live, snapshots, frozen, forced, sample_every, floor, counters, degraded>>

-----------------------------------------------------------------------------

PinCalls ==
    \/ freeze_price \/ unfreeze_price
    \/ \E p \in Quotes, term \in OverrideTerms : override_price(p, now + term)
    \/ remove_price_override

ReadCalls == \E age \in ReadAges : get_price(age)
TwapCalls == \E n \in TwapFloors : set_twap_min_cardinality(n)

Next ==
    \/ \E p \in Quotes, n \in Counts : publish(p, n) \/ write_live(p, n)
    \/ PinCalls \/ ReadCalls \/ TwapCalls
    \/ CloseLedger

Spec == Init /\ [][Next]_pvars

-----------------------------------------------------------------------------
(* Properties *)

\* The storage entries have their shape.
TypeOK ==
    /\ now \in 1..MaxLedgers
    /\ DOMAIN snapshots \subseteq 1..now /\ \A l \in DOMAIN snapshots : snapshots[l] \in Quotes
    /\ DOMAIN counters \subseteq DOMAIN degraded

\* The price on record at a ledger: the live one now, and before it the last
\* snapshot; a price that was never a snapshot left nothing behind.
OnRecord(l) == IF l = now THEN live.price ELSE snapshots[Max({m \in DOMAIN snapshots : m <= l})]
Covered(window) ==
    {l \in StartOf(window)..now : l = now \/ \E m \in DOMAIN snapshots : m <= l}

\* The segment-by-segment average of compute_twap_stats is the mean, over the
\* ledgers of the window for which a price is known, of the price on record
\* (docs/aggregation-hardening.md: "time-weighted by the ledgers they stay in
\* force"), wherever window, gaps and snapshots fall; and an average that is
\* served has as many observations as the floor asks for.
TwapExact ==
    live # NoPrice =>
        \A window \in 1..(MaxLedgers + 1) :
            LET r == get_twap_ex(window)
                known == Covered(window)
                sum == SumFunction([l \in known |-> OnRecord(l)])
            IN  /\ r.weight = Cardinality(known)
                /\ r.price # 0 => /\ r.price = sum \div Cardinality(known)
                                  /\ r.cardinality >= floor

\* degradation.rs: "Window counts are always exact, independently of sampling"
\* and severe states "are never sampled".  However reads, windows and pruning
\* fall, the counters of a window add up to the degraded reads it saw, every
\* severe one was emitted, and no recent window is missing.
CountsExact ==
    /\ \A w \in DOMAIN counters :
         LET c == counters[w]
         IN  /\ c.total = degraded[w]
             /\ c.total = SumFunction(c.by_state)
             /\ c.severe = c.by_state["Clamped"] /\ c.severe <= c.emitted /\ c.emitted <= c.total
    /\ \A w \in DOMAIN degraded :
         (degraded[w] > 0 /\ w \notin DOMAIN counters) => w + RetainedWindows <= current_window

\* Without a freeze or an override the two readers agree.
ReadersMeet == (frozen = NoPrice /\ ~Overridden) => Served(0) = lastprice

\* The ledger of the publication that a ledger of the window rests on.
RestsOn(l) == IF l >= live.at THEN live.at ELSE Max({m \in DOMAIN snapshots : m <= l})

\* docs/aggregation-hardening.md: "`concentrated` - `true` when the whole
\* window rests on one observation".
ConcentrationReported ==
    live # NoPrice =>
        \A window \in 1..(MaxLedgers + 1) :
            Cardinality({RestsOn(l) : l \in Covered(window)}) = 1
            => compute_twap_stats(StartOf(window)).concentrated

=============================================================================
