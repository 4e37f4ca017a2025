---------------------------- MODULE PriceOracle ----------------------------
(***************************************************************************)
(* The publication core of the price-oracle contract: the source registry, *)
(* the asset registry, the stored submissions and the published aggregate, *)
(* with every entry point that writes them (prices.rs, recompute.rs,       *)
(* sources.rs, assets.rs, admin.rs, freeze.rs, pause.rs).  Three of the    *)
(* writers aggregate nothing: an optimistic proposal (optimistic.rs), a    *)
(* correction (corrections.rs) and the storage migration (migration.rs).   *)
(* What allows them is modelled in OptimisticPrices, PriceFinality and     *)
(* AssetRegistry; here they may come at any time.                          *)
(*                                                                         *)
(* A contract call is one transaction: a failed check panics and rolls     *)
(* every write of the call back, so a guard is a conjunct of the action    *)
(* and a rejected call is no step at all.  Ledger sequence and ledger time *)
(* advance together and are one counter.                                   *)
(*                                                                         *)
(* The optional screens of the aggregation loop (correlation, DQ pipeline, *)
(* risk tiers, outlier masks, bounds, lattice, deferral, blackout) are at  *)
(* their defaults, which disable them; the policy freshness floor is kept. *)
(* SourceNonce is left out: submit_price_auto always passes last + 1.      *)
(***************************************************************************)
EXTENDS Naturals, FiniteSets, PriceMath

CONSTANTS
    Sources,          \* addresses that may be registered as oracle sources
    Assets,           \* addresses that may be registered as assets
    Prices,           \* the prices sources report
    Timestamps,       \* the timestamps sources report
    Heartbeating,     \* the sources that send heartbeats (SrcHeartbeat is set)
    Quorums,          \* values the admin gives CfgMinSources
    Threshold,        \* CfgTimestampThreshold
    FreshnessSecs,    \* policy.freshness_secs, 0 when unset
    Cooldown,         \* AggregationCooldown
    InlineRecompute,  \* recompute.rs INLINE_RECOMPUTE_ASSETS
    EntryPoints,      \* the entry points an instance exercises
    MaxLedger,        \* bound on the ledger sequence
    MaxVersion,       \* u32::MAX, where the version of an aggregate saturates
    None              \* an absent storage entry

ASSUME PriceOracleAssumptions ==
    /\ IsFiniteSet(Sources)
    /\ Prices \subseteq Nat \ {0}
    /\ Timestamps \subseteq Nat
    /\ Heartbeating \subseteq Sources
    /\ Quorums \subseteq Nat \ {0}
    /\ Quorums # {}
    /\ Threshold \in Nat
    /\ FreshnessSecs \in Nat
    /\ Cooldown \in Nat
    /\ InlineRecompute \in Nat
    /\ MaxLedger \in Nat
    /\ MaxVersion \in Nat \ {0}

VARIABLES
    ledger,       \* env.ledger().sequence() and timestamp()
    paused,       \* CfgPauseFlag
    registered,   \* AssetRegistry
    disabled,     \* AssetDisabled
    frozen,       \* FrozenPrice
    sources,      \* SrcActive / SrcRegistry
    inactive,     \* SrcInactive
    minSources,   \* CfgMinSources
    submission,   \* Submission(asset, source)
    aggregate,    \* Aggregate(asset)
    lastTrigger,  \* LastAggregationTrigger(asset)
    basis         \* the submissions the aggregate was computed from, none when it was not

adminVars == <<paused, registered, disabled, frozen, minSources>>
vars == <<ledger, adminVars, sources, inactive, submission, aggregate,
          lastTrigger, basis>>

PriceEntry == [price : Prices, timestamp : Nat, last_updated : Nat]

\* An absent submission is not an entry.
ASSUME AbsentAssumption == None \notin PriceEntry

AggregatePrice == [price : Nat, timestamp : Nat, num_sources : Nat, version : Nat,
                   is_override : BOOLEAN]
NoBasis == [s \in {} |-> None]

Init ==
    /\ ledger = 1
    /\ paused = FALSE
    /\ registered = Assets
    /\ disabled = {}
    /\ frozen = {}
    /\ sources = Sources
    /\ inactive = {}
    /\ minSources \in Quorums
    /\ submission = [a \in Assets |-> [s \in Sources |-> None]]
    /\ aggregate = [a \in Assets |-> None]
    /\ lastTrigger = [a \in Assets |-> None]
    /\ basis = [a \in Assets |-> NoBasis]

-----------------------------------------------------------------------------
(* Aggregation *)

\* The sources the aggregation loop counts: registered, not excluded, with a
\* stored submission inside the policy's freshness floor.
Eligible(a, subs, srcs, inact) ==
    {s \in srcs \ inact :
        /\ subs[a][s] # None
        /\ FreshnessSecs > 0 => ledger - subs[a][s].last_updated <= FreshnessSecs}

\* The sources trigger_aggregation counts: every registered source with a
\* stored submission.
Stored(a) == {s \in sources : submission[a][s] # None}

ReachesEarly(C) == C # {} /\ Cardinality(C) + 1 >= minSources   \* slip: off by one
Reaches(C) == C # {} /\ Cardinality(C) >= minSources

BasisOf(a, subs, C) == [s \in C |-> subs[a][s]]

PriceOf(b) == compute_median([s \in DOMAIN b |-> b[s].price])
TimestampOf(b) == latest_timestamp([s \in DOMAIN b |-> b[s].timestamp])

Saturating(version) == IF version < MaxVersion THEN version + 1 ELSE version

\* aggregate_asset_mode, publish block: the version counts price changes, and
\* only a recomputation keeps the published timestamp from moving backwards.
Published(a, b, recompute) ==
    LET prev  == aggregate[a]
        price == PriceOf(b)
        time  == TimestampOf(b)
    IN  [price |-> price,
         timestamp |->
            IF recompute /\ prev # None /\ prev.timestamp > time
            THEN prev.timestamp ELSE time,
         num_sources |-> Cardinality(DOMAIN b),
         version |->
            IF prev = None THEN 1
            ELSE IF prev.price # price THEN Saturating(prev.version) ELSE prev.version,
         is_override |-> FALSE]

\* aggregate_asset_mode for every asset of A: publish when the eligible set
\* reaches the quorum, otherwise leave the previous aggregate in place.
AggregateAssets(A, subs, srcs, inact, recompute) ==
    LET C(a)  == Eligible(a, subs, srcs, inact)
        On(a) == a \in A /\ Reaches(C(a))
    IN  /\ aggregate' = [a \in Assets |->
              IF On(a) THEN Published(a, BasisOf(a, subs, C(a)), recompute)
                       ELSE aggregate[a]]
        /\ basis' = [a \in Assets |->
              IF On(a) THEN BasisOf(a, subs, C(a)) ELSE basis[a]]

\* recompute.rs affected_assets + recompute_bounded: the registered assets the
\* source has a submission for and that have an aggregate, at most
\* InlineRecompute of them in this transaction (in registry order, which may
\* be any order), the rest left to recompute_asset_price.
RecomputeAssets(affected, srcs, inact) ==
    \E A \in SUBSET {a \in affected : aggregate[a] # None} :
        /\ Cardinality(A) <= InlineRecompute
        /\ \/ Cardinality(A) = InlineRecompute
           \/ A = {a \in affected : aggregate[a] # None}
        /\ AggregateAssets(A, submission, srcs, inact, TRUE)

AffectedAssets(s) == {a \in registered : submission[a][s] # None}

-----------------------------------------------------------------------------
(* Submission *)

CanSubmit(s) == ~paused /\ s \in sources

AcceptableAnyTime(a, t) == a \in registered /\ a \notin frozen   \* slip: no time check
Acceptable(a, t) ==
    /\ a \in registered
    /\ a \notin frozen
    /\ t <= ledger + Threshold

\* submit_price rejects a submission older than the one it would replace.
InOrder(a, s, t) == submission[a][s] # None => submission[a][s].timestamp <= t

StoreEntry(p, t) == [price |-> p, timestamp |-> t, last_updated |-> ledger]

\* prices.rs submit_price_auto / submit_price.
submit_price(s, a, p, t) ==
    /\ "submit_price" \in EntryPoints
    /\ CanSubmit(s)
    /\ Acceptable(a, t)
    /\ a \notin disabled
    /\ InOrder(a, s, t)
    /\ submission' = [submission EXCEPT ![a][s] = StoreEntry(p, t)]
    /\ AggregateAssets({a}, submission', sources, inactive, FALSE)
    /\ UNCHANGED <<ledger, adminVars, sources, inactive, lastTrigger>>

\* prices.rs submit_prices: all entries are validated, then all stored, then
\* each asset is aggregated.  There is no disabled check and no comparison
\* with the timestamp of the previous submission.
submit_prices(s, A, p, t) ==
    /\ "submit_prices" \in EntryPoints
    /\ CanSubmit(s)
    /\ \A a \in A : Acceptable(a, t[a])
    /\ submission' = [a \in Assets |->
          IF a \in A THEN [submission[a] EXCEPT ![s] = StoreEntry(p[a], t[a])]
                     ELSE submission[a]]
    /\ AggregateAssets(A, submission', sources, inactive, FALSE)
    /\ UNCHANGED <<ledger, adminVars, sources, inactive, lastTrigger>>

\* prices.rs trigger_aggregation: permissionless, no exclusion of inactive
\* sources, no freshness floor, and a version that restarts at zero.
trigger_aggregation(a) ==
    /\ "trigger_aggregation" \in EntryPoints
    /\ a \in registered
    /\ lastTrigger[a] # None => ledger - lastTrigger[a] >= Cooldown
    /\ Reaches(Stored(a))
    /\ LET b == BasisOf(a, submission, Stored(a))
       IN  /\ aggregate' = [aggregate EXCEPT ![a] =
                 [price |-> PriceOf(b), timestamp |-> TimestampOf(b),
                  num_sources |-> Cardinality(DOMAIN b), version |-> 0,
                  is_override |-> FALSE]]
           /\ basis' = [basis EXCEPT ![a] = b]
    /\ lastTrigger' = [lastTrigger EXCEPT ![a] = ledger]
    /\ UNCHANGED <<ledger, adminVars, sources, inactive, submission>>

recompute_asset_priceRegistryOnly(a) ==   \* slip: lapsed sources still count
    /\ "recompute_asset_price" \in EntryPoints
    /\ AggregateAssets({a}, submission, sources, {}, TRUE)
    /\ UNCHANGED <<ledger, adminVars, sources, inactive, submission,
                   lastTrigger>>

\* lib.rs recompute_asset_price: permissionless, for any address.
recompute_asset_price(a) ==
    /\ "recompute_asset_price" \in EntryPoints
    /\ AggregateAssets({a}, submission, sources, inactive, TRUE)
    /\ UNCHANGED <<ledger, adminVars, sources, inactive, submission,
                   lastTrigger>>

-----------------------------------------------------------------------------
(* Prices that are not aggregated *)

Write(a, entry) ==
    /\ aggregate' = [aggregate EXCEPT ![a] = entry]
    /\ basis' = [basis EXCEPT ![a] = NoBasis]
    /\ UNCHANGED <<ledger, adminVars, sources, inactive, submission, lastTrigger>>

\* optimistic.rs write_price_snapshot: a proposal that expired undisputed, was
\* upheld or was ruled on with an external price.  Neither the quorum nor the
\* registration is looked at; the timestamp was checked no later than now.  An
\* external price is not checked: zero stands for one no source could submit.
write_price_snapshot(a, p, t) ==
    /\ "write_price_snapshot" \in EntryPoints
    /\ t <= ledger + Threshold
    /\ Write(a, [price |-> p, timestamp |-> t, num_sources |-> 1,
                 version |-> IF aggregate[a] = None THEN 0
                             ELSE IF aggregate[a].price # p THEN Saturating(aggregate[a].version)
                             ELSE aggregate[a].version,
                 is_override |-> FALSE])

\* corrections.rs correct_price, inside its scope: the source count is kept.
correct_price(a, p) ==
    /\ "correct_price" \in EntryPoints
    /\ a \in registered
    /\ aggregate[a] # None
    /\ Write(a, [price |-> p, timestamp |-> ledger,
                 num_sources |-> aggregate[a].num_sources,
                 version |-> Saturating(aggregate[a].version),
                 is_override |-> TRUE])

\* migration.rs migrate_v1_to_v2: a registered asset without an aggregate gets
\* a zero one.
migrate_v1_to_v2(a) ==
    /\ "migrate_storage" \in EntryPoints
    /\ a \in registered
    /\ aggregate[a] = None
    /\ Write(a, [price |-> 0, timestamp |-> 0, num_sources |-> 0, version |-> 0,
                 is_override |-> FALSE])

-----------------------------------------------------------------------------
(* The source set *)

\* sources.rs add_source.
add_source(s) ==
    /\ "add_source" \in EntryPoints
    /\ s \notin sources
    /\ sources' = sources \cup {s}
    /\ UNCHANGED <<ledger, adminVars, inactive, submission, aggregate,
                   lastTrigger, basis>>

remove_sourceStale(s) ==   \* slip: the recomputation reads the old registry
    /\ "remove_source" \in EntryPoints
    /\ s \in sources
    /\ sources' = sources \ {s}
    /\ RecomputeAssets(AffectedAssets(s), sources, inactive)
    /\ UNCHANGED <<ledger, adminVars, inactive, submission, lastTrigger>>

\* sources.rs remove_source: de-register, then recompute what it affected.  It
\* first asks is_source_inactive; a source that lapses there is a lapse followed
\* by a removal.  The stored submissions and the inactive flag stay.
remove_source(s) ==
    /\ "remove_source" \in EntryPoints
    /\ s \in sources
    /\ sources' = sources \ {s}
    /\ RecomputeAssets(AffectedAssets(s), sources', inactive)
    /\ UNCHANGED <<ledger, adminVars, inactive, submission, lastTrigger>>

\* sources.rs remove_sources: remove every listed source, recompute once.
remove_sources(S) ==
    /\ "remove_sources" \in EntryPoints
    /\ S # {} /\ S \subseteq sources
    /\ sources' = sources \ S
    /\ RecomputeAssets(registered, sources', inactive)
    /\ UNCHANGED <<ledger, adminVars, inactive, submission, lastTrigger>>

\* sources.rs is_source_inactive crossing MISS_THRESHOLD; anyone may call it.  The branch for a
\* source with a heartbeat on record recomputes; the branch for a source that
\* never sent one only sets the flag.
is_source_inactive(s) ==
    /\ "is_source_inactive" \in EntryPoints
    /\ s \notin inactive
    /\ inactive' = inactive \cup {s}
    /\ IF s \in Heartbeating
       THEN RecomputeAssets(AffectedAssets(s), sources, inactive')
       ELSE UNCHANGED <<aggregate, basis>>
    /\ UNCHANGED <<ledger, adminVars, sources, submission, lastTrigger>>

\* sources.rs submit_heartbeat completing a reactivation.
submit_heartbeat(s) ==
    /\ "submit_heartbeat" \in EntryPoints
    /\ s \in sources \cap inactive \cap Heartbeating
    /\ inactive' = inactive \ {s}
    /\ UNCHANGED <<ledger, adminVars, sources, submission, aggregate,
                   lastTrigger, basis>>

-----------------------------------------------------------------------------
(* Administration *)

dataVars == <<ledger, sources, inactive, submission, lastTrigger>>

\* assets.rs register_asset / unregister_asset: only the aggregate goes.
register_asset(a) ==
    /\ "register_asset" \in EntryPoints
    /\ a \notin registered
    /\ registered' = registered \cup {a}
    /\ UNCHANGED <<dataVars, aggregate, basis, paused, disabled, frozen, minSources>>

unregister_asset(a) ==
    /\ "unregister_asset" \in EntryPoints
    /\ a \in registered
    /\ registered' = registered \ {a}
    /\ aggregate' = [aggregate EXCEPT ![a] = None]
    /\ basis' = [basis EXCEPT ![a] = NoBasis]
    /\ UNCHANGED <<dataVars, paused, disabled, frozen, minSources>>

\* admin.rs disable_asset / enable_asset.
disable_asset(a) ==
    /\ "disable_asset" \in EntryPoints
    /\ a \in registered
    /\ disabled' = disabled \cup {a}
    /\ UNCHANGED <<dataVars, aggregate, basis, paused, registered, frozen, minSources>>

enable_asset(a) ==
    /\ "enable_asset" \in EntryPoints
    /\ a \in registered
    /\ disabled' = disabled \ {a}
    /\ UNCHANGED <<dataVars, aggregate, basis, paused, registered, frozen, minSources>>

\* freeze.rs freeze_price (needs a published aggregate) / unfreeze_price.
freeze_price(a) ==
    /\ "freeze_price" \in EntryPoints
    /\ a \in registered \ frozen
    /\ aggregate[a] # None
    /\ frozen' = frozen \cup {a}
    /\ UNCHANGED <<dataVars, aggregate, basis, paused, registered, disabled, minSources>>

unfreeze_price(a) ==
    /\ "unfreeze_price" \in EntryPoints
    /\ a \in frozen
    /\ frozen' = frozen \ {a}
    /\ UNCHANGED <<dataVars, aggregate, basis, paused, registered, disabled, minSources>>

\* pause.rs pause / unpause.
set_paused(p) ==
    /\ "pause" \in EntryPoints
    /\ paused' = p
    /\ UNCHANGED <<dataVars, aggregate, basis, registered, disabled, frozen, minSources>>

\* admin.rs set_min_sources_required: never above the registered source count.
set_min_sources_required(q) ==
    /\ "set_min_sources_required" \in EntryPoints
    /\ sources # {} => q <= Cardinality(sources)
    /\ minSources' = q
    /\ UNCHANGED <<dataVars, aggregate, basis, paused, registered, disabled, frozen>>

\* A ledger closes: its sequence and its time advance.
CloseLedger ==
    /\ ledger < MaxLedger
    /\ ledger' = ledger + 1
    /\ UNCHANGED <<adminVars, sources, inactive, submission, aggregate,
                   lastTrigger, basis>>

-----------------------------------------------------------------------------

Submit(s) ==
    \/ \E a \in Assets, p \in Prices, t \in Timestamps : submit_price(s, a, p, t)
    \/ \E A \in (SUBSET Assets) \ {{}} :
          \E p \in [A -> Prices], t \in [A -> Timestamps] : submit_prices(s, A, p, t)

ChangeSources ==
    \/ \E s \in Sources : add_source(s) \/ remove_source(s)
    \/ \E S \in SUBSET Sources : remove_sources(S)
    \/ \E s \in Sources : is_source_inactive(s) \/ submit_heartbeat(s)

WriteDirectly ==
    \/ \E a \in Assets, p \in Prices \cup {0}, t \in Timestamps : write_price_snapshot(a, p, t)
    \/ \E a \in Assets, p \in Prices : correct_price(a, p)
    \/ \E a \in Assets : migrate_v1_to_v2(a)

Administer ==
    \/ \E a \in Assets : register_asset(a) \/ unregister_asset(a)
    \/ \E a \in Assets : disable_asset(a) \/ enable_asset(a)
    \/ \E a \in Assets : freeze_price(a) \/ unfreeze_price(a)
    \/ \E p \in BOOLEAN : set_paused(p)
    \/ \E q \in Quorums : set_min_sources_required(q)

Next ==
    \/ \E s \in Sources : Submit(s)
    \/ \E a \in Assets : trigger_aggregation(a) \/ recompute_asset_price(a)
    \/ WriteDirectly
    \/ ChangeSources
    \/ Administer
    \/ CloseLedger

Spec == Init /\ [][Next]_vars

\* The keeper the module documentation of recompute.rs relies on: whoever
\* watches RecomputeDeferredEvent eventually calls recompute_asset_price.
Keeping == \A a \in Assets : WF_vars(recompute_asset_price(a))
-----------------------------------------------------------------------------
(* What the core guarantees *)

\* Every variable has the shape the contract's storage gives it.
TypeOK ==
    /\ ledger \in Nat
    /\ paused \in BOOLEAN
    /\ registered \subseteq Assets
    /\ disabled \subseteq Assets
    /\ frozen \subseteq Assets
    /\ sources \subseteq Sources
    /\ inactive \subseteq Sources
    /\ minSources \in Quorums
    /\ submission \in [Assets -> [Sources -> PriceEntry \cup {None}]]
    /\ aggregate \in [Assets -> AggregatePrice \cup {None}]
    /\ lastTrigger \in [Assets -> Nat \cup {None}]
    /\ DOMAIN basis = Assets
    /\ \A a \in Assets : /\ DOMAIN basis[a] \subseteq Sources
                         /\ basis[a] \in [DOMAIN basis[a] -> PriceEntry]

\* The aggregate was computed from submissions: not by a proposal, a correction
\* or the migration.
Computed(a) == aggregate[a] # None /\ DOMAIN basis[a] # {}

\* S4 of docs/security/invariants.md: a price that was aggregated lies between
\* the lowest and the highest submission it was computed from.
PublishedWithinContributors ==
    \A a \in Assets : Computed(a) =>
        \E lo, hi \in DOMAIN basis[a] :
            /\ basis[a][lo].price <= aggregate[a].price
            /\ aggregate[a].price <= basis[a][hi].price

\* What the median is for: if more than half of the contributing prices lie
\* in an interval, so does the aggregated price, whatever the minority sends.
MajorityBoundsPrice ==
    \A a \in Assets, lo, hi \in Prices :
        LET inside == {s \in DOMAIN basis[a] :
                          lo <= basis[a][s].price /\ basis[a][s].price <= hi}
        IN  (/\ Computed(a)
             /\ 2 * Cardinality(inside) > Cardinality(DOMAIN basis[a]))
            => lo <= aggregate[a].price /\ aggregate[a].price <= hi

\* No entry point lets a price be dated further ahead than the tolerance: the
\* stored submissions and, through them, the published aggregates.
NotFromTheFuture ==
    \A a \in Assets :
        /\ \A s \in Sources : submission[a][s] # None =>
              submission[a][s].timestamp <= ledger + Threshold
        /\ aggregate[a] # None => aggregate[a].timestamp <= ledger + Threshold

\* S6, as far as the code goes, and what a consumer may conclude from the
\* aggregate: a price is aggregated only with the quorum in force, through any
\* of the five doors that aggregate, and one that is no override and claims
\* more than one source was aggregated from that many.  (A proposal claims one
\* source whatever the quorum; a correction claims those of the price it
\* replaces, and is an override.)
QuorumAtPublication ==
    [][\A a \in Assets :
          (/\ aggregate'[a] # None
           /\ <<aggregate'[a], basis'[a]>> # <<aggregate[a], basis[a]>>)
          => LET n == Cardinality(DOMAIN basis'[a])
             IN  /\ n > 0 => n >= minSources
                 /\ (aggregate'[a].num_sources > 1 /\ ~aggregate'[a].is_override)
                    => aggregate'[a].num_sources = n]_vars

\* docs/source-removal-recompute.md, "No stale contribution": the transaction
\* that removes or suspends a source also withdraws its value from every
\* published aggregate, unless the survivors are below quorum.
DepartureWithdraws ==
    [][\A s \in Sources, a \in registered :
          (/\ s \in sources \ inactive
           /\ s \notin sources' \ inactive'
           /\ aggregate'[a] # None)
          => \/ s \notin DOMAIN basis'[a]
             \/ ~Reaches(Eligible(a, submission', sources', inactive'))]_vars

\* An aggregate that still counts a source no longer eligible, although the
\* eligible sources could replace it.
Lingering(a) ==
    /\ aggregate[a] # None
    /\ DOMAIN basis[a] \ (sources \ inactive) # {}
    /\ Reaches(Eligible(a, submission, sources, inactive))

\* recompute.rs: what the inline budget leaves behind is withdrawn in the end.
DeferredConverges == \A a \in Assets : Lingering(a) ~> ~Lingering(a)

-----------------------------------------------------------------------------
(* A claim of the repository that the code does not keep; it has a run of its own *)

\* S5: the timestamp of a published aggregate never decreases.
TimestampNeverDecreases ==
    [][\A a \in Assets :
          (aggregate[a] # None /\ aggregate'[a] # None)
          => aggregate'[a].timestamp >= aggregate[a].timestamp]_vars

=============================================================================
