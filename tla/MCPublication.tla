---------------------------- MODULE MCPublication ----------------------------
(***************************************************************************)
(* What happens to a price around its publication, model-checked together: *)
(* every way of writing it with its asset administered (PriceOracle), the  *)
(* gates in front of it, the blackouts, the commit-reveal way in, its      *)
(* history and provenance, its finality, and what a consumer reads.  The   *)
(* parts meet in the aggregate only, so the run picks the part it          *)
(* exercises once, in the initial state; the gates and the blackouts       *)
(* interact and are one module.                                            *)
(***************************************************************************)
EXTENDS Integers, FiniteSets

CONSTANTS Signallers, MaxBlackout, MinNotice, Cooldown, SignalWindow,
          VolatilityBlackout, VolatilityQuorums, MaxClock
CONSTANTS Medians, PeerPrices, Tolerance, Depegs
CONSTANTS Prices, Thresholds, Caps, DefaultHistory, Parties, Admin, LedgersPerBucket,
          DowngradeDelay, Approvals, MaxEvents, MaxLedger
CONSTANTS FinPrices, Horizons, DefaultHorizon, CorrectionWindow, MaxCorrections, MaxFinLedger
CONSTANTS Committers, Quotes, CommitWindows, RevealWindows, FirstCommitWindow,
          FirstRevealWindow, SlashAmounts, InitialBond, LastLedger
CONSTANTS ProvPrices, HistoryCaps, MaxProvLedger
CONSTANTS ReadPrices, Counts, MinSources, Resolution, ReadAges, WindowLedgers, Samplings,
          RetainedWindows, TwapFloors, OverrideTerms, MaxLedgers, MaxReads
CONSTANTS s1, s2, a1, None

VARIABLES focus,
    clock, window, last_end, signals, vquorum, opened, withheld,
    price, route, bounds, policy, status, relations, depeg, sanity, peers,
    now, list, temp, shards, index, tier, request, bps, cap, mark,
    fin_now, live, enrolled, recorded, horizon, pending, finalized,
    revisions, original, corrections, scope,
    height, commits, commit_window, reveal_window, slash_amount, stake, changed, shown,
    prov_now, kept, snapshot, records, head, proposed, prov_cap,
    ledger, paused, registered, disabled, frozen, minSources, sources, inactive,
    submission, aggregate, lastTrigger, basis,
    read_now, current, snapshots, pinned, forced, sample_every, floor, counters, degraded

\* One price band, two deferral policies and two kinds of relation.
Tiers == {[hard_min |-> 90, soft_min |-> 95, soft_max |-> 105, hard_max |-> 120]}
Policies == {[quorum |-> 1, max_defer |-> 1], [quorum |-> 2, max_defer |-> 2]}
Relations == {[kind |-> "Spread", action |-> "Reject"],
              [kind |-> "Triangle", action |-> "Quarantine"]}

\* The constants of blackout.rs, and prices as the pipeline receives them.
ASSUME GatesAssumption ==
    /\ MaxBlackout \in Nat \ {0} /\ VolatilityBlackout \in 1..MaxBlackout
    /\ MinNotice \in Nat /\ Cooldown \in Nat /\ MaxClock \in Nat
    /\ Medians \subseteq Nat \ {0}
\* Windows are u32, and their setters refuse zero.
ASSUME WindowsAssumption ==
    /\ CommitWindows \subseteq Nat /\ RevealWindows \subseteq Nat
    /\ FirstCommitWindow \in Nat \ {0} /\ FirstRevealWindow \in Nat \ {0}
    /\ LastLedger \in Nat
\* Ledger sequences and history lengths are u32.
ASSUME HistoryAssumption ==
    /\ Caps \subseteq Nat /\ DefaultHistory \in Nat /\ MaxEvents \in Nat
    /\ HistoryCaps \subseteq Nat /\ HistoryCaps # {} /\ IsFiniteSet(HistoryCaps)
    /\ MaxLedger \in Nat \ {0} /\ MaxProvLedger \in Nat \ {0}
\* Prices are positive, horizons, windows and floors are u32, and a counting
\* window is not empty.
ASSUME ReadsAssumption ==
    /\ FinPrices \subseteq Int /\ Horizons \subseteq Nat /\ DefaultHorizon \in Nat
    /\ MaxFinLedger \in Nat \ {0}
    /\ ReadPrices \subseteq Nat \ {0} /\ TwapFloors \subseteq Nat
    /\ MaxLedgers \in Nat \ {0} /\ WindowLedgers \in Nat \ {0}
    /\ RetainedWindows \in Nat \ {0}

Gates == INSTANCE PublicationGates
Archive == INSTANCE PriceArchive
Finality == INSTANCE PriceFinality
Commits == INSTANCE CommitReveal
Prov == INSTANCE Provenance
Reads == INSTANCE PriceReads WITH
    Quotes <- ReadPrices, now <- read_now, live <- current, frozen <- pinned

\* Every way of writing an aggregate, with the asset administered.
Lifecycle == INSTANCE PriceOracle WITH
    Sources <- {s1, s2}, Heartbeating <- {s1, s2}, Assets <- {a1}, Prices <- {1},
    Timestamps <- {0, 1, 2}, Quorums <- {2}, Threshold <- 0, FreshnessSecs <- 1, Cooldown <- 1,
    InlineRecompute <- 2, MaxLedger <- 3, MaxVersion <- 1,
    EntryPoints <- {"submit_price", "submit_prices", "recompute_asset_price",
                    "trigger_aggregation", "write_price_snapshot", "correct_price",
                    "migrate_storage", "register_asset", "unregister_asset",
                    "disable_asset", "enable_asset", "freeze_price", "unfreeze_price", "pause"}

\* An absent storage entry is not one of the entries.
ASSUME AbsentAssumption == None \notin Lifecycle!PriceEntry

bvars == <<window, last_end, signals, vquorum, opened, withheld>>
gvars == <<price, route, bounds, policy, status, relations, depeg, sanity, peers>>
avars == <<now, list, temp, shards, index, tier, request, bps, cap, mark>>
fvars == <<fin_now, live, enrolled, recorded, horizon, pending, finalized,
           revisions, original, corrections, scope>>
crvars == <<height, commits, commit_window, reveal_window, slash_amount, stake, changed, shown>>
pvars == <<prov_now, kept, snapshot, records, head, proposed, prov_cap>>
lvars == <<ledger, paused, registered, disabled, frozen, minSources, sources, inactive,
           submission, aggregate, lastTrigger, basis>>
rvars == <<read_now, current, snapshots, pinned, forced, sample_every, floor, counters, degraded>>
vars == <<focus, clock, bvars, gvars, avars, fvars, crvars, pvars, lvars, rvars>>

Init ==
    /\ focus \in {"blackout", "gates", "archive", "finality", "revisions", "commit",
                  "provenance", "lifecycle", "reads", "averages"}
    /\ Gates!Init /\ Archive!Init /\ Finality!Init /\ Commits!Init
    /\ Prov!Init /\ Lifecycle!Init /\ Reads!Init

\* The gates are exercised under a shorter clock than the blackouts.
GateSteps ==
    \/ Gates!Rounds
    \/ Gates!Tick /\ (focus = "gates" => clock < 2)
    \/ focus = "gates" /\ (Gates!AdminWrites \/ Gates!GateCalls \/ Gates!LatticeCalls)
    \/ focus = "blackout" /\ Gates!BlackoutCalls /\ UNCHANGED <<clock, gvars>>

GatedSteps ==
    /\ focus \in {"blackout", "gates"} /\ UNCHANGED focus
    /\ GateSteps
    /\ UNCHANGED <<avars, fvars, crvars, pvars, lvars, rvars>>
ArchiveSteps ==
    /\ focus = "archive" /\ UNCHANGED focus
    /\ Archive!Next
    /\ UNCHANGED <<clock, bvars, gvars, fvars, crvars, pvars, lvars, rvars>>
\* Finality and corrections meet in the live price only: each is exercised
\* with the other left alone, both with every writer of the price.
FinalitySteps ==
    /\ focus \in {"finality", "revisions"} /\ UNCHANGED focus
    /\ Finality!Next
    /\ IF focus = "finality" THEN UNCHANGED <<corrections, scope>>
                             ELSE UNCHANGED <<horizon, pending, finalized>>
    /\ UNCHANGED <<clock, bvars, gvars, avars, crvars, pvars, lvars, rvars>>
CommitSteps ==
    /\ focus = "commit" /\ UNCHANGED focus
    /\ Commits!Next
    /\ UNCHANGED <<clock, bvars, gvars, avars, fvars, pvars, lvars, rvars>>
ProvenanceSteps ==
    /\ focus = "provenance" /\ UNCHANGED focus
    /\ Prov!Next
    /\ UNCHANGED <<clock, bvars, gvars, avars, fvars, crvars, lvars, rvars>>
LifecycleSteps ==
    /\ focus = "lifecycle" /\ UNCHANGED focus
    /\ Lifecycle!Next
    /\ UNCHANGED <<clock, bvars, gvars, avars, fvars, crvars, pvars, rvars>>
\* Likewise the reads, which ask for no history, and the averages over it.
ReadSteps ==
    /\ focus \in {"reads", "averages"} /\ UNCHANGED focus
    /\ Reads!Next
    /\ IF focus = "reads" THEN UNCHANGED <<snapshots, floor>>
                          ELSE UNCHANGED <<pinned, forced, counters, degraded>>
    /\ UNCHANGED <<clock, bvars, gvars, avars, fvars, crvars, pvars, lvars>>
Next ==
    \/ GatedSteps
    \/ ArchiveSteps
    \/ FinalitySteps
    \/ CommitSteps
    \/ ProvenanceSteps
    \/ LifecycleSteps
    \/ ReadSteps

Spec == Init /\ [][Next]_vars

\* Time is respected: two blackouts keep the cooldown between them
\* (PublicationGates), and an aggregate never carries a timestamp from the
\* future, with the asset administered and the clock running (PriceOracle).
TimesRespected == CASE focus = "blackout" -> Gates!BlackoutsSpaced
                    [] focus = "lifecycle" -> Lifecycle!NotFromTheFuture
                    [] OTHER -> TRUE
\* A round that publishes passed every gate in force (PublicationGates).
RoundsRespectGates == Gates!RoundsRespectGates
\* A snapshot is readable exactly when its ledger is listed (PriceArchive), and
\* the record beside that of an aggregation explains its price (Provenance).
HistoryReadable == CASE focus = "archive" -> Archive!ReadableIffListed
                     [] focus = "provenance" -> Prov!SnapshotsExplained
                     [] OTHER -> TRUE
\* What readers get: the average over a window is the mean of the price on record,
\* the degraded reads are counted exactly and the two readers agree (PriceReads);
\* the newest finalised entry is the one served, and the revision chain explains
\* every correction (PriceFinality).
ReadsExact ==
    CASE focus \in {"reads", "averages"} -> Reads!TwapExact /\ Reads!CountsExact /\ Reads!ReadersMeet
      [] focus \in {"finality", "revisions"} -> Finality!FinalizedStands /\ Finality!RevisionsExplain
      [] OTHER -> TRUE
\* Nobody commits after seeing a price of the round (CommitReveal).
RoundsAreBlind == focus = "commit" => Commits!RoundsAreBlind

=============================================================================
