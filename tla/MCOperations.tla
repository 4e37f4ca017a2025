---------------------------- MODULE MCOperations ----------------------------
(***************************************************************************)
(* The parts around the price itself, model-checked together: the delayed  *)
(* configuration changes, the roles, the list of assets, the admission of  *)
(* sources, the bridges, the adaptive quorum, the derived feeds, the       *)
(* delivery to consumers and the router in front of the contract.  They    *)
(* share no state, so the run picks the part it exercises once, in the     *)
(* initial state.                                                          *)
(***************************************************************************)
EXTENDS Integers, Sequences

CONSTANTS Delays, BatchFloor, Quorums, MaxConfig, MaxOps, MaxVersions, MaxSequence
CONSTANTS Gateways, LocalAssets, ForeignAssets, ClockTolerance, MaxBridgeTime
CONSTANTS Observed, QuorumRounds
CONSTANTS FeedAssets, BasketKeys, FeedPrices, BasePrices, BaseStamps, Scale, WeightScale,
          Constituents, PartWeights, MaxConstituents, AgeLimits, DefaultAgeLimit, Threshold,
          MaxFeedTime
CONSTANTS Listable, AssetCaps, DefaultCap, PageSizes, MaxPage, BatchSizes, DefaultBatch,
          MaxRemovals
CONSTANTS Consumers, TickPrices, MaxCallbacks, TriggerCounts, TriggerBps, TriggerGaps,
          MaxDelivery
CONSTANTS Accounts, FirstOwner, Roles, GovernorOps, MaxEpoch
CONSTANTS Sources, Priced, SigningKeys, SourceCaps, Verifiable, Applicants, Candidates,
          Signers, MaxNonce, MaxProposals
CONSTANTS Fleet, IngestKeys, FailureThreshold, CooldownSecs, MaxOutages, MaxTimeouts, None

VARIABLES focus,
    seq, delay, ops, op_count, batches, batch_count, config, snapshots, versions, executed,
    time, gateway, endpoint, ax_trusted, lz_trusted, chain_known, ax_executed, inbound,
    mapping, registry, by_asset, active, stored, applied,
    vlast, returns, buckets, regime, pinned, settled,
    ftime, quoted, base, baskets, age_limit,
    listed, flagged, indexed, priced, asset_cap, sversion, cursor, removals, kept, walk,
    dclock, callbacks, subscribed, subscribers, flags, trigger, counted, fired_at,
    quorum_met, latest, published, aggregated, heard,
    owner, roles, holders, governor, epoch, grants, given, readers,
    registered, roster, named, verified_map, verified_key, claims, restricting, source_cap,
    committee, proposals, enrollment, signing_key, nonce, quotes, taken,
    failures, available, cooling, region, recorded, quarantined, call, told, landed,
    up, outages, timeouts

\* ConfigTimelock: the default delays, in units of the bound MaxSequence.
Defaults == [Urgent |-> 0, Normal |-> 1, LongTerm |-> 2]

\* Delays and quorums are u32, and MAX_CONFIG_HISTORY keeps something.
ASSUME TimelockAssumption ==
    /\ Delays \subseteq Nat /\ BatchFloor \in Nat
    /\ Quorums \subseteq Nat /\ Quorums # {}
    /\ MaxConfig \in Nat \ {0}

\* Bridges: two commands and a stream of two messages, on two foreign assets.
Commands == [c1 |-> [net |-> "axelar", id |-> 1, foreign |-> "f", price |-> 1, timestamp |-> 0],
             c2 |-> [net |-> "axelar", id |-> 2, foreign |-> "g", price |-> 2, timestamp |-> 1]]
Stream == <<[net |-> "lz", id |-> 1, foreign |-> "f", price |-> 3, timestamp |-> 1],
            [net |-> "lz", id |-> 2, foreign |-> "f", price |-> 1, timestamp |-> 0]>>

\* QuorumRegimes: the built-in buckets, two others and an invalid one.
DefaultBuckets == [boundaries |-> <<50, 500>>, quorums |-> <<1, 3, 5>>,
                   relax_after |-> 3, min_samples |-> 2, window |-> 2]
QuorumConfigs == {[DefaultBuckets EXCEPT !.relax_after = 2, !.window = 3],
                  [DefaultBuckets EXCEPT !.boundaries = <<500>>, !.quorums = <<1, 2>>],
                  [DefaultBuckets EXCEPT !.quorums = <<1, 2>>]}

\* DerivedFeeds: baskets of up to MaxConstituents parts.
Compositions ==
    UNION {[1..n -> [asset : Constituents, weight : PartWeights]] : n \in 1..MaxConstituents}

\* Prices, stamps, weights and ages are not negative; the scales are powers of ten.
ASSUME FeedsAssumption ==
    /\ FeedPrices \subseteq Nat /\ BasePrices \subseteq Int /\ BaseStamps \subseteq Nat
    /\ Scale \in Nat \ {0} /\ WeightScale \in Nat \ {0} /\ PartWeights \subseteq Nat
    /\ AgeLimits \subseteq Nat /\ DefaultAgeLimit \in Nat
    /\ MaxConstituents \in Nat /\ MaxFeedTime \in Nat /\ Constituents \subseteq FeedAssets

LegacyAssets == <<"a", "b">>

\* SourceAdmission: a committee of two, and one of a single approver.
Committees == {[approvers |-> {"x", "y"}, threshold |-> 2], [approvers |-> {"y"}, threshold |-> 1]}

Timelock == INSTANCE ConfigTimelock
Bridge == INSTANCE Bridges
Quorum == INSTANCE QuorumRegimes
Feeds == INSTANCE DerivedFeeds
Assets == INSTANCE AssetRegistry
Delivery == INSTANCE ConsumerDelivery
Access == INSTANCE AccessRoles
Admission == INSTANCE SourceAdmission

\* IngestFailover: two regions, in order of preference.
MCFleet == <<"r1", "r2">>
FleetRegions == {Fleet[i] : i \in DOMAIN Fleet}
Ingest == INSTANCE IngestFailover WITH Keys <- IngestKeys, active <- region

\* RegionRouter refuses an empty list of regions; None and the ledger marker
\* are neither a region nor a key, and None is no answer.
ASSUME IngestAssumption ==
    /\ Fleet \in Seq(FleetRegions) /\ Fleet # <<>>
    /\ None \notin FleetRegions \cup IngestKeys \cup {Ingest!Pending, "accepted"}
    /\ Ingest!Pending \notin FleetRegions

\* What was listed before the upgrade was listed once, no asset is the mark of
\* a first page, who applies or is proposed is a source, and the sizes and
\* caps are u32.
ASSUME ListsAssumption ==
    /\ LegacyAssets \in Seq(Listable) /\ Assets!IsInjective(LegacyAssets)
    /\ Assets!Start \notin Listable
    /\ PageSizes \subseteq Nat /\ MaxPage \in Nat
    /\ BatchSizes \subseteq Nat /\ DefaultBatch \in Nat
    /\ MaxCallbacks \in Nat
    /\ Applicants \subseteq Sources /\ Candidates \subseteq Sources

tvars == <<seq, delay, ops, op_count, batches, batch_count, config, snapshots, versions, executed>>
bvars == <<time, gateway, endpoint, ax_trusted, lz_trusted, chain_known, ax_executed, inbound,
           mapping, registry, by_asset, active, stored, applied>>
qvars == <<vlast, returns, buckets, regime, pinned, settled>>
dvars == <<ftime, quoted, base, baskets, age_limit>>
avars == <<listed, flagged, indexed, priced, asset_cap, sversion, cursor, removals, kept, walk>>
cvars == <<dclock, callbacks, subscribed, subscribers, flags, trigger, counted, fired_at,
           quorum_met, latest, published, aggregated, heard>>
rvars == <<owner, roles, holders, governor, epoch, grants, given, readers>>
svars == <<registered, roster, named, verified_map, verified_key, claims, restricting, source_cap,
           committee, proposals, enrollment, signing_key, nonce, quotes, taken>>
gvars == <<failures, available, cooling, region, recorded, quarantined, call, told, landed,
           up, outages, timeouts>>
vars == <<focus, tvars, bvars, qvars, dvars, avars, cvars, rvars, svars, gvars>>

Init ==
    /\ focus \in {"timelock", "bridges", "quorum", "feeds", "assets", "delivery", "subscribers",
                  "roles", "admission", "ingest"}
    /\ Timelock!Init /\ Bridge!Init /\ Quorum!Init /\ Feeds!Init
    /\ Assets!Init /\ Delivery!Init /\ Access!Init /\ Admission!Init
    /\ Ingest!Init

TimelockSteps ==
    /\ focus = "timelock" /\ UNCHANGED focus
    /\ Timelock!Next
    /\ UNCHANGED <<bvars, qvars, dvars, avars, cvars, rvars, svars, gvars>>
BridgeSteps ==
    /\ focus = "bridges" /\ UNCHANGED focus
    /\ Bridge!Next
    /\ UNCHANGED <<tvars, qvars, dvars, avars, cvars, rvars, svars, gvars>>
QuorumSteps ==
    /\ focus = "quorum" /\ UNCHANGED focus
    /\ Quorum!Next
    /\ UNCHANGED <<tvars, bvars, dvars, avars, cvars, rvars, svars, gvars>>
FeedSteps ==
    /\ focus = "feeds" /\ UNCHANGED focus
    /\ Feeds!Next
    /\ UNCHANGED <<tvars, bvars, qvars, avars, cvars, rvars, svars, gvars>>
AssetSteps ==
    /\ focus = "assets" /\ UNCHANGED focus
    /\ Assets!Next
    /\ UNCHANGED <<tvars, bvars, qvars, dvars, cvars, rvars, svars, gvars>>
\* Callbacks and subscribers share no state either.
DeliverySteps ==
    /\ focus \in {"delivery", "subscribers"} /\ UNCHANGED focus
    /\ Delivery!Next
    /\ focus = "subscribers" <=> subscribed' # subscribed
    /\ UNCHANGED <<tvars, bvars, qvars, dvars, avars, rvars, svars, gvars>>
RoleSteps ==
    /\ focus = "roles" /\ UNCHANGED focus
    /\ Access!Next
    /\ UNCHANGED <<tvars, bvars, qvars, dvars, avars, cvars, svars, gvars>>
AdmissionSteps ==
    /\ focus = "admission" /\ UNCHANGED focus
    /\ Admission!Next
    /\ UNCHANGED <<tvars, bvars, qvars, dvars, avars, cvars, rvars, gvars>>
IngestSteps ==
    /\ focus = "ingest" /\ UNCHANGED focus
    /\ Ingest!Next
    /\ UNCHANGED <<tvars, bvars, qvars, dvars, avars, cvars, rvars, svars>>
Next ==
    \/ TimelockSteps
    \/ BridgeSteps
    \/ QuorumSteps
    \/ FeedSteps
    \/ AssetSteps
    \/ DeliverySteps
    \/ RoleSteps
    \/ AdmissionSteps
    \/ IngestSteps

Spec == Init /\ [][Next]_vars

\* No delayed operation runs before its delay is over, and the configuration
\* history is the recent past of the configuration (ConfigTimelock); a grant
\* does not outlive the appointment of its governor (AccessRoles).
AuthorityHolds ==
    CASE focus = "timelock" -> Timelock!NothingEarly /\ Timelock!HistoryIsRecent
      [] focus = "roles" -> Access!GrantsDieWithAppointment
      [] OTHER -> TRUE
\* A bridged message is applied once and in its order (Bridges), and so is a
\* price signed for a source (SourceAdmission); no submission reaches the chain
\* twice, or is reported accepted without having reached it (IngestFailover).
AppliedOnce == CASE focus = "bridges" -> Bridge!BridgedOnce
                 [] focus = "admission" -> Admission!ProofsUsedOnce
                 [] focus = "ingest" -> Ingest!SubmittedOnce
                 [] OTHER -> TRUE
\* A cross rate is never above the exact quotient, and a basket is worth the
\* sum of its parts (DerivedFeeds).
FeedsExact == focus = "feeds" => Feeds!CrossRatesNeverHigh /\ Feeds!BasketIsItsParts
\* The lists kept beside a membership flag agree with it: the foreign assets
\* (Bridges), the assets and the pages read from them (AssetRegistry), the
\* callbacks and subscribers (ConsumerDelivery), the holders of a role
\* (AccessRoles) and the sources with their verification (SourceAdmission).
ListsExact ==
    CASE focus = "bridges" -> Bridge!RegistryExact
      [] focus = "assets" -> Assets!RegistryViewsAgree /\ Assets!PagesComplete
      [] focus \in {"delivery", "subscribers"} -> Delivery!DeliveryListsExact
      [] focus = "roles" -> Access!HoldersExact
      [] focus = "admission" -> Admission!RegistryExact
      [] OTHER -> TRUE
\* The damped regime is never laxer than the quorum that is read, and stricter
\* for a bounded number of observations (QuorumRegimes).
DampingBounded == focus = "quorum" => Quorum!DampingBounded
\* A newly aggregated price reaches every callback (ConsumerDelivery).
CallbacksHear == Delivery!CallbacksHear

=============================================================================
