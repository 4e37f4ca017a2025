# TLA+ models of the Stellar Unified Price Oracle

A verification project for the Soroban contract in `src/contracts/price-oracle` and the two
off-chain services that keep state of their own: TLA+ modules translated from the source, TLC
runs on small instances, and TLAPS proofs of the results that matter most for every instance.
Paths below such as `prices.rs` are relative to `src/contracts/price-oracle/src/`.
`PROJECT.json` maps every definition to the lines it models and lists the hazards the
properties are for.

Contents: 1 the system, 2 modules, 3 runs, 4 fairness, 5 proofs, 6 divergences found, 7 what is
not modelled, 8 plan.

## 1. The system

Permissioned sources send prices; the contract stores the last one per source and asset,
publishes an aggregate of the eligible ones when there are enough, and serves it. Around that
core sit the life of the sources, gates in front of a publication, the history behind it, other
ways for a price to arrive, money, governance and recovery. The contract is one process: a call
is a transaction, a panic rolls all of its writes back (so a refused call is no step), and a
re-entrancy flag keeps calls from nesting (`reentrancy.rs`). The concurrency is in the order of
calls by parties who do not coordinate: sources, keepers, relayers, bridges, governors,
guardians, the admin, anyone. The services run beside it and have threads, crashes and timeouts.

| part | state | hard parts | what makes it correct |
|---|---|---|---|
| submission and aggregation (`prices.rs`, `storage.rs`, `recompute.rs`) | submissions, aggregates, trigger times | five paths that aggregate and three that do not, with different guards; departures of counted sources; a bounded inline recomputation | an aggregated price is the median of what it claims to be, quorum-backed, never from the future; a departed source is withdrawn |
| policies and filters (`policy.rs`, `risk_tier.rs`, `freshness_*.rs`, `outlier_filter.rs`, `influence_cap.rs`) | settings in layers, one aggregate with its exclusions | layering per field; integer shares at the cap; previews that resolve the policy again | one source does not decide a robust round; no weight above the cap; previews tell the truth |
| source health and bonds (`sources.rs`) | heartbeats, misses, suspension and its date, bonds, treasury | a getter anyone may call that writes; ignored transfer failures | punctual sources are safe, suspended ones can return, the contract is solvent |
| source identity and admission (`source_lifecycle.rs`, `sources.rs`, `signed_submission.rs`) | records, owners, tombstones, registry, votes, evidence, keys, nonces | many ways to enter, move, leave and come back | one holder per identity; offboarding is final; probation is served; a signed price counts once |
| consensus rounds (`consensus_rounds.rs`) | rounds, votes, tallies, confirmation, penalties | permissionless calls, configuration changing in mid-run | tallies are final and follow an honest majority; confirmations stand on them and move forward |
| commit-reveal, optimistic proposals (`prices.rs`, `optimistic.rs`) | commitments; proposals | windows, lazy settlement racing disputes | rounds are blind; a proposal settles once, and settles |
| bridges (`axelar_gmp.rs`, `layerzero.rs`, `asset_registry.rs`) | executed commands, stream positions, mappings | repetition, reordering, retry after rollback | applied once, streams in order |
| gates (`blackout.rs`, `deferral.rs`, `price_bounds.rs`, `sanity_lattice.rs`) | windows, policies, status | lazily closed windows; settings changed under a waiting price | an asset cannot be kept dark; a published round passed every gate |
| history, finality, provenance, reads (`history.rs`, `storage_tier.rs`, `finality.rs`, `corrections.rs`, `provenance.rs`, `degradation.rs`) | ledger list, two stores, pending and final prices, revisions, hash-linked records, counters | three structures edited by five operations, one of which is expiry | readable exactly when listed; what was aggregated is explained; the newest final price is served; averages and counts exact |
| money (`challenger.rs`, `relayer*.rs`, `state_channel.rs`, `fee_market.rs`, `subscription.rs`, `auto_renewal.rs`) | bonds, rewards, deposits, fees, mandates | counters beside what they count; retries by anybody | every book agrees with what it stands for |
| multisig queue, timelock, configuration (`multisig.rs`, `timelock.rs`, `config_history.rs`) | linked list of operations, approvals, delays, snapshots | list surgery; approvals of departed governors; delays that change while something waits | order, quorum and delay as promised |
| admin control (`recovery.rs`, `dead_man.rs`, `pause.rs`, `emergency_pause.rs`) | admin, guardians, pending recovery, veto, dead-man state, pause flag | admin against guardians; one pause flag with several writers | recovery stands on the guardians and waits as announced; guardians prevail; service returns |
| roles, lists, delivery, derived feeds, adaptive quorum | grants by epoch, lists with flags, callbacks, baskets, regimes | lists and flags edited apart; rounding; damping | lists exact; callbacks hear what is aggregated; feeds never high; damping bounded |
| event indexer, ingest router (`services/indexer`, `services/ingest_failover`) | database, gaps, cursor, buffer; regions, ledger of submissions | crashes, missing ledgers, reorganisations; ambiguous timeouts | complete strictly below the trusted ledger, for exports that hold the cursor's ledger (`Careless` = FALSE); at most once; both finish |

Interactions: removal, suspension and pruning of a source call the recomputation, which re-enters
the aggregation; suspension forfeits the bond into the treasury; rotation carries the identity
record along; relayer challenges credit the rewards that price challenges debit; an aggregation
closes an expired blackout, writes history and provenance, and calls back consumers; the multisig
queue reads the timelock duration; the dead-man switch is cleared by the guardians of the recovery
and writes the pause flag every submission reads.

## 2. Modules

One module per component; its header says what it leaves to others. Where two components share
state they are one module: the blackouts are part of PublicationGates, the price challenges of
RelayerNetwork (both move `rewards`), the fee market of Subscriptions. Multisig refines
ApprovalQueue.

Core
- **PriceMath**: `compute_median` by rank. The code sorts or quick-selects; the model says which
  value the k-th smallest is. Even counts average with the code's rounding.
- **PriceOracle**: the publication core. `basis` is a history variable with the submissions each
  aggregate was computed from. A departure recomputes in the same action, at most
  `InlineRecompute` assets, which ones being open, as the iteration order of the registry decides
  it. `EntryPoints` selects the entry points of an instance. Every writer of `Aggregate(asset)` is
  an action: the aggregation behind submissions, departures and `recompute_asset_price`;
  `trigger_aggregation`; and three that aggregate nothing and leave `basis` empty, a finalised
  proposal (`write_price_snapshot`), `correct_price` and the migration. What allows those three is
  in OptimisticPrices, PriceFinality and AssetRegistry; here they may come at any time.
  Provenance, PriceFinality, PriceReads, AssetRegistry and ConsumerDelivery have the same writers
  as far as each sees them.
- **AggregationPolicy**: one asset, every layer of policy, the filters, weights and methods,
  `simulate_aggregation` and `get_weighted_aggregate`.
- **SourceHealth**, **SourceIdentity**, **SourceAdmission**: the same registry from three sides:
  heartbeats and custody; identities, probation and tombstones; the doors and what is kept beside
  the registry. Each allows what the others would forbid, so its safety results carry over.
- **ConsensusRounds**: `Faulty` sources may report any of `Prices`. Votes are a sequence per
  round because arrival order decides what is counted.

Publication
- **PublicationGates** (with the blackouts), **CommitReveal**, **PriceArchive**, **Provenance**,
  **PriceFinality**, **PriceReads**. A hash is the tuple of what it commits to.

Money
- **OptimisticPrices**, **RelayerNetwork** (relayers and price challenges), **StateChannels**,
  **Subscriptions** (with the fee market). Signatures are who signed what; tokens are what the contract holds.

Governance and operations
- **ApprovalQueue** / **Multisig**: the promise to the governors (pending operations executed
  oldest first, on enough present governors, without a gap for the timelock), and the linked list
  that implements it. `Multisig!PromiseKept` is the refinement, with
  `governors <- Range(governors)`; the list pointers have no abstract counterpart.
- **AdminControl**: stored ledger numbers are replaced by distances to now, saturated at
  `Horizon`, so the state space is finite without bounding the behaviours, and liveness is checked
  on endless ones. `pending.announced` is what `RecoveryReadyEvent` told the world.
- **ConfigTimelock**, **AccessRoles**, **AssetRegistry**, **ConsumerDelivery**, **Bridges**,
  **DerivedFeeds**, **QuorumRegimes**.

Services
- **EventIndexer**: the store and the pump with its two threads; a crash loses what was not
  committed. **IngestFailover**: one step per transport call, because regions fail between two.

**MC...**: instances. Parts that share no state are checked by one run with a `focus` chosen in
the initial state; the state space is the sum of the parts and not their product, and each
property looks at its own part: MCSources, MCConsensusRounds (with AggregationPolicy),
MCGovernance (Multisig and AdminControl), MCSettlement, MCPublication, MCOperations, and
MCProgress for what must happen in the end. The router is in two of them: its safety in
MCOperations, its liveness in MCProgress. **...Proofs**: TLAPS proofs, one module for each of
these compositions but the last, and PriceMathProofs for what they share. Definitions whose comment says
"slip" are single-mistake variants of the definition that follows; they are used to check that
each property can fail.

## 3. Runs

| run | what it asks | size |
|---|---|---|
| `churn` | PriceOracle: 3 sources, 3 prices; sources added, removed, batch-removed, lapsing and returning, quorum 1 or 2, every writer of the aggregate in between | 242k, 40 s |
| `sources` | SourceIdentity: 3 addresses, 2 identities, 4 ticks; SourceHealth: 2 sources, bonds 0 or 1, 3 ledgers | 2.0M, 2 min |
| `rounds` | ConsensusRounds: 3 sources, 1 faulty, an honest price and a near and a far one, 2 rounds, quorums 1 and 3, run lengths 1 and 2, 3 votes; AggregationPolicy: 4 reporters, 1 suspect, every pair of settings | 1.0M, 90 s |
| `governance` | Multisig: 3 operations, 3 addresses, a rotation with a duplicate and a newcomer, durations 0 and 1; AdminControl: 3 accounts, a guardian vector with a duplicate, delays 1 and 2 | 396k, 3 min |
| `settlement` | the money modules | 720k, 2½ min |
| `publication` | the publication modules, and PriceOracle with its asset administered | 1.0M, 3 min |
| `operations` | the operations modules, SourceAdmission and the router | 1.3M, 3 min |
| `progress` | liveness: keeper, operator, indexer, router | 61k, 2 min |
| `timestamp_regress`, `provenance_link`, `twap_concentrated`, `renewal_replay` | violations, section 6 | small |

What each property says is written above its definition; the wrappers in the MC modules name the
definitions of the parts. In short: `PublishedWithinContributors`, `MajorityBoundsPrice`,
`QuorumAtPublication` and `DepartureWithdraws` are about the aggregated price; `AggregateBounded` about one round under policies; `OneHolderPerIdentity`,
`OffboardedStaysOut`, `ProbationIsServed`, `HealthBooked`, `PunctualIsSafe` about sources;
`EvidenceExact`, `TallyFollowsHonestMajority`, `ConfirmedStandsOnTallies`, `RecordStands` about
rounds; `QueueThreadsPending`, `ApprovalsAreCurrent`, `TimelockRunsOnQuorum`, `PromiseKept`,
`AuthorityHolds`, `RecoveryStandsOnGuardians`, `AnnouncedDelayHolds`, `GuardiansPrevail`,
`ServiceReturns` about control; `BooksExact`, `RenewalsBounded`, `ProposalsSettle` about money;
`TimesRespected`, `RoundsRespectGates`, `RoundsAreBlind`, `HistoryReadable`, `ReadsExact` about the
way of a price; `AppliedOnce`, `ListsExact`, `FeedsExact`, `DampingBounded`, `CallbacksHear` about
the parts around it and the router, which counts a submission at most once; `IndexExact` and
`WorkIsFinished` about the indexer and what was put off.

Why the bounds are enough. Medians change character with parity and with a majority: three
sources with quorum 1 or 2 give one, two and three contributors. The version saturates at
`MaxVersion` = 1, so its top is reached. `churn` stops the clock and the lifecycle part of
`publication` lets it run, because ageing and churn together add states and no new interaction; that nothing is dated from the future
(`NotFromTheFuture`) is therefore asked of the lifecycle part, in `TimesRespected`.
Two assets with a budget of one are the smallest case with something deferred. The miss threshold
is the code's 3. In `governance`, three operations are the fewest with a head, a middle and a tail. In
`rounds`, two rounds with run lengths 1 and 2 give every case of a run; four reporters are the
fewest for which the outlier filters act and one is trimmed per side, and two settings reach every
pair of interacting layers. In `publication`, three ledgers with buckets of two reach a shard
boundary, an expiry and a cap of one; six ticks hold a window, its cooldown and another. In
`operations`, a stream of two and two commands show repetition, reordering and gaps; buckets with
`relax_after` 2 and 3 show a streak, its reset and its end. In `progress`, two forks that part at
the third of four ledgers with two events in a ledger and a batch of two show a ledger cut by a
batch and a reorganisation, and three faults show a fault during the recovery from another.
Symmetry is used only over values no constant distinguishes and in runs without leads-to
properties. Deadlock is checked in all passing runs.

## 4. Fairness

- `AdminControl!WatchedSpec`: ledgers close; anyone may submit `execute_recovery`; some guardian
  reacts to a trip. Nothing is assumed of the admin.
- `OptimisticPrices!Fairness`: ledgers close and somebody lists the active proposals, which settles
  the expired ones. Nothing is assumed of the admin who should rule.
- `PriceOracle!Keeping`: `recompute_asset_price` is permissionless, and `recompute.rs` emits
  `RecomputeDeferredEvent` for a keeper to act on. Weak fairness per asset.
- `SourceHealth!Operated`: the bot of `docs/price-submission-bot.md` sends heartbeats and retries
  prices and deposits. Strong fairness where other parties' calls can disable the step in between.
- `EventIndexer!Threads` and the restart: the two threads of the pump run, and a crashed process is
  started again. Faults are bounded by `MaxFaults`, so the export is complete from some point on.
- `IngestFailover!Routed` and the retry: a call proceeds, regions are probed and come back, the
  clock runs, and the caller retries what was not delivered.

No liveness is stated for consensus rounds: `start_round` may replace a round at any time. None is
stated for the fee market: a submission at the head that the price path rejects undoes every call.

## 5. Proofs

Eight modules of proofs. The constants are arbitrary under the named assumptions of each module,
which TLC evaluates in the runs. The assumptions are the ranges of the Rust types (`u32` sizes and
windows are naturals, `i128` amounts integers), what the setters refuse (a window or a history of
zero), and that the marker for an absent entry is not an entry (`AbsentAssumption`). Where a run
composes several modules, the proof is about the composition, and a few inputs are definitions of
the MC module and so fixed in the theorem too: the bridged `Commands` and `Stream`, `LegacyAssets`,
the `Committees`, `DefaultBuckets` and `QuorumConfigs` in MCOperations, `Policies` and `Relations` in
MCPublication, and its `Lifecycle`, which is PriceOracle with two sources and one asset. In
MCConsensusRounds the policies, curves, filters and volumes are constants (`PolicyAssumption`:
finitely many reporters, positive prices, volumes and settings that are naturals), in MCSettlement every input is (`SettlementAssumption`: amounts, windows and periods are
integers; nothing is assumed of their sign, which the code tests), and in MCOperations the regions
of the router are (`IngestAssumption`: at least one region, as `RegionRouter` demands).

### The results and the invariants they stand on

An invariant a run checks is seldom inductive. What had to be added says how the code keeps it.

- **PriceOracleProofs**: `TypeCorrect`; `MedianInvariant` (every aggregate that was computed is the median
  of its `basis` and counts it), from which `PublishedWithin` and `MajorityBounds` follow by the two
  theorems on the median; `NeverFromTheFuture`, whose invariant needs the stored submissions as
  well as the aggregates, because recomputation publishes old submissions; `QuorumBacked`, over
  every writer: what is aggregated has the quorum in force, and a claim of more than one source
  without an override is a count of contributors. It cannot say that every published price has
  the quorum, as a proposal's has not (section 6). `DepartureIsWithdrawn` has hypotheses, because
  without them the code does not keep it: it asks that the inline budget covers the assets (otherwise the rest
  is deferred, and `WorkIsFinished` is what holds) and that every source heartbeats (a source that
  never did lapses without a recomputation). It rests on `ContributorsStored`: no call
  deletes the submission of a contributor.
- **SourceIdentityProofs**: types, `GraduatedIsPastTerm` (which ties the owner entry of each
  identity in use to its holder) and `OffboardedStaysOut`. Uniqueness of the holder alone is not
  inductive: a rotation needs to know that the owner entry points back. `ProbationCannotBeShed`
  is an action property on top. For SourceHealth, `HealthIsBooked` (`BondsBacked`: holdings cover
  the sum of the bonds and the treasury, each operation moving one summand), `SuspensionsAreDated`
  and `PunctualStaysActive`, from `HealthKept`.
- **ConsensusRoundsProofs**: `EvidenceIsExact`, `TallyIsHonest`, `ConfirmationIsBacked`,
  `RecordIsFinal`. The invariant has four parts: `Openings` (rounds open in the order
  of the ledger and no vote precedes its round), `OneVoteEach`, `TalliesAreMedians` and `ConfirmedRounds`. A confirmation is
  backed by a run of tallies, and stays so since tallies are final. `OneSourceNeverDecides`
  (`AggregateBounded`) is about one aggregation under any layers of policy. Its invariant is small
  (`PolicyKept`: no entry is from the future, weights and caps are in range); the work is in what
  the algorithms compute. An entry of a sorted vector that has another on each side lies between
  two values of other sources (`InnerEntriesHonest`), a fence keeps the quartiles it is built on
  (`FenceKeepsQuartiles`), so what it leaves still surrounds the median; each pass of the influence
  cap lowers weights, and the last one holds or leaves equal weights (`CapLaw`); and where the
  capped suspect holds less than half, the others reach the weighted median (`PriceHonest`).
- **GovernanceProofs**: for the queue the three checked invariants and the fact that a pending
  operation needs at least one approval. `QueueKeepsPromise` is the refinement: every step of the
  linked list is a step of ApprovalQueue or a stutter. For the admin key `RecoveryOnGuardians` and
  `AnnouncedDelay`: the announced wait is exactly the remainder of the delay, which is preserved
  because the delay is locked while a recovery is pending.
- **SettlementProofs**: `BooksStayExact` and `RenewalsStayBounded`, from one invariant with a part
  for each book: `ProposalsKept` (a proposal wrote a price exactly when its outcome is
  approval), `BondsKept` (holdings are the sum of the bonds and the treasury), `ChallengesKept`
  (each counter is the number of challenges it counts), `ChannelsKept` (escrow is the sum of the
  open deposits, and the stored state the newest accepted), `FeesKept` (the pool is the sum of the
  waiting fees, the balances and the treasury) and `RenewalsKept` (every period a mandate was used
  for is closed, within the largest ceiling given). The fee queue is served in the middle and cut, so its sums need
  `Prefixes`, `PutIn` and `CutOff`: what an insertion adds and a cut removes.
- **PublicationProofs**: `GatesAreRespected`; `RoundsStayBlind` (`RoundsApart`: commit and reveal
  ledgers of one round do not meet unless a window changed); `TimeIsRespected` (`WindowsSpaced`
  for the cooldown between blackouts, `Dated` for the asset under administration);
  `HistoryIsReadable` (`HistoryKept`: list, shards and temporary entries agree ledger by ledger in
  the presence of expiry, and `ProvenanceKept`); `ReadsAreExact` (`SnapshotsKept` for the average,
  `CountsKept` for the degraded reads, `FinalityKept`, `RevisionsKept`).
- **OperationsProofs**: `AuthorityIsHeld` (`TimelockKept`, `GrantsAreDated`: no grant is of an
  epoch to come, so none survives the next one); `NothingAppliedTwice` (`BridgesRemember`,
  `NoncesRise`, and `RouterKept` for the ingest router: what the ledger holds under a
  region landed once, what it does not hold or only intends did not, and the intended one is the
  one of the running call);
  `DampingStaysBounded` (`RegimeInv`: a damped transition ends on the bucket that is read, or
  above it with a streak that is still too short); `CallbacksAreHeard` (`CallbacksFlagged`); `FeedsAreExact` (`FeedsKept`; the rounding of
  a cross rate and the order-free sum of a basket); `ListsAreExact`. The last one needs, for each
  list, that it names the members of its flag once each, and for the walk over asset pages
  (`WalkGoesOn`) that of the assets that stayed registered exactly those up to the cursor have been
  returned: a newcomer enters at the end, and a removal keeps the order of the others.

### The lemmas they share

**PriceMathProofs** has what several proofs need. `MedianWithin` and `MedianFollowsMajority` follow
from the rank definition by counting: the values at most the median and the values at least the
median each hold half of the family, so each meets any majority. Folds over sets and sequences are
unfolded through `FoldingExists` and the recursive function behind them; sums are shown free of
order, additive, and changed by one summand when one entry changes. `LeastNatural` and `Climb`
replace induction over data by the argument from a least counterexample. `Once`, `Precedes` and
`Through` are about lists without repetition: filtering, appending, renaming, cutting and joining
keep them so. Filters of lists are folds in the models, as the loops of the source push what they
keep to a new `Vec`; the prover cannot see into `SelectSeq`.

### What is only model-checked, and why

- `GuardiansPrevail`, `ServiceReturns`, `ProposalsSettle`, `WorkIsFinished`: liveness under fairness,
  which the prover does not do.
- `IndexExact`: the export and the batches of the pump are flattened and selected sequences; see
  section 8.

RECURSIVE operators are outside the prover too, so no module uses one. The median is defined by
rank and not by the code's selection loop.

## 6. Where the code and the documents disagree

### Shown by a run

- `timestamp_regress`: the published timestamp can go back (invariant S5 of
  `docs/security/invariants.md`); only recomputation prevents it.
- `renewal_replay`: `enable_auto_renewal` starts the nonces again at 0 and keeps the authorisations
  of the earlier grant (`auto_renewal.rs:205`), so after one renewal under a new, smaller mandate
  the nonces meet again and a stored authorisation of the old one pays for the next period, above
  the new ceiling (`auto_renewal.rs:23` and 177 say otherwise). `RenewalsBounded` is what does
  hold: never more periods than granted, each within a ceiling the consumer once gave, none twice.
- `provenance_link`: `head_before` returns the oldest retained record instead of the newest before
  the given one, so the third genuine record of an asset and every later one fail verification.
- `twap_concentrated`: a window that rests on one observation is reported as two and as not
  concentrated, because the live aggregate is counted beside its own snapshot.

### Stated by a definition that no run checks, because the code does not keep it

- `ConsensusRounds!MedianIsHonest`: one faulty source of four moves a round's median
  (`docs/consensus-rounds.md:42-45`), as the first votes to arrive are counted.
- `SourceHealth!PrunedAfterFullTerm`: a deposit reactivates a source and leaves the date of its
  suspension, so a later suspension is pruned early (`sources.rs:1683`).
- `PublicationGates!NothingPublishedInBlackout`: `trigger_aggregation` does not ask (`blackout.rs:4-5`).
- `QuorumRegimes!PinnedQuorumStands`: pinning again overwrites the pinned quorum.
- `DerivedFeeds!NoNestedBasket` (`basket.rs:59`), `AssetRegistry!MigratedAll` (`migration.rs:185-189`),
  `EventIndexer!SourceFollowsEvents` (`docs/indexer.md:107-109`; late events of an earlier ledger),
  `PriceArchive!ReadersAgree` (the tier-routed reader sees one store, `lib.rs:3057`).

### Met while modelling

Aggregation:
- A finalised or upheld proposal is published with `num_sources` = 1 and no override mark whatever
  the quorum (`optimistic.rs:82-92`, called at 168, 302 and 384), against invariant S6
  (`docs/security/invariants.md:38`); the asset need not be registered any more.
  `QuorumAtPublication` says what does hold.
- `trigger_aggregation` writes version 0 (`prices.rs:2328`), so the version is not the monotone
  counter `prices.rs:1831-1836` promise to consumers that poll it; it counts suspended sources, and
  asks neither for a freeze nor for a disabled asset.
- `submit_prices` has neither the disabled-asset nor the out-of-order check of `submit_price`, and
  the deviation breaker returns in the middle of its storing loop (`prices.rs:373`), though the
  call is documented as atomic. `recompute_asset_price` and a finalised
  proposal publish for a delisted asset (`lib.rs:6851`, `prices.rs:532`, `optimistic.rs:163`), so an
  `Aggregate` does not say that its asset is listed.
- A risk tier's aggregation method is never applied (`docs/asset-risk-tiers.md:44-46`): the
  aggregation resolves the method without the tier. With a tier, expired submissions are dropped
  by the policy window before they are counted as stale (`prices.rs:735-748`).
- At the default cap a lone fresh source can hold half the weight and pull the weighted median
  half way (`freshness_weight.rs:22-25`, 137-141). The deviation filter drops both halves of an
  even split. Method 3 is documented as a weighted median and computes a volume-weighted mean
  (`admin.rs:639`).
- The IQR detector excludes a value whose distance past the fence is itself beyond the sensitivity
  (`docs/outlier-filtering.md`). After the filters the list of sources is not filtered with the
  prices, so provenance and scorecards pair prices with other sources (`prices.rs:816-824`, 1001).
- `simulate_aggregation` ignores policies and two methods.
- With a tolerance of two and five contributors the mean is not bounded by honest prices
  (`types.rs:251`): the fence may drop an honest outlier, the trim is skipped when it would leave
  nothing (`prices.rs:215-227`), and the mean of 1000, 1010, 1010 and a faulty 1025 is 1011.
  `AggregateBounded` claims it for the robust methods and for one suspect.

Sources:
- Removal keeps the `Submission` entries, so a source added again is counted with what it sent
  before (`docs/security/state-machine-model.md:68`). Signing key, verification and claims survive
  pruning, and the key survives a rotation.
- A source that lapses without ever having sent a heartbeat is flagged without recomputation and
  without forfeiture (`sources.rs:645-665`). Misses are counted per call, not per interval. A
  rotation or pruning leaves the bond under the old address, and a rotation drops a suspension.
- `record_invalid_submission` is always followed by a panic, so disqualification is unreachable;
  `mark_source_for_removal` requires an entry nothing writes (`sources.rs:898`).
- `add_source_with_assets` and `activate_source` bypass the approvers; approvals of replaced
  approvers still count; `remove_sources` is not "equivalent to removing them one at a time".
- Removing an asset from a source without restrictions bars it from every asset.

Rounds and arrival:
- `start_round` has no deadline test, so `abandon_stalled_round` ("cannot be griefed into restart")
  can be sidestepped. `report_equivocation` needs only that the vote exists.
- Changing the commit window in mid-round can reopen a round; the commit hash covers the source,
  which `lib.rs:4906` omits.
- Axelar messages are unordered and bridged prices are not compared with the stored timestamp; a
  LayerZero message that always fails blocks its stream.
- `resolve_via_external_data` accepts a price of zero or less. A channel batch hash omits the source
  although its comment includes it (`state_channel.rs:74-80`), and nonces restart after reopening.

Publication and reading:
- `clear_quarantine` has no entry point (`docs/sanity-lattice.md:41`); a Triangle relation compares
  with one peer (`sanity_lattice.rs:18`, 358-364); the deferral status says Published although a
  later gate may block.
- `lastprice`, `price`, `prices` and the averages ignore freeze, override and disabling; only
  `prices` returns nothing when the dead-man switch has degraded the contract.
- One degraded read per window is never emitted again by the sampler; pruning drops one window
  exactly. The bound on a single observation's pull fails while history is shorter than the window
  (`docs/aggregation-hardening.md:81-82`). Corrections do not retract pending finality entries.
- Orphaned provenance records outlive compaction and pruning (`docs/provenance.md:75`), and the
  trimming by a proposal (`optimistic.rs:125-134`), though "a record can never outlive its history
  entry" (`prices.rs:1102-1105`). A proposal's own snapshot has no record (the only caller of
  `provenance::record` is `prices.rs:1035`), or the record of an aggregation it wrote over.
- The chain of revisions begins with the first aggregation or correction, not with "the very first
  publication" (`prices.rs:1202`): `trigger_aggregation`, a proposal and the migration write a price
  without opening it, and delisting removes the price and keeps the chain. `RevisionsExplain` is
  about the corrections and the prices marked as such.
- A price that was never a snapshot (skipped within the threshold, triggered, corrected) is in a
  time-weighted average only while it is live; `TwapExact` is the mean of what is on record.

Governance, money, operations:
- Governor and guardian vectors may hold duplicates, which can make a threshold unreachable; an
  operation that recorded a threshold above the size of a later governor set blocks the queue
  until it is cancelled; execution uses the timelock duration of that moment.
- "One veto per candidate" (`recovery.rs:231`): only the last vetoed candidate is remembered, and
  cancelling before quorum is unlimited. `GuardiansPrevail` says what does hold.
- "The pause flag is only ever set by this module" (`dead_man.rs:290`): pause and emergency pause
  set it too, and `recover` lifts them. With no heartbeat ever sent the first evaluation trips.
- `emergency_pause.rs:4` promises an automatic end; `auto_unpause_if_due` has no caller.
- `batch_required_delay` reads a key nothing writes; `execute_operation` only removes the entry; a
  rollback restores the pause flag and the timelock duration too.
- `get_regime`, `effective_quorum` and `pin_round_quorum` classify the window itself
  (`adaptive_quorum.rs:285-350`) and nothing that sets a quorum reads the damped regime: one calm
  report lowers the quorum at once, against `adaptive_quorum.rs:34-38` and
  `docs/adaptive-quorum.md:45-56`. `DampingBounded` says how far the two part. The damped regime
  relaxes to a bucket that held only once (`adaptive_quorum.rs:27-28`); a price of zero counts as
  calm, and a round can be pinned again. `worst_staleness` ignores unusable constituents (`basket.rs:53-54`).
- Callbacks are promised "whenever a new aggregate price is published" (`price_callback.rs:4-5`, 48);
  `trigger_aggregation`, a proposal and a correction call nobody (the only call is `prices.rs:1192`).
  `CallbacksHear` is about what is aggregated elsewhere. A submission that fires a trigger aggregates
  and calls back twice. Admin operation limits and
  `is_governor_op_allowed` gate nothing.
- `challenge_relayed_submission` slashes without looking for a submission; a subscription refund
  pays another token than was charged, and its payment record is never written.
- The router's failure counter counts refused submissions and is not reset by successful ones; the
  pump never goes back to a gap it crossed with `allow_gaps`.

## 7. Not modelled

- Cryptography and byte formats: `zk_verify.rs`, `price_proof.rs`, bridge payloads, VDFs, the
  authenticity checks of the indexer. Signatures appear as who signed what.
- Numeric reports over published prices (AMM, exotic pricing, correlation, scorecards, audit log,
  explanations): they write nothing a transition reads.
- Modules without an entry point or a caller: the alerting family, Wormhole, IBC and Ethereum
  bridges, analytics, staged rollout, blue-green, treasury budget, rebates, rotation schedules,
  transparency reports, OHLCV, the maintenance calendar, the emergency council, reward appeals,
  pruning by timestamp. The circuit breaker never opens (`prices.rs:304-312`).
- Storage rent, except that temporary entries expire; events and wording; roles in front of admin
  calls (the models let the admin do everything an admin may, roles are in AccessRoles); the other
  services, SDKs and the minimal oracle.
- Arithmetic is on naturals: prices are checked positive on entry and the code's sums and averages
  saturate or average as `lower + (upper - lower) / 2`, which cannot overflow for positive `i128`.

## 8. Plan

1. Done: all parts of the table in section 1, their runs, and the eight modules of proofs.
2. Proof to add: `TrustedLedgersWhole` of EventIndexer.
3. Models to add: an abstract specification "nothing runs before its delay or after its expiry"
   for ConfigTimelock, and the price challenges composed with the correction they lead to.
