------------------------- MODULE PriceOracleProofs -------------------------
(***************************************************************************)
(* Safety of the publication core for every set of sources and assets,     *)
(* every quorum and every choice of entry points.                          *)
(*                                                                         *)
(* Each action that writes an aggregate either leaves it alone, withdraws  *)
(* it, publishes the median of a quorum of stored submissions, or writes a *)
(* price no submission backs that claims at most one source or is an       *)
(* override (PublishStep).  The theorems below only reason about that      *)
(* summary.                                                                *)
(***************************************************************************)
EXTENDS PriceOracle, PriceMathProofs

Submissions == [Assets -> [Sources -> PriceEntry \cup {None}]]

\* A record of contributors: a nonempty set of sources with their entries.
IsBasis(b) ==
    /\ DOMAIN b \subseteq Sources
    /\ DOMAIN b # {}
    /\ b \in [DOMAIN b -> PriceEntry]

\* g is an aggregate published from b under the quorum in force.
PublishedFrom(g, b) ==
    /\ g \in AggregatePrice
    /\ g.price = PriceOf(b)
    /\ g.num_sources = Cardinality(DOMAIN b)
    /\ g.num_sources >= minSources
    /\ ~g.is_override

\* g is the entry of a proposal, a correction or the migration.
WrittenDirectly(g) ==
    /\ g \in AggregatePrice
    /\ g.timestamp <= ledger + Threshold
    /\ g.num_sources <= 1 \/ g.is_override

\* What one transaction may do to the aggregate of asset a.
PublishStep(a, subs) ==
    \/ aggregate'[a] = aggregate[a] /\ basis'[a] = basis[a]
    \/ aggregate'[a] = None /\ basis'[a] = NoBasis
    \/ WrittenDirectly(aggregate'[a]) /\ basis'[a] = NoBasis
    \/ /\ IsBasis(basis'[a])
       /\ \A s \in DOMAIN basis'[a] :
             subs[a][s] # None /\ basis'[a][s] = subs[a][s]
       /\ PublishedFrom(aggregate'[a], basis'[a])
       /\ \/ aggregate'[a].timestamp = TimestampOf(basis'[a])
          \/ aggregate[a] # None /\ aggregate'[a].timestamp = aggregate[a].timestamp

PublishSteps(subs) ==
    /\ aggregate' \in [Assets -> AggregatePrice \cup {None}]
    /\ DOMAIN basis' = Assets
    /\ \A a \in Assets : PublishStep(a, subs)

-----------------------------------------------------------------------------

\* The prices and the timestamps of a basis are families in the sense of
\* PriceMathProofs, so the median and the latest timestamp are natural numbers.
LEMMA BasisFamilies ==
    ASSUME NEW b, IsBasis(b)
    PROVE  /\ Family([s \in DOMAIN b |-> b[s].price])
           /\ Family([s \in DOMAIN b |-> b[s].timestamp])
           /\ IsFiniteSet(DOMAIN b)
           /\ Cardinality(DOMAIN b) \in Nat
           /\ PriceOf(b) \in Nat
           /\ TimestampOf(b) \in Nat
<1> DEFINE prices == [s \in DOMAIN b |-> b[s].price]
           times  == [s \in DOMAIN b |-> b[s].timestamp]
<1>1. IsFiniteSet(DOMAIN b) /\ Cardinality(DOMAIN b) \in Nat
  BY PriceOracleAssumptions, FS_Subset, FS_CardinalityType DEF IsBasis
<1>2. \A s \in DOMAIN b : b[s].price \in Nat /\ b[s].timestamp \in Nat
  BY PriceOracleAssumptions DEF IsBasis, PriceEntry
<1>3. Family(prices) /\ DOMAIN prices # {}
  BY <1>1, <1>2 DEF Family, IsBasis
<1>4. Family(times)
  BY <1>1, <1>2 DEF Family
<1>5. PriceOf(b) \in Nat
  BY <1>3, MedianWithin DEF PriceOf
<1>6. TimestampOf(b) \in Nat
  BY <1>4, LatestBound DEF TimestampOf
<1> QED  BY <1>1, <1>3, <1>4, <1>5, <1>6

\* The contributors of a quorum of stored submissions form a basis.
LEMMA BasisOfQuorum ==
    ASSUME NEW a \in Assets, NEW subs \in Submissions, NEW C \in SUBSET Sources,
           C # {}, \A s \in C : subs[a][s] # None
    PROVE  /\ IsBasis(BasisOf(a, subs, C))
           /\ DOMAIN BasisOf(a, subs, C) = C
           /\ \A s \in C : BasisOf(a, subs, C)[s] = subs[a][s]
<1>1. \A s \in C : subs[a][s] \in PriceEntry
  BY DEF Submissions
<1> QED  BY <1>1 DEF BasisOf, IsBasis

\* aggregate_asset_mode publishes only from an eligible quorum.
LEMMA AggregateAssetsPublishes ==
    ASSUME TypeOK, NEW A, NEW subs \in Submissions, NEW srcs \in SUBSET Sources,
           NEW inact, NEW recompute \in BOOLEAN,
           AggregateAssets(A, subs, srcs, inact, recompute)
    PROVE  PublishSteps(subs)
<1> DEFINE C(a) == Eligible(a, subs, srcs, inact)
           B(a) == BasisOf(a, subs, C(a))
           On(a) == a \in A /\ Reaches(C(a))
<1>1. /\ aggregate' = [a \in Assets |->
            IF On(a) THEN Published(a, B(a), recompute) ELSE aggregate[a]]
      /\ basis' = [a \in Assets |-> IF On(a) THEN B(a) ELSE basis[a]]
  BY DEF AggregateAssets
<1>2. ASSUME NEW a \in Assets, On(a)
      PROVE  /\ IsBasis(B(a))
             /\ \A s \in DOMAIN B(a) : subs[a][s] # None /\ B(a)[s] = subs[a][s]
             /\ PublishedFrom(Published(a, B(a), recompute), B(a))
             /\ \/ Published(a, B(a), recompute).timestamp = TimestampOf(B(a))
                \/ /\ aggregate[a] # None
                   /\ Published(a, B(a), recompute).timestamp = aggregate[a].timestamp
  <2>1. C(a) \in SUBSET Sources /\ C(a) # {} /\ \A s \in C(a) : subs[a][s] # None
    BY <1>2 DEF Eligible, Reaches
  <2>2. /\ IsBasis(B(a)) /\ DOMAIN B(a) = C(a)
        /\ \A s \in C(a) : B(a)[s] = subs[a][s]
    BY <2>1, BasisOfQuorum
  <2>3. /\ PriceOf(B(a)) \in Nat /\ TimestampOf(B(a)) \in Nat
        /\ Cardinality(DOMAIN B(a)) \in Nat
    BY <2>2, BasisFamilies
  <2>4. aggregate[a] # None => aggregate[a] \in AggregatePrice
    BY DEF TypeOK
  <2>5. Cardinality(DOMAIN B(a)) >= minSources
    BY <1>2, <2>2 DEF Reaches
  <2> HIDE DEF B, C
  <2>6. /\ PublishedFrom(Published(a, B(a), recompute), B(a))
        /\ \/ Published(a, B(a), recompute).timestamp = TimestampOf(B(a))
           \/ /\ aggregate[a] # None
              /\ Published(a, B(a), recompute).timestamp = aggregate[a].timestamp
    BY <2>3, <2>4, <2>5 DEF Published, Saturating, PublishedFrom, AggregatePrice
  <2> QED  BY <2>1, <2>2, <2>6
<1> HIDE DEF B, On
<1>3. ASSUME NEW a \in Assets
      PROVE  PublishStep(a, subs) /\ aggregate'[a] \in AggregatePrice \cup {None}
  <2>1. CASE On(a)
    BY <1>1, <1>2, <2>1 DEF PublishStep, PublishedFrom
  <2>2. CASE ~On(a)
    BY <1>1, <2>2 DEF PublishStep, TypeOK
  <2> QED  BY <2>1, <2>2
<1> QED  BY <1>1, <1>3 DEF PublishSteps

\* recompute_bounded publishes nothing else.
LEMMA RecomputeAssetsPublishes ==
    ASSUME TypeOK, NEW affected, NEW srcs \in SUBSET Sources, NEW inact,
           RecomputeAssets(affected, srcs, inact)
    PROVE  PublishSteps(submission)
<1>1. PICK A \in SUBSET {a \in affected : aggregate[a] # None} :
         AggregateAssets(A, submission, srcs, inact, TRUE)
  BY DEF RecomputeAssets
<1>2. submission \in Submissions
  BY DEF TypeOK, Submissions
<1> QED  BY <1>1, <1>2, AggregateAssetsPublishes

\* A step that writes neither the aggregates nor their bases.
LEMMA UnchangedPublishes ==
    ASSUME TypeOK, UNCHANGED <<aggregate, basis>>
    PROVE  PublishSteps(submission')
BY DEF TypeOK, PublishSteps, PublishStep


\* trigger_aggregation publishes from a quorum of stored submissions.
LEMMA TriggerPublishes ==
    ASSUME TypeOK, NEW a \in Assets, trigger_aggregation(a)
    PROVE  PublishSteps(submission)
<1> DEFINE b == BasisOf(a, submission, Stored(a))
           g == [price |-> PriceOf(b), timestamp |-> TimestampOf(b),
                 num_sources |-> Cardinality(DOMAIN b), version |-> 0,
                 is_override |-> FALSE]
<1>1. /\ Reaches(Stored(a))
      /\ aggregate' = [aggregate EXCEPT ![a] = g]
      /\ basis' = [basis EXCEPT ![a] = b]
  BY DEF trigger_aggregation
<1>2. /\ Stored(a) \in SUBSET Sources /\ Stored(a) # {}
      /\ \A s \in Stored(a) : submission[a][s] # None
      /\ submission \in Submissions
  BY <1>1 DEF Stored, Reaches, TypeOK, Submissions
<1>3. /\ IsBasis(b) /\ DOMAIN b = Stored(a)
      /\ \A s \in Stored(a) : b[s] = submission[a][s]
  BY <1>2, BasisOfQuorum
<1>4. PriceOf(b) \in Nat /\ TimestampOf(b) \in Nat /\ Cardinality(DOMAIN b) \in Nat
  BY <1>3, BasisFamilies
<1>5. Cardinality(DOMAIN b) >= minSources
  BY <1>1, <1>3 DEF Reaches
<1> HIDE DEF b
<1>6. PublishedFrom(g, b) /\ g.timestamp = TimestampOf(b)
  BY <1>4, <1>5 DEF PublishedFrom, AggregatePrice
<1> HIDE DEF g
<1> QED  BY <1>1, <1>2, <1>3, <1>6 DEF PublishSteps, PublishStep, PublishedFrom, TypeOK

\* A proposal, a correction or the migration writes one entry without a basis.
LEMMA WriteDirectlyPublishes ==
    ASSUME TypeOK, WriteDirectly
    PROVE  /\ PublishSteps(submission)
           /\ UNCHANGED <<ledger, adminVars, sources, inactive, submission, lastTrigger>>
<1>1. ledger \in Nat /\ Threshold \in Nat /\ ledger <= ledger + Threshold /\ 0 <= ledger + Threshold
  BY PriceOracleAssumptions DEF TypeOK
<1>2. \A v \in Nat : Saturating(v) \in Nat
  BY DEF Saturating
<1>3. \A c \in Assets : aggregate[c] # None =>
         /\ aggregate[c] \in AggregatePrice /\ aggregate[c].version \in Nat
         /\ aggregate[c].num_sources \in Nat /\ Saturating(aggregate[c].version) \in Nat
  BY <1>2 DEF TypeOK, AggregatePrice
<1>4. ASSUME NEW c \in Assets, NEW g, WrittenDirectly(g), Write(c, g)
      PROVE  /\ PublishSteps(submission)
             /\ UNCHANGED <<ledger, adminVars, sources, inactive, submission, lastTrigger>>
  BY <1>4 DEF Write, WrittenDirectly, PublishSteps, PublishStep, TypeOK
<1>5. ASSUME NEW c \in Assets, NEW p \in Prices \cup {0}, NEW t \in Timestamps,
             write_price_snapshot(c, p, t)
      PROVE  \E g : WrittenDirectly(g) /\ Write(c, g)
  <2> DEFINE g == [price |-> p, timestamp |-> t, num_sources |-> 1,
                   version |-> IF aggregate[c] = None THEN 0
                               ELSE IF aggregate[c].price # p THEN Saturating(aggregate[c].version)
                               ELSE aggregate[c].version,
                   is_override |-> FALSE]
  <2>1. Write(c, g) /\ t <= ledger + Threshold /\ p \in Nat /\ t \in Nat
    BY <1>5, PriceOracleAssumptions DEF write_price_snapshot
  <2>2. WrittenDirectly(g)
    BY <1>3, <2>1 DEF WrittenDirectly, AggregatePrice
  <2> QED  BY <2>1, <2>2
<1>6. ASSUME NEW c \in Assets, NEW p \in Prices, correct_price(c, p)
      PROVE  \E g : WrittenDirectly(g) /\ Write(c, g)
  <2> DEFINE g == [price |-> p, timestamp |-> ledger,
                   num_sources |-> aggregate[c].num_sources,
                   version |-> Saturating(aggregate[c].version), is_override |-> TRUE]
  <2>1. Write(c, g) /\ aggregate[c] # None /\ p \in Nat
    BY <1>6, PriceOracleAssumptions DEF correct_price
  <2>2. WrittenDirectly(g)
    BY <1>1, <1>3, <2>1 DEF WrittenDirectly, AggregatePrice
  <2> QED  BY <2>1, <2>2
<1>7. ASSUME NEW c \in Assets, migrate_v1_to_v2(c)
      PROVE  \E g : WrittenDirectly(g) /\ Write(c, g)
  <2> DEFINE g == [price |-> 0, timestamp |-> 0, num_sources |-> 0, version |-> 0,
                   is_override |-> FALSE]
  <2>1. Write(c, g)
    BY <1>7 DEF migrate_v1_to_v2
  <2>2. WrittenDirectly(g)
    BY <1>1 DEF WrittenDirectly, AggregatePrice
  <2> QED  BY <2>1, <2>2
<1> QED  BY <1>4, <1>5, <1>6, <1>7 DEF WriteDirectly

-----------------------------------------------------------------------------
(* One step of the system *)

\* A stored submission is kept, or replaced by one inside the time tolerance.
SubmissionStep(a, s) ==
    \/ submission'[a][s] = submission[a][s]
    \/ submission'[a][s] # None /\ submission'[a][s].timestamp <= ledger + Threshold

StepSummary ==
    /\ ledger' \in Nat /\ ledger' >= ledger
    /\ submission' \in Submissions
    /\ \A a \in Assets, s \in Sources : SubmissionStep(a, s)
    /\ PublishSteps(submission')

\* The part of TypeOK that concerns neither submissions nor aggregates.
RegistryOK ==
    /\ paused \in BOOLEAN
    /\ registered \subseteq Assets
    /\ disabled \subseteq Assets
    /\ frozen \subseteq Assets
    /\ sources \subseteq Sources
    /\ inactive \subseteq Sources
    /\ minSources \in Quorums
    /\ lastTrigger \in [Assets -> Nat \cup {None}]

\* Submitting: the entries written are typed and inside the tolerance.
LEMMA SubmitStep ==
    ASSUME TypeOK, NEW s \in Sources, Submit(s)
    PROVE  StepSummary /\ RegistryOK'
<1> USE DEF StepSummary
<1>1. ASSUME NEW a \in Assets, NEW p \in Prices, NEW t \in Timestamps,
             submit_price(s, a, p, t)
      PROVE  StepSummary /\ RegistryOK'
  <2>1. /\ StoreEntry(p, t) \in PriceEntry /\ StoreEntry(p, t).timestamp = t
        /\ StoreEntry(p, t) # None
    BY PriceOracleAssumptions, AbsentAssumption DEF StoreEntry, PriceEntry, TypeOK
  <2>2. t <= ledger + Threshold
    BY <1>1 DEF submit_price, Acceptable
  <2>3. submission' = [submission EXCEPT ![a][s] = StoreEntry(p, t)]
    BY <1>1 DEF submit_price
  <2>4. submission' \in Submissions
    BY <2>1, <2>3 DEF TypeOK, Submissions
  <2>5. \A c \in Assets, r \in Sources : SubmissionStep(c, r)
    BY <2>1, <2>2, <2>3 DEF SubmissionStep, TypeOK
  <2>6. PublishSteps(submission')
    <3>1. AggregateAssets({a}, submission', sources, inactive, FALSE)
      BY <1>1 DEF submit_price
    <3> QED  BY <3>1, <2>4, AggregateAssetsPublishes DEF TypeOK
  <2>7. RegistryOK' /\ ledger' = ledger
    BY <1>1 DEF submit_price, RegistryOK, TypeOK, adminVars
  <2> QED  BY <2>4, <2>5, <2>6, <2>7 DEF TypeOK
<1>2. ASSUME NEW A \in SUBSET Assets, NEW p \in [A -> Prices],
             NEW t \in [A -> Timestamps], submit_prices(s, A, p, t)
      PROVE  StepSummary /\ RegistryOK'
  <2>1. \A a \in A : /\ StoreEntry(p[a], t[a]) \in PriceEntry
                      /\ StoreEntry(p[a], t[a]).timestamp = t[a]
                      /\ StoreEntry(p[a], t[a]) # None
    <3>1. \A q \in Prices, u \in Timestamps :
             StoreEntry(q, u) \in PriceEntry /\ StoreEntry(q, u).timestamp = u
      BY PriceOracleAssumptions DEF StoreEntry, PriceEntry, TypeOK
    <3> QED  BY <3>1, AbsentAssumption
  <2>2. \A a \in A : t[a] <= ledger + Threshold
    BY <1>2 DEF submit_prices, Acceptable
  <2>3. submission' = [a \in Assets |->
          IF a \in A THEN [submission[a] EXCEPT ![s] = StoreEntry(p[a], t[a])]
                     ELSE submission[a]]
    BY <1>2 DEF submit_prices
  <2>4. submission' \in Submissions
    BY <2>1, <2>3 DEF TypeOK, Submissions
  <2>5. \A c \in Assets, r \in Sources : SubmissionStep(c, r)
    BY <2>1, <2>2, <2>3 DEF SubmissionStep, TypeOK
  <2>6. PublishSteps(submission')
    <3>1. AggregateAssets(A, submission', sources, inactive, FALSE)
      BY <1>2 DEF submit_prices
    <3> QED  BY <3>1, <2>4, AggregateAssetsPublishes DEF TypeOK
  <2>7. RegistryOK' /\ ledger' = ledger
    BY <1>2 DEF submit_prices, RegistryOK, TypeOK, adminVars
  <2> QED  BY <2>4, <2>5, <2>6, <2>7 DEF TypeOK
<1> QED  BY <1>1, <1>2 DEF Submit

\* A step that leaves the submissions and the ledger alone.
LEMMA QuietStep ==
    ASSUME TypeOK, UNCHANGED <<ledger, submission>>, PublishSteps(submission)
    PROVE  StepSummary
BY DEF TypeOK, Submissions, StepSummary, SubmissionStep

\* Permissionless aggregation.
LEMMA AggregateStep ==
    ASSUME TypeOK, NEW a \in Assets,
           trigger_aggregation(a) \/ recompute_asset_price(a)
    PROVE  StepSummary /\ RegistryOK'
<1>1. CASE trigger_aggregation(a)
  <2>1. StepSummary
    BY <1>1, TriggerPublishes, QuietStep DEF trigger_aggregation
  <2>2. RegistryOK'
    BY <1>1 DEF trigger_aggregation, RegistryOK, TypeOK, adminVars
  <2> QED  BY <2>1, <2>2
<1>2. CASE recompute_asset_price(a)
  <2>1. submission \in Submissions /\ sources \in SUBSET Sources
    BY DEF TypeOK, Submissions
  <2>2. AggregateAssets({a}, submission, sources, inactive, TRUE)
    BY <1>2 DEF recompute_asset_price
  <2>3. PublishSteps(submission)
    BY <2>1, <2>2, AggregateAssetsPublishes
  <2>4. StepSummary
    BY <1>2, <2>3, QuietStep DEF recompute_asset_price
  <2>5. RegistryOK'
    BY <1>2 DEF recompute_asset_price, RegistryOK, TypeOK, adminVars
  <2> QED  BY <2>4, <2>5
<1> QED  BY <1>1, <1>2

\* Every change of the source set.
LEMMA ChangeSourcesStep ==
    ASSUME TypeOK, ChangeSources
    PROVE  StepSummary /\ RegistryOK'
<1>1. ASSUME NEW s \in Sources, add_source(s)
      PROVE  StepSummary /\ RegistryOK'
  <2>1. StepSummary
    BY <1>1, UnchangedPublishes, QuietStep DEF add_source
  <2>2. RegistryOK'
    BY <1>1 DEF add_source, RegistryOK, TypeOK, adminVars
  <2> QED  BY <2>1, <2>2
<1>2. ASSUME NEW s \in Sources, remove_source(s)
      PROVE  StepSummary /\ RegistryOK'
  <2>1. sources' \in SUBSET Sources
    BY <1>2 DEF remove_source, TypeOK
  <2>2. PublishSteps(submission)
    BY <1>2, <2>1, RecomputeAssetsPublishes DEF remove_source
  <2>3. StepSummary
    BY <1>2, <2>2, QuietStep DEF remove_source
  <2>4. RegistryOK'
    BY <1>2 DEF remove_source, RegistryOK, TypeOK, adminVars
  <2> QED  BY <2>3, <2>4
<1>3. ASSUME NEW S \in SUBSET Sources, remove_sources(S)
      PROVE  StepSummary /\ RegistryOK'
  <2>1. sources' \in SUBSET Sources
    BY <1>3 DEF remove_sources, TypeOK
  <2>2. PublishSteps(submission)
    BY <1>3, <2>1, RecomputeAssetsPublishes DEF remove_sources
  <2>3. StepSummary
    BY <1>3, <2>2, QuietStep DEF remove_sources
  <2>4. RegistryOK'
    BY <1>3 DEF remove_sources, RegistryOK, TypeOK, adminVars
  <2> QED  BY <2>3, <2>4
<1>4. ASSUME NEW s \in Sources, is_source_inactive(s)
      PROVE  StepSummary /\ RegistryOK'
  <2>1. PublishSteps(submission)
    <3>1. CASE s \in Heartbeating
      BY <1>4, <3>1, RecomputeAssetsPublishes DEF is_source_inactive, TypeOK
    <3>2. CASE s \notin Heartbeating
      BY <1>4, <3>2, UnchangedPublishes DEF is_source_inactive
    <3> QED  BY <3>1, <3>2
  <2>2. StepSummary
    BY <1>4, <2>1, QuietStep DEF is_source_inactive
  <2>3. RegistryOK'
    BY <1>4 DEF is_source_inactive, RegistryOK, TypeOK, adminVars
  <2> QED  BY <2>2, <2>3
<1>5. ASSUME NEW s \in Sources, submit_heartbeat(s)
      PROVE  StepSummary /\ RegistryOK'
  <2>1. StepSummary
    BY <1>5, UnchangedPublishes, QuietStep DEF submit_heartbeat
  <2>2. RegistryOK'
    BY <1>5 DEF submit_heartbeat, RegistryOK, TypeOK, adminVars
  <2> QED  BY <2>1, <2>2
<1> QED  BY <1>1, <1>2, <1>3, <1>4, <1>5 DEF ChangeSources

\* Administration withdraws at most one aggregate.
LEMMA AdministerStep ==
    ASSUME TypeOK, Administer
    PROVE  StepSummary /\ RegistryOK'
<1>1. ASSUME NEW a \in Assets, unregister_asset(a)
      PROVE  StepSummary /\ RegistryOK'
  <2>1. PublishSteps(submission)
    BY <1>1 DEF unregister_asset, PublishSteps, PublishStep, TypeOK
  <2>2. StepSummary
    BY <1>1, <2>1, QuietStep DEF unregister_asset, dataVars
  <2>3. RegistryOK'
    BY <1>1 DEF unregister_asset, dataVars, RegistryOK, TypeOK
  <2> QED  BY <2>2, <2>3
<1>2. ASSUME UNCHANGED <<dataVars, aggregate, basis>>
      PROVE  StepSummary
  BY <1>2, UnchangedPublishes, QuietStep DEF dataVars
<1>3. ASSUME NEW a \in Assets,
             \/ register_asset(a)
             \/ disable_asset(a) \/ enable_asset(a)
             \/ freeze_price(a) \/ unfreeze_price(a)
      PROVE  StepSummary /\ RegistryOK'
  <2>1. UNCHANGED <<dataVars, aggregate, basis>>
    BY <1>3 DEF register_asset, disable_asset, enable_asset, freeze_price,
                unfreeze_price
  <2>2. RegistryOK'
    BY <1>3 DEF register_asset, disable_asset, enable_asset, freeze_price,
                unfreeze_price, dataVars, RegistryOK, TypeOK
  <2> QED  BY <2>1, <2>2, <1>2
<1>4. ASSUME NEW p \in BOOLEAN, set_paused(p)
      PROVE  StepSummary /\ RegistryOK'
  <2>1. UNCHANGED <<dataVars, aggregate, basis>>
    BY <1>4 DEF set_paused
  <2>2. RegistryOK'
    BY <1>4 DEF set_paused, dataVars, RegistryOK, TypeOK
  <2> QED  BY <2>1, <2>2, <1>2
<1>5. ASSUME NEW q \in Quorums, set_min_sources_required(q)
      PROVE  StepSummary /\ RegistryOK'
  <2>1. UNCHANGED <<dataVars, aggregate, basis>>
    BY <1>5 DEF set_min_sources_required
  <2>2. RegistryOK'
    BY <1>5 DEF set_min_sources_required, dataVars, RegistryOK, TypeOK
  <2> QED  BY <2>1, <2>2, <1>2
<1> QED  BY <1>1, <1>3, <1>4, <1>5 DEF Administer

\* Every step of the system, and every stuttering step, fits the summary.
LEMMA NextStep ==
    ASSUME TypeOK, [Next]_vars
    PROVE  StepSummary /\ RegistryOK'
<1>1. CASE \E s \in Sources : Submit(s)
  BY <1>1, SubmitStep
<1>2. CASE \E a \in Assets : trigger_aggregation(a) \/ recompute_asset_price(a)
  BY <1>2, AggregateStep
<1>3. CASE ChangeSources
  BY <1>3, ChangeSourcesStep
<1>4. CASE Administer
  BY <1>4, AdministerStep
<1>5. CASE CloseLedger
  <2>1. PublishSteps(submission')
    BY <1>5, UnchangedPublishes DEF CloseLedger
  <2> QED  BY <1>5, <2>1 DEF CloseLedger, StepSummary, SubmissionStep,
              Submissions, RegistryOK, TypeOK, adminVars
<1>6. CASE UNCHANGED vars
  <2>1. StepSummary
    BY <1>6, UnchangedPublishes, QuietStep DEF vars
  <2>2. RegistryOK'
    BY <1>6 DEF vars, adminVars, RegistryOK, TypeOK
  <2> QED  BY <2>1, <2>2
<1>7. CASE WriteDirectly
  <2>1. StepSummary
    BY <1>7, WriteDirectlyPublishes, QuietStep
  <2>2. RegistryOK'
    BY <1>7, WriteDirectlyPublishes DEF RegistryOK, TypeOK, adminVars
  <2> QED  BY <2>1, <2>2
<1> QED  BY <1>1, <1>2, <1>3, <1>4, <1>5, <1>6, <1>7 DEF Next

-----------------------------------------------------------------------------
(* The theorems *)

\* Type correctness: no sequence of contract calls puts anything but prices,
\* timestamps, counts and versions into the contract's storage.
THEOREM TypeCorrect == Spec => []TypeOK
<1>1. Init => TypeOK
  <2> SUFFICES ASSUME Init
               PROVE  TypeOK
    OBVIOUS
  <2>1. DOMAIN NoBasis = {} /\ NoBasis \in [{} -> PriceEntry]
    BY DEF NoBasis
  <2> QED  BY <2>1, Zenon DEF Init, TypeOK
<1>2. TypeOK /\ [Next]_vars => TypeOK'
  <2> SUFFICES ASSUME TypeOK, [Next]_vars
               PROVE  TypeOK'
    OBVIOUS
  <2>1. StepSummary /\ RegistryOK'
    BY NextStep
  <2>2. ASSUME NEW a \in Assets
        PROVE  /\ DOMAIN basis'[a] \subseteq Sources
               /\ basis'[a] \in [DOMAIN basis'[a] -> PriceEntry]
    <3>1. PublishStep(a, submission')
      BY <2>1 DEF StepSummary, PublishSteps
    <3>2. CASE basis'[a] = NoBasis
      BY <3>2 DEF NoBasis
    <3>3. CASE basis'[a] = basis[a]
      BY <3>3 DEF TypeOK
    <3>4. CASE IsBasis(basis'[a])
      BY <3>4 DEF IsBasis
    <3> QED  BY <3>1, <3>2, <3>3, <3>4 DEF PublishStep
  <2> QED  BY <2>1, <2>2 DEF StepSummary, PublishSteps, Submissions, RegistryOK, TypeOK
<1> QED  BY <1>1, <1>2, PTL DEF Spec

\* INV-3 in its strongest form: every price that was aggregated is exactly the
\* median of the submissions recorded as its contributors, and it counts them.
PriceIsMedianOfBasis ==
    \A a \in Assets : Computed(a) =>
        /\ IsBasis(basis[a])
        /\ aggregate[a].price = PriceOf(basis[a])
        /\ aggregate[a].num_sources = Cardinality(DOMAIN basis[a])

\* The inductive heart of the module: PriceIsMedianOfBasis is preserved by every
\* way prices.rs and recompute.rs have of writing an aggregate.
THEOREM MedianInvariant == Spec => []PriceIsMedianOfBasis
<1>1. Init => PriceIsMedianOfBasis
  BY DEF Init, PriceIsMedianOfBasis, Computed
<1>2. TypeOK /\ PriceIsMedianOfBasis /\ [Next]_vars => PriceIsMedianOfBasis'
  <2> SUFFICES ASSUME TypeOK, PriceIsMedianOfBasis, [Next]_vars,
                      NEW a \in Assets, aggregate'[a] # None, DOMAIN basis'[a] # {}
               PROVE  /\ IsBasis(basis'[a])
                      /\ aggregate'[a].price = PriceOf(basis'[a])
                      /\ aggregate'[a].num_sources = Cardinality(DOMAIN basis'[a])
    BY DEF PriceIsMedianOfBasis, Computed, IsBasis, PriceOf
  <2>1. PublishStep(a, submission')
    BY NextStep DEF StepSummary, PublishSteps
  <2>2. basis'[a] # NoBasis
    BY DEF NoBasis
  <2> QED  BY <2>1, <2>2 DEF PublishStep, PublishedFrom, PriceIsMedianOfBasis, Computed
<1> QED  BY <1>1, <1>2, TypeCorrect, PTL DEF Spec

\* S4 of docs/security/invariants.md: no source set, quorum or call sequence
\* publishes a price outside the range of its contributors.
THEOREM PublishedWithin == Spec => []PublishedWithinContributors
<1>1. PriceIsMedianOfBasis => PublishedWithinContributors
  <2> SUFFICES ASSUME PriceIsMedianOfBasis, NEW a \in Assets, Computed(a)
               PROVE  \E lo, hi \in DOMAIN basis[a] :
                         /\ basis[a][lo].price <= aggregate[a].price
                         /\ aggregate[a].price <= basis[a][hi].price
    BY DEF PublishedWithinContributors
  <2> DEFINE f == [s \in DOMAIN basis[a] |-> basis[a][s].price]
  <2>1. IsBasis(basis[a]) /\ aggregate[a].price = compute_median(f)
    BY DEF PriceIsMedianOfBasis, PriceOf
  <2>2. Family(f) /\ DOMAIN f # {}
    BY <2>1, BasisFamilies DEF IsBasis
  <2>3. PICK i, j \in DOMAIN f : f[i] <= compute_median(f) /\ compute_median(f) <= f[j]
    BY <2>2, MedianWithin
  <2> QED  BY <2>1, <2>3
<1> QED  BY <1>1, MedianInvariant, PTL

\* A minority of the contributors cannot move the published price out of the
\* range of the majority, whichever operations brought the round about.
THEOREM MajorityBounds == Spec => []MajorityBoundsPrice
<1>1. PriceIsMedianOfBasis => MajorityBoundsPrice
  <2> SUFFICES ASSUME PriceIsMedianOfBasis, NEW a \in Assets,
                      NEW lo \in Prices, NEW hi \in Prices, Computed(a),
                      2 * Cardinality({s \in DOMAIN basis[a] :
                          lo <= basis[a][s].price /\ basis[a][s].price <= hi})
                        > Cardinality(DOMAIN basis[a])
               PROVE  lo <= aggregate[a].price /\ aggregate[a].price <= hi
    BY DEF MajorityBoundsPrice
  <2> DEFINE f == [s \in DOMAIN basis[a] |-> basis[a][s].price]
             I == {s \in DOMAIN basis[a] :
                      lo <= basis[a][s].price /\ basis[a][s].price <= hi}
  <2>1. IsBasis(basis[a]) /\ aggregate[a].price = compute_median(f)
    BY DEF PriceIsMedianOfBasis, PriceOf
  <2>2. Family(f) /\ DOMAIN f # {}
    BY <2>1, BasisFamilies DEF IsBasis
  <2>3. /\ DOMAIN f = DOMAIN basis[a]
        /\ I \in SUBSET DOMAIN f
        /\ \A i \in I : lo <= f[i] /\ f[i] <= hi
        /\ 2 * Cardinality(I) > Cardinality(DOMAIN f)
        /\ lo \in Nat /\ hi \in Nat
    BY PriceOracleAssumptions
  <2> HIDE DEF f, I
  <2>4. lo <= compute_median(f) /\ compute_median(f) <= hi
    BY <2>2, <2>3, MedianFollowsMajority
  <2> QED  BY <2>1, <2>4
<1> QED  BY <1>1, MedianInvariant, PTL

\* No aggregate is dated beyond the tolerance of the newest ledger, although
\* recomputation may keep a timestamp of a source that has gone.
THEOREM NeverFromTheFuture == Spec => []NotFromTheFuture
<1>1. Init => NotFromTheFuture
  BY DEF Init, NotFromTheFuture
<1>2. TypeOK /\ NotFromTheFuture /\ [Next]_vars => NotFromTheFuture'
  <2> SUFFICES ASSUME TypeOK, NotFromTheFuture, [Next]_vars
               PROVE  NotFromTheFuture'
    OBVIOUS
  <2> DEFINE bound == ledger' + Threshold
  <2>1. StepSummary
    BY NextStep
  <2>2. /\ ledger + Threshold \in Nat /\ bound \in Nat
        /\ ledger + Threshold <= bound
    <3>1. ledger \in Nat /\ ledger' \in Nat /\ ledger' >= ledger /\ Threshold \in Nat
      BY <2>1, PriceOracleAssumptions DEF StepSummary, TypeOK
    <3>2. \A m, n, t \in Nat : n >= m =>
             m + t \in Nat /\ n + t \in Nat /\ m + t <= n + t
      OBVIOUS
    <3> QED  BY <3>1, <3>2
  <2>3. ASSUME NEW a \in Assets, NEW s \in Sources, submission'[a][s] # None
        PROVE  submission'[a][s].timestamp <= bound /\ submission'[a][s] \in PriceEntry
    <3>1. submission'[a][s] \in PriceEntry
      BY <2>1, <2>3 DEF StepSummary, Submissions
    <3>2. submission'[a][s].timestamp \in Nat
      BY <3>1 DEF PriceEntry
    <3>3. submission'[a][s].timestamp <= ledger + Threshold
      BY <2>1, <2>3 DEF StepSummary, SubmissionStep, NotFromTheFuture
    <3> HIDE DEF bound
    <3> QED  BY <3>1, <3>2, <3>3, <2>2
  <2>4. ASSUME NEW a \in Assets, aggregate'[a] # None
        PROVE  aggregate'[a].timestamp <= bound
    <3>1. PublishStep(a, submission')
      BY <2>1 DEF StepSummary, PublishSteps
    <3>2. aggregate[a] # None =>
             aggregate[a].timestamp \in Nat /\ aggregate[a].timestamp <= bound
      <4>1. aggregate[a] # None => aggregate[a] \in AggregatePrice
        BY DEF TypeOK
      <4> HIDE DEF bound
      <4> QED  BY <4>1, <2>2 DEF NotFromTheFuture, AggregatePrice
    <3>3. ASSUME IsBasis(basis'[a]),
                 \A s \in DOMAIN basis'[a] :
                    submission'[a][s] # None /\ basis'[a][s] = submission'[a][s]
          PROVE  TimestampOf(basis'[a]) <= bound
      <4> DEFINE f == [s \in DOMAIN basis'[a] |-> basis'[a][s].timestamp]
      <4>1. Family(f)
        BY <3>3, BasisFamilies
      <4>2. latest_timestamp(f) = 0 \/ \E s \in DOMAIN f : latest_timestamp(f) = f[s]
        BY <4>1, LatestBound
      <4>3. ASSUME NEW s \in DOMAIN f
            PROVE  f[s] <= bound
        <5>1. s \in Sources
          BY <3>3 DEF IsBasis
        <5>2. submission'[a][s] # None /\ f[s] = submission'[a][s].timestamp
          BY <3>3
        <5> QED  BY <5>1, <5>2, <2>3
      <4>4. TimestampOf(basis'[a]) = latest_timestamp(f)
        BY DEF TimestampOf
      <4> HIDE DEF f, bound
      <4> QED  BY <4>2, <4>3, <4>4, <2>2
    <3>4. WrittenDirectly(aggregate'[a]) => aggregate'[a].timestamp <= bound
      <4> HIDE DEF bound
      <4> QED  BY <2>2 DEF WrittenDirectly, AggregatePrice
    <3> HIDE DEF bound
    <3> QED  BY <3>1, <3>2, <3>3, <3>4, <2>4 DEF PublishStep
  <2> QED  BY <2>3, <2>4 DEF NotFromTheFuture
<1> QED  BY <1>1, <1>2, TypeCorrect, PTL DEF Spec

\* S6: whatever the quorum is changed to, a price is aggregated only with the
\* quorum in force at that moment, and a consumer can tell: a count above one on
\* an aggregate that is no override is the number of submissions behind it.
THEOREM QuorumBacked == Spec => QuorumAtPublication
<1> DEFINE Backed(a) ==
        (/\ aggregate'[a] # None
         /\ <<aggregate'[a], basis'[a]>> # <<aggregate[a], basis[a]>>)
        => LET n == Cardinality(DOMAIN basis'[a])
           IN  /\ n > 0 => n >= minSources
               /\ (aggregate'[a].num_sources > 1 /\ ~aggregate'[a].is_override)
                  => aggregate'[a].num_sources = n
<1>1. TypeOK /\ [Next]_vars => [\A a \in Assets : Backed(a)]_vars
  <2> SUFFICES ASSUME TypeOK, [Next]_vars, NEW a \in Assets
               PROVE  Backed(a)
    OBVIOUS
  <2>1. PublishStep(a, submission')
    BY NextStep DEF StepSummary, PublishSteps
  <2>2. CASE aggregate'[a] = None \/ (aggregate'[a] = aggregate[a] /\ basis'[a] = basis[a])
    BY <2>2
  <2>3. CASE WrittenDirectly(aggregate'[a]) /\ basis'[a] = NoBasis
    <3>1. Cardinality(DOMAIN basis'[a]) = 0
      BY <2>3, FS_EmptySet DEF NoBasis
    <3> QED  BY <2>3, <3>1 DEF WrittenDirectly, AggregatePrice
  <2>4. CASE PublishedFrom(aggregate'[a], basis'[a])
    BY <2>4 DEF PublishedFrom
  <2> QED  BY <2>1, <2>2, <2>3, <2>4 DEF PublishStep
<1> QED  BY <1>1, TypeCorrect, PTL DEF Spec, QuorumAtPublication

-----------------------------------------------------------------------------
(* The departure of a source *)

\* A contributor's submission is never deleted: unregistering an asset or
\* removing a source leaves it in storage.
ContributorsStored ==
    \A a \in Assets : \A s \in DOMAIN basis[a] : submission[a][s] # None

LEMMA ContributorsStayStored == Spec => []ContributorsStored
<1>1. Init => ContributorsStored
  BY DEF Init, ContributorsStored, NoBasis
<1>2. TypeOK /\ ContributorsStored /\ [Next]_vars => ContributorsStored'
  <2> SUFFICES ASSUME TypeOK, ContributorsStored, [Next]_vars,
                      NEW a \in Assets, NEW s \in DOMAIN basis'[a]
               PROVE  submission'[a][s] # None
    BY DEF ContributorsStored
  <2>1. PublishStep(a, submission') /\ \A r \in Sources : SubmissionStep(a, r)
    BY NextStep DEF StepSummary, PublishSteps
  <2>2. CASE basis'[a] = basis[a]
    BY <2>1, <2>2 DEF SubmissionStep, ContributorsStored, TypeOK
  <2>3. CASE basis'[a] = NoBasis
    BY <2>3 DEF NoBasis
  <2> QED  BY <2>1, <2>2, <2>3 DEF PublishStep
<1> QED  BY <1>1, <1>2, TypeCorrect, PTL DEF Spec

\* When every asset fits the inline budget, recompute_bounded leaves none of
\* the affected assets out.
LEMMA BudgetCoversAll ==
    ASSUME TypeOK, IsFiniteSet(Assets), Cardinality(Assets) <= InlineRecompute,
           NEW affected \in SUBSET Assets, NEW srcs, NEW inact,
           RecomputeAssets(affected, srcs, inact)
    PROVE  AggregateAssets({a \in affected : aggregate[a] # None}, submission, srcs, inact, TRUE)
<1> DEFINE all == {a \in affected : aggregate[a] # None}
<1>1. PICK A \in SUBSET all :
         /\ Cardinality(A) = InlineRecompute \/ A = all
         /\ AggregateAssets(A, submission, srcs, inact, TRUE)
  BY DEF RecomputeAssets
<1>2. IsFiniteSet(all) /\ A \subseteq Assets /\ all \subseteq Assets
  BY FS_Subset
<1>3. /\ Cardinality(A) <= Cardinality(all)
      /\ Cardinality(A) = Cardinality(all) => A = all
  BY <1>2, FS_Subset
<1>4. Cardinality(all) <= Cardinality(Assets)
  BY <1>2, FS_Subset
<1>5. /\ Cardinality(A) \in Nat /\ Cardinality(all) \in Nat
      /\ Cardinality(Assets) \in Nat /\ InlineRecompute \in Nat
  BY <1>2, FS_Subset, FS_CardinalityType, PriceOracleAssumptions
<1> HIDE DEF all
<1>6. A = all
  BY <1>1, <1>3, <1>4, <1>5
<1> QED  BY <1>1, <1>6 DEF all

\* What one transaction that excludes s owes asset a.
Withdrawn(s, a) ==
    aggregate'[a] # None =>
        \/ s \notin DOMAIN basis'[a]
        \/ ~Reaches(Eligible(a, submission', sources', inactive'))

\* A recomputation over the new source set withdraws the departed source from
\* every asset it is asked for.
LEMMA RecomputationWithdraws ==
    ASSUME TypeOK, ContributorsStored, IsFiniteSet(Assets),
           Cardinality(Assets) <= InlineRecompute,
           NEW s \in Sources, NEW affected \in SUBSET registered, NEW a \in registered,
           submission[a][s] # None => a \in affected,
           s \notin sources' \ inactive',
           UNCHANGED <<ledger, submission, minSources>>,
           RecomputeAssets(affected, sources', inactive')
    PROVE  Withdrawn(s, a)
<1> DEFINE C == Eligible(a, submission, sources', inactive')
<1>1. a \in Assets /\ affected \in SUBSET Assets
  BY DEF TypeOK
<1>2. AggregateAssets({c \in affected : aggregate[c] # None}, submission,
                      sources', inactive', TRUE)
  BY <1>1, BudgetCoversAll
<1>3. Eligible(a, submission', sources', inactive') = C
  BY DEF Eligible
<1>4. s \notin C
  BY DEF Eligible
<1>5. CASE a \in affected /\ aggregate[a] # None /\ Reaches(C)
  <2>1. basis'[a] = BasisOf(a, submission, C)
    BY <1>1, <1>2, <1>5 DEF AggregateAssets
  <2> QED  BY <2>1, <1>4 DEF BasisOf, Withdrawn
<1>6. CASE a \in affected /\ ~Reaches(C)
  BY <1>3, <1>6 DEF Withdrawn
<1>7. CASE a \notin affected \/ aggregate[a] = None
  <2>1. aggregate'[a] = aggregate[a] /\ basis'[a] = basis[a]
    BY <1>1, <1>2, <1>7 DEF AggregateAssets
  <2>2. a \notin affected => submission[a][s] = None
    OBVIOUS
  <2> QED  BY <1>1, <1>7, <2>1, <2>2 DEF ContributorsStored, Withdrawn
<1> QED  BY <1>5, <1>6, <1>7

\* docs/source-removal-recompute.md, "No stale contribution": as long as the
\* assets fit the inline budget and every source has a heartbeat on record, the
\* very transaction that removes, batch-removes or suspends a source takes its
\* value out of every published aggregate the survivors can back.
THEOREM DepartureIsWithdrawn ==
    ASSUME IsFiniteSet(Assets), Cardinality(Assets) <= InlineRecompute,
           Heartbeating = Sources
    PROVE  Spec => DepartureWithdraws
<1>1. TypeOK /\ ContributorsStored /\ [Next]_vars =>
        [\A s \in Sources, a \in registered :
           (/\ s \in sources \ inactive
            /\ s \notin sources' \ inactive'
            /\ aggregate'[a] # None)
           => \/ s \notin DOMAIN basis'[a]
              \/ ~Reaches(Eligible(a, submission', sources', inactive'))]_vars
  <2> SUFFICES ASSUME TypeOK, ContributorsStored, Next,
                      NEW s \in Sources, NEW a \in registered,
                      s \in sources \ inactive, s \notin sources' \ inactive'
               PROVE  Withdrawn(s, a)
    BY DEF Withdrawn
  <2>1. ChangeSources
    BY DEF Next, Submit, submit_price, submit_prices, trigger_aggregation, recompute_asset_price,
           WriteDirectly, write_price_snapshot, correct_price, migrate_v1_to_v2, Write,
           Administer, register_asset, unregister_asset, disable_asset, enable_asset,
           freeze_price, unfreeze_price, set_paused, set_min_sources_required, dataVars, CloseLedger
  <2>2. ASSUME NEW r \in Sources, remove_source(r)
        PROVE  Withdrawn(s, a)
    <3>1. r = s /\ inactive' = inactive
      BY <2>2 DEF remove_source
    <3>2. /\ AffectedAssets(s) \in SUBSET registered
          /\ submission[a][s] # None => a \in AffectedAssets(s)
      BY DEF AffectedAssets
    <3> QED  BY <2>2, <3>1, <3>2, RecomputationWithdraws DEF remove_source, adminVars
  <2>3. ASSUME NEW S \in SUBSET Sources, remove_sources(S)
        PROVE  Withdrawn(s, a)
    <3>1. inactive' = inactive /\ registered \in SUBSET registered
      BY <2>3 DEF remove_sources
    <3> QED  BY <2>3, <3>1, RecomputationWithdraws DEF remove_sources, adminVars
  <2>4. ASSUME NEW r \in Sources, is_source_inactive(r)
        PROVE  Withdrawn(s, a)
    <3>1. r = s /\ sources' = sources
      BY <2>4 DEF is_source_inactive
    <3>2. /\ AffectedAssets(s) \in SUBSET registered
          /\ submission[a][s] # None => a \in AffectedAssets(s)
      BY DEF AffectedAssets
    <3> QED  BY <2>4, <3>1, <3>2, RecomputationWithdraws DEF is_source_inactive, adminVars
  <2>5. ASSUME NEW r \in Sources, add_source(r) \/ submit_heartbeat(r)
        PROVE  Withdrawn(s, a)
    BY <2>5 DEF add_source, submit_heartbeat
  <2> QED  BY <2>1, <2>2, <2>3, <2>4, <2>5 DEF ChangeSources
<1> QED  BY <1>1, TypeCorrect, ContributorsStayStored, PTL DEF Spec, DepartureWithdraws

=============================================================================
