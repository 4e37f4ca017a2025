-------------------------- MODULE OperationsProofs --------------------------
(***************************************************************************)
(* What the parts around the price keep, for every value of the constants: *)
(* the adaptive quorum (QuorumRegimes), the bridges (Bridges), signed      *)
(* submissions (SourceAdmission), the governor's grants (AccessRoles), the *)
(* timelock with its configuration history (ConfigTimelock), the derived   *)
(* rates and baskets (DerivedFeeds), and the lists of foreign assets, of   *)
(* assets and their pages (AssetRegistry), of consumers                    *)
(* (ConsumerDelivery), of the holders of a role and of the sources.        *)
(***************************************************************************)
EXTENDS MCOperations, PriceMathProofs

-----------------------------------------------------------------------------
(* The parts *)

\* A step of the composition is, for each part, a step of it or no change of
\* its variables.
LEMMA StepsOfParts ==
    [Next]_vars => /\ [Timelock!Next]_tvars
                   /\ [Bridge!Next]_bvars
                   /\ [Quorum!Next]_qvars
                   /\ [Feeds!Next]_dvars
                   /\ [Assets!Next]_avars
                   /\ [Delivery!Next]_cvars
                   /\ [Access!Next]_rvars
                   /\ [Admission!Next]_svars
                   /\ [Ingest!Next]_gvars
<1>1. CASE UNCHANGED vars
  BY <1>1 DEF vars
<1>2. CASE TimelockSteps
  BY <1>2 DEF TimelockSteps
<1>3. CASE BridgeSteps
  BY <1>3 DEF BridgeSteps
<1>4. CASE QuorumSteps
  BY <1>4 DEF QuorumSteps
<1>5. CASE FeedSteps \/ AssetSteps
  BY <1>5 DEF FeedSteps, AssetSteps
<1>6. CASE DeliverySteps
  BY <1>6 DEF DeliverySteps
<1>7. CASE RoleSteps
  BY <1>7 DEF RoleSteps
<1>8. CASE AdmissionSteps
  BY <1>8 DEF AdmissionSteps
<1>9. CASE IngestSteps
  BY <1>9 DEF IngestSteps
<1> QED  BY <1>1, <1>2, <1>3, <1>4, <1>5, <1>6, <1>7, <1>8, <1>9 DEF Next

-----------------------------------------------------------------------------
(* Adaptive quorum *)

\* The stored regime and the buckets in force are well formed, and the regime
\* and what is read part no further than DampingBounded allows.
RegimeInv ==
    /\ regime \in [bucket : Nat \cup {-1}, streak : Nat]
    /\ buckets \in {DefaultBuckets} \cup QuorumConfigs
    /\ Quorum!DampingBounded

\* The bucket of a reading is a number whatever the reading.
LEMMA BucketIsNumber ==
    ASSUME NEW c \in {DefaultBuckets} \cup QuorumConfigs, NEW bps
    PROVE  Quorum!bucket_of(c, bps) \in Nat
<1>1. Len(c.boundaries) \in Nat
  BY DEF DefaultBuckets, QuorumConfigs
<1> DEFINE above == {i \in 1..Len(c.boundaries) : bps < c.boundaries[i]}
<1>2. above \in SUBSET Nat
  BY <1>1
<1>3. CASE above # {}
  <2>1. \E n \in above : \A m \in above : n <= m
    BY <1>2, <1>3, LeastNatural
  <2>2. Quorum!Min(above) \in above
    BY <2>1 DEF Quorum!Min
  <2> QED  BY <1>2, <1>3, <2>2 DEF Quorum!bucket_of
<1>4. CASE above = {}
  BY <1>1, <1>4 DEF Quorum!bucket_of
<1> QED  BY <1>3, <1>4

\* A damped transition ends on the reading, or above it with a streak that is
\* still too short.
LEMMA DampedTransition ==
    ASSUME buckets.relax_after \in Nat, NEW f \in Nat, NEW streak \in Nat, NEW t \in Nat
    PROVE  LET next == Quorum!Damped(f, streak, t) IN
           /\ next \in [bucket : Nat, streak : Nat]
           /\ \/ t = next.bucket
              \/ t < next.bucket /\ next.streak \in 1..(buckets.relax_after - 1)
<1>1. CASE t >= f \/ streak + 1 >= buckets.relax_after
  <2>1. Quorum!Damped(f, streak, t) = [bucket |-> t, streak |-> 0]
    BY <1>1 DEF Quorum!Damped
  <2> QED  BY <2>1
<1>2. CASE ~ (t >= f \/ streak + 1 >= buckets.relax_after)
  <2>1. Quorum!Damped(f, streak, t) = [bucket |-> f, streak |-> streak + 1]
    BY <1>2 DEF Quorum!Damped
  <2> QED  BY <1>2, <2>1
<1> QED  BY <1>1, <1>2

\* What is read after a step is the bucket of the window then.
LEMMA ReadingFollows ==
    Quorum!bucket_of(buckets, Quorum!mean_abs_return(returns))'
      = Quorum!bucket_of(buckets', Quorum!mean_abs_return(returns'))
<1>1. Quorum!mean_abs_return(returns)' = Quorum!mean_abs_return(returns')
  BY Zenon DEF Quorum!mean_abs_return, Quorum!FoldLeft, Quorum!MapThenFoldSet, Quorum!Max
<1>2. Quorum!bucket_of(buckets, Quorum!mean_abs_return(returns))'
        = Quorum!bucket_of(buckets', Quorum!mean_abs_return(returns)')
  BY Zenon DEF Quorum!bucket_of, Quorum!Min
<1> QED  BY <1>1, <1>2

\* An observation that is classified leaves the regime on what is read then, or
\* above it with a streak that is still too short.
LEMMA ClassificationStep ==
    ASSUME RegimeInv, Quorum!classify(returns'), buckets' = buckets
    PROVE  RegimeInv'
<1> DEFINE target == Quorum!bucket_of(buckets, Quorum!mean_abs_return(returns'))
           from == IF regime.bucket = -1 THEN target ELSE regime.bucket
           next == Quorum!Damped(from, regime.streak, target)
<1>1. target \in Nat
  BY BucketIsNumber DEF RegimeInv
<1>2. regime.bucket \in Nat \cup {-1} /\ regime.streak \in Nat
  BY DEF RegimeInv
<1>3. buckets.relax_after \in Nat
  <2>1. buckets = DefaultBuckets \/ buckets \in QuorumConfigs
    BY DEF RegimeInv
  <2>2. "relax_after" \in DOMAIN DefaultBuckets /\ DefaultBuckets.relax_after \in Nat
    BY DEF DefaultBuckets
  <2>3. \A c \in QuorumConfigs : c.relax_after \in Nat
    <3>1. PICK d : d = DefaultBuckets
      OBVIOUS
    <3>2. \A c \in QuorumConfigs : c.relax_after \in {2, d.relax_after}
      BY <2>2, <3>1, Zenon DEF QuorumConfigs
    <3> QED  BY <2>2, <3>1, <3>2
  <2> QED  BY <2>1, <2>2, <2>3
<1>4. CASE Len(returns') < buckets.min_samples
  <2>1. regime' = regime
    BY <1>4 DEF Quorum!classify
  <2>2. settled' = FALSE
    BY <1>4 DEF Quorum!classify
  <2> QED  BY <2>1, <2>2 DEF RegimeInv, Quorum!DampingBounded
<1>5. CASE ~ (Len(returns') < buckets.min_samples)
  <2>1. regime' = next
    BY <1>5 DEF Quorum!classify
  <2>2. Quorum!get_regime' = target
    BY <1>5, ReadingFollows DEF Quorum!get_regime
  <2>3. from \in Nat
    BY <1>1, <1>2
  <2> HIDE DEF target, from
  <2>4. /\ next \in [bucket : Nat, streak : Nat]
        /\ \/ target = next.bucket
           \/ target < next.bucket /\ next.streak \in 1..(buckets.relax_after - 1)
    BY <1>1, <1>2, <1>3, <2>3, DampedTransition
  <2> HIDE DEF next
  <2> QED  BY <2>1, <2>2, <2>4 DEF RegimeInv, Quorum!DampingBounded
<1> QED  BY <1>4, <1>5

\* A step of the adaptive quorum keeps it.
LEMMA RegimeStep == RegimeInv /\ [Quorum!Next]_qvars => RegimeInv'
<1> SUFFICES ASSUME RegimeInv, [Quorum!Next]_qvars PROVE RegimeInv'
  OBVIOUS
<1>1. ASSUME NEW p \in Observed, Quorum!observe_volatility(p) PROVE RegimeInv'
  BY <1>1, ClassificationStep DEF Quorum!observe_volatility
<1>2. ASSUME NEW c \in QuorumConfigs, Quorum!set_adaptive_quorum_config(c) PROVE RegimeInv'
  BY <1>2 DEF Quorum!set_adaptive_quorum_config, RegimeInv, Quorum!DampingBounded
<1>3. ASSUME UNCHANGED <<returns, buckets, regime, settled>> PROVE RegimeInv'
  <2>1. Quorum!get_regime' = Quorum!get_regime
    BY <1>3, ReadingFollows DEF Quorum!get_regime
  <2> QED  BY <1>3, <2>1 DEF RegimeInv, Quorum!DampingBounded
<1>4. ASSUME NEW r \in QuorumRounds, Quorum!pin_round_quorum(r) PROVE RegimeInv'
  BY <1>3, <1>4 DEF Quorum!pin_round_quorum
<1>5. CASE UNCHANGED qvars
  BY <1>3, <1>5 DEF qvars
<1> QED  BY <1>1, <1>2, <1>4, <1>5 DEF Quorum!Next

\* adaptive_quorum.rs:248 and 285-350.  The readers classify the window itself
\* and the stored regime is damped; while one configuration stands the damped
\* one is never the laxer of the two, and stricter for fewer than relax_after
\* observations, whatever prices are reported.
THEOREM DampingStaysBounded == Spec => []DampingBounded
<1>1. Init => RegimeInv
  BY DEF Init, Quorum!Init, RegimeInv, Quorum!DampingBounded
<1>2. RegimeInv /\ [Next]_vars => RegimeInv'
  BY StepsOfParts, RegimeStep
<1>3. RegimeInv => DampingBounded
  BY DEF RegimeInv, DampingBounded
<1> QED  BY <1>1, <1>2, <1>3, PTL DEF Spec

-----------------------------------------------------------------------------
(* Callbacks *)

\* Consumers are listed, and the bit that gates the invocations is set as soon
\* as one is.
CallbacksFlagged ==
    /\ callbacks \in Seq(Consumers)
    /\ callbacks # <<>> => "PRICE_CALLBACK" \in flags

\* What is left of a list of consumers is a list of consumers.
LEMMA ShorterList ==
    ASSUME NEW s \in Seq(Consumers), NEW c
    PROVE  Delivery!RemoveFirst(s, c) \in Seq(Consumers)
<1>1. CASE ~ \E i \in 1..Len(s) : s[i] = c
  BY <1>1 DEF Delivery!RemoveFirst
<1>2. CASE \E i \in 1..Len(s) : s[i] = c
  <2> DEFINE I == {i \in 1..Len(s) : s[i] = c}
  <2>1. I \in SUBSET Nat /\ I # {}
    BY <1>2
  <2>2. \E n \in I : \A m \in I : n <= m
    BY <2>1, LeastNatural
  <2>3. Delivery!Min(I) \in I
    BY <2>2 DEF Delivery!Min
  <2>4. PICK n \in 1..Len(s) : n = Delivery!Min(I)
    BY <2>3
  <2>5. Delivery!RemoveFirst(s, c) = SubSeq(s, 1, n - 1) \o SubSeq(s, n + 1, Len(s))
    BY <1>2, <2>1, <2>4 DEF Delivery!RemoveFirst, Delivery!RemoveAt, Delivery!SelectInSeq
  <2>6. SubSeq(s, 1, n - 1) \in Seq(Consumers) /\ SubSeq(s, n + 1, Len(s)) \in Seq(Consumers)
    OBVIOUS
  <2> QED  BY <2>5, <2>6
<1> QED  BY <1>1, <1>2

\* Only an aggregation changes the aggregated price, and it invokes the
\* callbacks.
LEMMA DeliveryStep ==
    ASSUME CallbacksFlagged, [Delivery!Next]_cvars
    PROVE  /\ CallbacksFlagged'
           /\ aggregated' # aggregated =>
                \A c \in Delivery!ToSet(callbacks) : heard'[c] \in {Delivery!Missed, aggregated'}
<1>1. CASE UNCHANGED <<callbacks, flags, aggregated>>
  BY <1>1 DEF CallbacksFlagged
<1>2. ASSUME NEW c \in Consumers, Delivery!register_price_callback(c)
      PROVE  CallbacksFlagged' /\ aggregated' = aggregated
  <2>1. callbacks' = callbacks \/ callbacks' = Append(callbacks, c)
    BY <1>2 DEF Delivery!register_price_callback
  <2>2. callbacks' \in Seq(Consumers)
    BY <2>1 DEF CallbacksFlagged
  <2> QED  BY <1>2, <2>2 DEF Delivery!register_price_callback, Delivery!mark, CallbacksFlagged
<1>3. ASSUME NEW c \in Consumers, Delivery!unregister_price_callback(c)
      PROVE  CallbacksFlagged' /\ aggregated' = aggregated
  <2>1. callbacks' \in Seq(Consumers)
    BY <1>3, ShorterList DEF Delivery!unregister_price_callback, CallbacksFlagged
  <2>2. callbacks # <<>>
    BY <1>3 DEF Delivery!unregister_price_callback, Delivery!ToSet
  <2> QED  BY <1>3, <2>1, <2>2 DEF Delivery!unregister_price_callback, CallbacksFlagged
<1>4. ASSUME NEW f, NEW n, Delivery!set_trigger(f, n)
      PROVE  CallbacksFlagged' /\ aggregated' = aggregated
  BY <1>4 DEF Delivery!set_trigger, Delivery!mark, CallbacksFlagged
<1>5. ASSUME NEW p, NEW fails, Delivery!do_aggregate(p, fails), UNCHANGED <<callbacks, flags>>
      PROVE  /\ CallbacksFlagged'
             /\ aggregated' # aggregated =>
                  \A c \in Delivery!ToSet(callbacks) : heard'[c] \in {Delivery!Missed, aggregated'}
  <2>1. ASSUME aggregated' # aggregated, NEW c \in Delivery!ToSet(callbacks)
        PROVE  heard'[c] \in {Delivery!Missed, aggregated'}
    <3>1. aggregated' = p /\ Delivery!invoke_price_callbacks(p, fails)
      BY <1>5, <2>1 DEF Delivery!do_aggregate
    <3>2. c \in Consumers /\ callbacks # <<>>
      BY <2>1 DEF Delivery!ToSet, CallbacksFlagged
    <3>3. heard' = [x \in Consumers |->
                      IF x \notin Delivery!ToSet(callbacks) THEN heard[x]
                      ELSE IF x \in fails THEN Delivery!Missed ELSE p]
      BY <3>1, <3>2 DEF Delivery!invoke_price_callbacks, Delivery!on, CallbacksFlagged
    <3> QED  BY <2>1, <3>1, <3>2, <3>3
  <2> QED  BY <1>5, <2>1 DEF CallbacksFlagged
<1>6. CASE Delivery!TriggerCalls
  <2>1. ASSUME NEW fails, Delivery!poke_time_trigger(fails)
        PROVE  \/ UNCHANGED <<callbacks, flags, aggregated>>
               \/ Delivery!do_aggregate(latest, fails) /\ UNCHANGED <<callbacks, flags>>
    BY <2>1 DEF Delivery!poke_time_trigger
  <2> QED  BY <1>1, <1>4, <1>5, <1>6, <2>1 DEF Delivery!TriggerCalls,
         Delivery!set_submission_threshold_trigger, Delivery!set_deviation_trigger,
         Delivery!set_time_trigger
<1>7. CASE Delivery!CallbackCalls
  BY <1>2, <1>3, <1>7 DEF Delivery!CallbackCalls
<1>8. CASE Delivery!SubscriberCalls \/ Delivery!QuorumShifts \/ Delivery!Elapse
  BY <1>1, <1>8 DEF Delivery!SubscriberCalls, Delivery!subscribe_price_updates,
       Delivery!unsubscribe_price_updates, Delivery!QuorumShifts, Delivery!Elapse
<1>9. CASE Delivery!Publications
  BY <1>5, <1>9 DEF Delivery!Publications, Delivery!submit_price
<1>10. CASE Delivery!WritesBeside
  BY <1>1, <1>10 DEF Delivery!WritesBeside, Delivery!trigger_aggregation,
       Delivery!write_price_snapshot, Delivery!correct_price, Delivery!WriteBeside
<1> QED  BY <1>1, <1>6, <1>7, <1>8, <1>9, <1>10 DEF Delivery!Next, cvars

\* price_callback.rs:191-237.  A newly aggregated price reaches every consumer
\* that has a callback, or its own call fails, whatever the writers that call
\* nobody (a trigger, a proposal, a correction) put in the aggregate in between.
THEOREM CallbacksAreHeard == Spec => CallbacksHear
<1>1. Init => CallbacksFlagged
  BY DEF Init, Delivery!Init, CallbacksFlagged
<1>2. CallbacksFlagged /\ [Next]_vars => CallbacksFlagged'
  BY StepsOfParts, DeliveryStep
<1>3. CallbacksFlagged /\ [Next]_vars
        => [aggregated' # aggregated =>
              \A c \in Delivery!ToSet(callbacks) :
                 heard'[c] \in {Delivery!Missed, aggregated'}]_Delivery!delivery
  BY StepsOfParts, DeliveryStep
<1> QED  BY <1>1, <1>2, <1>3, PTL DEF Spec, CallbacksHear, Delivery!CallbacksHear

-----------------------------------------------------------------------------
(* Signed submissions *)

\* The nonces taken rise, and the stored nonce is not below any of them.
NoncesRise ==
    /\ nonce \in [Sources -> Nat]
    /\ taken \in [Sources -> Seq(Nat)]
    /\ \A s \in Sources : \A i \in DOMAIN taken[s] : taken[s][i] <= nonce[s]
    /\ Admission!ProofsUsedOnce

\* No step of the admission of sources but an accepted proof touches a nonce:
\* not a removal, a rotation or a new key.
LEMMA NoncesStay ==
    ASSUME Admission!Next
    PROVE  \/ UNCHANGED <<nonce, taken>>
           \/ \E s \in Signers, k \in SigningKeys, a \in Priced, n \in 1..MaxNonce :
                Admission!submit_price_with_proof(s, a, k, n)
<1>1. CASE Admission!AdmissionCalls
  BY <1>1 DEF Admission!AdmissionCalls, Admission!add_source, Admission!add_source_with_assets,
       Admission!enroll_source, Admission!submit_source_evidence, Admission!activate_source,
       Admission!set_max_sources, Admission!signing
<1>2. CASE Admission!GovernanceCalls
  BY <1>2 DEF Admission!GovernanceCalls, Admission!set_source_governance,
       Admission!propose_source, Admission!approve_source, Admission!signing
<1>3. CASE Admission!DepartureCalls
  BY <1>3 DEF Admission!DepartureCalls, Admission!remove_source, Admission!prune_source,
       Admission!remove_sources, Admission!remove_source_inner, Admission!signing
<1>4. CASE Admission!SourceCalls
  BY <1>4 DEF Admission!SourceCalls, Admission!rotate_source_key,
       Admission!set_source_verification, Admission!add_source_asset,
       Admission!remove_source_asset, Admission!signing
<1>5. CASE Admission!SigningCalls
  BY <1>5 DEF Admission!SigningCalls, Admission!register_submission_key
<1> QED  BY <1>1, <1>2, <1>3, <1>4, <1>5 DEF Admission!Next

\* An accepted proof appends a nonce above the stored one, which follows it.
LEMMA NonceStep ==
    ASSUME NoncesRise, [Admission!Next]_svars
    PROVE  NoncesRise'
<1>1. CASE UNCHANGED <<nonce, taken>>
  BY <1>1 DEF NoncesRise, Admission!ProofsUsedOnce
<1>2. ASSUME NEW s, NEW k, NEW a, NEW n \in 1..MaxNonce,
             Admission!submit_price_with_proof(s, a, k, n)
      PROVE  NoncesRise'
  <2>1. /\ n > nonce[s]
        /\ nonce' = [nonce EXCEPT ![s] = n]
        /\ taken' = [taken EXCEPT ![s] = Append(@, n)]
    BY <1>2 DEF Admission!submit_price_with_proof
  <2>2. n \in Nat
    OBVIOUS
  <2>3. nonce' \in [Sources -> Nat]
    BY <2>1, <2>2 DEF NoncesRise
  <2>4. taken' \in [Sources -> Seq(Nat)]
    <3>1. \A q \in Seq(Nat) : Append(q, n) \in Seq(Nat)
      BY <2>2
    <3> QED  BY <2>1, <3>1 DEF NoncesRise
  <2>5. ASSUME NEW r \in Sources
        PROVE  /\ \A i \in DOMAIN taken'[r] : taken'[r][i] <= nonce'[r]
               /\ \A i, j \in DOMAIN taken'[r] : i < j => taken'[r][i] < taken'[r][j]
    <3>1. PICK t \in Seq(Nat) : t = taken[r]
      BY DEF NoncesRise
    <3>2. PICK m \in Nat : m = nonce[r]
      BY DEF NoncesRise
    <3>3. \A i \in DOMAIN t : t[i] <= m
      BY <3>1, <3>2 DEF NoncesRise
    <3>4. \A i, j \in DOMAIN t : i < j => t[i] < t[j]
      BY <3>1 DEF NoncesRise, Admission!ProofsUsedOnce
    <3>5. CASE r # s
      <4>1. taken'[r] = t /\ nonce'[r] = m
        BY <2>1, <3>1, <3>2, <3>5 DEF NoncesRise
      <4> QED  BY <3>3, <3>4, <4>1
    <3>6. CASE r = s
      <4>1. taken'[r] = Append(t, n) /\ nonce'[r] = n /\ n > m
        BY <2>1, <3>1, <3>2, <3>6 DEF NoncesRise
      <4>2. /\ \A i \in DOMAIN Append(t, n) : Append(t, n)[i] <= n
            /\ \A i, j \in DOMAIN Append(t, n) : i < j => Append(t, n)[i] < Append(t, n)[j]
        BY <2>2, <3>3, <3>4, <4>1
      <4> QED  BY <4>1, <4>2
    <3> QED  BY <3>5, <3>6
  <2> QED  BY <2>3, <2>4, <2>5 DEF NoncesRise, Admission!ProofsUsedOnce
<1> QED  BY <1>1, <1>2, NoncesStay DEF svars

-----------------------------------------------------------------------------
(* The governor's grants *)

\* No grant is of an epoch to come, so none survives the next one.
GrantsAreDated ==
    /\ epoch \in Nat
    /\ grants \in [GovernorOps -> Int]
    /\ \A op \in GovernorOps : grants[op] <= epoch
    /\ Access!GrantsDieWithAppointment

\* A new epoch leaves no grant in force; a grant or its withdrawal is of the
\* current one.
LEMMA GrantStep ==
    ASSUME GrantsAreDated, [Access!Next]_rvars
    PROVE  GrantsAreDated'
<1> USE DEF GrantsAreDated, Access!GrantsDieWithAppointment, Access!is_governor_op_allowed
<1>1. CASE UNCHANGED <<epoch, grants, given>>
  BY <1>1
<1>2. CASE epoch' = epoch + 1 /\ grants' = grants /\ given' = {}
  BY <1>2
<1>3. ASSUME NEW op \in GovernorOps, Access!allow_governor_op(op)
      PROVE  GrantsAreDated'
  BY <1>3 DEF Access!allow_governor_op
<1>4. ASSUME NEW op \in GovernorOps, Access!disallow_governor_op(op)
      PROVE  GrantsAreDated'
  BY <1>4 DEF Access!disallow_governor_op
<1> HIDE DEF GrantsAreDated
<1>5. CASE Access!RoleCalls
  BY <1>1, <1>5 DEF Access!RoleCalls, Access!transfer_admin, Access!delegate_role,
       Access!revoke_role
<1>6. CASE Access!GovernorCalls
  BY <1>2, <1>3, <1>4, <1>6 DEF Access!GovernorCalls, Access!set_external_governor,
       Access!clear_external_governor, Access!reauthorize_governor, Access!bump_epoch
<1>7. CASE Access!ReaderCalls
  BY <1>1, <1>7 DEF Access!ReaderCalls, Access!add_authorized_consumer,
       Access!remove_authorized_consumer, Access!set_consumer_access_mode, Access!set_readers
<1> QED  BY <1>1, <1>5, <1>6, <1>7 DEF Access!Next, rvars

-----------------------------------------------------------------------------
(* Bridges *)

\* What was applied of each network is what its duplicate check remembers.
BridgesRemember ==
    /\ inbound \in 0..Len(Stream)
    /\ DOMAIN applied = {"axelar", "lz"}
    /\ applied.axelar \in Seq({Commands[id] : id \in DOMAIN Commands})
    /\ ax_executed \subseteq DOMAIN Commands
    /\ Bridge!BridgedOnce

\* Each network has its own messages, and two commands are two messages.
LEMMA MessagesApart ==
    /\ \A id \in DOMAIN Commands : Commands[id].net = "axelar"
    /\ \A x, y \in DOMAIN Commands : Commands[x] = Commands[y] => x = y
    /\ \A n \in DOMAIN Stream : Stream[n].net = "lz"
    /\ Stream \in Seq(Bridge!ToSet(Stream))
    /\ DOMAIN Stream = 1..Len(Stream)
<1>1. DOMAIN Commands = {"c1", "c2"}
  BY DEF Commands
<1>2. \A id \in DOMAIN Commands : Commands[id].net = "axelar"
  BY <1>1 DEF Commands
<1>3. Commands["c1"].id = 1 /\ Commands["c2"].id = 2
  BY DEF Commands
<1>4. \A x, y \in DOMAIN Commands : Commands[x] = Commands[y] => x = y
  BY <1>1, <1>3
<1>5. DOMAIN Stream = 1..2 /\ Len(Stream) = 2
  BY DEF Stream
<1>6. \A n \in DOMAIN Stream : Stream[n].net = "lz"
  BY <1>5 DEF Stream
<1>7. Stream \in Seq(Bridge!ToSet(Stream))
  BY DEF Stream, Bridge!ToSet
<1> QED  BY <1>2, <1>4, <1>5, <1>6, <1>7

\* Only a delivered message changes what was applied or what is remembered.
LEMMA DeliveriesOnly ==
    ASSUME Bridge!Next
    PROVE  \/ UNCHANGED <<applied, inbound, ax_executed>>
           \/ \E g \in Gateways, id \in DOMAIN Commands : Bridge!execute_axelar_message(g, id)
           \/ \E g \in Gateways, n \in DOMAIN Stream : Bridge!lz_receive(g, n)
<1> USE DEF Bridge!axvars, Bridge!lzvars
<1>1. CASE Bridge!RegistryCalls
  BY <1>1 DEF Bridge!RegistryCalls, Bridge!register_foreign_asset_mapping,
       Bridge!update_foreign_asset_mapping, Bridge!remove_foreign_asset_mapping
<1>2. CASE Bridge!AxelarCalls
  BY <1>2 DEF Bridge!AxelarCalls, Bridge!set_axelar_gateway, Bridge!set_axelar_trusted_source,
       Bridge!remove_axelar_trusted_source
<1>3. CASE Bridge!LayerZeroCalls
  BY <1>3 DEF Bridge!LayerZeroCalls, Bridge!set_layerzero_endpoint, Bridge!set_lz_chain_name,
       Bridge!set_trusted_remote, Bridge!remove_trusted_remote
<1>4. CASE Bridge!ToggleSource \/ Bridge!Elapse
  BY <1>4 DEF Bridge!ToggleSource, Bridge!Elapse
<1> QED  BY <1>1, <1>2, <1>3, <1>4 DEF Bridge!Next

\* A message is applied only if its network's check has not seen it, and is
\* remembered in the same step.
LEMMA BridgeStep ==
    ASSUME BridgesRemember, [Bridge!Next]_bvars
    PROVE  BridgesRemember'
<1> USE DEF Bridge!BridgedOnce
<1> DEFINE Sent == {Commands[id] : id \in DOMAIN Commands}
<1>1. CASE UNCHANGED <<applied, inbound, ax_executed>>
  BY <1>1 DEF BridgesRemember
<1>2. ASSUME NEW g, NEW id \in DOMAIN Commands, Bridge!execute_axelar_message(g, id)
      PROVE  BridgesRemember'
  <2>1. /\ id \notin ax_executed /\ ax_executed' = ax_executed \cup {id}
        /\ inbound' = inbound
        /\ applied' = [applied EXCEPT ![Commands[id].net] = Append(@, Commands[id])]
    BY <1>2 DEF Bridge!execute_axelar_message, Bridge!apply_bridged_price, Bridge!lzvars
  <2>2. PICK A \in Seq(Sent) : A = applied.axelar
    BY DEF BridgesRemember
  <2>3. /\ DOMAIN applied' = {"axelar", "lz"}
        /\ applied'.axelar = Append(A, Commands[id])
        /\ applied'.lz = applied.lz
    BY <2>1, <2>2, MessagesApart DEF BridgesRemember
  <2>4. PICK m \in Sent : m = Commands[id]
    OBVIOUS
  <2>5. m \notin {A[i] : i \in DOMAIN A}
    <3>1. {A[i] : i \in DOMAIN A} = {Commands[x] : x \in ax_executed}
      BY <2>2 DEF BridgesRemember, Bridge!ToSet
    <3>2. \A x \in ax_executed : x \in DOMAIN Commands /\ x # id
      BY <2>1 DEF BridgesRemember
    <3>3. \A x \in ax_executed : Commands[x] # m
      BY <2>4, <3>2, MessagesApart
    <3> QED  BY <3>1, <3>3, Zenon
  <2>6. \A i, j \in DOMAIN A : A[i] = A[j] => i = j
    BY <2>2 DEF BridgesRemember, Bridge!IsInjective
  <2>7. {A[i] : i \in DOMAIN A} = {Commands[x] : x \in ax_executed}
    BY <2>2 DEF BridgesRemember, Bridge!ToSet
  <2>8. Append(A, m) \in Seq(Sent)
    BY <2>2, <2>4
  <2>9. \A i, j \in DOMAIN Append(A, m) : Append(A, m)[i] = Append(A, m)[j] => i = j
    <3> HIDE DEF Sent
    <3> QED  BY <2>2, <2>5, <2>6
  <2>10. {Append(A, m)[i] : i \in DOMAIN Append(A, m)} = {A[i] : i \in DOMAIN A} \cup {m}
    <3> HIDE DEF Sent
    <3>1. \A i \in DOMAIN A : i \in DOMAIN Append(A, m) /\ Append(A, m)[i] = A[i]
      BY <2>2, <2>4
    <3>2. Len(A) + 1 \in DOMAIN Append(A, m) /\ Append(A, m)[Len(A) + 1] = m
      BY <2>2, <2>4
    <3>3. \A i \in DOMAIN Append(A, m) : i \in DOMAIN A \/ i = Len(A) + 1
      BY <2>2, <2>4
    <3> QED  BY <3>1, <3>2, <3>3
  <2>11. Bridge!ToSet(applied'.axelar) = {Commands[x] : x \in ax_executed'}
    <3>1. applied'.axelar = Append(A, m)
      BY <2>3, <2>4
    <3>2. Bridge!ToSet(Append(A, m)) = {Commands[x] : x \in ax_executed} \cup {m}
      BY <2>7, <2>10, Zenon DEF Bridge!ToSet
    <3> QED  BY <2>1, <2>4, <3>1, <3>2
  <2>12. Bridge!IsInjective(applied'.axelar)
    BY <2>3, <2>4, <2>9 DEF Bridge!IsInjective
  <2> QED  BY <2>1, <2>3, <2>4, <2>8, <2>11, <2>12 DEF BridgesRemember
<1>3. ASSUME NEW g, NEW n \in DOMAIN Stream, Bridge!lz_receive(g, n)
      PROVE  BridgesRemember'
  <2>1. /\ n = inbound + 1 /\ inbound' = n
        /\ ax_executed' = ax_executed
        /\ applied' = [applied EXCEPT ![Stream[n].net] = Append(@, Stream[n])]
    BY <1>3 DEF Bridge!lz_receive, Bridge!NextNonce, Bridge!apply_bridged_price, Bridge!axvars
  <2>2. /\ DOMAIN applied' = {"axelar", "lz"}
        /\ applied'.axelar = applied.axelar
        /\ applied'.lz = Append(SubSeq(Stream, 1, inbound), Stream[n])
    BY <2>1, MessagesApart DEF BridgesRemember
  <2>3. Append(SubSeq(Stream, 1, inbound), Stream[n]) = SubSeq(Stream, 1, n)
    BY <2>1, MessagesApart DEF BridgesRemember
  <2>4. inbound' \in 0..Len(Stream)
    BY <2>1, MessagesApart DEF BridgesRemember
  <2> QED  BY <2>1, <2>2, <2>3, <2>4 DEF BridgesRemember
<1> QED  BY <1>1, <1>2, <1>3, DeliveriesOnly DEF bvars

-----------------------------------------------------------------------------
(* The router *)

\* Where a submission stands.  Of the ones outside quarantine: what is in the
\* ledger under a region was written once, what is not in it or only intended
\* was not, and the intended one is the one of the call that is running.
Stands(k) ==
    /\ landed[k] \in {0, 1}
    /\ told[k] = "accepted" => landed[k] = 1
    /\ k \notin quarantined =>
         /\ recorded[k] \in {None, Ingest!Pending} => landed[k] = 0
         /\ recorded[k] \notin {None, Ingest!Pending} => landed[k] = 1
         /\ recorded[k] = Ingest!Pending => call.key = k

\* A call with no key is the idle one.
Calls == {c \in [key : IngestKeys \cup {None}, tried : SUBSET FleetRegions] :
            c.key = None => c = Ingest!Idle}

RouterKept ==
    /\ recorded \in [IngestKeys -> FleetRegions \cup {None, Ingest!Pending}]
    /\ DOMAIN told = IngestKeys /\ DOMAIN landed = IngestKeys
    /\ region \in FleetRegions \cup {None}
    /\ call \in Calls
    /\ call.key # None =>
         /\ call.key \in IngestKeys /\ call.key \notin quarantined
         /\ recorded[call.key] = Ingest!Pending
    /\ \A k \in IngestKeys : Stands(k)

\* The first region of a set of them is one of them.
LEMMA FirstRegion ==
    ASSUME NEW R \in SUBSET Ingest!Regions
    PROVE  Ingest!First(R) \in FleetRegions \cup {None}
<1>1. CASE R = {}
  BY <1>1 DEF Ingest!First
<1>2. CASE R # {}
  <2>1. PICK P : P = {i \in DOMAIN Fleet : Fleet[i] \in R}
    OBVIOUS
  <2>2. P \in SUBSET Nat /\ P \subseteq DOMAIN Fleet /\ \A i \in DOMAIN Fleet : Fleet[i] \in FleetRegions
    BY <2>1, IngestAssumption
  <2>3. P # {}
    BY <1>2, <2>1 DEF Ingest!Regions, Ingest!ToSet
  <2>4. PICK n \in P : \A m \in P : n <= m
    BY <2>2, <2>3, LeastNatural
  <2>5. Ingest!Min(P) \in P
    BY <2>4, Zenon DEF Ingest!Min
  <2> QED  BY <1>2, <2>1, <2>2, <2>5 DEF Ingest!First
<1> QED  BY <1>1, <1>2

LEMMA ChosenRegion ==
    ASSUME RouterKept, NEW tried
    PROVE  Ingest!ensure_active(tried) \in FleetRegions \cup {None}
BY FirstRegion DEF RouterKept, Ingest!ensure_active

LEMMA RouterStep ==
    ASSUME RouterKept, [Ingest!Next]_gvars
    PROVE  RouterKept'
<1> USE DEF RouterKept
<1>1. ASSUME UNCHANGED <<recorded, quarantined, call, told, landed>>,
             region' \in FleetRegions \cup {None}
      PROVE  RouterKept'
  BY <1>1 DEF Stands, Ingest!Pending
<1>2. CASE UNCHANGED gvars
  BY <1>1, <1>2 DEF gvars
<1>3. ASSUME NEW r \in Ingest!Regions, \/ Ingest!probe(r) \/ Ingest!Outage(r) \/ Ingest!Restore(r)
      PROVE  RouterKept'
  BY <1>1, <1>3 DEF Ingest!probe, Ingest!Outage, Ingest!Restore
<1>4. CASE Ingest!Tick
  BY <1>1, <1>4 DEF Ingest!Tick
<1>5. ASSUME NEW k \in IngestKeys, Ingest!submit(k)
      PROVE  RouterKept'
  <2>1. call = Ingest!Idle /\ call.key = None /\ quarantined' = quarantined /\ landed' = landed
        /\ region' = region
    BY <1>5 DEF Ingest!submit, Ingest!Idle
  <2>2. CASE k \in quarantined
    <3>1. told' = [told EXCEPT ![k] = "ambiguous"] /\ recorded' = recorded /\ call' = call
      BY <1>5, <2>2 DEF Ingest!submit
    <3>2. \A j \in IngestKeys : told'[j] = "accepted" => told[j] = "accepted"
      BY <3>1
    <3> QED  BY <2>1, <3>1, <3>2 DEF Stands, Ingest!Pending
  <2>3. CASE k \notin quarantined /\ recorded[k] # None
    <3>1. told' = [told EXCEPT ![k] = "accepted"] /\ recorded' = recorded /\ call' = call
      BY <1>5, <2>3 DEF Ingest!submit
    <3>2. recorded[k] # Ingest!Pending
      BY <2>1, <2>3, IngestAssumption DEF Stands
    <3>3. landed[k] = 1
      BY <2>3, <3>2 DEF Stands
    <3>4. \A j \in IngestKeys : told'[j] = "accepted" => landed[j] = 1
      BY <3>1, <3>3 DEF Stands
    <3> QED  BY <2>1, <3>1, <3>4 DEF Stands, Ingest!Pending
  <2>4. CASE k \notin quarantined /\ recorded[k] = None
    <3>1. /\ recorded' = [recorded EXCEPT ![k] = Ingest!Pending]
          /\ call' = [key |-> k, tried |-> {}] /\ told' = told
      BY <1>5, <2>4 DEF Ingest!submit
    <3>2. call'.key = k /\ k # None
      BY <3>1, IngestAssumption
    <3>3. \A j \in IngestKeys : j # k /\ j \notin quarantined => recorded[j] # Ingest!Pending
      BY <2>1, IngestAssumption DEF Stands
    <3>4. \A j \in IngestKeys : Stands(j)'
      <4> SUFFICES ASSUME NEW j \in IngestKeys PROVE Stands(j)'
        OBVIOUS
      <4>1. Stands(j)
        OBVIOUS
      <4>2. CASE j = k
        BY <2>1, <2>4, <3>1, <3>2, <4>1, <4>2 DEF Stands, Ingest!Pending
      <4>3. CASE j # k
        BY <2>1, <3>1, <3>3, <4>1, <4>3 DEF Stands, Ingest!Pending
      <4> QED  BY <4>2, <4>3
    <3>5. recorded' \in [IngestKeys -> FleetRegions \cup {None, Ingest!Pending}]
      BY <3>1
    <3>6. call' \in Calls
      BY <3>1, <3>2 DEF Calls
    <3>7. recorded'[k] = Ingest!Pending
      BY <3>1
    <3> QED  BY <2>1, <2>4, <3>1, <3>2, <3>4, <3>5, <3>6, <3>7 DEF Ingest!Pending
  <2> QED  BY <2>2, <2>3, <2>4
<1>6. ASSUME call # Ingest!Idle, RouterKept
      PROVE  /\ call.key \in IngestKeys /\ call.key # None /\ call.key \notin quarantined
             /\ recorded[call.key] = Ingest!Pending /\ landed[call.key] = 0
  <2>1. call.key # None
    BY <1>6 DEF Ingest!Idle, Calls
  <2> QED  BY <1>6, <2>1 DEF Stands
\* A call that ends leaves no other intent behind.
<1>7. ASSUME call # Ingest!Idle
      PROVE  \A j \in IngestKeys : j # call.key /\ j \notin quarantined => recorded[j] # Ingest!Pending
  BY <1>7 DEF Stands
<1>8. CASE Ingest!no_region
  <2>1. PICK k \in IngestKeys : k = call.key
    BY <1>6, <1>8 DEF Ingest!no_region
  <2>2. /\ recorded' = [recorded EXCEPT ![k] = None] /\ told' = [told EXCEPT ![k] = "unavailable"]
        /\ call' = Ingest!Idle /\ call'.key = None /\ call # Ingest!Idle
        /\ region' = region /\ quarantined' = quarantined /\ landed' = landed
    BY <1>8, <2>1 DEF Ingest!no_region, Ingest!Idle
  <2>3. ASSUME NEW j \in IngestKeys PROVE Stands(j)'
    <3>1. Stands(j) /\ landed[k] = 0
      BY <1>6, <2>1, <2>2
    <3>2. CASE j = k
      BY <2>2, <3>1, <3>2, IngestAssumption DEF Stands, Ingest!Pending
    <3>3. CASE j # k
      BY <1>7, <2>1, <2>2, <3>1, <3>3 DEF Stands, Ingest!Pending
    <3> QED  BY <3>2, <3>3
  <2> QED  BY <2>2, <2>3 DEF Ingest!Pending, Calls, Ingest!Idle
<1>9. ASSUME NEW r, r = Ingest!ensure_active(call.tried), call # Ingest!Idle, r # None,
             Ingest!accept(r)
      PROVE  RouterKept'
  <2>1. PICK k \in IngestKeys : k = call.key
    BY <1>6, <1>9
  <2>2. /\ landed' = [landed EXCEPT ![k] = @ + 1] /\ recorded' = [recorded EXCEPT ![k] = r]
        /\ told' = [told EXCEPT ![k] = "accepted"] /\ region' = r
        /\ call' = Ingest!Idle /\ call'.key = None /\ quarantined' = quarantined
    BY <1>9, <2>1 DEF Ingest!accept, Ingest!Idle
  <2>3. r \in FleetRegions /\ r # Ingest!Pending
    BY <1>9, ChosenRegion, IngestAssumption
  <2>4. landed[k] = 0 /\ landed'[k] = 1
    BY <1>6, <1>9, <2>1, <2>2
  <2>5. ASSUME NEW j \in IngestKeys PROVE Stands(j)'
    <3>1. Stands(j)
      OBVIOUS
    <3>2. CASE j = k
      BY <1>9, <2>2, <2>3, <2>4, <3>2 DEF Stands, Ingest!Pending
    <3>3. CASE j # k
      BY <1>7, <1>9, <2>1, <2>2, <3>1, <3>3 DEF Stands, Ingest!Pending
    <3> QED  BY <3>2, <3>3
  <2> QED  BY <2>2, <2>3, <2>5 DEF Ingest!Pending, Calls, Ingest!Idle
<1>10. ASSUME NEW r, NEW usable, usable = available'
       PROVE  Ingest!failover(r, usable) \in FleetRegions \cup {None}
  BY <1>10, FirstRegion DEF Ingest!failover
<1>11. ASSUME NEW r, r = Ingest!ensure_active(call.tried), call # Ingest!Idle, r # None,
              Ingest!refuse(r)
       PROVE  RouterKept'
  <2>1. r \in FleetRegions /\ call.key # None
    BY <1>6, <1>11, ChosenRegion
  <2>2. /\ UNCHANGED <<recorded, quarantined, told, landed>>
        /\ call'.key = call.key /\ call' \in Calls
        /\ region' \in FleetRegions \cup {None}
    BY <1>10, <1>11, <2>1 DEF Ingest!refuse, Calls
  <2> QED  BY <2>2 DEF Stands, Ingest!Pending
<1>12. ASSUME NEW r, call # Ingest!Idle, Ingest!timeout(r)
       PROVE  RouterKept'
  <2>1. PICK k \in IngestKeys : k = call.key
    BY <1>6, <1>12
  <2>2. PICK written \in {0, 1} : landed' = [landed EXCEPT ![k] = @ + written]
    BY <1>12, <2>1 DEF Ingest!timeout
  <2>3. /\ recorded' = recorded /\ quarantined' = quarantined \cup {k}
        /\ told' = [told EXCEPT ![k] = "ambiguous"]
        /\ call' = Ingest!Idle /\ call'.key = None
        /\ region' \in FleetRegions \cup {None}
    BY <1>10, <1>12, <2>1 DEF Ingest!timeout, Ingest!Idle
  <2>4. landed[k] = 0 /\ landed'[k] \in {0, 1}
    BY <1>6, <1>12, <2>1, <2>2
  <2>5. ASSUME NEW j \in IngestKeys PROVE Stands(j)'
    <3>1. Stands(j)
      OBVIOUS
    <3>2. CASE j = k
      BY <2>3, <2>4, <3>2 DEF Stands
    <3>3. CASE j # k
      BY <1>7, <1>12, <2>1, <2>2, <2>3, <3>1, <3>3 DEF Stands, Ingest!Pending
    <3> QED  BY <3>2, <3>3
  <2> QED  BY <2>2, <2>3, <2>5 DEF Ingest!Pending, Calls, Ingest!Idle
<1>13. CASE Ingest!transport
  <2>1. PICK r : r = Ingest!ensure_active(call.tried)
    OBVIOUS
  <2>2. call # Ingest!Idle /\ r # None
        /\ (Ingest!accept(r) \/ Ingest!refuse(r) \/ Ingest!timeout(r))
    BY <1>13, <2>1 DEF Ingest!transport
  <2> QED  BY <1>9, <1>11, <1>12, <2>1, <2>2
<1> QED  BY <1>2, <1>3, <1>4, <1>5, <1>8, <1>13 DEF Ingest!Next

-----------------------------------------------------------------------------

\* axelar_gmp.rs:186, layerzero.rs:183, signed_submission.rs, router.py:238.
\* A bridged message and a signed price are applied once and in their order,
\* however often they are delivered and whatever is administered in between;
\* and the router writes a submission once, through outages, failovers and
\* answers that leave open whether the write happened.
THEOREM NothingAppliedTwice == Spec => []AppliedOnce
<1>1. Init => BridgesRemember /\ NoncesRise /\ RouterKept
  <2>1. Bridge!Init => BridgesRemember
    BY MessagesApart DEF Bridge!Init, BridgesRemember, Bridge!BridgedOnce, Bridge!ToSet,
         Bridge!IsInjective
  <2>2. Admission!Init => NoncesRise
    BY DEF Admission!Init, NoncesRise, Admission!ProofsUsedOnce
  <2>3. Ingest!Init => RouterKept
    <3>1. Head(Fleet) \in FleetRegions
      BY IngestAssumption
    <3> SUFFICES ASSUME Ingest!Init PROVE RouterKept
      OBVIOUS
    <3>2. /\ region = Head(Fleet) /\ recorded = [k \in IngestKeys |-> None]
          /\ call = Ingest!Idle /\ told = [k \in IngestKeys |-> None]
          /\ landed = [k \in IngestKeys |-> 0] /\ quarantined = {}
      BY DEF Ingest!Init
    <3>3. call \in Calls /\ call.key = None
      BY <3>2 DEF Calls, Ingest!Idle
    <3>4. \A k \in IngestKeys : Stands(k)
      BY <3>2, IngestAssumption DEF Stands, Ingest!Pending
    <3> QED  BY <3>1, <3>2, <3>3, <3>4 DEF RouterKept, Ingest!Pending
  <2> QED  BY <2>1, <2>2, <2>3 DEF Init
<1>2. BridgesRemember /\ [Next]_vars => BridgesRemember'
  BY StepsOfParts, BridgeStep
<1>3. NoncesRise /\ [Next]_vars => NoncesRise'
  BY StepsOfParts, NonceStep
<1>4. RouterKept /\ [Next]_vars => RouterKept'
  BY StepsOfParts, RouterStep
<1>5. RouterKept => Ingest!SubmittedOnce
  BY DEF RouterKept, Stands, Ingest!SubmittedOnce
<1>6. BridgesRemember /\ NoncesRise /\ RouterKept => AppliedOnce
  BY <1>5 DEF BridgesRemember, NoncesRise, AppliedOnce
<1> QED  BY <1>1, <1>2, <1>3, <1>4, <1>6, PTL DEF Spec

-----------------------------------------------------------------------------
(* Configuration history *)

Settings == [min_sources : Quorums, duration : Nat]

\* An index of consecutive versions, none older than MAX_CONFIG_HISTORY back,
\* with a configuration for each and for no other.
Recent(index, snaps) ==
    /\ index \in Seq(Nat)
    /\ Len(index) <= MaxConfig
    /\ \A i \in 2..Len(index) : index[i] = index[i - 1] + 1
    /\ DOMAIN snaps = Timelock!ToSet(index)
    /\ \A w \in Timelock!ToSet(index) : snaps[w] \in Settings

HistoryKept ==
    /\ Recent(versions, snapshots)
    /\ config \in Settings

\* One snapshot more keeps the history recent.
LEMMA SnapshotKeepsRecent ==
    ASSUME NEW index, NEW snaps, Recent(index, snaps), NEW now \in Settings
    PROVE  Recent(Timelock!Snapshot(snaps, index, now).index,
                  Timelock!Snapshot(snaps, index, now).snaps)
<1> DEFINE v == (IF index = <<>> THEN 0 ELSE Timelock!Last(index)) + 1
           grown == Append(index, v)
           retained == IF Len(grown) > MaxConfig THEN Tail(grown) ELSE grown
           held == [w \in Timelock!ToSet(retained) |-> IF w = v THEN now ELSE snaps[w]]
<1>0. /\ index \in Seq(Nat) /\ Len(index) <= MaxConfig /\ MaxConfig \in Nat \ {0}
      /\ \A i \in 2..Len(index) : index[i] = index[i - 1] + 1
  BY TimelockAssumption DEF Recent
<1>1. v \in Nat /\ (Len(index) > 0 => v = index[Len(index)] + 1)
  BY <1>0 DEF Timelock!Last
<1> HIDE DEF v
<1>2. /\ grown \in Seq(Nat) /\ Len(grown) = Len(index) + 1
      /\ grown[Len(index) + 1] = v
      /\ \A i \in 1..Len(index) : grown[i] = index[i]
  BY <1>0, <1>1
<1>3. \A i \in 2..Len(grown) : grown[i] = grown[i - 1] + 1
  <2> SUFFICES ASSUME NEW i \in 2..Len(grown)
               PROVE  grown[i] = grown[i - 1] + 1
    OBVIOUS
  <2>1. CASE i \in 2..Len(index)
    BY <1>0, <1>2, <2>1
  <2>2. CASE i = Len(index) + 1
    BY <1>0, <1>1, <1>2, <2>2
  <2> QED  BY <1>0, <1>2, <2>1, <2>2
<1> HIDE DEF grown
<1>4. /\ retained \in Seq(Nat) /\ Len(retained) <= MaxConfig
      /\ \A i \in 2..Len(retained) : retained[i] = retained[i - 1] + 1
      /\ \A i \in 1..Len(retained) : \E j \in 1..Len(grown) : retained[i] = grown[j]
  <2>1. CASE Len(grown) > MaxConfig
    <3>1. /\ retained = Tail(grown) /\ retained \in Seq(Nat) /\ Len(retained) = Len(grown) - 1
          /\ \A i \in 1..Len(retained) : retained[i] = grown[i + 1]
      BY <1>0, <1>2, <2>1
    <3>2. \A i \in 1..Len(retained) : i + 1 \in 1..Len(grown) /\ (i > 1 => i \in 2..Len(grown))
      BY <1>0, <1>2, <3>1
    <3> HIDE DEF retained
    <3>3. \A i \in 2..Len(retained) : retained[i] = retained[i - 1] + 1
      <4> SUFFICES ASSUME NEW i \in 2..Len(retained)
                   PROVE  retained[i] = retained[i - 1] + 1
        OBVIOUS
      <4>1. i - 1 \in 1..Len(retained) /\ i \in 1..Len(retained) /\ i + 1 \in 2..Len(grown)
        BY <1>2, <3>1
      <4>2. retained[i] = grown[i + 1] /\ retained[i - 1] = grown[(i - 1) + 1]
        BY <3>1, <4>1
      <4>3. grown[i + 1] = grown[(i + 1) - 1] + 1
        BY <1>3, <4>1
      <4>4. (i - 1) + 1 = i /\ (i + 1) - 1 = i
        OBVIOUS
      <4> QED  BY <4>2, <4>3, <4>4
    <3> QED  BY <1>0, <1>2, <3>1, <3>2, <3>3
  <2>2. CASE ~ (Len(grown) > MaxConfig)
    <3>1. retained = grown
      BY <2>2
    <3> HIDE DEF retained
    <3>2. Len(grown) <= MaxConfig
      BY <1>0, <1>2, <2>2
    <3>3. \A i \in 1..Len(grown) : \E j \in 1..Len(grown) : grown[i] = grown[j]
      BY Zenon
    <3> QED  BY <1>2, <1>3, <3>1, <3>2, <3>3, Zenon
  <2> QED  BY <2>1, <2>2
<1> HIDE DEF retained
<1>5. \A w \in Timelock!ToSet(retained) : w = v \/ w \in Timelock!ToSet(index)
  <2>1. \A j \in 1..Len(grown) : grown[j] = v \/ grown[j] \in Timelock!ToSet(index)
    <3>1. \A j \in 1..Len(index) : index[j] \in Timelock!ToSet(index)
      BY <1>0 DEF Timelock!ToSet
    <3>2. \A j \in 1..Len(grown) : j \in 1..Len(index) \/ j = Len(index) + 1
      BY <1>0, <1>2
    <3> QED  BY <1>2, <3>1, <3>2
  <2> QED  BY <1>4, <2>1 DEF Timelock!ToSet
<1>6. \A w \in Timelock!ToSet(retained) : held[w] \in Settings
  BY <1>5 DEF Recent
<1>7. DOMAIN held = Timelock!ToSet(retained)
  OBVIOUS
<1> HIDE DEF held
<1>8. Recent(retained, held)
  BY <1>4, <1>6, <1>7 DEF Recent
<1>9. Timelock!Snapshot(snaps, index, now) = [index |-> retained, snaps |-> held]
  BY DEF Timelock!Snapshot, retained, grown, v, held
<1> QED  BY <1>8, <1>9

\* A batch of one element and of two applies them in their order.
LEMMA BatchOfOne ==
    ASSUME NEW start, NEW e
    PROVE  Timelock!FoldLeft(Timelock!execute_single_op, start, <<e>>)
             = Timelock!execute_single_op(start, e)
<1> DEFINE g == [s \in SUBSET {1} |-> IF s = {} THEN start ELSE Timelock!execute_single_op(start, e)]
           P(h) == h = [s \in SUBSET (DOMAIN <<e>>) |->
                          IF s = {} THEN start
                          ELSE Timelock!execute_single_op(h[s \ {Timelock!Max(s)}],
                                                          <<e>>[Timelock!Max(s)])]
<1>1. Timelock!Max({1}) = 1
  BY DEF Timelock!Max
<1>2. DOMAIN <<e>> = {1}
  OBVIOUS
<1>3. P(g)
  <2>1. \A s \in SUBSET {1} : s = {} \/ s = {1}
    OBVIOUS
  <2>2. g[{}] = start /\ {1} \ {1} = {} /\ <<e>>[1] = e
    OBVIOUS
  <2>3. g[{1}] = Timelock!execute_single_op(start, e)
    OBVIOUS
  <2>4. \A s \in SUBSET {1} : g[s] = IF s = {} THEN start
                                    ELSE Timelock!execute_single_op(g[s \ {Timelock!Max(s)}],
                                                                    <<e>>[Timelock!Max(s)])
    <3> HIDE DEF g
    <3>1. g[{1}] = Timelock!execute_single_op(g[{1} \ {Timelock!Max({1})}],
                                              <<e>>[Timelock!Max({1})])
      BY <1>1, <2>2, <2>3
    <3> QED  BY <2>1, <2>2, <3>1, Zenon
  <2>5. g = [s \in SUBSET {1} |-> g[s]]
    OBVIOUS
  <2> HIDE DEF g
  <2> QED  BY <1>2, <2>4, <2>5
<1>4. \A h : P(h) => h[{1}] = Timelock!execute_single_op(start, e)
  BY <1>1, <1>2
<1>5. Timelock!FoldLeft(Timelock!execute_single_op, start, <<e>>) = (CHOOSE h : P(h))[DOMAIN <<e>>]
  BY DEF Timelock!FoldLeft, Timelock!MapThenFoldSet
<1> HIDE DEF P
<1> QED  BY <1>2, <1>3, <1>4, <1>5

LEMMA BatchOfTwo ==
    ASSUME NEW start, NEW b, DOMAIN b = {1, 2}
    PROVE  Timelock!FoldLeft(Timelock!execute_single_op, start, b)
             = Timelock!execute_single_op(Timelock!execute_single_op(start, b[1]), b[2])
<1> DEFINE first == Timelock!execute_single_op(start, b[1])
           g == [s \in SUBSET {1, 2} |->
                   IF s = {} THEN start
                   ELSE IF s = {1} THEN first
                   ELSE IF s = {2} THEN Timelock!execute_single_op(start, b[2])
                   ELSE Timelock!execute_single_op(first, b[2])]
           P(h) == h = [s \in SUBSET (DOMAIN b) |->
                          IF s = {} THEN start
                          ELSE Timelock!execute_single_op(h[s \ {Timelock!Max(s)}],
                                                          b[Timelock!Max(s)])]
<1>1. Timelock!Max({1}) = 1 /\ Timelock!Max({2}) = 2 /\ Timelock!Max({1, 2}) = 2
  BY DEF Timelock!Max
<1>2. \A s \in SUBSET {1, 2} : s = {} \/ s = {1} \/ s = {2} \/ s = {1, 2}
  OBVIOUS
<1>3. {1} \ {1} = {} /\ {2} \ {2} = {} /\ {1, 2} \ {2} = {1} /\ {1} # {2} /\ {1} # {1, 2} /\ {2} # {1, 2}
  OBVIOUS
<1>4. P(g)
  <2> HIDE DEF first
  <2>1. /\ g[{}] = start
        /\ g[{1}] = first
        /\ g[{2}] = Timelock!execute_single_op(start, b[2])
        /\ g[{1, 2}] = Timelock!execute_single_op(first, b[2])
    BY <1>3
  <2>2. g = [s \in SUBSET {1, 2} |-> g[s]]
    OBVIOUS
  <2> HIDE DEF g
  <2>3. /\ g[{1}] = Timelock!execute_single_op(g[{1} \ {Timelock!Max({1})}],
                                               b[Timelock!Max({1})])
        /\ g[{2}] = Timelock!execute_single_op(g[{2} \ {Timelock!Max({2})}],
                                               b[Timelock!Max({2})])
        /\ g[{1, 2}] = Timelock!execute_single_op(g[{1, 2} \ {Timelock!Max({1, 2})}],
                                                  b[Timelock!Max({1, 2})])
    BY <1>1, <1>3, <2>1, <2>2 DEF first
  <2>4. \A s \in SUBSET {1, 2} : g[s] = IF s = {} THEN start
                                       ELSE Timelock!execute_single_op(
                                              g[s \ {Timelock!Max(s)}],
                                              b[Timelock!Max(s)])
    BY <1>2, <2>1, <2>3, Zenon
  <2> QED  BY <2>2, <2>4
<1>5. \A h : P(h) => h[{1, 2}] = Timelock!execute_single_op(first, b[2])
  <2> SUFFICES ASSUME NEW h, P(h)
               PROVE  h[{1, 2}] = Timelock!execute_single_op(first, b[2])
    OBVIOUS
  <2>1. \A s \in SUBSET {1, 2} : h[s] = IF s = {} THEN start
                                       ELSE Timelock!execute_single_op(
                                              h[s \ {Timelock!Max(s)}],
                                              b[Timelock!Max(s)])
    OBVIOUS
  <2> HIDE DEF P, first
  <2>2. h[{}] = start
    BY <2>1
  <2>3. h[{1}] = Timelock!execute_single_op(h[{1} \ {Timelock!Max({1})}],
                                            b[Timelock!Max({1})])
    BY <2>1, Zenon
  <2>4. h[{1, 2}] = Timelock!execute_single_op(h[{1, 2} \ {Timelock!Max({1, 2})}],
                                               b[Timelock!Max({1, 2})])
    BY <2>1, Zenon
  <2>5. h[{1}] = first
    BY <1>1, <1>3, <2>2, <2>3 DEF first
  <2> QED  BY <1>1, <1>3, <2>4, <2>5
<1>6. Timelock!FoldLeft(Timelock!execute_single_op, start, b)
        = (CHOOSE h : P(h))[DOMAIN b]
  BY DEF Timelock!FoldLeft, Timelock!MapThenFoldSet
<1> HIDE DEF P
<1> QED  BY <1>4, <1>5, <1>6

\* An element of a batch keeps the history recent and the configuration whole.
LEMMA ElementKeepsRecent ==
    ASSUME NEW s, Recent(s.index, s.snaps), s.config \in Settings, NEW e \in Timelock!Elements
    PROVE  /\ Recent(Timelock!execute_single_op(s, e).index, Timelock!execute_single_op(s, e).snaps)
           /\ Timelock!execute_single_op(s, e).config \in Settings
<1>1. CASE e.type = "Upgrade"
  BY <1>1 DEF Timelock!execute_single_op
<1>2. CASE e.type # "Upgrade"
  <2>1. e.value \in Quorums
    BY <1>2 DEF Timelock!Elements
  <2>2. [s.config EXCEPT !.min_sources = e.value] \in Settings
    BY <2>1 DEF Settings
  <2>3. Recent(Timelock!Snapshot(s.snaps, s.index, s.config).index,
               Timelock!Snapshot(s.snaps, s.index, s.config).snaps)
    BY SnapshotKeepsRecent
  <2> QED  BY <1>2, <2>2, <2>3 DEF Timelock!execute_single_op
<1> QED  BY <1>1, <1>2

\* The lists of elements that are proposed.
Batches == {<<e>> : e \in Timelock!Elements}
             \cup UNION {{<<e, f>> : f \in Timelock!Elements} : e \in Timelock!Elements}

LEMMA BatchKeepsRecent ==
    ASSUME HistoryKept, NEW elements \in Batches
    PROVE  LET after == Timelock!FoldLeft(Timelock!execute_single_op,
                          [index |-> versions, snaps |-> snapshots, config |-> config], elements)
           IN  Recent(after.index, after.snaps) /\ after.config \in Settings
<1> DEFINE now == [index |-> versions, snaps |-> snapshots, config |-> config]
<1>1. Recent(now.index, now.snaps) /\ now.config \in Settings
  BY DEF HistoryKept
<1> HIDE DEF now
<1>2. ASSUME NEW e \in Timelock!Elements, elements = <<e>>
      PROVE  LET after == Timelock!FoldLeft(Timelock!execute_single_op, now, elements)
             IN  Recent(after.index, after.snaps) /\ after.config \in Settings
  BY <1>1, <1>2, BatchOfOne, ElementKeepsRecent
<1>3. ASSUME NEW e \in Timelock!Elements, NEW f \in Timelock!Elements, elements = <<e, f>>
      PROVE  LET after == Timelock!FoldLeft(Timelock!execute_single_op, now, elements)
             IN  Recent(after.index, after.snaps) /\ after.config \in Settings
  <2>1. PICK s : s = Timelock!execute_single_op(now, e)
    OBVIOUS
  <2>2. Recent(s.index, s.snaps) /\ s.config \in Settings
    BY <1>1, <2>1, ElementKeepsRecent
  <2>3. /\ Recent(Timelock!execute_single_op(s, f).index, Timelock!execute_single_op(s, f).snaps)
        /\ Timelock!execute_single_op(s, f).config \in Settings
    BY <2>2, ElementKeepsRecent
  <2>4. Timelock!FoldLeft(Timelock!execute_single_op, now, elements)
          = Timelock!execute_single_op(s, f)
    <3>1. DOMAIN elements = {1, 2} /\ elements[1] = e /\ elements[2] = f
      BY <1>3
    <3> QED  BY <2>1, <3>1, BatchOfTwo
  <2> QED  BY <2>3, <2>4
<1>4. \/ \E e \in Timelock!Elements : elements = <<e>>
      \/ \E e \in Timelock!Elements, f \in Timelock!Elements : elements = <<e, f>>
  BY Zenon DEF Batches
<1> QED  BY <1>2, <1>3, <1>4 DEF now

-----------------------------------------------------------------------------
(* Timelock *)

\* The greater of two and of three numbers.
LEMMA GreaterOfTwo ==
    ASSUME NEW a \in Nat, NEW b \in Nat
    PROVE  Timelock!Max({a, b}) \in Nat /\ Timelock!Max({a, b}) >= a /\ Timelock!Max({a, b}) >= b
<1>1. \E x \in {a, b} : \A y \in {a, b} : x >= y
  OBVIOUS
<1> QED  BY <1>1 DEF Timelock!Max

LEMMA GreatestOfThree ==
    ASSUME NEW a \in Nat, NEW b \in Nat, NEW c \in Nat
    PROVE  Timelock!Max({a, b, c}) \in Nat
<1>1. \E x \in {a, b, c} : \A y \in {a, b, c} : x >= y
  OBVIOUS
<1> QED  BY <1>1 DEF Timelock!Max

Operations == [proposed : Nat, priority : Timelock!Priorities, promised : Nat]
BatchRecords == [proposed : Nat, elements : Batches, promised : Nat]

\* The delays in force are numbers, and the lists of operations and batches
\* are as long as their counters say.
QueuesTyped ==
    /\ seq \in Nat
    /\ delay \in [Timelock!Priorities -> Nat \cup {-1}]
    /\ ops \in Seq({Timelock!Gone} \cup Operations) /\ op_count = Len(ops)
    /\ batches \in Seq({Timelock!Gone} \cup BatchRecords) /\ batch_count = Len(batches)

\* What was executed names an operation or a batch that existed.
ExecutionsTyped ==
    \A x \in executed :
        \/ x.kind = "op" /\ x.id \in 1..Len(ops)
        \/ x.kind = "batch" /\ x.id \in 1..Len(batches)

TimelockKept == QueuesTyped /\ ExecutionsTyped /\ HistoryKept /\ Timelock!NothingEarly

\* The delay of a priority is a number.
LEMMA DelayIsNumber ==
    ASSUME QueuesTyped, HistoryKept, NEW p \in Timelock!Priorities
    PROVE  Timelock!get_priority_delay(p) \in Nat
<1>1. Defaults[p] \in Nat
  BY DEF Defaults, Timelock!Priorities
<1>2. config.duration \in Nat
  BY DEF HistoryKept, Settings
<1>3. delay[p] \in Nat \/ delay[p] = Timelock!Unset
  BY DEF QueuesTyped, Timelock!Unset
<1> QED  BY <1>1, <1>2, <1>3 DEF Timelock!get_priority_delay

\* And so is the delay of a batch.
LEMMA BatchDelayIsNumber ==
    ASSUME QueuesTyped, HistoryKept, NEW elements \in Batches
    PROVE  Timelock!batch_required_delay(elements) \in Nat
<1>1. \A e : Timelock!element_delay(e) \in Nat
  BY DelayIsNumber DEF Timelock!element_delay, Timelock!Priorities
<1>2. ASSUME NEW e, elements = <<e>>
      PROVE  Timelock!batch_required_delay(elements) \in Nat
  <2>1. {BatchFloor} \cup {Timelock!element_delay(x) : x \in Timelock!ToSet(elements)}
          = {BatchFloor, Timelock!element_delay(e)}
    BY <1>2 DEF Timelock!ToSet
  <2> QED  BY <1>1, <2>1, GreaterOfTwo, TimelockAssumption DEF Timelock!batch_required_delay
<1>3. ASSUME NEW e, NEW f, elements = <<e, f>>
      PROVE  Timelock!batch_required_delay(elements) \in Nat
  <2>1. {BatchFloor} \cup {Timelock!element_delay(x) : x \in Timelock!ToSet(elements)}
          = {BatchFloor, Timelock!element_delay(e), Timelock!element_delay(f)}
    BY <1>3 DEF Timelock!ToSet
  <2> QED  BY <1>1, <2>1, GreatestOfThree, TimelockAssumption DEF Timelock!batch_required_delay
<1> QED  BY <1>2, <1>3, Zenon DEF Batches

\* The configuration calls take a snapshot of the configuration in force and
\* leave the queues alone; what they install, a rollback included, is whole.
LEMMA ConfigStep ==
    ASSUME TimelockKept, Timelock!ConfigCalls
    PROVE  TimelockKept'
<1>1. UNCHANGED <<seq, delay, ops, op_count, batches, batch_count, executed>>
  BY DEF Timelock!ConfigCalls, Timelock!set_min_sources_required,
       Timelock!set_timelock_duration, Timelock!rollback_config, Timelock!tlvars
<1>2. Timelock!snapshot_before_change
  BY DEF Timelock!ConfigCalls, Timelock!set_min_sources_required,
       Timelock!set_timelock_duration, Timelock!rollback_config
<1>3. config \in Settings
  BY DEF TimelockKept, HistoryKept
<1>4. Recent(versions', snapshots')
  BY <1>2, <1>3, SnapshotKeepsRecent DEF TimelockKept, HistoryKept,
       Timelock!snapshot_before_change
<1>5. config' \in Settings
  <2>1. \A v \in DOMAIN snapshots : snapshots[v] \in Settings
    BY DEF TimelockKept, HistoryKept, Recent
  <2>2. \A n \in Quorums : [config EXCEPT !.min_sources = n] \in Settings
    BY <1>3 DEF Settings
  <2>3. \A n \in Delays : [config EXCEPT !.duration = n] \in Settings
    BY <1>3, TimelockAssumption DEF Settings
  <2> QED  BY <2>1, <2>2, <2>3 DEF Timelock!ConfigCalls, Timelock!set_min_sources_required,
         Timelock!set_timelock_duration, Timelock!rollback_config
<1> QED  BY <1>1, <1>4, <1>5 DEF TimelockKept, QueuesTyped, ExecutionsTyped, HistoryKept,
       Timelock!NothingEarly

\* Proposals append; what was executed before stays as it was.
LEMMA ProposalStep ==
    ASSUME TimelockKept,
           \/ \E p \in Timelock!Priorities : Timelock!propose_operation_with_priority(p)
           \/ \E b \in Batches : Timelock!propose_batch(b)
    PROVE  TimelockKept'
<1>0. QueuesTyped /\ HistoryKept /\ ExecutionsTyped /\ Timelock!NothingEarly
  BY DEF TimelockKept
<1>1. ASSUME NEW p \in Timelock!Priorities, Timelock!propose_operation_with_priority(p)
      PROVE  TimelockKept'
  <2>1. PICK x : /\ x = [proposed |-> seq, priority |-> p,
                         promised |-> Timelock!get_priority_delay(p)]
                 /\ ops' = Append(ops, x) /\ op_count' = op_count + 1
    BY <1>1 DEF Timelock!propose_operation_with_priority
  <2>2. UNCHANGED <<seq, delay, batches, batch_count, config, snapshots, versions, executed>>
    BY <1>1 DEF Timelock!propose_operation_with_priority, Timelock!cfgvars
  <2>3. x \in Operations
    BY <1>0, <2>1, DelayIsNumber DEF Operations, QueuesTyped
  <2>4. /\ ops' \in Seq({Timelock!Gone} \cup Operations) /\ Len(ops') = Len(ops) + 1
        /\ \A i \in 1..Len(ops) : ops'[i] = ops[i]
    <3> HIDE DEF Operations
    <3> QED  BY <1>0, <2>1, <2>3 DEF QueuesTyped
  <2>5. QueuesTyped'
    BY <1>0, <2>1, <2>2, <2>4 DEF QueuesTyped
  <2>6. ExecutionsTyped'
    BY <1>0, <2>2, <2>4 DEF ExecutionsTyped, QueuesTyped
  <2>7. Timelock!NothingEarly'
    BY <1>0, <2>2, <2>4 DEF Timelock!NothingEarly, ExecutionsTyped, QueuesTyped
  <2> QED  BY <1>0, <2>2, <2>5, <2>6, <2>7 DEF TimelockKept, HistoryKept
<1>2. ASSUME NEW b \in Batches, Timelock!propose_batch(b)
      PROVE  TimelockKept'
  <2>1. PICK x : /\ x = [proposed |-> seq, elements |-> b,
                         promised |-> Timelock!batch_required_delay(b)]
                 /\ batches' = Append(batches, x) /\ batch_count' = batch_count + 1
    BY <1>2 DEF Timelock!propose_batch
  <2>2. UNCHANGED <<seq, delay, ops, op_count, config, snapshots, versions, executed>>
    BY <1>2 DEF Timelock!propose_batch, Timelock!cfgvars
  <2>3. x \in BatchRecords
    BY <1>0, <2>1, BatchDelayIsNumber DEF BatchRecords, QueuesTyped
  <2>4. /\ batches' \in Seq({Timelock!Gone} \cup BatchRecords) /\ Len(batches') = Len(batches) + 1
        /\ \A i \in 1..Len(batches) : batches'[i] = batches[i]
    <3> HIDE DEF BatchRecords
    <3> QED  BY <1>0, <2>1, <2>3 DEF QueuesTyped
  <2>5. QueuesTyped'
    BY <1>0, <2>1, <2>2, <2>4 DEF QueuesTyped
  <2>6. ExecutionsTyped'
    BY <1>0, <2>2, <2>4 DEF ExecutionsTyped, QueuesTyped
  <2>7. Timelock!NothingEarly'
    BY <1>0, <2>2, <2>4 DEF Timelock!NothingEarly, ExecutionsTyped, QueuesTyped
  <2> QED  BY <1>0, <2>2, <2>5, <2>6, <2>7 DEF TimelockKept, HistoryKept
<1> QED  BY <1>1, <1>2

\* An operation leaves its queue once: executed after the delay it was promised,
\* or cancelled.
LEMMA OperationLeaves ==
    ASSUME TimelockKept, NEW i \in 1..Len(ops), ops[i] # Timelock!Gone,
           ops' = [ops EXCEPT ![i] = Timelock!Gone],
           UNCHANGED <<seq, delay, op_count, batches, batch_count>>,
           \/ executed' = executed
           \/ \E w \in Int, d \in Int :
                w >= d /\ executed' = executed \cup {[kind |-> "op", id |-> i,
                                                     waited |-> w, promised |-> d]}
    PROVE  QueuesTyped' /\ ExecutionsTyped' /\ Timelock!NothingEarly'
<1>0. QueuesTyped /\ ExecutionsTyped /\ Timelock!NothingEarly
  BY DEF TimelockKept
<1>1. /\ ops' \in Seq({Timelock!Gone} \cup Operations) /\ Len(ops') = Len(ops)
      /\ ops'[i] = Timelock!Gone
      /\ \A j \in 1..Len(ops) : j # i => ops'[j] = ops[j]
  <2> HIDE DEF Operations
  <2> QED  BY <1>0 DEF QueuesTyped
<1>2. QueuesTyped'
  BY <1>0, <1>1 DEF QueuesTyped
<1>3. \A x \in executed : x.kind = "op" => x.id # i
  BY <1>0 DEF Timelock!NothingEarly
<1>4. CASE executed' = executed
  BY <1>0, <1>1, <1>2, <1>3, <1>4 DEF ExecutionsTyped, Timelock!NothingEarly, QueuesTyped
<1>5. ASSUME NEW w \in Int, NEW d \in Int, w >= d,
             executed' = executed \cup {[kind |-> "op", id |-> i, waited |-> w, promised |-> d]}
      PROVE  ExecutionsTyped' /\ Timelock!NothingEarly'
  <2>1. PICK z : /\ z = [kind |-> "op", id |-> i, waited |-> w, promised |-> d]
                 /\ executed' = executed \cup {z}
    BY <1>5
  <2>2. z.kind = "op" /\ z.id = i /\ z.waited >= z.promised
    BY <1>5, <2>1
  <2>3. ExecutionsTyped'
    BY <1>0, <1>1, <2>1, <2>2 DEF ExecutionsTyped, QueuesTyped
  <2>4. \A x \in executed' : x.waited >= x.promised
    BY <1>0, <2>1, <2>2 DEF Timelock!NothingEarly
  <2>5. \A x, y \in executed' : x.kind = y.kind /\ x.id = y.id => x = y
    BY <1>0, <1>3, <2>1, <2>2 DEF Timelock!NothingEarly
  <2>6. \A x \in executed' : (IF x.kind = "op" THEN ops' ELSE batches')[x.id] = Timelock!Gone
    BY <1>0, <1>1, <1>3, <2>1, <2>2 DEF Timelock!NothingEarly, ExecutionsTyped
  <2> QED  BY <2>3, <2>4, <2>5, <2>6 DEF Timelock!NothingEarly
<1> QED  BY <1>2, <1>4, <1>5

\* And so does a batch.
LEMMA BatchLeaves ==
    ASSUME TimelockKept, NEW i \in 1..Len(batches), batches[i] # Timelock!Gone,
           batches' = [batches EXCEPT ![i] = Timelock!Gone],
           UNCHANGED <<seq, delay, batch_count, ops, op_count>>,
           \/ executed' = executed
           \/ \E w \in Int, d \in Int :
                w >= d /\ executed' = executed \cup {[kind |-> "batch", id |-> i,
                                                     waited |-> w, promised |-> d]}
    PROVE  QueuesTyped' /\ ExecutionsTyped' /\ Timelock!NothingEarly'
<1>0. QueuesTyped /\ ExecutionsTyped /\ Timelock!NothingEarly
  BY DEF TimelockKept
<1>1. /\ batches' \in Seq({Timelock!Gone} \cup BatchRecords) /\ Len(batches') = Len(batches)
      /\ batches'[i] = Timelock!Gone
      /\ \A j \in 1..Len(batches) : j # i => batches'[j] = batches[j]
  <2> HIDE DEF BatchRecords
  <2> QED  BY <1>0 DEF QueuesTyped
<1>2. QueuesTyped'
  BY <1>0, <1>1 DEF QueuesTyped
<1>3. \A x \in executed : x.kind = "batch" => x.id # i
  BY <1>0 DEF Timelock!NothingEarly
<1>4. CASE executed' = executed
  BY <1>0, <1>1, <1>2, <1>3, <1>4 DEF ExecutionsTyped, Timelock!NothingEarly, QueuesTyped
<1>5. ASSUME NEW w \in Int, NEW d \in Int, w >= d,
             executed' = executed \cup {[kind |-> "batch", id |-> i, waited |-> w, promised |-> d]}
      PROVE  ExecutionsTyped' /\ Timelock!NothingEarly'
  <2>1. PICK z : /\ z = [kind |-> "batch", id |-> i, waited |-> w, promised |-> d]
                 /\ executed' = executed \cup {z}
    BY <1>5
  <2>2. z.kind = "batch" /\ z.id = i /\ z.waited >= z.promised
    BY <1>5, <2>1
  <2>3. ExecutionsTyped'
    BY <1>0, <1>1, <2>1, <2>2 DEF ExecutionsTyped, QueuesTyped
  <2>4. \A x \in executed' : x.waited >= x.promised
    BY <1>0, <2>1, <2>2 DEF Timelock!NothingEarly
  <2>5. \A x, y \in executed' : x.kind = y.kind /\ x.id = y.id => x = y
    BY <1>0, <1>3, <2>1, <2>2 DEF Timelock!NothingEarly
  <2>6. \A x \in executed' : (IF x.kind = "op" THEN ops' ELSE batches')[x.id] = Timelock!Gone
    BY <1>0, <1>1, <1>3, <2>1, <2>2 DEF Timelock!NothingEarly, ExecutionsTyped
  <2> QED  BY <2>3, <2>4, <2>5, <2>6 DEF Timelock!NothingEarly
<1> QED  BY <1>2, <1>4, <1>5

\* The calls on operations.
LEMMA OperationStep ==
    ASSUME TimelockKept, Timelock!TimelockCalls
    PROVE  TimelockKept'
<1>0. QueuesTyped /\ HistoryKept /\ ExecutionsTyped /\ Timelock!NothingEarly
  BY DEF TimelockKept
<1>1. ASSUME NEW p \in Timelock!Priorities, NEW n \in Delays, Timelock!set_priority_delay(p, n)
      PROVE  TimelockKept'
  <2>1. delay' \in [Timelock!Priorities -> Nat \cup {-1}]
    BY <1>0, <1>1, TimelockAssumption DEF Timelock!set_priority_delay, QueuesTyped
  <2>2. UNCHANGED <<seq, ops, op_count, batches, batch_count, config, snapshots, versions,
                    executed>>
    BY <1>1 DEF Timelock!set_priority_delay, Timelock!cfgvars
  <2> QED  BY <1>0, <2>1, <2>2 DEF TimelockKept, QueuesTyped, ExecutionsTyped, HistoryKept,
         Timelock!NothingEarly
<1>2. ASSUME NEW i \in 1..op_count, Timelock!execute_operation(i)
      PROVE  TimelockKept'
  <2>1. i \in 1..Len(ops) /\ ops[i] # Timelock!Gone /\ ops[i] \in {Timelock!Gone} \cup Operations
    BY <1>0, <1>2 DEF Timelock!execute_operation, QueuesTyped
  <2>2. ops[i].proposed \in Nat /\ ops[i].promised \in Nat /\ ops[i].priority \in Timelock!Priorities
    BY <2>1 DEF Operations
  <2>3. seq - ops[i].proposed >= ops[i].promised
    <3>1. PICK d \in Nat : d = Timelock!get_priority_delay(ops[i].priority)
      BY <1>0, <2>2, DelayIsNumber
    <3>2. Timelock!required_delay(i) \in Nat /\ Timelock!required_delay(i) >= ops[i].promised
      BY <2>2, <3>1, GreaterOfTwo DEF Timelock!required_delay
    <3>3. seq - ops[i].proposed >= Timelock!required_delay(i) /\ seq \in Nat
      BY <1>0, <1>2 DEF Timelock!execute_operation, QueuesTyped
    <3> QED  BY <2>2, <3>2, <3>3
  <2>4. PICK w \in Int, d \in Int : w = seq - ops[i].proposed /\ d = ops[i].promised
    <3>1. seq \in Nat
      BY <1>0 DEF QueuesTyped
    <3>2. seq - ops[i].proposed \in Int /\ ops[i].promised \in Int
      BY <2>2, <3>1
    <3> QED  BY <3>2, Zenon
  <2>5. executed' = executed \cup {[kind |-> "op", id |-> i, waited |-> w, promised |-> d]}
    BY <1>2, <2>4 DEF Timelock!execute_operation, Timelock!Done
  <2>6. /\ ops' = [ops EXCEPT ![i] = Timelock!Gone]
        /\ UNCHANGED <<seq, delay, op_count, batches, batch_count, config, snapshots, versions>>
    BY <1>2 DEF Timelock!execute_operation, Timelock!cfgvars
  <2>7. QueuesTyped' /\ ExecutionsTyped' /\ Timelock!NothingEarly'
    <3>1. w >= d
      BY <2>3, <2>4
    <3> QED  BY <2>1, <2>5, <2>6, <3>1, OperationLeaves
  <2> QED  BY <1>0, <2>6, <2>7 DEF TimelockKept, HistoryKept
<1>3. ASSUME NEW i \in 1..op_count, Timelock!cancel_operation(i)
      PROVE  TimelockKept'
  <2>1. /\ i \in 1..Len(ops) /\ ops[i] # Timelock!Gone
        /\ ops' = [ops EXCEPT ![i] = Timelock!Gone]
        /\ UNCHANGED <<seq, delay, op_count, batches, batch_count, config, snapshots, versions,
                       executed>>
    BY <1>0, <1>3 DEF Timelock!cancel_operation, Timelock!cfgvars, QueuesTyped
  <2>2. QueuesTyped' /\ ExecutionsTyped' /\ Timelock!NothingEarly'
    BY <2>1, OperationLeaves
  <2> QED  BY <1>0, <2>1, <2>2 DEF TimelockKept, HistoryKept
<1>4. CASE \E p \in Timelock!Priorities : Timelock!propose_operation_with_priority(p)
  BY <1>4, ProposalStep
<1> QED  BY <1>1, <1>2, <1>3, <1>4 DEF Timelock!TimelockCalls

\* The calls on batches.
LEMMA BatchStep ==
    ASSUME TimelockKept, Timelock!BatchCalls
    PROVE  TimelockKept'
<1>0. QueuesTyped /\ HistoryKept /\ ExecutionsTyped /\ Timelock!NothingEarly
  BY DEF TimelockKept
<1>1. ASSUME NEW i \in 1..batch_count, Timelock!execute_batch(i)
      PROVE  TimelockKept'
  <2>1. /\ i \in 1..Len(batches) /\ batches[i] # Timelock!Gone
        /\ batches[i] \in {Timelock!Gone} \cup BatchRecords
    BY <1>0, <1>1 DEF Timelock!execute_batch, QueuesTyped
  <2>2. /\ batches[i].proposed \in Nat /\ batches[i].promised \in Nat
        /\ batches[i].elements \in Batches
    BY <2>1 DEF BatchRecords
  <2>3. seq - batches[i].proposed >= batches[i].promised
    <3>1. PICK d \in Nat : d = Timelock!batch_required_delay(batches[i].elements)
      BY <1>0, <2>2, BatchDelayIsNumber
    <3>2. seq - batches[i].proposed >= Timelock!Max({d, batches[i].promised}) /\ seq \in Nat
      BY <1>0, <1>1, <3>1 DEF Timelock!execute_batch, QueuesTyped
    <3>3. Timelock!Max({d, batches[i].promised}) \in Nat
      BY <2>2, GreaterOfTwo
    <3>4. Timelock!Max({d, batches[i].promised}) >= batches[i].promised
      BY <2>2, GreaterOfTwo
    <3> QED  BY <2>2, <3>2, <3>3, <3>4
  <2>4. PICK w \in Int, d \in Int : w = seq - batches[i].proposed /\ d = batches[i].promised
    <3>1. seq \in Nat
      BY <1>0 DEF QueuesTyped
    <3>2. seq - batches[i].proposed \in Int /\ batches[i].promised \in Int
      BY <2>2, <3>1
    <3> QED  BY <3>2, Zenon
  <2>5. executed' = executed \cup {[kind |-> "batch", id |-> i, waited |-> w, promised |-> d]}
    BY <1>1, <2>4 DEF Timelock!execute_batch, Timelock!Done
  <2>6. /\ batches' = [batches EXCEPT ![i] = Timelock!Gone]
        /\ UNCHANGED <<seq, delay, ops, op_count, batch_count>>
    BY <1>1 DEF Timelock!execute_batch
  <2>7. QueuesTyped' /\ ExecutionsTyped' /\ Timelock!NothingEarly'
    <3>1. w >= d
      BY <2>3, <2>4
    <3> QED  BY <2>1, <2>5, <2>6, <3>1, BatchLeaves
  <2>8. HistoryKept'
    BY <1>0, <1>1, <2>2, BatchKeepsRecent DEF Timelock!execute_batch, HistoryKept
  <2> QED  BY <2>7, <2>8 DEF TimelockKept
<1>2. ASSUME NEW i \in 1..batch_count, Timelock!cancel_batch(i)
      PROVE  TimelockKept'
  <2>1. /\ i \in 1..Len(batches) /\ batches[i] # Timelock!Gone
        /\ batches' = [batches EXCEPT ![i] = Timelock!Gone]
        /\ UNCHANGED <<seq, delay, ops, op_count, batch_count, config, snapshots, versions,
                       executed>>
    BY <1>0, <1>2 DEF Timelock!cancel_batch, Timelock!cfgvars, QueuesTyped
  <2>2. QueuesTyped' /\ ExecutionsTyped' /\ Timelock!NothingEarly'
    BY <2>1, BatchLeaves
  <2> QED  BY <1>0, <2>1, <2>2 DEF TimelockKept, HistoryKept
<1>3. ASSUME NEW e \in Timelock!Elements, Timelock!propose_batch(<<e>>)
      PROVE  TimelockKept'
  <2>1. <<e>> \in Batches
    BY DEF Batches
  <2> QED  BY <1>3, <2>1, ProposalStep
<1>4. ASSUME NEW e \in Timelock!Elements, NEW q \in Quorums,
             Timelock!propose_batch(<<e, [type |-> "SetMinSources", value |-> q]>>)
      PROVE  TimelockKept'
  <2>1. [type |-> "SetMinSources", value |-> q] \in Timelock!Elements
    BY DEF Timelock!Elements
  <2>2. <<e, [type |-> "SetMinSources", value |-> q]>> \in Batches
    BY <2>1 DEF Batches
  <2> QED  BY <1>4, <2>2, ProposalStep
<1> QED  BY <1>1, <1>2, <1>3, <1>4 DEF Timelock!BatchCalls

LEMMA TimelockStep ==
    ASSUME TimelockKept, [Timelock!Next]_tvars
    PROVE  TimelockKept'
<1>1. CASE UNCHANGED tvars
  BY <1>1 DEF tvars, TimelockKept, QueuesTyped, ExecutionsTyped, HistoryKept,
       Timelock!NothingEarly
<1>2. CASE Timelock!CloseSequence
  BY <1>2 DEF Timelock!CloseSequence, Timelock!tlvars, Timelock!cfgvars, TimelockKept,
       QueuesTyped, ExecutionsTyped, HistoryKept, Timelock!NothingEarly
<1> QED  BY <1>1, <1>2, ConfigStep, OperationStep, BatchStep DEF Timelock!Next

\* timelock.rs:188, 359, config_history.rs:63, external_governance.rs:153.  No
\* delayed operation or batch runs before the delay it was announced with or
\* twice, however delays and configuration change meanwhile; the history holds
\* the last MAX_CONFIG_HISTORY configurations and no other, also after a batch;
\* and a grant dies with the appointment of its governor.
THEOREM AuthorityIsHeld == Spec => []AuthorityHolds
<1>1. Init => TimelockKept /\ GrantsAreDated
  <2>1. Timelock!Init => TimelockKept
    <3> SUFFICES ASSUME Timelock!Init PROVE TimelockKept
      OBVIOUS
    <3>1. Timelock!Min(Quorums) \in Quorums
      <4>1. \E n \in Quorums : \A m \in Quorums : n <= m
        BY TimelockAssumption, LeastNatural
      <4> QED  BY <4>1 DEF Timelock!Min
    <3>2. config \in Settings
      BY <3>1 DEF Timelock!Init, Settings, Defaults
    <3>3. HistoryKept
      BY <3>2, TimelockAssumption DEF Timelock!Init, HistoryKept, Recent, Timelock!ToSet
    <3>4. QueuesTyped
      BY DEF Timelock!Init, QueuesTyped, Timelock!Unset
    <3>5. executed = {}
      BY DEF Timelock!Init
    <3> QED  BY <3>3, <3>4, <3>5 DEF TimelockKept, ExecutionsTyped, Timelock!NothingEarly
  <2>2. Access!Init => GrantsAreDated
    BY DEF Access!Init, GrantsAreDated, Access!GrantsDieWithAppointment,
         Access!is_governor_op_allowed
  <2> QED  BY <2>1, <2>2 DEF Init
<1>2. TimelockKept /\ [Next]_vars => TimelockKept'
  BY StepsOfParts, TimelockStep
<1>3. GrantsAreDated /\ [Next]_vars => GrantsAreDated'
  BY StepsOfParts, GrantStep
<1>4. TimelockKept /\ GrantsAreDated => AuthorityHolds
  BY DEF TimelockKept, HistoryKept, Recent, GrantsAreDated, AuthorityHolds,
       Timelock!HistoryIsRecent
<1> QED  BY <1>1, <1>2, <1>3, <1>4, PTL DEF Spec

-----------------------------------------------------------------------------
(* Derived feeds *)

Quotes == {Feeds!Absent} \cup [price : Nat, at : Nat]
Parts == [asset : FeedAssets, weight : Nat]

\* A composition that was accepted: its weights make up the scale.
Composed(parts) ==
    /\ \E n \in Nat \ {0} : parts \in [1..n -> Parts]
    /\ Feeds!Total(Feeds!Weights(parts)) = WeightScale

FeedsKept ==
    /\ ftime \in Nat /\ age_limit \in Nat
    /\ quoted \in [FeedAssets -> Quotes] /\ base \in [FeedAssets -> Quotes]
    /\ \A k \in DOMAIN baskets :
         /\ baskets[k] = [parts |-> baskets[k].parts, policy |-> baskets[k].policy]
         /\ Composed(baskets[k].parts)

LEMMA CompositionShape ==
    ASSUME NEW parts \in Compositions
    PROVE  \E n \in Nat \ {0} : parts \in [1..n -> Parts]
<1>1. [asset : Constituents, weight : PartWeights] \subseteq Parts
  BY FeedsAssumption DEF Parts
<1>2. PICK n \in 1..MaxConstituents :
         parts \in [1..n -> [asset : Constituents, weight : PartWeights]]
  BY DEF Compositions
<1>3. n \in Nat \ {0}
  BY FeedsAssumption
<1>4. parts \in [1..n -> Parts]
  BY <1>1, <1>2
<1> QED  BY <1>3, <1>4

\* A basket keeps its composition valid, whether it is stored or rebalanced.
LEMMA BasketStep ==
    ASSUME FeedsKept, Feeds!BasketCalls
    PROVE  FeedsKept'
<1>1. ASSUME NEW key \in BasketKeys, NEW parts \in Compositions, NEW policy,
             Feeds!set_basket(key, parts, policy)
      PROVE  FeedsKept'
  <2>1. /\ baskets' = [k \in DOMAIN baskets \cup {key} |->
                         IF k = key THEN [parts |-> parts, policy |-> policy] ELSE baskets[k]]
        /\ UNCHANGED <<ftime, quoted, base, age_limit>>
    BY <1>1 DEF Feeds!set_basket
  <2>2. Composed(parts)
    <3>1. Feeds!Total(Feeds!Weights(parts)) = WeightScale
      BY <1>1 DEF Feeds!set_basket, Feeds!validate_constituents, Feeds!ValidWeights
    <3> QED  BY <3>1, CompositionShape DEF Composed
  <2>3. ASSUME NEW k \in DOMAIN baskets'
        PROVE  /\ baskets'[k] = [parts |-> baskets'[k].parts, policy |-> baskets'[k].policy]
               /\ Composed(baskets'[k].parts)
    <3>1. CASE k = key
      <4>1. baskets'[k] = [parts |-> parts, policy |-> policy]
        BY <2>1, <3>1
      <4> QED  BY <2>2, <4>1
    <3>2. CASE k # key
      <4>1. k \in DOMAIN baskets /\ baskets'[k] = baskets[k]
        BY <2>1, <2>3, <3>2
      <4> QED  BY <4>1 DEF FeedsKept
    <3> QED  BY <3>1, <3>2
  <2> QED  BY <2>1, <2>3 DEF FeedsKept, Composed
<1>2. ASSUME NEW key \in BasketKeys, NEW ws \in {Feeds!Weights(parts) : parts \in Compositions},
             Feeds!rebalance_basket(key, ws)
      PROVE  FeedsKept'
  <2>1. PICK old : old = baskets[key].parts
    OBVIOUS
  <2>2. PICK new : new = [i \in DOMAIN old |-> [old[i] EXCEPT !.weight = ws[i]]]
    OBVIOUS
  <2>3. /\ key \in DOMAIN baskets /\ Len(ws) = Len(old)
        /\ Feeds!Total(ws) = WeightScale
        /\ baskets' = [baskets EXCEPT ![key].parts = new]
        /\ UNCHANGED <<ftime, quoted, base, age_limit>>
    BY <1>2, <2>1, <2>2 DEF Feeds!rebalance_basket, Feeds!ValidWeights
  <2>4. PICK n \in Nat \ {0} : old \in [1..n -> Parts]
    BY <2>1, <2>3 DEF FeedsKept, Composed
  <2>5. ws \in [1..n -> Nat]
    <3>1. PICK parts \in Compositions : ws = Feeds!Weights(parts)
      BY <1>2
    <3>2. PICK m \in Nat \ {0} : parts \in [1..m -> Parts]
      BY CompositionShape
    <3>3. ws \in [1..m -> Nat]
      BY <3>1, <3>2 DEF Feeds!Weights, Parts
    <3>4. Len(ws) = m /\ Len(old) = n
      BY <2>4, <3>3
    <3> QED  BY <2>3, <3>3, <3>4
  <2>6. new \in [1..n -> Parts] /\ \A i \in 1..n : new[i].weight = ws[i]
    BY <2>2, <2>4, <2>5 DEF Parts
  <2>7. Feeds!Weights(new) = ws
    BY <2>5, <2>6 DEF Feeds!Weights
  <2>8. Composed(new)
    BY <2>3, <2>6, <2>7 DEF Composed
  <2>9. /\ DOMAIN baskets' = DOMAIN baskets
        /\ \A k \in DOMAIN baskets : k # key => baskets'[k] = baskets[k]
        /\ baskets'[key] = [baskets[key] EXCEPT !.parts = new]
    BY <2>3
  <2>10. baskets'[key] = [parts |-> new, policy |-> baskets[key].policy]
    <3>1. PICK held_policy : baskets[key] = [parts |-> old, policy |-> held_policy]
      BY <2>1, <2>3 DEF FeedsKept
    <3> QED  BY <2>9, <3>1
  <2>11. ASSUME NEW k \in DOMAIN baskets'
         PROVE  /\ baskets'[k] = [parts |-> baskets'[k].parts, policy |-> baskets'[k].policy]
                /\ Composed(baskets'[k].parts)
    <3>1. CASE k = key
      BY <2>8, <2>10, <3>1
    <3>2. CASE k # key
      <4>1. k \in DOMAIN baskets /\ baskets'[k] = baskets[k]
        BY <2>9, <2>11, <3>2
      <4> QED  BY <4>1 DEF FeedsKept
    <3> QED  BY <3>1, <3>2
  <2> QED  BY <2>3, <2>11 DEF FeedsKept, Composed
<1>3. ASSUME NEW secs \in AgeLimits, Feeds!set_basket_max_staleness(secs)
      PROVE  FeedsKept'
  BY <1>3, FeedsAssumption DEF Feeds!set_basket_max_staleness, FeedsKept, Composed
<1> QED  BY <1>1, <1>2, <1>3 DEF Feeds!BasketCalls

LEMMA FeedStep ==
    ASSUME FeedsKept, [Feeds!Next]_dvars
    PROVE  FeedsKept'
<1>1. CASE UNCHANGED dvars
  BY <1>1 DEF dvars, FeedsKept, Composed
<1>2. ASSUME NEW a \in FeedAssets, NEW p \in FeedPrices, Feeds!Publish(a, p)
      PROVE  FeedsKept'
  <2>1. /\ quoted' = [quoted EXCEPT ![a] = [price |-> p, at |-> ftime]]
        /\ UNCHANGED <<ftime, base, baskets, age_limit>>
    BY <1>2 DEF Feeds!Publish
  <2>2. [price |-> p, at |-> ftime] \in Quotes
    BY FeedsAssumption DEF FeedsKept, Quotes
  <2>3. quoted' \in [FeedAssets -> Quotes]
    BY <2>1, <2>2 DEF FeedsKept
  <2> QED  BY <2>1, <2>3 DEF FeedsKept, Composed
<1>3. CASE Feeds!FeedCalls
  <2>1. PICK a \in FeedAssets, p \in BasePrices, at \in BaseStamps :
           Feeds!set_derived_feed_base(a, p, at)
    BY <1>3 DEF Feeds!FeedCalls
  <2>2. /\ p >= 0 /\ base' = [base EXCEPT ![a] = [price |-> p, at |-> at]]
        /\ UNCHANGED <<ftime, quoted, baskets, age_limit>>
    BY <2>1 DEF Feeds!set_derived_feed_base
  <2>3. [price |-> p, at |-> at] \in Quotes
    BY <2>2, FeedsAssumption DEF Quotes
  <2>4. base' \in [FeedAssets -> Quotes]
    BY <2>2, <2>3 DEF FeedsKept
  <2> QED  BY <2>2, <2>4 DEF FeedsKept, Composed
<1>4. CASE Feeds!Elapse
  BY <1>4 DEF Feeds!Elapse, FeedsKept, Composed
<1> QED  BY <1>1, <1>2, <1>3, <1>4, BasketStep DEF Feeds!Next

\* The greatest of some ages is one of them, and no less than any.
LEMMA GreatestAge ==
    ASSUME NEW S \in SUBSET Nat, S # {}, NEW bound \in Nat, \A m \in S : m <= bound
    PROVE  Feeds!Max(S) \in S /\ \A m \in S : m <= Feeds!Max(S)
<1>1. PICK n \in S : \A m \in S : m <= n
  BY GreatestNatural
<1>2. \A m \in S : n >= m
  BY <1>1
<1>3. \E x \in S : \A y \in S : x >= y
  BY <1>2
<1>4. Feeds!Max(S) \in S /\ \A y \in S : Feeds!Max(S) >= y
  BY <1>3 DEF Feeds!Max
<1> QED  BY <1>4

\* The resolved price of a feed that computes.
LEMMA ResolvedQuote ==
    ASSUME FeedsKept, NEW a \in FeedAssets
    PROVE  /\ Feeds!Resolves(a) => /\ Feeds!resolve_base(a).price \in Nat
                                   /\ Feeds!resolve_base(a).at \in Nat
           /\ Feeds!resolve_base(a) \in Quotes
<1>1. Feeds!resolve_base(a) \in Quotes
  BY DEF Feeds!resolve_base, FeedsKept
<1> QED  BY <1>1 DEF Quotes, Feeds!Resolves

LEMMA AgeIsNumber ==
    ASSUME FeedsKept, NEW at \in Nat
    PROVE  Feeds!Age(at) \in Nat /\ Feeds!Age(at) <= ftime
BY DEF FeedsKept, Feeds!Age

\* derived_feeds.rs:45.  Truncation only lowers a derived price.
LEMMA RatesNeverHigh ==
    ASSUME FeedsKept
    PROVE  Feeds!CrossRatesNeverHigh
<1>1. ASSUME NEW b \in FeedAssets, NEW q \in FeedAssets,
             Feeds!RatioComputes(b, q), Feeds!RatioComputes(q, b)
      PROVE  Feeds!get_ratio_feed(b, q).price * Feeds!get_ratio_feed(q, b).price <= Scale * Scale
  <2>1. PICK x, y : x = Feeds!resolve_base(b).price /\ y = Feeds!resolve_base(q).price
    OBVIOUS
  <2>2. x \in Nat \ {0} /\ y \in Nat \ {0}
    <3>1. Feeds!Resolves(b) /\ Feeds!Resolves(q) /\ x > 0 /\ y > 0
      BY <1>1, <2>1 DEF Feeds!RatioComputes
    <3>2. x \in Nat /\ y \in Nat
      BY <2>1, <3>1, ResolvedQuote
    <3> QED  BY <3>1, <3>2
  <2>3. /\ Feeds!get_ratio_feed(b, q).price = (x * Scale) \div y
        /\ Feeds!get_ratio_feed(q, b).price = (y * Scale) \div x
    BY <2>1 DEF Feeds!get_ratio_feed, Feeds!ratio, Feeds!mul_div
  <2> QED  BY <2>2, <2>3, OppositeRatios, FeedsAssumption
<1>2. ASSUME NEW b \in FeedAssets, NEW p \in FeedAssets, NEW q \in FeedAssets,
             Feeds!CrossComputes(b, p, q)
      PROVE  LET cross == Feeds!get_triangulated_feed(b, p, q)
                 direct == Feeds!get_ratio_feed(b, q)
                 unit == Feeds!resolve_base(p).price \div Feeds!resolve_base(q).price + 1
             IN /\ cross.price <= direct.price /\ direct.price <= cross.price + unit
                /\ \A a \in {b, p, q} : cross.staleness >= Feeds!Age(Feeds!resolve_base(a).at)
  <2>1. PICK x, y, z : /\ x = Feeds!resolve_base(b).price
                       /\ y = Feeds!resolve_base(p).price
                       /\ z = Feeds!resolve_base(q).price
    OBVIOUS
  <2>2. Feeds!Resolves(b) /\ Feeds!Resolves(p) /\ Feeds!Resolves(q) /\ y > 0 /\ z > 0
    BY <1>2, <2>1 DEF Feeds!CrossComputes
  <2>3. x \in Nat /\ y \in Nat \ {0} /\ z \in Nat \ {0}
    <3>1. x \in Nat /\ y \in Nat /\ z \in Nat
      BY <2>1, <2>2, ResolvedQuote
    <3> QED  BY <2>2, <3>1
  <2>4. /\ Feeds!get_triangulated_feed(b, p, q).price = (((x * Scale) \div y) * y) \div z
        /\ Feeds!get_ratio_feed(b, q).price = (x * Scale) \div z
    BY <2>1 DEF Feeds!get_ratio_feed, Feeds!ratio, Feeds!mul_div, Feeds!get_triangulated_feed,
         Feeds!triangulate
  <2>5. /\ (((x * Scale) \div y) * y) \div z <= (x * Scale) \div z
        /\ (x * Scale) \div z <= (((x * Scale) \div y) * y) \div z + (y \div z + 1)
    BY <2>3, CrossNearDirect, FeedsAssumption
  <2>6. PICK ages : ages = {Feeds!Age(Feeds!resolve_base(a).at) : a \in {b, p, q}}
    OBVIOUS
  <2>7. ages \in SUBSET Nat /\ ages # {} /\ ftime \in Nat /\ \A m \in ages : m <= ftime
    <3>1. \A a \in {b, p, q} : Feeds!resolve_base(a).at \in Nat
      BY <2>2, ResolvedQuote
    <3>2. \A a \in {b, p, q} : /\ Feeds!Age(Feeds!resolve_base(a).at) \in Nat
                               /\ Feeds!Age(Feeds!resolve_base(a).at) <= ftime
      BY <3>1, AgeIsNumber
    <3>3. Feeds!Age(Feeds!resolve_base(b).at) \in ages
      BY <2>6
    <3> QED  BY <2>6, <3>2, <3>3 DEF FeedsKept
  <2>8. Feeds!get_triangulated_feed(b, p, q).staleness = Feeds!Max(ages)
    BY <2>6 DEF Feeds!get_triangulated_feed, Feeds!Stalest
  <2>9. \A m \in ages : m <= Feeds!Max(ages) /\ Feeds!Max(ages) \in Nat
    BY <2>7, GreatestAge
  <2>10. \A a \in {b, p, q} : Feeds!Max(ages) >= Feeds!Age(Feeds!resolve_base(a).at)
    <3> SUFFICES ASSUME NEW a \in {b, p, q}
                 PROVE  Feeds!Max(ages) >= Feeds!Age(Feeds!resolve_base(a).at)
      OBVIOUS
    <3>1. PICK m \in ages : m = Feeds!Age(Feeds!resolve_base(a).at)
      BY <2>6
    <3>2. m <= Feeds!Max(ages) /\ Feeds!Max(ages) \in Nat /\ m \in Nat
      BY <2>7, <2>9
    <3> QED  BY <3>1, <3>2
  <2> QED  BY <2>1, <2>4, <2>5, <2>8, <2>10
<1> QED  BY <1>1, <1>2 DEF Feeds!CrossRatesNeverHigh

\* The fold of a list of numbers is their sum.
LEMMA TotalIsAdditive ==
    ASSUME NEW n \in Nat, NEW ws \in [1..n -> Int]
    PROVE  \E A : Additive(ws, 1..n, A) /\ Feeds!Total(ws) = A[1..n]
<1> DEFINE S == 1..n
           Fold(h) == h = [T \in SUBSET S |->
                             IF T = {} THEN 0
                             ELSE LET x == Feeds!Max(T) IN h[T \ {x}] + ws[x]]
<1>1. IsFiniteSet(S) /\ DOMAIN ws = S
  BY FS_Interval
<1>2. ASSUME NEW T \in SUBSET S, T # {}
      PROVE  Feeds!Max(T) \in T
  <2>1. T \in SUBSET Nat /\ \A m \in T : m <= n
    OBVIOUS
  <2> QED  BY <1>2, <2>1, GreatestAge
<1>3. PICK B : Additive(ws, S, B)
  <2> HIDE DEF S
  <2>1. ws \in [S -> Int]
    BY DEF S
  <2> QED  BY <1>1, <2>1, SumIsAdditive
<1>4. PICK C : C = [T \in SUBSET S |-> B[T]]
  OBVIOUS
<1>5. Fold(C)
  <2>1. ASSUME NEW T \in SUBSET S, T # {}
        PROVE  B[T] = B[T \ {Feeds!Max(T)}] + ws[Feeds!Max(T)]
    <3>1. PICK x : x = Feeds!Max(T)
      OBVIOUS
    <3>2. x \in T /\ ws[x] \in Int /\ B[T \ {x}] \in Int /\ B[T] = ws[x] + B[T \ {x}]
      BY <1>2, <1>3, <2>1, <3>1 DEF Additive
    <3> QED  BY <3>1, <3>2
  <2>2. \A T \in SUBSET S : C[T] = IF T = {} THEN 0
                                   ELSE LET x == Feeds!Max(T) IN C[T \ {x}] + ws[x]
    BY <1>3, <1>4, <2>1 DEF Additive
  <2> QED  BY <1>4, <2>2
<1>6. PICK A : A = CHOOSE h : Fold(h)
  OBVIOUS
<1>7. Fold(A)
  BY <1>5, <1>6
<1>8. \A T \in SUBSET S : A[T] = IF T = {} THEN 0
                                 ELSE LET x == Feeds!Max(T) IN A[T \ {x}] + ws[x]
  BY <1>7
<1>9. A[{}] = 0
  BY <1>8
<1>10. ASSUME NEW T \in SUBSET S, T # {}
       PROVE  \E x \in T : A[T \ {x}] \in Int => A[T] = ws[x] + A[T \ {x}]
  <2>1. PICK x : x = Feeds!Max(T)
    OBVIOUS
  <2>2. x \in T /\ ws[x] \in Int
    BY <1>2, <1>10, <2>1
  <2>3. A[T] = A[T \ {x}] + ws[x]
    BY <1>8, <1>10, <2>1
  <2>4. A[T \ {x}] \in Int => A[T] = ws[x] + A[T \ {x}]
    BY <2>2, <2>3
  <2> QED  BY <2>2, <2>4
<1>11. Additive(ws, S, A)
  <2> HIDE DEF S
  <2>1. ws \in [S -> Int]
    BY DEF S
  <2> QED  BY <1>1, <1>9, <1>10, <2>1, OrderIsFree
<1>12. Feeds!Total(ws) = A[S]
  <2>1. Feeds!Total(ws) = (CHOOSE h : h = [T \in SUBSET DOMAIN ws |->
                             IF T = {} THEN 0
                             ELSE LET x == Feeds!Max(T) IN h[T \ {x}] + ws[x]])[DOMAIN ws]
    BY DEF Feeds!Total, Feeds!FoldLeft, Feeds!MapThenFoldSet
  <2> QED  BY <1>1, <1>6, <2>1
<1> QED  BY <1>11, <1>12

\* What a part of a basket brings in: its price times its weight while it is
\* usable, and nothing otherwise.
LEMMA WeightedPart ==
    ASSUME FeedsKept, NEW c \in Parts
    PROVE  /\ Feeds!Weighted(c) \in Int
           /\ quoted[c.asset].price \in Int /\ c.weight \in Nat
           /\ Feeds!Usable(c.asset) =>
                /\ Feeds!Weighted(c) = c.weight * quoted[c.asset].price
                /\ quoted[c.asset].price \in Nat
                /\ Feeds!Age(quoted[c.asset].at) \in Nat
                /\ Feeds!Age(quoted[c.asset].at) <= age_limit
           /\ ~Feeds!Usable(c.asset) => Feeds!Weighted(c) = 0
<1>1. c.asset \in FeedAssets /\ c.weight \in Nat
  BY DEF Parts
<1>2. PICK q \in Quotes : q = quoted[c.asset]
  BY <1>1 DEF FeedsKept
<1>3. CASE Feeds!Usable(c.asset)
  <2>1. q \in [price : Nat, at : Nat] /\ Feeds!Age(q.at) <= age_limit
    BY <1>2, <1>3 DEF Feeds!Usable, Quotes
  <2>2. Feeds!Weighted(c) = q.price * c.weight
    BY <1>2, <1>3 DEF Feeds!Weighted
  <2>3. q.price * c.weight = c.weight * q.price /\ q.price * c.weight \in Int
    BY <1>1, <2>1
  <2>4. Feeds!Age(q.at) \in Nat
    BY <2>1, AgeIsNumber
  <2> QED  BY <1>1, <1>2, <1>3, <2>1, <2>2, <2>3, <2>4
<1>4. CASE ~Feeds!Usable(c.asset)
  <2>1. Feeds!Weighted(c) = 0
    BY <1>4 DEF Feeds!Weighted
  <2>2. q.price \in Int
    BY <1>2 DEF Quotes, Feeds!Absent
  <2> QED  BY <1>1, <1>2, <1>4, <2>1, <2>2
<1> QED  BY <1>3, <1>4

\* The greatest of some prices and zero.
LEMMA GreatestPrice ==
    ASSUME NEW n \in Nat \ {0}, NEW f \in [1..n -> Int]
    PROVE  LET M == Feeds!Max({f[i] : i \in 1..n} \cup {0})
           IN  M \in Nat /\ \A i \in 1..n : f[i] <= M
<1>1. PICK g : g = [i \in 1..n |-> IF f[i] < 0 THEN 0 ELSE f[i]]
  OBVIOUS
<1>2. DOMAIN g = 1..n /\ \A i \in 1..n : g[i] \in Nat /\ f[i] <= g[i] /\ g[i] \in {f[i], 0}
  BY <1>1
<1>3. Family(g) /\ DOMAIN g # {}
  <2>1. IsFiniteSet(1..n)
    BY FS_Interval
  <2>2. 1 \in 1..n
    OBVIOUS
  <2> QED  BY <1>2, <2>1, <2>2 DEF Family
<1>4. PICK j \in 1..n : \A i \in 1..n : g[i] <= g[j]
  BY <1>2, <1>3, GreatestExists
<1>5. PICK V : V = {f[i] : i \in 1..n} \cup {0}
  OBVIOUS
<1>6. g[j] \in V /\ \A y \in V : g[j] >= y
  <2>1. g[j] \in V /\ g[j] \in Nat
    BY <1>2, <1>5
  <2>2. \A i \in 1..n : f[i] <= g[j]
    BY <1>2, <1>4
  <2> QED  BY <1>5, <2>1, <2>2
<1>7. Feeds!Max(V) \in V /\ \A y \in V : Feeds!Max(V) >= y
  <2>1. \E x \in V : \A y \in V : x >= y
    BY <1>6
  <2> QED  BY <2>1 DEF Feeds!Max
<1>8. Feeds!Max(V) \in Nat
  <2>1. 0 \in V /\ \A y \in V : y \in Int
    BY <1>5
  <2> QED  BY <1>7, <2>1
<1>9. \A i \in 1..n : f[i] <= Feeds!Max(V)
  <2> SUFFICES ASSUME NEW i \in 1..n PROVE f[i] <= Feeds!Max(V)
    OBVIOUS
  <2>1. f[i] \in V /\ f[i] \in Int
    BY <1>5
  <2> QED  BY <1>7, <1>8, <2>1
<1> QED  BY <1>5, <1>8, <1>9

\* The sums behind the value of a basket.
LEMMA BasketSums ==
    ASSUME FeedsKept, NEW key \in DOMAIN baskets, NEW n \in Nat \ {0},
           NEW parts \in [1..n -> Parts], parts = baskets[key].parts,
           Feeds!Total(Feeds!Weights(parts)) = WeightScale
    PROVE  LET v == Feeds!get_basket_value(key)
               sum == Feeds!Total([i \in DOMAIN parts |-> Feeds!get_basket_contribution(parts[i])])
               prices == {quoted[parts[i].asset].price : i \in DOMAIN parts}
           IN  /\ sum <= v.value
               /\ v.live \in Nat /\ v.value \in Int /\ sum \in Int
               /\ v.value < sum + (IF v.live > 1 THEN v.live ELSE 1)
               /\ v.value <= Feeds!Max(prices \cup {0})
               /\ \A m \in Nat : (/\ \A i \in 1..n : /\ Feeds!Usable(parts[i].asset)
                                                     /\ m <= quoted[parts[i].asset].price)
                                 => m <= v.value
<1>1. PICK S, W : S = 1..n /\ W = WeightScale
  OBVIOUS
<1>2. IsFiniteSet(S) /\ W \in Nat \ {0} /\ DOMAIN parts = S
  <2>1. IsFiniteSet(1..n)
    BY FS_Interval
  <2> QED  BY <1>1, <2>1, FeedsAssumption
<1>3. PICK w : w = [i \in S |-> Feeds!Weighted(parts[i])]
  OBVIOUS
<1>4. PICK d : d = [i \in S |-> Feeds!get_basket_contribution(parts[i])]
  OBVIOUS
<1>5. PICK g : g = Feeds!Weights(parts)
  OBVIOUS
<1>6. PICK L : L = {i \in S : Feeds!Usable(parts[i].asset)}
  OBVIOUS
<1>7. PICK u : u = [i \in S |-> IF i \in L THEN 1 ELSE 0]
  OBVIOUS
<1>8. \A i \in S : parts[i] \in Parts
  BY <1>1
<1>9. w \in [S -> Int] /\ \A i \in S : w[i] = Feeds!Weighted(parts[i])
  BY <1>3, <1>8, WeightedPart
<1>10. d \in [S -> Int] /\ \A i \in S : d[i] = w[i] \div W
  <2>1. \A i \in S : d[i] = w[i] \div W
    BY <1>1, <1>4, <1>9 DEF Feeds!get_basket_contribution
  <2>2. \A i \in S : w[i] \in Int
    BY <1>9
  <2>3. \A i \in S : w[i] \div W \in Int
    BY <1>2, <2>2, DivLaw
  <2>4. \A i \in S : d[i] \in Int
    BY <2>1, <2>3
  <2> QED  BY <1>4, <2>1, <2>4
<1>11. g \in [S -> Int] /\ \A i \in S : g[i] = parts[i].weight
  BY <1>2, <1>5, <1>8 DEF Feeds!Weights, Parts
<1>12. L \in SUBSET S /\ u \in [S -> Int] /\ \A i \in S : u[i] = IF i \in L THEN 1 ELSE 0
  BY <1>6, <1>7
<1>13. \A i \in S : i \notin L => w[i] = 0
  BY <1>6, <1>8, <1>9, WeightedPart
<1>14. PICK A : Additive(w, S, A) /\ Feeds!Total(w) = A[S]
  BY <1>1, <1>9, TotalIsAdditive
<1>15. PICK D : Additive(d, S, D) /\ Feeds!Total(d) = D[S]
  BY <1>1, <1>10, TotalIsAdditive
<1>16. PICK G : Additive(g, S, G) /\ Feeds!Total(g) = G[S]
  BY <1>1, <1>11, TotalIsAdditive
<1>17. PICK U : Additive(u, S, U)
  BY <1>1, <1>12, TotalIsAdditive
<1>18. /\ Cardinality(L) \in Nat /\ D[S] \in Int
       /\ D[S] <= A[S] \div W
       /\ A[S] \div W < D[S] + (IF Cardinality(L) > 1 THEN Cardinality(L) ELSE 1)
  <2>1. Divided(S, L, W, w, d, u)
    BY <1>10, <1>12, <1>13 DEF Divided
  <2>2. /\ IsFiniteSet(S) /\ W \in Nat \ {0} /\ L \in SUBSET S
        /\ w \in [S -> Int] /\ d \in [S -> Int] /\ u \in [S -> Int]
    BY <1>2, <1>9, <1>10, <1>12
  <2>3. Summed(S, w, A, d, D, u, U)
    BY <1>14, <1>15, <1>17 DEF Summed
  <2>4. NearSum(A[S] \div W, D[S], Cardinality(L))
    BY <2>1, <2>2, <2>3, PartsAndWhole
  <2> QED  BY <2>4 DEF NearSum
<1>19. G[S] = W
  BY <1>1, <1>5, <1>16
<1>20. A[S] \div W \in Int
  <2>1. A[S] \in Int
    BY <1>14 DEF Additive
  <2> QED  BY <1>2, <2>1, DivLaw
<1>21. /\ Feeds!get_basket_value(key).value = A[S] \div W
       /\ Feeds!get_basket_value(key).live = Cardinality(L)
  <2>1. /\ Feeds!get_basket_value(key).value = Feeds!Total(w) \div W
        /\ Feeds!get_basket_value(key).live = Feeds!Cardinality(L)
    BY <1>1, <1>2, <1>3, <1>6 DEF Feeds!get_basket_value
  <2>2. Feeds!Cardinality(L) = Cardinality(L)
    BY DEF Feeds!Cardinality, Cardinality
  <2> QED  BY <1>14, <2>1, <2>2
<1>22. Feeds!Total([i \in DOMAIN parts |-> Feeds!get_basket_contribution(parts[i])]) = D[S]
  BY <1>2, <1>4, <1>15
<1>23. PICK M : M = Feeds!Max({quoted[parts[i].asset].price : i \in DOMAIN parts} \cup {0})
  OBVIOUS
<1>24. M \in Nat /\ \A i \in S : quoted[parts[i].asset].price <= M
  <2>1. PICK f : f = [i \in 1..n |-> quoted[parts[i].asset].price]
    OBVIOUS
  <2>2. f \in [1..n -> Int]
    BY <1>1, <1>8, <2>1, WeightedPart
  <2>3. {quoted[parts[i].asset].price : i \in DOMAIN parts} = {f[i] : i \in 1..n}
    BY <1>1, <1>2, <2>1
  <2>4. M \in Nat /\ \A i \in 1..n : f[i] <= M
    BY <1>23, <2>2, <2>3, GreatestPrice
  <2> QED  BY <1>1, <2>1, <2>4
<1>25. A[S] \div W <= M
  <2>1. ASSUME NEW i \in S
        PROVE  w[i] <= M * g[i]
    <3>1. PICK k \in Nat, x \in Int : k = parts[i].weight /\ x = quoted[parts[i].asset].price
      BY <1>8, WeightedPart
    <3>2. g[i] = k /\ x <= M
      BY <1>11, <1>24, <3>1
    <3>3. k * x <= k * M /\ M * k = k * M /\ 0 <= M * k
      BY <1>24, <3>2, ProductGrows
    <3>4. w[i] = k * x \/ w[i] = 0
      BY <1>8, <1>9, <3>1, WeightedPart
    <3> QED  BY <3>2, <3>3, <3>4
  <2>2. M \in Int
    BY <1>24
  <2> QED  BY <1>2, <1>9, <1>11, <1>14, <1>16, <1>19, <2>1, <2>2, MeanBelow
<1>26. ASSUME NEW m \in Nat, \A i \in 1..n : /\ Feeds!Usable(parts[i].asset)
                                             /\ m <= quoted[parts[i].asset].price
       PROVE  m <= A[S] \div W
  <2>1. ASSUME NEW i \in S
        PROVE  m * g[i] <= w[i]
    <3>1. PICK k \in Nat, x \in Int : k = parts[i].weight /\ x = quoted[parts[i].asset].price
      BY <1>8, WeightedPart
    <3>2. g[i] = k /\ m <= x /\ w[i] = k * x
      BY <1>1, <1>8, <1>9, <1>11, <1>26, <3>1, WeightedPart
    <3>3. k * m <= k * x /\ m * k = k * m
      BY <3>2, ProductGrows
    <3> QED  BY <3>2, <3>3
  <2>2. m \in Int
    OBVIOUS
  <2> QED  BY <1>2, <1>9, <1>11, <1>14, <1>16, <1>19, <2>1, <2>2, MeanAbove
<1> QED  BY <1>18, <1>20, <1>21, <1>22, <1>23, <1>25, <1>26

\* basket.rs:360, 385.  A basket that can be read is worth its parts.
LEMMA BasketsAreTheirParts ==
    ASSUME FeedsKept
    PROVE  Feeds!BasketIsItsParts
<1> SUFFICES ASSUME NEW key \in DOMAIN baskets
             PROVE  LET v == Feeds!get_basket_value(key)
                        parts == baskets[key].parts
                        sum == Feeds!Total([i \in DOMAIN parts |->
                                              Feeds!get_basket_contribution(parts[i])])
                        prices == {quoted[parts[i].asset].price : i \in DOMAIN parts}
                    IN /\ sum <= v.value /\ v.value < sum + Feeds!Max({1, v.live})
                       /\ v.value <= Feeds!Max(prices \cup {0})
                       /\ ~v.degraded => v.value >= Feeds!Min(prices) /\ v.staleness <= age_limit
  BY DEF Feeds!BasketIsItsParts
<1>1. PICK parts : parts = baskets[key].parts
  OBVIOUS
<1>2. PICK n \in Nat \ {0} : parts \in [1..n -> Parts]
  BY <1>1 DEF FeedsKept, Composed
<1>3. Feeds!Total(Feeds!Weights(parts)) = WeightScale
  BY <1>1 DEF FeedsKept, Composed
<1>4. PICK v : v = Feeds!get_basket_value(key)
  OBVIOUS
<1>5. PICK sum : sum = Feeds!Total([i \in DOMAIN parts |-> Feeds!get_basket_contribution(parts[i])])
  OBVIOUS
<1>6. PICK prices : prices = {quoted[parts[i].asset].price : i \in DOMAIN parts}
  OBVIOUS
<1>7. /\ sum <= v.value
      /\ v.live \in Nat /\ v.value \in Int /\ sum \in Int
      /\ v.value < sum + (IF v.live > 1 THEN v.live ELSE 1)
      /\ v.value <= Feeds!Max(prices \cup {0})
      /\ \A m \in Nat : (\A i \in 1..n : /\ Feeds!Usable(parts[i].asset)
                                         /\ m <= quoted[parts[i].asset].price)
                        => m <= v.value
  BY <1>1, <1>2, <1>3, <1>4, <1>5, <1>6, BasketSums
<1>8. v.value < sum + Feeds!Max({1, v.live})
  <2>1. PICK k \in Nat : k = v.live
    BY <1>7
  <2>2. \E x \in {1, k} : \A y \in {1, k} : x >= y
    OBVIOUS
  <2>3. Feeds!Max({1, k}) \in {1, k} /\ \A y \in {1, k} : Feeds!Max({1, k}) >= y
    BY <2>2 DEF Feeds!Max
  <2>4. Feeds!Max({1, k}) = IF k > 1 THEN k ELSE 1
    BY <2>3
  <2> QED  BY <1>7, <2>1, <2>4
<1>9. PICK live : live = {i \in DOMAIN parts : Feeds!Usable(parts[i].asset)}
  OBVIOUS
<1>10. /\ v.degraded <=> live # DOMAIN parts
       /\ v.staleness = Feeds!Max({0} \cup {Feeds!Age(quoted[parts[i].asset].at) : i \in live})
  BY <1>1, <1>4, <1>9 DEF Feeds!get_basket_value
<1>11. v.staleness <= age_limit
  <2>1. PICK ages : ages = {0} \cup {Feeds!Age(quoted[parts[i].asset].at) : i \in live}
    OBVIOUS
  <2>2. \A i \in live : /\ Feeds!Age(quoted[parts[i].asset].at) \in Nat
                        /\ Feeds!Age(quoted[parts[i].asset].at) <= age_limit
    <3> SUFFICES ASSUME NEW i \in live
                 PROVE  /\ Feeds!Age(quoted[parts[i].asset].at) \in Nat
                        /\ Feeds!Age(quoted[parts[i].asset].at) <= age_limit
      OBVIOUS
    <3>1. parts[i] \in Parts /\ Feeds!Usable(parts[i].asset)
      BY <1>2, <1>9
    <3> QED  BY <3>1, WeightedPart
  <2>3. age_limit \in Nat
    BY DEF FeedsKept
  <2>4. ages \in SUBSET Nat /\ ages # {} /\ \A m \in ages : m <= age_limit
    BY <2>1, <2>2, <2>3
  <2>5. Feeds!Max(ages) \in ages
    BY <2>3, <2>4, GreatestAge
  <2> QED  BY <1>10, <2>1, <2>4, <2>5
<1>12. ASSUME ~v.degraded
       PROVE  v.value >= Feeds!Min(prices)
  <2>1. \A i \in 1..n : Feeds!Usable(parts[i].asset)
    <3>1. live = DOMAIN parts /\ DOMAIN parts = 1..n
      BY <1>2, <1>10, <1>12
    <3> QED  BY <1>9, <3>1
  <2>2. \A i \in 1..n : quoted[parts[i].asset].price \in Nat
    <3> SUFFICES ASSUME NEW i \in 1..n PROVE quoted[parts[i].asset].price \in Nat
      OBVIOUS
    <3>1. parts[i] \in Parts /\ Feeds!Usable(parts[i].asset)
      BY <1>2, <2>1
    <3> QED  BY <3>1, WeightedPart
  <2>3. prices = {quoted[parts[i].asset].price : i \in 1..n}
    BY <1>2, <1>6
  <2>4. prices \in SUBSET Nat /\ prices # {}
    <3>1. quoted[parts[1].asset].price \in prices
      BY <1>2, <2>3
    <3> QED  BY <2>2, <2>3, <3>1
  <2>5. PICK m \in prices : \A y \in prices : m <= y
    BY <2>4, LeastNatural
  <2>6. Feeds!Min(prices) \in prices /\ \A y \in prices : Feeds!Min(prices) <= y
    BY <2>5 DEF Feeds!Min
  <2>7. PICK low \in Nat : low = Feeds!Min(prices)
    BY <2>4, <2>6
  <2>8. \A i \in 1..n : Feeds!Usable(parts[i].asset) /\ low <= quoted[parts[i].asset].price
    BY <2>1, <2>3, <2>6, <2>7
  <2>9. low <= v.value
    BY <1>7, <2>8
  <2> QED  BY <1>7, <2>7, <2>9
<1> QED  BY <1>1, <1>4, <1>5, <1>6, <1>7, <1>8, <1>11, <1>12

\* derived_feeds.rs:45 and basket.rs:360, 385.  For all prices, scales, weights
\* and compositions: a cross rate is never above the exact one and short of it by
\* no more than its rounding, the age reported is that of the oldest leg, and a
\* basket is worth its parts, between the least and the greatest of their prices.
THEOREM FeedsAreExact == Spec => []FeedsExact
<1>1. Init => FeedsKept
  BY FeedsAssumption DEF Init, Feeds!Init, FeedsKept, Quotes
<1>2. FeedsKept /\ [Next]_vars => FeedsKept'
  BY StepsOfParts, FeedStep
<1>3. FeedsKept => FeedsExact
  BY RatesNeverHigh, BasketsAreTheirParts DEF FeedsExact
<1> QED  BY <1>1, <1>2, <1>3, PTL DEF Spec

-----------------------------------------------------------------------------
(* The lists kept beside a membership flag *)

\* Each part copies a list without some entries by the same fold.
LEMMA Copies ==
    ASSUME NEW s, NEW L
    PROVE  /\ Bridge!Without(s, L) = Filtered(s, L)
           /\ Assets!Without(s, L) = Filtered(s, L)
           /\ Delivery!Without(s, L) = Filtered(s, L)
           /\ Access!Without(s, L) = Filtered(s, L)
           /\ Admission!Without(s, L) = Filtered(s, L)
<1>1. Bridge!Without(s, L) = Filtered(s, L)
  BY DEF Bridge!Without, Bridge!FoldLeft, Bridge!MapThenFoldSet, Bridge!Max, Filtered, Filtering,
       FilterStep, Top
<1>2. Assets!Without(s, L) = Filtered(s, L)
  BY DEF Assets!Without, Assets!FoldLeft, Assets!MapThenFoldSet, Assets!Max, Filtered, Filtering,
       FilterStep, Top
<1>3. Delivery!Without(s, L) = Filtered(s, L)
  BY DEF Delivery!Without, Delivery!FoldLeft, Delivery!MapThenFoldSet, Delivery!Max, Filtered,
       Filtering, FilterStep, Top
<1>4. Access!Without(s, L) = Filtered(s, L)
  BY DEF Access!Without, Access!FoldLeft, Access!MapThenFoldSet, Access!Max, Filtered, Filtering,
       FilterStep, Top
<1>5. Admission!Without(s, L) = Filtered(s, L)
  BY DEF Admission!Without, Admission!FoldLeft, Admission!MapThenFoldSet, Admission!Max, Filtered,
       Filtering, FilterStep, Top
<1> QED  BY <1>1, <1>2, <1>3, <1>4, <1>5

\* The list s names the members of M, once each.
Lists(s, S, M) == s \in Seq(S) /\ Once(s) /\ Members(s) = M

LEMMA EmptyLists == \A S : Lists(<<>>, S, {})
BY DEF Lists, Once, Members

LEMMA ListsWithout ==
    ASSUME NEW S, NEW M, NEW s, Lists(s, S, M), NEW L
    PROVE  Lists(Filtered(s, L), S, M \ L)
BY FilterOnce DEF Lists

LEMMA ListsWith ==
    ASSUME NEW S, NEW M, NEW s, Lists(s, S, M), NEW x \in S, x \notin M
    PROVE  Lists(Append(s, x), S, M \cup {x})
BY AppendOnce DEF Lists

LEMMA ListsRenamed ==
    ASSUME NEW S, NEW M, NEW s, Lists(s, S, M), NEW x \in M, NEW y \in S, y \notin M
    PROVE  Lists([i \in DOMAIN s |-> IF s[i] = x THEN y ELSE s[i]], S, (M \ {x}) \cup {y})
<1>1. PICK t : t = [i \in DOMAIN s |-> IF s[i] = x THEN y ELSE s[i]]
  OBVIOUS
<1>2. s \in Seq(S) /\ Once(s) /\ x \in Members(s) /\ y \notin Members(s)
  BY DEF Lists
<1>3. t \in Seq(S) /\ Once(t) /\ Members(t) = (Members(s) \ {x}) \cup {y}
  BY <1>1, <1>2, RenameOnce
<1> QED  BY <1>1, <1>3 DEF Lists

\* The foreign assets: the two indexes list the mappings that exist.
Mapped(a) == {k \in DOMAIN mapping : mapping[k].asset = a}
MappingsListed ==
    /\ mapping \in [DOMAIN mapping -> [asset : LocalAssets, enabled : BOOLEAN]]
    /\ DOMAIN by_asset = LocalAssets
    /\ Lists(registry, ForeignAssets, DOMAIN mapping)
    /\ \A a \in LocalAssets : Lists(by_asset[a], ForeignAssets, Mapped(a))

LEMMA MappingStep ==
    ASSUME MappingsListed, [Bridge!Next]_bvars
    PROVE  MappingsListed'
<1>1. CASE UNCHANGED <<mapping, registry, by_asset>>
  BY <1>1 DEF MappingsListed, Mapped, Lists
<1>2. ASSUME NEW key \in ForeignAssets, NEW b \in LocalAssets,
             Bridge!register_foreign_asset_mapping(b, key)
      PROVE  MappingsListed'
  <2>1. /\ key \notin DOMAIN mapping
        /\ mapping' = [k \in DOMAIN mapping \cup {key} |->
                         IF k = key THEN [asset |-> b, enabled |-> TRUE] ELSE mapping[k]]
        /\ registry' = Append(registry, key)
        /\ by_asset' = [by_asset EXCEPT ![b] = Append(@, key)]
    BY <1>2 DEF Bridge!register_foreign_asset_mapping
  <2>2. DOMAIN mapping' = DOMAIN mapping \cup {key} /\ DOMAIN by_asset' = LocalAssets
    BY <2>1 DEF MappingsListed
  <2>3. mapping' \in [DOMAIN mapping' -> [asset : LocalAssets, enabled : BOOLEAN]]
    BY <2>1, <2>2 DEF MappingsListed
  <2>4. Lists(registry', ForeignAssets, DOMAIN mapping')
    BY <2>1, <2>2, ListsWith DEF MappingsListed
  <2>5. ASSUME NEW a \in LocalAssets
        PROVE  Lists(by_asset'[a], ForeignAssets, Mapped(a)')
    <3>1. Mapped(a)' = IF a = b THEN Mapped(a) \cup {key} ELSE Mapped(a)
      BY <2>1 DEF Mapped
    <3>2. key \notin Mapped(a)
      BY <2>1 DEF Mapped
    <3>3. Lists(by_asset[a], ForeignAssets, Mapped(a))
      BY DEF MappingsListed
    <3>4. by_asset'[a] = IF a = b THEN Append(by_asset[a], key) ELSE by_asset[a]
      BY <2>1 DEF MappingsListed
    <3> QED  BY <3>1, <3>2, <3>3, <3>4, ListsWith
  <2> QED  BY <2>2, <2>3, <2>4, <2>5 DEF MappingsListed
<1>3. ASSUME NEW key \in ForeignAssets, NEW on \in BOOLEAN,
             Bridge!update_foreign_asset_mapping(key, on)
      PROVE  MappingsListed'
  <2>1. /\ key \in DOMAIN mapping
        /\ mapping' = [mapping EXCEPT ![key].enabled = on]
        /\ UNCHANGED <<registry, by_asset>>
    BY <1>3 DEF Bridge!update_foreign_asset_mapping
  <2>2. DOMAIN mapping' = DOMAIN mapping
    BY <2>1
  <2>3. \A k \in DOMAIN mapping : /\ mapping'[k] \in [asset : LocalAssets, enabled : BOOLEAN]
                                  /\ mapping'[k].asset = mapping[k].asset
    BY <2>1 DEF MappingsListed
  <2>4. mapping' \in [DOMAIN mapping' -> [asset : LocalAssets, enabled : BOOLEAN]]
    BY <2>1, <2>2, <2>3 DEF MappingsListed
  <2>5. \A a \in LocalAssets : Mapped(a)' = Mapped(a)
    BY <2>2, <2>3 DEF Mapped
  <2> QED  BY <2>1, <2>2, <2>4, <2>5 DEF MappingsListed
<1>4. ASSUME NEW key \in ForeignAssets, Bridge!remove_foreign_asset_mapping(key)
      PROVE  MappingsListed'
  <2>1. /\ key \in DOMAIN mapping
        /\ mapping' = [k \in DOMAIN mapping \ {key} |-> mapping[k]]
        /\ registry' = Filtered(registry, {key})
        /\ by_asset' = [by_asset EXCEPT ![mapping[key].asset] = Filtered(@, {key})]
    BY <1>4, Copies DEF Bridge!remove_foreign_asset_mapping, Bridge!remove_from_index
  <2>2. DOMAIN mapping' = DOMAIN mapping \ {key} /\ DOMAIN by_asset' = LocalAssets
    BY <2>1 DEF MappingsListed
  <2>3. mapping' \in [DOMAIN mapping' -> [asset : LocalAssets, enabled : BOOLEAN]]
    BY <2>1, <2>2 DEF MappingsListed
  <2>4. Lists(registry', ForeignAssets, DOMAIN mapping')
    BY <2>1, <2>2, ListsWithout DEF MappingsListed
  <2>5. ASSUME NEW a \in LocalAssets
        PROVE  Lists(by_asset'[a], ForeignAssets, Mapped(a)')
    <3>1. Mapped(a)' = Mapped(a) \ {key}
      BY <2>1, <2>2 DEF Mapped
    <3>2. a # mapping[key].asset => Mapped(a)' = Mapped(a)
      BY <2>1, <3>1 DEF Mapped
    <3>3. Lists(by_asset[a], ForeignAssets, Mapped(a))
      BY DEF MappingsListed
    <3>4. by_asset'[a] = IF a = mapping[key].asset THEN Filtered(by_asset[a], {key})
                         ELSE by_asset[a]
      BY <2>1 DEF MappingsListed
    <3> QED  BY <3>1, <3>2, <3>3, <3>4, ListsWithout
  <2> QED  BY <2>2, <2>3, <2>4, <2>5 DEF MappingsListed
<1>5. CASE Bridge!RegistryCalls
  BY <1>2, <1>3, <1>4, <1>5 DEF Bridge!RegistryCalls
<1>6. CASE Bridge!AxelarCalls
  BY <1>1, <1>6 DEF Bridge!AxelarCalls, Bridge!set_axelar_gateway, Bridge!execute_axelar_message,
       Bridge!set_axelar_trusted_source, Bridge!remove_axelar_trusted_source, Bridge!regvars
<1>7. CASE Bridge!LayerZeroCalls
  BY <1>1, <1>7 DEF Bridge!LayerZeroCalls, Bridge!set_layerzero_endpoint, Bridge!lz_receive,
       Bridge!set_lz_chain_name, Bridge!set_trusted_remote, Bridge!remove_trusted_remote,
       Bridge!regvars
<1>8. CASE Bridge!ToggleSource \/ Bridge!Elapse
  BY <1>1, <1>8 DEF Bridge!ToggleSource, Bridge!Elapse, Bridge!regvars
<1> QED  BY <1>1, <1>5, <1>6, <1>7, <1>8 DEF Bridge!Next, bvars

\* The consumers: those with a callback and the subscribers.
ConsumersListed ==
    /\ Lists(callbacks, Consumers, Members(callbacks)) /\ Len(callbacks) <= MaxCallbacks
    /\ Lists(subscribers, Consumers, subscribed)

LEMMA ConsumerStep ==
    ASSUME ConsumersListed, [Delivery!Next]_cvars
    PROVE  ConsumersListed'
<1>1. CASE UNCHANGED <<callbacks, subscribed, subscribers>>
  BY <1>1 DEF ConsumersListed, Lists
<1>2. ASSUME NEW c \in Consumers, Delivery!register_price_callback(c)
      PROVE  ConsumersListed'
  <2>1. /\ c \in Members(callbacks) \/ Len(callbacks) < MaxCallbacks
        /\ callbacks' = IF c \in Members(callbacks) THEN callbacks ELSE Append(callbacks, c)
        /\ UNCHANGED <<subscribed, subscribers>>
    BY <1>2 DEF Delivery!register_price_callback, Delivery!ToSet, Members
  <2>2. PICK s \in Seq(Consumers) : s = callbacks
    BY DEF ConsumersListed, Lists
  <2>3. CASE c \in Members(callbacks)
    BY <1>1, <2>1, <2>3
  <2>4. CASE c \notin Members(callbacks)
    <3>1. Lists(Append(s, c), Consumers, Members(s) \cup {c})
      BY <2>2, <2>4, ListsWith DEF ConsumersListed
    <3>2. Lists(callbacks', Consumers, Members(callbacks'))
      BY <2>1, <2>2, <2>4, <3>1 DEF Lists
    <3>3. Len(callbacks') <= MaxCallbacks
      BY <2>1, <2>2, <2>4, ListsAssumption
    <3> QED  BY <2>1, <3>2, <3>3 DEF ConsumersListed
  <2> QED  BY <2>3, <2>4
<1>3. ASSUME NEW c \in Consumers, Delivery!unregister_price_callback(c)
      PROVE  ConsumersListed'
  <2>1. PICK s \in Seq(Consumers) : s = callbacks /\ Once(s) /\ Len(s) <= MaxCallbacks
    BY DEF ConsumersListed, Lists
  <2>2. /\ \E i \in 1..Len(s) : s[i] = c
        /\ callbacks' = Delivery!RemoveFirst(s, c)
        /\ UNCHANGED <<subscribed, subscribers>>
    BY <1>3, <2>1 DEF Delivery!unregister_price_callback, Delivery!ToSet
  <2> DEFINE I == {i \in 1..Len(s) : s[i] = c}
  <2>3. I \in SUBSET Nat /\ I # {}
    BY <2>2
  <2>4. \E n \in I : \A m \in I : n <= m
    BY <2>3, LeastNatural
  <2>5. Delivery!Min(I) \in I
    BY <2>4 DEF Delivery!Min
  <2>6. PICK n \in 1..Len(s) : n = Delivery!Min(I)
    BY <2>5
  <2>7. callbacks' = SubSeq(s, 1, n - 1) \o SubSeq(s, n + 1, Len(s))
    BY <2>2, <2>3, <2>6 DEF Delivery!RemoveFirst, Delivery!RemoveAt, Delivery!SelectInSeq
  <2>8. callbacks' \in Seq(Consumers) /\ Once(callbacks') /\ Len(callbacks') = Len(s) - 1
    BY <2>1, <2>7, CutOnce
  <2>9. Len(s) \in Nat
    BY <2>1
  <2>10. Len(callbacks') <= MaxCallbacks
    BY <2>1, <2>8, <2>9, ListsAssumption
  <2> QED  BY <2>2, <2>8, <2>10 DEF ConsumersListed, Lists
<1>4. ASSUME NEW c \in Consumers, Delivery!subscribe_price_updates(c)
      PROVE  ConsumersListed'
  <2>1. /\ c \notin subscribed /\ subscribed' = subscribed \cup {c}
        /\ subscribers' = Append(subscribers, c) /\ UNCHANGED callbacks
    BY <1>4 DEF Delivery!subscribe_price_updates
  <2> QED  BY <2>1, ListsWith DEF ConsumersListed
<1>5. ASSUME NEW c \in Consumers, Delivery!unsubscribe_price_updates(c)
      PROVE  ConsumersListed'
  <2>1. /\ subscribed' = subscribed \ {c}
        /\ subscribers' = Filtered(subscribers, {c}) /\ UNCHANGED callbacks
    BY <1>5, Copies DEF Delivery!unsubscribe_price_updates, Delivery!dropAll
  <2> QED  BY <2>1, ListsWithout DEF ConsumersListed
<1>6. CASE Delivery!CallbackCalls \/ Delivery!SubscriberCalls
  BY <1>2, <1>3, <1>4, <1>5, <1>6 DEF Delivery!CallbackCalls, Delivery!SubscriberCalls
<1>7. CASE Delivery!TriggerCalls
  BY <1>1, <1>7 DEF Delivery!TriggerCalls, Delivery!set_submission_threshold_trigger,
       Delivery!set_deviation_trigger, Delivery!set_time_trigger, Delivery!set_trigger,
       Delivery!poke_time_trigger
<1>8. CASE Delivery!Publications \/ Delivery!QuorumShifts \/ Delivery!Elapse
  BY <1>1, <1>8 DEF Delivery!Publications, Delivery!submit_price, Delivery!QuorumShifts,
       Delivery!Elapse
<1>9. CASE Delivery!WritesBeside
  BY <1>1, <1>9 DEF Delivery!WritesBeside, Delivery!trigger_aggregation,
       Delivery!write_price_snapshot, Delivery!correct_price, Delivery!WriteBeside
<1> QED  BY <1>1, <1>6, <1>7, <1>8, <1>9 DEF Delivery!Next, cvars

\* The holders of each role.
Holding(r) == {a \in Accounts : <<a, r>> \in roles}
HoldersListed ==
    /\ DOMAIN holders = Roles
    /\ \A r \in Roles : Lists(holders[r], Accounts, Holding(r))

LEMMA HolderStep ==
    ASSUME HoldersListed, [Access!Next]_rvars
    PROVE  HoldersListed'
<1>1. CASE UNCHANGED <<roles, holders>>
  BY <1>1 DEF HoldersListed, Holding, Lists
<1>2. ASSUME NEW a \in Accounts, NEW q \in Roles, Access!delegate_role(a, q)
      PROVE  HoldersListed'
  <2>1. /\ roles' = roles \cup {<<a, q>>}
        /\ holders' = [holders EXCEPT ![q] = IF a \in Members(@) THEN @ ELSE Append(@, a)]
    BY <1>2 DEF Access!delegate_role, Access!PushHolder, Access!ToSet, Members
  <2>2. DOMAIN holders' = Roles
    BY <2>1 DEF HoldersListed
  <2>3. ASSUME NEW r \in Roles
        PROVE  Lists(holders'[r], Accounts, Holding(r)')
    <3>1. Lists(holders[r], Accounts, Holding(r))
      BY DEF HoldersListed
    <3>2. Members(holders[r]) = Holding(r)
      BY <3>1 DEF Lists
    <3>3. Holding(r)' = IF r = q THEN Holding(r) \cup {a} ELSE Holding(r)
      BY <2>1 DEF Holding
    <3>4. holders'[r] = IF r = q /\ a \notin Holding(r) THEN Append(holders[r], a) ELSE holders[r]
      BY <2>1, <3>2 DEF HoldersListed
    <3>5. CASE r = q /\ a \notin Holding(r)
      BY <3>1, <3>3, <3>4, <3>5, ListsWith
    <3>6. CASE ~(r = q /\ a \notin Holding(r))
      <4>1. Holding(r)' = Holding(r)
        BY <3>3, <3>6
      <4> QED  BY <3>1, <3>4, <3>6, <4>1
    <3> QED  BY <3>5, <3>6
  <2> QED  BY <2>2, <2>3 DEF HoldersListed
<1>3. ASSUME NEW a \in Accounts, NEW q \in Roles, Access!revoke_role(a, q)
      PROVE  HoldersListed'
  <2>1. roles' = roles \ {<<a, q>>} /\ holders' = [holders EXCEPT ![q] = Filtered(@, {a})]
    BY <1>3, Copies DEF Access!revoke_role
  <2>2. DOMAIN holders' = Roles
    BY <2>1 DEF HoldersListed
  <2>3. ASSUME NEW r \in Roles
        PROVE  Lists(holders'[r], Accounts, Holding(r)')
    <3>1. Lists(holders[r], Accounts, Holding(r))
      BY DEF HoldersListed
    <3>2. Holding(r)' = IF r = q THEN Holding(r) \ {a} ELSE Holding(r)
      BY <2>1 DEF Holding
    <3>3. holders'[r] = IF r = q THEN Filtered(holders[r], {a}) ELSE holders[r]
      BY <2>1 DEF HoldersListed
    <3> QED  BY <3>1, <3>2, <3>3, ListsWithout
  <2> QED  BY <2>2, <2>3 DEF HoldersListed
<1>4. CASE Access!RoleCalls
  BY <1>1, <1>2, <1>3, <1>4 DEF Access!RoleCalls, Access!transfer_admin
<1>5. CASE Access!GovernorCalls
  BY <1>1, <1>5 DEF Access!GovernorCalls, Access!set_external_governor,
       Access!clear_external_governor, Access!reauthorize_governor, Access!allow_governor_op,
       Access!disallow_governor_op
<1>6. CASE Access!ReaderCalls
  BY <1>1, <1>6 DEF Access!ReaderCalls, Access!add_authorized_consumer,
       Access!remove_authorized_consumer, Access!set_consumer_access_mode, Access!set_readers
<1> QED  BY <1>1, <1>4, <1>5, <1>6 DEF Access!Next, rvars

\* The sources, and what the votes on them are about.
Approvers == UNION {c.approvers : c \in Committees}
Proposals == [source : Sources, approvals : SUBSET Approvers, executed : BOOLEAN]
SourcesListed ==
    /\ Lists(roster, Sources, registered)
    /\ named = registered /\ verified_map = verified_key
    /\ committee.approvers \subseteq Approvers
    /\ proposals \in Seq(Proposals)

LEMMA RosterStep ==
    ASSUME SourcesListed, [Admission!Next]_svars
    PROVE  SourcesListed'
<1> DEFINE Untouched == UNCHANGED <<registered, roster, named, verified_map, verified_key>>
           Voting == committee'.approvers \subseteq Approvers /\ proposals' \in Seq(Proposals)
<1>1. ASSUME UNCHANGED <<committee, proposals>>
      PROVE  Voting
  BY <1>1 DEF SourcesListed
<1>2. ASSUME Untouched, Voting
      PROVE  SourcesListed'
  BY <1>2 DEF SourcesListed
<1>3. ASSUME NEW s \in Sources, Admission!register_source_internal(s),
             UNCHANGED <<verified_map, verified_key>>, Voting
      PROVE  SourcesListed'
  <2>1. /\ s \notin registered /\ registered' = registered \cup {s}
        /\ roster' = Append(roster, s) /\ named' = named \cup {s}
    BY <1>3 DEF Admission!register_source_internal
  <2>2. Lists(roster', Sources, registered')
    BY <2>1, ListsWith DEF SourcesListed
  <2> QED  BY <1>3, <2>1, <2>2 DEF SourcesListed
<1>4. ASSUME NEW L, registered' = registered \ L, roster' = Filtered(roster, L),
             named' = named \ L, verified_map' = verified_key', Voting
      PROVE  SourcesListed'
  <2>1. Lists(roster', Sources, registered')
    BY <1>4, ListsWithout DEF SourcesListed
  <2> QED  BY <1>4, <2>1 DEF SourcesListed
<1>5. ASSUME NEW s \in Sources, NEW n \in Sources, Admission!rotate_source_key(s, n)
      PROVE  SourcesListed'
  <2>1. /\ s \in registered /\ n \notin registered
        /\ registered' = (registered \ {s}) \cup {n}
        /\ roster' = [i \in DOMAIN roster |-> IF roster[i] = s THEN n ELSE roster[i]]
        /\ named' = (named \ {s}) \cup {n}
        /\ UNCHANGED <<committee, proposals>>
    BY <1>5 DEF Admission!rotate_source_key
  <2>2. verified_map' = verified_key'
    BY <1>5 DEF Admission!rotate_source_key, Admission!verification, SourcesListed
  <2>3. Lists(roster', Sources, registered')
    BY <2>1, ListsRenamed DEF SourcesListed
  <2> QED  BY <2>1, <2>2, <2>3 DEF SourcesListed
<1>6. ASSUME NEW x \in committee.approvers, NEW id \in DOMAIN proposals,
             Admission!approve_source(x, id)
      PROVE  SourcesListed'
  <2>1. PICK p \in Proposals : p = proposals[id]
    BY DEF SourcesListed
  <2>2. PICK n : n = Admission!Cardinality(p.approvals \cup {x})
    OBVIOUS
  <2> DEFINE e == n >= committee.threshold
  <2>0. e \in BOOLEAN
    OBVIOUS
  <2>3. proposals' = [proposals EXCEPT ![id] =
                        [p EXCEPT !.approvals = p.approvals \cup {x}, !.executed = e]]
    BY <1>6, <2>1, <2>2 DEF Admission!approve_source
  <2> HIDE DEF e
  <2>4. [p EXCEPT !.approvals = p.approvals \cup {x}, !.executed = e] \in Proposals
    BY <2>0, <2>1 DEF Proposals, SourcesListed
  <2>5. proposals' \in Seq(Proposals)
    BY <2>3, <2>4 DEF SourcesListed
  <2>6. /\ UNCHANGED <<committee, verified_map, verified_key>>
        /\ Admission!register_source_internal(p.source) \/ UNCHANGED <<registered, roster, named>>
    BY <1>6, <2>1 DEF Admission!approve_source, Admission!verification, Admission!registry
  <2>7. Voting /\ p.source \in Sources
    BY <2>1, <2>5, <2>6 DEF SourcesListed, Proposals
  <2> QED  BY <1>2, <1>3, <2>6, <2>7
<1>7. CASE Admission!AdmissionCalls
  <2>1. ASSUME NEW s \in Sources, Admission!add_source(s)
        PROVE  SourcesListed'
    BY <1>1, <1>3, <2>1 DEF Admission!add_source, Admission!verification
  <2>2. ASSUME NEW s \in Sources, NEW as, Admission!add_source_with_assets(s, as)
        PROVE  SourcesListed'
    BY <1>1, <1>3, <2>2 DEF Admission!add_source_with_assets, Admission!verification
  <2>3. ASSUME NEW s \in Sources, Admission!activate_source(s)
        PROVE  SourcesListed'
    BY <1>1, <1>3, <2>3 DEF Admission!activate_source, Admission!verification
  <2>4. ASSUME NEW s, Admission!enroll_source(s) \/ Admission!submit_source_evidence(s)
        PROVE  SourcesListed'
    BY <1>1, <1>2, <2>4 DEF Admission!enroll_source, Admission!submit_source_evidence,
         Admission!verification, Admission!registry
  <2>5. ASSUME NEW n, Admission!set_max_sources(n)
        PROVE  SourcesListed'
    BY <1>1, <1>2, <2>5 DEF Admission!set_max_sources, Admission!verification,
         Admission!registry
  <2> QED  BY <1>7, <2>1, <2>2, <2>3, <2>4, <2>5, ListsAssumption DEF Admission!AdmissionCalls
<1>8. CASE Admission!GovernanceCalls
  <2>1. ASSUME NEW c \in Committees, Admission!set_source_governance(c)
        PROVE  SourcesListed'
    <3>1. committee' = c /\ UNCHANGED proposals /\ Untouched
      BY <2>1 DEF Admission!set_source_governance, Admission!verification, Admission!registry
    <3>2. c.approvers \subseteq Approvers
      BY DEF Approvers
    <3> QED  BY <1>2, <3>1, <3>2 DEF SourcesListed
  <2>2. ASSUME NEW x, NEW s \in Candidates, Admission!propose_source(x, s)
        PROVE  SourcesListed'
    <3>1. PICK p : p = [source |-> s, approvals |-> {}, executed |-> FALSE]
      OBVIOUS
    <3>2. proposals' = Append(proposals, p) /\ UNCHANGED committee /\ Untouched
      BY <2>2, <3>1 DEF Admission!propose_source, Admission!verification, Admission!registry
    <3>3. p \in Proposals
      BY <3>1, ListsAssumption DEF Proposals
    <3> QED  BY <1>2, <3>2, <3>3 DEF SourcesListed
  <2> QED  BY <1>6, <1>8, <2>1, <2>2 DEF Admission!GovernanceCalls
<1>9. CASE Admission!DepartureCalls
  <2>1. ASSUME NEW L, Admission!remove_source_inner(L)
        PROVE  SourcesListed'
    <3>1. /\ registered' = registered \ L /\ roster' = Filtered(roster, L)
          /\ named' = named \ L /\ UNCHANGED <<committee, proposals>>
          /\ verified_map' = verified_map \ L /\ verified_key' = verified_key \ L
      BY <2>1, Copies DEF Admission!remove_source_inner
    <3>2. verified_map' = verified_key'
      BY <3>1 DEF SourcesListed
    <3> QED  BY <1>1, <1>4, <3>1, <3>2
  <2>2. ASSUME NEW s, Admission!remove_source(s)
        PROVE  SourcesListed'
    BY <1>1, <1>2, <2>1, <2>2 DEF Admission!remove_source, Admission!verification,
         Admission!registry
  <2>3. ASSUME NEW s, Admission!prune_source(s)
        PROVE  SourcesListed'
    <3>1. /\ registered' = registered \ {s} /\ roster' = Filtered(roster, {s})
          /\ named' = named \ {s} /\ UNCHANGED <<committee, proposals>>
          /\ verified_map' = verified_key'
      BY <2>3, Copies DEF Admission!prune_source, Admission!verification, SourcesListed
    <3> QED  BY <1>1, <1>4, <3>1
  <2> QED  BY <1>9, <2>1, <2>2, <2>3 DEF Admission!DepartureCalls, Admission!remove_sources
<1>10. CASE Admission!SourceCalls
  <2>1. ASSUME NEW s, Admission!set_source_verification(s)
        PROVE  SourcesListed'
    BY <2>1 DEF Admission!set_source_verification, Admission!registry, SourcesListed
  <2>2. ASSUME NEW s, NEW a, Admission!add_source_asset(s, a) \/ Admission!remove_source_asset(s, a)
        PROVE  SourcesListed'
    BY <1>1, <1>2, <2>2 DEF Admission!add_source_asset, Admission!remove_source_asset,
         Admission!verification, Admission!registry
  <2> QED  BY <1>5, <1>10, <2>1, <2>2 DEF Admission!SourceCalls
<1>11. CASE Admission!SigningCalls
  BY <1>1, <1>2, <1>11 DEF Admission!SigningCalls, Admission!register_submission_key,
       Admission!submit_price_with_proof, Admission!verification, Admission!registry
<1>12. CASE UNCHANGED svars
  BY <1>1, <1>2, <1>12 DEF svars
<1> QED  BY <1>7, <1>8, <1>9, <1>10, <1>11, <1>12 DEF Admission!Next

\* The assets, and a walk over their pages.  A walk whose asset is still listed
\* has seen, of those that stayed, exactly the ones listed up to it.
Walks == [on : BOOLEAN, at : Listable \cup {Assets!Start}, seen : Seq(Listable),
          steady : SUBSET Listable, broken : BOOLEAN]
Reached(s, w) ==
    \/ w.at = Assets!Start /\ w.seen = <<>>
    \/ /\ w.at \in Members(s)
       /\ \A x \in w.steady : x \in Members(w.seen) <=> x \in Through(s, w.at)
WalkGoesOn(s, w) ==
    w.broken = FALSE => /\ w.steady \subseteq Members(s)
                        /\ \A x \in w.steady : OnceAt(w.seen, x)
                        /\ IF w.on THEN Reached(s, w) ELSE w.steady \subseteq Members(w.seen)
AssetsListed ==
    /\ Lists(listed, Listable, flagged)
    /\ indexed \subseteq flagged
    /\ walk \in Walks /\ WalkGoesOn(listed, walk)

LEMMA IdleWalk == \A s : Assets!Idle \in Walks /\ WalkGoesOn(s, Assets!Idle)
BY DEF Walks, WalkGoesOn, Assets!Idle

\* An asset is listed behind the others.
LEMMA WalkMeetsNewcomer ==
    ASSUME NEW s, NEW M, Lists(s, Listable, M), NEW a \in Listable, a \notin M,
           NEW w \in Walks, WalkGoesOn(s, w)
    PROVE  WalkGoesOn(Append(s, a), w)
<1>1. PICK t : t = Append(s, a)
  OBVIOUS
<1>2. s \in Seq(Listable) /\ Once(s) /\ Members(s) = M
  BY DEF Lists
<1>3. t \in Seq(Listable) /\ Once(t) /\ Members(t) = Members(s) \cup {a}
      /\ Precedes(s) \subseteq Precedes(t)
  BY <1>1, <1>2, AppendOnce
<1>4. ASSUME NEW x \in Members(s), NEW y \in Members(s)
      PROVE  y \in Through(s, x) <=> y \in Through(t, x)
  <2>1. Members(s) \subseteq Members(t)
    BY <1>3
  <2> QED  BY <1>2, <1>3, <2>1, ThroughAgrees
<1>5. ASSUME w.steady \subseteq Members(s), Reached(s, w)
      PROVE  Reached(t, w)
  BY <1>3, <1>4, <1>5 DEF Reached
<1> QED  BY <1>1, <1>3, <1>5 DEF WalkGoesOn

\* An asset is taken from the list; if the walk stood on it, it is broken.
Bereft(w, a) == [w EXCEPT !.steady = @ \ {a}, !.broken = @ \/ w.at = a]
LEMMA WalkMeetsRemoval ==
    ASSUME NEW s, NEW M, Lists(s, Listable, M), NEW a \in Listable,
           NEW w \in Walks, WalkGoesOn(s, w)
    PROVE  Bereft(w, a) \in Walks /\ WalkGoesOn(Filtered(s, {a}), Bereft(w, a))
<1>1. PICK t : t = Filtered(s, {a})
  OBVIOUS
<1>0. PICK v : v = Bereft(w, a)
  OBVIOUS
<1>2. s \in Seq(Listable) /\ Once(s)
  BY DEF Lists
<1>3. t \in Seq(Listable) /\ Once(t) /\ Members(t) = Members(s) \ {a}
      /\ Precedes(t) \subseteq Precedes(s)
  BY <1>1, <1>2, FilterOnce
<1>4. /\ v.on = w.on /\ v.at = w.at /\ v.seen = w.seen
      /\ v.steady = w.steady \ {a} /\ v.broken = (w.broken \/ w.at = a)
  BY <1>0 DEF Walks, Bereft
<1>5. v \in Walks
  BY <1>0 DEF Walks, Bereft
<1>6. ASSUME NEW x \in Members(t), NEW y \in Members(t)
      PROVE  y \in Through(t, x) <=> y \in Through(s, x)
  <2>1. Members(t) \subseteq Members(s)
    BY <1>3
  <2> QED  BY <1>2, <1>3, <2>1, ThroughAgrees
<1>7. ASSUME v.broken = FALSE
      PROVE  /\ v.steady \subseteq Members(t)
             /\ \A x \in v.steady : OnceAt(v.seen, x)
             /\ IF v.on THEN Reached(t, v) ELSE v.steady \subseteq Members(v.seen)
  <2>1. w.broken = FALSE /\ w.at # a
    BY <1>4, <1>7 DEF Walks
  <2>2. /\ w.steady \subseteq Members(s)
        /\ \A x \in w.steady : OnceAt(w.seen, x)
        /\ IF w.on THEN Reached(s, w) ELSE w.steady \subseteq Members(w.seen)
    BY <2>1 DEF WalkGoesOn
  <2>3. v.steady \subseteq Members(t)
    BY <1>3, <1>4, <2>2
  <2>4. ASSUME Reached(s, w)
        PROVE  Reached(t, v)
    <3>1. CASE w.at = Assets!Start /\ w.seen = <<>>
      BY <1>4, <3>1 DEF Reached
    <3>2. CASE /\ w.at \in Members(s)
               /\ \A x \in w.steady : x \in Members(w.seen) <=> x \in Through(s, w.at)
      <4>1. w.at \in Members(t)
        BY <1>3, <2>1, <3>2
      <4>2. \A x \in v.steady : x \in Members(t) /\ x \in w.steady
        BY <1>4, <2>3
      <4>3. \A x \in v.steady : x \in Members(v.seen) <=> x \in Through(t, v.at)
        BY <1>4, <1>6, <3>2, <4>1, <4>2
      <4> QED  BY <1>4, <4>1, <4>3 DEF Reached
    <3> QED  BY <2>4, <3>1, <3>2 DEF Reached
  <2> QED  BY <1>4, <2>2, <2>3, <2>4
<1> QED  BY <1>0, <1>1, <1>5, <1>7 DEF WalkGoesOn

\* The next page: it begins behind the asset the walk stands on.
LEMMA PlaceOfCursor ==
    ASSUME AssetsListed, Assets!PageFrom(walk.at) # 0
    PROVE  \E k \in 0..Len(listed) :
             /\ Assets!PageFrom(walk.at) = k + 1
             /\ k = 0 => walk.at = Assets!Start
             /\ k > 0 => walk.at = listed[k] /\ walk.at # Assets!Start
<1>1. PICK s \in Seq(Listable) : s = listed
  BY DEF AssetsListed, Lists
<1>2. CASE walk.at = Assets!Start
  <2>1. Assets!PageFrom(walk.at) = 0 + 1 /\ 0 \in 0..Len(listed)
    BY <1>1, <1>2 DEF Assets!PageFrom
  <2> QED  BY <1>2, <2>1
<1>3. CASE walk.at # Assets!Start
  <2> DEFINE I == {i \in 1..Len(s) : s[i] = walk.at}
  <2>1. walk.at \in Assets!ToSet(s)
    BY <1>1, <1>3 DEF Assets!PageFrom
  <2>2. I \in SUBSET Nat /\ I # {}
    BY <2>1 DEF Assets!ToSet
  <2>3. \E n \in I : \A m \in I : n <= m
    BY <2>2, LeastNatural
  <2>4. Assets!Min(I) \in I
    BY <2>3 DEF Assets!Min
  <2>5. PICK k \in I : k = Assets!Min(I)
    BY <2>4
  <2>6. Assets!PageFrom(walk.at) = k + 1
    BY <1>1, <1>3, <2>1, <2>2, <2>5 DEF Assets!PageFrom, Assets!SelectInSeq
  <2>7. k \in 0..Len(listed) /\ k > 0 /\ listed[k] = walk.at
    BY <1>1, <2>5
  <2> QED  BY <1>3, <2>6, <2>7
<1> QED  BY <1>2, <1>3

\* What a walk at place k has seen, of those that stayed.
StandsAt(w, s, k) == /\ k = 0 => w.at = Assets!Start
                     /\ k > 0 => w.at = s[k] /\ w.at # Assets!Start
LEMMA SeenSoFar ==
    ASSUME NEW s \in Seq(Listable), Once(s), NEW w \in Walks, Reached(s, w),
           NEW k \in 0..Len(s), StandsAt(w, s, k)
    PROVE  \A x \in w.steady : x \in Members(w.seen) <=> x \in {s[i] : i \in 1..k}
<1>1. CASE k = 0
  <2>1. w.at \notin Members(s)
    BY <1>1, ListsAssumption DEF Members, StandsAt
  <2>2. w.seen = <<>>
    BY <2>1 DEF Reached
  <2>3. Members(<<>>) = {} /\ 1..k = {}
    BY <1>1 DEF Members
  <2> QED  BY <2>2, <2>3
<1>2. CASE k > 0
  <2>1. k \in 1..Len(s) /\ w.at = s[k] /\ w.at # Assets!Start
    BY <1>2 DEF StandsAt
  <2>2. Through(s, w.at) = {s[i] : i \in 1..k}
    BY <2>1, ThroughPlace
  <2> QED  BY <2>1, <2>2 DEF Reached
<1> QED  BY <1>1, <1>2

Paged(w, s, k, e) == [w EXCEPT !.on = e < Len(s), !.at = IF e < Len(s) THEN s[e] ELSE @,
                               !.seen = @ \o SubSeq(s, k + 1, e)]
LEMMA WalkTakesPage ==
    ASSUME NEW s \in Seq(Listable), Once(s), NEW w \in Walks, WalkGoesOn(s, w), w.on = TRUE,
           NEW k \in 0..Len(s), StandsAt(w, s, k), NEW e \in k..Len(s), e < Len(s) => k < e
    PROVE  Paged(w, s, k, e) \in Walks /\ WalkGoesOn(s, Paged(w, s, k, e))
<1>0. PICK v : v = Paged(w, s, k, e)
  OBVIOUS
<1>1. PICK l \in Nat : l = Len(s)
  OBVIOUS
<1>2. PICK m \in 1..(l + 1) : m = k + 1
  BY <1>1
<1>3. DOMAIN s = 1..l /\ k \in 0..l /\ e \in k..l /\ e \in 0..l
  BY <1>1
<1>4. PICK b : b = SubSeq(s, m, e)
  OBVIOUS
<1>5. b \in Seq(Listable) /\ Members(b) = {s[i] : i \in m..e} /\ Once(b)
  <2>1. m \in 1..(Len(s) + 1) /\ e \in 0..Len(s) /\ m <= e + 1
    BY <1>1, <1>2, <1>3
  <2> QED  BY <1>4, <2>1, PieceLaw
<1>6. PICK a \in Seq(Listable) : a = w.seen
  BY DEF Walks
<1>7. PICK j : j = a \o b
  OBVIOUS
<1>8. /\ j \in Seq(Listable) /\ Members(j) = Members(a) \cup Members(b)
      /\ \A x : OnceAt(a, x) /\ OnceAt(b, x) /\ ~(x \in Members(a) /\ x \in Members(b))
                  => OnceAt(j, x)
  BY <1>5, <1>6, <1>7, JoinLaw
<1> DEFINE g == e < l
<1>9. g \in BOOLEAN /\ (g => e \in 1..l) /\ (~g => e = l)
  BY <1>1, <1>3
<1>10. PICK h : h = IF g THEN s[e] ELSE w.at
  OBVIOUS
<1>11. v = [w EXCEPT !.on = g, !.at = h, !.seen = j]
  BY <1>0, <1>1, <1>2, <1>4, <1>6, <1>7, <1>10 DEF Walks, Paged
<1> HIDE DEF g
<1>12. h \in Listable \cup {Assets!Start}
  BY <1>3, <1>9, <1>10 DEF Walks
<1>13. /\ v \in Walks /\ v.on = g /\ v.at = h /\ v.seen = j
       /\ v.steady = w.steady /\ v.broken = w.broken
  BY <1>8, <1>9, <1>11, <1>12 DEF Walks
<1>14. ASSUME v.broken = FALSE
       PROVE  /\ v.steady \subseteq Members(s)
              /\ \A x \in v.steady : OnceAt(v.seen, x)
              /\ IF v.on THEN Reached(s, v) ELSE v.steady \subseteq Members(v.seen)
  <2>1. /\ w.steady \subseteq Members(s) /\ Reached(s, w)
        /\ \A x \in w.steady : OnceAt(a, x)
    BY <1>6, <1>13, <1>14 DEF WalkGoesOn
  <2>2. \A x \in w.steady : x \in Members(a) <=> x \in {s[i] : i \in 1..k}
    BY <1>6, <2>1, SeenSoFar
  <2>3. /\ \A i \in 1..e : i \in 1..k \/ i \in m..e
        /\ \A i \in 1..k : i \in 1..e /\ i \in 1..l /\ i \notin m..e
        /\ \A i \in m..e : i \in 1..e /\ i \in 1..l
    BY <1>1, <1>2, <1>3
  <2>4. ASSUME NEW x \in w.steady
        PROVE  x \in Members(j) <=> x \in {s[i] : i \in 1..e}
    BY <1>5, <1>8, <2>2, <2>3
  <2>5. ASSUME NEW x \in w.steady
        PROVE  OnceAt(j, x)
    <3>1. ~(x \in Members(a) /\ x \in Members(b))
      <4> SUFFICES ASSUME x \in Members(a), x \in Members(b)
                   PROVE  FALSE
        OBVIOUS
      <4>1. PICK p \in 1..k : x = s[p]
        BY <2>2
      <4>2. PICK q \in m..e : x = s[q]
        BY <1>5
      <4>3. p = q
        BY <1>3, <2>3, <4>1, <4>2 DEF Once
      <4> QED  BY <2>3, <4>3
    <3>2. OnceAt(b, x)
      BY <1>5 DEF Once, OnceAt
    <3> QED  BY <1>8, <2>1, <3>1, <3>2
  <2>6. CASE g
    <3>1. e \in 1..Len(s) /\ h = s[e]
      BY <1>1, <1>9, <1>10, <2>6
    <3>2. Through(s, h) = {s[i] : i \in 1..e}
      BY <3>1, ThroughPlace
    <3>3. h \in Members(s)
      BY <3>1 DEF Members
    <3>4. Reached(s, v)
      BY <1>13, <2>4, <3>2, <3>3 DEF Reached
    <3> QED  BY <1>13, <2>1, <2>5, <2>6, <3>4
  <2>7. CASE ~g
    <3>1. e = l
      BY <1>9, <2>7
    <3>2. Members(s) = {s[i] : i \in 1..e}
      BY <1>3, <3>1 DEF Members
    <3>3. w.steady \subseteq Members(j)
      BY <2>1, <2>4, <3>2
    <3> QED  BY <1>13, <2>1, <2>5, <2>7, <3>3
  <2> QED  BY <2>6, <2>7
<1> QED  BY <1>0, <1>13, <1>14 DEF WalkGoesOn

LEMMA LesserOfTwo == \A x, y \in Int : Assets!Min({x, y}) = IF x <= y THEN x ELSE y
<1> TAKE x, y \in Int
<1>1. \E m \in {x, y} : \A n \in {x, y} : m <= n
  OBVIOUS
<1>2. PICK m : m = Assets!Min({x, y})
  OBVIOUS
<1>3. m \in {x, y} /\ m <= x /\ m <= y
  BY <1>1, <1>2 DEF Assets!Min
<1> QED  BY <1>2, <1>3

LEMMA PageStep ==
    ASSUME AssetsListed, NEW limit \in PageSizes, Assets!assets_paginated(limit)
    PROVE  AssetsListed'
<1>1. /\ walk.on /\ limit > 0
      /\ walk' = IF Assets!PageFrom(walk.at) = 0 THEN Assets!Idle
                 ELSE Assets!TakePage(Assets!PageFrom(walk.at), limit)
      /\ UNCHANGED <<listed, flagged, indexed>>
  BY DEF Assets!assets_paginated
<1>2. CASE Assets!PageFrom(walk.at) = 0
  <2>1. walk' = Assets!Idle
    BY <1>1, <1>2
  <2> QED  BY <1>1, <2>1, IdleWalk DEF AssetsListed
<1>3. CASE Assets!PageFrom(walk.at) # 0
  <2>1. PICK s \in Seq(Listable) : s = listed /\ Once(s)
    BY DEF AssetsListed, Lists
  <2>2. PICK k \in 0..Len(s) : Assets!PageFrom(walk.at) = k + 1 /\ StandsAt(walk, s, k)
    BY <1>3, <2>1, PlaceOfCursor DEF StandsAt
  <2>3. PICK l \in Nat : l = Len(s)
    OBVIOUS
  <2>4. limit \in Nat /\ limit > 0
    BY <1>1, ListsAssumption
  <2>5. PICK e : e = Assets!Min({(k + 1) + (limit - 1), l})
    OBVIOUS
  <2>6. e = IF (k + 1) + (limit - 1) <= l THEN (k + 1) + (limit - 1) ELSE l
    <3>1. (k + 1) + (limit - 1) \in Int /\ l \in Int
      BY <2>4
    <3> QED  BY <2>5, <3>1, LesserOfTwo
  <2>7. e \in k..Len(s) /\ (e < Len(s) => k < e)
    BY <2>3, <2>4, <2>6
  <2>8. PICK b : b = SubSeq(s, k + 1, e)
    OBVIOUS
  <2>9. e < l => Assets!Last(b) = s[e]
    <3> SUFFICES ASSUME e < l
                 PROVE  b[Len(b)] = s[e]
      BY DEF Assets!Last
    <3>1. PICK m \in 1..(Len(s) + 1) : m = k + 1
      BY <2>3
    <3>2. m \in 1..(Len(s) + 1) /\ e \in 0..Len(s) /\ m <= e + 1 /\ m <= e
      BY <2>3, <2>7, <3>1
    <3>3. Len(b) = (e - m) + 1 /\ \A i \in 1..((e - m) + 1) : b[i] = s[(m + i) - 1]
      BY <2>8, <3>1, <3>2, PieceLaw
    <3>4. (e - m) + 1 \in 1..((e - m) + 1) /\ (m + ((e - m) + 1)) - 1 = e
      BY <2>3, <3>2
    <3> QED  BY <3>3, <3>4
  <2>10. walk' = Paged(walk, s, k, e)
    <3>1. PICK f : f = k + 1
      OBVIOUS
    <3>2. walk' = Assets!TakePage(f, limit) /\ e = Assets!PageEnd(f, limit)
      <4>1. walk' = Assets!TakePage(f, limit)
        BY <1>1, <1>3, <2>2, <3>1
      <4>2. Assets!PageEnd(f, limit) = Assets!Min({(k + 1) + (limit - 1), l})
        BY <2>1, <2>3, <3>1, Zenon DEF Assets!PageEnd
      <4> QED  BY <2>5, <4>1, <4>2, Zenon
    <3>3. PICK h : h = IF e < l THEN Assets!Last(b) ELSE walk.at
      OBVIOUS
    <3>4. walk' = [walk EXCEPT !.on = e < l, !.at = h, !.seen = @ \o b]
      BY <2>1, <2>3, <2>8, <3>1, <3>2, <3>3 DEF Assets!TakePage
    <3>5. h = IF e < l THEN s[e] ELSE walk.at
      BY <2>9, <3>3
    <3>6. Paged(walk, s, k, e) = [walk EXCEPT !.on = e < l, !.at = h, !.seen = @ \o b]
      BY <2>3, <2>8, <3>5 DEF Paged
    <3> QED  BY <3>4, <3>6
  <2>11. walk \in Walks /\ WalkGoesOn(s, walk) /\ walk.on = TRUE
    BY <1>1, <2>1 DEF AssetsListed, Walks
  <2>12. walk' \in Walks /\ WalkGoesOn(s, walk')
    BY <2>1, <2>2, <2>7, <2>10, <2>11, WalkTakesPage
  <2> QED  BY <1>1, <2>1, <2>12 DEF AssetsListed
<1> QED  BY <1>2, <1>3

LEMMA AssetStep ==
    ASSUME AssetsListed, [Assets!Next]_avars
    PROVE  AssetsListed'
<1>1. ASSUME NEW a \in Listable, Assets!register_asset(a)
      PROVE  AssetsListed'
  <2>1. /\ a \notin flagged /\ flagged' = flagged \cup {a} /\ indexed' = indexed \cup {a}
        /\ listed' = Append(listed, a) /\ UNCHANGED walk
    BY <1>1 DEF Assets!register_asset
  <2>2. Lists(listed', Listable, flagged')
    BY <2>1, ListsWith DEF AssetsListed
  <2>3. WalkGoesOn(listed', walk)
    BY <2>1, WalkMeetsNewcomer DEF AssetsListed
  <2> QED  BY <2>1, <2>2, <2>3 DEF AssetsListed
<1>2. ASSUME NEW a \in Listable, Assets!unregister_asset(a)
      PROVE  AssetsListed'
  <2>1. /\ flagged' = flagged \ {a} /\ indexed' = indexed \ {a}
        /\ listed' = Filtered(listed, {a})
        /\ walk' = Bereft(walk, a)
    BY <1>2, Copies DEF Assets!unregister_asset, Assets!unindex, Bereft
  <2>2. Lists(listed', Listable, flagged')
    BY <2>1, ListsWithout DEF AssetsListed
  <2>3. Lists(listed, Listable, flagged) /\ walk \in Walks /\ WalkGoesOn(listed, walk)
    BY DEF AssetsListed
  <2>4. walk' \in Walks /\ WalkGoesOn(listed', walk')
    BY <2>1, <2>3, WalkMeetsRemoval
  <2> QED  BY <2>1, <2>2, <2>4 DEF AssetsListed
<1>3. ASSUME NEW a, Assets!check_registered_asset(a) \/ Assets!publish_aggregate(a)
      PROVE  AssetsListed'
  <2>1. /\ a \in indexed \/ a \in flagged
        /\ indexed' = indexed \cup {a}
        /\ UNCHANGED <<listed, flagged, walk>>
    BY <1>3 DEF Assets!check_registered_asset, Assets!publish_aggregate,
         Assets!is_asset_registered
  <2>2. indexed' \subseteq flagged
    BY <2>1 DEF AssetsListed
  <2> QED  BY <2>1, <2>2 DEF AssetsListed
<1>4. CASE Assets!begin_walk
  <2>1. /\ walk' = [Assets!Idle EXCEPT !.on = TRUE, !.steady = Assets!ToSet(listed)]
        /\ UNCHANGED <<listed, flagged, indexed>>
    BY <1>4 DEF Assets!begin_walk
  <2>2. PICK M : M = Members(listed) /\ M \subseteq Listable
    <3>1. listed \in Seq(Listable)
      BY DEF AssetsListed, Lists
    <3>2. Members(listed) \subseteq Listable
      BY <3>1 DEF Members
    <3> QED  BY <3>2
  <2>3. walk' = [on |-> TRUE, at |-> Assets!Start, seen |-> <<>>, steady |-> M, broken |-> FALSE]
    BY <2>1, <2>2 DEF Assets!Idle, Assets!ToSet, Members
  <2>4. walk' \in Walks
    BY <2>2, <2>3 DEF Walks
  <2>5. WalkGoesOn(listed, walk')
    BY <2>2, <2>3 DEF WalkGoesOn, Reached, OnceAt
  <2> QED  BY <2>1, <2>4, <2>5 DEF AssetsListed
<1>5. ASSUME UNCHANGED <<listed, flagged, indexed, walk>>
      PROVE  AssetsListed'
  BY <1>5 DEF AssetsListed
<1>6. CASE UNCHANGED avars
  BY <1>5, <1>6 DEF avars
<1>7. CASE Assets!Next
  BY <1>1, <1>2, <1>3, <1>4, <1>5, <1>7, PageStep DEF Assets!Next, Assets!set_max_assets,
       Assets!recompute_asset_price, Assets!migrate_storage
<1> QED  BY <1>6, <1>7

\* A member that is named at most once is counted at most once.
LEMMA CountedOnce ==
    ASSUME NEW s, NEW x, OnceAt(s, x)
    PROVE  Assets!Cardinality({i \in DOMAIN s : s[i] = x}) <= 1
<1>1. PICK I : I = {i \in DOMAIN s : s[i] = x}
  OBVIOUS
<1>2. Assets!Cardinality(I) = Cardinality(I)
  BY Zenon DEF Assets!Cardinality, Cardinality
<1>3. CASE I = {}
  BY <1>1, <1>2, <1>3, FS_EmptySet
<1>4. CASE I # {}
  <2>1. PICK i : i \in I
    BY <1>4
  <2>2. I = {i}
    BY <1>1, <2>1 DEF OnceAt
  <2>3. Cardinality(I) = 1
    BY <2>2, FS_Singleton
  <2> QED  BY <1>1, <1>2, <2>3
<1> QED  BY <1>3, <1>4

\* asset_registry.rs:125, assets.rs:31-98, price_callback.rs, rbac.rs:162 and
\* sources.rs.  Whatever the order of entering, leaving, coming back and being
\* renamed, each list names exactly the members of the flag it stands beside,
\* once each; and a walk over the pages of the assets that ends has returned
\* those that stayed, once each, however the list changed around it.
THEOREM ListsAreExact == Spec => []ListsExact
<1> DEFINE Inv == MappingsListed /\ AssetsListed /\ ConsumersListed /\ HoldersListed /\ SourcesListed
<1>1. Init => Inv
  <2>1. Bridge!Init => MappingsListed
    <3> SUFFICES ASSUME Bridge!Init
                 PROVE  MappingsListed
      OBVIOUS
    <3>1. /\ mapping = <<>> /\ DOMAIN mapping = {} /\ registry = <<>>
          /\ by_asset = [a \in LocalAssets |-> <<>>]
      BY DEF Bridge!Init
    <3>2. \A a \in LocalAssets : Mapped(a) = {}
      BY <3>1 DEF Mapped
    <3>3. mapping \in [DOMAIN mapping -> [asset : LocalAssets, enabled : BOOLEAN]]
      BY <3>1
    <3> QED  BY <3>1, <3>2, <3>3, EmptyLists DEF MappingsListed
  <2>2. Assets!Init => AssetsListed
    <3> SUFFICES ASSUME Assets!Init
                 PROVE  AssetsListed
      OBVIOUS
    <3>1. /\ listed = LegacyAssets /\ flagged = Members(LegacyAssets)
          /\ indexed = {} /\ walk = Assets!Idle
      BY DEF Assets!Init, Assets!ToSet, Members
    <3>2. Once(LegacyAssets)
      BY ListsAssumption DEF Once, Assets!IsInjective
    <3>3. Lists(listed, Listable, flagged)
      BY <3>1, <3>2, ListsAssumption DEF Lists
    <3> QED  BY <3>1, <3>3, IdleWalk DEF AssetsListed
  <2>3. Delivery!Init => ConsumersListed
    <3>1. Members(<<>>) = {} /\ Len(<<>>) <= MaxCallbacks
      BY ListsAssumption DEF Members
    <3> QED  BY <3>1, EmptyLists DEF Delivery!Init, ConsumersListed
  <2>4. Access!Init => HoldersListed
    <3>1. Access!Init => \A r \in Roles : Holding(r) = {}
      BY DEF Access!Init, Holding
    <3> QED  BY <3>1, EmptyLists DEF Access!Init, HoldersListed
  <2>5. Admission!Init => SourcesListed
    BY EmptyLists DEF Admission!Init, SourcesListed
  <2> QED  BY <2>1, <2>2, <2>3, <2>4, <2>5 DEF Init
<1>2. Inv /\ [Next]_vars => Inv'
  BY StepsOfParts, MappingStep, AssetStep, ConsumerStep, HolderStep, RosterStep
<1>3. Inv => ListsExact
  <2>1. MappingsListed => Bridge!RegistryExact
    BY DEF MappingsListed, Lists, Mapped, Once, Members, Bridge!RegistryExact, Bridge!ToSet,
         Bridge!IsInjective
  <2>2. AssetsListed => Assets!RegistryViewsAgree
    BY DEF AssetsListed, Lists, Once, Members, Assets!RegistryViewsAgree, Assets!ToSet,
         Assets!IsInjective
  <2>3. AssetsListed => Assets!PagesComplete
    <3> SUFFICES ASSUME AssetsListed, ~walk.broken
                 PROVE  /\ ~walk.on => walk.steady \subseteq Assets!ToSet(walk.seen)
                        /\ \A x \in walk.steady :
                             Assets!Cardinality({i \in DOMAIN walk.seen : walk.seen[i] = x}) <= 1
      BY DEF Assets!PagesComplete
    <3>1. walk.broken = FALSE /\ walk.on \in BOOLEAN
      BY DEF AssetsListed, Walks
    <3>2. /\ \A x \in walk.steady : OnceAt(walk.seen, x)
          /\ ~walk.on => walk.steady \subseteq Members(walk.seen)
      BY <3>1 DEF AssetsListed, WalkGoesOn
    <3> QED  BY <3>2, CountedOnce DEF Assets!ToSet, Members
  <2>4. ConsumersListed => Delivery!DeliveryListsExact
    BY DEF ConsumersListed, Lists, Once, Members, Delivery!DeliveryListsExact, Delivery!ToSet,
         Delivery!IsInjective
  <2>5. HoldersListed => Access!HoldersExact
    <3> SUFFICES ASSUME HoldersListed, NEW r \in Roles
                 PROVE  /\ Access!IsInjective(holders[r])
                        /\ Access!ToSet(holders[r]) = Holding(r)
                        /\ \A a \in Accounts \ {owner} :
                             r \in Access!get_address_roles(a) <=> a \in Access!ToSet(holders[r])
      BY DEF Access!HoldersExact, Holding
    <3>1. Access!IsInjective(holders[r]) /\ Access!ToSet(holders[r]) = Holding(r)
      BY DEF HoldersListed, Lists, Once, Members, Access!ToSet, Access!IsInjective
    <3> QED  BY <3>1 DEF Holding, Access!get_address_roles
  <2>6. SourcesListed => Admission!RegistryExact
    BY DEF SourcesListed, Lists, Once, Members, Admission!RegistryExact, Admission!ToSet,
         Admission!IsInjective
  <2> QED  BY <2>1, <2>2, <2>3, <2>4, <2>5, <2>6 DEF ListsExact
<1> QED  BY <1>1, <1>2, <1>3, PTL DEF Spec

=============================================================================
