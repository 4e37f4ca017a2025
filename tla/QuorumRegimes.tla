--------------------------- MODULE QuorumRegimes ---------------------------
(***************************************************************************)
(* The quorum that follows volatility (adaptive_quorum.rs), for one asset. *)
(* Anybody may report an observation; the mean absolute return over a      *)
(* window selects a bucket and the bucket a quorum.  The stored regime     *)
(* tightens at once and relaxes only after several calmer observations.    *)
(***************************************************************************)
EXTENDS Integers, Sequences, SequencesExt, FiniteSetsExt

CONSTANTS
    Observed,       \* prices that may be reported, zero included
    QuorumConfigs,  \* VolatilityBuckets the admin may install
    DefaultBuckets, \* the one used until then
    QuorumRounds    \* round numbers that may be pinned

VARIABLES
    vlast,    \* VolatilityLastPrice, -1 when absent
    returns,  \* VolatilityWindow, basis points
    buckets,  \* AdaptiveQuorumConfig
    regime,   \* AdaptiveQuorumState: [bucket, streak], bucket -1 when absent
    pinned,   \* AdaptiveQuorumRound: round -> quorum, 0 when absent
    settled   \* ghost: the last observation was classified, under this configuration

qvars == <<vlast, returns, buckets, regime, pinned, settled>>

BPS == 10000

ValidBuckets(c) ==
    /\ Len(c.boundaries) > 0
    /\ Len(c.quorums) = Len(c.boundaries) + 1
    /\ \A i \in 1..Len(c.quorums) : c.quorums[i] # 0
    /\ \A i \in 2..Len(c.boundaries) : c.boundaries[i - 1] < c.boundaries[i]
    /\ c.window # 0 /\ c.min_samples # 0

set_adaptive_quorum_config(c) ==
    /\ ValidBuckets(c)
    /\ buckets' = c
    /\ settled' = FALSE
    /\ UNCHANGED <<vlast, returns, regime, pinned>>

bucket_of(c, bps) ==
    LET above == {i \in 1..Len(c.boundaries) : bps < c.boundaries[i]} IN
    IF above = {} THEN Len(c.boundaries) ELSE Min(above) - 1

mean_abs_return(s) == IF s = <<>> THEN 0 ELSE FoldLeft(+, 0, s) \div Len(s)

quorum_of(c, bucket) == c.quorums[Min({bucket, Len(c.quorums) - 1}) + 1]

Return(prev, price) == ((IF price >= prev THEN price - prev ELSE prev - price) * BPS) \div prev

\* The window after the observation: the newest entries of it, and no new one
\* next to a price that is not positive.
Observe(price) ==
    LET s == Append(returns, Return(vlast, price)) IN
    IF vlast > 0 /\ price > 0
    THEN SubSeq(s, Max({1, Len(s) - buckets.window + 1}), Len(s))
    ELSE returns

DampedBothWays(from, streak, target) ==   \* slip: tightening waits as well
    IF target = from \/ streak + 1 >= buckets.relax_after
    THEN [bucket |-> target, streak |-> 0]
    ELSE [bucket |-> from, streak |-> streak + 1]
\* The damped transition: up at once, down on the relax_after-th lower reading.
Damped(from, streak, target) ==
    IF target >= from \/ streak + 1 >= buckets.relax_after
    THEN [bucket |-> target, streak |-> 0]
    ELSE [bucket |-> from, streak |-> streak + 1]

classify(s) ==
    LET target == bucket_of(buckets, mean_abs_return(s))
        from == IF regime.bucket = -1 THEN target ELSE regime.bucket
        next == Damped(from, regime.streak, target)
    IN /\ settled' = ~(Len(s) < buckets.min_samples)
       /\ regime' = IF Len(s) < buckets.min_samples THEN regime ELSE next

observe_volatility(price) ==
    /\ returns' = Observe(price)
    /\ vlast' = price
    /\ classify(returns')
    /\ UNCHANGED <<buckets, pinned>>

\* What the readers report: the bucket of the window itself, not the damped one.
get_regime == IF Len(returns) < buckets.min_samples THEN 0
              ELSE bucket_of(buckets, mean_abs_return(returns))

effective_quorum == quorum_of(buckets, get_regime)

\* A round may be pinned again, and before or after it runs.
pin_round_quorum(r) ==
    /\ Len(returns) >= buckets.min_samples
    /\ pinned' = [pinned EXCEPT ![r] = effective_quorum]
    /\ UNCHANGED <<vlast, returns, buckets, regime, settled>>

Init ==
    /\ vlast = -1 /\ returns = <<>>
    /\ buckets = DefaultBuckets
    /\ regime = [bucket |-> -1, streak |-> 0]
    /\ pinned = [r \in QuorumRounds |-> 0]
    /\ settled = FALSE

Next ==
    \/ \E p \in Observed : observe_volatility(p)
    \/ \E c \in QuorumConfigs : set_adaptive_quorum_config(c)
    \/ \E r \in QuorumRounds : pin_round_quorum(r)

Spec == Init /\ [][Next]_qvars

\* How far the quorum that is read and the damped regime part.  get_regime,
\* effective_quorum and pin_round_quorum classify the window itself
\* (adaptive_quorum.rs:285-350), so a single calm report relaxes what they
\* return, whatever adaptive_quorum.rs:34-38 says.  Under one configuration the
\* stored regime is never the laxer of the two, and it is the stricter one for
\* fewer than relax_after observations (adaptive_quorum.rs:248), through bursts,
\* reports that add nothing to the window and changes of the configuration.
DampingBounded ==
    settled => \/ get_regime = regime.bucket
               \/ get_regime < regime.bucket /\ regime.streak \in 1..(buckets.relax_after - 1)

\* A round's pinned quorum does not move (adaptive_quorum.rs:333-337); the
\* code pins a round as often as it is asked to.
PinnedQuorumStands ==
    [][\A r \in QuorumRounds : pinned[r] # 0 => pinned'[r] = pinned[r]]_qvars

=============================================================================
