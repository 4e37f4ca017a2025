------------------------- MODULE MCConsensusRounds -------------------------
(***************************************************************************)
(* Two ways from the sources' prices to one price, model-checked together: *)
(* the confirmation by rounds of votes (ConsensusRounds) and one round of  *)
(* aggregation under its policies and filters (AggregationPolicy).  They   *)
(* share no state, so the run picks the part it exercises once, in the     *)
(* initial state.                                                          *)
(***************************************************************************)
EXTENDS ConsensusRounds, TLC

CONSTANTS s1, s2, s3

CONSTANTS Reporters, Suspect, Offers, Volume, Methods, MinQuorums, Overrides, RiskTiers,
          FreshWindows, OutlierConfigs, FreshnessCurves, InfluenceCaps, Tolerances,
          Period, LastInstant, MaxSettings

VARIABLES focus, instant, submitted, setting, calls, result, exclusions, freshness

Config(n, q, bps) ==
    [required_rounds |-> n, quorum |-> q, round_ledgers |-> 1, agreement_bps |-> bps]

MCdisabled == Config(1, 1, 100)
RoundsConfigs == {Config(1, 3, 100), Config(2, 1, 100)}

Symmetry == Permutations(Sources \ Faulty)

\* AggregationPolicy: three honest reporters that nearly agree, and a suspect.
MCOffers == [a |-> {1000}, b |-> {1000, 1010}, c |-> {1010}, d |-> {600, 1400}]
MCVolume == [a |-> 0, b |-> 1, c |-> 2, d |-> 3]
MCOverrides == {[freshness_secs |-> 100], [min_sources |-> 3, method |-> 4],
                [max_deviation_bps |-> 100, method |-> 3]}
MCOutlierConfigs == {[detector |-> "mad", sensitivity_bps |-> 35000, min_sources |-> 4],
                     [detector |-> "iqr", sensitivity_bps |-> 5000, min_sources |-> 4]}
MCFreshnessCurves == {[window_secs |-> 150, min_weight |-> 1]}

\* There are finitely many sources, prices are positive, and volumes, times
\* and settings are unsigned.
ASSUME PolicyAssumption ==
    /\ IsFiniteSet(Reporters)
    /\ \A r \in Reporters : Offers[r] \subseteq Nat \ {0}
    /\ Volume \in [Reporters -> Nat]
    /\ Period \in Nat /\ Tolerances \subseteq Nat

Policy == INSTANCE AggregationPolicy

pvars == <<instant, submitted, setting, calls, result, exclusions, freshness>>

BothInit == focus \in {"rounds", "policy"} /\ Init /\ Policy!Init

RoundSteps ==
    /\ focus = "rounds" /\ UNCHANGED focus
    /\ Next
    /\ UNCHANGED pvars
PolicySteps ==
    /\ focus = "policy" /\ UNCHANGED focus
    /\ Policy!Next
    /\ UNCHANGED vars
BothNext ==
    \/ RoundSteps
    \/ PolicySteps

BothSpec == BothInit /\ [][BothNext]_<<focus, vars, pvars>>

\* One source does not decide the price of a round of three, no weight is above
\* the influence cap, and the views of a round tell its result
\* (AggregationPolicy).
AggregateBounded == focus = "policy" => Policy!AggregateBounded

=============================================================================
