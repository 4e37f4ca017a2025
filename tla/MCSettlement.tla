---------------------------- MODULE MCSettlement ----------------------------
(***************************************************************************)
(* The parts that hold bonds, deposits, fees and payments, model-checked   *)
(* together.  They share no state but the rewards of the challengers, so   *)
(* the run picks the part it exercises once, in the initial state.         *)
(***************************************************************************)
EXTENDS Integers, FiniteSets

CONSTANTS OptPrices, OptBonds, Windows, MaxDispute, MaxProposals
CONSTANTS Relayers, Challengers, Sources, Bonds, SlashPercents, Wallet, Nonces,
          Lifetimes, Fees, MaxFailures, MaxSubmissions, MaxLegs
CONSTANTS ChallengedAssets, Expected, PerChallenger, PerAsset, MaxStrikes, MaxChallenges
CONSTANTS ChannelSources, Keys, ChannelTokens, Deposits, MaxNonce, Timeout
CONSTANTS FeeSources, Amounts, Stamps, Ratios, MaxProcess, MaxEnqueued
CONSTANTS Durations, PlanPrices, Ceilings, Periods, RenewalNonces, Allowance, MaxTime

ASSUME SettlementAssumption ==
    /\ Windows \subseteq Int /\ MaxDispute \in Int
    /\ IsFiniteSet(Relayers) /\ Bonds \subseteq Int /\ SlashPercents \subseteq Int
    /\ Expected \subseteq Int
    /\ IsFiniteSet(ChannelSources) /\ Deposits \subseteq Int /\ MaxNonce \in Nat /\ Timeout \in Int
    /\ IsFiniteSet(FeeSources) /\ MaxProcess \in Nat
    /\ Amounts \subseteq Int /\ Stamps \subseteq Int /\ Ratios \subseteq Int
    /\ Durations \subseteq Int /\ PlanPrices \subseteq Int /\ Ceilings \subseteq Int
    /\ Periods \subseteq Int /\ RenewalNonces \subseteq Int

VARIABLES focus,
    proposals, window, min_bond, aggregate, snapshots,
    approved, registry, delegation, nonce, required, bond, failures, percent,
    threshold, flat_fee, rate, account, treasury, wallet, held, rewards,
    challenges, open_by, open_on, strikes,
    channel, signer, escrow, accepted,
    queue, pool, balance, fm_treasury, min_fee, ratio, active, enqueued,
    clock, plans, expiry, payment, mandate, auths, spent, allowance, pulled, agreed

Optimistic == INSTANCE OptimisticPrices
Relay == INSTANCE RelayerNetwork
Channel == INSTANCE StateChannels
Subscribe == INSTANCE Subscriptions

ovars == <<proposals, window, min_bond, aggregate, snapshots>>
relayer == <<approved, registry, delegation, nonce, required, bond, failures, percent,
             threshold, flat_fee, rate, account, treasury, wallet, held>>
cvars == <<challenges, open_by, open_on, strikes>>
scvars == <<channel, signer, escrow, accepted>>
fvars == <<queue, pool, balance, fm_treasury, min_fee, ratio, active, enqueued>>
svars == <<clock, plans, expiry, payment, mandate, auths, spent, allowance, pulled, agreed>>
vars == <<focus, ovars, relayer, rewards, cvars, scvars, fvars, svars>>

Init ==
    /\ focus \in {"optimistic", "relay", "challenge", "channel", "market", "subscribe"}
    /\ Optimistic!Init /\ Relay!Init /\ Channel!Init /\ Subscribe!Init

OptimisticSteps ==
    /\ focus = "optimistic" /\ UNCHANGED focus
    /\ Optimistic!Next
    /\ UNCHANGED <<relayer, rewards, cvars, scvars, fvars, svars>>
RelaySteps ==
    /\ focus = "relay" /\ UNCHANGED focus
    /\ Relay!RelayerCalls
    /\ UNCHANGED <<ovars, cvars, scvars, fvars, svars>>
ChallengeSteps ==
    /\ focus = "challenge" /\ UNCHANGED focus
    /\ Relay!ChallengeCalls
    /\ UNCHANGED <<ovars, relayer, scvars, fvars, svars>>
ChannelSteps ==
    /\ focus = "channel" /\ UNCHANGED focus
    /\ Channel!Next
    /\ UNCHANGED <<ovars, relayer, rewards, cvars, fvars, svars>>
MarketSteps ==
    /\ focus = "market" /\ UNCHANGED focus
    /\ Subscribe!MarketCalls
    /\ UNCHANGED <<ovars, relayer, rewards, cvars, scvars, svars>>
SubscribeSteps ==
    /\ focus = "subscribe" /\ UNCHANGED focus
    /\ Subscribe!ConsumerCalls
    /\ UNCHANGED <<ovars, relayer, rewards, cvars, scvars, fvars>>
Next ==
    \/ OptimisticSteps
    \/ RelaySteps
    \/ ChallengeSteps
    \/ ChannelSteps
    \/ MarketSteps
    \/ SubscribeSteps

Spec == Init /\ [][Next]_vars /\ Optimistic!Fairness

\* Every proposal is settled in the end (OptimisticPrices).
ProposalsSettle == Optimistic!ProposalsSettle
\* Every book agrees with what it stands for: the tokens held are the relayer
\* bonds and the treasury, the counters the caps read count the open challenges
\* (RelayerNetwork), deposits are backed and the newest state is stored
\* (StateChannels), every fee is accounted for (Subscriptions), and a proposal
\* wrote the price exactly when its outcome is approval (OptimisticPrices).
BooksExact == /\ Optimistic!SettledOnce
              /\ Relay!BondsBacked
              /\ Relay!OpenCountsExact
              /\ Channel!ChannelsSound
              /\ Subscribe!FeesAccounted
\* Renewals stay within what the consumer agreed to (Subscriptions).
RenewalsBounded == Subscribe!RenewalsBounded

=============================================================================
