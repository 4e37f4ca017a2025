--------------------------- MODULE RelayerNetwork ---------------------------
(***************************************************************************)
(* Relayers submit prices for sources (relayer.rs) against a bond that the *)
(* admin slashes for recorded failures and a challenger for a submission   *)
(* without authority (relayer_bonds.rs).  The price path behind a relayed  *)
(* leg is PriceOracle's; here a leg is accepted, stopped by the circuit    *)
(* breaker or rejected, and the accounts of the relayer follow.            *)
(*                                                                         *)
(* Challenges to published prices (challenger.rs) credit the same rewards. *)
(* Anybody with fewer than three strikes may dispute a price; the admin    *)
(* rules on it.  The caps on open challenges read two counters that are    *)
(* kept apart from the challenges themselves.                              *)
(***************************************************************************)
EXTENDS Integers, Sequences, FiniteSets, FiniteSetsExt, SequencesExt

CONSTANTS
    Relayers, Challengers,
    Sources,           \* registered sources, each with a submission key
    Bonds,             \* values of the required bond; 0 asks for none
    SlashPercents,     \* values of the slash percentage
    Wallet,            \* tokens a relayer owns at the start
    Nonces,            \* nonces a source may sign
    Lifetimes,         \* ledgers a signed delegation may last
    Fees,              \* flat and priority fees
    MaxFailures,       \* bound on the recorded failures
    MaxSubmissions,    \* bound on the counted submissions
    MaxLegs            \* MAX_BATCH_SIZE

CONSTANTS
    ChallengedAssets,
    Expected,        \* expected prices a challenge may state
    PerChallenger,   \* MAX_OPEN_CHALLENGES_PER_CHALLENGER
    PerAsset,        \* MAX_OPEN_CHALLENGES_PER_ASSET
    MaxStrikes,      \* MAX_CHALLENGER_STRIKES
    MaxChallenges    \* bound on the number of challenges

VARIABLES
    approved,      \* ApprovedRelayer
    registry,      \* RelayerRegistry, which keeps the relayers ever added
    delegation,    \* SourceRelayerDelegation: source -> relayer -> ledgers left, -1 when none
    nonce,         \* SourceRelayerDelegationNonce
    required,      \* RelayerBondAmount
    bond,          \* RelayerBond
    failures,      \* RelayerFailureCount
    percent,       \* RelayerSlashPercent
    threshold,     \* RelayerFailureThreshold
    flat_fee,      \* RelayerFeePerSubmission
    rate,          \* RelayerRewardRate
    account,       \* RelayerSubmissionCount, RelayerFeeBalance, RelayerRewardBalance
    treasury,      \* TreasuryBalance
    wallet,        \* token balances of the relayers
    held,          \* token balance of the contract
    rewards        \* ChallengerRewards

VARIABLES
    challenges,   \* Challenge: id -> record
    open_by,      \* ChallengerOpenCount
    open_on,      \* AssetOpenChallenges
    strikes       \* ChallengerStrikes

config == <<required, percent, threshold, flat_fee, rate>>
authority == <<approved, registry, delegation, nonce>>
money == <<bond, treasury, wallet, held>>
rvars == <<config, authority, money, failures, account>>
cvars == <<challenges, open_by, open_on, strikes>>

is_relayer(r) == r \in approved
has_valid_relayer_delegation(s, r) == delegation[s][r] >= 0
Authorised(s, r) == is_relayer(r) \/ has_valid_relayer_delegation(s, r)

(***************************************************************************)
(* Approval and delegation.                                                *)
(***************************************************************************)
add_relayer(r) ==
    /\ r \notin approved
    /\ approved' = approved \cup {r}
    /\ registry' = registry \cup {r}
    /\ UNCHANGED <<delegation, nonce, config, money, failures, account, rewards>>

remove_relayer(r) ==
    /\ r \in approved
    /\ approved' = approved \ {r}
    /\ UNCHANGED <<registry, delegation, nonce, config, money, failures, account, rewards>>

\* The signature covers the network, the contract, the pair, the nonce and the
\* expiry, so a message stands for exactly one delegation.
delegate_relayer(s, r, n, life) ==
    /\ n > nonce[s]
    /\ delegation' = [delegation EXCEPT ![s][r] = life]
    /\ nonce' = [nonce EXCEPT ![s] = n]
    /\ UNCHANGED <<approved, registry, config, money, failures, account, rewards>>

(***************************************************************************)
(* Relayed submissions.                                                    *)
(***************************************************************************)
\* A leg is let through to the price path.
LegAllowed(r, s) == Authorised(s, r) /\ (required > 0 => bond[r] >= required)

accrue_relayer_reward(r, subs) ==
    IF rate <= 0 THEN 0
    ELSE (rate * ((subs * 10000) \div (subs + failures[r]))) \div 10000

accrue_relayer_submission_metrics(a, r, fee) ==
    LET subs == a.subs + 1 IN
    [subs |-> subs, fees |-> a.fees + flat_fee + fee,
     reward |-> a.reward + accrue_relayer_reward(r, subs)]

\* Legs are processed in order; one the breaker stops earns nothing, one that
\* is rejected undoes the batch.
submit_prices_relayed(r, legs) ==
    /\ Len(legs) \in 1..MaxLegs
    /\ \A i \in 2..Len(legs) : legs[i].fee <= legs[i - 1].fee
    /\ \A i \in 1..Len(legs) : LegAllowed(r, legs[i].source)
    /\ account[r].subs + Len(legs) <= MaxSubmissions
    /\ account' = [account EXCEPT ![r] =
          FoldLeft(LAMBDA a, leg : IF leg.tripped THEN a
                                   ELSE accrue_relayer_submission_metrics(a, r, leg.fee),
                   @, legs)]
    /\ UNCHANGED <<config, authority, money, failures, rewards>>

submit_price_relayed(r, s, tripped) ==
    submit_prices_relayed(r, <<[source |-> s, fee |-> 0, tripped |-> tripped]>>)

(***************************************************************************)
(* Bonds.                                                                  *)
(***************************************************************************)
Missing(r) == required - bond[r]

deposit_relayer_bondAdds(r) ==
    /\ r \in approved
    /\ Missing(r) > 0
    /\ wallet[r] >= Missing(r)
    /\ wallet' = [wallet EXCEPT ![r] = @ - Missing(r)]
    /\ held' = held + Missing(r)
    /\ bond' = [bond EXCEPT ![r] = @ + required]
    /\ UNCHANGED <<config, authority, failures, account, treasury, rewards>>
deposit_relayer_bond(r) ==
    /\ r \in approved
    /\ Missing(r) > 0
    /\ wallet[r] >= Missing(r)
    /\ wallet' = [wallet EXCEPT ![r] = @ - Missing(r)]
    /\ held' = held + Missing(r)
    /\ bond' = [bond EXCEPT ![r] = required]
    /\ UNCHANGED <<config, authority, failures, account, treasury, rewards>>

withdraw_relayer_bond(r) ==
    /\ bond[r] > 0
    /\ failures[r] = 0
    /\ wallet' = [wallet EXCEPT ![r] = @ + bond[r]]
    /\ held' = held - bond[r]
    /\ bond' = [bond EXCEPT ![r] = 0]
    /\ UNCHANGED <<config, authority, failures, account, treasury, rewards>>

record_relayer_failure(r) ==
    /\ r \in approved
    /\ failures[r] < MaxFailures
    /\ failures' = [failures EXCEPT ![r] = @ + 1]
    /\ UNCHANGED <<config, authority, money, account, rewards>>

SlashAmount(b) == LET s == (b * percent) \div 100 IN
                  IF s < 1 THEN 1 ELSE IF s > b THEN b ELSE s

Slash(r) ==
    /\ bond' = [bond EXCEPT ![r] = @ - SlashAmount(@)]
    /\ treasury' = treasury + SlashAmount(bond[r])
    /\ UNCHANGED <<wallet, held>>

slash_relayer(r, force) ==
    /\ force \/ failures[r] >= threshold
    /\ bond[r] > 0
    /\ Slash(r)
    /\ failures' = [failures EXCEPT ![r] = 0]
    /\ UNCHANGED <<config, authority, account, rewards>>

\* Anybody may challenge a relayer that has no authority for the source now;
\* half of what is slashed is credited to the challenger.
challenge_relayed_submission(c, r, s, proof) ==
    /\ ~Authorised(s, r)
    /\ proof
    /\ bond[r] > 0
    /\ Slash(r)
    /\ rewards' = [rewards EXCEPT ![c] = @ + SlashAmount(bond[r]) \div 2]
    /\ UNCHANGED <<config, authority, failures, account>>

(***************************************************************************)
(* Challenges to prices.                                                   *)
(***************************************************************************)
ChallengeIds == DOMAIN challenges
Monus(n) == IF n > 0 THEN n - 1 ELSE 0
AtLeast1(n) == IF n > 1 THEN n ELSE 1

challenge_price(c, a, price) ==
    /\ price > 0
    /\ strikes[c] < MaxStrikes
    /\ open_by[c] < PerChallenger
    /\ open_on[a] < PerAsset
    /\ Cardinality(ChallengeIds) < MaxChallenges
    /\ LET id == Cardinality(ChallengeIds) + 1
           new == [challenger |-> c, asset |-> a, expected |-> price,
                   resolved |-> FALSE, valid |-> FALSE, reward |-> 0]
       IN challenges' = [i \in ChallengeIds \cup {id} |-> IF i = id THEN new ELSE challenges[i]]
    /\ open_by' = [open_by EXCEPT ![c] = @ + 1]
    /\ open_on' = [open_on EXCEPT ![a] = @ + 1]
    /\ UNCHANGED <<strikes, rewards>>

\* Mutant: the counter of the asset is released only by a valid challenge.
resolve_challengeLeaks(id, is_valid) ==
    LET ch == challenges[id]
        stake == AtLeast1(ch.expected \div 1000)
    IN /\ ~ch.resolved
       /\ challenges' = [challenges EXCEPT ![id].resolved = TRUE, ![id].valid = is_valid,
                            ![id].reward = IF is_valid THEN stake ELSE 0]
       /\ open_by' = [open_by EXCEPT ![ch.challenger] = Monus(@)]
       /\ open_on' = IF is_valid THEN [open_on EXCEPT ![ch.asset] = Monus(@)] ELSE open_on
       /\ strikes' = IF is_valid THEN strikes ELSE [strikes EXCEPT ![ch.challenger] = @ + 1]
       /\ rewards' = [rewards EXCEPT ![ch.challenger] =
             IF is_valid THEN @ + stake ELSE IF @ > stake THEN @ - stake ELSE 0]
resolve_challenge(id, is_valid) ==
    LET ch == challenges[id]
        stake == AtLeast1(ch.expected \div 1000)
    IN /\ ~ch.resolved
       /\ challenges' = [challenges EXCEPT ![id].resolved = TRUE, ![id].valid = is_valid,
                            ![id].reward = IF is_valid THEN stake ELSE 0]
       /\ open_by' = [open_by EXCEPT ![ch.challenger] = Monus(@)]
       /\ open_on' = [open_on EXCEPT ![ch.asset] = Monus(@)]
       /\ strikes' = IF is_valid THEN strikes ELSE [strikes EXCEPT ![ch.challenger] = @ + 1]
       /\ rewards' = [rewards EXCEPT ![ch.challenger] =
             IF is_valid THEN @ + stake ELSE IF @ > stake THEN @ - stake ELSE 0]

claim_rewards(c) ==
    /\ rewards' = [rewards EXCEPT ![c] = 0]
    /\ UNCHANGED <<challenges, open_by, open_on, strikes>>

(***************************************************************************)
(* Configuration.                                                          *)
(***************************************************************************)
set_relayer_bond_amount(b) ==
    /\ required' = b
    /\ UNCHANGED <<percent, threshold, flat_fee, rate, authority, money, failures, account, rewards>>

set_relayer_slash_percent(p) ==
    /\ p <= 100
    /\ percent' = p
    /\ UNCHANGED <<required, threshold, flat_fee, rate, authority, money, failures, account, rewards>>

set_relayer_failure_threshold(t) ==
    /\ threshold' = t
    /\ UNCHANGED <<required, percent, flat_fee, rate, authority, money, failures, account, rewards>>

set_relayer_fee_per_submission(f) ==
    /\ flat_fee' = f
    /\ UNCHANGED <<required, percent, threshold, rate, authority, money, failures, account, rewards>>

set_relayer_reward_rate(f) ==
    /\ rate' = f
    /\ UNCHANGED <<required, percent, threshold, flat_fee, authority, money, failures, account, rewards>>

CloseLedger ==
    /\ \E s \in Sources, r \in Relayers : delegation[s][r] >= 0
    /\ delegation' = [s \in Sources |-> [r \in Relayers |->
          IF delegation[s][r] >= 0 THEN delegation[s][r] - 1 ELSE -1]]
    /\ UNCHANGED <<approved, registry, nonce, config, money, failures, account, rewards>>

Init ==
    /\ approved = {}
    /\ registry = {}
    /\ delegation = [s \in Sources |-> [r \in Relayers |-> -1]]
    /\ nonce = [s \in Sources |-> 0]
    /\ required = 0
    /\ bond = [r \in Relayers |-> 0]
    /\ failures = [r \in Relayers |-> 0]
    /\ percent = 20     \* DEFAULT_RELAYER_SLASH_PERCENT
    /\ threshold = 3    \* DEFAULT_RELAYER_FAILURE_THRESHOLD
    /\ flat_fee = 0
    /\ rate = 0
    /\ account = [r \in Relayers |-> [subs |-> 0, fees |-> 0, reward |-> 0]]
    /\ treasury = 0
    /\ wallet = [r \in Relayers |-> Wallet]
    /\ held = 0
    /\ rewards = [c \in Challengers |-> 0]
    /\ challenges = <<>>
    /\ open_by = [c \in Challengers |-> 0]
    /\ open_on = [a \in ChallengedAssets |-> 0]
    /\ strikes = [c \in Challengers |-> 0]

Legs == [source : Sources, fee : Fees, tripped : BOOLEAN]

\* The entry points of lib.rs, grouped as they stand there.
RelayerRegistryCalls(r) ==
    \/ add_relayer(r)
    \/ remove_relayer(r)
    \/ \E s \in Sources, n \in Nonces, life \in Lifetimes : delegate_relayer(s, r, n, life)
    \/ \E c \in Challengers, s \in Sources, p \in BOOLEAN : challenge_relayed_submission(c, r, s, p)
RelayedSubmissionCalls(r) ==
    \/ \E s \in Sources, t \in BOOLEAN : submit_price_relayed(r, s, t)
    \/ \E legs \in SeqOf(Legs, MaxLegs) : submit_prices_relayed(r, legs)
RelayerBondCalls(r) ==
    \/ deposit_relayer_bond(r)
    \/ withdraw_relayer_bond(r)
    \/ record_relayer_failure(r)
    \/ \E f \in BOOLEAN : slash_relayer(r, f)
RelayerConfigCalls ==
    \/ \E b \in Bonds : set_relayer_bond_amount(b)
    \/ \E p \in SlashPercents : set_relayer_slash_percent(p)
    \/ \E t \in 0..MaxFailures : set_relayer_failure_threshold(t)
    \/ \E f \in Fees : set_relayer_fee_per_submission(f) \/ set_relayer_reward_rate(f)
RelayerCalls ==
    \/ \E r \in Relayers : \/ RelayerRegistryCalls(r)
                           \/ RelayedSubmissionCalls(r)
                           \/ RelayerBondCalls(r)
    \/ RelayerConfigCalls
    \/ CloseLedger
ChallengeCalls ==
    \/ \E c \in Challengers, a \in ChallengedAssets, p \in Expected : challenge_price(c, a, p)
    \/ \E id \in ChallengeIds, v \in BOOLEAN : resolve_challenge(id, v)
    \/ \E c \in Challengers : claim_rewards(c)
Next ==
    \/ RelayerCalls /\ UNCHANGED cvars
    \/ ChallengeCalls /\ UNCHANGED rvars

Spec == Init /\ [][Next]_<<rvars, cvars, rewards>>

(***************************************************************************)
(* Properties.                                                             *)
(***************************************************************************)
\* Through deposits under a changing requirement, withdrawals, slashes and
\* challenges, the tokens the contract holds are exactly the recorded bonds
\* and the treasury: every bond can be paid back.
BondsBacked ==
    held = SumFunction(bond) + treasury

\* The counters the caps read are the numbers of unresolved challenges, so no
\* sequence of rulings locks a challenger or an asset out of challenging, and
\* a challenger is never penalised by more strikes than rejected challenges.
OpenCountsExact ==
    /\ \A c \in Challengers :
          /\ open_by[c] = Cardinality({id \in ChallengeIds : /\ ~challenges[id].resolved
                                                             /\ challenges[id].challenger = c})
          /\ strikes[c] = Cardinality({id \in ChallengeIds : /\ challenges[id].resolved
                                                             /\ ~challenges[id].valid
                                                             /\ challenges[id].challenger = c})
    /\ \A a \in ChallengedAssets :
          open_on[a] = Cardinality({id \in ChallengeIds : /\ ~challenges[id].resolved
                                                          /\ challenges[id].asset = a})

=============================================================================
