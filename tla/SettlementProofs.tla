-------------------------- MODULE SettlementProofs --------------------------
(***************************************************************************)
(* The books of MCSettlement, for every set of relayers, channels, sources *)
(* and amounts.  The parts share no variable, so each has an invariant of  *)
(* its own, kept by the steps of its focus and by every step that leaves   *)
(* it alone; the theorems at the end put them together.                    *)
(***************************************************************************)
EXTENDS MCSettlement, PriceMathProofs

\* The sum of the library is the one of PriceMathProofs.
LEMMA BondsAreSummed ==
    ASSUME NEW f
    PROVE  Relay!SumFunction(f) = SumOver(f, DOMAIN f)
BY DEF Relay!SumFunction, Relay!SumFunctionOnSet, Relay!FoldFunctionOnSet, Relay!MapThenFoldSet,
       SumOver, Summing, SumStep
LEMMA DepositsAreSummed ==
    ASSUME NEW f
    PROVE  Channel!SumFunction(f) = SumOver(f, DOMAIN f)
BY DEF Channel!SumFunction, Channel!SumFunctionOnSet, Channel!FoldFunctionOnSet,
       Channel!MapThenFoldSet, SumOver, Summing, SumStep
LEMMA FeesAreSummed ==
    ASSUME NEW f
    PROVE  Subscribe!SumFunction(f) = SumOver(f, DOMAIN f)
BY DEF Subscribe!SumFunction, Subscribe!SumFunctionOnSet, Subscribe!FoldFunctionOnSet,
       Subscribe!MapThenFoldSet, SumOver, Summing, SumStep

LEMMA RelayCounts == \A S : Relay!Cardinality(S) = Cardinality(S)
BY Zenon DEF Relay!Cardinality, Cardinality
LEMMA OptimisticCounts == \A S : Optimistic!Cardinality(S) = Cardinality(S)
BY Zenon DEF Optimistic!Cardinality, Cardinality

\* The first n numbers are n.
LEMMA CountedIds ==
    ASSUME NEW n \in Nat
    PROVE  IsFiniteSet(1..n) /\ Cardinality(1..n) = n /\ (1..n) \cup {n + 1} = 1..(n + 1)
<1>1. IsFiniteSet(1..n) /\ Cardinality(1..n) = IF 1 > n THEN 0 ELSE n - 1 + 1
  BY FS_Interval
<1> QED  BY <1>1

-----------------------------------------------------------------------------
(* Optimistic proposals *)

Proposals ==
    [price : OptPrices, bond : OptBonds, left : Int,
     status : {"Pending", "Disputed", "Resolved", "Finalized"},
     disputed : BOOLEAN, resolution : {0, 1, 2}]

\* The outcome p stores, and what its settlement has written.
Booked(p, written) ==
    /\ written = IF p.resolution = 1 THEN 1 ELSE 0
    /\ (p.status \in {"Resolved", "Finalized"}) <=> p.resolution # 0

ProposalsKept ==
    /\ \E n \in Nat : proposals \in [1..n -> Proposals] /\ snapshots \in [1..n -> Nat]
    /\ \A id \in DOMAIN proposals : Booked(proposals[id], snapshots[id])
    /\ window \in Int

\* Reading settles an expired proposal, which has written nothing before.
LEMMA LazySettlement ==
    ASSUME NEW p \in Proposals, NEW written \in Nat, Booked(p, written)
    PROVE  /\ Optimistic!finalize_if_expired(p) \in Proposals
           /\ Booked(Optimistic!finalize_if_expired(p),
                     IF Optimistic!Expired(p) /\ p.status = "Pending" THEN written + 1 ELSE written)
<1>1. CASE ~Optimistic!Expired(p)
  BY <1>1 DEF Optimistic!finalize_if_expired
<1>2. CASE Optimistic!Expired(p)
  <2>1. p.status \in {"Pending", "Disputed"} /\ p.resolution = 0 /\ written = 0
    BY <1>2 DEF Optimistic!Expired, Booked, Proposals
  <2>2. CASE p.status = "Disputed"
    <3>1. Optimistic!finalize_if_expired(p) = [p EXCEPT !.status = "Resolved", !.resolution = 2]
      BY <1>2, <2>2 DEF Optimistic!finalize_if_expired
    <3>2. PICK q \in Proposals : q = [p EXCEPT !.status = "Resolved", !.resolution = 2]
      BY DEF Proposals
    <3>3. q.status = "Resolved" /\ q.resolution = 2
      BY <3>2 DEF Proposals
    <3>4. Booked(q, 0)
      BY <3>3 DEF Booked
    <3> QED  BY <2>1, <2>2, <3>1, <3>2, <3>4
  <2>3. CASE p.status = "Pending"
    <3>1. Optimistic!finalize_if_expired(p) = [p EXCEPT !.status = "Finalized", !.resolution = 1]
      BY <1>2, <2>3 DEF Optimistic!finalize_if_expired
    <3>2. PICK q \in Proposals : q = [p EXCEPT !.status = "Finalized", !.resolution = 1]
      BY DEF Proposals
    <3>3. q.status = "Finalized" /\ q.resolution = 1
      BY <3>2 DEF Proposals
    <3>4. Booked(q, 1)
      BY <3>3 DEF Booked
    <3> QED  BY <1>2, <2>1, <2>3, <3>1, <3>2, <3>4
  <2> QED  BY <2>1, <2>2, <2>3
<1> QED  BY <1>1, <1>2

\* A call that rewrites one proposal.
LEMMA OneProposal ==
    ASSUME ProposalsKept, NEW id \in DOMAIN proposals, NEW q \in Proposals,
           NEW w \in Nat, Booked(q, w), window' \in Int,
           proposals' = [proposals EXCEPT ![id] = q],
           snapshots' = [snapshots EXCEPT ![id] = w]
    PROVE  ProposalsKept'
<1>1. PICK n \in Nat : proposals \in [1..n -> Proposals] /\ snapshots \in [1..n -> Nat]
  BY DEF ProposalsKept
<1>2. proposals' \in [1..n -> Proposals] /\ snapshots' \in [1..n -> Nat]
  BY <1>1
<1>3. \A i \in 1..n : Booked(proposals'[i], snapshots'[i])
  BY <1>1, <1>2 DEF ProposalsKept, Booked
<1> QED  BY <1>2, <1>3 DEF ProposalsKept, Booked

LEMMA ResolvedProposal ==
    ASSUME ProposalsKept, NEW id \in DOMAIN proposals, Optimistic!Resolvable(id),
           NEW outcome \in {1, 2}, NEW price, Optimistic!Resolve(id, outcome, price)
    PROVE  ProposalsKept'
<1>1. proposals[id] \in Proposals /\ snapshots[id] \in Nat /\ Booked(proposals[id], snapshots[id])
  BY DEF ProposalsKept
<1>2. proposals[id].resolution = 0 /\ snapshots[id] = 0
  <2>1. CASE Optimistic!Expired(proposals[id])
    <3>1. Optimistic!Settled(Optimistic!finalize_if_expired(proposals[id]))
      BY <1>1, <2>1 DEF Optimistic!finalize_if_expired, Optimistic!Settled, Optimistic!Expired, Proposals
    <3> QED  BY <3>1 DEF Optimistic!Resolvable
  <2>2. CASE ~Optimistic!Expired(proposals[id])
    BY <1>1, <2>2 DEF Optimistic!Resolvable, Optimistic!finalize_if_expired, Optimistic!Settled, Booked
  <2> QED  BY <2>1, <2>2
<1>3. PICK q : q = [proposals[id] EXCEPT !.status = "Resolved", !.resolution = outcome]
  OBVIOUS
<1>4. PICK w : w = IF outcome = 1 THEN 1 ELSE 0
  OBVIOUS
<1>5. q \in Proposals /\ w \in Nat /\ Booked(q, w)
  <2>1. q \in Proposals /\ q.status = "Resolved" /\ q.resolution = outcome
    BY <1>1, <1>3 DEF Proposals
  <2> QED  BY <1>4, <2>1 DEF Booked
<1>6. proposals' = [proposals EXCEPT ![id] = q] /\ window' \in Int
  BY <1>3 DEF Optimistic!Resolve, ProposalsKept
<1>7. snapshots' = [snapshots EXCEPT ![id] = w]
  <2>1. \E n \in Nat : snapshots \in [1..n -> Nat]
    BY DEF ProposalsKept
  <2>2. CASE outcome = 1
    BY <1>2, <1>4, <2>1, <2>2 DEF Optimistic!Resolve
  <2>3. CASE outcome = 2
    BY <1>2, <1>4, <2>1, <2>3 DEF Optimistic!Resolve
  <2> QED  BY <2>2, <2>3
<1> QED  BY <1>5, <1>6, <1>7, OneProposal

LEMMA ProposalsStep ==
    ASSUME ProposalsKept, [Optimistic!Next]_ovars
    PROVE  ProposalsKept'
<1>1. PICK n \in Nat : proposals \in [1..n -> Proposals] /\ snapshots \in [1..n -> Nat]
  BY DEF ProposalsKept
<1>2. /\ \A id \in 1..n : Booked(proposals[id], snapshots[id])
      /\ DOMAIN proposals = 1..n /\ window \in Int
  BY <1>1 DEF ProposalsKept
<1>3. CASE UNCHANGED <<proposals, snapshots>> /\ window' \in Int
  BY <1>1, <1>2, <1>3 DEF ProposalsKept, Booked
<1>4. ASSUME NEW price \in OptPrices, NEW t \in BOOLEAN, NEW b \in OptBonds,
             Optimistic!propose_price(price, t, b)
      PROVE  ProposalsKept'
  <2>1. Optimistic!read_proposal_count = n
    BY <1>2, CountedIds, OptimisticCounts DEF Optimistic!read_proposal_count, Optimistic!Ids
  <2>2. PICK q : q = [price |-> price, bond |-> b, left |-> window, status |-> "Pending",
                      disputed |-> FALSE, resolution |-> 0]
    OBVIOUS
  <2>3. q \in Proposals /\ Booked(q, 0)
    BY <1>2, <2>2 DEF Proposals, Booked
  <2>4. /\ proposals' = [i \in 1..(n + 1) |-> IF i = n + 1 THEN q ELSE proposals[i]]
        /\ snapshots' = [i \in 1..(n + 1) |-> IF i = n + 1 THEN 0 ELSE snapshots[i]]
        /\ window' = window
    BY <1>2, <1>4, <2>1, <2>2, CountedIds DEF Optimistic!propose_price, Optimistic!Ids
  <2>5. proposals' \in [1..(n + 1) -> Proposals] /\ snapshots' \in [1..(n + 1) -> Nat]
    BY <1>1, <2>3, <2>4
  <2>6. \A i \in 1..(n + 1) : Booked(proposals'[i], snapshots'[i])
    BY <1>2, <2>3, <2>4 DEF Booked
  <2> QED  BY <1>2, <2>4, <2>5, <2>6 DEF ProposalsKept, Booked
<1>5. ASSUME NEW id \in 1..n, Optimistic!dispute_proposal(id)
      PROVE  ProposalsKept'
  <2>1. PICK q : q = [proposals[id] EXCEPT !.status = "Disputed", !.disputed = TRUE]
    OBVIOUS
  <2>2. proposals[id] \in Proposals /\ proposals[id].status = "Pending"
    BY <1>1, <1>5 DEF Optimistic!dispute_proposal
  <2>3. q \in Proposals /\ Booked(q, snapshots[id])
    BY <1>2, <2>1, <2>2 DEF Proposals, Booked
  <2>4. /\ proposals' = [proposals EXCEPT ![id] = q] /\ window' = window
        /\ snapshots' = [snapshots EXCEPT ![id] = snapshots[id]]
    BY <1>1, <1>5, <2>1 DEF Optimistic!dispute_proposal
  <2> QED  BY <1>1, <1>2, <2>3, <2>4, OneProposal
<1>6. ASSUME NEW id \in 1..n, NEW a \in BOOLEAN, Optimistic!resolve_dispute(id, a)
      PROVE  ProposalsKept'
  BY <1>2, <1>6, ResolvedProposal DEF Optimistic!resolve_dispute
<1>7. ASSUME NEW id \in 1..n, NEW price, NEW v \in BOOLEAN,
             Optimistic!resolve_via_external_data(id, price, v)
      PROVE  ProposalsKept'
  BY <1>2, <1>7, ResolvedProposal DEF Optimistic!resolve_via_external_data
<1>8. ASSUME NEW id \in 1..n, Optimistic!get_proposal(id)
      PROVE  ProposalsKept'
  <2>1. PICK q : q = Optimistic!finalize_if_expired(proposals[id])
    OBVIOUS
  <2>2. PICK w : w = IF Optimistic!Finalizes(id) THEN snapshots[id] + 1 ELSE snapshots[id]
    OBVIOUS
  <2>3. q \in Proposals /\ w \in Nat /\ Booked(q, w)
    BY <1>1, <1>2, <2>1, <2>2, LazySettlement DEF Optimistic!Finalizes
  <2>4. /\ proposals' = [proposals EXCEPT ![id] = q] /\ window' = window
        /\ snapshots' = [snapshots EXCEPT ![id] = w]
    BY <1>1, <1>8, <2>1, <2>2 DEF Optimistic!get_proposal
  <2> QED  BY <1>2, <2>3, <2>4, OneProposal
<1>9. ASSUME Optimistic!get_active_proposals
      PROVE  ProposalsKept'
  <2>1. /\ proposals' = [id \in 1..n |-> Optimistic!finalize_if_expired(proposals[id])]
        /\ snapshots' = [id \in 1..n |-> IF Optimistic!Finalizes(id) THEN snapshots[id] + 1
                                         ELSE snapshots[id]]
        /\ window' = window
    BY <1>2, <1>9 DEF Optimistic!get_active_proposals, Optimistic!Ids
  <2>2. ASSUME NEW id \in 1..n
        PROVE  /\ Optimistic!finalize_if_expired(proposals[id]) \in Proposals
               /\ Booked(Optimistic!finalize_if_expired(proposals[id]),
                         IF Optimistic!Finalizes(id) THEN snapshots[id] + 1 ELSE snapshots[id])
    BY <1>1, <1>2, LazySettlement DEF Optimistic!Finalizes
  <2>3. proposals' \in [1..n -> Proposals] /\ snapshots' \in [1..n -> Nat]
    BY <1>1, <2>1, <2>2
  <2>4. \A i \in 1..n : Booked(proposals'[i], snapshots'[i])
    BY <2>1, <2>2
  <2> QED  BY <1>2, <2>1, <2>3, <2>4 DEF ProposalsKept, Booked
<1>10. ASSUME Optimistic!CloseLedger
       PROVE  ProposalsKept'
  <2>1. /\ proposals' = [id \in 1..n |-> [proposals[id] EXCEPT !.left =
                           IF @ > -MaxDispute THEN @ - 1 ELSE @]]
        /\ UNCHANGED <<snapshots, window>>
    BY <1>2, <1>10 DEF Optimistic!CloseLedger, Optimistic!Ids
  <2>2. ASSUME NEW id \in 1..n
        PROVE  proposals'[id] \in Proposals /\ Booked(proposals'[id], snapshots[id])
    <3>1. proposals[id] \in Proposals
      BY <1>1
    <3>2. proposals[id].left \in Int
      BY <3>1 DEF Proposals
    <3>3. PICK l : l = IF proposals[id].left > -MaxDispute THEN proposals[id].left - 1
                       ELSE proposals[id].left
      OBVIOUS
    <3>4. l \in Int /\ proposals'[id] = [proposals[id] EXCEPT !.left = l]
      BY <2>1, <3>2, <3>3
    <3> QED  BY <1>2, <3>1, <3>4 DEF Proposals, Booked
  <2>3. proposals' \in [1..n -> Proposals]
    BY <2>1, <2>2
  <2> QED  BY <1>1, <1>2, <2>1, <2>2, <2>3 DEF ProposalsKept, Booked
<1>11. CASE UNCHANGED ovars
  BY <1>2, <1>3, <1>11 DEF ovars
<1>12. CASE (\E w \in Windows : Optimistic!set_optimistic_dispute_window(w))
              \/ (\E b \in OptBonds : Optimistic!set_optimistic_min_bond(b))
  BY <1>2, <1>3, <1>12, SettlementAssumption
     DEF Optimistic!set_optimistic_dispute_window, Optimistic!set_optimistic_min_bond
<1> QED  BY <1>2, <1>4, <1>5, <1>6, <1>7, <1>8, <1>9, <1>10, <1>11, <1>12
         DEF Optimistic!Next, Optimistic!Ids

LEMMA ProposalsStart == Optimistic!Init => ProposalsKept
<1>1. SUFFICES ASSUME Optimistic!Init PROVE ProposalsKept
  OBVIOUS
<1>2. proposals = <<>> /\ snapshots = <<>> /\ window = 1
  BY <1>1 DEF Optimistic!Init
<1>3. proposals \in [1..0 -> Proposals] /\ snapshots \in [1..0 -> Nat]
  BY <1>2
<1> QED  BY <1>2, <1>3 DEF ProposalsKept

LEMMA ProposalsBooked == ProposalsKept => Optimistic!SettledOnce
BY DEF ProposalsKept, Optimistic!SettledOnce, Optimistic!Ids, Optimistic!Settled, Booked

-----------------------------------------------------------------------------
(* Bonds of the relayers *)

BondsKept ==
    /\ bond \in [Relayers -> Int]
    /\ required \in Int /\ percent \in Int /\ treasury \in Int /\ held \in Int
    /\ held = SumOver(bond, Relayers) + treasury

\* A call that moves one bond keeps the books when what the contract holds
\* beyond the treasury's share moves by as much.
LEMMA OneBond ==
    ASSUME BondsKept, NEW r \in Relayers, NEW b \in Int, bond' = [bond EXCEPT ![r] = b],
           required' \in Int, percent' \in Int, treasury' \in Int, held' \in Int,
           (held' - treasury') - (held - treasury) = b - bond[r]
    PROVE  BondsKept'
<1>1. bond \in [Relayers -> Int] /\ IsFiniteSet(Relayers)
  BY SettlementAssumption DEF BondsKept
<1>2. PICK after \in [Relayers -> Int] : after = bond'
  BY <1>1
<1>3. /\ SumOver(bond, Relayers) \in Int
      /\ SumOver(after, Relayers) = SumOver(bond, Relayers) + (after[r] - bond[r])
  <2>1. \A t \in Relayers : t # r => after[t] = bond[t]
    BY <1>1, <1>2
  <2> QED  BY <1>1, <2>1, SumChanged
<1>4. SumOver(bond, Relayers)' = SumOver(after, Relayers)
  BY <1>2 DEF SumOver
<1>5. bond[r] \in Int /\ after[r] = b
  BY <1>1, <1>2
<1> QED  BY <1>2, <1>3, <1>4, <1>5 DEF BondsKept

LEMMA SlashedBond ==
    ASSUME BondsKept, NEW r \in Relayers, Relay!Slash(r), UNCHANGED Relay!config
    PROVE  BondsKept'
<1>1. PICK cut : cut = Relay!SlashAmount(bond[r])
  OBVIOUS
<1>2. /\ bond[r] \in Int /\ percent \in Int /\ treasury \in Int /\ held \in Int
      /\ required \in Int
  BY DEF BondsKept
<1>3. cut \in Int
  BY <1>1, <1>2 DEF Relay!SlashAmount
<1>4. /\ bond' = [bond EXCEPT ![r] = bond[r] - cut]
      /\ treasury' = treasury + cut /\ held' = held
  BY <1>1 DEF Relay!Slash
<1>5. required' = required /\ percent' = percent
  BY DEF Relay!config
<1>6. PICK b \in Int : b = bond[r] - cut
  BY <1>2, <1>3
<1>7. /\ treasury' \in Int /\ held' \in Int
      /\ (held' - treasury') - (held - treasury) = b - bond[r]
  BY <1>2, <1>3, <1>4, <1>6
<1> QED  BY <1>2, <1>4, <1>5, <1>6, <1>7, OneBond

LEMMA BondsStep ==
    ASSUME BondsKept, [Relay!RelayerCalls]_relayer
    PROVE  BondsKept'
<1>1. /\ bond \in [Relayers -> Int] /\ required \in Int /\ percent \in Int
      /\ treasury \in Int /\ held \in Int
  BY DEF BondsKept
<1>2. ASSUME bond' = bond, treasury' = treasury, held' = held, required' \in Int, percent' \in Int
      PROVE  BondsKept'
  BY <1>2 DEF BondsKept, SumOver
<1>3. CASE UNCHANGED relayer
  BY <1>1, <1>2, <1>3 DEF relayer
<1>4. ASSUME NEW r \in Relayers, Relay!RelayerRegistryCalls(r)
      PROVE  BondsKept'
  <2>1. ASSUME NEW c, NEW s, NEW p, Relay!challenge_relayed_submission(c, r, s, p)
        PROVE  BondsKept'
    BY <2>1, SlashedBond DEF Relay!challenge_relayed_submission
  <2>2. CASE \/ Relay!add_relayer(r) \/ Relay!remove_relayer(r)
             \/ \E s \in Sources, n \in Nonces, life \in Lifetimes :
                   Relay!delegate_relayer(s, r, n, life)
    BY <1>1, <1>2, <2>2 DEF Relay!add_relayer, Relay!remove_relayer, Relay!delegate_relayer,
                            Relay!config, Relay!money
  <2> QED  BY <1>4, <2>1, <2>2 DEF Relay!RelayerRegistryCalls
<1>5. ASSUME NEW r \in Relayers, Relay!RelayedSubmissionCalls(r)
      PROVE  BondsKept'
  BY <1>1, <1>2, <1>5 DEF Relay!RelayedSubmissionCalls, Relay!submit_price_relayed,
     Relay!submit_prices_relayed, Relay!config, Relay!money
<1>6. ASSUME NEW r \in Relayers, Relay!RelayerBondCalls(r)
      PROVE  BondsKept'
  <2>1. CASE Relay!deposit_relayer_bond(r)
    <3>1. /\ bond' = [bond EXCEPT ![r] = required]
          /\ held' = held + (required - bond[r])
          /\ treasury' = treasury /\ required' = required /\ percent' = percent
      BY <2>1 DEF Relay!deposit_relayer_bond, Relay!Missing, Relay!config
    <3>2. held' \in Int /\ (held' - treasury') - (held - treasury) = required - bond[r]
      BY <1>1, <3>1
    <3> QED  BY <1>1, <3>1, <3>2, OneBond
  <2>2. CASE Relay!withdraw_relayer_bond(r)
    <3>1. /\ bond' = [bond EXCEPT ![r] = 0]
          /\ held' = held - bond[r]
          /\ treasury' = treasury /\ required' = required /\ percent' = percent
      BY <2>2 DEF Relay!withdraw_relayer_bond, Relay!config
    <3>2. PICK b \in Int : b = 0
      OBVIOUS
    <3>3. held' \in Int /\ (held' - treasury') - (held - treasury) = b - bond[r]
      BY <1>1, <3>1, <3>2
    <3> QED  BY <1>1, <3>1, <3>2, <3>3, OneBond
  <2>3. ASSUME NEW f \in BOOLEAN, Relay!slash_relayer(r, f)
        PROVE  BondsKept'
    BY <2>3, SlashedBond DEF Relay!slash_relayer
  <2>4. CASE Relay!record_relayer_failure(r)
    BY <1>1, <1>2, <2>4 DEF Relay!record_relayer_failure, Relay!config, Relay!money
  <2> QED  BY <1>6, <2>1, <2>2, <2>3, <2>4 DEF Relay!RelayerBondCalls
<1>7. CASE Relay!RelayerConfigCalls
  <2>1. bond' = bond /\ treasury' = treasury /\ held' = held
    BY <1>7 DEF Relay!RelayerConfigCalls, Relay!set_relayer_bond_amount,
       Relay!set_relayer_slash_percent, Relay!set_relayer_failure_threshold,
       Relay!set_relayer_fee_per_submission, Relay!set_relayer_reward_rate, Relay!money
  <2>2. (required' = required \/ required' \in Bonds) /\ (percent' = percent \/ percent' \in SlashPercents)
    BY <1>7 DEF Relay!RelayerConfigCalls, Relay!set_relayer_bond_amount,
       Relay!set_relayer_slash_percent, Relay!set_relayer_failure_threshold,
       Relay!set_relayer_fee_per_submission, Relay!set_relayer_reward_rate
  <2> QED  BY <1>1, <1>2, <2>1, <2>2, SettlementAssumption
<1>8. CASE Relay!CloseLedger
  BY <1>1, <1>2, <1>8 DEF Relay!CloseLedger, Relay!config, Relay!money
<1> QED  BY <1>3, <1>4, <1>5, <1>6, <1>7, <1>8 DEF Relay!RelayerCalls

LEMMA BondsStart == Relay!Init => BondsKept
<1>1. SUFFICES ASSUME Relay!Init PROVE BondsKept
  OBVIOUS
<1>2. bond = [r \in Relayers |-> 0] /\ required = 0 /\ percent = 20 /\ treasury = 0 /\ held = 0
  BY <1>1 DEF Relay!Init
<1>3. bond \in [Relayers -> Int] /\ \A r \in Relayers : bond[r] = 0
  BY <1>2
<1>4. SumOver(bond, Relayers) = 0
  BY <1>3, SettlementAssumption, SumOfZeros
<1> QED  BY <1>2, <1>3, <1>4 DEF BondsKept

LEMMA BondsBooked == BondsKept => Relay!BondsBacked
<1> SUFFICES ASSUME BondsKept PROVE Relay!BondsBacked
  OBVIOUS
<1>2. DOMAIN bond = Relayers
  BY DEF BondsKept
<1>3. Relay!SumFunction(bond) = SumOver(bond, Relayers)
  BY <1>2, BondsAreSummed
<1> QED  BY <1>3 DEF BondsKept, Relay!BondsBacked

-----------------------------------------------------------------------------
(* Challenges *)

Challenges ==
    [challenger : Challengers, asset : ChallengedAssets, expected : Expected,
     resolved : BOOLEAN, valid : BOOLEAN, reward : Int]

OpenBy(ch, c) == {id \in DOMAIN ch : ~ch[id].resolved /\ ch[id].challenger = c}
OpenOn(ch, a) == {id \in DOMAIN ch : ~ch[id].resolved /\ ch[id].asset = a}
Rejected(ch, c) == {id \in DOMAIN ch : ch[id].resolved /\ ~ch[id].valid /\ ch[id].challenger = c}

ChallengesKept ==
    /\ \E n \in Nat : challenges \in [1..n -> Challenges]
    /\ open_by \in [Challengers -> Nat] /\ strikes \in [Challengers -> Nat]
    /\ open_on \in [ChallengedAssets -> Nat]
    /\ \A c \in Challengers : /\ open_by[c] = Cardinality(OpenBy(challenges, c))
                              /\ strikes[c] = Cardinality(Rejected(challenges, c))
    /\ \A a \in ChallengedAssets : open_on[a] = Cardinality(OpenOn(challenges, a))

\* One more and one less.
LEMMA CountChanged ==
    ASSUME NEW n \in Nat, NEW S \in SUBSET (1..n), NEW x
    PROVE  /\ Cardinality(S) \in Nat
           /\ x \notin S => Cardinality(S \cup {x}) = Cardinality(S) + 1
           /\ x \in S => Cardinality(S \ {x}) = Cardinality(S) - 1 /\ Cardinality(S) > 0
<1>1. IsFiniteSet(S)
  BY CountedIds, FS_Subset
<1>2. Cardinality(S) \in Nat
  BY <1>1, FS_CardinalityType
<1>3. x \notin S => Cardinality(S \cup {x}) = Cardinality(S) + 1
  BY <1>1, FS_AddElement
<1>4. x \in S => Cardinality(S \ {x}) = Cardinality(S) - 1
  BY <1>1, FS_RemoveElement
<1>5. x \in S => Cardinality(S) # 0
  BY <1>1, FS_EmptySet
<1> QED  BY <1>2, <1>3, <1>4, <1>5

LEMMA ChallengesStep ==
    ASSUME ChallengesKept, [Relay!ChallengeCalls]_cvars
    PROVE  ChallengesKept'
<1>1. PICK n \in Nat : challenges \in [1..n -> Challenges]
  BY DEF ChallengesKept
<1>2. /\ open_by \in [Challengers -> Nat] /\ strikes \in [Challengers -> Nat]
      /\ open_on \in [ChallengedAssets -> Nat]
      /\ \A c \in Challengers : /\ open_by[c] = Cardinality(OpenBy(challenges, c))
                                /\ strikes[c] = Cardinality(Rejected(challenges, c))
      /\ \A a \in ChallengedAssets : open_on[a] = Cardinality(OpenOn(challenges, a))
  BY DEF ChallengesKept
<1>3. /\ \A c : OpenBy(challenges, c) \subseteq 1..n /\ Rejected(challenges, c) \subseteq 1..n
      /\ \A a : OpenOn(challenges, a) \subseteq 1..n
  BY <1>1 DEF OpenBy, Rejected, OpenOn
<1>4. CASE UNCHANGED <<challenges, open_by, open_on, strikes>>
  BY <1>4 DEF ChallengesKept, OpenBy, Rejected, OpenOn
<1>5. ASSUME NEW c \in Challengers, NEW a \in ChallengedAssets, NEW p \in Expected,
             Relay!challenge_price(c, a, p)
      PROVE  ChallengesKept'
  <2>1. DOMAIN challenges = 1..n /\ Cardinality(DOMAIN challenges) = n
    BY <1>1, CountedIds
  <2>2. PICK q : q = [challenger |-> c, asset |-> a, expected |-> p,
                      resolved |-> FALSE, valid |-> FALSE, reward |-> 0]
    OBVIOUS
  <2>3. q \in Challenges /\ ~q.resolved /\ q.challenger = c /\ q.asset = a
    BY <2>2 DEF Challenges
  <2>4. PICK after : after = [i \in 1..(n + 1) |-> IF i = n + 1 THEN q ELSE challenges[i]]
    OBVIOUS
  <2>5. /\ challenges' = after
        /\ open_by' = [open_by EXCEPT ![c] = @ + 1] /\ open_on' = [open_on EXCEPT ![a] = @ + 1]
        /\ strikes' = strikes
    BY <1>5, <2>1, <2>2, <2>4, CountedIds, RelayCounts DEF Relay!challenge_price, Relay!ChallengeIds
  <2>6. after \in [1..(n + 1) -> Challenges] /\ after[n + 1] = q /\ \A i \in 1..n : after[i] = challenges[i]
    BY <1>1, <2>3, <2>4
  <2>7. /\ OpenBy(after, c) = OpenBy(challenges, c) \cup {n + 1}
        /\ OpenOn(after, a) = OpenOn(challenges, a) \cup {n + 1}
        /\ \A d \in Challengers : d # c => OpenBy(after, d) = OpenBy(challenges, d)
        /\ \A d \in Challengers : Rejected(after, d) = Rejected(challenges, d)
        /\ \A b \in ChallengedAssets : b # a => OpenOn(after, b) = OpenOn(challenges, b)
    BY <2>1, <2>3, <2>6, CountedIds DEF OpenBy, Rejected, OpenOn
  <2>8. n + 1 \notin OpenBy(challenges, c) /\ n + 1 \notin OpenOn(challenges, a)
    BY <1>3
  <2>9. /\ Cardinality(OpenBy(after, c)) = open_by[c] + 1
        /\ Cardinality(OpenOn(after, a)) = open_on[a] + 1
    <3>1. OpenBy(challenges, c) \in SUBSET (1..n) /\ OpenOn(challenges, a) \in SUBSET (1..n)
      BY <1>3
    <3>2. Cardinality(OpenBy(challenges, c) \cup {n + 1}) = Cardinality(OpenBy(challenges, c)) + 1
      BY <2>8, <3>1, CountChanged
    <3>3. Cardinality(OpenOn(challenges, a) \cup {n + 1}) = Cardinality(OpenOn(challenges, a)) + 1
      BY <2>8, <3>1, CountChanged
    <3> QED  BY <1>2, <2>7, <3>2, <3>3
  <2>10. /\ open_by' \in [Challengers -> Nat] /\ open_on' \in [ChallengedAssets -> Nat]
         /\ open_by'[c] = open_by[c] + 1 /\ open_on'[a] = open_on[a] + 1
         /\ \A d \in Challengers : d # c => open_by'[d] = open_by[d]
         /\ \A b \in ChallengedAssets : b # a => open_on'[b] = open_on[b]
    BY <1>2, <2>5
  <2>11. ASSUME NEW d \in Challengers
         PROVE  open_by'[d] = Cardinality(OpenBy(after, d)) /\ strikes'[d] = Cardinality(Rejected(after, d))
    BY <1>2, <2>5, <2>7, <2>9, <2>10
  <2>12. \A b \in ChallengedAssets : open_on'[b] = Cardinality(OpenOn(after, b))
    BY <1>2, <2>7, <2>9, <2>10
  <2>13. /\ challenges' \in [1..(n + 1) -> Challenges]
         /\ \A d \in Challengers : /\ open_by'[d] = Cardinality(OpenBy(challenges', d))
                                   /\ strikes'[d] = Cardinality(Rejected(challenges', d))
         /\ \A b \in ChallengedAssets : open_on'[b] = Cardinality(OpenOn(challenges', b))
    BY <2>5, <2>6, <2>11, <2>12
  <2>14. n + 1 \in Nat /\ strikes' \in [Challengers -> Nat]
    BY <1>2, <2>5
  <2> QED  BY <2>10, <2>13, <2>14 DEF ChallengesKept, OpenBy, OpenOn, Rejected
<1>6. ASSUME NEW id \in 1..n, NEW v \in BOOLEAN, Relay!resolve_challenge(id, v)
      PROVE  ChallengesKept'
  <2>1. PICK c, a : c = challenges[id].challenger /\ a = challenges[id].asset
    OBVIOUS
  <2>2. /\ c \in Challengers /\ a \in ChallengedAssets /\ ~challenges[id].resolved
        /\ challenges[id] \in Challenges /\ challenges[id].expected \in Int
    BY <1>1, <1>6, <2>1, SettlementAssumption DEF Challenges, Relay!resolve_challenge
  <2>3. PICK reward : reward = IF v THEN Relay!AtLeast1(challenges[id].expected \div 1000) ELSE 0
    OBVIOUS
  <2>4. reward \in Int
    BY <2>2, <2>3 DEF Relay!AtLeast1
  <2>5. PICK q : q = [challenges[id] EXCEPT !.resolved = TRUE, !.valid = v, !.reward = reward]
    OBVIOUS
  <2>6. q \in Challenges /\ q.resolved /\ q.valid = v /\ q.challenger = c /\ q.asset = a
    BY <2>1, <2>2, <2>4, <2>5 DEF Challenges
  <2>7. PICK after : after = [challenges EXCEPT ![id] = q]
    OBVIOUS
  <2>8. /\ challenges' = after
        /\ open_by' = [open_by EXCEPT ![c] = Relay!Monus(@)]
        /\ open_on' = [open_on EXCEPT ![a] = Relay!Monus(@)]
        /\ strikes' = IF v THEN strikes ELSE [strikes EXCEPT ![c] = @ + 1]
    <3>1. challenges' = [challenges EXCEPT ![id].resolved = TRUE, ![id].valid = v, ![id].reward = reward]
      BY <1>6, <2>3 DEF Relay!resolve_challenge
    <3>2. challenges' = after
      BY <1>1, <2>5, <2>7, <3>1
    <3> QED  BY <1>6, <2>1, <3>2 DEF Relay!resolve_challenge
  <2>9. /\ after \in [1..n -> Challenges] /\ after[id] = q
        /\ \A i \in 1..n : i # id => after[i] = challenges[i]
    BY <1>1, <2>6, <2>7
  <2>10. /\ OpenBy(after, c) = OpenBy(challenges, c) \ {id}
         /\ OpenOn(after, a) = OpenOn(challenges, a) \ {id}
         /\ Rejected(after, c) = IF v THEN Rejected(challenges, c) ELSE Rejected(challenges, c) \cup {id}
         /\ \A d \in Challengers : d # c => /\ OpenBy(after, d) = OpenBy(challenges, d)
                                            /\ Rejected(after, d) = Rejected(challenges, d)
         /\ \A b \in ChallengedAssets : b # a => OpenOn(after, b) = OpenOn(challenges, b)
    BY <1>1, <2>1, <2>2, <2>6, <2>9 DEF OpenBy, Rejected, OpenOn
  <2>11. id \in OpenBy(challenges, c) /\ id \in OpenOn(challenges, a) /\ id \notin Rejected(challenges, c)
    BY <1>1, <2>1, <2>2 DEF OpenBy, Rejected, OpenOn
  <2>12. /\ Cardinality(OpenBy(after, c)) = open_by[c] - 1 /\ open_by[c] > 0
         /\ Cardinality(OpenOn(after, a)) = open_on[a] - 1 /\ open_on[a] > 0
         /\ Cardinality(Rejected(after, c)) = IF v THEN strikes[c] ELSE strikes[c] + 1
    <3>1. /\ OpenBy(challenges, c) \in SUBSET (1..n) /\ OpenOn(challenges, a) \in SUBSET (1..n)
          /\ Rejected(challenges, c) \in SUBSET (1..n)
      BY <1>3
    <3>2. /\ Cardinality(OpenBy(challenges, c) \ {id}) = Cardinality(OpenBy(challenges, c)) - 1
          /\ Cardinality(OpenBy(challenges, c)) > 0
      BY <2>11, <3>1, CountChanged
    <3>3. /\ Cardinality(OpenOn(challenges, a) \ {id}) = Cardinality(OpenOn(challenges, a)) - 1
          /\ Cardinality(OpenOn(challenges, a)) > 0
      BY <2>11, <3>1, CountChanged
    <3>4. Cardinality(Rejected(challenges, c) \cup {id}) = Cardinality(Rejected(challenges, c)) + 1
      BY <2>11, <3>1, CountChanged
    <3> QED  BY <1>2, <2>2, <2>10, <3>2, <3>3, <3>4
  <2>13. /\ open_by' \in [Challengers -> Nat] /\ open_by'[c] = open_by[c] - 1
         /\ \A d \in Challengers : d # c => open_by'[d] = open_by[d]
    <3>1. PICK m \in Nat : m = open_by[c] - 1
      BY <1>2, <2>2, <2>12
    <3>2. open_by' = [open_by EXCEPT ![c] = m]
      BY <1>2, <2>2, <2>8, <2>12, <3>1 DEF Relay!Monus
    <3> QED  BY <1>2, <2>2, <3>1, <3>2
  <2>14. /\ open_on' \in [ChallengedAssets -> Nat] /\ open_on'[a] = open_on[a] - 1
         /\ \A b \in ChallengedAssets : b # a => open_on'[b] = open_on[b]
    <3>1. PICK m \in Nat : m = open_on[a] - 1
      BY <1>2, <2>2, <2>12
    <3>2. open_on' = [open_on EXCEPT ![a] = m]
      BY <1>2, <2>2, <2>8, <2>12, <3>1 DEF Relay!Monus
    <3> QED  BY <1>2, <2>2, <3>1, <3>2
  <2>15. /\ strikes' \in [Challengers -> Nat] /\ strikes'[c] = IF v THEN strikes[c] ELSE strikes[c] + 1
         /\ \A d \in Challengers : d # c => strikes'[d] = strikes[d]
    BY <1>2, <2>2, <2>8
  <2>16. ASSUME NEW d \in Challengers
         PROVE  open_by'[d] = Cardinality(OpenBy(after, d)) /\ strikes'[d] = Cardinality(Rejected(after, d))
    BY <1>2, <2>10, <2>12, <2>13, <2>15
  <2>17. \A b \in ChallengedAssets : open_on'[b] = Cardinality(OpenOn(after, b))
    BY <1>2, <2>10, <2>12, <2>14
  <2>18. /\ challenges' \in [1..n -> Challenges]
         /\ \A d \in Challengers : /\ open_by'[d] = Cardinality(OpenBy(challenges', d))
                                   /\ strikes'[d] = Cardinality(Rejected(challenges', d))
         /\ \A b \in ChallengedAssets : open_on'[b] = Cardinality(OpenOn(challenges', b))
    BY <2>8, <2>9, <2>16, <2>17
  <2> QED  BY <2>13, <2>14, <2>15, <2>18 DEF ChallengesKept, OpenBy, OpenOn, Rejected
<1>7. CASE \E c \in Challengers : Relay!claim_rewards(c)
  BY <1>4, <1>7 DEF Relay!claim_rewards
<1>8. CASE UNCHANGED cvars
  BY <1>4, <1>8 DEF cvars
<1> QED  BY <1>1, <1>5, <1>6, <1>7, <1>8 DEF Relay!ChallengeCalls, Relay!ChallengeIds

LEMMA ChallengesStart == Relay!Init => ChallengesKept
<1> SUFFICES ASSUME Relay!Init PROVE ChallengesKept
  OBVIOUS
<1>1. /\ challenges = <<>> /\ open_by = [c \in Challengers |-> 0]
      /\ open_on = [a \in ChallengedAssets |-> 0] /\ strikes = [c \in Challengers |-> 0]
  BY DEF Relay!Init
<1>2. challenges \in [1..0 -> Challenges] /\ DOMAIN challenges = {}
  BY <1>1
<1>3. /\ \A c : OpenBy(challenges, c) = {} /\ Rejected(challenges, c) = {}
      /\ \A a : OpenOn(challenges, a) = {}
  BY <1>2 DEF OpenBy, Rejected, OpenOn
<1>4. Cardinality({}) = 0
  BY FS_EmptySet
<1>5. /\ open_by \in [Challengers -> Nat] /\ strikes \in [Challengers -> Nat]
      /\ open_on \in [ChallengedAssets -> Nat]
  BY <1>1
<1>6. /\ \A c \in Challengers : /\ open_by[c] = Cardinality(OpenBy(challenges, c))
                                /\ strikes[c] = Cardinality(Rejected(challenges, c))
      /\ \A a \in ChallengedAssets : open_on[a] = Cardinality(OpenOn(challenges, a))
  BY <1>1, <1>3, <1>4
<1> QED  BY <1>2, <1>5, <1>6 DEF ChallengesKept

LEMMA ChallengesBooked == ChallengesKept => Relay!OpenCountsExact
<1> SUFFICES ASSUME ChallengesKept PROVE Relay!OpenCountsExact
  OBVIOUS
<1>1. ASSUME NEW c \in Challengers
      PROVE  /\ open_by[c] = Relay!Cardinality({id \in DOMAIN challenges :
                                ~challenges[id].resolved /\ challenges[id].challenger = c})
             /\ strikes[c] = Relay!Cardinality({id \in DOMAIN challenges :
                                /\ challenges[id].resolved /\ ~challenges[id].valid
                                /\ challenges[id].challenger = c})
  BY RelayCounts DEF ChallengesKept, OpenBy, Rejected
<1>2. ASSUME NEW a \in ChallengedAssets
      PROVE  open_on[a] = Relay!Cardinality({id \in DOMAIN challenges :
                                ~challenges[id].resolved /\ challenges[id].asset = a})
  BY RelayCounts DEF ChallengesKept, OpenOn
<1> QED  BY <1>1, <1>2 DEF Relay!OpenCountsExact, Relay!ChallengeIds

-----------------------------------------------------------------------------
(* State channels *)

Opened == [deposit : Int, token : ChannelTokens, nonce : Nat, wait : Int]
Positive == {c \in Opened : c.deposit > 0}

\* What each channel locks in token t.
Locked(ch, t) ==
    [s \in ChannelSources |->
       IF ch[s] # Channel!NoChannel /\ ch[s].token = t THEN ch[s].deposit ELSE 0]

\* The largest number of A, or 0.
Newest(A, m) == m \in A \cup {0} /\ \A x \in A : x <= m

ChannelsKept ==
    /\ channel \in [ChannelSources -> {Channel!NoChannel} \cup Positive]
    /\ escrow \in [ChannelTokens -> Int]
    /\ accepted \in [ChannelSources -> SUBSET Nat]
    /\ \A t \in ChannelTokens : escrow[t] = SumOver(Locked(channel, t), ChannelSources)
    /\ \A s \in ChannelSources :
          channel[s] # Channel!NoChannel => Newest(accepted[s], channel[s].nonce)

LEMMA OpenOrNot ==
    /\ \A c \in Positive : c # Channel!NoChannel
    /\ Channel!NoChannel.deposit = 0
<1>1. Channel!NoChannel.deposit = 0
  BY DEF Channel!NoChannel
<1>2. \A c \in Positive : c.deposit # 0
  BY DEF Positive, Opened
<1> QED  BY <1>1, <1>2

\* One channel changes: in token t the locked total moves by as much.
LEMMA LockedMoves ==
    ASSUME NEW ch \in [ChannelSources -> {Channel!NoChannel} \cup Positive],
           NEW s \in ChannelSources, NEW c \in {Channel!NoChannel} \cup Positive,
           NEW t \in ChannelTokens
    PROVE  LET after == [ch EXCEPT ![s] = c]
           IN  /\ SumOver(Locked(ch, t), ChannelSources) \in Int
               /\ SumOver(Locked(after, t), ChannelSources)
                    = SumOver(Locked(ch, t), ChannelSources)
                        + (Locked(after, t)[s] - Locked(ch, t)[s])
<1> DEFINE after == [ch EXCEPT ![s] = c]
<1>1. after \in [ChannelSources -> {Channel!NoChannel} \cup Positive]
      /\ \A r \in ChannelSources : r # s => after[r] = ch[r]
  OBVIOUS
<1> HIDE DEF after
<1>2. ASSUME NEW d \in [ChannelSources -> {Channel!NoChannel} \cup Positive]
      PROVE  Locked(d, t) \in [ChannelSources -> Int]
  <2>1. \A r \in ChannelSources : d[r] # Channel!NoChannel => d[r].deposit \in Int
    BY DEF Positive, Opened
  <2> QED  BY <2>1 DEF Locked
<1>3. \A r \in ChannelSources : r # s => Locked(after, t)[r] = Locked(ch, t)[r]
  BY <1>1 DEF Locked
<1>4. PICK f \in [ChannelSources -> Int] : f = Locked(ch, t)
  BY <1>2
<1>5. PICK g \in [ChannelSources -> Int] : g = Locked(after, t)
  BY <1>1, <1>2
<1>6. \A r \in ChannelSources : r # s => g[r] = f[r]
  BY <1>3, <1>4, <1>5
<1>7. /\ SumOver(f, ChannelSources) \in Int
      /\ SumOver(g, ChannelSources) = SumOver(f, ChannelSources) + (g[s] - f[s])
  BY <1>6, SumChanged, SettlementAssumption
<1> QED  BY <1>4, <1>5, <1>7 DEF after

\* A channel that keeps its deposit and token changes no total.
LEMMA LockedStays ==
    ASSUME NEW ch, NEW d, NEW t,
           \A s \in ChannelSources :
              /\ ch[s] # Channel!NoChannel <=> d[s] # Channel!NoChannel
              /\ ch[s] # Channel!NoChannel => /\ ch[s].deposit = d[s].deposit
                                              /\ ch[s].token = d[s].token
    PROVE  Locked(d, t) = Locked(ch, t)
BY DEF Locked

\* The best nonce of a batch and the stored one.
LEMMA BestNonce ==
    ASSUME NEW b \in Channel!Batches, NEW m \in Nat
    PROVE  LET best == Channel!Max(Channel!ToSet(b) \cup {m})
           IN  /\ best \in Nat /\ best \in Channel!ToSet(b) \cup {m}
               /\ \A x \in Channel!ToSet(b) \cup {m} : x <= best
               /\ Channel!ToSet(b) \subseteq Nat
<1> DEFINE S == Channel!ToSet(b) \cup {m}
<1>1. PICK n \in 1..2 : b \in [1..n -> 1..MaxNonce]
  BY DEF Channel!Batches
<1>2. Channel!ToSet(b) \subseteq 1..MaxNonce
  BY <1>1 DEF Channel!ToSet
<1>3. S \in SUBSET Nat /\ S # {} /\ \A x \in S : x <= MaxNonce + m
  BY <1>2, SettlementAssumption
<1>4. MaxNonce + m \in Nat
  BY SettlementAssumption
<1> HIDE DEF S
<1>5. PICK best \in S : \A x \in S : x <= best
  BY <1>3, <1>4, GreatestNatural
<1>6. \E best2 \in S : \A x \in S : best2 >= x
  BY <1>3, <1>5
<1>7. Channel!Max(S) \in S /\ \A x \in S : Channel!Max(S) >= x
  BY <1>6, Zenon DEF Channel!Max
<1>8. Channel!Max(S) \in Nat /\ \A x \in S : x <= Channel!Max(S)
  BY <1>3, <1>7
<1>9. Channel!ToSet(b) \subseteq Nat
  BY <1>2, SettlementAssumption
<1> QED  BY <1>7, <1>8, <1>9 DEF S

LEMMA ChannelAdvances ==
    ASSUME ChannelsKept, NEW s \in ChannelSources, NEW b \in Channel!Batches,
           Channel!IsOpen(s), Channel!Advance(s, b), escrow' = escrow
    PROVE  ChannelsKept'
<1>1. /\ channel \in [ChannelSources -> {Channel!NoChannel} \cup Positive]
      /\ accepted \in [ChannelSources -> SUBSET Nat] /\ escrow \in [ChannelTokens -> Int]
      /\ channel[s] \in Positive /\ Newest(accepted[s], channel[s].nonce)
  BY DEF ChannelsKept, Channel!IsOpen
<1>2. channel[s].nonce \in Nat
  BY <1>1 DEF Positive, Opened
<1>3. PICK best : best = Channel!Max(Channel!ToSet(b) \cup {channel[s].nonce})
  OBVIOUS
<1>4. /\ best \in Nat /\ best \in Channel!ToSet(b) \cup {channel[s].nonce}
      /\ \A x \in Channel!ToSet(b) \cup {channel[s].nonce} : x <= best
      /\ Channel!ToSet(b) \subseteq Nat
  BY <1>2, <1>3, BestNonce
<1>5. /\ channel' = [channel EXCEPT ![s] = [channel[s] EXCEPT !.nonce = best]]
      /\ accepted' = [accepted EXCEPT ![s] = accepted[s] \cup Channel!ToSet(b)]
      /\ best # channel[s].nonce
  BY <1>1, <1>3 DEF Channel!Advance
<1>6. PICK c : c = [channel[s] EXCEPT !.nonce = best]
  OBVIOUS
<1>7. c \in Positive /\ c.nonce = best /\ c.deposit = channel[s].deposit /\ c.token = channel[s].token
  BY <1>1, <1>4, <1>6 DEF Positive, Opened
<1>8. /\ channel' \in [ChannelSources -> {Channel!NoChannel} \cup Positive]
      /\ channel'[s] = c /\ \A r \in ChannelSources : r # s => channel'[r] = channel[r]
  BY <1>1, <1>5, <1>6, <1>7
<1>9. /\ accepted' \in [ChannelSources -> SUBSET Nat]
      /\ accepted'[s] = accepted[s] \cup Channel!ToSet(b)
      /\ \A r \in ChannelSources : r # s => accepted'[r] = accepted[r]
  BY <1>1, <1>4, <1>5
<1>10. Newest(accepted'[s], best)
  <2>1. \A x \in accepted[s] : x \in Nat /\ x <= channel[s].nonce
    BY <1>1 DEF Newest
  <2>2. channel[s].nonce <= best
    BY <1>4
  <2>3. best \in accepted'[s] \cup {0}
    BY <1>1, <1>4, <1>9 DEF Newest
  <2> QED  BY <1>2, <1>4, <1>9, <2>1, <2>2, <2>3 DEF Newest
<1>11. PICK after : after = channel'
  OBVIOUS
<1>12. \A t : Locked(after, t) = Locked(channel, t)
  <2>1. \A r \in ChannelSources :
           /\ channel[r] # Channel!NoChannel <=> after[r] # Channel!NoChannel
           /\ channel[r] # Channel!NoChannel => /\ channel[r].deposit = after[r].deposit
                                                /\ channel[r].token = after[r].token
    BY <1>1, <1>7, <1>8, <1>11, OpenOrNot
  <2> QED  BY <2>1, LockedStays
<1>13. \A t \in ChannelTokens : escrow'[t] = SumOver(Locked(channel', t), ChannelSources)
  BY <1>11, <1>12 DEF ChannelsKept
<1>14. \A r \in ChannelSources :
          channel'[r] # Channel!NoChannel => Newest(accepted'[r], channel'[r].nonce)
  BY <1>7, <1>8, <1>9, <1>10 DEF ChannelsKept
<1> QED  BY <1>1, <1>8, <1>9, <1>13, <1>14 DEF ChannelsKept, Locked, SumOver, Newest

LEMMA ChannelsStep ==
    ASSUME ChannelsKept, [Channel!Next]_scvars
    PROVE  ChannelsKept'
<1>1. /\ channel \in [ChannelSources -> {Channel!NoChannel} \cup Positive]
      /\ escrow \in [ChannelTokens -> Int]
      /\ accepted \in [ChannelSources -> SUBSET Nat]
      /\ \A t \in ChannelTokens : escrow[t] = SumOver(Locked(channel, t), ChannelSources)
      /\ \A s \in ChannelSources :
            channel[s] # Channel!NoChannel => Newest(accepted[s], channel[s].nonce)
  BY DEF ChannelsKept
<1>2. CASE UNCHANGED scvars
  BY <1>2 DEF ChannelsKept, scvars, Locked, SumOver, Newest
<1>3. ASSUME NEW s \in ChannelSources, NEW d \in Deposits, NEW t \in ChannelTokens,
             Channel!open_channel(s, d, t)
      PROVE  ChannelsKept'
  <2>1. PICK c : c = [deposit |-> d, token |-> t, nonce |-> 0, wait |-> Timeout]
    OBVIOUS
  <2>2. /\ d \in Int /\ d > 0 /\ channel[s] = Channel!NoChannel
        /\ channel' = [channel EXCEPT ![s] = c]
        /\ escrow' = [escrow EXCEPT ![t] = @ + d]
        /\ accepted' = [accepted EXCEPT ![s] = {}]
    BY <1>3, <2>1, SettlementAssumption DEF Channel!open_channel, Channel!IsOpen
  <2>3. c \in Positive /\ c.deposit = d /\ c.token = t /\ c.nonce = 0 /\ c # Channel!NoChannel
    BY <2>1, <2>2, SettlementAssumption, OpenOrNot DEF Positive, Opened
  <2>4. PICK after : after = [channel EXCEPT ![s] = c]
    OBVIOUS
  <2>5. after \in [ChannelSources -> {Channel!NoChannel} \cup Positive] /\ after[s] = c
        /\ \A r \in ChannelSources : r # s => after[r] = channel[r]
    BY <1>1, <2>3, <2>4
  <2>6. ASSUME NEW u \in ChannelTokens
        PROVE  escrow'[u] = SumOver(Locked(after, u), ChannelSources)
    <3>1. /\ SumOver(Locked(channel, u), ChannelSources) \in Int
          /\ SumOver(Locked(after, u), ChannelSources)
               = SumOver(Locked(channel, u), ChannelSources)
                   + (Locked(after, u)[s] - Locked(channel, u)[s])
      <4>1. c \in {Channel!NoChannel} \cup Positive
        BY <2>3
      <4> QED  BY <1>1, <2>4, <4>1, LockedMoves
    <3>2. Locked(channel, u)[s] = 0 /\ Locked(after, u)[s] = IF u = t THEN d ELSE 0
      BY <2>2, <2>3, <2>5 DEF Locked
    <3>3. escrow'[u] = IF u = t THEN escrow[u] + d ELSE escrow[u]
      BY <1>1, <2>2
    <3> QED  BY <1>1, <2>2, <3>1, <3>2, <3>3
  <2>7. /\ channel' \in [ChannelSources -> {Channel!NoChannel} \cup Positive]
        /\ escrow' \in [ChannelTokens -> Int] /\ accepted' \in [ChannelSources -> SUBSET Nat]
        /\ \A u \in ChannelTokens : escrow'[u] = SumOver(Locked(channel', u), ChannelSources)
    <3>1. escrow[t] + d \in Int
      BY <1>1, <2>2
    <3>2. escrow' \in [ChannelTokens -> Int]
      BY <1>1, <2>2, <3>1
    <3> QED  BY <1>1, <2>2, <2>4, <2>5, <2>6, <3>2
  <2>8. \A r \in ChannelSources :
           channel'[r] # Channel!NoChannel => Newest(accepted'[r], channel'[r].nonce)
    BY <1>1, <2>2, <2>3, <2>4, <2>5 DEF Newest
  <2> QED  BY <2>7, <2>8 DEF ChannelsKept, Locked, SumOver, Newest
<1>4. ASSUME NEW s \in ChannelSources, Channel!close_channel(s)
      PROVE  ChannelsKept'
  <2>1. PICK d, t : d = channel[s].deposit /\ t = channel[s].token
    OBVIOUS
  <2>2. /\ channel[s] # Channel!NoChannel
        /\ channel' = [channel EXCEPT ![s] = Channel!NoChannel]
        /\ escrow' = [escrow EXCEPT ![t] = @ - d]
        /\ accepted' = accepted
    BY <1>4, <2>1 DEF Channel!close_channel, Channel!IsOpen
  <2>3. d \in Int /\ t \in ChannelTokens
    BY <1>1, <2>1, <2>2 DEF Positive, Opened
  <2>4. PICK after : after = [channel EXCEPT ![s] = Channel!NoChannel]
    OBVIOUS
  <2>5. /\ after \in [ChannelSources -> {Channel!NoChannel} \cup Positive]
        /\ after[s] = Channel!NoChannel
        /\ \A r \in ChannelSources : r # s => after[r] = channel[r]
    BY <1>1, <2>4
  <2>6. ASSUME NEW u \in ChannelTokens
        PROVE  escrow'[u] = SumOver(Locked(after, u), ChannelSources)
    <3>1. /\ SumOver(Locked(channel, u), ChannelSources) \in Int
          /\ SumOver(Locked(after, u), ChannelSources)
               = SumOver(Locked(channel, u), ChannelSources)
                   + (Locked(after, u)[s] - Locked(channel, u)[s])
      BY <1>1, <2>4, LockedMoves
    <3>2. Locked(after, u)[s] = 0 /\ Locked(channel, u)[s] = IF u = t THEN d ELSE 0
      BY <2>1, <2>2, <2>5 DEF Locked
    <3>3. escrow'[u] = IF u = t THEN escrow[u] - d ELSE escrow[u]
      BY <1>1, <2>2
    <3> QED  BY <1>1, <2>3, <3>1, <3>2, <3>3
  <2>7. /\ channel' \in [ChannelSources -> {Channel!NoChannel} \cup Positive]
        /\ escrow' \in [ChannelTokens -> Int]
        /\ \A u \in ChannelTokens : escrow'[u] = SumOver(Locked(channel', u), ChannelSources)
    <3>1. escrow[t] - d \in Int
      BY <1>1, <2>3
    <3>2. escrow' \in [ChannelTokens -> Int]
      BY <1>1, <2>2, <3>1
    <3> QED  BY <2>2, <2>4, <2>5, <2>6, <3>2
  <2>8. \A r \in ChannelSources :
           channel'[r] # Channel!NoChannel => Newest(accepted'[r], channel'[r].nonce)
    BY <1>1, <2>2, <2>4, <2>5
  <2> QED  BY <1>1, <2>2, <2>7, <2>8 DEF ChannelsKept, Locked, SumOver, Newest
<1>5. ASSUME NEW s \in ChannelSources, NEW b \in Channel!Batches, NEW k \in Keys,
             Channel!submit_batch(s, b, k) \/ Channel!dispute_channel(s, b, k)
      PROVE  ChannelsKept'
  BY <1>5, ChannelAdvances DEF Channel!submit_batch, Channel!dispute_channel
<1>6. CASE Channel!AdvanceClock
  <2>1. /\ channel' = [s \in ChannelSources |->
               IF channel[s] # Channel!NoChannel /\ channel[s].wait > 0
               THEN [channel[s] EXCEPT !.wait = @ - 1] ELSE channel[s]]
        /\ escrow' = escrow /\ accepted' = accepted
    BY <1>6 DEF Channel!AdvanceClock, Channel!IsOpen
  <2>2. PICK after : after = channel'
    OBVIOUS
  <2>3. ASSUME NEW s \in ChannelSources
        PROVE  /\ after[s] \in {Channel!NoChannel} \cup Positive
               /\ channel[s] # Channel!NoChannel <=> after[s] # Channel!NoChannel
               /\ channel[s] # Channel!NoChannel => /\ channel[s].deposit = after[s].deposit
                                                    /\ channel[s].token = after[s].token
                                                    /\ channel[s].nonce = after[s].nonce
    <3>1. CASE channel[s] = Channel!NoChannel
      BY <1>1, <2>1, <2>2, <3>1
    <3>2. CASE channel[s] # Channel!NoChannel /\ ~(channel[s].wait > 0)
      BY <1>1, <2>1, <2>2, <3>2
    <3>3. CASE channel[s] # Channel!NoChannel /\ channel[s].wait > 0
      <4>1. channel[s] \in Positive /\ channel[s].wait - 1 \in Int
        BY <1>1, <3>3 DEF Positive, Opened
      <4>2. after[s] = [channel[s] EXCEPT !.wait = channel[s].wait - 1]
        BY <2>1, <2>2, <3>3
      <4>3. /\ after[s] \in Positive /\ channel[s].deposit = after[s].deposit
            /\ channel[s].token = after[s].token /\ channel[s].nonce = after[s].nonce
        BY <4>1, <4>2 DEF Positive, Opened
      <4> QED  BY <3>3, <4>3, OpenOrNot
    <3> QED  BY <3>1, <3>2, <3>3
  <2>4. \A t : Locked(after, t) = Locked(channel, t)
    BY <2>3, LockedStays
  <2>5. /\ channel' \in [ChannelSources -> {Channel!NoChannel} \cup Positive]
        /\ \A t \in ChannelTokens : escrow'[t] = SumOver(Locked(channel', t), ChannelSources)
        /\ \A s \in ChannelSources :
              channel'[s] # Channel!NoChannel => Newest(accepted'[s], channel'[s].nonce)
    <3>1. after \in [ChannelSources -> {Channel!NoChannel} \cup Positive]
      BY <2>1, <2>2, <2>3
    <3>2. \A s \in ChannelSources :
              after[s] # Channel!NoChannel => Newest(accepted[s], after[s].nonce)
      BY <1>1, <2>3
    <3> QED  BY <1>1, <2>1, <2>2, <2>4, <3>1, <3>2
  <2> QED  BY <1>1, <2>1, <2>5 DEF ChannelsKept, Locked, SumOver, Newest
<1> QED  BY <1>2, <1>3, <1>4, <1>5, <1>6 DEF Channel!Next

LEMMA ChannelsStart == Channel!Init => ChannelsKept
<1> SUFFICES ASSUME Channel!Init PROVE ChannelsKept
  OBVIOUS
<1>1. /\ channel = [s \in ChannelSources |-> Channel!NoChannel]
      /\ escrow = [t \in ChannelTokens |-> 0] /\ accepted = [s \in ChannelSources |-> {}]
  BY DEF Channel!Init
<1>2. ASSUME NEW t \in ChannelTokens
      PROVE  SumOver(Locked(channel, t), ChannelSources) = 0
  <2>1. \A s \in ChannelSources : channel[s] = Channel!NoChannel
    BY <1>1
  <2>2. Locked(channel, t) = [s \in ChannelSources |-> 0]
    BY <2>1 DEF Locked
  <2>3. PICK f : f = [s \in ChannelSources |-> 0]
    OBVIOUS
  <2>4. f \in [ChannelSources -> Int] /\ \A s \in ChannelSources : f[s] = 0
    BY <2>3
  <2> QED  BY <2>2, <2>3, <2>4, SumOfZeros, SettlementAssumption
<1> QED  BY <1>1, <1>2 DEF ChannelsKept

LEMMA ChannelsBooked == ChannelsKept => Channel!ChannelsSound
<1> SUFFICES ASSUME ChannelsKept PROVE Channel!ChannelsSound
  OBVIOUS
<1>1. ASSUME NEW t \in ChannelTokens
      PROVE  escrow[t] = Channel!SumFunction([s \in ChannelSources |->
               IF Channel!IsOpen(s) /\ channel[s].token = t THEN channel[s].deposit ELSE 0])
  <2>1. [s \in ChannelSources |->
               IF Channel!IsOpen(s) /\ channel[s].token = t THEN channel[s].deposit ELSE 0]
          = Locked(channel, t)
    BY DEF Locked, Channel!IsOpen
  <2>2. Channel!SumFunction(Locked(channel, t)) = SumOver(Locked(channel, t), DOMAIN Locked(channel, t))
    BY DepositsAreSummed
  <2>3. DOMAIN Locked(channel, t) = ChannelSources
    BY DEF Locked
  <2> QED  BY <2>1, <2>2, <2>3 DEF ChannelsKept
<1>2. ASSUME NEW s \in ChannelSources, Channel!IsOpen(s)
      PROVE  channel[s].nonce = Channel!Max(accepted[s] \cup {0})
  <2>1. PICK m : m = channel[s].nonce
    OBVIOUS
  <2>2. PICK S : S = accepted[s] \cup {0}
    OBVIOUS
  <2>3. m \in S /\ S \subseteq Nat /\ \A x \in S : x <= m
    BY <1>2, <2>1, <2>2 DEF ChannelsKept, Channel!IsOpen, Newest
  <2>4. m \in S /\ \A x \in S : m >= x
    BY <2>3
  <2>5. Channel!Max(S) \in S /\ \A x \in S : Channel!Max(S) >= x
    BY <2>4, Zenon DEF Channel!Max
  <2>6. PICK M : M = Channel!Max(S)
    OBVIOUS
  <2>7. M \in Nat /\ m \in Nat /\ M <= m /\ M >= m
    BY <2>3, <2>5, <2>6
  <2>8. M = m
    BY <2>7
  <2> QED  BY <2>1, <2>2, <2>6, <2>8
<1> QED  BY <1>1, <1>2 DEF Channel!ChannelsSound

-----------------------------------------------------------------------------
(* Sums over a list *)

\* P[k] is the sum of the first k terms.
Prefixes(f, n, P) ==
    /\ P[0] = 0 /\ \A k \in 0..n : P[k] \in Int
    /\ \A k \in 1..n : P[k] = f[k] + P[k - 1]

LEMMA SumPrefixes ==
    ASSUME NEW n \in Nat, NEW f \in [1..n -> Int]
    PROVE  \E P : Prefixes(f, n, P) /\ SumOver(f, 1..n) = P[n]
<1>1. PICK A : Additive(f, 1..n, A) /\ SumOver(f, 1..n) = A[1..n]
  BY CountedIds, SumIsAdditive
<1>2. PICK P : P = [k \in 0..n |-> A[1..k]]
  OBVIOUS
<1>3. P[0] = 0
  <2>1. 1..0 = {}
    OBVIOUS
  <2> QED  BY <1>1, <1>2, <2>1 DEF Additive
<1>4. \A k \in 0..n : P[k] \in Int
  BY <1>1, <1>2 DEF Additive
<1>5. ASSUME NEW k \in 1..n
      PROVE  P[k] = f[k] + P[k - 1]
  <2>1. 1..k \in SUBSET (1..n) /\ k \in 1..k /\ (1..k) \ {k} = 1..(k - 1)
    OBVIOUS
  <2>2. A[1..k] = f[k] + A[(1..k) \ {k}]
    BY <1>1, <2>1 DEF Additive
  <2>3. P[k] = A[1..k] /\ P[k - 1] = A[1..(k - 1)]
    BY <1>2
  <2> QED  BY <2>1, <2>2, <2>3
<1>6. SumOver(f, 1..n) = P[n]
  BY <1>1, <1>2
<1> QED  BY <1>3, <1>4, <1>5, <1>6 DEF Prefixes

\* g is f with x put in at place p.
PutIn(f, n, p, x, g) ==
    /\ \A i \in 1..n : i < p => g[i] = f[i]
    /\ g[p] = x
    /\ \A i \in 1..n : i >= p => g[i + 1] = f[i]

LEMMA SumPutIn ==
    ASSUME NEW n \in Nat, NEW f \in [1..n -> Int], NEW p \in 1..(n + 1), NEW x \in Int,
           NEW g \in [1..(n + 1) -> Int], PutIn(f, n, p, x, g)
    PROVE  /\ SumOver(f, 1..n) \in Int
           /\ SumOver(g, 1..(n + 1)) = SumOver(f, 1..n) + x
<1>1. PICK P : Prefixes(f, n, P) /\ SumOver(f, 1..n) = P[n]
  BY SumPrefixes
<1>2. PICK m \in Nat : m = n + 1
  OBVIOUS
<1>3. PICK Q : Prefixes(g, m, Q) /\ SumOver(g, 1..m) = Q[m]
  BY <1>2, SumPrefixes
<1> DEFINE G == {k \in 0..m : Q[k] = IF k < p THEN P[k] ELSE P[k - 1] + x}
<1>4. 0 \in G
  BY <1>1, <1>2, <1>3 DEF Prefixes
<1>5. ASSUME NEW k \in 0..m, k \in G, k < m
      PROVE  k + 1 \in G
  <2>1. k \in 0..n /\ k + 1 \in 1..m /\ Q[k + 1] = g[k + 1] + Q[k]
    <3>1. k \in 0..n /\ k + 1 \in 1..m /\ (k + 1) - 1 = k
      BY <1>2, <1>5
    <3>2. Q[k + 1] = g[k + 1] + Q[(k + 1) - 1]
      BY <1>3, <3>1 DEF Prefixes
    <3> QED  BY <3>1, <3>2
  <2>2. P[k] \in Int
    BY <1>1, <2>1 DEF Prefixes
  <2>3. CASE k + 1 < p
    <3>1. k + 1 \in 1..n /\ P[k + 1] = f[k + 1] + P[k] /\ g[k + 1] = f[k + 1]
      BY <1>1, <1>2, <2>1, <2>3 DEF Prefixes, PutIn
    <3> QED  BY <1>5, <2>1, <2>3, <3>1
  <2>4. CASE k + 1 = p
    <3>1. Q[k] = P[k] /\ g[k + 1] = x
      BY <1>5, <2>1, <2>4 DEF PutIn
    <3> QED  BY <1>2, <2>1, <2>2, <2>4, <3>1
  <2>5. CASE k + 1 > p
    <3>1. k \in 1..n /\ k >= p /\ P[k] = f[k] + P[k - 1] /\ g[k + 1] = f[k] /\ P[k - 1] \in Int
      <4>1. k \in 1..n /\ k >= p /\ k - 1 \in 0..n
        BY <1>2, <2>1, <2>5
      <4>2. P[k] = f[k] + P[k - 1] /\ P[k - 1] \in Int
        BY <1>1, <4>1 DEF Prefixes
      <4>3. g[k + 1] = f[k]
        BY <4>1 DEF PutIn
      <4> QED  BY <4>1, <4>2, <4>3
    <3>2. Q[k] = P[k - 1] + x /\ f[k] \in Int
      BY <1>5, <2>5, <3>1
    <3>3. Q[k + 1] = P[k] + x
      <4>1. PICK a \in Int, b \in Int : a = f[k] /\ b = P[k - 1]
        BY <3>1, <3>2
      <4> QED  BY <2>1, <3>1, <3>2, <4>1
    <3>4. k + 1 \in 0..m /\ (k + 1) - 1 = k /\ ~(k + 1 < p)
      BY <2>1, <2>5
    <3> QED  BY <3>3, <3>4
  <2> QED  BY <1>2, <2>1, <2>3, <2>4, <2>5
<1> HIDE DEF G
<1>6. m \in G
  <2>1. \A k \in 0..m : k \in G
    BY <1>4, <1>5, Climb
  <2> QED  BY <2>1
<1>7. Q[m] = P[n] + x /\ P[n] \in Int
  BY <1>1, <1>2, <1>6 DEF G, Prefixes
<1> QED  BY <1>1, <1>2, <1>3, <1>7

LEMMA SumIsInteger ==
    ASSUME NEW S, IsFiniteSet(S), NEW f \in [S -> Int]
    PROVE  SumOver(f, S) \in Int
<1>1. PICK A : Additive(f, S, A) /\ SumOver(f, S) = A[S]
  BY SumIsAdditive, SMTT(30)
<1>2. A[S] \in Int
  BY <1>1 DEF Additive
<1> QED  BY <1>1, <1>2

\* g is what is left of f without its first m terms.
CutOff(f, n, m, g, l, P) ==
    /\ n \in Nat /\ m \in Nat /\ l \in Nat /\ n = m + l
    /\ f \in [1..n -> Int] /\ g \in [1..l -> Int] /\ \A i \in 1..l : g[i] = f[m + i]
    /\ Prefixes(f, n, P) /\ SumOver(f, 1..n) = P[n]

LEMMA SumCut ==
    ASSUME NEW f, NEW n, NEW m, NEW g, NEW l, NEW P, CutOff(f, n, m, g, l, P)
    PROVE  SumOver(g, 1..l) \in Int /\ SumOver(f, 1..n) = P[m] + SumOver(g, 1..l)
<1> USE DEF CutOff
<1>1. m \in 0..n
  OBVIOUS
<1>2. PICK Q : Prefixes(g, l, Q) /\ SumOver(g, 1..l) = Q[l]
  BY SumPrefixes
<1> DEFINE G == {k \in 0..l : P[m + k] = P[m] + Q[k]}
<1>3. P[m] \in Int
  BY <1>1 DEF Prefixes
<1>4. 0 \in G
  BY <1>2, <1>3 DEF Prefixes
<1>5. ASSUME NEW k \in 0..l, k \in G, k < l
      PROVE  k + 1 \in G
  <2>1. /\ k + 1 \in 1..l /\ m + (k + 1) \in 1..n /\ (m + (k + 1)) - 1 = m + k
        /\ (k + 1) - 1 = k
    BY <1>1, <1>5
  <2>2. Q[k + 1] = g[k + 1] + Q[k] /\ Q[k] \in Int
    BY <1>2, <2>1 DEF Prefixes
  <2>3. P[m + (k + 1)] = f[m + (k + 1)] + P[m + k]
    BY <2>1 DEF Prefixes
  <2>4. g[k + 1] = f[m + (k + 1)] /\ f[m + (k + 1)] \in Int
    BY <1>1, <2>1
  <2> QED  BY <1>3, <1>5, <2>1, <2>2, <2>3, <2>4
<1> HIDE DEF G
<1>6. l \in G
  <2>1. \A k \in 0..l : k \in G
    BY <1>4, <1>5, Climb
  <2> QED  BY <2>1
<1>7. P[n] = P[m] + Q[l] /\ Q[l] \in Int
  BY <1>2, <1>6 DEF G, Prefixes
<1> QED  BY <1>2, <1>7

-----------------------------------------------------------------------------
(* The fee market *)

Paid == [source : FeeSources, fee : Int, stamp : Int]
FeesOf(q) == [i \in 1..Len(q) |-> q[i].fee]
InOrder(q) == \A i, j \in 1..Len(q) : i < j => ~Subscribe!Precedes(q[j], q[i])

FeesKept ==
    /\ queue \in Seq(Paid) /\ InOrder(queue)
    /\ balance \in [FeeSources -> Int]
    /\ fm_treasury \in Int /\ pool \in Int /\ ratio \in Int
    /\ pool = SumOver(FeesOf(queue), 1..Len(queue)) + SumOver(balance, FeeSources) + fm_treasury

\* find_insert_position: nothing before the place gives way to the newcomer, and
\* the submission at the place does.
LEMMA InsertPosition ==
    ASSUME NEW q \in Seq(Paid), NEW new \in Paid
    PROVE  LET p == Subscribe!find_insert_position(q, new)
           IN  /\ p \in 1..(Len(q) + 1)
               /\ \A i \in 1..Len(q) : i < p => ~Subscribe!Precedes(new, q[i])
               /\ p <= Len(q) => Subscribe!Precedes(new, q[p])
<1> DEFINE S == {i \in 1..Len(q) : Subscribe!Precedes(new, q[i])} \cup {Len(q) + 1}
<1>1. S \in SUBSET Nat /\ S # {} /\ Len(q) \in Nat /\ S \subseteq 1..(Len(q) + 1)
  OBVIOUS
<1>2. PICK least \in S : \A m \in S : least <= m
  <2> HIDE DEF S
  <2> QED  BY <1>1, LeastNatural
<1>3. PICK p : p = Subscribe!Min(S)
  OBVIOUS
<1>4. p \in S /\ \A m \in S : p <= m
  <2> HIDE DEF S
  <2> QED  BY <1>2, <1>3, Zenon DEF Subscribe!Min
<1>5. Subscribe!find_insert_position(q, new) = p
  BY <1>3 DEF Subscribe!find_insert_position
<1>6. p \in 1..(Len(q) + 1)
  BY <1>1, <1>4
<1>7. \A i \in 1..Len(q) : i < p => ~Subscribe!Precedes(new, q[i])
  <2> SUFFICES ASSUME NEW i \in 1..Len(q), i < p, Subscribe!Precedes(new, q[i]) PROVE FALSE
    OBVIOUS
  <2>1. i \in S
    OBVIOUS
  <2> HIDE DEF S
  <2>2. p <= i
    BY <1>4, <2>1
  <2> QED  BY <1>6, <2>2
<1>8. p <= Len(q) => Subscribe!Precedes(new, q[p])
  BY <1>1, <1>4
<1> QED  BY <1>5, <1>6, <1>7, <1>8

\* Precedence is a strict order.
LEMMA PrecedenceLaw ==
    ASSUME NEW a \in Paid, NEW b \in Paid, NEW c \in Paid
    PROVE  /\ ~(Subscribe!Precedes(a, b) /\ Subscribe!Precedes(b, a))
           /\ Subscribe!Precedes(a, b) /\ Subscribe!Precedes(b, c) => Subscribe!Precedes(a, c)
<1>1. /\ a.fee \in Int /\ b.fee \in Int /\ c.fee \in Int
      /\ a.stamp \in Int /\ b.stamp \in Int /\ c.stamp \in Int
  BY DEF Paid
<1> QED  BY <1>1 DEF Subscribe!Precedes

\* The list with the newcomer at its place.
LEMMA InsertedList ==
    ASSUME NEW q \in Seq(Paid), NEW new \in Paid, NEW p \in 1..(Len(q) + 1),
           NEW r, r = Subscribe!InsertAt(q, p, new)
    PROVE  /\ r \in Seq(Paid) /\ Len(r) = Len(q) + 1
           /\ \A i \in 1..Len(q) : i < p => r[i] = q[i]
           /\ r[p] = new
           /\ \A i \in 1..Len(q) : i >= p => r[i + 1] = q[i]
<1>1. PICK n \in Nat : n = Len(q)
  OBVIOUS
<1>2. PICK a : a = SubSeq(q, 1, p - 1)
  OBVIOUS
<1>3. PICK b : b = SubSeq(q, p, n)
  OBVIOUS
<1>4. a \in Seq(Paid) /\ Len(a) = p - 1 /\ \A i \in 1..(p - 1) : a[i] = q[i]
  BY <1>1, <1>2
<1>5. b \in Seq(Paid) /\ Len(b) = (n - p) + 1 /\ \A i \in 1..((n - p) + 1) : b[i] = q[(p + i) - 1]
  BY <1>1, <1>3
<1>6. r = a \o <<new>> \o b
  BY <1>1, <1>2, <1>3 DEF Subscribe!InsertAt
<1>7. PICK ab : ab = a \o <<new>>
  OBVIOUS
<1>8. ab \in Seq(Paid) /\ Len(ab) = p /\ ab[p] = new /\ \A i \in 1..(p - 1) : ab[i] = q[i]
  BY <1>4, <1>7
<1>9. r = ab \o b
  BY <1>6, <1>7
<1>10. r \in Seq(Paid) /\ Len(r) = n + 1
  <2>0. ab \in Seq(Paid) /\ b \in Seq(Paid)
    BY <1>5, <1>8
  <2>1. r \in Seq(Paid) /\ Len(r) = Len(ab) + Len(b)
    BY <1>9, <2>0
  <2>2. p \in Int /\ n \in Int
    OBVIOUS
  <2> QED  BY <1>5, <1>8, <2>1, <2>2
<1>11. \A i \in 1..p : r[i] = ab[i]
  BY <1>5, <1>8, <1>9
<1>12. ASSUME NEW i \in 1..n, i >= p
       PROVE  r[i + 1] = q[i]
  <2>1. PICK j : j = (i + 1) - p
    OBVIOUS
  <2>2. j \in 1..Len(b) /\ p + j = i + 1 /\ (p + j) - 1 = i
    BY <1>1, <1>5, <1>12, <2>1
  <2>3. r[p + j] = b[j]
    BY <1>5, <1>8, <1>9, <2>2
  <2> QED  BY <1>5, <2>2, <2>3
<1> QED  BY <1>1, <1>8, <1>10, <1>11, <1>12

LEMMA EnqueuedFee ==
    ASSUME NEW q \in Seq(Paid), InOrder(q), NEW new \in Paid, NEW r,
           r = Subscribe!InsertAt(q, Subscribe!find_insert_position(q, new), new)
    PROVE  /\ r \in Seq(Paid) /\ InOrder(r)
           /\ SumOver(FeesOf(q), 1..Len(q)) \in Int
           /\ SumOver(FeesOf(r), 1..Len(r)) = SumOver(FeesOf(q), 1..Len(q)) + new.fee
<1>1. PICK p : p = Subscribe!find_insert_position(q, new)
  OBVIOUS
<1>2. /\ p \in 1..(Len(q) + 1)
      /\ \A i \in 1..Len(q) : i < p => ~Subscribe!Precedes(new, q[i])
      /\ p <= Len(q) => Subscribe!Precedes(new, q[p])
  BY <1>1, InsertPosition
<1>3. /\ r \in Seq(Paid) /\ Len(r) = Len(q) + 1
      /\ \A i \in 1..Len(q) : i < p => r[i] = q[i]
      /\ r[p] = new
      /\ \A i \in 1..Len(q) : i >= p => r[i + 1] = q[i]
  BY <1>1, <1>2, InsertedList
<1>4. PICK n \in Nat : n = Len(q)
  OBVIOUS
<1>5. \A i \in 1..n : q[i] \in Paid
  BY <1>4
<1>6. ASSUME NEW j \in 1..n, j >= p
      PROVE  ~Subscribe!Precedes(q[j], new)
  <2>1. p \in 1..n /\ Subscribe!Precedes(new, q[p]) /\ q[p] \in Paid
    BY <1>2, <1>4, <1>5, <1>6
  <2>2. CASE j = p
    BY <1>5, <2>1, <2>2, PrecedenceLaw
  <2>3. CASE j # p
    <3>1. ~Subscribe!Precedes(q[j], q[p])
      BY <1>4, <1>6, <2>1, <2>3 DEF InOrder
    <3> QED  BY <1>5, <2>1, <3>1, PrecedenceLaw
  <2> QED  BY <2>2, <2>3
<1>7. InOrder(r)
  <2> SUFFICES ASSUME NEW i \in 1..(n + 1), NEW j \in 1..(n + 1), i < j
               PROVE  ~Subscribe!Precedes(r[j], r[i])
    BY <1>3, <1>4 DEF InOrder
  <2>1. CASE j < p
    <3>1. i \in 1..n /\ j \in 1..n /\ i < p
      BY <1>2, <1>4, <2>1
    <3> QED  BY <1>3, <1>4, <2>1, <3>1 DEF InOrder
  <2>2. CASE j = p
    <3>1. i \in 1..n /\ i < p
      BY <1>2, <1>4, <2>2
    <3> QED  BY <1>2, <1>3, <1>4, <2>2, <3>1
  <2>3. CASE j > p
    <3>1. PICK k \in 1..n : k = j - 1
      BY <1>2, <1>4, <2>3
    <3>2. k >= p /\ r[j] = q[k]
      <4>1. k + 1 = j /\ k >= p
        BY <1>2, <2>3, <3>1
      <4> QED  BY <1>3, <1>4, <4>1
    <3>3. CASE i < p
      <4>1. i \in 1..n /\ i < k
        BY <1>2, <1>4, <2>3, <3>1, <3>2, <3>3
      <4> QED  BY <1>3, <1>4, <3>2, <3>3, <4>1 DEF InOrder
    <3>4. CASE i = p
      BY <1>3, <1>6, <3>2, <3>4
    <3>5. CASE i > p
      <4>1. PICK l \in 1..n : l = i - 1
        BY <1>2, <1>4, <3>5
      <4>2. l + 1 = i /\ l >= p /\ l < k
        BY <1>2, <3>1, <3>5, <4>1
      <4>3. r[i] = q[l]
        BY <1>3, <1>4, <4>2
      <4> QED  BY <1>4, <3>2, <4>2, <4>3 DEF InOrder
    <3> QED  BY <1>2, <3>3, <3>4, <3>5
  <2> QED  BY <1>2, <2>1, <2>2, <2>3
<1>8. PICK f \in [1..n -> Int] : f = FeesOf(q)
  BY <1>4, <1>5 DEF FeesOf, Paid
<1>9. PICK g \in [1..(n + 1) -> Int] : g = FeesOf(r)
  <2>1. Len(r) = n + 1 /\ \A i \in 1..(n + 1) : r[i] \in Paid
    BY <1>3, <1>4
  <2>2. \A i \in 1..(n + 1) : r[i].fee \in Int
    BY <2>1 DEF Paid
  <2> QED  BY <2>1, <2>2 DEF FeesOf
<1>10. PICK x \in Int : x = new.fee
  BY DEF Paid
<1>11. PutIn(f, n, p, x, g)
  BY <1>2, <1>3, <1>4, <1>8, <1>9, <1>10 DEF PutIn, FeesOf
<1>12. SumOver(f, 1..n) \in Int /\ SumOver(g, 1..(n + 1)) = SumOver(f, 1..n) + x
  BY <1>2, <1>4, <1>11, SumPutIn
<1> QED  BY <1>3, <1>4, <1>7, <1>8, <1>9, <1>10, <1>12

\* The rounds of the loop of process_fee_market: the books after each.
Books == [balance : [FeeSources -> Int], treasury : Int]
Serving(q, n, start, w) ==
    w = [k \in 0..n |-> IF k = 0 THEN start ELSE Subscribe!distribute(w[k - 1], q[k])]

\* One round credits the whole fee, whatever the division rounds off.
LEMMA OneRound ==
    ASSUME ratio \in Int, NEW b \in Books, NEW sub \in Paid
    PROVE  LET c == Subscribe!distribute(b, sub)
           IN  /\ c \in Books
               /\ SumOver(b.balance, FeeSources) \in Int
               /\ SumOver(c.balance, FeeSources) + c.treasury
                  = (SumOver(b.balance, FeeSources) + b.treasury) + sub.fee
<1>1. PICK s \in FeeSources, fee \in Int : s = sub.source /\ fee = sub.fee
  BY DEF Paid
<1>2. PICK x \in Int : x = Subscribe!source_share(fee)
  BY DEF Subscribe!source_share
<1>3. Subscribe!treasury_share(fee) = fee - x
  BY <1>2 DEF Subscribe!treasury_share
<1>4. PICK f \in [FeeSources -> Int] : f = b.balance
  BY DEF Books
<1>5. PICK t \in Int : t = b.treasury
  BY DEF Books
<1>6. PICK g : g = [f EXCEPT ![s] = @ + x]
  OBVIOUS
<1>7. PICK c : c = Subscribe!distribute(b, sub)
  OBVIOUS
<1>8. c = [balance |-> g, treasury |-> t + (fee - x)]
  BY <1>1, <1>2, <1>3, <1>4, <1>5, <1>6, <1>7 DEF Subscribe!distribute
<1>9. g \in [FeeSources -> Int] /\ g[s] = f[s] + x /\ \A r \in FeeSources : r # s => g[r] = f[r]
  BY <1>6
<1>10. SumOver(f, FeeSources) \in Int /\ SumOver(g, FeeSources) = SumOver(f, FeeSources) + (g[s] - f[s])
  BY <1>9, SettlementAssumption, SumChanged
<1>11. c \in Books /\ c.balance = g /\ c.treasury = t + (fee - x)
  BY <1>8, <1>9 DEF Books
<1>12. PICK a \in Int, z \in Int : a = SumOver(f, FeeSources) /\ z = f[s]
  BY <1>10
<1>13. SumOver(g, FeeSources) = a + x
  BY <1>9, <1>10, <1>12
<1>14. SumOver(g, FeeSources) + (t + (fee - x)) = (a + t) + fee
  BY <1>13
<1> QED  BY <1>1, <1>4, <1>5, <1>7, <1>11, <1>12, <1>14

LEMMA ServingExists ==
    ASSUME ratio \in Int, NEW q \in Seq(Paid), NEW n \in 0..Len(q), NEW start \in Books
    PROVE  \E w : Serving(q, n, start, w)
<1>1. n \in Nat /\ \A k \in 1..n : q[k] \in Paid
  OBVIOUS
<1>2. PICK F : F = [xy \in (1..n) \X Books |-> Subscribe!distribute(xy[2], q[xy[1]])]
  OBVIOUS
<1>3. \A k \in 1..n, b \in Books : Subscribe!distribute(b, q[k]) \in Books
  BY <1>1, OneRound
<1>4. F \in [(1..n) \X Books -> Books]
  BY <1>2, <1>3
<1>5. PICK it : ListFold(n, Books, F, start, it)
  BY <1>1, <1>4, ListFoldExists
<1>6. PICK w : w = [k \in 0..n |-> it[1..k]]
  OBVIOUS
<1>7. w[0] = start
  <2>1. 1..0 = {}
    OBVIOUS
  <2> QED  BY <1>1, <1>5, <1>6, <2>1 DEF ListFold
<1>8. ASSUME NEW k \in 0..n, k # 0
      PROVE  w[k] = Subscribe!distribute(w[k - 1], q[k])
  <2>0. n \in Nat
    BY <1>1
  <2>1. /\ k \in 1..n /\ k - 1 \in 0..n /\ k \in Nat
        /\ 1..k \in SUBSET (1..n) /\ 1..k # {} /\ 1..(k - 1) \in SUBSET (1..n)
    <3>1. k \in 1..n /\ k - 1 \in 0..n /\ k \in Nat
      BY <1>8, <2>0
    <3>2. \A i \in 1..k : i \in 1..n
      BY <2>0, <3>1
    <3>3. 1 \in 1..k /\ \A i \in 1..(k - 1) : i \in 1..k
      BY <3>1
    <3> QED  BY <3>1, <3>2, <3>3
  <2>2. Top(1..k) = k /\ (1..k) \ {k} = 1..(k - 1)
    BY <1>8, <2>1, PrefixStep
  <2>3. it[1..k] = F[<<k, it[1..(k - 1)]>>] /\ it[1..(k - 1)] \in Books
    BY <1>5, <2>1, <2>2 DEF ListFold
  <2>4. PICK b \in Books : b = it[1..(k - 1)]
    BY <2>3
  <2>5. F[<<k, b>>] = Subscribe!distribute(b, q[k])
    BY <1>2, <2>1
  <2>6. w[k] = it[1..k] /\ w[k - 1] = it[1..(k - 1)]
    BY <1>6, <2>1
  <2> QED  BY <2>3, <2>4, <2>5, <2>6
<1>9. w = [k \in 0..n |-> IF k = 0 THEN start ELSE Subscribe!distribute(w[k - 1], q[k])]
  BY <1>6, <1>7, <1>8
<1> QED  BY <1>9 DEF Serving

\* All the rounds together credit the fees of the submissions they serve.
LEMMA ServedFees ==
    ASSUME ratio \in Int, NEW q \in Seq(Paid), NEW n \in 0..Len(q), NEW start \in Books,
           NEW w, Serving(q, n, start, w), NEW P, Prefixes(FeesOf(q), Len(q), P)
    PROVE  /\ w[n] \in Books
           /\ SumOver(start.balance, FeeSources) \in Int
           /\ SumOver(w[n].balance, FeeSources) + w[n].treasury
              = (SumOver(start.balance, FeeSources) + start.treasury) + P[n]
<1> DEFINE Total(b) == SumOver(b.balance, FeeSources) + b.treasury
           G == {k \in 0..n : w[k] \in Books /\ Total(w[k]) = Total(start) + P[k]}
<1>1. \A b \in Books : SumOver(b.balance, FeeSources) \in Int /\ b.treasury \in Int
  <2>1. \A b \in Books : b.balance \in [FeeSources -> Int] /\ b.treasury \in Int
    BY DEF Books
  <2>2. ASSUME NEW f \in [FeeSources -> Int] PROVE SumOver(f, FeeSources) \in Int
    BY SettlementAssumption, SumIsInteger
  <2> QED  BY <2>1, <2>2
<1>2. n \in Nat /\ \A k \in 1..n : q[k] \in Paid
  OBVIOUS
<1>3. 0 \in G
  <2>1. w[0] = start
    BY <1>2 DEF Serving
  <2>2. Total(start) \in Int /\ P[0] = 0
    BY <1>1 DEF Prefixes
  <2> QED  BY <1>2, <2>1, <2>2
<1>4. ASSUME NEW k \in 0..n, k \in G, k < n
      PROVE  k + 1 \in G
  <2>1. k + 1 \in 0..n /\ k + 1 # 0 /\ (k + 1) - 1 = k /\ k + 1 \in 1..n /\ k + 1 \in 1..Len(q)
    BY <1>2, <1>4
  <2>2. w[k + 1] = Subscribe!distribute(w[k], q[k + 1])
    BY <2>1 DEF Serving
  <2>3. P[k + 1] = q[k + 1].fee + P[k] /\ P[k] \in Int
    BY <2>1 DEF Prefixes, FeesOf
  <2>4. q[k + 1].fee \in Int
    BY <1>2, <2>1 DEF Paid
  <2>5. w[k + 1] \in Books /\ Total(w[k + 1]) = Total(w[k]) + q[k + 1].fee
    BY <1>2, <1>4, <2>1, <2>2, OneRound
  <2>6. Total(start) \in Int
    BY <1>1
  <2> HIDE DEF Total
  <2> QED  BY <1>4, <2>1, <2>3, <2>4, <2>5, <2>6
<1> HIDE DEF G
<1>5. n \in G
  <2>1. \A k \in 0..n : k \in G
    BY <1>2, <1>3, <1>4, Climb
  <2> QED  BY <1>2, <2>1
<1> QED  BY <1>1, <1>5 DEF G

\* What is left of the queue once its head is served.
LEMMA CutQueue ==
    ASSUME NEW q \in Seq(Paid), InOrder(q), NEW n \in 0..Len(q), NEW r,
           r = SubSeq(q, n + 1, Len(q)), NEW P, Prefixes(FeesOf(q), Len(q), P),
           SumOver(FeesOf(q), 1..Len(q)) = P[Len(q)]
    PROVE  /\ r \in Seq(Paid) /\ InOrder(r)
           /\ SumOver(FeesOf(r), 1..Len(r)) \in Int
           /\ SumOver(FeesOf(q), 1..Len(q)) = P[n] + SumOver(FeesOf(r), 1..Len(r))
<1>1. PICK l \in Nat : l = Len(q)
  OBVIOUS
<1>2. PICK m \in Nat : m = l - n
  <2>1. n \in 0..l
    BY <1>1
  <2> QED  BY <2>1
<1>3. r \in Seq(Paid) /\ Len(r) = m
  BY <1>1, <1>2
<1>4. \A i \in 1..m : n + i \in 1..l
  BY <1>1, <1>2
<1>5. \A i \in 1..m : r[i] = q[n + i]
  BY <1>1, <1>2
<1>6. InOrder(r)
  BY <1>1, <1>3, <1>4, <1>5 DEF InOrder
<1>7. \A i \in 1..l : q[i].fee \in Int
  <2>1. \A i \in 1..l : q[i] \in Paid
    BY <1>1
  <2> QED  BY <2>1 DEF Paid
<1>8. PICK f \in [1..l -> Int] : f = FeesOf(q)
  BY <1>1, <1>7 DEF FeesOf
<1>9. PICK g \in [1..m -> Int] : g = FeesOf(r)
  BY <1>3, <1>4, <1>5, <1>7 DEF FeesOf
<1>10. \A i \in 1..m : g[i] = f[n + i]
  BY <1>1, <1>3, <1>4, <1>5, <1>8, <1>9 DEF FeesOf
<1>11. /\ SumOver(g, 1..m) \in Int
       /\ SumOver(f, 1..l) = P[n] + SumOver(g, 1..m)
  <2>1. n \in 0..l /\ Prefixes(f, l, P) /\ SumOver(f, 1..l) = P[l]
    BY <1>1, <1>8
  <2>2. l = n + m /\ n \in Nat
    BY <1>2, <2>1
  <2>3. CutOff(f, l, n, g, m, P)
    BY <1>10, <2>1, <2>2 DEF CutOff
  <2> QED  BY <2>3, SumCut
<1> QED  BY <1>1, <1>3, <1>6, <1>8, <1>9, <1>11

LEMMA FeesStep ==
    ASSUME FeesKept, [Subscribe!MarketCalls]_fvars
    PROVE  FeesKept'
<1> USE DEF FeesKept
<1>1. CASE UNCHANGED fvars
  BY <1>1 DEF fvars, FeesOf, InOrder, SumOver, Summing, SumStep, Subscribe!Precedes
<1>2. ASSUME NEW s \in FeeSources, NEW f \in Amounts, NEW t \in Stamps,
             Subscribe!enqueue_submission(s, f, t)
      PROVE  FeesKept'
  <2>1. PICK new : new = [source |-> s, fee |-> f, stamp |-> t]
    OBVIOUS
  <2>2. new \in Paid /\ new.fee = f /\ f \in Int
    BY <2>1, SettlementAssumption DEF Paid
  <2>3. /\ queue' = Subscribe!InsertAt(queue, Subscribe!find_insert_position(queue, new), new)
        /\ pool' = pool + f
        /\ balance' = balance /\ fm_treasury' = fm_treasury /\ ratio' = ratio
    BY <1>2, <2>1 DEF Subscribe!enqueue_submission
  <2>4. PICK r : r = queue'
    OBVIOUS
  <2>5. /\ r \in Seq(Paid) /\ InOrder(r)
        /\ SumOver(FeesOf(queue), 1..Len(queue)) \in Int
        /\ SumOver(FeesOf(r), 1..Len(r)) = SumOver(FeesOf(queue), 1..Len(queue)) + f
    BY <2>2, <2>3, <2>4, EnqueuedFee
  <2>6. SumOver(balance, FeeSources) \in Int
    BY SettlementAssumption, SumIsInteger
  <2>7. pool' = SumOver(FeesOf(r), 1..Len(r)) + SumOver(balance, FeeSources) + fm_treasury
    BY <2>2, <2>3, <2>5, <2>6
  <2>8. queue' \in Seq(Paid) /\ InOrder(queue') /\ InOrder(queue)'
    BY <2>4, <2>5 DEF InOrder, Subscribe!Precedes
  <2> QED  BY <2>2, <2>3, <2>4, <2>7, <2>8 DEF FeesOf, SumOver, Summing, SumStep
<1>3. CASE Subscribe!process_fee_market
  <2>1. PICK n : n = Subscribe!Lesser(Len(queue), MaxProcess)
    OBVIOUS
  <2>2. n \in 0..Len(queue)
    BY <2>1, SettlementAssumption DEF Subscribe!Lesser
  <2>3. PICK start : start = [balance |-> balance, treasury |-> fm_treasury]
    OBVIOUS
  <2>4. start \in Books /\ start.balance = balance /\ start.treasury = fm_treasury
    BY <2>3 DEF Books
  <2>5. PICK w : w = CHOOSE s : Serving(queue, n, start, s)
    OBVIOUS
  <2>6. Serving(queue, n, start, w)
    BY <2>2, <2>4, <2>5, ServingExists, Zenon
  <2>7. /\ queue' = SubSeq(queue, n + 1, Len(queue))
        /\ balance' = w[n].balance /\ fm_treasury' = w[n].treasury
        /\ pool' = pool /\ ratio' = ratio
    BY <1>3, <2>1, <2>3, <2>5, Zenon DEF Subscribe!process_fee_market, Serving
  <2>8. PICK l \in Nat : l = Len(queue)
    OBVIOUS
  <2>9. FeesOf(queue) \in [1..l -> Int]
    <3>1. \A i \in 1..l : queue[i] \in Paid
      BY <2>8
    <3> QED  BY <2>8, <3>1 DEF FeesOf, Paid
  <2>10. PICK P : Prefixes(FeesOf(queue), l, P) /\ SumOver(FeesOf(queue), 1..l) = P[l]
    BY <2>9, SumPrefixes
  <2>11. /\ w[n] \in Books
         /\ SumOver(start.balance, FeeSources) \in Int
         /\ SumOver(w[n].balance, FeeSources) + w[n].treasury
            = (SumOver(start.balance, FeeSources) + start.treasury) + P[n]
    BY <2>2, <2>4, <2>6, <2>8, <2>10, ServedFees
  <2>12. PICK r : r = queue'
    OBVIOUS
  <2>13. /\ r \in Seq(Paid) /\ InOrder(r)
         /\ SumOver(FeesOf(r), 1..Len(r)) \in Int
         /\ SumOver(FeesOf(queue), 1..Len(queue)) = P[n] + SumOver(FeesOf(r), 1..Len(r))
    BY <2>2, <2>7, <2>8, <2>10, <2>12, CutQueue
  <2>14. P[n] \in Int
    BY <2>2, <2>8, <2>10 DEF Prefixes
  <2>15. balance' \in [FeeSources -> Int] /\ fm_treasury' \in Int
    BY <2>7, <2>11 DEF Books
  <2>16. PICK b \in [FeeSources -> Int] : b = balance'
    BY <2>15
  <2>17. SumOver(b, FeeSources) \in Int
    BY SettlementAssumption, SumIsInteger
  <2>18. SumOver(b, FeeSources) + fm_treasury' = (SumOver(balance, FeeSources) + fm_treasury) + P[n]
    BY <2>4, <2>7, <2>11, <2>16
  <2>19. pool' = SumOver(FeesOf(r), 1..Len(r)) + SumOver(b, FeeSources) + fm_treasury'
    <3>1. PICK x \in Int, y \in Int, z \in Int, d \in Int :
             /\ x = SumOver(FeesOf(r), 1..Len(r)) /\ y = SumOver(b, FeeSources)
             /\ z = SumOver(balance, FeeSources) /\ d = P[n]
      BY <2>4, <2>11, <2>13, <2>14, <2>17
    <3>2. PICK t \in Int, u \in Int : t = fm_treasury /\ u = fm_treasury'
      BY <2>15
    <3>3. pool' = ((d + x) + z) + t
      BY <2>7, <2>13, <3>1, <3>2
    <3>4. y + u = (z + t) + d
      BY <2>18, <3>1, <3>2
    <3>5. ((d + x) + z) + t = (x + y) + u
      BY <3>4
    <3> QED  BY <3>1, <3>2, <3>3, <3>5
  <2>20. queue' \in Seq(Paid) /\ InOrder(queue)'
    BY <2>12, <2>13 DEF InOrder, Subscribe!Precedes
  <2>21. SumOver(FeesOf(queue), 1..Len(queue))' = SumOver(FeesOf(r), 1..Len(r))
    BY <2>12 DEF FeesOf, SumOver, Summing, SumStep
  <2>22. SumOver(balance, FeeSources)' = SumOver(b, FeeSources)
    BY <2>16 DEF SumOver, Summing, SumStep
  <2> QED  BY <2>7, <2>15, <2>19, <2>20, <2>21, <2>22
<1>4. ASSUME UNCHANGED <<queue, pool, balance, fm_treasury>>, ratio' \in Int
      PROVE  FeesKept'
  BY <1>4 DEF FeesOf, InOrder, SumOver, Summing, SumStep, Subscribe!Precedes
<1>5. ASSUME NEW f \in Amounts, Subscribe!set_min_priority_fee(f)
      PROVE  FeesKept'
  BY <1>4, <1>5 DEF Subscribe!set_min_priority_fee
<1>6. ASSUME NEW r \in Ratios, Subscribe!set_fee_distribution_ratio(r)
      PROVE  FeesKept'
  BY <1>4, <1>6, SettlementAssumption DEF Subscribe!set_fee_distribution_ratio
<1>7. ASSUME NEW s \in FeeSources, Subscribe!ChangeSource(s)
      PROVE  FeesKept'
  BY <1>4, <1>7 DEF Subscribe!ChangeSource
<1> QED  BY <1>1, <1>2, <1>3, <1>5, <1>6, <1>7 DEF Subscribe!MarketCalls

LEMMA FeesStart == Subscribe!Init => FeesKept
<1> SUFFICES ASSUME Subscribe!Init PROVE FeesKept
  OBVIOUS
<1>1. /\ queue = <<>> /\ pool = 0 /\ balance = [s \in FeeSources |-> 0]
      /\ fm_treasury = 0 /\ ratio = 80
  BY DEF Subscribe!Init, Subscribe!MarketInit
<1>2. balance \in [FeeSources -> Int] /\ \A s \in FeeSources : balance[s] = 0
  BY <1>1
<1>3. SumOver(balance, FeeSources) = 0
  BY <1>2, SettlementAssumption, SumOfZeros
<1>4. queue \in Seq(Paid) /\ Len(queue) = 0 /\ 1..Len(queue) = {}
  BY <1>1
<1>5. InOrder(queue)
  BY <1>4 DEF InOrder
<1>6. SumOver(FeesOf(queue), 1..Len(queue)) = 0
  <2>1. PICK f : f = FeesOf(queue)
    OBVIOUS
  <2>2. f \in [{} -> Int] /\ IsFiniteSet({})
    BY <1>4, <2>1, FS_EmptySet DEF FeesOf
  <2>3. SumOver(f, {}) = 0
    BY <2>2, SumOfZeros
  <2> QED  BY <1>4, <2>1, <2>3
<1> QED  BY <1>1, <1>2, <1>3, <1>4, <1>5, <1>6 DEF FeesKept

LEMMA FeesBooked == FeesKept => Subscribe!FeesAccounted
<1> SUFFICES ASSUME FeesKept PROVE Subscribe!FeesAccounted
  OBVIOUS
<1>1. DOMAIN queue = 1..Len(queue) /\ DOMAIN balance = FeeSources
  BY DEF FeesKept
<1>2. PICK f : f = FeesOf(queue)
  OBVIOUS
<1>3. f = [i \in DOMAIN queue |-> queue[i].fee] /\ DOMAIN f = 1..Len(queue)
  BY <1>1, <1>2 DEF FeesOf
<1>4. /\ Subscribe!SumFunction(f) = SumOver(f, 1..Len(queue))
      /\ Subscribe!SumFunction(balance) = SumOver(balance, FeeSources)
  BY <1>1, <1>3, FeesAreSummed
<1>5. pool = Subscribe!SumFunction(f) + Subscribe!SumFunction(balance) + fm_treasury
  BY <1>2, <1>4 DEF FeesKept
<1>6. \A i, j \in DOMAIN queue : i < j => ~Subscribe!Precedes(queue[j], queue[i])
  BY <1>1 DEF FeesKept, InOrder
<1> QED  BY <1>3, <1>5, <1>6 DEF Subscribe!FeesAccounted

-----------------------------------------------------------------------------
(* Renewals *)

Mandates ==
    [duration : Int, cap : Int, periods : Int, used : Int, nonce : Int, due : Int,
     active : BOOLEAN, cancelled : BOOLEAN]
Authorisations == [nonce : Int, amount : Int, consumed : BOOLEAN]

\* The authorisations given so far are each within the largest ceiling.
Ceiled(au, most) ==
    \A p \in DOMAIN au : au[p] \in Authorisations /\ au[p].amount <= most
\* A period the mandate was used for is closed.
Closed(au, sp, p) == p \in sp /\ p \in DOMAIN au /\ au[p].consumed
\* The state of a mandate: the periods it was used for are the ones right
\* before the next one.
Mandated(m, most, total, au, sp) ==
    /\ m \in Mandates /\ m.duration > 0 /\ m.cap <= most
    /\ m.used >= 0 /\ m.used <= m.periods /\ total <= m.used * most
    /\ \A k \in 1..m.used : Closed(au, sp, m.due - k * m.duration)

RenewalsKept ==
    /\ clock \in Int /\ agreed \in Int /\ pulled \in Int
    /\ \A d \in DOMAIN plans : plans[d] \in Int
    /\ Ceiled(auths, agreed)
    /\ mandate # Subscribe!NoMandate => Mandated(mandate, agreed, pulled, auths, spent)

LEMMA Multiples ==
    ASSUME NEW d \in Int, NEW k \in Int
    PROVE  /\ k * d \in Int /\ (k + 1) * d = k * d + d /\ 0 * d = 0
           /\ d > 0 /\ k >= 1 => k * d > 0
OBVIOUS

\* A change of the standing of a mandate leaves its count alone.
LEMMA SameCount ==
    ASSUME NEW m, NEW n, NEW most, NEW total, NEW au, NEW sp, Mandated(m, most, total, au, sp),
           n \in Mandates, n.duration = m.duration, n.cap = m.cap, n.periods = m.periods,
           n.used = m.used, n.due = m.due
    PROVE  Mandated(n, most, total, au, sp)
BY DEF Mandated

\* Closing one more period keeps the others closed.
LEMMA CloseOne ==
    ASSUME NEW au, NEW most, Ceiled(au, most), NEW p \in DOMAIN au, NEW bu,
           bu = [au EXCEPT ![p].consumed = TRUE]
    PROVE  /\ DOMAIN bu = DOMAIN au /\ bu[p].consumed /\ Ceiled(bu, most)
           /\ \A q \in DOMAIN au : au[q].consumed => bu[q].consumed
<1>1. DOMAIN bu = DOMAIN au /\ \A q \in DOMAIN au : q # p => bu[q] = au[q]
  OBVIOUS
<1>2. bu[p] = [au[p] EXCEPT !.consumed = TRUE]
  OBVIOUS
<1>3. au[p] \in Authorisations /\ au[p].amount <= most
  BY DEF Ceiled
<1>4. bu[p] \in Authorisations /\ bu[p].amount = au[p].amount /\ bu[p].consumed
  BY <1>2, <1>3 DEF Authorisations
<1> QED  BY <1>1, <1>3, <1>4 DEF Ceiled

\* authorized_amount stays within the ceiling of the mandate.
LEMMA AmountCapped ==
    ASSUME RenewalsKept, mandate # Subscribe!NoMandate
    PROVE  Subscribe!authorized_amount \in Int /\ Subscribe!authorized_amount <= agreed
<1>1. mandate.cap \in Int /\ mandate.cap <= agreed /\ agreed \in Int
  BY DEF RenewalsKept, Mandated, Mandates
<1>2. PICK x \in Int :
         x = IF mandate.duration \in DOMAIN plans THEN plans[mandate.duration] ELSE 0
  BY DEF RenewalsKept
<1>3. Subscribe!authorized_amount = IF x < mandate.cap THEN x ELSE mandate.cap
  BY <1>2 DEF Subscribe!authorized_amount, Subscribe!Lesser
<1> QED  BY <1>1, <1>3

LEMMA RenewalsStep ==
    ASSUME RenewalsKept, [Subscribe!ConsumerCalls]_svars
    PROVE  RenewalsKept'
<1> DEFINE Standing == UNCHANGED <<mandate, auths, spent, pulled, agreed>>
<1>1. ASSUME Standing, clock' \in Int, \A d \in DOMAIN plans' : plans'[d] \in Int
      PROVE  RenewalsKept'
  BY <1>1 DEF RenewalsKept, Ceiled, Mandated, Closed, Subscribe!NoMandate
<1>2. CASE UNCHANGED svars
  BY <1>1, <1>2 DEF svars, RenewalsKept
<1>3. ASSUME NEW d \in Durations, Subscribe!subscribe(d)
      PROVE  RenewalsKept'
  BY <1>1, <1>3 DEF Subscribe!subscribe, Subscribe!renewal, RenewalsKept
<1>4. ASSUME NEW d \in Durations, NEW p \in PlanPrices, Subscribe!set_subscription_price(d, p)
      PROVE  RenewalsKept'
  <2>1. plans' = [x \in DOMAIN plans \cup {d} |-> IF x = d THEN p ELSE plans[x]]
    BY <1>4 DEF Subscribe!set_subscription_price, Subscribe!Put
  <2>2. p \in Int
    BY SettlementAssumption
  <2>3. \A x \in DOMAIN plans' : plans'[x] \in Int
    BY <2>1, <2>2 DEF RenewalsKept
  <2> QED
    BY <1>1, <1>4, <2>3 DEF Subscribe!set_subscription_price, Subscribe!renewal, RenewalsKept
<1>5. CASE Subscribe!renew_subscription
  BY <1>1, <1>5 DEF Subscribe!renew_subscription, Subscribe!renewal, RenewalsKept
<1>6. CASE \/ Subscribe!distribute_subscription_fees
           \/ Subscribe!refund_subscription_payment
  BY <1>1, <1>6 DEF Subscribe!distribute_subscription_fees,
                    Subscribe!refund_subscription_payment, Subscribe!renewal, RenewalsKept
<1>7. ASSUME NEW a \in Allowance, Subscribe!approve(a)
      PROVE  RenewalsKept'
  BY <1>1, <1>7 DEF Subscribe!approve, Subscribe!subscription, RenewalsKept
<1>8. CASE Subscribe!AdvanceClock
  BY <1>1, <1>8 DEF Subscribe!AdvanceClock, Subscribe!subscription, Subscribe!renewal, RenewalsKept
<1>9. ASSUME Subscribe!cancel_subscription
      PROVE  RenewalsKept'
  <2>1. /\ clock' = clock /\ plans' = plans /\ pulled' = pulled /\ agreed' = agreed
        /\ Subscribe!revoke_on_cancel
    BY <1>9 DEF Subscribe!cancel_subscription
  <2>2. CASE mandate = Subscribe!NoMandate
    <3>1. Standing
      BY <2>1, <2>2 DEF Subscribe!revoke_on_cancel
    <3> QED  BY <1>1, <2>1, <3>1 DEF RenewalsKept
  <2>3. CASE mandate # Subscribe!NoMandate
    <3>1. /\ mandate' = [mandate EXCEPT !.cancelled = TRUE, !.active = FALSE]
          /\ auths' = IF mandate.due \in DOMAIN auths
                      THEN [auths EXCEPT ![mandate.due].consumed = TRUE] ELSE auths
          /\ spent' = spent \cup {mandate.due}
      BY <2>1, <2>3 DEF Subscribe!revoke_on_cancel
    <3>2. Mandated(mandate, agreed, pulled, auths, spent) /\ Ceiled(auths, agreed)
      BY <2>3 DEF RenewalsKept
    <3>3. PICK m : m = mandate'
      OBVIOUS
    <3>4. /\ m \in Mandates /\ m.duration = mandate.duration /\ m.cap = mandate.cap
          /\ m.periods = mandate.periods /\ m.used = mandate.used /\ m.due = mandate.due
      BY <3>1, <3>2, <3>3 DEF Mandated, Mandates
    <3>5. Mandated(m, agreed, pulled, auths, spent)
      BY <3>2, <3>4, SameCount
    <3>6. PICK au : au = auths'
      OBVIOUS
    <3>7. /\ Ceiled(au, agreed) /\ DOMAIN au = DOMAIN auths
          /\ \A q \in DOMAIN auths : auths[q].consumed => au[q].consumed
      <4>1. CASE mandate.due \in DOMAIN auths
        <5>1. PICK p : p = mandate.due
          OBVIOUS
        <5>2. p \in DOMAIN auths /\ au = [auths EXCEPT ![p].consumed = TRUE]
          BY <3>1, <3>6, <4>1, <5>1
        <5> QED  BY <3>2, <5>2, CloseOne
      <4>2. CASE mandate.due \notin DOMAIN auths
        BY <3>1, <3>2, <3>6, <4>2
      <4> QED  BY <4>1, <4>2
    <3>8. PICK sp : sp = spent'
      OBVIOUS
    <3>9. \A p : Closed(auths, spent, p) => Closed(au, sp, p)
      BY <3>1, <3>7, <3>8 DEF Closed
    <3>10. Mandated(m, agreed, pulled, au, sp)
      BY <3>5, <3>9 DEF Mandated
    <3> QED  BY <2>1, <3>3, <3>6, <3>7, <3>8, <3>10 DEF RenewalsKept, Ceiled, Mandated, Closed
  <2> QED  BY <2>2, <2>3
<1>10. ASSUME NEW d \in Durations, NEW c \in Ceilings, NEW n \in Periods,
              Subscribe!enable_auto_renewal(d, c, n)
       PROVE  RenewalsKept'
  <2>1. d \in Int /\ c \in Int /\ n \in Int /\ d > 0 /\ n > 0 /\ clock \in Int /\ agreed \in Int
    BY <1>10, SettlementAssumption DEF Subscribe!enable_auto_renewal, RenewalsKept
  <2>2. PICK m : m = [duration |-> d, cap |-> c, periods |-> n, used |-> 0, nonce |-> 0,
                      due |-> clock, active |-> TRUE, cancelled |-> FALSE]
    OBVIOUS
  <2>3. PICK most \in Int : most = IF c > agreed THEN c ELSE agreed
    BY <2>1
  <2>4. /\ mandate' = m /\ pulled' = 0 /\ agreed' = most /\ auths' = auths /\ spent' = spent
        /\ clock' = clock /\ plans' = plans
    BY <1>10, <2>2, <2>3 DEF Subscribe!enable_auto_renewal, Subscribe!subscription
  <2>5. c <= most /\ agreed <= most /\ 0 * most = 0
    BY <2>1, <2>3
  <2>6. Mandated(m, most, 0, auths, spent)
    BY <2>1, <2>2, <2>5 DEF Mandated, Mandates
  <2>7. Ceiled(auths, most)
    BY <2>1, <2>5 DEF RenewalsKept, Ceiled, Authorisations
  <2> QED  BY <2>4, <2>6, <2>7 DEF RenewalsKept, Ceiled, Mandated, Closed
<1>11. CASE Subscribe!disable_auto_renewal
  <2>1. /\ mandate # Subscribe!NoMandate /\ mandate' = [mandate EXCEPT !.active = FALSE]
        /\ auths' = auths /\ spent' = spent /\ pulled' = pulled /\ agreed' = agreed
        /\ clock' = clock /\ plans' = plans
    BY <1>11 DEF Subscribe!disable_auto_renewal, Subscribe!subscription
  <2>2. Mandated(mandate, agreed, pulled, auths, spent)
    BY <2>1 DEF RenewalsKept
  <2>3. PICK m : m = mandate'
    OBVIOUS
  <2>4. /\ m \in Mandates /\ m.duration = mandate.duration /\ m.cap = mandate.cap
        /\ m.periods = mandate.periods /\ m.used = mandate.used /\ m.due = mandate.due
    BY <2>1, <2>2, <2>3 DEF Mandated, Mandates
  <2>5. Mandated(m, agreed, pulled, auths, spent)
    BY <2>2, <2>4, SameCount
  <2> QED  BY <2>1, <2>3, <2>5 DEF RenewalsKept, Ceiled, Mandated, Closed
<1>12. ASSUME NEW p \in 1..2 * MaxTime, NEW n \in RenewalNonces, Subscribe!authorize_renewal(p, n)
       PROVE  RenewalsKept'
  <2>1. PICK a : a = [nonce |-> n, amount |-> Subscribe!authorized_amount, consumed |-> FALSE]
    OBVIOUS
  <2>2. /\ mandate # Subscribe!NoMandate /\ p = mandate.due
        /\ auths' = [x \in DOMAIN auths \cup {p} |-> IF x = p THEN a ELSE auths[x]]
        /\ mandate' = [mandate EXCEPT !.nonce = n] /\ spent' = spent \ {p}
        /\ pulled' = pulled /\ agreed' = agreed /\ clock' = clock /\ plans' = plans
    BY <1>12, <2>1 DEF Subscribe!authorize_renewal, Subscribe!Live, Subscribe!Put,
                       Subscribe!subscription
  <2>3. Mandated(mandate, agreed, pulled, auths, spent) /\ Ceiled(auths, agreed)
    BY <2>2 DEF RenewalsKept
  <2>4. a \in Authorisations /\ a.amount <= agreed
    BY <2>1, <2>2, AmountCapped, SettlementAssumption DEF Authorisations
  <2>5. PICK au : au = auths'
    OBVIOUS
  <2>6. DOMAIN au = DOMAIN auths \cup {p} /\ au[p] = a /\ \A x \in DOMAIN auths : x # p => au[x] = auths[x]
    BY <2>2, <2>5
  <2>7. Ceiled(au, agreed)
    BY <2>3, <2>4, <2>6 DEF Ceiled
  <2>8. PICK m : m = mandate'
    OBVIOUS
  <2>9. /\ m \in Mandates /\ m.duration = mandate.duration /\ m.cap = mandate.cap
        /\ m.periods = mandate.periods /\ m.used = mandate.used /\ m.due = mandate.due
    BY <2>2, <2>3, <2>8, SettlementAssumption DEF Mandated, Mandates
  <2>10. Mandated(m, agreed, pulled, auths, spent)
    BY <2>3, <2>9, SameCount
  <2>11. PICK sp : sp = spent'
    OBVIOUS
  <2>12. \A x : Closed(auths, spent, x) /\ x # p => Closed(au, sp, x)
    BY <2>2, <2>6, <2>11 DEF Closed
  <2>13. ASSUME NEW k \in 1..m.used
         PROVE  m.due - k * m.duration # p
    <3>1. PICK d \in Int, t \in Int : d = m.duration /\ t = m.due /\ d > 0 /\ t = p
      BY <2>2, <2>9, <2>10 DEF Mandated, Mandates
    <3>2. k \in Int /\ k >= 1
      BY <2>10, <2>13 DEF Mandated, Mandates
    <3>3. k * d \in Int /\ k * d > 0
      BY <3>1, <3>2, Multiples
    <3> QED  BY <3>1, <3>3
  <2>14. Mandated(m, agreed, pulled, au, sp)
    BY <2>10, <2>12, <2>13 DEF Mandated
  <2>15. Mandated(mandate, agreed, pulled, auths, spent)'
    <3>1. agreed' = agreed /\ pulled' = pulled
      BY <2>2
    <3> QED  BY <2>5, <2>8, <2>11, <2>14, <3>1 DEF Mandated, Closed
  <2>16. Ceiled(auths, agreed)'
    BY <2>2, <2>5, <2>7 DEF Ceiled
  <2>17. clock' \in Int /\ agreed' \in Int /\ pulled' \in Int /\ \A d \in DOMAIN plans' : plans'[d] \in Int
    BY <2>2 DEF RenewalsKept
  <2> QED  BY <2>15, <2>16, <2>17 DEF RenewalsKept
<1>13. CASE Subscribe!try_auto_renew
  <2>1. PICK p : p = mandate.due
    OBVIOUS
  <2>2. PICK a : a = auths[p].amount
    OBVIOUS
  <2>3. /\ mandate # Subscribe!NoMandate /\ mandate.used < mandate.periods /\ p \in DOMAIN auths
        /\ auths' = [auths EXCEPT ![p].consumed = TRUE] /\ spent' = spent \cup {p}
        /\ mandate' = [mandate EXCEPT !.used = @ + 1, !.due = @ + mandate.duration,
                                      !.nonce = @ + 1]
        /\ pulled' = pulled + a /\ agreed' = agreed /\ clock' = clock /\ plans' = plans
    BY <1>13, <2>1, <2>2 DEF Subscribe!try_auto_renew, Subscribe!Live
  <2>4. Mandated(mandate, agreed, pulled, auths, spent) /\ Ceiled(auths, agreed)
    BY <2>3 DEF RenewalsKept
  <2>5. PICK au : au = auths'
    OBVIOUS
  <2>6. /\ DOMAIN au = DOMAIN auths /\ au[p].consumed /\ Ceiled(au, agreed)
        /\ \A q \in DOMAIN auths : auths[q].consumed => au[q].consumed
    BY <2>3, <2>4, <2>5, CloseOne
  <2>7. PICK sp : sp = spent'
    OBVIOUS
  <2>8. Closed(au, sp, p) /\ \A x : Closed(auths, spent, x) => Closed(au, sp, x)
    BY <2>3, <2>6, <2>7 DEF Closed
  <2>9. PICK m : m = mandate'
    OBVIOUS
  <2>10. PICK u \in Int, d \in Int, t \in Int : u = mandate.used /\ d = mandate.duration /\ t = mandate.due
    BY <2>4 DEF Mandated, Mandates
  <2>11. /\ m \in Mandates /\ m.duration = d /\ m.cap = mandate.cap
         /\ m.periods = mandate.periods /\ m.used = u + 1 /\ m.due = t + d
    <3>1. mandate \in Mandates
      BY <2>4 DEF Mandated
    <3>2. m = [mandate EXCEPT !.used = u + 1, !.due = t + d, !.nonce = @ + 1]
      BY <2>3, <2>9, <2>10
    <3>3. PICK o \in Int : o = mandate.nonce + 1
      BY <3>1 DEF Mandates
    <3>4. m = [mandate EXCEPT !.used = u + 1, !.due = t + d, !.nonce = o]
      BY <3>2, <3>3
    <3>5. PICK m1 : m1 = [mandate EXCEPT !.used = u + 1]
      OBVIOUS
    <3>6. PICK m2 : m2 = [m1 EXCEPT !.due = t + d]
      OBVIOUS
    <3>7. m = [m2 EXCEPT !.nonce = o]
      BY <3>4, <3>5, <3>6
    <3>8. /\ m1 \in Mandates /\ m1.duration = d /\ m1.cap = mandate.cap
          /\ m1.periods = mandate.periods /\ m1.used = u + 1
      BY <2>10, <3>1, <3>5 DEF Mandates
    <3>9. /\ m2 \in Mandates /\ m2.duration = d /\ m2.cap = mandate.cap
          /\ m2.periods = mandate.periods /\ m2.used = u + 1 /\ m2.due = t + d
      BY <3>6, <3>8 DEF Mandates
    <3> QED  BY <3>7, <3>9 DEF Mandates
  <2>12. m.duration > 0 /\ m.cap <= agreed /\ m.used >= 0 /\ m.used <= m.periods
    BY <2>3, <2>4, <2>10, <2>11 DEF Mandated, Mandates
  <2>13. a \in Int /\ a <= agreed /\ pulled \in Int /\ agreed \in Int
    BY <2>2, <2>3, <2>4 DEF Ceiled, Authorisations, RenewalsKept
  <2>14. pulled + a <= m.used * agreed
    <3>1. pulled <= u * agreed
      BY <2>4, <2>10 DEF Mandated
    <3>2. u * agreed \in Int /\ (u + 1) * agreed = u * agreed + agreed
      BY <2>10, <2>13, Multiples
    <3>3. PICK x \in Int : x = u * agreed
      BY <3>2
    <3>4. pulled + a <= x + agreed
      BY <2>13, <3>1, <3>3
    <3> QED  BY <2>11, <3>2, <3>3, <3>4
  <2>15. ASSUME NEW k \in 1..m.used
         PROVE  Closed(au, sp, m.due - k * m.duration)
    <3>1. PICK j \in Int : j = k - 1
      BY <2>11
    <3>2. j \in 0..u /\ k = j + 1
      BY <2>11, <3>1
    <3>3. (t + d) - k * d = t - j * d
      <4>1. k * d = j * d + d /\ j * d \in Int
        BY <3>2, Multiples
      <4>2. PICK x \in Int : x = j * d
        BY <4>1
      <4> QED  BY <4>1, <4>2
    <3>4. CASE j = 0
      <4>1. t - j * d = t
        BY <3>4
      <4> QED  BY <2>1, <2>8, <2>10, <2>11, <3>3, <4>1
    <3>5. CASE j # 0
      <4>1. j \in 1..u
        BY <3>2, <3>5
      <4>2. Closed(auths, spent, t - j * d)
        BY <2>4, <2>10, <4>1 DEF Mandated
      <4> QED  BY <2>8, <2>11, <3>3, <4>2
    <3> QED  BY <3>4, <3>5
  <2>16. pulled' \in Int /\ pulled' <= m.used * agreed
    BY <2>3, <2>13, <2>14
  <2>17. PICK total : total = pulled'
    OBVIOUS
  <2>18. Mandated(m, agreed, total, au, sp)
    BY <2>11, <2>12, <2>15, <2>16, <2>17 DEF Mandated
  <2>19. Mandated(mandate, agreed, pulled, auths, spent)'
    <3>1. agreed' = agreed
      BY <2>3
    <3> QED  BY <2>5, <2>7, <2>9, <2>17, <2>18, <3>1 DEF Mandated, Closed
  <2>20. Ceiled(auths, agreed)'
    <3>1. agreed' = agreed
      BY <2>3
    <3> QED  BY <2>5, <2>6, <3>1 DEF Ceiled
  <2>21. clock' \in Int /\ agreed' \in Int /\ \A x \in DOMAIN plans' : plans'[x] \in Int
    BY <2>3 DEF RenewalsKept
  <2> QED  BY <2>16, <2>19, <2>20, <2>21 DEF RenewalsKept
<1> QED
  BY <1>2, <1>3, <1>4, <1>5, <1>6, <1>7, <1>8, <1>9, <1>10, <1>11, <1>12, <1>13
     DEF Subscribe!ConsumerCalls, Subscribe!SubscriptionCalls, Subscribe!RenewalCalls

LEMMA RenewalsStart == Subscribe!Init => RenewalsKept
<1> SUFFICES ASSUME Subscribe!Init PROVE RenewalsKept
  OBVIOUS
<1>1. /\ clock = 1 /\ plans = <<>> /\ mandate = Subscribe!NoMandate /\ auths = <<>>
      /\ pulled = 0 /\ agreed = 0
  BY DEF Subscribe!Init
<1>2. DOMAIN plans = {} /\ DOMAIN auths = {}
  BY <1>1
<1> QED  BY <1>1, <1>2 DEF RenewalsKept, Ceiled

LEMMA RenewalsBooked == RenewalsKept => RenewalsBounded
BY DEF RenewalsKept, Mandated, Closed, Mandates, RenewalsBounded, Subscribe!RenewalsBounded

-----------------------------------------------------------------------------
(* The books of the whole *)

Kept ==
    /\ ProposalsKept /\ BondsKept /\ ChallengesKept
    /\ ChannelsKept /\ FeesKept /\ RenewalsKept

LEMMA StartKept == Init => Kept
BY ProposalsStart, BondsStart, ChallengesStart, ChannelsStart, FeesStart, RenewalsStart
   DEF Init, Kept

\* A step of one part is a stuttering step of the others.
LEMMA StepKept == Kept /\ [Next]_vars => Kept'
<1> SUFFICES ASSUME Kept, [Next]_vars PROVE Kept'
  OBVIOUS
<1>1. [Optimistic!Next]_ovars
  BY DEF Next, vars, OptimisticSteps, RelaySteps, ChallengeSteps, ChannelSteps, MarketSteps,
         SubscribeSteps
<1>2. [Relay!RelayerCalls]_relayer
  BY DEF Next, vars, OptimisticSteps, RelaySteps, ChallengeSteps, ChannelSteps, MarketSteps,
         SubscribeSteps
<1>3. [Relay!ChallengeCalls]_cvars
  BY DEF Next, vars, OptimisticSteps, RelaySteps, ChallengeSteps, ChannelSteps, MarketSteps,
         SubscribeSteps
<1>4. [Channel!Next]_scvars
  BY DEF Next, vars, OptimisticSteps, RelaySteps, ChallengeSteps, ChannelSteps, MarketSteps,
         SubscribeSteps
<1>5. [Subscribe!MarketCalls]_fvars
  BY DEF Next, vars, OptimisticSteps, RelaySteps, ChallengeSteps, ChannelSteps, MarketSteps,
         SubscribeSteps
<1>6. [Subscribe!ConsumerCalls]_svars
  BY DEF Next, vars, OptimisticSteps, RelaySteps, ChallengeSteps, ChannelSteps, MarketSteps,
         SubscribeSteps
<1>7. ProposalsKept'
  BY <1>1, ProposalsStep DEF Kept
<1>8. BondsKept'
  BY <1>2, BondsStep DEF Kept
<1>9. ChallengesKept'
  BY <1>3, ChallengesStep DEF Kept
<1>10. ChannelsKept'
  BY <1>4, ChannelsStep DEF Kept
<1>11. FeesKept'
  BY <1>5, FeesStep DEF Kept
<1>12. RenewalsKept'
  BY <1>6, RenewalsStep DEF Kept
<1> QED  BY <1>7, <1>8, <1>9, <1>10, <1>11, <1>12 DEF Kept

\* In every reachable state every book agrees with what it stands for: a
\* proposal wrote the price exactly when its outcome is approval
\* (optimistic.rs), the tokens held back the bonds and the treasury
\* (relayer.rs), the counters of the open challenges are exact
\* (challenge.rs), deposits are backed and the newest state is stored
\* (state_channels.rs), and every fee paid is accounted for (fee_market.rs).
THEOREM BooksStayExact == Spec => []BooksExact
<1>1. Kept => BooksExact
  BY ProposalsBooked, BondsBooked, ChallengesBooked, ChannelsBooked, FeesBooked
     DEF Kept, BooksExact
<1> QED  BY <1>1, StartKept, StepKept, PTL DEF Spec

\* However plan prices and mandates change between an authorisation and the
\* renewal it allows (auto_renewal.rs), a mandate is used for at most the periods
\* it grants, each for an amount within a ceiling the consumer once gave, and no
\* period it was used for is open again.
THEOREM RenewalsStayBounded == Spec => []RenewalsBounded
<1>1. Kept => RenewalsBounded
  BY RenewalsBooked DEF Kept
<1> QED  BY <1>1, StartKept, StepKept, PTL DEF Spec

=============================================================================
