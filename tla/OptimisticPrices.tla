-------------------------- MODULE OptimisticPrices --------------------------
(***************************************************************************)
(* Optimistic price proposals (optimistic.rs).  A bonded proposal becomes  *)
(* the price of its asset when its dispute window runs out; a dispute      *)
(* hands it to the admin, who decides it directly or with external data    *)
(* before a last deadline.  Nothing runs by itself: an expired proposal is *)
(* settled by the next successful call that reads it, and a call that      *)
(* panics takes the settlement it made on the way back.                    *)
(***************************************************************************)
EXTENDS Integers, FiniteSets

CONSTANTS
    OptPrices,        \* prices a proposal or an external proof may carry
    OptBonds,         \* bond amounts, and values of the minimum bond
    Windows,          \* values of the dispute window, in ledgers
    MaxDispute,       \* MAX_DISPUTE_DURATION
    MaxProposals      \* bound on the number of proposals

VARIABLES
    proposals,   \* OptimisticProposal: id -> record; left counts the ledgers to expiry
    window,      \* CfgOptimisticDisputeWindow
    min_bond,    \* CfgOptimisticMinBond
    aggregate,   \* Aggregate of the asset: price and version; version -1 before the first
    snapshots    \* ghost: for each proposal, the prices its settlement wrote

ovars == <<proposals, window, min_bond, aggregate, snapshots>>

Ids == DOMAIN proposals
read_proposal_count == Cardinality(Ids)

\* The rest of the snapshot, the history, is PriceArchive's.
write_price_snapshot(a, p) ==
    [price |-> p,
     version |-> IF a.version = -1 \/ p # a.price THEN a.version + 1 ELSE a.version]

Settled(p) == p.status \in {"Resolved", "Finalized"}

Expired(p) ==
    \/ p.status = "Disputed" /\ p.left <= -MaxDispute
    \/ p.status = "Pending" /\ p.left <= 0

\* Mutants: the dispute deadline is never tested; a finalised proposal is
\* written again by the next read.
finalize_if_expiredNoDeadline(p) ==
    IF p.status # "Pending" \/ p.left > 0 THEN p
    ELSE [p EXCEPT !.status = "Finalized", !.resolution = 1]
finalize_if_expiredForgets(p) ==
    IF p.status = "Disputed" /\ Expired(p)
      THEN [p EXCEPT !.status = "Resolved", !.resolution = 2]
    ELSE IF Expired(p) THEN [p EXCEPT !.resolution = 1]
    ELSE p
finalize_if_expired(p) ==
    IF ~Expired(p) THEN p
    ELSE IF p.status = "Disputed"
      THEN [p EXCEPT !.status = "Resolved", !.resolution = 2]
      ELSE [p EXCEPT !.status = "Finalized", !.resolution = 1]

Finalizes(id) == Expired(proposals[id]) /\ proposals[id].status = "Pending"

propose_price(price, timely, bond) ==
    /\ price > 0
    /\ timely
    /\ bond >= min_bond
    /\ read_proposal_count < MaxProposals
    /\ LET id == read_proposal_count + 1
           p == [price |-> price, bond |-> bond, left |-> window, status |-> "Pending",
                 disputed |-> FALSE, resolution |-> 0]
       IN /\ proposals' = [i \in Ids \cup {id} |-> IF i = id THEN p ELSE proposals[i]]
          /\ snapshots' = [i \in Ids \cup {id} |-> IF i = id THEN 0 ELSE snapshots[i]]
    /\ UNCHANGED <<window, min_bond, aggregate>>

dispute_proposal(id) ==
    /\ proposals[id].status = "Pending"
    /\ proposals[id].left > 0
    /\ proposals[id].bond >= min_bond
    /\ proposals' = [proposals EXCEPT ![id].status = "Disputed", ![id].disputed = TRUE]
    /\ UNCHANGED <<window, min_bond, aggregate, snapshots>>

\* What the two admin resolutions require of the proposal as they read it.
Resolvable(id) ==
    LET p == finalize_if_expired(proposals[id]) IN p.disputed /\ ~Settled(p)

Resolve(id, outcome, price) ==
    /\ proposals' = [proposals EXCEPT ![id].status = "Resolved", ![id].resolution = outcome]
    /\ IF outcome = 1
         THEN /\ aggregate' = write_price_snapshot(aggregate, price)
              /\ snapshots' = [snapshots EXCEPT ![id] = @ + 1]
         ELSE UNCHANGED <<aggregate, snapshots>>
    /\ UNCHANGED <<window, min_bond>>

resolve_dispute(id, approve) ==
    /\ Resolvable(id)
    /\ Resolve(id, IF approve THEN 1 ELSE 2, proposals[id].price)

\* The proof names a registered source, is not from the future and hashes to
\* its data; the price it carries replaces the proposed one.
resolve_via_external_data(id, price, valid_proof) ==
    /\ Resolvable(id)
    /\ valid_proof
    /\ Resolve(id, 1, price)

get_proposal(id) ==
    /\ proposals' = [proposals EXCEPT ![id] = finalize_if_expired(@)]
    /\ IF Finalizes(id)
         THEN /\ aggregate' = write_price_snapshot(aggregate, proposals[id].price)
              /\ snapshots' = [snapshots EXCEPT ![id] = @ + 1]
         ELSE UNCHANGED <<aggregate, snapshots>>
    /\ UNCHANGED <<window, min_bond>>

\* The sweep settles in the order of the ids, so the last finalised one stays.
get_active_proposals ==
    LET due == {id \in Ids : Finalizes(id)}
        chain[n \in 0..read_proposal_count] ==
            IF n = 0 THEN aggregate
            ELSE IF n \in due THEN write_price_snapshot(chain[n - 1], proposals[n].price)
            ELSE chain[n - 1]
    IN /\ proposals' = [id \in Ids |-> finalize_if_expired(proposals[id])]
       /\ aggregate' = chain[read_proposal_count]
       /\ snapshots' = [id \in Ids |-> IF id \in due THEN snapshots[id] + 1 ELSE snapshots[id]]
       /\ UNCHANGED <<window, min_bond>>

set_optimistic_dispute_window(w) ==
    /\ w > 0
    /\ window' = w
    /\ UNCHANGED <<proposals, min_bond, aggregate, snapshots>>

set_optimistic_min_bond(b) ==
    /\ b > 0
    /\ min_bond' = b
    /\ UNCHANGED <<proposals, window, aggregate, snapshots>>

\* A ledger closes; the count of a proposal past its last deadline stays there.
CloseLedger ==
    /\ \E id \in Ids : proposals[id].left > -MaxDispute
    /\ proposals' = [id \in Ids |->
          [proposals[id] EXCEPT !.left = IF @ > -MaxDispute THEN @ - 1 ELSE @]]
    /\ UNCHANGED <<window, min_bond, aggregate, snapshots>>

Init ==
    /\ proposals = <<>>
    /\ window = 1     \* DEFAULT_DISPUTE_WINDOW and DEFAULT_MIN_BOND, scaled down
    /\ min_bond = 1
    /\ aggregate = [price |-> 0, version |-> -1]
    /\ snapshots = <<>>

Next ==
    \/ \E p \in OptPrices, t \in BOOLEAN, b \in OptBonds : propose_price(p, t, b)
    \/ \E id \in Ids :
          \/ dispute_proposal(id)
          \/ \E a \in BOOLEAN : resolve_dispute(id, a)
          \/ \E p \in OptPrices, v \in BOOLEAN : resolve_via_external_data(id, p, v)
          \/ get_proposal(id)
    \/ get_active_proposals
    \/ \E w \in Windows : set_optimistic_dispute_window(w)
    \/ \E b \in OptBonds : set_optimistic_min_bond(b)
    \/ CloseLedger

\* Ledgers close whatever the callers do, and somebody lists the proposals.
Fairness == WF_ovars(CloseLedger) /\ WF_ovars(get_active_proposals)
Spec == Init /\ [][Next]_ovars /\ Fairness

(***************************************************************************)
(* Properties.                                                             *)
(***************************************************************************)
\* However the lazy settlement, the admin's two resolutions and the deadlines
\* interleave, a proposal has written the price of its asset exactly once when
\* its recorded outcome is approval, and never otherwise.
SettledOnce ==
    \A id \in Ids :
        /\ snapshots[id] = (IF proposals[id].resolution = 1 THEN 1 ELSE 0)
        /\ Settled(proposals[id]) = (proposals[id].resolution # 0)

\* Every proposal is settled in the end, also a disputed one that the admin
\* never decides, as long as ledgers close and somebody lists the proposals.
ProposalsSettle ==
    \A id \in 1..MaxProposals :
        (id \in Ids) ~> (id \in Ids /\ Settled(proposals[id]))

=============================================================================
