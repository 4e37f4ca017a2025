--------------------------- MODULE ApprovalQueue ---------------------------
(***************************************************************************)
(* What the governors are promised (multisig.rs, header and the invariants *)
(* of set_governors): operations run in the order they were proposed, each *)
(* on the approvals of enough present governors, held without a gap for    *)
(* the timelock.  There is no linked list here, only the pending ids.      *)
(***************************************************************************)
EXTENDS Naturals, FiniteSets

CONSTANTS Addresses, Ids

VARIABLES
    ledger,      \* ledger time
    duration,    \* the timelock
    governors,   \* the governor set
    count,       \* the last id given out
    pending,     \* the ids proposed and neither executed nor cancelled
    approvals,   \* who approves each of them
    needed,      \* how many must
    since,       \* from when on enough did, 0 when too few do
    executed     \* the ids announced as executed

vars == <<ledger, duration, governors, count, pending, approvals, needed, since, executed>>

Init ==
    /\ ledger = 1 /\ duration \in Nat
    /\ governors = {} /\ count = 0 /\ pending = {} /\ executed = {}
    /\ approvals = [i \in Ids |-> {}]
    /\ needed = [i \in Ids |-> 0]
    /\ since = [i \in Ids |-> 0]

\* Since when operation i has had enough approvals, once they are A.
Since(i, A) ==
    IF Cardinality(A) < needed[i] THEN 0
    ELSE IF since[i] = 0 THEN ledger ELSE since[i]

\* How many approvals a new operation needs is fixed when it is proposed.
Propose ==
    /\ count + 1 \in Ids
    /\ count' = count + 1
    /\ pending' = pending \cup {count + 1}
    /\ approvals' = [approvals EXCEPT ![count + 1] = {}]
    /\ needed' \in [Ids -> Nat] /\ needed'[count + 1] > 0
    /\ \A i \in Ids \ {count + 1} : needed'[i] = needed[i]
    /\ since' = [since EXCEPT ![count + 1] = 0]
    /\ UNCHANGED <<ledger, duration, governors, executed>>

\* Governor g approves operation i, or takes the approval back.
Vote(i, A) ==
    /\ i \in pending
    /\ A \subseteq governors
    /\ approvals' = [approvals EXCEPT ![i] = A]
    /\ since' = [since EXCEPT ![i] = Since(i, A)]
    /\ UNCHANGED <<ledger, duration, governors, count, pending, needed, executed>>

\* Departed governors lose their approvals of every pending operation.
Rotate(G) ==
    /\ governors' = G
    /\ approvals' = [i \in Ids |-> IF i \in pending THEN approvals[i] \cap G ELSE approvals[i]]
    /\ since' = [i \in Ids |-> IF i \in pending THEN Since(i, approvals[i] \cap G) ELSE since[i]]
    /\ UNCHANGED <<ledger, duration, count, pending, needed, executed>>

Drop(i) ==
    /\ pending' = pending \ {i}
    /\ approvals' = [approvals EXCEPT ![i] = {}]
    /\ needed' = [needed EXCEPT ![i] = 0]
    /\ since' = [since EXCEPT ![i] = 0]

Execute(i) ==
    /\ i \in pending
    /\ \A j \in pending : i <= j
    /\ approvals[i] \subseteq governors
    /\ Cardinality(approvals[i]) >= needed[i]
    /\ since[i] # 0 /\ ledger - since[i] >= duration
    /\ Drop(i)
    /\ executed' = executed \cup {i}
    /\ UNCHANGED <<ledger, duration, governors, count>>

Cancel(i) ==
    /\ i \in pending
    /\ Drop(i)
    /\ UNCHANGED <<ledger, duration, governors, count, executed>>

Pass ==
    /\ ledger' = ledger + 1
    /\ UNCHANGED <<duration, governors, count, pending, approvals, needed, since, executed>>

SetDuration ==
    /\ duration' \in Nat
    /\ UNCHANGED <<ledger, governors, count, pending, approvals, needed, since, executed>>

Next ==
    \/ Propose
    \/ \E i \in Ids, A \in SUBSET Addresses : Vote(i, A)
    \/ \E G \in SUBSET Addresses : Rotate(G)
    \/ \E i \in Ids : Execute(i) \/ Cancel(i)
    \/ Pass
    \/ SetDuration

Spec == Init /\ [][Next]_vars
=============================================================================
