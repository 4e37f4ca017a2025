------------------------------ MODULE Multisig ------------------------------
(***************************************************************************)
(* The N-of-M governance queue (multisig.rs): operations kept in a singly  *)
(* linked list threaded through storage, approvals, a timelock that runs   *)
(* while there is a quorum, rotation of the governor set.                  *)
(*                                                                         *)
(* The entry MsOp(id) is held as one function per field; pending is the    *)
(* set of ids that have an entry.  An operation's type and data drive only *)
(* the events.  The admin may execute and cancel, so these two steps need  *)
(* no governor.                                                            *)
(***************************************************************************)
EXTENDS Naturals, Sequences, FiniteSets, Functions

CONSTANTS
    Addresses,   \* the addresses that may become governors
    Rotations,   \* the governor vectors set_governors is called with
    Durations,   \* the timelock durations the admin may set
    MaxOps,      \* bound on the operations proposed
    MaxLedger    \* bound on ledger time

ASSUME MultisigAssumptions ==
    /\ IsFiniteSet(Addresses)
    /\ Rotations \subseteq Seq(Addresses)
    /\ Durations \subseteq Nat /\ Durations # {}
    /\ MaxOps \in Nat /\ MaxLedger \in Nat

Ids == 1..MaxOps

VARIABLES
    ledger,      \* env.ledger().sequence()
    duration,    \* CfgTimelockDuration
    governors,   \* MsGovernors, a vector
    required,    \* MsRequiredApprovals
    count,       \* MsOpCount
    pending,     \* the ids with an MsOp entry
    approvals,   \* its approvals
    needed,      \* its required_approvals
    since,       \* its timelock_start_ledger
    next,        \* its next_op_id
    head,        \* MsQueueHead
    tail,        \* MsQueueTail
    executed     \* the ids MsOperationExecutedEvent was published for

vars == <<ledger, duration, governors, required, count, pending, approvals,
          needed, since, next, head, tail, executed>>
opVars == <<count, pending, approvals, needed, since, next, head, tail, executed>>

Init ==
    /\ ledger = 1
    /\ duration \in Durations
    /\ governors = << >> /\ required = 1
    /\ count = 0 /\ pending = {}
    /\ approvals = [i \in Ids |-> {}]
    /\ needed = [i \in Ids |-> 0]
    /\ since = [i \in Ids |-> 0]
    /\ next = [i \in Ids |-> 0]
    /\ head = 0 /\ tail = 0 /\ executed = {}

-----------------------------------------------------------------------------

\* The ids a cursor visits that starts at the head and follows next_op_id.
Closed(S) == \A i \in S : next[i] # 0 => next[i] \in S
Walk ==
    {i \in Ids : head # 0 /\ \A S \in SUBSET Ids : head \in S /\ Closed(S) => i \in S}

Retained(i, G) == approvals[i] \cap Range(G)

set_governorsHeadOnly(G, n) ==   \* slip: only the head of the queue is rewritten
    /\ n > 0 /\ n <= Len(G)
    /\ governors' = G
    /\ required' = n
    /\ approvals' = [i \in Ids |-> IF i = head THEN Retained(i, G) ELSE approvals[i]]
    /\ since' = [i \in Ids |->
          IF i = head /\ Cardinality(Retained(i, G)) < needed[i] THEN 0 ELSE since[i]]
    /\ UNCHANGED <<ledger, duration, count, pending, needed, next, head, tail, executed>>
\* The loop rewrites the operations it can reach from the head.
set_governors(G, n) ==
    /\ n > 0 /\ n <= Len(G)
    /\ governors' = G
    /\ required' = n
    /\ approvals' = [i \in Ids |-> IF i \in Walk THEN Retained(i, G) ELSE approvals[i]]
    /\ since' = [i \in Ids |->
          IF /\ i \in Walk
             /\ Retained(i, G) # approvals[i]
             /\ Cardinality(Retained(i, G)) < needed[i]
          THEN 0 ELSE since[i]]
    /\ UNCHANGED <<ledger, duration, count, pending, needed, next, head, tail, executed>>

propose_ms_operation(g) ==
    /\ g \in Range(governors)
    /\ count < MaxOps
    /\ LET id == count + 1
       IN  /\ count' = id
           /\ pending' = pending \cup {id}
           /\ approvals' = [approvals EXCEPT ![id] = {}]
           /\ needed' = [needed EXCEPT ![id] = required]
           /\ since' = [since EXCEPT ![id] = 0]
           /\ next' = IF tail = 0 THEN [next EXCEPT ![id] = 0]
                      ELSE [next EXCEPT ![id] = 0, ![tail] = id]
           /\ head' = IF tail = 0 THEN id ELSE head
           /\ tail' = id
    /\ UNCHANGED <<ledger, duration, governors, required, executed>>

approve_operation(g, i) ==
    /\ g \in Range(governors)
    /\ i \in pending
    /\ g \notin approvals[i]
    /\ LET A == approvals[i] \cup {g}
       IN  /\ approvals' = [approvals EXCEPT ![i] = A]
           /\ since' = IF Cardinality(A) >= needed[i] /\ since[i] = 0
                       THEN [since EXCEPT ![i] = ledger] ELSE since
    /\ UNCHANGED <<ledger, duration, governors, required, count, pending, needed, next, head, tail, executed>>

retract_approvalKeepTimelock(g, i) ==   \* slip: the timelock is not paused
    /\ g \in Range(governors)
    /\ i \in pending
    /\ g \in approvals[i]
    /\ approvals' = [approvals EXCEPT ![i] = @ \ {g}]
    /\ UNCHANGED <<ledger, duration, governors, required, count, pending, needed, since,
                   next, head, tail, executed>>
retract_approval(g, i) ==
    /\ g \in Range(governors)
    /\ i \in pending
    /\ g \in approvals[i]
    /\ LET A == approvals[i] \ {g}
       IN  /\ approvals' = [approvals EXCEPT ![i] = A]
           /\ since' = IF Cardinality(A) < needed[i]
                       THEN [since EXCEPT ![i] = 0] ELSE since
    /\ UNCHANGED <<ledger, duration, governors, required, count, pending, needed, next, head, tail, executed>>

\* remove_op: the entry of operation i goes.  Its link is cleared by the callers,
\* which have read it before.
remove_op(i) ==
    /\ pending' = pending \ {i}
    /\ approvals' = [approvals EXCEPT ![i] = {}]
    /\ needed' = [needed EXCEPT ![i] = 0]
    /\ since' = [since EXCEPT ![i] = 0]

execute_ms_operationEarly(i) ==   \* slip: started is taken for elapsed
    /\ head = i
    /\ i \in pending
    /\ Cardinality(approvals[i]) >= needed[i]
    /\ since[i] # 0
    /\ head' = next[i]
    /\ tail' = IF next[i] = 0 THEN 0 ELSE tail
    /\ next' = [next EXCEPT ![i] = 0]
    /\ remove_op(i)
    /\ executed' = executed \cup {i}
    /\ UNCHANGED <<ledger, duration, governors, required, count>>
execute_ms_operation(i) ==
    /\ head = i
    /\ i \in pending
    /\ Cardinality(approvals[i]) >= needed[i]
    /\ since[i] # 0
    /\ ledger - since[i] >= duration
    /\ head' = next[i]
    /\ tail' = IF next[i] = 0 THEN 0 ELSE tail
    /\ next' = [next EXCEPT ![i] = 0]
    /\ remove_op(i)
    /\ executed' = executed \cup {i}
    /\ UNCHANGED <<ledger, duration, governors, required, count>>

\* The operations reachable from the head that are linked to operation i.
Predecessors(i) == {j \in Walk : next[j] = i}

cancel_ms_operationKeepTail(i) ==   \* slip: the tail is not moved back to the predecessor
    /\ i \in pending
    /\ head' = IF head = i THEN next[i] ELSE head
    /\ tail' = IF head = i /\ next[i] = 0 THEN 0 ELSE tail
    /\ next' = [j \in Ids |-> CASE j = i -> 0
                              [] j \in Predecessors(i) -> next[i]
                              [] OTHER -> next[j]]
    /\ remove_op(i)
    /\ UNCHANGED <<ledger, duration, governors, required, count, executed>>
cancel_ms_operation(i) ==
    /\ i \in pending
    /\ IF head = i
       THEN /\ head' = next[i]
            /\ tail' = IF next[i] = 0 THEN 0 ELSE tail
            /\ next' = [next EXCEPT ![i] = 0]
       ELSE /\ next' = [j \in Ids |-> CASE j = i -> 0
                                      [] j \in Predecessors(i) -> next[i]
                                      [] OTHER -> next[j]]
            /\ tail' \in IF next[i] = 0 /\ Predecessors(i) # {} THEN Predecessors(i) ELSE {tail}
            /\ UNCHANGED head
    /\ remove_op(i)
    /\ UNCHANGED <<ledger, duration, governors, required, count, executed>>

\* timelock.rs set_timelock_duration.
set_timelock_duration(d) ==
    /\ duration' = d
    /\ UNCHANGED <<ledger, governors, required, opVars>>

Tick ==
    /\ ledger < MaxLedger
    /\ ledger' = ledger + 1
    /\ UNCHANGED <<duration, governors, required, opVars>>

Next ==
    \/ \E G \in Rotations : \E n \in 0..(Len(G) + 1) : set_governors(G, n)
    \/ \E g \in Addresses : propose_ms_operation(g)
    \/ \E g \in Addresses, i \in Ids : approve_operation(g, i) \/ retract_approval(g, i)
    \/ \E i \in Ids : execute_ms_operation(i) \/ cancel_ms_operation(i)
    \/ \E d \in Durations : set_timelock_duration(d)
    \/ Tick

Spec == Init /\ [][Next]_vars

-----------------------------------------------------------------------------

\* Every variable has the type the contract stores.
TypeOK ==
    /\ ledger \in Nat \ {0} /\ duration \in Nat
    /\ governors \in Seq(Addresses) /\ required \in Nat \ {0}
    /\ count \in 0..MaxOps /\ pending \subseteq 1..count
    /\ approvals \in [Ids -> SUBSET Addresses]
    /\ needed \in [Ids -> Nat] /\ since \in [Ids -> Nat]
    /\ next \in [Ids -> 0..MaxOps]
    /\ head \in 0..MaxOps /\ tail \in 0..MaxOps

\* The linked list threads exactly the stored operations, oldest first: the
\* head is the oldest, each one's next_op_id is the next older one's successor,
\* and the tail is the newest.  No operation is lost or left dangling by a
\* cancellation in the middle or an execution at the head.
QueueThreadsPending ==
    /\ head = 0 <=> pending = {}
    /\ head # 0 => head \in pending /\ \A j \in pending : head <= j
    /\ tail = 0 <=> pending = {}
    /\ tail # 0 => tail \in pending /\ \A j \in pending : j <= tail
    /\ \A i \in pending :
          IF \A j \in pending : j <= i THEN next[i] = 0
          ELSE /\ next[i] \in pending /\ next[i] > i
               /\ \A j \in pending : j > i => j >= next[i]

\* Only governors of the present set count towards any pending operation
\* (set_governors: "a departing signer loses their approvals").
ApprovalsAreCurrent == \A i \in pending : approvals[i] \subseteq Range(governors)

\* An operation's timelock runs exactly while its own quorum is met, through
\* approvals, retractions and rotations.
TimelockRunsOnQuorum ==
    \A i \in pending : since[i] # 0 <=> Cardinality(approvals[i]) >= needed[i]

\* The contract keeps the governors' promise.
Promise == INSTANCE ApprovalQueue WITH governors <- Range(governors)
PromiseKept == Promise!Spec
=============================================================================
