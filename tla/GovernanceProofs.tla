-------------------------- MODULE GovernanceProofs --------------------------
(***************************************************************************)
(* The multisig queue for any governors, rotations and number of           *)
(* operations: the linked list is intact, departed approvals never count,  *)
(* and the contract implements ApprovalQueue.  Then the control of the     *)
(* admin key, for any accounts, guardian vectors, thresholds and delays.   *)
(***************************************************************************)
EXTENDS Multisig, AdminControl, PriceMathProofs

\* A pending operation always asks for at least one approval: the threshold it
\* was proposed under was non-zero.
QuorumIsPositive == \A i \in pending : needed[i] > 0

IInv ==
    /\ TypeOK
    /\ QueueThreadsPending
    /\ ApprovalsAreCurrent
    /\ TimelockRunsOnQuorum
    /\ QuorumIsPositive

\* Every pending operation but the head is the successor of exactly one other.
LEMMA Predecessor ==
    ASSUME TypeOK, QueueThreadsPending, NEW i \in pending, i # head
    PROVE  \E k \in pending : k < i /\ next[k] = i /\ \A j \in pending : next[j] = i => j = k
<1> DEFINE B == {j \in pending : j < i}
<1>1. i \in Nat /\ pending \subseteq Nat
  BY DEF TypeOK
<1>2. head \in B
  BY <1>1 DEF QueueThreadsPending, TypeOK
<1>3. B \in SUBSET Nat /\ \A j \in B : j <= i
  <2>1. \A j \in pending : j \in Nat
    BY <1>1
  <2>2. \A j \in B : j \in Nat /\ j <= i
    BY <1>1, <2>1
  <2> QED  BY <2>2
<1>4. PICK k \in B : \A j \in B : j <= k
  BY <1>1, <1>2, <1>3, GreatestNatural
<1>5. next[k] \in pending /\ next[k] > k /\ \A j \in pending : j > k => j >= next[k]
  BY <1>1, <1>4 DEF QueueThreadsPending
<1>6. next[k] = i
  <2>1. k \in Nat /\ next[k] \in Nat /\ k < i
    BY <1>1, <1>4, <1>5
  <2>2. next[k] <= i
    BY <1>1, <1>5, <2>1
  <2>3. ~ (next[k] < i)
    BY <1>1, <1>4, <1>5, <2>1
  <2> QED  BY <1>1, <2>1, <2>2, <2>3
<1>7. ASSUME NEW j \in pending, next[j] = i
      PROVE  j = k
  <2>1. i # 0
    BY DEF TypeOK
  <2>2. j < i /\ \A l \in pending : l > j => l >= i
    BY <1>1, <1>7, <2>1 DEF QueueThreadsPending
  <2> QED  BY <1>1, <1>4, <2>2
<1> QED  BY <1>4, <1>6, <1>7

\* A cursor that starts at the head visits every pending operation and no other.
LEMMA WalkIsPending ==
    ASSUME TypeOK, QueueThreadsPending
    PROVE  Walk = pending
<1>1. pending \in SUBSET Ids /\ pending \in SUBSET Nat
  BY MultisigAssumptions DEF TypeOK, Ids
<1>2. Closed(pending)
  BY <1>1 DEF QueueThreadsPending, Closed
<1>3. Walk \subseteq pending
  BY <1>1, <1>2 DEF Walk, QueueThreadsPending
<1>4. ASSUME NEW S \in SUBSET Ids, head \in S, Closed(S)
      PROVE  pending \subseteq S
  <2> SUFFICES ASSUME pending \ S # {}
               PROVE  FALSE
    OBVIOUS
  <2>1. PICK i \in pending \ S : \A j \in pending \ S : i <= j
    BY <1>1, LeastNatural
  <2>2. PICK k \in pending : k < i /\ next[k] = i
    BY <1>4, <2>1, Predecessor
  <2>3. k \in S
    BY <1>1, <2>1, <2>2
  <2>4. i # 0
    BY <2>1 DEF TypeOK
  <2> QED  BY <1>4, <2>1, <2>2, <2>3, <2>4 DEF Closed
<1>5. pending \subseteq Walk
  <2> SUFFICES ASSUME NEW i \in pending
               PROVE  i \in Walk
    OBVIOUS
  <2>1. head # 0
    BY DEF QueueThreadsPending
  <2> QED  BY <1>1, <1>4, <2>1 DEF Walk
<1> QED  BY <1>3, <1>5

\* Removing the head leaves the list intact.
LEMMA RemoveHead ==
    ASSUME TypeOK, QueueThreadsPending, NEW i \in pending, head = i,
           head' = next[i], tail' = IF next[i] = 0 THEN 0 ELSE tail,
           next' = [next EXCEPT ![i] = 0], pending' = pending \ {i}
    PROVE  QueueThreadsPending'
<1>1. pending \subseteq Nat /\ pending \subseteq Ids /\ 0 \notin pending
  BY MultisigAssumptions DEF TypeOK, Ids
<1>2. \A j \in pending : i <= j
  BY DEF QueueThreadsPending
<1>3. \A j \in pending' : next'[j] = next[j] /\ j > i
  BY <1>1, <1>2 DEF TypeOK
<1>4. CASE next[i] = 0
  <2>1. pending' = {}
    BY <1>1, <1>2, <1>4 DEF QueueThreadsPending
  <2> QED  BY <1>4, <2>1 DEF QueueThreadsPending
<1>5. CASE next[i] # 0
  <2>1. next[i] \in pending' /\ \A j \in pending' : next[i] <= j
    BY <1>1, <1>3, <1>5 DEF QueueThreadsPending
  <2>2. tail \in pending' /\ \A j \in pending' : j <= tail
    BY <1>1, <1>3, <1>5, <2>1 DEF QueueThreadsPending
  <2>3. \A k \in pending' :
          IF \A j \in pending' : j <= k THEN next'[k] = 0
          ELSE /\ next'[k] \in pending' /\ next'[k] > k
               /\ \A j \in pending' : j > k => j >= next'[k]
    <3> TAKE k \in pending'
    <3>1. (\A j \in pending' : j <= k) <=> (\A j \in pending : j <= k)
      BY <1>1, <1>3
    <3>2. CASE \A j \in pending' : j <= k
      BY <1>3, <3>1, <3>2 DEF QueueThreadsPending
    <3>3. CASE ~ \A j \in pending' : j <= k
      <4>1. next[k] \in pending /\ next[k] > k /\ \A j \in pending : j > k => j >= next[k]
        BY <3>1, <3>3 DEF QueueThreadsPending
      <4> QED  BY <1>1, <1>3, <3>3, <4>1
    <3> QED  BY <3>2, <3>3
  <2> QED  BY <1>1, <1>5, <2>1, <2>2, <2>3 DEF QueueThreadsPending
<1> QED  BY <1>4, <1>5

\* So does unlinking an operation further down.
LEMMA RemoveInner ==
    ASSUME TypeOK, QueueThreadsPending, NEW i \in pending, head # i, head' = head,
           NEW k \in pending, k < i, next[k] = i,
           tail' = IF next[i] = 0 THEN k ELSE tail,
           next' = [j \in Ids |-> CASE j = i -> 0 [] j = k -> next[i] [] OTHER -> next[j]],
           pending' = pending \ {i}
    PROVE  QueueThreadsPending'
<1>1. pending \subseteq Nat /\ pending \subseteq Ids /\ 0 \notin pending
  BY MultisigAssumptions DEF TypeOK, Ids
<1>2. \A j \in pending' : next'[j] = IF j = k THEN next[i] ELSE next[j]
  BY <1>1
<1>3. k \in pending' /\ head \in pending' /\ \A j \in pending' : head <= j
  BY <1>1 DEF QueueThreadsPending
<1>4. \A j \in pending : j > k => j >= i
  BY <1>1 DEF QueueThreadsPending
<1>5. tail' \in pending' /\ \A j \in pending' : j <= tail'
  <2>1. CASE next[i] = 0
    <3>1. \A j \in pending : j <= i
      BY <2>1, <1>1 DEF QueueThreadsPending
    <3> QED  BY <1>1, <1>3, <1>4, <2>1, <3>1
  <2>2. CASE next[i] # 0
    <3>1. next[i] \in pending /\ next[i] > i
      BY <2>2 DEF QueueThreadsPending
    <3>2. tail \in pending /\ \A j \in pending : j <= tail
      BY DEF QueueThreadsPending
    <3> QED  BY <1>1, <2>2, <3>1, <3>2
  <2> QED  BY <2>1, <2>2
<1>6. ASSUME NEW l \in pending'
      PROVE  IF \A j \in pending' : j <= l THEN next'[l] = 0
             ELSE /\ next'[l] \in pending' /\ next'[l] > l
                  /\ \A j \in pending' : j > l => j >= next'[l]
  <2>1. CASE l = k
    <3>1. CASE next[i] = 0
      <4>1. \A j \in pending : j <= i
        BY <3>1, <1>1 DEF QueueThreadsPending
      <4>2. \A j \in pending' : j <= l
        BY <1>1, <1>4, <2>1, <4>1
      <4> QED  BY <1>2, <2>1, <3>1, <4>2
    <3>2. CASE next[i] # 0
      <4>1. next[i] \in pending /\ next[i] > i /\ \A j \in pending : j > i => j >= next[i]
        BY <3>2 DEF QueueThreadsPending
      <4>2. next[i] \in pending' /\ next[i] > l
        BY <1>1, <2>1, <4>1
      <4>3. \A j \in pending' : j > l => j >= next[i]
        BY <1>1, <1>4, <2>1, <4>1
      <4> QED  BY <1>1, <1>2, <2>1, <4>2, <4>3
    <3> QED  BY <3>1, <3>2
  <2>2. CASE l # k
    <3>1. next'[l] = next[l]
      BY <1>2, <2>2
    <3>2. next[l] # i
      <4>1. ASSUME next[l] = i
            PROVE  FALSE
        <5>1. l < i /\ \A j \in pending : j > l => j >= i
          BY <1>1, <4>1 DEF QueueThreadsPending
        <5> QED  BY <1>1, <1>4, <2>2, <5>1
      <4> QED  BY <4>1
    <3>3. CASE \A j \in pending' : j <= l
      <4>1. l > i
        BY <1>1, <1>3, <1>4, <2>2, <3>3
      <4>2. \A j \in pending : j <= l
        BY <1>1, <3>3, <4>1
      <4> QED  BY <3>1, <3>3, <4>2 DEF QueueThreadsPending
    <3>4. CASE ~ \A j \in pending' : j <= l
      <4>1. next[l] \in pending /\ next[l] > l /\ \A j \in pending : j > l => j >= next[l]
        BY <3>4 DEF QueueThreadsPending
      <4> QED  BY <1>1, <3>1, <3>2, <3>4, <4>1
    <3> QED  BY <3>3, <3>4
  <2> QED  BY <2>1, <2>2
<1> QED  BY <1>1, <1>3, <1>5, <1>6 DEF QueueThreadsPending

\* A finite governor set: cardinalities of approvals are numbers and monotone.
LEMMA ApprovalCount ==
    ASSUME NEW A \in SUBSET Addresses, NEW B \in SUBSET A
    PROVE  /\ Cardinality(A) \in Nat /\ Cardinality(B) \in Nat
           /\ Cardinality(B) <= Cardinality(A)
<1>1. IsFiniteSet(A) /\ IsFiniteSet(B)
  BY MultisigAssumptions, FS_Subset
<1> QED  BY <1>1, FS_Subset, FS_CardinalityType

LEMMA RangeType ==
    ASSUME NEW G \in Seq(Addresses)
    PROVE  Range(G) \in SUBSET Addresses
BY DEF Range

LEMMA InitIInv == Init => IInv
<1> SUFFICES ASSUME Init
             PROVE  IInv
  OBVIOUS
<1>1. TypeOK
  BY MultisigAssumptions DEF Init, TypeOK, Ids
<1>2. QueueThreadsPending
  BY DEF Init, QueueThreadsPending
<1> QED  BY <1>1, <1>2 DEF Init, IInv, ApprovalsAreCurrent, TimelockRunsOnQuorum, QuorumIsPositive

\* Every step keeps every variable in its type.
LEMMA NextTypeOK ==
    ASSUME IInv, [Next]_vars
    PROVE  TypeOK'
<1> USE MultisigAssumptions DEF Ids
<1>0. TypeOK /\ QueueThreadsPending
  BY DEF IInv
<1>1. ASSUME NEW G \in Rotations, NEW n \in 0..(Len(G) + 1), set_governors(G, n)
      PROVE  TypeOK'
  <2>1. G \in Seq(Addresses) /\ n \in Nat \ {0}
    BY <1>1 DEF set_governors
  <2>2. \A i \in Ids : Retained(i, G) \in SUBSET Addresses
    BY <1>0 DEF Retained, TypeOK
  <2>3. approvals' \in [Ids -> SUBSET Addresses] /\ since' \in [Ids -> Nat]
    BY <1>0, <1>1, <2>2 DEF set_governors, TypeOK
  <2> QED  BY <1>0, <1>1, <2>1, <2>3 DEF set_governors, TypeOK
<1>2. ASSUME NEW g \in Addresses, propose_ms_operation(g)
      PROVE  TypeOK'
  <2>1. count + 1 \in Ids /\ count' = count + 1 /\ pending' \subseteq 1..count'
    BY <1>0, <1>2 DEF propose_ms_operation, TypeOK
  <2>2. approvals' \in [Ids -> SUBSET Addresses] /\ needed' \in [Ids -> Nat] /\ since' \in [Ids -> Nat]
    BY <1>0, <1>2, <2>1 DEF propose_ms_operation, TypeOK
  <2>3. head' \in 0..MaxOps /\ tail' \in 0..MaxOps
    BY <1>0, <1>2, <2>1 DEF propose_ms_operation, TypeOK
  <2>4. 0 \in 0..MaxOps /\ count + 1 \in 0..MaxOps /\ next \in [Ids -> 0..MaxOps]
    BY <1>0, <2>1 DEF TypeOK
  <2>5. next' \in [Ids -> 0..MaxOps]
    BY <1>2, <2>4 DEF propose_ms_operation
  <2> QED  BY <1>0, <1>2, <2>1, <2>2, <2>3, <2>5 DEF propose_ms_operation, TypeOK
<1>3. ASSUME NEW g \in Addresses, NEW i \in Ids, approve_operation(g, i)
      PROVE  TypeOK'
  BY <1>0, <1>3 DEF approve_operation, TypeOK
<1>4. ASSUME NEW g \in Addresses, NEW i \in Ids, retract_approval(g, i)
      PROVE  TypeOK'
  BY <1>0, <1>4 DEF retract_approval, TypeOK
<1>5. ASSUME NEW i \in Ids, execute_ms_operation(i)
      PROVE  TypeOK'
  <2>1. approvals' \in [Ids -> SUBSET Addresses] /\ needed' \in [Ids -> Nat] /\ since' \in [Ids -> Nat]
    BY <1>0, <1>5 DEF execute_ms_operation, remove_op, TypeOK
  <2>2. next' \in [Ids -> 0..MaxOps] /\ head' \in 0..MaxOps /\ tail' \in 0..MaxOps
    BY <1>0, <1>5 DEF execute_ms_operation, TypeOK
  <2>3. pending' \subseteq 1..count'
    BY <1>0, <1>5 DEF execute_ms_operation, remove_op, TypeOK
  <2> QED  BY <1>0, <1>5, <2>1, <2>2, <2>3 DEF execute_ms_operation, TypeOK
<1>6. ASSUME NEW i \in Ids, cancel_ms_operation(i)
      PROVE  TypeOK'
  <2>1. Predecessors(i) \subseteq Ids
    BY DEF Predecessors, Walk
  <2>2. tail' \in 0..MaxOps /\ head' \in 0..MaxOps
    BY <1>0, <1>6, <2>1 DEF cancel_ms_operation, TypeOK
  <2>3. next' \in [Ids -> 0..MaxOps]
    <3>1. \A j \in Ids : next[j] \in 0..MaxOps /\ 0 \in 0..MaxOps
      BY <1>0 DEF TypeOK
    <3>2. CASE head = i
      BY <1>0, <1>6, <3>1, <3>2 DEF cancel_ms_operation, TypeOK
    <3>3. CASE head # i
      BY <1>6, <3>1, <3>3 DEF cancel_ms_operation
    <3> QED  BY <3>2, <3>3
  <2> QED  BY <1>0, <1>6, <2>2, <2>3 DEF cancel_ms_operation, remove_op, TypeOK
<1>7. ASSUME NEW d \in Durations, set_timelock_duration(d)
      PROVE  TypeOK'
  BY <1>0, <1>7 DEF set_timelock_duration, opVars, TypeOK
<1>8. CASE Tick
  BY <1>0, <1>8 DEF Tick, opVars, TypeOK
<1>9. CASE UNCHANGED vars
  BY <1>0, <1>9 DEF vars, TypeOK
<1> QED  BY <1>1, <1>2, <1>3, <1>4, <1>5, <1>6, <1>7, <1>8, <1>9 DEF Next

\* What cancel_ms_operation does to the list below the head.
LEMMA CancelInner ==
    ASSUME IInv, NEW i \in Ids, cancel_ms_operation(i), head # i
    PROVE  QueueThreadsPending'
<1>0. TypeOK /\ QueueThreadsPending
  BY DEF IInv
<1>1. i \in pending
  BY DEF cancel_ms_operation
<1>2. PICK k \in pending : k < i /\ next[k] = i /\ \A j \in pending : next[j] = i => j = k
  BY <1>0, <1>1, Predecessor
<1>3. Predecessors(i) = {k}
  BY <1>0, <1>2, WalkIsPending DEF Predecessors
<1>4. tail' = IF next[i] = 0 THEN k ELSE tail
  BY <1>3 DEF cancel_ms_operation
<1>5. next' = [j \in Ids |-> CASE j = i -> 0 [] j = k -> next[i] [] OTHER -> next[j]]
  BY <1>3 DEF cancel_ms_operation
<1>6. head' = head /\ pending' = pending \ {i}
  BY DEF cancel_ms_operation, remove_op
<1> QED  BY <1>0, <1>1, <1>2, <1>4, <1>5, <1>6, RemoveInner

\* Every step keeps the list threaded through exactly the pending operations.
LEMMA NextQueue ==
    ASSUME IInv, [Next]_vars
    PROVE  QueueThreadsPending'
<1>0. TypeOK /\ QueueThreadsPending
  BY DEF IInv
<1>1. ASSUME NEW g \in Addresses, propose_ms_operation(g)
      PROVE  QueueThreadsPending'
  <2> DEFINE id == count + 1
  <2>1. id \in Ids /\ id \in Nat /\ id > 0 /\ \A j \in pending : j \in Nat /\ j < id
    BY <1>0, <1>1, MultisigAssumptions DEF propose_ms_operation, TypeOK, Ids
  <2>2. pending' = pending \cup {id} /\ tail' = id
    BY <1>1 DEF propose_ms_operation
  <2>3. CASE tail = 0
    <3>1. pending' = {id} /\ head' = id /\ next'[id] = 0
      BY <1>0, <1>1, <2>1, <2>2, <2>3 DEF propose_ms_operation, QueueThreadsPending, TypeOK
    <3> QED  BY <2>1, <2>2, <3>1 DEF QueueThreadsPending
  <2>4. CASE tail # 0
    <3>1. tail \in pending /\ \A j \in pending : j <= tail
      BY <1>0, <2>4 DEF QueueThreadsPending
    <3>2. next' = [next EXCEPT ![id] = 0, ![tail] = id] /\ head' = head
      BY <1>1, <2>4 DEF propose_ms_operation
    <3>3. next'[id] = 0 /\ next'[tail] = id /\ \A j \in pending \ {tail} : next'[j] = next[j]
      BY <1>0, <2>1, <3>1, <3>2, MultisigAssumptions DEF TypeOK, Ids
    <3>4. head \in pending /\ \A j \in pending : head <= j
      BY <1>0, <3>1 DEF QueueThreadsPending
    <3>5. ASSUME NEW l \in pending'
          PROVE  IF \A j \in pending' : j <= l THEN next'[l] = 0
                 ELSE /\ next'[l] \in pending' /\ next'[l] > l
                      /\ \A j \in pending' : j > l => j >= next'[l]
      <4>1. CASE l = id
        BY <2>1, <2>2, <3>3, <4>1
      <4>2. CASE l = tail
        BY <2>1, <2>2, <3>1, <3>3, <4>2
      <4>3. CASE l \in pending \ {tail}
        <5>1. ~ (\A j \in pending : j <= l)
          BY <2>1, <3>1, <4>3
        <5>2. next[l] \in pending /\ next[l] > l /\ \A j \in pending : j > l => j >= next[l]
          BY <1>0, <4>3, <5>1 DEF QueueThreadsPending
        <5> QED  BY <2>1, <2>2, <3>3, <4>3, <5>1, <5>2
      <4> QED  BY <2>2, <4>1, <4>2, <4>3
    <3>6. 0 \notin pending /\ id # 0 /\ head # 0
      BY <1>0, <2>1, <3>4 DEF TypeOK
    <3>7. head' \in pending' /\ head' # 0 /\ \A j \in pending' : head' <= j
      BY <2>1, <2>2, <3>2, <3>4, <3>6
    <3>8. tail' \in pending' /\ tail' # 0 /\ \A j \in pending' : j <= tail'
      BY <2>1, <2>2, <3>6
    <3> QED  BY <3>5, <3>7, <3>8 DEF QueueThreadsPending
  <2> QED  BY <2>3, <2>4
<1>2. ASSUME NEW i \in Ids, execute_ms_operation(i)
      PROVE  QueueThreadsPending'
  BY <1>0, <1>2, RemoveHead DEF execute_ms_operation, remove_op
<1>3. ASSUME NEW i \in Ids, cancel_ms_operation(i)
      PROVE  QueueThreadsPending'
  <2>1. CASE head = i
    BY <1>0, <1>3, <2>1, RemoveHead DEF cancel_ms_operation, remove_op
  <2>2. CASE head # i
    BY <1>3, <2>2, CancelInner
  <2> QED  BY <2>1, <2>2
<1>4. CASE UNCHANGED <<pending, next, head, tail>>
  BY <1>0, <1>4 DEF QueueThreadsPending
<1>5. ASSUME Next, ~ UNCHANGED <<pending, next, head, tail>>
      PROVE  \/ \E g \in Addresses : propose_ms_operation(g)
             \/ \E i \in Ids : execute_ms_operation(i) \/ cancel_ms_operation(i)
  BY <1>5 DEF Next, set_governors, approve_operation, retract_approval,
              set_timelock_duration, Tick, opVars
<1> QED  BY <1>1, <1>2, <1>3, <1>4, <1>5 DEF vars


\* Every step keeps the approvals those of present governors, the timelock
\* running exactly on a quorum, and the quorum positive.
LEMMA NextApprovals ==
    ASSUME IInv, [Next]_vars
    PROVE  ApprovalsAreCurrent' /\ TimelockRunsOnQuorum' /\ QuorumIsPositive'
<1> DEFINE Goal == ApprovalsAreCurrent /\ TimelockRunsOnQuorum /\ QuorumIsPositive
<1>0. TypeOK /\ QueueThreadsPending /\ Goal
  BY DEF IInv
<1>a. pending \subseteq Ids /\ \A i \in Ids : approvals[i] \in SUBSET Addresses
  BY <1>0, MultisigAssumptions DEF TypeOK, Ids
<1>b. /\ \A i \in Ids : needed[i] \in Nat /\ since[i] \in Nat
      /\ DOMAIN approvals = Ids /\ DOMAIN since = Ids /\ DOMAIN needed = Ids
      /\ ledger # 0 /\ ledger \in Nat
  BY <1>0 DEF TypeOK
<1>c. \A i \in pending :
          /\ approvals[i] \subseteq Range(governors)
          /\ since[i] # 0 <=> Cardinality(approvals[i]) >= needed[i]
          /\ needed[i] > 0
  BY <1>0 DEF ApprovalsAreCurrent, TimelockRunsOnQuorum, QuorumIsPositive
<1>1. ASSUME NEW G \in Rotations, NEW n \in 0..(Len(G) + 1), set_governors(G, n)
      PROVE  Goal'
  <2>1. Walk = pending
    BY <1>0, WalkIsPending
  <2>2. ASSUME NEW i \in pending
        PROVE  /\ approvals'[i] = Retained(i, G)
               /\ since'[i] = IF Retained(i, G) # approvals[i] /\ Cardinality(Retained(i, G)) < needed[i]
                              THEN 0 ELSE since[i]
    BY <1>1, <1>a, <2>1, <2>2 DEF set_governors
  <2>3. ASSUME NEW i \in pending
        PROVE  /\ Cardinality(Retained(i, G)) \in Nat /\ Cardinality(approvals[i]) \in Nat
               /\ Cardinality(Retained(i, G)) <= Cardinality(approvals[i])
    <3>1. Retained(i, G) \in SUBSET approvals[i]
      BY DEF Retained
    <3> QED  BY <1>a, <3>1, ApprovalCount
  <2>4. pending' = pending /\ needed' = needed /\ governors' = G
    BY <1>1 DEF set_governors
  <2>5. ApprovalsAreCurrent'
    BY <2>2, <2>4 DEF ApprovalsAreCurrent, Retained
  <2>6. TimelockRunsOnQuorum'
    BY <1>b, <1>c, <1>a, <2>2, <2>3, <2>4 DEF TimelockRunsOnQuorum
  <2> QED  BY <1>c, <2>4, <2>5, <2>6 DEF QuorumIsPositive
<1>2. ASSUME NEW g \in Addresses, propose_ms_operation(g)
      PROVE  Goal'
  <2> DEFINE id == count + 1
  <2>1. id \in Ids /\ id \notin pending
    BY <1>0, <1>2, MultisigAssumptions DEF propose_ms_operation, TypeOK, Ids
  <2>2. /\ pending' = pending \cup {id} /\ governors' = governors
        /\ approvals'[id] = {} /\ since'[id] = 0 /\ needed'[id] = required
        /\ \A j \in pending : approvals'[j] = approvals[j] /\ since'[j] = since[j] /\ needed'[j] = needed[j]
    BY <1>2, <1>a, <1>b, <2>1 DEF propose_ms_operation
  <2>3. required \in Nat /\ required > 0 /\ Cardinality({}) = 0
    BY <1>0, FS_EmptySet DEF TypeOK
  <2>4. ApprovalsAreCurrent'
    BY <1>c, <2>2 DEF ApprovalsAreCurrent
  <2>5. since'[id] # 0 <=> Cardinality(approvals'[id]) >= needed'[id]
    BY <2>2, <2>3
  <2> HIDE DEF id
  <2>6. TimelockRunsOnQuorum'
    BY <1>c, <2>2, <2>5 DEF TimelockRunsOnQuorum
  <2> QED  BY <1>c, <2>2, <2>3, <2>4, <2>6 DEF QuorumIsPositive
<1>3. ASSUME NEW g \in Addresses, NEW i \in Ids, approve_operation(g, i)
      PROVE  Goal'
  <2> DEFINE A == approvals[i] \cup {g}
  <2>1. /\ i \in pending /\ g \in Range(governors)
        /\ pending' = pending /\ governors' = governors /\ needed' = needed
    BY <1>3 DEF approve_operation
  <2>2. /\ approvals'[i] = A
        /\ since'[i] = IF Cardinality(A) >= needed[i] /\ since[i] = 0 THEN ledger ELSE since[i]
        /\ \A j \in pending \ {i} : approvals'[j] = approvals[j] /\ since'[j] = since[j]
    BY <1>3, <1>a, <1>b DEF approve_operation
  <2>3. /\ Cardinality(A) \in Nat /\ Cardinality(approvals[i]) \in Nat
        /\ Cardinality(approvals[i]) <= Cardinality(A)
    <3>1. A \in SUBSET Addresses /\ approvals[i] \in SUBSET A
      BY <1>a
    <3> QED  BY <3>1, ApprovalCount
  <2>4. since'[i] # 0 <=> Cardinality(A) >= needed[i]
    BY <1>b, <1>c, <2>1, <2>2, <2>3
  <2> HIDE DEF A
  <2>5. A \subseteq Range(governors)
    BY <1>c, <2>1 DEF A
  <2> QED  BY <1>c, <2>1, <2>2, <2>4, <2>5 DEF ApprovalsAreCurrent, TimelockRunsOnQuorum, QuorumIsPositive
<1>4. ASSUME NEW g \in Addresses, NEW i \in Ids, retract_approval(g, i)
      PROVE  Goal'
  <2> DEFINE A == approvals[i] \ {g}
  <2>1. /\ i \in pending
        /\ pending' = pending /\ governors' = governors /\ needed' = needed
    BY <1>4 DEF retract_approval
  <2>2. /\ approvals'[i] = A
        /\ since'[i] = IF Cardinality(A) < needed[i] THEN 0 ELSE since[i]
        /\ \A j \in pending \ {i} : approvals'[j] = approvals[j] /\ since'[j] = since[j]
    BY <1>4, <1>a, <1>b DEF retract_approval
  <2>3. /\ Cardinality(A) \in Nat /\ Cardinality(approvals[i]) \in Nat
        /\ Cardinality(A) <= Cardinality(approvals[i])
    <3>1. approvals[i] \in SUBSET Addresses /\ A \in SUBSET approvals[i]
      BY <1>a
    <3> QED  BY <3>1, ApprovalCount
  <2>4. since'[i] # 0 <=> Cardinality(A) >= needed[i]
    BY <1>b, <1>c, <2>1, <2>2, <2>3
  <2>5. A \subseteq Range(governors)
    BY <1>c, <2>1
  <2> HIDE DEF A
  <2> QED  BY <1>c, <2>1, <2>2, <2>4, <2>5 DEF ApprovalsAreCurrent, TimelockRunsOnQuorum, QuorumIsPositive
<1>5. ASSUME NEW i \in Ids, remove_op(i), governors' = governors
      PROVE  Goal'
  <2>1. /\ pending' = pending \ {i}
        /\ \A j \in pending \ {i} : approvals'[j] = approvals[j] /\ since'[j] = since[j] /\ needed'[j] = needed[j]
    BY <1>5, <1>a, <1>b DEF remove_op
  <2> QED  BY <1>c, <1>5, <2>1 DEF ApprovalsAreCurrent, TimelockRunsOnQuorum, QuorumIsPositive
<1>6. CASE UNCHANGED <<governors, pending, approvals, needed, since>>
  BY <1>c, <1>6 DEF ApprovalsAreCurrent, TimelockRunsOnQuorum, QuorumIsPositive
<1>7. ASSUME NEW i \in Ids, execute_ms_operation(i) \/ cancel_ms_operation(i)
      PROVE  Goal'
  BY <1>5, <1>7 DEF execute_ms_operation, cancel_ms_operation
<1>8. ASSUME (\E d \in Durations : set_timelock_duration(d)) \/ Tick \/ UNCHANGED vars
      PROVE  Goal'
  BY <1>6, <1>8 DEF set_timelock_duration, Tick, opVars, vars
<1>9. Goal'
  BY <1>1, <1>2, <1>3, <1>4, <1>7, <1>8 DEF Next
<1> QED  BY <1>9


\* The inductive invariant holds in every reachable state.
THEOREM Invariance == Spec => []IInv
<1>1. IInv /\ [Next]_vars => IInv'
  BY NextTypeOK, NextQueue, NextApprovals DEF IInv
<1> QED  BY InitIInv, <1>1, PTL DEF Spec

\* For any number of operations, proposed, cancelled and executed in any order,
\* the linked list threads exactly the stored ones, oldest first, and every
\* stored approval is that of a present governor.
THEOREM QueueIntact == Spec => []QueueThreadsPending
BY Invariance, PTL DEF IInv

\* No rotation of the governor vector leaves a departed governor's approval.
THEOREM DepartedNeverCount == Spec => []ApprovalsAreCurrent
BY Invariance, PTL DEF IInv

\* The timelock of an operation runs exactly while its quorum is met.
THEOREM TimelockOnQuorum == Spec => []TimelockRunsOnQuorum
BY Invariance, PTL DEF IInv

\* The promise counts approvals as the contract does.
LEMMA SameCount == \A S : Promise!Cardinality(S) = Cardinality(S)
BY Zenon DEF Promise!Cardinality, Cardinality

LEMMA InitPromise == Init => Promise!Init
<1>1. Range(<< >>) = {}
  BY DEF Range
<1> QED  BY <1>1, MultisigAssumptions DEF Init, Promise!Init, Ids

\* Every step of the contract is a step of the promise, or changes nothing
\* that the promise speaks of.
LEMMA StepPromise ==
    ASSUME IInv, [Next]_vars
    PROVE  [Promise!Next]_(Promise!vars)
<1>0. TypeOK /\ QueueThreadsPending /\ Walk = pending
  BY WalkIsPending DEF IInv
<1>a. pending \subseteq Ids /\ pending \subseteq Nat /\ \A i \in Ids : approvals[i] \in SUBSET Addresses
  BY <1>0, MultisigAssumptions DEF TypeOK, Ids
<1>b. /\ \A i \in Ids : needed[i] \in Nat /\ since[i] \in Nat
      /\ approvals \in [Ids -> SUBSET Addresses] /\ since \in [Ids -> Nat] /\ needed \in [Ids -> Nat]
      /\ ledger # 0 /\ ledger \in Nat
  BY <1>0 DEF TypeOK
<1>c. \A i \in pending :
          /\ approvals[i] \subseteq Range(governors)
          /\ since[i] # 0 <=> Cardinality(approvals[i]) >= needed[i]
          /\ needed[i] > 0
  BY DEF IInv, ApprovalsAreCurrent, TimelockRunsOnQuorum, QuorumIsPositive
<1>d. Range(governors) \in SUBSET Addresses
  BY <1>0, RangeType DEF TypeOK
<1>1. ASSUME NEW G \in Rotations, NEW n \in 0..(Len(G) + 1), set_governors(G, n)
      PROVE  Promise!Rotate(Range(G)) /\ Range(G) \in SUBSET Addresses
  <2>1. Range(G) \in SUBSET Addresses
    BY MultisigAssumptions, RangeType
  <2>2. approvals' = [i \in Ids |-> IF i \in pending THEN approvals[i] \cap Range(G) ELSE approvals[i]]
    BY <1>0, <1>1 DEF set_governors, Retained
  <2>3. ASSUME NEW i \in pending
        PROVE  (IF Retained(i, G) # approvals[i] /\ Cardinality(Retained(i, G)) < needed[i]
                THEN 0 ELSE since[i]) = Promise!Since(i, approvals[i] \cap Range(G))
    <3>1. Cardinality(Retained(i, G)) \in Nat /\ Cardinality(approvals[i]) \in Nat
          /\ Cardinality(Retained(i, G)) <= Cardinality(approvals[i])
      <4>1. Retained(i, G) \in SUBSET approvals[i]
        BY DEF Retained
      <4> QED  BY <1>a, <4>1, ApprovalCount
    <3>2. Promise!Since(i, approvals[i] \cap Range(G)) =
             IF Cardinality(Retained(i, G)) < needed[i] THEN 0
             ELSE IF since[i] = 0 THEN ledger ELSE since[i]
      BY SameCount DEF Promise!Since, Retained
    <3>3. since[i] # 0 <=> Cardinality(approvals[i]) >= needed[i]
      BY <1>c
    <3>4. needed[i] \in Nat /\ since[i] \in Nat
      BY <1>a, <1>b
    <3> QED  BY <3>1, <3>2, <3>3, <3>4
  <2>4. since' = [i \in Ids |-> IF i \in pending THEN Promise!Since(i, approvals[i] \cap Range(G)) ELSE since[i]]
    BY <1>0, <1>1, <2>3 DEF set_governors
  <2> QED  BY <1>1, <2>1, <2>2, <2>4 DEF Promise!Rotate, set_governors
<1>2. ASSUME NEW g \in Addresses, propose_ms_operation(g)
      PROVE  Promise!Propose
  <2>1. count + 1 \in Ids /\ required \in Nat /\ required > 0
    BY <1>0, <1>2, MultisigAssumptions DEF propose_ms_operation, TypeOK, Ids
  <2>2. /\ needed' \in [Ids -> Nat] /\ needed'[count + 1] = required
        /\ \A i \in Ids \ {count + 1} : needed'[i] = needed[i]
    BY <1>2, <1>b, <2>1 DEF propose_ms_operation
  <2> QED  BY <1>2, <2>1, <2>2 DEF Promise!Propose, propose_ms_operation
<1>3. ASSUME NEW g \in Addresses, NEW i \in Ids, approve_operation(g, i)
      PROVE  \E A \in SUBSET Addresses : Promise!Vote(i, A)
  <2> DEFINE A == approvals[i] \cup {g}
  <2>1. i \in pending /\ g \in Range(governors)
    BY <1>3 DEF approve_operation
  <2>2. A \in SUBSET Addresses /\ A \subseteq Range(governors) /\ approvals[i] \in SUBSET A
    BY <1>a, <1>c, <1>d, <2>1
  <2>3. /\ Cardinality(A) \in Nat /\ Cardinality(approvals[i]) \in Nat
        /\ Cardinality(approvals[i]) <= Cardinality(A)
    BY <2>2, ApprovalCount
  <2>4. Promise!Since(i, A) = IF Cardinality(A) >= needed[i] /\ since[i] = 0 THEN ledger ELSE since[i]
    <3>1. since[i] # 0 <=> Cardinality(approvals[i]) >= needed[i]
      BY <1>c, <2>1
    <3>2. needed[i] \in Nat /\ since[i] \in Nat
      BY <1>b
    <3> QED  BY <2>3, <3>1, <3>2, SameCount DEF Promise!Since
  <2>5. since' = [since EXCEPT ![i] = Promise!Since(i, A)]
    BY <1>3, <1>b, <2>4 DEF approve_operation
  <2>6. Promise!Vote(i, A)
    BY <1>3, <2>1, <2>2, <2>5 DEF Promise!Vote, approve_operation
  <2> QED  BY <2>2, <2>6
<1>4. ASSUME NEW g \in Addresses, NEW i \in Ids, retract_approval(g, i)
      PROVE  \E A \in SUBSET Addresses : Promise!Vote(i, A)
  <2> DEFINE A == approvals[i] \ {g}
  <2>1. i \in pending
    BY <1>4 DEF retract_approval
  <2>2. A \in SUBSET Addresses /\ A \subseteq Range(governors) /\ A \in SUBSET approvals[i]
    BY <1>a, <1>c, <2>1
  <2>3. /\ Cardinality(A) \in Nat /\ Cardinality(approvals[i]) \in Nat
        /\ Cardinality(A) <= Cardinality(approvals[i])
    BY <1>a, <2>2, ApprovalCount
  <2>4. Promise!Since(i, A) = IF Cardinality(A) < needed[i] THEN 0 ELSE since[i]
    <3>1. since[i] # 0 <=> Cardinality(approvals[i]) >= needed[i]
      BY <1>c, <2>1
    <3>2. needed[i] \in Nat /\ since[i] \in Nat
      BY <1>b
    <3> QED  BY <2>3, <3>1, <3>2, SameCount DEF Promise!Since
  <2>5. since' = [since EXCEPT ![i] = Promise!Since(i, A)]
    BY <1>4, <1>b, <2>4 DEF retract_approval
  <2>6. Promise!Vote(i, A)
    BY <1>4, <2>1, <2>2, <2>5 DEF Promise!Vote, retract_approval
  <2> QED  BY <2>2, <2>6
<1>5. ASSUME NEW i \in Ids, execute_ms_operation(i)
      PROVE  Promise!Execute(i)
  <2>1. i \in pending /\ \A j \in pending : i <= j
    BY <1>0, <1>5, <1>a DEF execute_ms_operation, QueueThreadsPending
  <2>2. approvals[i] \subseteq Range(governors)
    BY <1>c, <2>1
  <2> QED  BY <1>5, <2>1, <2>2, SameCount DEF Promise!Execute, Promise!Drop, execute_ms_operation, remove_op
<1>6. ASSUME NEW i \in Ids, cancel_ms_operation(i)
      PROVE  Promise!Cancel(i)
  BY <1>6 DEF Promise!Cancel, Promise!Drop, cancel_ms_operation, remove_op
<1>7. ASSUME NEW d \in Durations, set_timelock_duration(d)
      PROVE  Promise!SetDuration
  BY <1>7, MultisigAssumptions DEF Promise!SetDuration, set_timelock_duration, opVars
<1>8. ASSUME Tick
      PROVE  Promise!Pass
  BY <1>8 DEF Promise!Pass, Tick, opVars
<1>9. CASE UNCHANGED vars
  BY <1>9 DEF vars, Promise!vars
<1> QED  BY <1>1, <1>2, <1>3, <1>4, <1>5, <1>6, <1>7, <1>8, <1>9 DEF Next, Promise!Next

\* The contract implements the promise made to the governors: operations are
\* executed oldest first, on the approvals of enough present governors held
\* without a gap for the timelock, whatever the linked list goes through.
THEOREM QueueKeepsPromise == Spec => PromiseKept
<1>1. IInv /\ [Next]_vars => [Promise!Next]_(Promise!vars)
  BY StepPromise
<1> QED  BY InitPromise, Invariance, <1>1, PTL DEF Spec, PromiseKept, Promise!Spec

-----------------------------------------------------------------------------
(* Admin control.  The inductive invariant adds two things to what the runs  *)
(* check: the approvals are finitely many, so that one more approval cannot  *)
(* take a recovery below the threshold, and the announced wait is exactly    *)
(* what is left of the delay.                                                *)

Recovery == [new_admin : Accounts, approvals : SUBSET Accounts,
             since : Nat \cup {None}, announced : Nat]
Veto == [vetoed : Accounts, left : Nat]

FinitelyMany == recovery # None => IsFiniteSet(recovery.approvals)

WaitIsRemainder ==
    Ready => recovery.announced =
               (IF recovery.since >= delay THEN 0 ELSE delay - recovery.since)

ControlIInv == ControlTypeOK /\ FinitelyMany /\ RecoveryStandsOnGuardians /\ WaitIsRemainder

\* Actions outside the recovery leave it as it is.
LEMMA RecoveryUntouched ==
    ASSUME ControlIInv, ControlTypeOK', UNCHANGED <<guardians, threshold, delay, recovery>>
    PROVE  ControlIInv'
BY DEF ControlIInv, FinitelyMany, WaitIsRemainder, RecoveryStandsOnGuardians, Ready

\* Approving: the approval is a guardian's, and the wait starts at the threshold.
LEMMA ApproveStep ==
    ASSUME ControlIInv, NEW g \in Accounts, NEW c \in Accounts, approve_recovery(g, c)
    PROVE  ControlIInv'
<1>a. delay \in Nat
    BY ControlAssumption DEF ControlIInv, ControlTypeOK
<1> DEFINE old == IF recovery = None THEN {} ELSE recovery.approvals
           new == {g} \cup old
<1>1. /\ IsFiniteSet(old) /\ IsFiniteSet(new) /\ old \subseteq Accounts
      /\ new \subseteq Range(guardians)
      /\ Cardinality(old) \in Nat /\ Cardinality(new) \in Nat
      /\ Cardinality(new) >= Cardinality(old)
    <2>1. IsFiniteSet(old) /\ old \subseteq Accounts /\ old \subseteq Range(guardians)
        BY FS_EmptySet DEF ControlIInv, FinitelyMany, ControlTypeOK, RecoveryStandsOnGuardians
    <2>2. IsFiniteSet(new) /\ Cardinality(old) \in Nat /\ Cardinality(new) \in Nat
          /\ Cardinality(new) >= Cardinality(old)
        <3>1. new = old \cup {g}
            OBVIOUS
        <3>2. IsFiniteSet(old \cup {g})
            BY <2>1, FS_AddElement
        <3>3. Cardinality(old \cup {g}) \in {Cardinality(old), Cardinality(old) + 1}
            BY <2>1, FS_AddElement
        <3>4. Cardinality(old) \in Nat
            BY <2>1, FS_CardinalityType
        <3> QED
            BY <3>1, <3>2, <3>3, <3>4
    <2> QED
        BY <2>1, <2>2 DEF approve_recovery
<1>2. CASE ~Ready /\ Cardinality(new) >= threshold
    <2>1. recovery' = [new_admin |-> c, approvals |-> new, since |-> 0, announced |-> delay]
        BY <1>2 DEF approve_recovery
    <2>2. recovery' \in Recovery /\ Ready' /\ recovery' # None
        BY <2>1, <1>a, <1>1, ControlAssumption DEF Recovery, Ready
    <2> QED
        BY <1>2, <2>1, <2>2, <1>a, <1>1
        DEF approve_recovery, ControlIInv, ControlTypeOK, FinitelyMany, RecoveryStandsOnGuardians,
            WaitIsRemainder, Recovery, switchVars
<1>3. CASE ~(~Ready /\ Cardinality(new) >= threshold)
    <2> DEFINE s == IF Ready THEN recovery.since ELSE None
               w == IF Ready THEN recovery.announced ELSE 0
    <2>1. recovery' = [new_admin |-> c, approvals |-> new, since |-> s, announced |-> w]
        BY <1>3 DEF approve_recovery
    <2>2. s \in Nat \cup {None} /\ w \in Nat
        BY DEF ControlIInv, ControlTypeOK, Ready
    <2>3. recovery' \in Recovery /\ recovery' # None
        BY <2>1, <2>2, <1>1, ControlAssumption DEF Recovery
    <2>4. Ready' <=> Ready
        BY <2>1, <2>3 DEF Ready
    <2>5. Ready <=> Cardinality(new) >= threshold
        <3>1. Ready => Cardinality(old) >= threshold
            BY DEF ControlIInv, RecoveryStandsOnGuardians, Ready
        <3>2. threshold \in Nat
            BY DEF ControlIInv, ControlTypeOK
        <3> QED
            BY <3>1, <3>2, <1>1, <1>3
    <2>6. ControlTypeOK'
        BY <2>3 DEF approve_recovery, ControlIInv, ControlTypeOK, Recovery, switchVars
    <2>7. FinitelyMany' /\ RecoveryStandsOnGuardians'
        BY <2>1, <2>4, <2>5, <1>1
        DEF approve_recovery, FinitelyMany, RecoveryStandsOnGuardians
    <2>8. WaitIsRemainder'
        BY <2>1, <2>4 DEF approve_recovery, ControlIInv, WaitIsRemainder
    <2> QED
        BY <2>6, <2>7, <2>8 DEF ControlIInv
<1> QED
    BY <1>2, <1>3

\* Time: the wait announced and the wait served move together.
LEMMA CloseStep ==
    ASSUME ControlIInv, CloseLedger
    PROVE  ControlIInv'
<1>a. delay \in Nat /\ Horizon \in Nat /\ delay <= Horizon
    BY ControlAssumption DEF ControlIInv, ControlTypeOK
<1>1. CASE Ready
    <2>1. recovery \in Recovery /\ recovery.since \in Nat /\ recovery.announced \in Nat
        BY <1>1 DEF Ready, ControlIInv, ControlTypeOK, Recovery
    <2>2. recovery' = [recovery EXCEPT !.since = Later(recovery.since),
                                     !.announced = Sooner(recovery.announced)]
        BY <1>1 DEF CloseLedger
    <2>3. /\ Later(recovery.since) \in Nat /\ Sooner(recovery.announced) \in Nat
          /\ Later(recovery.since) # None
        BY <2>1, <1>a, ControlAssumption DEF Later, Sooner
    <2>4. /\ recovery' \in Recovery /\ recovery' # None
          /\ recovery'.approvals = recovery.approvals
          /\ recovery'.since = Later(recovery.since)
          /\ recovery'.announced = Sooner(recovery.announced)
        BY <2>1, <2>2, <2>3, ControlAssumption DEF Recovery
    <2>5. Ready'
        BY <2>3, <2>4 DEF Ready
    <2>6. ControlTypeOK'
        <3>1. veto' \in Veto \cup {None}
            BY DEF CloseLedger, ControlIInv, ControlTypeOK, Veto, Sooner
        <3>2. quiet' \in Nat /\ emergency' \in Nat \cup {None}
            BY <1>a DEF CloseLedger, ControlIInv, ControlTypeOK, Later, Sooner
        <3> QED
            BY <2>4, <3>1, <3>2 DEF CloseLedger, ControlIInv, ControlTypeOK, Recovery, Veto
    <2>7. FinitelyMany' /\ RecoveryStandsOnGuardians'
        BY <1>1, <2>4, <2>5
        DEF CloseLedger, ControlIInv, FinitelyMany, RecoveryStandsOnGuardians, Ready
    <2>8. WaitIsRemainder'
        BY <1>1, <2>1, <2>4, <2>5, <1>a
        DEF CloseLedger, ControlIInv, WaitIsRemainder, Later, Sooner
    <2> QED
        BY <2>6, <2>7, <2>8 DEF ControlIInv
<1>2. CASE ~Ready
    <2>1. recovery' = recovery
        BY <1>2 DEF CloseLedger
    <2>2. ControlTypeOK'
        BY <2>1, <1>a DEF CloseLedger, ControlIInv, ControlTypeOK, Later, Sooner
    <2> QED
        BY <2>1, <2>2, RecoveryUntouched DEF CloseLedger
<1> QED
    BY <1>1, <1>2

\* Every step keeps the invariant.
LEMMA ControlStep ==
    ASSUME ControlIInv, [ControlNext]_controlVars
    PROVE  ControlIInv'
<1>1. ASSUME NEW list \in GuardianLists, NEW t \in Thresholds, set_guardians(list, t)
      PROVE  ControlIInv'
    BY <1>1, ControlAssumption
    DEF set_guardians, ConfigUnlocked, ControlIInv, ControlTypeOK, FinitelyMany,
        RecoveryStandsOnGuardians, WaitIsRemainder, Ready, switchVars
<1>2. ASSUME NEW d \in Delays, set_recovery_delay(d)
      PROVE  ControlIInv'
    BY <1>2
    DEF set_recovery_delay, ConfigUnlocked, ControlIInv, ControlTypeOK, FinitelyMany,
        RecoveryStandsOnGuardians, WaitIsRemainder, Ready, switchVars
<1>3. CASE cancel_recovery
    <2>1. ControlTypeOK'
        BY <1>3, ControlAssumption DEF cancel_recovery, ControlIInv, ControlTypeOK, Ready, switchVars
    <2> QED
        BY <1>3, <2>1
        DEF cancel_recovery, ControlIInv, FinitelyMany, RecoveryStandsOnGuardians, WaitIsRemainder, Ready
<1>4. CASE execute_recovery
    BY <1>4
    DEF execute_recovery, ControlIInv, ControlTypeOK, FinitelyMany, RecoveryStandsOnGuardians,
        WaitIsRemainder, Ready, switchVars
<1>5. ASSUME NEW a \in Accounts, set_admin(a)
      PROVE  ControlIInv'
    BY <1>5, RecoveryUntouched DEF set_admin, ControlIInv, ControlTypeOK, recoveryVars, switchVars
<1>6. ASSUME NEW s \in Switches, configure(s)
      PROVE  ControlIInv'
    BY <1>6, RecoveryUntouched, ControlAssumption
    DEF configure, ControlIInv, ControlTypeOK, recoveryVars
<1>7. CASE pause \/ unpause \/ cancel_emergency_pause
    BY <1>7, RecoveryUntouched
    DEF pause, unpause, cancel_emergency_pause, ControlIInv, ControlTypeOK, recoveryVars, switchVars
<1>8. ASSUME NEW n \in EmergencyTerms, emergency_pause(n) \/ extend_emergency_pause(n)
      PROVE  ControlIInv'
    <2>0. n \in Nat
        BY ControlAssumption
    <2>1. emergency' \in Nat \cup {None}
        BY <1>8, <2>0 DEF emergency_pause, extend_emergency_pause, ControlIInv, ControlTypeOK
    <2>3. paused' \in BOOLEAN
        BY <1>8, Zenon DEF emergency_pause, extend_emergency_pause, ControlIInv, ControlTypeOK
    <2>2. UNCHANGED <<admin, recoveryVars, switchVars>>
        BY <1>8 DEF emergency_pause, extend_emergency_pause
    <2> QED
        BY <2>1, <2>2, <2>3, RecoveryUntouched DEF ControlIInv, ControlTypeOK, recoveryVars, switchVars
<1>9. ASSUME NEW o \in Accounts, heartbeat(o)
      PROVE  ControlIInv'
    BY <1>9, RecoveryUntouched DEF heartbeat, ControlIInv, ControlTypeOK, recoveryVars
<1>10. CASE evaluate
    BY <1>10, RecoveryUntouched DEF evaluate, ControlIInv, ControlTypeOK, recoveryVars
<1>11. ASSUME NEW g \in Accounts, recover(g)
       PROVE  ControlIInv'
    BY <1>11, RecoveryUntouched DEF recover, ControlIInv, ControlTypeOK, recoveryVars
<1>12. CASE UNCHANGED controlVars
    BY <1>12, RecoveryUntouched DEF controlVars, ControlIInv, ControlTypeOK, recoveryVars, switchVars
<1> QED
    BY <1>1, <1>2, <1>3, <1>4, <1>5, <1>6, <1>7, <1>8, <1>9, <1>10, <1>11, <1>12,
       ApproveStep, CloseStep
    DEF ControlNext, AdminRecoveryNext, AdminServiceNext

\* The inductive invariant holds in every reachable state.
THEOREM ControlInvariance == ControlSpec => []ControlIInv
<1>1. ControlInit => ControlIInv
    <2> SUFFICES ASSUME ControlInit PROVE ControlIInv
        OBVIOUS
    <2>1. switch \in [trigger_after : Nat, warn_after : Nat, operators : SUBSET Accounts]
        BY DEF ControlInit, Off
    <2>2. guardians \in Seq(Accounts) /\ threshold \in Nat /\ quiet \in Nat
        BY ControlAssumption DEF ControlInit
    <2>3. ControlTypeOK
        BY <2>1, <2>2 DEF ControlInit, ControlTypeOK
    <2> QED
        BY <2>3 DEF ControlInit, ControlIInv, FinitelyMany, RecoveryStandsOnGuardians, WaitIsRemainder, Ready
<1>2. ControlIInv /\ [ControlNext]_controlVars => ControlIInv'
    BY ControlStep
<1> QED
    BY <1>1, <1>2, PTL DEF ControlSpec

\* No change of guardians or threshold ever leaves a recovery standing on
\* approvals that no longer count: recovery.rs locks both while one is pending.
THEOREM RecoveryOnGuardians == ControlSpec => []RecoveryStandsOnGuardians
BY ControlInvariance, PTL DEF ControlIInv

\* No recovery is executable before the ledger its RecoveryReadyEvent announced.
THEOREM AnnouncedDelay == ControlSpec => []AnnouncedDelayHolds
<1>1. ControlIInv => AnnouncedDelayHolds
    BY ControlAssumption DEF ControlIInv, ControlTypeOK, WaitIsRemainder, AnnouncedDelayHolds, Ready
<1> QED
    BY ControlInvariance, <1>1, PTL

=============================================================================
