------------------------ MODULE SourceIdentityProofs ------------------------
(***************************************************************************)
(* Proofs about SourceIdentity, for any sets of addresses and identities.  *)
(*                                                                         *)
(* None of the properties is inductive alone: that two addresses never     *)
(* share an identity rests on the owner entry of every identity in use     *)
(* pointing back at its holder, which key rotation must maintain, and the  *)
(* tombstones rest on that uniqueness, since offboarding revokes an        *)
(* identity that some other record could otherwise still carry.            *)
(***************************************************************************)
EXTENDS MCSources, PriceMathProofs

IInv == TypeOK /\ GraduatedIsPastTerm /\ OffboardedStaysOut

\* A record is absent or a full lifecycle record, and only then has an owner.
LEMMA RecordShape ==
    ASSUME TypeOK, NEW s \in Sources
    PROVE  /\ record[s] \in SourceLifecycle \cup {NoRecord}
           /\ Has(s) <=> record[s] \in SourceLifecycle
           /\ Has(s) => record[s].identity \in Identities
  BY SourceIdentityAssumptions DEF TypeOK, Has, SourceLifecycle, NoRecord

\* The owner entry makes the holder of an identity unique.
LEMMA OwnerIsUnique ==
    ASSUME GraduatedIsPastTerm PROVE OneHolderPerIdentity
  BY DEF GraduatedIsPastTerm, OneHolderPerIdentity

LEMMA InitInv == Init => IInv
  BY SourceIdentityAssumptions
     DEF Init, IInv, TypeOK, GraduatedIsPastTerm, OffboardedStaysOut, Has

\* Onboarding uses a fresh identity.
LEMMA OnboardInv ==
    ASSUME IInv, NEW s \in Sources, NEW i \in Identities, onboard(s, i)
    PROVE  IInv'
  <1> DEFINE r == [identity |-> i, probation_until |-> time + ProbationSecs,
                   graduated |-> FALSE]
  <1>1. r \in SourceLifecycle
    BY SourceIdentityAssumptions DEF SourceLifecycle, IInv, TypeOK
  <1>2. record' = [record EXCEPT ![s] = r]
    BY DEF onboard
  <1>3. TypeOK'
    BY <1>1, <1>2 DEF IInv, TypeOK, onboard
  <1>4. \A t \in Sources : t # s => record'[t] = record[t] /\ (Has(t)' <=> Has(t))
    BY <1>2 DEF IInv, TypeOK, Has
  <1>5. record'[s] = r
    BY <1>2 DEF IInv, TypeOK
  <1>6. \A t \in Sources : (t # s /\ Has(t)) => record[t].identity # i
    BY SourceIdentityAssumptions DEF onboard, IInv, GraduatedIsPastTerm
  <1>7. GraduatedIsPastTerm'
    <2> SUFFICES ASSUME NEW t \in Sources, Has(t)'
                 PROVE  /\ owner'[record'[t].identity] = t
                        /\ record'[t].graduated => time' >= record'[t].probation_until
      BY DEF GraduatedIsPastTerm
    <2>1. CASE t = s
      BY <2>1, <1>5 DEF onboard, IInv, TypeOK
    <2>2. CASE t # s
      <3>1. Has(t) /\ record'[t] = record[t] /\ record[t].identity \in Identities
        BY <2>2, <1>4, RecordShape DEF IInv
      <3>2. owner'[record[t].identity] = owner[record[t].identity]
        BY <3>1, <2>2, <1>6 DEF onboard, IInv, TypeOK
      <3> QED BY <3>1, <3>2 DEF onboard, IInv, GraduatedIsPastTerm
    <2> QED BY <2>1, <2>2
  <1>8. OffboardedStaysOut'
    <2>1. (registered \cap revokedAddrs = {})'
      BY DEF onboard, CanRegister, IInv, OffboardedStaysOut
    <2>2. ASSUME NEW t \in Sources, Has(t)'
          PROVE  record'[t].identity \notin revokedIds'
      BY <2>2, <1>4, <1>5 DEF onboard, IInv, OffboardedStaysOut
    <2> QED BY <2>1, <2>2 DEF OffboardedStaysOut
  <1> QED BY <1>3, <1>7, <1>8 DEF IInv

\* Graduation keeps the identity and happens past the term.
LEMMA GraduateInv ==
    ASSUME IInv, NEW s \in Sources, graduate(s)
    PROVE  IInv'
  <1>1. record[s] \in SourceLifecycle
    BY RecordShape DEF graduate, OnProbation, IInv
  <1>2. /\ record'[s] \in SourceLifecycle
        /\ record'[s].identity = record[s].identity
        /\ record'[s].probation_until = record[s].probation_until
        /\ \A t \in Sources : t # s => record'[t] = record[t]
        /\ record' \in [Sources -> SourceLifecycle \cup {NoRecord}]
    BY <1>1 DEF graduate, IInv, TypeOK, SourceLifecycle
  <1>3. TypeOK'
    BY <1>2 DEF graduate, IInv, TypeOK
  <1>4. \A t \in Sources : Has(t)' <=> Has(t)
    BY <1>1, <1>2, <1>3, RecordShape, SourceIdentityAssumptions
    DEF Has, graduate, OnProbation, SourceLifecycle, NoRecord
  <1>5. GraduatedIsPastTerm'
    BY <1>2, <1>4 DEF GraduatedIsPastTerm, IInv, graduate
  <1>6. OffboardedStaysOut'
    BY <1>2, <1>4 DEF OffboardedStaysOut, IInv, graduate
  <1> QED BY <1>3, <1>5, <1>6 DEF IInv

\* A rotation hands identity and owner entry over together.
LEMMA RotateInv ==
    ASSUME IInv, NEW s \in Sources, NEW n \in Sources, rotate_source_key(s, n)
    PROVE  IInv'
  <1>0. s # n
    BY DEF rotate_source_key, CanRegister
  <1>1. (registered \cap revokedAddrs = {})'
    BY DEF rotate_source_key, CanRegister, IInv, OffboardedStaysOut
  <1>2. CASE ~Has(s)
    <2>1. record' = record /\ owner' = owner
      BY <1>2 DEF rotate_source_key
    <2>2. TypeOK'
      BY <2>1 DEF rotate_source_key, IInv, TypeOK
    <2> QED BY <1>1, <2>1, <2>2
         DEF rotate_source_key, IInv, GraduatedIsPastTerm, OffboardedStaysOut, Has
  <1>3. CASE Has(s)
    <2>1. record' = [record EXCEPT ![s] = NoRecord, ![n] = record[s]]
      BY <1>3 DEF rotate_source_key
    <2>2. /\ record'[s] = NoRecord /\ record'[n] = record[s]
          /\ \A t \in Sources \ {s, n} : record'[t] = record[t]
      BY <1>0, <2>1 DEF IInv, TypeOK
    <2>3. record[s] \in SourceLifecycle /\ record[s].identity \in Identities
      BY <1>3, RecordShape DEF IInv
    <2>4. owner' = [owner EXCEPT ![record[s].identity] = n]
      BY <1>3 DEF rotate_source_key
    <2>5. TypeOK'
      BY <2>1, <2>3, <2>4 DEF rotate_source_key, IInv, TypeOK
    <2>6. ASSUME NEW t \in Sources, Has(t)'
          PROVE  /\ owner'[record'[t].identity] = t
                 /\ record'[t].graduated => time' >= record'[t].probation_until
                 /\ record'[t].identity \notin revokedIds'
      <3>1. t # s
        BY <2>6, <2>2 DEF Has
      <3>2. CASE t = n
        BY <3>2, <1>3, <2>2, <2>3, <2>4
        DEF IInv, TypeOK, GraduatedIsPastTerm, OffboardedStaysOut, rotate_source_key
      <3>3. CASE t # n
        <4>1. Has(t) /\ record'[t] = record[t] /\ record[t].identity \in Identities
          BY <3>1, <3>3, <2>2, <2>6, RecordShape DEF Has, IInv
        <4>2. record[t].identity # record[s].identity
          BY <4>1, <1>3, <3>1 DEF IInv, GraduatedIsPastTerm
        <4>3. owner'[record[t].identity] = owner[record[t].identity]
          BY <4>1, <4>2, <2>3, <2>4 DEF IInv, TypeOK
        <4> QED BY <4>1, <4>3
             DEF IInv, GraduatedIsPastTerm, OffboardedStaysOut, rotate_source_key
      <3> QED BY <3>2, <3>3
    <2> QED BY <1>1, <2>5, <2>6 DEF IInv, GraduatedIsPastTerm, OffboardedStaysOut
  <1> QED BY <1>2, <1>3

\* Offboarding revokes an identity nobody else holds.
LEMMA OffboardInv ==
    ASSUME IInv, NEW s \in Sources, offboard(s)
    PROVE  IInv'
  <1>1. /\ record'[s] = NoRecord
        /\ \A t \in Sources : t # s => record'[t] = record[t]
    BY DEF offboard, IInv, TypeOK
  <1>2. (registered \cap revokedAddrs = {})'
    BY DEF offboard, IInv, OffboardedStaysOut
  <1>3. TypeOK'
    BY RecordShape DEF offboard, IInv, TypeOK
  <1>4. ASSUME NEW t \in Sources, Has(t)'
        PROVE  /\ owner'[record'[t].identity] = t
               /\ record'[t].graduated => time' >= record'[t].probation_until
               /\ record'[t].identity \notin revokedIds'
    <2>1. t # s /\ Has(t) /\ record'[t] = record[t] /\ record[t].identity \in Identities
      BY <1>1, <1>4, RecordShape DEF Has, IInv
    <2>2. Has(s) => record[t].identity # record[s].identity
      BY <2>1 DEF IInv, GraduatedIsPastTerm
    <2>3. owner'[record[t].identity] = owner[record[t].identity]
      BY <2>1, <2>2 DEF offboard, IInv, TypeOK
    <2>4. record[t].identity \notin revokedIds'
      BY <2>1, <2>2 DEF offboard, IInv, OffboardedStaysOut
    <2> QED BY <2>1, <2>3, <2>4 DEF IInv, GraduatedIsPastTerm, offboard
  <1> QED BY <1>2, <1>3, <1>4 DEF IInv, GraduatedIsPastTerm, OffboardedStaysOut

\* The other actions leave records, owners and tombstones alone.
LEMMA NextInv == IInv /\ [Next]_vars => IInv'
  <1> SUFFICES ASSUME IInv, [Next]_vars PROVE IInv'
    OBVIOUS
  <1>1. CASE \E s \in Sources, i \in Identities : onboard(s, i)
    BY <1>1, OnboardInv
  <1>2. CASE \E s \in Sources : add_source(s)
    BY <1>2 DEF add_source, CanRegister, IInv, TypeOK, GraduatedIsPastTerm,
                OffboardedStaysOut, Has
  <1>3. CASE \E s \in Sources : deposit_source_bond(s) \/ LoseBond(s)
    BY <1>3 DEF deposit_source_bond, LoseBond, IInv, TypeOK, GraduatedIsPastTerm,
                OffboardedStaysOut, Has
  <1>4. CASE \E s \in Sources : graduate(s)
    BY <1>4, GraduateInv
  <1>5. CASE \E s \in Sources : remove_source(s) \/ prune(s)
    BY <1>5 DEF remove_source, prune, IInv, TypeOK, GraduatedIsPastTerm,
                OffboardedStaysOut, Has
  <1>6. CASE \E s \in Sources : offboard(s)
    BY <1>6, OffboardInv
  <1>7. CASE \E s, n \in Sources : rotate_source_key(s, n)
    BY <1>7, RotateInv
  <1>8. CASE Tick
    <2>1. TypeOK' /\ OffboardedStaysOut'
      BY <1>8 DEF Tick, IInv, TypeOK, OffboardedStaysOut, Has
    <2>2. \A s \in Sources : Has(s) => record[s].probation_until \in Nat
      BY RecordShape DEF IInv, SourceLifecycle
    <2>3. GraduatedIsPastTerm'
      BY <1>8, <2>2 DEF Tick, IInv, TypeOK, GraduatedIsPastTerm, Has
    <2> QED BY <2>1, <2>3 DEF IInv
  <1>9. CASE UNCHANGED vars
    BY <1>9 DEF vars, IInv, TypeOK, GraduatedIsPastTerm, OffboardedStaysOut, Has
  <1> QED BY <1>1, <1>2, <1>3, <1>4, <1>5, <1>6, <1>7, <1>8, <1>9 DEF Next

LEMMA Inductive == Spec => []IInv
  BY InitInv, NextInv, PTL DEF Spec

\* However sources are onboarded, rotated, removed and added again, an
\* identity fingerprint (source_lifecycle.rs) has at most one holder.
THEOREM IdentityUnique == Spec => []OneHolderPerIdentity
  <1>1. IInv => OneHolderPerIdentity
    BY OwnerIsUnique DEF IInv
  <1> QED BY <1>1, Inductive, PTL

\* After offboard neither the address nor the identity is a source again.
THEOREM OffboardingIsFinal == Spec => []OffboardedStaysOut
  <1>1. IInv => OffboardedStaysOut
    BY DEF IInv
  <1> QED BY <1>1, Inductive, PTL

\* A source off probation is past its term, and owners point at holders.
THEOREM TermPassed == Spec => []GraduatedIsPastTerm
  <1>1. IInv => GraduatedIsPastTerm
    BY DEF IInv
  <1> QED BY <1>1, Inductive, PTL

\* No sequence of rotations, removals and registrations shortens the
\* probation of an identity (graduate in source_lifecycle.rs is the only way
\* out of it, with the bond posted and the term over).
THEOREM ProbationCannotBeShed == Spec => ProbationIsServed
  <1> DEFINE Served ==
        \A i \in Identities, s, n \in Sources :
          (/\ OnProbation(s) /\ record[s].identity = i
           /\ Has(n)' /\ record'[n].identity = i /\ record'[n].graduated)
          => time >= record[s].probation_until /\ s \in bonded
  <1>1. IInv /\ [Next]_vars => [Served]_vars
    <2> SUFFICES ASSUME IInv, Next,
                        NEW i \in Identities, NEW s \in Sources, NEW n \in Sources,
                        OnProbation(s), record[s].identity = i,
                        Has(n)', record'[n].identity = i, record'[n].graduated
                 PROVE  time >= record[s].probation_until /\ s \in bonded
      OBVIOUS
    <2>0. OneHolderPerIdentity
      BY OwnerIsUnique DEF IInv
    <2>1. record'[n] # record[n]
      <3> SUFFICES ASSUME record'[n] = record[n] PROVE FALSE
        OBVIOUS
      <3>1. Has(n)
        BY DEF Has
      <3>2. n = s
        BY <3>1, <2>0 DEF OnProbation, OneHolderPerIdentity
      <3> QED BY <3>2 DEF OnProbation
    <2>2. CASE \E t \in Sources, j \in Identities : onboard(t, j)
      <3> PICK t \in Sources, j \in Identities : onboard(t, j)
        BY <2>2
      <3>1. ~record'[t].graduated /\ \A u \in Sources : u # t => record'[u] = record[u]
        BY DEF onboard, IInv, TypeOK
      <3> QED BY <3>1, <2>1
    <2>3. CASE \E t \in Sources : graduate(t)
      <3> PICK t \in Sources : graduate(t)
        BY <2>3
      <3>1. t = n
        BY <2>1 DEF graduate, IInv, TypeOK
      <3>2. record[n] \in SourceLifecycle /\ Has(n)
        BY <3>1, RecordShape DEF graduate, OnProbation, IInv
      <3>3. record'[n].identity = record[n].identity
        BY <3>1, <3>2 DEF graduate, IInv, TypeOK, SourceLifecycle
      <3>4. s = n
        BY <3>2, <3>3, <2>0 DEF OnProbation, OneHolderPerIdentity
      <3> QED BY <3>1, <3>4 DEF graduate
    <2>4. CASE \E t, u \in Sources : rotate_source_key(t, u)
      <3> PICK t \in Sources, u \in Sources : rotate_source_key(t, u)
        BY <2>4
      <3>0. t # u
        BY DEF rotate_source_key, CanRegister
      <3>1. /\ Has(t) /\ record'[t] = NoRecord /\ record'[u] = record[t]
            /\ \A v \in Sources \ {t, u} : record'[v] = record[v]
        BY <3>0, <2>1 DEF rotate_source_key, IInv, TypeOK
      <3>2. n = u
        BY <3>1, <2>1 DEF Has
      <3>3. s = t
        BY <3>1, <3>2, <2>0 DEF OnProbation, OneHolderPerIdentity
      <3> QED BY <3>1, <3>2, <3>3 DEF OnProbation
    <2>5. CASE \E t \in Sources : offboard(t)
      <3> PICK t \in Sources : offboard(t)
        BY <2>5
      <3>1. record'[t] = NoRecord /\ \A u \in Sources : u # t => record'[u] = record[u]
        BY DEF offboard, IInv, TypeOK
      <3> QED BY <3>1, <2>1 DEF Has
    <2>6. CASE record' = record
      BY <2>6, <2>1
    <2> QED BY <2>2, <2>3, <2>4, <2>5, <2>6
         DEF Next, add_source, deposit_source_bond, LoseBond, remove_source, prune, Tick
  <1> QED BY <1>1, Inductive, PTL DEF Spec, ProbationIsServed

-----------------------------------------------------------------------------
(* The health of the sources *)

\* Who is suspended carries a date, and what the misses and heartbeats are.
HealthKept ==
    /\ ledger \in Nat
    /\ inactive \subseteq HealthSources
    /\ missed \in [HealthSources -> Nat]
    /\ heartbeat \in [HealthSources -> Nat \cup {None}]
    /\ since \in [HealthSources -> Nat \cup {None}]
    /\ lapsedAt \in [HealthSources -> Nat \cup {None}]
    /\ \A s \in HealthSources : since[s] # None => since[s] <= ledger
    /\ \A s \in inactive : /\ since[s] # None /\ lapsedAt[s] # None
                           /\ since[s] <= lapsedAt[s]

\* The interval is stretched by misses and never shortened.
LEMMA IntervalIsFloor ==
    ASSUME NEW m \in Nat
    PROVE  /\ Health!compute_adaptive_interval(m) \in Nat
           /\ Health!compute_adaptive_interval(m) >= Interval
<1>1. PICK k : k = (Window + m) \div Window
  OBVIOUS
<1>2. k \in Nat /\ k >= 1
  <2>1. Window \in Nat \ {0} /\ Window + m >= Window
    BY HealthAssumption
  <2> QED  BY <1>1, <2>1
<1>3. PICK q \in {1, 2, 3} : q = IF k > 3 THEN 3 ELSE k
  BY <1>2
<1>4. Health!compute_adaptive_interval(m) = Interval * q
  BY <1>1, <1>3 DEF Health!compute_adaptive_interval
<1>5. CASE q = 1
  BY <1>4, <1>5, HealthAssumption
<1>6. CASE q = 2
  BY <1>4, <1>6, HealthAssumption
<1>7. CASE q = 3
  BY <1>4, <1>7, HealthAssumption
<1> QED  BY <1>3, <1>5, <1>6, <1>7

\* A recorded miss suspends only a source that is overdue, and dates it.
LEMMA MissStep ==
    ASSUME HealthKept, UNCHANGED ledger, NEW s \in HealthSources, Health!RecordMiss(s)
    PROVE  /\ HealthKept'
           /\ \A t \in HealthSources : t \in inactive' \ inactive => t = s /\ Health!Overdue(t)
<1>1. CASE ~Health!Lapses(s)
  BY <1>1 DEF Health!RecordMiss, HealthKept
<1>2. CASE Health!Lapses(s)
  <2>1. Health!Overdue(s)
    BY <1>2 DEF Health!Lapses, Health!Misses
  <2>2. /\ missed' = [missed EXCEPT ![s] = @ + 1]
        /\ inactive' = inactive \cup {s}
        /\ since' = IF since[s] = None THEN [since EXCEPT ![s] = ledger] ELSE since
        /\ lapsedAt' = [lapsedAt EXCEPT ![s] = ledger]
        /\ UNCHANGED heartbeat
    BY <1>2 DEF Health!RecordMiss, Health!Lapses
  <2>3. /\ missed' \in [HealthSources -> Nat]
        /\ since' \in [HealthSources -> Nat \cup {None}]
        /\ lapsedAt' \in [HealthSources -> Nat \cup {None}]
    BY <2>2 DEF HealthKept
  <2>4. /\ since'[s] \in Nat /\ since'[s] <= ledger /\ lapsedAt'[s] = ledger
        /\ \A t \in HealthSources : t # s => since'[t] = since[t] /\ lapsedAt'[t] = lapsedAt[t]
    BY <2>2, HealthAssumption DEF HealthKept
  <2> QED  BY <2>1, <2>2, <2>3, <2>4, HealthAssumption DEF HealthKept
<1> QED  BY <1>1, <1>2

\* Every other call suspends nobody.
LEMMA HealthStep ==
    ASSUME HealthKept, [Health!Next]_hvars
    PROVE  /\ HealthKept'
           /\ \A t \in HealthSources : t \in inactive' \ inactive => Health!Overdue(t)
<1>1. CASE UNCHANGED hvars
  BY <1>1 DEF hvars, HealthKept
<1>2. ASSUME NEW s \in HealthSources, Health!is_source_inactive(s) \/ Health!remove_source(s)
      PROVE  /\ HealthKept'
             /\ \A t \in HealthSources : t \in inactive' \ inactive => Health!Overdue(t)
  BY <1>2, MissStep DEF Health!is_source_inactive, Health!remove_source
<1>3. ASSUME UNCHANGED Health!healthVars, UNCHANGED ledger \/ ledger' = ledger + 1
      PROVE  HealthKept' /\ inactive' = inactive
  BY <1>3, HealthAssumption DEF Health!healthVars, HealthKept
<1>4. ASSUME NEW s \in HealthSources, Health!Operate(s)
      PROVE  HealthKept' /\ inactive' \subseteq inactive
  <2>1. CASE Health!submit_heartbeat(s)
    BY <2>1 DEF Health!submit_heartbeat, HealthKept
  <2>2. CASE Health!submit_price(s)
    BY <2>2 DEF Health!submit_price, HealthKept
  <2>3. CASE Health!deposit_source_bond(s)
    BY <2>3 DEF Health!deposit_source_bond, HealthKept
  <2> QED  BY <1>4, <2>1, <2>2, <2>3 DEF Health!Operate
<1>5. CASE Health!check_and_prune_inactive_sources
  <2>1. PICK C : C = Health!PruneCandidates
    OBVIOUS
  <2>2. /\ inactive' = inactive \ C
        /\ missed' = [s \in HealthSources |-> IF s \in C THEN 0 ELSE missed[s]]
        /\ since' = [s \in HealthSources |-> IF s \in C THEN None ELSE since[s]]
        /\ UNCHANGED <<ledger, heartbeat, lapsedAt>>
    BY <1>5, <2>1 DEF Health!check_and_prune_inactive_sources
  <2> QED  BY <2>2 DEF HealthKept
<1>6. CASE \/ \E s \in HealthSources : Health!slash_expired_commits(s) \/ Health!add_source(s)
           \/ \E s, n \in HealthSources : Health!rotate_source_key(s, n)
           \/ \E amount \in Bonds : Health!set_source_bond(amount)
           \/ Health!CloseLedger
  BY <1>3, <1>6 DEF Health!slash_expired_commits, Health!add_source, Health!rotate_source_key,
       Health!set_source_bond, Health!CloseLedger
<1> QED  BY <1>1, <1>2, <1>4, <1>5, <1>6 DEF Health!Next

\* A step of the composition is a step of the health part or none of it.
LEMMA HealthOfStep ==
    [SourcesNext]_<<focus, vars, hvars>> => [Health!Next]_hvars
BY DEF SourcesNext, IdentitySteps, HealthSteps

LEMMA HealthIsKept == SourcesSpec => []HealthKept
<1>1. SourcesInit => HealthKept
  BY DEF SourcesInit, Health!Init, HealthKept
<1>2. HealthKept /\ [SourcesNext]_<<focus, vars, hvars>> => HealthKept'
  BY HealthOfStep, HealthStep
<1> QED  BY <1>1, <1>2, PTL DEF SourcesSpec

\* sources.rs:1703-1723.  Every suspended source has the date its pruning counts
\* from, whatever suspensions, deposits, removals and registrations came before.
THEOREM SuspensionsAreDated == SourcesSpec => []Health!SuspensionIsDated
<1>1. HealthKept => Health!SuspensionIsDated
  BY DEF HealthKept, Health!SuspensionIsDated
<1> QED  BY <1>1, HealthIsKept, PTL

\* sources.rs:626.  A source whose last heartbeat is not older than the interval
\* is never suspended, however often and by whomever is_source_inactive is called.
THEOREM PunctualStaysActive == SourcesSpec => PunctualIsSafe
<1>1. ASSUME HealthKept, NEW s \in HealthSources, heartbeat[s] # None,
             ledger <= heartbeat[s] + Interval
      PROVE  ~Health!Overdue(s)
  <2>1. missed[s] \in Nat /\ heartbeat[s] \in Nat /\ ledger \in Nat
    BY <1>1 DEF HealthKept
  <2>2. PICK d : d = Health!compute_adaptive_interval(missed[s])
    OBVIOUS
  <2>3. d \in Nat /\ d >= Interval
    BY <2>1, <2>2, IntervalIsFloor
  <2> QED  BY <1>1, <2>1, <2>2, <2>3, HealthAssumption DEF Health!Overdue
<1>2. HealthKept /\ [SourcesNext]_<<focus, vars, hvars>>
        => [\A s \in HealthSources :
              (/\ s \in hregistered \ inactive
               /\ heartbeat[s] # None
               /\ ledger <= heartbeat[s] + Interval)
              => s \notin inactive']_Health!vars
  BY <1>1, HealthOfStep, HealthStep DEF HealthKept
<1> QED  BY <1>2, HealthIsKept, PTL DEF SourcesSpec, PunctualIsSafe, Health!PunctualIsSafe

-----------------------------------------------------------------------------
(* Custody of the bonds *)

\* What the contract owes: every recorded bond, and the treasury.
BondsBacked ==
    /\ bond \in [HealthSources -> Nat]
    /\ required \in Int /\ treasury \in Int /\ held \in Int
    /\ held >= SumOver(bond, HealthSources) + treasury

\* The total of the bonds, as the model folds it.
LEMMA BondsTotal ==
    Health!MapThenSumSet(LAMBDA s : bond[s], HealthSources) = SumOver(bond, HealthSources)
BY DEF Health!MapThenSumSet, Health!MapThenFoldSet, SumOver, Summing, SumStep

\* A call that moves one bond keeps the bonds backed when what the contract
\* holds beyond the treasury's share moves by at least as much.
LEMMA MoneyMoves ==
    ASSUME BondsBacked, NEW s \in HealthSources,
           bond' \in [HealthSources -> Nat],
           \A t \in HealthSources : t # s => bond'[t] = bond[t],
           required' \in Int, treasury' \in Int, held' \in Int,
           (held' - treasury') - (held - treasury) >= bond'[s] - bond[s]
    PROVE  BondsBacked'
<1>1. bond \in [HealthSources -> Int] /\ IsFiniteSet(HealthSources)
  BY HealthAssumption DEF BondsBacked
<1>2. PICK after \in [HealthSources -> Int] : after = bond' /\ after \in [HealthSources -> Nat]
  OBVIOUS
<1>3. /\ SumOver(bond, HealthSources) \in Int
      /\ SumOver(after, HealthSources) = SumOver(bond, HealthSources) + (after[s] - bond[s])
  <2>1. \A t \in HealthSources : t # s => after[t] = bond[t]
    BY <1>2
  <2> QED  BY <1>1, <2>1, SumChanged
<1>4. SumOver(bond, HealthSources)' = SumOver(after, HealthSources)
  BY <1>2 DEF SumOver
<1>5. bond[s] \in Int /\ after[s] \in Int
  BY <1>1
<1> QED  BY <1>2, <1>3, <1>4, <1>5 DEF BondsBacked

\* A forfeiture, a deposit, a slash and a removal move one bond; no other call
\* moves money.
LEMMA MoneyStep ==
    ASSUME BondsBacked, [Health!Next]_hvars
    PROVE  BondsBacked'
<1>1. ASSUME UNCHANGED Health!moneyVars, required' \in Int
      PROVE  BondsBacked'
  <2>1. bond' = bond /\ treasury' = treasury /\ held' = held
    BY <1>1 DEF Health!moneyVars
  <2> QED  BY <1>1, <2>1 DEF BondsBacked, SumOver
<1>2. bond \in [HealthSources -> Nat] /\ required \in Int /\ treasury \in Int /\ held \in Int
  BY DEF BondsBacked
<1>3. CASE UNCHANGED hvars
  BY <1>1, <1>2, <1>3 DEF hvars, Health!moneyVars
<1>4. ASSUME NEW s \in HealthSources, Health!is_source_inactive(s)
      PROVE  BondsBacked'
  <2>1. CASE UNCHANGED <<treasury, bond>>
    BY <1>1, <1>2, <1>4, <2>1 DEF Health!is_source_inactive, Health!moneyVars
  <2>2. CASE Health!forfeit(s)
    <3>1. /\ treasury' = treasury + bond[s] /\ bond' = [bond EXCEPT ![s] = 0]
          /\ UNCHANGED <<required, held>>
      BY <1>4, <2>2 DEF Health!forfeit, Health!is_source_inactive
    <3>2. /\ bond' \in [HealthSources -> Nat] /\ bond'[s] = 0 /\ bond[s] \in Nat
          /\ \A t \in HealthSources : t # s => bond'[t] = bond[t]
      BY <1>2, <3>1
    <3> QED  BY <1>2, <3>1, <3>2, MoneyMoves
  <2> QED  BY <1>4, <2>1, <2>2 DEF Health!is_source_inactive
<1>5. ASSUME NEW s \in HealthSources, Health!deposit_source_bond(s)
      PROVE  BondsBacked'
  <2>1. /\ required > 0 /\ held' = held + (required - bond[s])
        /\ bond' = [bond EXCEPT ![s] = required]
        /\ UNCHANGED <<required, treasury>>
    BY <1>5 DEF Health!deposit_source_bond
  <2>2. /\ bond' \in [HealthSources -> Nat] /\ bond'[s] = required /\ bond[s] \in Nat
        /\ \A t \in HealthSources : t # s => bond'[t] = bond[t]
    BY <1>2, <2>1
  <2> QED  BY <1>2, <2>1, <2>2, MoneyMoves
<1>6. ASSUME NEW s \in HealthSources, Health!remove_source(s)
      PROVE  BondsBacked'
  <2>1. /\ bond' = [bond EXCEPT ![s] = 0] /\ UNCHANGED required
        /\ \/ treasury' = treasury + bond[s] /\ UNCHANGED held
           \/ held' = held - 0 /\ UNCHANGED treasury
           \/ held' = held - bond[s] /\ UNCHANGED treasury
    BY <1>6 DEF Health!remove_source
  <2>2. /\ bond' \in [HealthSources -> Nat] /\ bond'[s] = 0 /\ bond[s] \in Nat
        /\ \A t \in HealthSources : t # s => bond'[t] = bond[t]
    BY <1>2, <2>1
  <2> QED  BY <1>2, <2>1, <2>2, MoneyMoves
<1>7. ASSUME NEW s \in HealthSources, Health!slash_expired_commits(s)
      PROVE  BondsBacked'
  <2>1. PICK slash : slash = IF bond[s] < SlashAmount THEN bond[s] ELSE SlashAmount
    OBVIOUS
  <2>2. /\ slash > 0 /\ bond' = [bond EXCEPT ![s] = @ - slash] /\ treasury' = treasury + slash
        /\ UNCHANGED <<required, held>>
    BY <1>7, <2>1 DEF Health!slash_expired_commits
  <2>3. slash \in Int /\ bond[s] \in Nat /\ slash <= bond[s]
    BY <1>2, <2>1, HealthAssumption
  <2>4. /\ bond' \in [HealthSources -> Nat] /\ bond'[s] = bond[s] - slash
        /\ \A t \in HealthSources : t # s => bond'[t] = bond[t]
    <3>1. bond[s] - slash \in Nat
      BY <2>3
    <3> PICK rest \in Nat : rest = bond[s] - slash
      BY <3>1, Zenon
    <3>2. bond' = [bond EXCEPT ![s] = rest]
      BY <2>2
    <3> QED  BY <1>2, <3>2
  <2> QED  BY <1>2, <2>2, <2>3, <2>4, MoneyMoves
<1>8. CASE \/ \E s \in HealthSources :
                \/ Health!submit_heartbeat(s) \/ Health!submit_price(s) \/ Health!add_source(s)
           \/ \E s, n \in HealthSources : Health!rotate_source_key(s, n)
           \/ \E amount \in Bonds : Health!set_source_bond(amount)
           \/ Health!check_and_prune_inactive_sources \/ Health!CloseLedger
  <2>1. UNCHANGED Health!moneyVars
    BY <1>8 DEF Health!submit_heartbeat, Health!submit_price, Health!add_source,
         Health!rotate_source_key, Health!set_source_bond, Health!CloseLedger,
         Health!check_and_prune_inactive_sources
  <2>2. required' = required \/ required' \in Bonds
    BY <1>8 DEF Health!submit_heartbeat, Health!submit_price, Health!add_source,
         Health!rotate_source_key, Health!set_source_bond, Health!CloseLedger,
         Health!check_and_prune_inactive_sources
  <2> QED  BY <1>1, <1>2, <2>1, <2>2, HealthAssumption
<1> QED  BY <1>3, <1>4, <1>5, <1>6, <1>7, <1>8 DEF Health!Next, Health!Operate

\* sources.rs:1703-1723 and the bond transfers of sources.rs and prices.rs.  The
\* contract holds at least the bonds it has recorded, of removed sources too, and
\* the treasury, and every suspended source is dated.
THEOREM HealthIsBooked == SourcesSpec => []HealthBooked
<1>1. SourcesInit => BondsBacked
  <2> SUFFICES ASSUME SourcesInit PROVE BondsBacked
    OBVIOUS
  <2>1. /\ bond = [s \in HealthSources |-> 0] /\ required \in Bonds
        /\ treasury = 0 /\ held = 0
    BY DEF SourcesInit, Health!Init
  <2>2. bond \in [HealthSources -> Nat] /\ \A s \in HealthSources : bond[s] = 0
    BY <2>1
  <2>3. SumOver(bond, HealthSources) = 0
    BY <2>2, HealthAssumption, SumOfZeros
  <2> QED  BY <2>1, <2>2, <2>3, HealthAssumption DEF BondsBacked
<1>2. BondsBacked /\ [SourcesNext]_<<focus, vars, hvars>> => BondsBacked'
  BY HealthOfStep, MoneyStep
<1>3. BondsBacked => Health!Solvent
  BY BondsTotal DEF BondsBacked, Health!Solvent
<1> QED  BY <1>1, <1>2, <1>3, SuspensionsAreDated, PTL DEF SourcesSpec, HealthBooked

=============================================================================
