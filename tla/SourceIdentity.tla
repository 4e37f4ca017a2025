--------------------------- MODULE SourceIdentity ---------------------------
(***************************************************************************)
(* Onboarding and offboarding of sources (source_lifecycle.rs) together    *)
(* with the other ways a registration begins, moves or ends (sources.rs):  *)
(* identity fingerprints, probation, key rotation, tombstones.             *)
(*                                                                         *)
(* A bond is posted or not: checklist only compares it with the required   *)
(* amount.  Its custody is modelled in SourceHealth.                       *)
(***************************************************************************)
EXTENDS Naturals

CONSTANTS
    Sources,         \* addresses
    Identities,      \* identity fingerprints
    ProbationSecs,   \* LifecycleConfig.probation_secs, in ledgers
    MaxTime,         \* bound on ledger time
    None             \* an absent storage entry

ASSUME SourceIdentityAssumptions ==
    /\ ProbationSecs \in Nat /\ MaxTime \in Nat
    /\ None \notin Sources \cup Identities

VARIABLES
    time,          \* env.ledger().timestamp()
    registered,    \* SrcActive / SrcRegistry
    bonded,        \* the sources whose SourceBond meets the requirement
    record,        \* LcKey::Record
    owner,         \* LcKey::IdentityOwner
    revokedIds,    \* LcKey::RevokedIdentity
    revokedAddrs   \* LcKey::RevokedAddress

vars == <<time, registered, bonded, record, owner, revokedIds, revokedAddrs>>

SourceLifecycle == [identity : Identities, probation_until : Nat, graduated : BOOLEAN]

NoRecord == [identity |-> None, probation_until |-> 0, graduated |-> FALSE]
Has(s) == record[s] # NoRecord
OnProbation(s) == Has(s) /\ ~record[s].graduated

Init ==
    /\ time = 1
    /\ registered = {}
    /\ bonded = {}
    /\ record = [s \in Sources |-> NoRecord]
    /\ owner = [i \in Identities |-> None]
    /\ revokedIds = {}
    /\ revokedAddrs = {}

-----------------------------------------------------------------------------

\* sources.rs register_source_internal.
CanRegister(s) == s \notin registered /\ s \notin revokedAddrs

add_source(s) ==
    /\ CanRegister(s)
    /\ registered' = registered \cup {s}
    /\ UNCHANGED <<time, bonded, record, owner, revokedIds, revokedAddrs>>

onboardAnyIdentity(s, i) ==   \* slip: the owner of the fingerprint is not consulted
    /\ i \notin revokedIds
    /\ CanRegister(s)
    /\ registered' = registered \cup {s}
    /\ record' = [record EXCEPT ![s] =
          [identity |-> i, probation_until |-> time + ProbationSecs, graduated |-> FALSE]]
    /\ owner' = [owner EXCEPT ![i] = s]
    /\ UNCHANGED <<time, bonded, revokedIds, revokedAddrs>>
onboard(s, i) ==
    /\ i \notin revokedIds
    /\ owner[i] = None
    /\ CanRegister(s)
    /\ registered' = registered \cup {s}
    /\ record' = [record EXCEPT ![s] =
          [identity |-> i, probation_until |-> time + ProbationSecs, graduated |-> FALSE]]
    /\ owner' = [owner EXCEPT ![i] = s]
    /\ UNCHANGED <<time, bonded, revokedIds, revokedAddrs>>

\* sources.rs deposit_source_bond, and the events that take a bond away from a
\* source that stays registered (forfeiture, slashing, a raised requirement).
deposit_source_bond(s) ==
    /\ s \in registered
    /\ bonded' = bonded \cup {s}
    /\ UNCHANGED <<time, registered, record, owner, revokedIds, revokedAddrs>>

LoseBond(s) ==
    /\ bonded' = bonded \ {s}
    /\ UNCHANGED <<time, registered, record, owner, revokedIds, revokedAddrs>>

graduateUnbonded(s) ==   \* slip: the bond step is not checked
    /\ OnProbation(s)
    /\ s \notin revokedAddrs
    /\ time >= record[s].probation_until
    /\ record' = [record EXCEPT ![s].graduated = TRUE]
    /\ UNCHANGED <<time, registered, bonded, owner, revokedIds, revokedAddrs>>
\* graduate: permissionless, once the checklist is complete.
graduate(s) ==
    /\ OnProbation(s)
    /\ s \notin revokedAddrs
    /\ s \in bonded
    /\ time >= record[s].probation_until
    /\ record' = [record EXCEPT ![s].graduated = TRUE]
    /\ UNCHANGED <<time, registered, bonded, owner, revokedIds, revokedAddrs>>

rotate_source_keyAnywhere(s, n) ==   \* slip: the tombstone of the new address is not read
    /\ s \in registered
    /\ n \notin registered
    /\ registered' = (registered \ {s}) \cup {n}
    /\ IF Has(s)
       THEN /\ record' = [record EXCEPT ![s] = NoRecord, ![n] = record[s]]
            /\ owner' = [owner EXCEPT ![record[s].identity] = n]
       ELSE UNCHANGED <<record, owner>>
    /\ UNCHANGED <<time, bonded, revokedIds, revokedAddrs>>
\* sources.rs rotate_source_key with on_key_rotated: a record moves with its
\* registration (over whatever the new address had), the bond does not.
rotate_source_key(s, n) ==
    /\ s \in registered
    /\ CanRegister(n)
    /\ registered' = (registered \ {s}) \cup {n}
    /\ IF Has(s)
       THEN /\ record' = [record EXCEPT ![s] = NoRecord, ![n] = record[s]]
            /\ owner' = [owner EXCEPT ![record[s].identity] = n]
       ELSE UNCHANGED <<record, owner>>
    /\ UNCHANGED <<time, bonded, revokedIds, revokedAddrs>>

\* sources.rs remove_source_inner: the lifecycle record stays.
remove_source(s) ==
    /\ s \in registered
    /\ registered' = registered \ {s}
    /\ bonded' = bonded \ {s}
    /\ UNCHANGED <<time, record, owner, revokedIds, revokedAddrs>>

\* sources.rs _remove_source_internal: pruning keeps even the bond.
prune(s) ==
    /\ s \in registered
    /\ registered' = registered \ {s}
    /\ UNCHANGED <<time, bonded, record, owner, revokedIds, revokedAddrs>>

\* offboard: slash or not, tombstone the address and the identity, de-register.
offboard(s) ==
    /\ s \in registered
    /\ registered' = registered \ {s}
    /\ bonded' = bonded \ {s}
    /\ record' = [record EXCEPT ![s] = NoRecord]
    /\ revokedAddrs' = revokedAddrs \cup {s}
    /\ IF Has(s)
       THEN /\ owner' = [owner EXCEPT ![record[s].identity] = None]
            /\ revokedIds' = revokedIds \cup {record[s].identity}
       ELSE UNCHANGED <<owner, revokedIds>>
    /\ UNCHANGED time

Tick ==
    /\ time < MaxTime
    /\ time' = time + 1
    /\ UNCHANGED <<registered, bonded, record, owner, revokedIds, revokedAddrs>>

-----------------------------------------------------------------------------

Next ==
    \/ \E s \in Sources, i \in Identities : onboard(s, i)
    \/ \E s \in Sources : add_source(s) \/ deposit_source_bond(s) \/ LoseBond(s)
    \/ \E s \in Sources : graduate(s) \/ remove_source(s) \/ prune(s) \/ offboard(s)
    \/ \E s, n \in Sources : rotate_source_key(s, n)
    \/ Tick

Spec == Init /\ [][Next]_vars

-----------------------------------------------------------------------------
(* Properties *)

\* The storage entries have their shape.
TypeOK ==
    /\ time \in Nat
    /\ registered \subseteq Sources /\ bonded \subseteq Sources
    /\ record \in [Sources -> SourceLifecycle \cup {NoRecord}]
    /\ owner \in [Identities -> Sources \cup {None}]
    /\ revokedIds \subseteq Identities /\ revokedAddrs \subseteq Sources

\* docs/source-lifecycle.md: a fingerprint "must be unused".  However sources
\* are onboarded, rotated, removed and added again, no two addresses ever
\* carry the same identity.
OneHolderPerIdentity ==
    \A s, n \in Sources :
        (Has(s) /\ Has(n) /\ record[s].identity = record[n].identity) => s = n

\* docs/source-lifecycle.md: after an offboarding neither the address nor the
\* identity is ever a source again, by whatever door.
OffboardedStaysOut ==
    /\ registered \cap revokedAddrs = {}
    /\ \A s \in Sources : Has(s) => record[s].identity \notin revokedIds

\* source_lifecycle.rs: probation is lifted "once both the time and the bond
\* steps pass".  The term of an identity follows it through key rotations,
\* removals and new registrations.
ProbationIsServed ==
    [][\A i \in Identities, s, n \in Sources :
          (/\ OnProbation(s) /\ record[s].identity = i
           /\ Has(n)' /\ record'[n].identity = i /\ record'[n].graduated)
          => time >= record[s].probation_until /\ s \in bonded]_vars

\* on_key_rotated keeps record and owner entry together: the owner entry of
\* every identity in use points at its holder, and a graduated holder is past
\* its probation term.
GraduatedIsPastTerm ==
    \A s \in Sources : Has(s) =>
        /\ owner[record[s].identity] = s
        /\ record[s].graduated => time >= record[s].probation_until

=============================================================================
