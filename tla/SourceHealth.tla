---------------------------- MODULE SourceHealth ----------------------------
(***************************************************************************)
(* Liveness of the registered sources and custody of their bonds           *)
(* (sources.rs, with the bond check of storage.rs and the commit slash of  *)
(* prices.rs): heartbeats and misses, suspension with forfeiture,          *)
(* reactivation, automatic pruning, key rotation, removal.                 *)
(*                                                                         *)
(* Ledger sequence and ledger time advance together and are one counter.   *)
(* The recomputations a suspension or a removal triggers are modelled in   *)
(* PriceOracle; here only what they read, the suspension flag, matters.    *)
(* The stake token is configured; the wallets that pay into it are not     *)
(* modelled, only what the contract holds.                                 *)
(***************************************************************************)
EXTENDS Naturals, FiniteSets, FiniteSetsExt

CONSTANTS
    Sources,       \* addresses that are or may become sources
    Interval,      \* CfgHeartbeatInterval, in ledgers
    Window,        \* CfgHeartbeatWindow
    MaxInactive,   \* CfgMaxInactiveLedgers
    MinSources,    \* CfgMinSources
    Bonds,         \* values the admin gives SourceBondAmount
    SlashAmount,   \* CommitRevealSlashAmount
    RotationCooldown,
    MaxLedger,     \* bound on the ledger sequence
    MaxHeld,       \* bound on the tokens deposited
    None           \* an absent storage entry

MissThreshold == 3   \* MISS_THRESHOLD

VARIABLES
    ledger,       \* env.ledger().sequence() and timestamp()
    registered,   \* SrcActive / SrcRegistry
    inactive,     \* SrcInactive
    missed,       \* SrcMissedHeartbeats
    heartbeat,    \* SrcHeartbeat
    since,        \* SrcInactiveSinceLedger
    priced,       \* SrcPriceSubmitAfterReactivation
    rotated,      \* SourceRotationLedger
    required,     \* SourceBondAmount
    bond,         \* SourceBond
    treasury,     \* TreasuryBalance
    held,         \* stake tokens the contract holds
    lapsedAt      \* when the source was last suspended (history, not storage)

healthVars == <<inactive, missed, heartbeat, since, priced, lapsedAt>>
moneyVars == <<bond, treasury, held>>
vars == <<ledger, registered, rotated, required, healthVars, moneyVars>>

Init ==
    /\ ledger = 1
    /\ registered \in SUBSET Sources
    /\ inactive = {}
    /\ missed = [s \in Sources |-> 0]
    /\ heartbeat = [s \in Sources |-> None]
    /\ since = [s \in Sources |-> None]
    /\ priced = {}
    /\ rotated = [s \in Sources |-> 0]
    /\ required \in Bonds
    /\ bond = [s \in Sources |-> 0]
    /\ treasury = 0
    /\ held = 0
    /\ lapsedAt = [s \in Sources |-> None]

-----------------------------------------------------------------------------
(* Suspension *)

compute_adaptive_intervalUnfloored(m) == Interval * (m \div Window)   \* slip: no floor
compute_adaptive_interval(m) ==
    LET multiplier == (Window + m) \div Window
    IN  Interval * (IF multiplier > 3 THEN 3 ELSE multiplier)

\* Is the source overdue?  One that never sent a heartbeat is overdue as soon
\* as ledger time itself exceeds the interval.
Overdue(s) ==
    IF heartbeat[s] # None
    THEN ledger > heartbeat[s] + compute_adaptive_interval(missed[s])
    ELSE ledger > Interval

\* A call of is_source_inactive on an overdue source counts one more miss, and
\* the third one suspends it.
Misses(s) == s \notin inactive /\ Overdue(s)
Lapses(s) == Misses(s) /\ missed[s] + 1 >= MissThreshold

forfeitKeepsBond(s) ==   \* slip: the bond is not zeroed
    /\ treasury' = treasury + bond[s]
    /\ bond' = bond
\* forfeit_source_bond_internal: the bond becomes treasury.
forfeit(s) ==
    /\ treasury' = treasury + bond[s]
    /\ bond' = [bond EXCEPT ![s] = 0]

\* The health entries is_source_inactive writes.
RecordMiss(s) ==
    /\ missed' = IF Misses(s) THEN [missed EXCEPT ![s] = @ + 1] ELSE missed
    /\ inactive' = IF Lapses(s) THEN inactive \cup {s} ELSE inactive
    /\ since' = IF Lapses(s) /\ since[s] = None
                THEN [since EXCEPT ![s] = ledger] ELSE since
    /\ lapsedAt' = IF Lapses(s) THEN [lapsedAt EXCEPT ![s] = ledger] ELSE lapsedAt
    /\ UNCHANGED <<heartbeat, priced>>

\* is_source_inactive: anyone may call it, for any address.  Only a source
\* with a heartbeat on record forfeits its bond when it is suspended.
is_source_inactive(s) ==
    /\ Misses(s)
    /\ RecordMiss(s)
    /\ IF Lapses(s) /\ heartbeat[s] # None
       THEN forfeit(s) ELSE UNCHANGED <<treasury, bond>>
    /\ UNCHANGED <<ledger, registered, rotated, required, held>>

-----------------------------------------------------------------------------
(* What a source does *)

\* submit_heartbeat: a suspended source is reactivated only if it has also
\* submitted a price; an active one starts again with no misses.
Reactivates(s) == s \in inactive /\ s \in priced

submit_heartbeatOnActiveOnly(s) ==   \* slip: a suspended source stays suspended
    /\ s \in registered
    /\ heartbeat' = [heartbeat EXCEPT ![s] = ledger]
    /\ missed' = IF s \notin inactive THEN [missed EXCEPT ![s] = 0] ELSE missed
    /\ UNCHANGED <<ledger, registered, rotated, required, moneyVars,
                   inactive, since, priced, lapsedAt>>
submit_heartbeat(s) ==
    /\ s \in registered
    /\ heartbeat' = [heartbeat EXCEPT ![s] = ledger]
    /\ inactive' = IF Reactivates(s) THEN inactive \ {s} ELSE inactive
    /\ missed' = IF Reactivates(s) \/ s \notin inactive
                 THEN [missed EXCEPT ![s] = 0] ELSE missed
    /\ priced' = IF Reactivates(s) THEN priced \ {s} ELSE priced
    /\ since' = IF Reactivates(s) THEN [since EXCEPT ![s] = None] ELSE since
    /\ UNCHANGED <<ledger, registered, rotated, required, moneyVars, lapsedAt>>

\* storage.rs check_source, then record_price_submitted.
submit_price(s) ==
    /\ s \in registered
    /\ bond[s] >= required
    /\ priced' = IF s \in inactive THEN priced \cup {s} ELSE priced
    /\ UNCHANGED <<ledger, registered, rotated, required, moneyVars,
                   inactive, missed, heartbeat, since, lapsedAt>>

\* deposit_source_bond: top the bond up, and reactivate at once.  The misses,
\* the date of the suspension and the price flag stay.
deposit_source_bond(s) ==
    /\ s \in registered
    /\ required > 0 /\ bond[s] < required
    /\ held + (required - bond[s]) <= MaxHeld
    /\ held' = held + (required - bond[s])
    /\ bond' = [bond EXCEPT ![s] = required]
    /\ inactive' = inactive \ {s}
    /\ UNCHANGED <<ledger, registered, rotated, required, treasury,
                   missed, heartbeat, since, priced, lapsedAt>>

\* rotate_source_key: the registration moves to the new address; heartbeat,
\* misses, suspension and bond stay with the old one.
rotate_source_key(s, n) ==
    /\ s \in registered /\ n \notin registered
    /\ rotated[s] > 0 => ledger - rotated[s] >= RotationCooldown
    /\ registered' = (registered \ {s}) \cup {n}
    /\ rotated' = [rotated EXCEPT ![n] = ledger]
    /\ UNCHANGED <<ledger, required, healthVars, moneyVars>>

-----------------------------------------------------------------------------
(* Administration *)

\* register_source_internal: nothing of an earlier registration is cleared.
add_source(s) ==
    /\ s \notin registered
    /\ registered' = registered \cup {s}
    /\ UNCHANGED <<ledger, rotated, required, healthVars, moneyVars>>

\* remove_source_inner: is_source_inactive is asked first and may suspend the
\* source; a bond left after that is returned to an active source (the result
\* of the transfer is ignored) and forfeited by a suspended one.
remove_source(s) ==
    /\ s \in registered
    /\ registered' = registered \ {s}
    /\ RecordMiss(s)
    /\ bond' = [bond EXCEPT ![s] = 0]
    /\ \/ /\ s \in inactive'
          /\ treasury' = treasury + bond[s]
          /\ UNCHANGED held
       \/ /\ s \notin inactive'
          /\ \E returned \in {0, bond[s]} : held' = held - returned
          /\ UNCHANGED treasury
    /\ UNCHANGED <<ledger, rotated, required>>

\* check_and_prune_inactive_sources: anyone may call it.  Only suspended
\* sources go, so the count of active ones is the same at every iteration and
\* either all candidates are removed or none.
PruneCandidates ==
    {s \in registered \cap inactive :
        since[s] # None /\ ledger - since[s] >= MaxInactive}

check_and_prune_inactive_sources ==
    LET C == PruneCandidates
    IN  /\ C # {}
        /\ Cardinality(registered \ inactive) >= MinSources
        /\ registered' = registered \ C
        /\ inactive' = inactive \ C
        /\ missed' = [s \in Sources |-> IF s \in C THEN 0 ELSE missed[s]]
        /\ since' = [s \in Sources |-> IF s \in C THEN None ELSE since[s]]
        /\ priced' = priced \ C
        /\ UNCHANGED <<ledger, rotated, required, moneyVars, heartbeat, lapsedAt>>

set_source_bond(amount) ==
    /\ required' = amount
    /\ UNCHANGED <<ledger, registered, rotated, healthVars, moneyVars>>

\* prices.rs slash_expired_commits: part of the bond becomes treasury.
slash_expired_commits(s) ==
    LET slash == IF bond[s] < SlashAmount THEN bond[s] ELSE SlashAmount
    IN  /\ slash > 0
        /\ bond' = [bond EXCEPT ![s] = @ - slash]
        /\ treasury' = treasury + slash
        /\ UNCHANGED <<ledger, registered, rotated, required, healthVars, held>>

CloseLedger ==
    /\ ledger < MaxLedger
    /\ ledger' = ledger + 1
    /\ UNCHANGED <<registered, rotated, required, healthVars, moneyVars>>

-----------------------------------------------------------------------------

Operate(s) ==
    \/ submit_heartbeat(s)
    \/ submit_price(s)
    \/ deposit_source_bond(s)

Next ==
    \/ \E s \in Sources : Operate(s)
    \/ \E s \in Sources : is_source_inactive(s) \/ slash_expired_commits(s)
    \/ \E s, n \in Sources : rotate_source_key(s, n)
    \/ \E s \in Sources : add_source(s) \/ remove_source(s)
    \/ check_and_prune_inactive_sources
    \/ \E amount \in Bonds : set_source_bond(amount)
    \/ CloseLedger

Spec == Init /\ [][Next]_vars

\* A source operator keeps sending heartbeats, retries its price submission
\* and its bond deposit: the bot of docs/price-submission-bot.md.
Operated ==
    \A s \in Sources : /\ WF_vars(submit_heartbeat(s))
                       /\ SF_vars(submit_price(s))
                       /\ SF_vars(deposit_source_bond(s))
-----------------------------------------------------------------------------
(* Properties *)

\* The storage entries have their shape.
TypeOK ==
    /\ ledger \in Nat
    /\ registered \subseteq Sources /\ inactive \subseteq Sources
    /\ priced \subseteq Sources
    /\ missed \in [Sources -> Nat]
    /\ heartbeat \in [Sources -> Nat \cup {None}]
    /\ since \in [Sources -> Nat \cup {None}]
    /\ lapsedAt \in [Sources -> Nat \cup {None}]
    /\ rotated \in [Sources -> Nat]
    /\ required \in Bonds
    /\ bond \in [Sources -> Nat]
    /\ treasury \in Nat /\ held \in Nat

\* The contract holds at least what it owes: the recorded bonds (of sources no
\* longer registered too) and the treasury, through deposits, forfeitures,
\* slashes, returns that fail, removals and prunings in any order.
Solvent == held >= MapThenSumSet(LAMBDA s : bond[s], Sources) + treasury

\* However often and by whomever is_source_inactive is called, a source whose
\* last heartbeat is not older than the interval is never suspended.
PunctualIsSafe ==
    [][\A s \in Sources :
          (/\ s \in registered \ inactive
           /\ heartbeat[s] # None
           /\ ledger <= heartbeat[s] + Interval)
          => s \notin inactive']_vars

\* Every suspended source carries the date pruning needs, whatever mixture of
\* suspensions, reactivations, removals and registrations it went through:
\* none stays registered, excluded and unprunable.
SuspensionIsDated ==
    \A s \in inactive : since[s] # None /\ since[s] <= lapsedAt[s]

\* A suspended source whose operator keeps at it does not stay suspended.
SuspendedRecovers ==
    \A s \in Sources :
        (s \in registered \cap inactive) ~> (s \notin registered \cap inactive)

\* Documentation of check_and_prune_inactive_sources: it removes the sources
\* that "have been inactive for more than max_inactive_ledgers without
\* reactivating".
PrunedAfterFullTerm ==
    [][\A s \in Sources :
          (s \in registered \cap inactive /\ s \notin registered' \cup inactive')
          => ledger - lapsedAt[s] >= MaxInactive]_vars

=============================================================================
