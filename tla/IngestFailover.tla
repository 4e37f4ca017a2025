--------------------------- MODULE IngestFailover ---------------------------
(***************************************************************************)
(* The multi-region ingest router (services/ingest_failover/router.py):    *)
(* health of the regions, selection of the active one, and the routing of  *)
(* a submission at most once across the fleet.                             *)
(*                                                                         *)
(* One router object serves one submit at a time.  A submit is several     *)
(* steps here, one per transport call, because regions go down, come back  *)
(* and the clock runs between two calls of it.  The transport is external: *)
(* it accepts, refuses (Unreachable: the write did not happen) or fails in *)
(* a way that leaves open whether the write happened.  The failure counter *)
(* is kept up to its threshold, all that is ever compared with it.         *)
(***************************************************************************)
EXTENDS Naturals, Sequences, FiniteSets, FiniteSetsExt, SequencesExt

CONSTANTS
    Fleet,           \* RegionRouter.regions, in order of preference
    Keys,            \* idempotency keys of logical submissions
    FailureThreshold,
    CooldownSecs,
    MaxOutages,      \* bound on the times a region goes down
    MaxTimeouts,     \* bound on the ambiguous failures
    None

Pending == "pending"   \* the ledger marker PENDING

VARIABLES
    failures,     \* Region.consecutive_failures
    available,    \* Region.available: health is not UNHEALTHY
    cooling,      \* time left until Region.in_cooldown_until
    active,       \* RegionRouter.active
    recorded,     \* RegionRouter.ledger
    quarantined,  \* RegionRouter.quarantined
    call,         \* the submit that is running: its key, and the regions tried
    told,         \* the last answer given for a key (history)
    landed,       \* writes that reached the chain, per key (external)
    up, outages, timeouts   \* reachability of the regions, faults so far (external)

Regions == ToSet(Fleet)
healthVars == <<failures, available, cooling>>
faultVars == <<up, outages, timeouts>>
fvars == <<healthVars, active, recorded, quarantined, call, told, landed, faultVars>>

Idle == [key |-> None, tried |-> {}]

Init ==
    /\ failures = [r \in Regions |-> 0]
    /\ available = [r \in Regions |-> TRUE]
    /\ cooling = [r \in Regions |-> 0]
    /\ active = Head(Fleet)
    /\ recorded = [k \in Keys |-> None]
    /\ quarantined = {}
    /\ call = Idle
    /\ told = [k \in Keys |-> None]
    /\ landed = [k \in Keys |-> 0]
    /\ up = [r \in Regions |-> TRUE]
    /\ outages = 0 /\ timeouts = 0

-----------------------------------------------------------------------------
(* Health *)

note_failure(r) ==
    LET n == IF failures[r] < FailureThreshold THEN failures[r] + 1 ELSE FailureThreshold
    IN  /\ failures' = [failures EXCEPT ![r] = n]
        /\ available' = [available EXCEPT ![r] = @ /\ n < FailureThreshold]
        /\ cooling' = IF n >= FailureThreshold
                      THEN [cooling EXCEPT ![r] = CooldownSecs] ELSE cooling

\* probe: skipped during the cooldown; one answer makes the region healthy.
probe(r) ==
    /\ cooling[r] = 0
    /\ IF up[r]
       THEN /\ failures' = [failures EXCEPT ![r] = 0]
            /\ available' = [available EXCEPT ![r] = TRUE]
            /\ UNCHANGED cooling
       ELSE note_failure(r)
    /\ UNCHANGED <<active, recorded, quarantined, call, told, landed, faultVars>>

-----------------------------------------------------------------------------
(* Selection *)

\* The first of a set of regions in order of preference, None of none.
First(R) == IF R = {} THEN None ELSE Fleet[Min({i \in DOMAIN Fleet : Fleet[i] \in R})]

\* failover: the region after the current one fails, whoever was tried before.
failover(current, usable) == First({r \in Regions : usable[r]} \ {current})

\* ensure_active: keep the active region while it is usable and untried.
ensure_active(tried) ==
    IF active # None /\ available[active] /\ active \notin tried THEN active
    ELSE First({r \in Regions : available[r]} \ tried)

-----------------------------------------------------------------------------
(* Submission *)

\* submit up to the write-ahead intent, with its two early answers.
submit(k) ==
    /\ call = Idle
    /\ \/ /\ k \in quarantined
          /\ told' = [told EXCEPT ![k] = "ambiguous"]
          /\ UNCHANGED <<recorded, call>>
       \/ /\ k \notin quarantined /\ recorded[k] # None
          /\ told' = [told EXCEPT ![k] = "accepted"]
          /\ UNCHANGED <<recorded, call>>
       \/ /\ k \notin quarantined /\ recorded[k] = None
          /\ recorded' = [recorded EXCEPT ![k] = Pending]
          /\ call' = [key |-> k, tried |-> {}]
          /\ UNCHANGED told
    /\ UNCHANGED <<healthVars, active, quarantined, landed, faultVars>>

no_regionKeepsIntent ==   \* slip: the intent stays in the ledger
    /\ call # Idle
    /\ ensure_active(call.tried) = None
    /\ told' = [told EXCEPT ![call.key] = "unavailable"]
    /\ call' = Idle
    /\ UNCHANGED <<healthVars, active, recorded, quarantined, landed, faultVars>>
\* No region is left: the intent is withdrawn and the caller told.
no_region ==
    /\ call # Idle
    /\ ensure_active(call.tried) = None
    /\ recorded' = [recorded EXCEPT ![call.key] = None]
    /\ told' = [told EXCEPT ![call.key] = "unavailable"]
    /\ call' = Idle
    /\ UNCHANGED <<healthVars, active, quarantined, landed, faultVars>>

\* The transport call to the region chosen, and what is done with its outcome.
accept(r) ==
    /\ up[r]
    /\ landed' = [landed EXCEPT ![call.key] = @ + 1]
    /\ recorded' = [recorded EXCEPT ![call.key] = r]
    /\ told' = [told EXCEPT ![call.key] = "accepted"]
    /\ active' = r
    /\ call' = Idle
    /\ UNCHANGED <<healthVars, quarantined, faultVars>>

refuse(r) ==
    /\ ~up[r]
    /\ note_failure(r)
    /\ active' = failover(r, available')
    /\ call' = [call EXCEPT !.tried = @ \cup {r}]
    /\ UNCHANGED <<recorded, quarantined, told, landed, faultVars>>

timeoutRetried(r) ==   \* slip: an ambiguous failure is handled as a refusal
    /\ timeouts < MaxTimeouts
    /\ timeouts' = timeouts + 1
    /\ \E written \in {0, 1} : landed' = [landed EXCEPT ![call.key] = @ + written]
    /\ note_failure(r)
    /\ active' = failover(r, available')
    /\ call' = [call EXCEPT !.tried = @ \cup {r}]
    /\ UNCHANGED <<recorded, quarantined, told, up, outages>>
timeout(r) ==
    /\ timeouts < MaxTimeouts
    /\ timeouts' = timeouts + 1
    /\ \E written \in {0, 1} : landed' = [landed EXCEPT ![call.key] = @ + written]
    /\ note_failure(r)
    /\ active' = failover(r, available')
    /\ quarantined' = quarantined \cup {call.key}
    /\ told' = [told EXCEPT ![call.key] = "ambiguous"]
    /\ call' = Idle
    /\ UNCHANGED <<recorded, up, outages>>

transport ==
    /\ call # Idle
    /\ LET r == ensure_active(call.tried)
       IN  r # None /\ (accept(r) \/ refuse(r) \/ timeout(r))

-----------------------------------------------------------------------------
(* External: the clock and the regions *)

Tick ==
    /\ \E r \in Regions : cooling[r] > 0
    /\ cooling' = [r \in Regions |-> IF cooling[r] > 0 THEN cooling[r] - 1 ELSE 0]
    /\ UNCHANGED <<failures, available, active, recorded, quarantined, call, told, landed,
                   faultVars>>

Outage(r) ==
    /\ up[r] /\ outages < MaxOutages
    /\ outages' = outages + 1
    /\ up' = [up EXCEPT ![r] = FALSE]
    /\ UNCHANGED <<healthVars, active, recorded, quarantined, call, told, landed, timeouts>>

Restore(r) ==
    /\ ~up[r]
    /\ up' = [up EXCEPT ![r] = TRUE]
    /\ UNCHANGED <<healthVars, active, recorded, quarantined, call, told, landed, outages,
                   timeouts>>

-----------------------------------------------------------------------------

Next ==
    \/ \E k \in Keys : submit(k)
    \/ transport \/ no_region
    \/ \E r \in Regions : probe(r)
    \/ Tick
    \/ \E r \in Regions : Outage(r) \/ Restore(r)

\* The feed retries what was turned away; the router finishes the call it is
\* in, probes run and regions are repaired.
Retried == \A k \in Keys : WF_fvars(submit(k))
Routed ==
    /\ WF_fvars(transport) /\ WF_fvars(no_region)
    /\ \A r \in Regions : WF_fvars(probe(r)) /\ WF_fvars(Restore(r))
    /\ WF_fvars(Tick)
Spec == Init /\ [][Next]_fvars /\ Retried /\ Routed

-----------------------------------------------------------------------------
(* Properties *)

\* The router's fields have their shape.
TypeOK ==
    /\ failures \in [Regions -> 0..FailureThreshold]
    /\ available \in [Regions -> BOOLEAN] /\ cooling \in [Regions -> 0..CooldownSecs]
    /\ active \in Regions \cup {None}
    /\ recorded \in [Keys -> Regions \cup {None, Pending}]
    /\ quarantined \subseteq Keys

\* submit: "at most once across the whole fleet".  Through outages, failovers,
\* timeouts and retries no submission is written twice; one reported accepted
\* was written; and one that is in neither the ledger nor quarantine was not.
SubmittedOnce ==
    \A k \in Keys :
        /\ landed[k] <= 1
        /\ told[k] = "accepted" => landed[k] = 1
        /\ (recorded[k] = None /\ k \notin quarantined) => landed[k] = 0

\* A submission the feed keeps retrying is written, or quarantined for
\* reconciliation: it is neither lost nor left pending.
Delivered == \A k \in Keys : recorded[k] \in Regions \/ k \in quarantined
SubmissionsDelivered == <>[]Delivered

=============================================================================
