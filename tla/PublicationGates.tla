-------------------------- MODULE PublicationGates --------------------------
(***************************************************************************)
(* The gates between the median of a round and the published price of one  *)
(* asset, in the order update_aggregate passes them: blackout, deferral,   *)
(* quorum, price bounds, sanity relations (prices.rs, blackout.rs,         *)
(* deferral.rs, price_bounds.rs, sanity_lattice.rs).  The median, the      *)
(* number of submissions in the deferral window and whether the quorum is  *)
(* met are inputs, computed in PriceOracle.                                *)
(*                                                                         *)
(* Blackout windows are scheduled, extended and cancelled by the admin,    *)
(* opened on volatility by a quorum of sources, and closed by the first    *)
(* aggregation that meets an expired one.  The maintenance calendar of     *)
(* blackout.rs has no entry point and is left out.                         *)
(***************************************************************************)
EXTENDS Integers, FiniteSets

CONSTANTS
    (* blackouts *)
    Signallers,          \* registered sources past probation
    MaxBlackout,         \* MAX_BLACKOUT_SECS, in steps of the clock, like the rest
    MinNotice,           \* MIN_NOTICE_SECS
    Cooldown,            \* COOLDOWN_SECS
    SignalWindow,        \* SIGNAL_WINDOW_SECS
    VolatilityBlackout,  \* VOLATILITY_BLACKOUT_SECS
    VolatilityQuorums,   \* quorums the admin may set
    MaxClock             \* bound: the last instant

CONSTANTS
    (* deferral, bounds and relations *)
    Medians,     \* medians of a round
    PeerPrices,  \* prices of the related assets, 0 before their first
    Tiers,       \* records of the four bounds
    Policies,    \* deferral policies [quorum, max_defer]
    Relations,   \* sanity relations [kind, action]
    Tolerance,   \* tolerance_bps of the relations
    Depegs       \* instants until which a depeg may be declared

VARIABLES
    clock,       \* ledger timestamp
    window,      \* Window of the asset, or NoWindow
    last_end,    \* LastEnd, -1 before the first
    signals,     \* Signals: since when, and from whom
    vquorum,     \* Quorum
    opened,      \* ghost: a window was opened since the last aggregation withheld
    withheld     \* ghost: the aggregations withheld, see Withhold

VARIABLES
    price,       \* Aggregate, 0 before the first
    route,       \* ghost: what wrote it last
    bounds,      \* AssetBoundsTier, or NoTier
    policy,      \* AssetDeferral, or NoPolicy
    status,      \* AssetPublicationState
    relations,   \* AssetSanityRelations
    depeg,       \* AssetSanitySuspended, -1 when absent
    sanity,      \* AssetSanityStatus: violated and quarantined
    peers        \* aggregates of the two related assets

bvars == <<window, last_end, signals, vquorum, opened, withheld>>
gvars == <<price, route, bounds, policy, status, relations, depeg, sanity, peers>>

(***************************************************************************)
(* Blackouts                                                               *)
(***************************************************************************)
Instants == 0..MaxClock
NoWindow == [start |-> -1, end |-> -1]
NoSignals == [since |-> -1, sources |-> {}]
HasWindow == window # NoWindow

\* LastEnd after a window is closed: a cancelled one ends now.
close(cancelled) ==
    IF cancelled /\ clock < window.end THEN clock ELSE window.end

\* A live window or one that ended too recently forbids a new one; the guard
\* also gives LastEnd as the expired window, closed here, leaves it.
can_openIgnored(start) == ~HasWindow \/ clock >= window.end
can_open(start) ==
    /\ HasWindow => clock >= window.end
    /\ LET ended == IF HasWindow THEN close(FALSE) ELSE last_end
       IN  ended # -1 => start >= ended + Cooldown

open(start, end) ==
    /\ window' = [start |-> start, end |-> end]
    /\ last_end' = IF HasWindow THEN close(FALSE) ELSE last_end
    /\ opened' = TRUE

schedule(start, end) ==
    /\ start >= clock + MinNotice
    /\ end > start
    /\ end - start <= MaxBlackout
    /\ can_open(start)
    /\ open(start, end)
    /\ UNCHANGED <<signals, vquorum, withheld>>

extend(new_end) ==
    /\ HasWindow
    /\ clock < window.end
    /\ new_end > window.end
    /\ new_end - window.start <= MaxBlackout
    /\ window' = [window EXCEPT !.end = new_end]
    /\ UNCHANGED <<last_end, signals, vquorum, opened, withheld>>

cancel ==
    /\ HasWindow
    /\ window' = NoWindow
    /\ last_end' = close(TRUE)
    /\ UNCHANGED <<signals, vquorum, opened, withheld>>

\* The signals that still count when source s adds its own.
Current(s) ==
    IF signals # NoSignals /\ clock - signals.since < SignalWindow
    THEN [signals EXCEPT !.sources = @ \cup {s}]
    ELSE [since |-> clock, sources |-> {s}]

\* At the quorum the window opens or the whole call fails.
signal_volatility(s) ==
    /\ IF Cardinality(Current(s).sources) < vquorum
       THEN /\ signals' = Current(s)
            /\ UNCHANGED <<window, last_end, opened>>
       ELSE /\ can_open(clock)
            /\ signals' = NoSignals
            /\ open(clock, clock + VolatilityBlackout)
    /\ UNCHANGED <<vquorum, withheld>>

set_volatility_quorum(q) ==
    /\ q >= 2
    /\ vquorum' = q
    /\ UNCHANGED <<window, last_end, signals, opened, withheld>>

\* Ghost: the first and the last aggregation the latest window withheld, and
\* the last one an earlier window withheld.
Nothing == [first |-> -1, last |-> -1, before |-> -1]
Withhold ==
    IF opened
    THEN [first |-> clock, last |-> clock, before |-> withheld.last]
    ELSE [withheld EXCEPT !.last = clock]

\* Asked by every aggregation; an expired window is closed on the way.
Dark == HasWindow /\ clock >= window.start /\ clock < window.end
Expired == HasWindow /\ clock >= window.end
suppresses ==
    /\ withheld' = IF Dark THEN Withhold ELSE withheld
    /\ opened' = (opened /\ ~Dark)
    /\ window' = IF Expired THEN NoWindow ELSE window
    /\ last_end' = IF Expired THEN close(FALSE) ELSE last_end
    /\ UNCHANGED <<signals, vquorum>>

BlackoutInit ==
    /\ clock = 0 /\ window = NoWindow /\ last_end = -1 /\ signals = NoSignals
    /\ vquorum \in VolatilityQuorums
    /\ opened = FALSE /\ withheld = Nothing

BlackoutCalls ==
    \/ \E start, end \in Instants : schedule(start, end)
    \/ \E end \in Instants : extend(end)
    \/ cancel
    \/ \E s \in Signallers : signal_volatility(s)
    \/ \E q \in VolatilityQuorums : set_volatility_quorum(q)

NoTier == [hard_min |-> 0]
NoPolicy == [quorum |-> 0]
Unknown == [state |-> "none"]
Clean == [violated |-> FALSE, quarantined |-> FALSE]

(***************************************************************************)
(* Deferral                                                                *)
(***************************************************************************)
PreviousState ==
    IF status # Unknown THEN status.state
    ELSE IF price # 0 THEN "Published" ELSE "Absent"
DeferredSince == IF status # Unknown THEN status.since ELSE -1

BoundHit ==
    /\ PreviousState = "Deferred"
    /\ clock - DeferredSince >= policy.max_defer

resolve(received) ==
    LET next(state, since) ==
            [state |-> state, since |-> since, received |-> received, quorum |-> policy.quorum]
    IN  IF received >= policy.quorum THEN next("Published", -1)
        ELSE IF BoundHit \/ PreviousState = "Stale" THEN next("Stale", DeferredSince)
        ELSE IF PreviousState = "Deferred" THEN next("Deferred", DeferredSince)
        ELSE next("Deferred", clock)

should_publish(received) == policy # NoPolicy => received >= policy.quorum

(***************************************************************************)
(* Bounds                                                                  *)
(***************************************************************************)
WellOrdered(t) ==
    /\ t.soft_min > 0 /\ t.hard_min > 0
    /\ t.hard_min <= t.soft_min /\ t.soft_min <= t.soft_max /\ t.soft_max <= t.hard_max

Rejected(p) == bounds # NoTier /\ (p < bounds.hard_min \/ p > bounds.hard_max)

evaluate(p) ==
    IF bounds = NoTier THEN p
    ELSE IF p < bounds.soft_min THEN bounds.soft_min
    ELSE IF p > bounds.soft_max THEN bounds.soft_max
    ELSE p

(***************************************************************************)
(* Sanity relations                                                        *)
(***************************************************************************)
Abs(x) == IF x < 0 THEN -x ELSE x
is_suspended == depeg # -1 /\ clock <= depeg

\* A triangle is compared with its second peer alone.
Expected(r) == IF r.kind = "Triangle" THEN peers.second ELSE peers.first
Evaluated(r) == peers.first > 0 /\ Expected(r) > 0
Magnitude(r, p) ==
    (Abs(p - Expected(r)) * 10000) \div (IF r.kind = "Spread" THEN p ELSE Expected(r))

Violated(p) ==
    IF is_suspended THEN {}
    ELSE {r \in relations : Evaluated(r) /\ Magnitude(r, p) > Tolerance}
Actions(p) == {r.action : r \in Violated(p)}

\* A quarantine stays whatever later rounds find; clear_quarantine, which
\* would lift it, is called by no entry point.
QuarantinesFresh(p) == "Quarantine" \in Actions(p)
Quarantines(p) == sanity.quarantined \/ "Quarantine" \in Actions(p)
Blocked(p) == Quarantines(p) \/ "Reject" \in Actions(p)

(***************************************************************************)
(* The pipeline                                                            *)
(***************************************************************************)
Passes(p, received, enough) ==
    ~Dark /\ should_publish(received) /\ enough /\ ~Rejected(p)

update_aggregate(p, received, enough) ==
    LET out == evaluate(p)
        passes == Passes(p, received, enough)
        published == passes /\ ~Blocked(out)
    IN  /\ suppresses
        /\ status' = IF Dark \/ policy = NoPolicy THEN status
                     ELSE IF published
                     THEN resolve(policy.quorum)
                     ELSE resolve(received)
        /\ sanity' = IF passes /\ Violated(out) # {}
                     THEN [violated |-> TRUE, quarantined |-> Quarantines(out)]
                     ELSE sanity
        /\ price' = IF published THEN out ELSE price
        /\ route' = IF published THEN "pipeline" ELSE route
        /\ UNCHANGED <<clock, bounds, policy, relations, depeg, peers>>

\* The permissionless re-aggregation asks no gate.
trigger_aggregation(p) ==
    /\ price' = p
    /\ route' = "trigger"
    /\ UNCHANGED <<clock, bvars, bounds, policy, status, relations, depeg, sanity, peers>>

\* An admin correction is held to the hard bounds only.
correct_price(p) ==
    /\ price # 0
    /\ ~Rejected(p)
    /\ price' = p
    /\ route' = "correction"
    /\ UNCHANGED <<clock, bvars, bounds, policy, status, relations, depeg, sanity, peers>>

(***************************************************************************)
(* Configuration                                                           *)
(***************************************************************************)
set_bounds(t) ==
    /\ WellOrdered(t)
    /\ bounds' = t
    /\ UNCHANGED <<clock, bvars, price, route, policy, status, relations, depeg, sanity, peers>>

clear_bounds ==
    /\ bounds' = NoTier
    /\ UNCHANGED <<clock, bvars, price, route, policy, status, relations, depeg, sanity, peers>>

set_policy(p) ==
    /\ p.quorum > 0 /\ p.max_defer > 0
    /\ policy' = p
    /\ UNCHANGED <<clock, bvars, price, route, bounds, status, relations, depeg, sanity, peers>>

clear_policy ==
    /\ policy' = NoPolicy
    /\ UNCHANGED <<clock, bvars, price, route, bounds, status, relations, depeg, sanity, peers>>

\* One relation of a kind with a peer.
add_relation(r) ==
    /\ \A x \in relations : x.kind # r.kind
    /\ relations' = relations \cup {r}
    /\ UNCHANGED <<clock, bvars, price, route, bounds, policy, status, depeg, sanity, peers>>

remove_relation(kind) ==
    /\ relations' = {r \in relations : r.kind # kind}
    /\ UNCHANGED <<clock, bvars, price, route, bounds, policy, status, depeg, sanity, peers>>

declare_depeg(until) ==
    /\ depeg' = until
    /\ UNCHANGED <<clock, bvars, price, route, bounds, policy, status, relations, sanity, peers>>

clear_depeg ==
    /\ depeg' = -1
    /\ UNCHANGED <<clock, bvars, price, route, bounds, policy, status, relations, sanity, peers>>

\* A related asset publishes.
PeerPublishes(which, p) ==
    /\ peers' = [peers EXCEPT ![which] = p]
    /\ UNCHANGED <<clock, bvars, price, route, bounds, policy, status, relations, depeg, sanity>>

Tick ==
    /\ clock < MaxClock
    /\ clock' = clock + 1
    /\ UNCHANGED <<bvars, gvars>>

Init ==
    /\ BlackoutInit
    /\ price = 0 /\ route = "none" /\ bounds = NoTier /\ policy = NoPolicy
    /\ status = Unknown /\ relations = {} /\ depeg = -1 /\ sanity = Clean
    /\ peers = [first |-> 0, second |-> 0]

Rounds == \E p \in Medians, received \in 0..2, enough \in BOOLEAN :
              update_aggregate(p, received, enough)

AdminWrites == \E p \in Medians : trigger_aggregation(p) \/ correct_price(p)

GateCalls ==
    \/ \E t \in Tiers : set_bounds(t)
    \/ clear_bounds
    \/ \E p \in Policies : set_policy(p)
    \/ clear_policy

LatticeCalls ==
    \/ \E r \in Relations : add_relation(r) \/ remove_relation(r.kind)
    \/ \E until \in Depegs : declare_depeg(until)
    \/ clear_depeg
    \/ \E which \in {"first", "second"}, p \in PeerPrices : PeerPublishes(which, p)

Next ==
    \/ Rounds
    \/ AdminWrites
    \/ BlackoutCalls /\ UNCHANGED <<clock, gvars>>
    \/ GateCalls
    \/ LatticeCalls
    \/ Tick

Spec == Init /\ [][Next]_<<clock, bvars, gvars>>

(***************************************************************************)
(* Properties                                                              *)
(***************************************************************************)
\* Nobody can keep an asset dark: one window withholds for less than
\* MAX_BLACKOUT_SECS whatever extends it, and two windows withhold at least
\* COOLDOWN_SECS apart whoever opens, cancels or lazily closes them
\* (blackout.rs:276).
BlackoutsSpaced ==
    /\ withheld.last - withheld.first < MaxBlackout
    /\ withheld.before # -1 => withheld.first - withheld.before >= Cooldown

\* A round that publishes did so outside a blackout and inside the soft bounds
\* in force, and a quarantine, once set by some round, keeps every later round
\* from publishing: a relation that is removed, a depeg or a milder violation
\* does not lift it (sanity_lattice.rs:317).  A round never leaves the asset
\* Deferred past max_defer_secs, whatever the policy was when the deferral
\* began (deferral.rs:189).
RoundsRespectGates ==
    [][ /\ price' # price /\ route' = "pipeline" =>
             /\ ~Dark /\ ~sanity.quarantined /\ ~sanity'.quarantined
             /\ bounds # NoTier => price' \in bounds.soft_min..bounds.soft_max
        /\ status' # status /\ status'.state = "Deferred" =>
             clock - status'.since < policy.max_defer ]_<<clock, bvars, gvars>>

\* No aggregate is published while a window is active (blackout.rs:3).
NothingPublishedInBlackout ==
    [][Dark /\ price' # price => route' = "correction"]_<<clock, bvars, gvars>>

=============================================================================
