---------------------------- MODULE MCProgress ----------------------------
(***************************************************************************)
(* What must happen in the end, model-checked together: the keeper that    *)
(* finishes deferred recomputations (PriceOracle), the operator that brings *)
(* a suspended source back (SourceHealth), the indexer that catches up     *)
(* with the chain (EventIndexer) and the router that gets a submission     *)
(* through failing regions (IngestFailover).  They share no state here, so *)
(* the run picks the part it exercises once, in the initial state.         *)
(***************************************************************************)
EXTENDS Integers, Sequences

CONSTANTS s1, s2, a1, a2, r1, r2, k1, k2, None
CONSTANTS ForkAt, BatchSize, MaxBuffered, MaxBytes, Careless, MaxFaults

VARIABLES focus,
    ledger, paused, registered, disabled, frozen, minSources, sources, inactive,
    submission, aggregate, lastTrigger, basis,
    hledger, hregistered, hinactive, missed, heartbeat, since, priced, rotated,
    required, bond, treasury, held, lapsedAt,
    fork, db, work, stream, buffer, gate, store, batch, faults,
    failures, available, cooling, active, recorded, quarantined, call, told, landed,
    up, outages, timeouts

\* More assets than the inline budget of a recomputation.
Keeper == INSTANCE PriceOracle WITH
    Sources <- {s1, s2}, Heartbeating <- {s1, s2}, Assets <- {a1, a2}, Prices <- {1},
    Timestamps <- {1}, Quorums <- {1}, Threshold <- 0, FreshnessSecs <- 1, Cooldown <- 1,
    InlineRecompute <- 1, MaxLedger <- 2, MaxVersion <- 2,
    EntryPoints <- {"submit_price", "remove_source", "is_source_inactive",
                    "recompute_asset_price"}

\* No bond is asked for, so that a suspended source needs nobody's money.
Health == INSTANCE SourceHealth WITH
    Sources <- {s1, s2}, Interval <- 1, Window <- 3, MaxInactive <- 1, MinSources <- 0,
    Bonds <- {0}, SlashAmount <- 1, RotationCooldown <- 1, MaxLedger <- 3, MaxHeld <- 0,
    ledger <- hledger, registered <- hregistered, inactive <- hinactive

\* Two forks that differ from the third ledger on.
Content == <<(<<(<<"added", "price">>), (<<"removed">>), (<<"price", "price">>), (<<"price">>)>>),
             (<<(<<"added", "price">>), (<<"removed">>), (<<"added">>), (<<"price", "price">>)>>)>>
Size == [added |-> 1, removed |-> 1, price |-> 2]
Indexer == INSTANCE EventIndexer

\* Both regions can be down, or unhealthy, at the same time.
Ingest == INSTANCE IngestFailover WITH
    Fleet <- <<r1, r2>>, Keys <- {k1, k2}, FailureThreshold <- 2, CooldownSecs <- 1,
    MaxOutages <- 2, MaxTimeouts <- 1

kvars == <<ledger, paused, registered, disabled, frozen, minSources, sources, inactive,
           submission, aggregate, lastTrigger, basis>>
hvars == <<hledger, hregistered, hinactive, missed, heartbeat, since, priced, rotated,
           required, bond, treasury, held, lapsedAt>>
ivars == <<fork, db, work, stream, buffer, gate, store, batch, faults>>
gvars == <<failures, available, cooling, active, recorded, quarantined, call, told, landed,
           up, outages, timeouts>>
vars == <<focus, kvars, hvars, ivars, gvars>>

Init == /\ focus \in {"keeper", "health", "indexer", "ingest"}
        /\ Keeper!Init /\ Health!Init /\ Indexer!Init /\ Ingest!Init
        /\ focus = "health" \/ hregistered = {}

KeeperSteps ==
    /\ focus = "keeper" /\ UNCHANGED focus
    /\ Keeper!Next
    /\ UNCHANGED <<hvars, ivars, gvars>>
HealthSteps ==
    /\ focus = "health" /\ UNCHANGED focus
    /\ Health!Next
    /\ UNCHANGED <<kvars, ivars, gvars>>
IndexerSteps ==
    /\ focus = "indexer" /\ UNCHANGED focus
    /\ Indexer!Next
    /\ UNCHANGED <<kvars, hvars, gvars>>
IngestSteps ==
    /\ focus = "ingest" /\ UNCHANGED focus
    /\ Ingest!Next
    /\ UNCHANGED <<kvars, hvars, ivars>>
Next ==
    \/ KeeperSteps
    \/ HealthSteps
    \/ IndexerSteps
    \/ IngestSteps

\* The fairness of each part.  In the initial state of a part that is not
\* exercised only the pump could be started and a price submitted.
Restarted == WF_ivars(focus = "indexer" /\ Indexer!run({}))
Retried == \A k \in {k1, k2} : WF_gvars(focus = "ingest" /\ Ingest!submit(k))
Spec == /\ Init /\ [][Next]_vars
        /\ Keeper!Keeping /\ Health!Operated /\ Indexer!Threads /\ Restarted
        /\ Ingest!Routed /\ Retried

\* Below the trusted ledger the index is complete, and the buffer of the pump
\* keeps to its ceilings (EventIndexer).
IndexExact == focus = "indexer" => Indexer!TrustedLedgersWhole /\ Indexer!BufferBounded
\* What was put off is done in the end: deferred recomputations are finished
\* (PriceOracle), a suspended source whose operator keeps at it comes back
\* (SourceHealth), the index catches up with the chain (EventIndexer), and a
\* submission that is retried is delivered or quarantined (IngestFailover).
WorkIsFinished == /\ Keeper!DeferredConverges
                  /\ Health!SuspendedRecovers
                  /\ <>[](focus = "indexer" => Indexer!Settled)
                  /\ <>[](focus = "ingest" => Ingest!Delivered)

=============================================================================
