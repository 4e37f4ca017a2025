--------------------------- MODULE AssetRegistry ---------------------------
(***************************************************************************)
(* The list of supported assets (assets.rs, storage.rs), the pages a client *)
(* reads it in and the batched storage migration that walks it             *)
(* (migration.rs).  Both walks go on over several transactions while the   *)
(* admin registers and unregisters assets.  The contract may have been     *)
(* upgraded from a version without the membership index.                   *)
(***************************************************************************)
EXTENDS Integers, Sequences, SequencesExt, FiniteSets, FiniteSetsExt

CONSTANTS
    Listable,     \* assets that may be registered
    LegacyAssets, \* sequence of the ones registered before the upgrade
    AssetCaps,    \* values set_max_assets is called with
    DefaultCap,   \* DEFAULT_MAX_ASSETS
    PageSizes,    \* limits a client asks for
    MaxPage,      \* MAX_PAGE_SIZE
    BatchSizes,   \* batch sizes of migrate_storage
    DefaultBatch, \* DEFAULT_BATCH_SIZE
    MaxRemovals   \* bound: unregistrations

VARIABLES
    listed,      \* AssetRegistry
    flagged,     \* assets with AssetRegistered
    indexed,     \* assets with AssetRegistryIndex
    priced,      \* assets with an Aggregate
    asset_cap,   \* MaxAssets
    sversion,    \* StorageVersion
    cursor,      \* MigrationState: the cursor, -1 when none is in progress
    removals,    \* how many unregistrations there have been
    kept,        \* ghost: the assets of the upgrade never unregistered since
    walk         \* client: [on, at, seen, steady, broken], steady and broken ghosts

assetvars == <<listed, flagged, indexed, priced, asset_cap, sversion, cursor, removals, kept, walk>>

CURRENT_VERSION == 2
Start == "start"
Idle == [on |-> FALSE, at |-> Start, seen |-> <<>>, steady |-> {}, broken |-> FALSE]

(***************************************************************************)
(* The registry                                                            *)
(***************************************************************************)
is_asset_registered(a) == a \in indexed \/ a \in flagged

\* Every check of a registered asset rebuilds its index entry.
check_registered_asset(a) ==
    /\ is_asset_registered(a)
    /\ indexed' = indexed \cup {a}
    /\ UNCHANGED <<listed, flagged, priced, asset_cap, sversion, cursor, removals, kept, walk>>

register_asset(a) ==
    /\ a \notin flagged
    /\ Len(listed) < asset_cap
    /\ flagged' = flagged \cup {a}
    /\ indexed' = indexed \cup {a}
    /\ listed' = Append(listed, a)
    /\ UNCHANGED <<priced, asset_cap, sversion, cursor, removals, kept, walk>>

unindexKept(a) == indexed \cup {a}
unindex(a) == indexed \ {a}

Without(list, gone) ==
    FoldLeft(LAMBDA left, x : IF x \in gone THEN left ELSE Append(left, x), <<>>, list)

unregister_asset(a) ==
    /\ is_asset_registered(a)
    /\ flagged' = flagged \ {a}
    /\ indexed' = unindex(a)
    /\ priced' = priced \ {a}
    /\ listed' = Without(listed, {a})
    /\ removals < MaxRemovals
    /\ removals' = removals + 1
    /\ kept' = kept \ {a}
    /\ walk' = [walk EXCEPT !.steady = @ \ {a}, !.broken = @ \/ walk.at = a]
    /\ UNCHANGED <<asset_cap, sversion, cursor>>

set_max_assets(n) ==
    /\ asset_cap' = n
    /\ UNCHANGED <<listed, flagged, indexed, priced, sversion, cursor, removals, kept, walk>>

(***************************************************************************)
(* Pages                                                                   *)
(***************************************************************************)
\* The place after the cursor, 0 when the cursor is not registered.
PageFrom(at) ==
    IF at = Start THEN 1
    ELSE IF at \in ToSet(listed) THEN SelectInSeq(listed, LAMBDA x : x = at) + 1
    ELSE 0

\* The place of the last asset of a page.
PageEnd(from, limit) == Min({from + limit - 1, Len(listed)})

TakePageSkipsCursor(from, limit) ==
    LET end == PageEnd(from, limit)
        page == SubSeq(listed, from, end) IN
    [walk EXCEPT !.on = end < Len(listed),
                 !.at = IF end < Len(listed) THEN listed[end + 1] ELSE @,
                 !.seen = @ \o page]
\* One page; the walk ends when nothing follows it.
TakePage(from, limit) ==
    LET end == PageEnd(from, limit)
        page == SubSeq(listed, from, end) IN
    [walk EXCEPT !.on = end < Len(listed),
                 !.at = IF end < Len(listed) THEN Last(page) ELSE @,
                 !.seen = @ \o page]

begin_walk ==
    /\ walk = Idle
    /\ walk' = [Idle EXCEPT !.on = TRUE, !.steady = ToSet(listed)]
    /\ UNCHANGED <<listed, flagged, indexed, priced, asset_cap, sversion, cursor, removals, kept>>

\* A removed cursor is refused, and the client starts again.
assets_paginated(limit) ==
    /\ walk.on
    /\ limit > 0 /\ limit <= MaxPage
    /\ walk' = IF PageFrom(walk.at) = 0 THEN Idle ELSE TakePage(PageFrom(walk.at), limit)
    /\ UNCHANGED <<listed, flagged, indexed, priced, asset_cap, sversion, cursor, removals, kept>>

(***************************************************************************)
(* Migration                                                               *)
(***************************************************************************)
Batch(n) == IF n = 0 THEN DefaultBatch ELSE n

\* Positions cursor+1..end of the list get an aggregate where they have none.
migrate_v1_to_v2(from, n) ==
    LET end == Min({from + Batch(n), Len(listed)}) IN
    /\ priced' = priced \cup {listed[i] : i \in (from + 1)..end}
    /\ IF from >= Len(listed) \/ end >= Len(listed)
       THEN cursor' = -1 /\ sversion' = CURRENT_VERSION
       ELSE cursor' = end /\ UNCHANGED sversion

migrate_storage(n) ==
    /\ IF cursor = -1 /\ sversion >= CURRENT_VERSION
       THEN sversion' = CURRENT_VERSION /\ UNCHANGED <<priced, cursor>>
       ELSE migrate_v1_to_v2(Max({cursor, 0}), n)
    /\ UNCHANGED <<listed, flagged, indexed, asset_cap, removals, kept, walk>>

\* prices.rs: a submission and a trigger check the asset before they publish.
publish_aggregate(a) ==
    /\ is_asset_registered(a)
    /\ priced' = priced \cup {a}
    /\ indexed' = indexed \cup {a}
    /\ UNCHANGED <<listed, flagged, asset_cap, sversion, cursor, removals, kept, walk>>

\* Recomputation, which anybody may ask for, and a finalised proposal
\* (optimistic.rs) do not: a delisted asset gets an aggregate again.
recompute_asset_price(a) ==
    /\ priced' = priced \cup {a}
    /\ UNCHANGED <<listed, flagged, indexed, asset_cap, sversion, cursor, removals, kept, walk>>

(***************************************************************************)
(* The specification                                                       *)
(***************************************************************************)
Init ==
    /\ listed = LegacyAssets /\ flagged = ToSet(LegacyAssets)
    /\ indexed = {} /\ priced = {}
    /\ asset_cap = DefaultCap
    /\ sversion = 1 /\ cursor = -1
    /\ removals = 0
    /\ kept = ToSet(LegacyAssets)
    /\ walk = Idle

Next ==
    \/ \E a \in Listable : \/ register_asset(a) \/ unregister_asset(a)
                           \/ check_registered_asset(a)
                           \/ publish_aggregate(a) \/ recompute_asset_price(a)
    \/ \E n \in AssetCaps : set_max_assets(n)
    \/ begin_walk
    \/ \E limit \in PageSizes : assets_paginated(limit)
    \/ \E n \in BatchSizes : migrate_storage(n)

Spec == Init /\ [][Next]_assetvars

(***************************************************************************)
(* Properties                                                              *)
(***************************************************************************)
\* The list, the flag and the index never disagree on what is registered and an
\* asset is listed once, from an upgrade onwards and with the index rebuilt
\* lazily by checks, publications and registrations, around the writers that
\* know nothing of it (assets.rs:31, 98, storage.rs:40).
RegistryViewsAgree ==
    /\ ToSet(listed) = flagged /\ IsInjective(listed)
    /\ indexed \subseteq flagged

\* A walk over the pages that ends has returned every asset that stayed
\* registered all along, once each, however the list changed around it
\* (assets.rs:62-90), unless the asset it stood on was unregistered.
PagesComplete ==
    LET times(a) == Cardinality({i \in DOMAIN walk.seen : walk.seen[i] = a}) IN
    walk # Idle /\ ~walk.broken =>
        /\ ~walk.on => walk.steady \subseteq ToSet(walk.seen)
        /\ \A a \in walk.steady : times(a) <= 1

\* Once the migration is done, an asset registered since before it has an
\* aggregate (migration.rs:185-189).  The code resumes at a position of a list
\* that may have become shorter, and so leaves one out.
MigratedAll == sversion = CURRENT_VERSION => kept \subseteq priced

=============================================================================
