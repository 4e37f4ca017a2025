--------------------------- MODULE MCPriceOracle ---------------------------
(* Instances of PriceOracle for TLC: which entry points a run exercises. *)
EXTENDS PriceOracle, TLC

CONSTANTS s1, s2, s3, a1, a2, a3

\* The source set changes under steady submission, with every writer of the
\* aggregate at work.  The administration of assets and the running clock are
\* exercised in MCPublication.
ChurnEntryPoints ==
    {"submit_price", "submit_prices", "trigger_aggregation", "recompute_asset_price",
     "write_price_snapshot", "correct_price", "migrate_storage",
     "set_min_sources_required", "add_source", "remove_source", "remove_sources",
     "is_source_inactive", "submit_heartbeat"}

ChurnNext ==
    \/ \E s \in Sources : Submit(s)
    \/ \E a \in Assets : trigger_aggregation(a) \/ recompute_asset_price(a)
    \/ WriteDirectly
    \/ ChangeSources
    \/ \E q \in Quorums : set_min_sources_required(q)

ChurnSpec == Init /\ [][ChurnNext]_vars

Symmetry == Permutations(Sources)
=============================================================================
