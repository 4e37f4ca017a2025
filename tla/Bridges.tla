------------------------------ MODULE Bridges ------------------------------
(***************************************************************************)
(* Prices that arrive over Axelar and LayerZero (axelar_gmp.rs,            *)
(* layerzero.rs, bridge_common.rs) and the registry that maps a foreign    *)
(* asset to a local one (asset_registry.rs).  The networks deliver any     *)
(* message that was sent, in any order and as often as they like; a call   *)
(* that panics is rolled back whole, so a refused message may come again.  *)
(* A message has the content it was sent with: Axelar names it by a        *)
(* command id, LayerZero by its place in the stream of its sender.         *)
(***************************************************************************)
EXTENDS Integers, Sequences, SequencesExt, FiniteSets, FiniteSetsExt

CONSTANTS
    Gateways,      \* addresses that may be set as gateway or endpoint
    LocalAssets,   \* assets of this contract
    ForeignAssets, \* (chain, foreign address) keys
    Commands,      \* Axelar: command id -> message
    Stream,        \* LayerZero: the messages of the one remote sender, in order
    ClockTolerance, \* timestamp threshold
    MaxBridgeTime  \* bound: the last ledger time

VARIABLES
    time,         \* ledger time
    gateway,      \* AxelarGateway
    endpoint,     \* LzEndpoint
    ax_trusted,   \* is the Axelar remote mapped to the source of the bridge (AxelarTrustedSource)
    lz_trusted,   \* is the LayerZero remote mapped to the source of the bridge (LzTrustedRemote)
    chain_known,  \* LzEidChainName is set
    ax_executed,  \* AxelarExecutedCommand
    inbound,      \* LzInboundNonce
    mapping,      \* ForeignAssetMapping: key -> [asset, enabled]
    registry,     \* ForeignAssetRegistryList
    by_asset,     \* AssetForeignMappings
    active,       \* may that source submit (registered, not suspended, contract not paused)
    stored,       \* Submission and CrossChainPrice of that source by asset
    applied       \* ghost: the messages applied, in order, by network

axvars == <<gateway, ax_trusted, ax_executed>>
lzvars == <<endpoint, lz_trusted, chain_known, inbound>>
regvars == <<mapping, registry, by_asset>>
bridgevars == <<time, axvars, lzvars, regvars, active, stored, applied>>

Nil == "Nil"

(***************************************************************************)
(* Asset registry                                                          *)
(***************************************************************************)
\* A list copied without some entries.
Without(list, gone) ==
    FoldLeft(LAMBDA left, x : IF x \in gone THEN left ELSE Append(left, x), <<>>, list)

remove_from_indexRegistryOnly(key) ==
    /\ registry' = Without(registry, {key})
    /\ UNCHANGED by_asset

register_foreign_asset_mapping(a, key) ==
    /\ key \notin DOMAIN mapping
    /\ mapping' = [k \in DOMAIN mapping \cup {key} |->
                     IF k = key THEN [asset |-> a, enabled |-> TRUE] ELSE mapping[k]]
    /\ registry' = Append(registry, key)
    /\ by_asset' = [by_asset EXCEPT ![a] = Append(@, key)]
    /\ UNCHANGED <<time, axvars, lzvars, active, stored, applied>>

update_foreign_asset_mapping(key, on) ==
    /\ key \in DOMAIN mapping
    /\ mapping' = [mapping EXCEPT ![key].enabled = on]
    /\ UNCHANGED <<time, axvars, lzvars, registry, by_asset, active, stored, applied>>

remove_from_index(key) ==
    /\ registry' = Without(registry, {key})
    /\ by_asset' = [by_asset EXCEPT ![mapping[key].asset] = Without(@, {key})]

remove_foreign_asset_mapping(key) ==
    /\ key \in DOMAIN mapping
    /\ mapping' = [k \in DOMAIN mapping \ {key} |-> mapping[k]]
    /\ remove_from_index(key)
    /\ UNCHANGED <<time, axvars, lzvars, active, stored, applied>>

resolve_enabled_mapping(key) == key \in DOMAIN mapping /\ mapping[key].enabled

(***************************************************************************)
(* The shared inbound path                                                 *)
(***************************************************************************)
\* The price and time checks and the two entries written; the median of the
\* asset is PriceOracle's.  The payload's own nonce is decoded and not used.
apply_bridged_price(m) ==
    /\ active
    /\ m.price > 0
    /\ m.timestamp <= time + ClockTolerance
    /\ stored' = [stored EXCEPT ![mapping[m.foreign].asset] = [price |-> m.price, at |-> m.timestamp]]
    /\ applied' = [applied EXCEPT ![m.net] = Append(@, m)]

execute_axelar_message(g, id) ==
    LET m == Commands[id] IN
    /\ gateway = g
    /\ id \notin ax_executed
    /\ ax_executed' = ax_executed \cup {id}
    /\ ax_trusted
    /\ resolve_enabled_mapping(m.foreign)
    /\ apply_bridged_price(m)
    /\ UNCHANGED <<time, gateway, ax_trusted, lzvars, regvars, active>>

\* The nonce must be the next one of its sender.
NextNonceAnyNewer(nonce) == nonce > inbound
NextNonce(nonce) == nonce = inbound + 1

lz_receive(g, nonce) ==
    LET m == Stream[nonce] IN
    /\ endpoint = g
    /\ NextNonce(nonce)
    /\ inbound' = nonce
    /\ lz_trusted
    /\ chain_known
    /\ resolve_enabled_mapping(m.foreign)
    /\ apply_bridged_price(m)
    /\ UNCHANGED <<time, axvars, endpoint, lz_trusted, chain_known, regvars, active>>

(***************************************************************************)
(* Administration                                                          *)
(***************************************************************************)
set_axelar_gateway(g) ==
    /\ gateway' = g
    /\ UNCHANGED <<time, ax_trusted, ax_executed, lzvars, regvars, active, stored, applied>>

set_axelar_trusted_source ==
    /\ active /\ ax_trusted' = TRUE
    /\ UNCHANGED <<time, gateway, ax_executed, lzvars, regvars, active, stored, applied>>

remove_axelar_trusted_source ==
    /\ ax_trusted' = FALSE
    /\ UNCHANGED <<time, gateway, ax_executed, lzvars, regvars, active, stored, applied>>

set_layerzero_endpoint(g) ==
    /\ endpoint' = g
    /\ UNCHANGED <<time, axvars, lz_trusted, chain_known, inbound, regvars, active, stored, applied>>

set_lz_chain_name ==
    /\ chain_known' = TRUE
    /\ UNCHANGED <<time, axvars, endpoint, lz_trusted, inbound, regvars, active, stored, applied>>

set_trusted_remote ==
    /\ active /\ lz_trusted' = TRUE
    /\ UNCHANGED <<time, axvars, endpoint, chain_known, inbound, regvars, active, stored, applied>>

\* The inbound nonce stays, so a remote that is trusted again goes on where it was.
remove_trusted_remote ==
    /\ lz_trusted' = FALSE
    /\ UNCHANGED <<time, axvars, endpoint, chain_known, inbound, regvars, active, stored, applied>>

\* The source is suspended, removed or restored, or the contract paused.
ToggleSource ==
    /\ active' = ~active
    /\ UNCHANGED <<time, axvars, lzvars, regvars, stored, applied>>

Elapse ==
    /\ time < MaxBridgeTime
    /\ time' = time + 1
    /\ UNCHANGED <<axvars, lzvars, regvars, active, stored, applied>>

Init ==
    /\ time = 0 /\ gateway = Nil /\ endpoint = Nil
    /\ ax_trusted = FALSE /\ lz_trusted = FALSE /\ chain_known = FALSE
    /\ ax_executed = {} /\ inbound = 0
    /\ mapping = <<>> /\ registry = <<>> /\ by_asset = [a \in LocalAssets |-> <<>>]
    /\ active = TRUE
    /\ stored = [a \in LocalAssets |-> [price |-> 0, at |-> 0]]
    /\ applied = [axelar |-> <<>>, lz |-> <<>>]

RegistryCalls ==
    \E key \in ForeignAssets :
        \/ \E a \in LocalAssets : register_foreign_asset_mapping(a, key)
        \/ \E on \in BOOLEAN : update_foreign_asset_mapping(key, on)
        \/ remove_foreign_asset_mapping(key)

AxelarCalls ==
    \/ \E g \in Gateways : set_axelar_gateway(g) \/ \E id \in DOMAIN Commands : execute_axelar_message(g, id)
    \/ set_axelar_trusted_source
    \/ remove_axelar_trusted_source

LayerZeroCalls ==
    \/ \E g \in Gateways : set_layerzero_endpoint(g) \/ \E n \in DOMAIN Stream : lz_receive(g, n)
    \/ set_lz_chain_name
    \/ set_trusted_remote
    \/ remove_trusted_remote

Next == RegistryCalls \/ AxelarCalls \/ LayerZeroCalls \/ ToggleSource \/ Elapse

Spec == Init /\ [][Next]_bridgevars

(***************************************************************************)
(* Properties                                                              *)
(***************************************************************************)
\* Whatever the networks repeat or reorder, and however trust, gateways and
\* mappings come and go between deliveries, a message moves the price at most
\* once: the LayerZero stream is applied as a prefix, in order and without a
\* gap, and the Axelar commands applied are the ones marked executed
\* (layerzero.rs:183, axelar_gmp.rs:186).
BridgedOnce ==
    /\ applied.lz = SubSeq(Stream, 1, inbound)
    /\ ToSet(applied.axelar) = {Commands[id] : id \in ax_executed}
    /\ IsInjective(applied.axelar)

\* The two indexes list exactly the mappings that exist, each once and the
\* per-asset one under the asset it maps to (asset_registry.rs:125): a key
\* removed and mapped again to another asset leaves nothing behind.
RegistryExact ==
    /\ ToSet(registry) = DOMAIN mapping /\ IsInjective(registry)
    /\ \A a \in LocalAssets :
         /\ ToSet(by_asset[a]) = {k \in DOMAIN mapping : mapping[k].asset = a}
         /\ IsInjective(by_asset[a])

=============================================================================
