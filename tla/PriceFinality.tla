---------------------------- MODULE PriceFinality ----------------------------
(***************************************************************************)
(* What becomes of a published price of one asset: anybody may put it in   *)
(* the pending-finality store of the current ledger, and finalise it once  *)
(* its window has passed; the admin retracts a pending entry or corrects   *)
(* the live price (finality.rs, corrections.rs).  An aggregation opens the *)
(* chain of revisions; trigger_aggregation, a finalised proposal and the   *)
(* migration write the live price beside it, and delisting removes it.     *)
(* The other fields of an aggregate, the ledger hashes nobody compares and *)
(* the wording of the reasons are left out.                                *)
(***************************************************************************)
EXTENDS Integers, Sequences, FiniteSets, FiniteSetsExt, SequencesExt

CONSTANTS
    FinPrices,        \* prices published or set by a correction
    Horizons,         \* values of CfgFinalityLedgers, the default first
    DefaultHorizon,   \* DEFAULT_FINALITY_LEDGERS
    CorrectionWindow, \* window_ledgers of a correction scope
    MaxCorrections,   \* max_corrections of a correction scope
    MaxFinLedger      \* bound: the last ledger

VARIABLES
    fin_now,     \* ledger sequence
    live,        \* Aggregate of the asset, or Absent
    enrolled,    \* AssetRegistered
    recorded,    \* last entry of PriceHistoryLedgers, 0 before the first
    horizon,     \* CfgFinalityLedgers
    pending,     \* PendingFinality by committed ledger, or Absent
    finalized,   \* FinalizedPrice, or Absent
    revisions,   \* PriceRevisions
    original,    \* PriceOriginal, 0 before the first
    corrections, \* PriceCorrectionCount
    scope        \* CfgCorrectionScope

finvars == <<fin_now, live, enrolled, recorded, horizon, pending, finalized>>
corrvars == <<revisions, original, corrections, scope>>

Absent == [price |-> 0]
Ledgers == 1..MaxFinLedger
Scopes == [covered : BOOLEAN, window : {CorrectionWindow}, max : {MaxCorrections}]

(***************************************************************************)
(* Corrections                                                             *)
(***************************************************************************)
append_revision(p, corrected) ==
    [price |-> p, corrected |-> corrected]

record_originalAlways(p) ==
    /\ revisions' = IF revisions # <<>> THEN revisions ELSE <<append_revision(p, FALSE)>>
    /\ original' = p

\* Only the first publication opens the chain.
record_original(p) ==
    IF revisions # <<>>
    THEN UNCHANGED <<revisions, original>>
    ELSE /\ revisions' = <<append_revision(p, FALSE)>>
         /\ original' = p

\* aggregate_asset_mode: the price is published and, when the history threshold
\* asks for it, appended to the history.  Registration is not asked for.
publish_aggregate(p) ==
    /\ live' = [price |-> p, override |-> FALSE]
    /\ recorded' \in {recorded, fin_now}
    /\ record_original(p)
    /\ UNCHANGED <<fin_now, enrolled, horizon, pending, finalized, corrections, scope>>

\* The writers that leave the chain alone: the permissionless trigger and the
\* migration, which write no history, and a finalised proposal.
WriteBeside(p) ==
    /\ live' = [price |-> p, override |-> FALSE]
    /\ UNCHANGED <<fin_now, enrolled, horizon, pending, finalized, corrvars>>
trigger_aggregation(p) == enrolled /\ WriteBeside(p) /\ UNCHANGED recorded
migrate_v1_to_v2 == enrolled /\ live = Absent /\ WriteBeside(0) /\ UNCHANGED recorded
write_price_snapshot(p) == WriteBeside(p) /\ recorded' \in {recorded, fin_now}

\* assets.rs: delisting removes the aggregate and keeps the chain.
register_asset ==
    /\ ~enrolled /\ enrolled' = TRUE
    /\ UNCHANGED <<fin_now, live, recorded, horizon, pending, finalized, corrvars>>
unregister_asset ==
    /\ enrolled /\ enrolled' = FALSE
    /\ live' = Absent
    /\ UNCHANGED <<fin_now, recorded, horizon, pending, finalized, corrvars>>

InScope ==
    /\ scope.covered
    /\ corrections < scope.max
    /\ fin_now - recorded <= scope.window

correct_price(p) ==
    /\ enrolled
    /\ live # Absent
    /\ InScope
    /\ LET chain == IF revisions = <<>> THEN <<append_revision(live.price, FALSE)>>
                    ELSE revisions
       IN  revisions' = Append(chain, append_revision(p, TRUE))
    /\ original' = IF revisions = <<>> THEN live.price ELSE original
    /\ live' = [price |-> p, override |-> TRUE]
    /\ corrections' = corrections + 1
    /\ UNCHANGED <<fin_now, enrolled, recorded, horizon, pending, finalized, scope>>

set_correction_scope(new) ==
    /\ scope' = new
    /\ UNCHANGED <<finvars, revisions, original, corrections>>

(***************************************************************************)
(* Finality                                                                *)
(***************************************************************************)
set_finality_ledgers(n) ==
    /\ n > 0
    /\ horizon' = n
    /\ UNCHANGED <<fin_now, live, enrolled, recorded, pending, finalized, corrvars>>

IsPending(c) == pending[c] # Absent /\ pending[c].status = "Pending"

\* Permissionless; a settled entry of this ledger is never overwritten.
mark_price_pending ==
    /\ live # Absent
    /\ pending[fin_now] = Absent \/ IsPending(fin_now)
    /\ pending' = [pending EXCEPT ![fin_now] =
          [price |-> live.price, final_at |-> fin_now + horizon, status |-> "Pending"]]
    /\ UNCHANGED <<fin_now, live, enrolled, recorded, horizon, finalized, corrvars>>

\* Entries may be finalised in any order; the newest one is what readers see.
newer_finalizedIgnored(c) == FALSE
newer_finalized(c) == finalized # Absent /\ finalized.committed > c

try_finalize_price(c) ==
    /\ IsPending(c)
    /\ fin_now >= pending[c].final_at
    /\ finalized' = IF newer_finalized(c) THEN finalized
                    ELSE [price |-> pending[c].price, committed |-> c, at |-> fin_now]
    /\ pending' = [pending EXCEPT ![c].status = "Finalized"]
    /\ UNCHANGED <<fin_now, live, enrolled, recorded, horizon, corrvars>>

retract_price(c) ==
    /\ IsPending(c)
    /\ pending' = [pending EXCEPT ![c].status = "Retracted"]
    /\ finalized' = IF finalized # Absent /\ finalized.committed = c THEN Absent ELSE finalized
    /\ UNCHANGED <<fin_now, live, enrolled, recorded, horizon, corrvars>>

\* What a reader asking for min_finality ledgers gets.
get_finalized_price(min_finality) ==
    IF finalized # Absent /\ fin_now - finalized.committed >= min_finality
    THEN finalized ELSE Absent

CloseFinLedger ==
    /\ fin_now < MaxFinLedger
    /\ fin_now' = fin_now + 1
    /\ UNCHANGED <<live, enrolled, recorded, horizon, pending, finalized, corrvars>>

Init ==
    /\ fin_now = 1 /\ live = Absent /\ enrolled = TRUE /\ recorded = 0
    /\ horizon = DefaultHorizon
    /\ pending = [c \in Ledgers |-> Absent] /\ finalized = Absent
    /\ revisions = <<>> /\ original = 0 /\ corrections = 0
    /\ scope = [covered |-> TRUE, window |-> CorrectionWindow, max |-> MaxCorrections]

FinalityCalls ==
    \/ mark_price_pending
    \/ \E c \in Ledgers : try_finalize_price(c) \/ retract_price(c)
    \/ \E n \in Horizons : set_finality_ledgers(n)

CorrectionCalls ==
    \/ \E p \in FinPrices : correct_price(p)
    \/ \E new \in Scopes : set_correction_scope(new)

Publications ==
    \/ \E p \in FinPrices : publish_aggregate(p) \/ trigger_aggregation(p) \/ write_price_snapshot(p)
    \/ migrate_v1_to_v2
    \/ register_asset \/ unregister_asset

Next ==
    \/ Publications
    \/ FinalityCalls
    \/ CorrectionCalls
    \/ CloseFinLedger

Spec == Init /\ [][Next]_<<finvars, corrvars>>

(***************************************************************************)
(* Properties                                                              *)
(***************************************************************************)
Finals == {c \in Ledgers : pending[c] # Absent /\ pending[c].status = "Finalized"}

\* In whatever order entries are finalised and retracted, the finalized price
\* is the one of the newest finalised entry, waited out its window, and is
\* there as soon as one entry is final (finality.rs:206).
FinalizedStands ==
    IF Finals = {} THEN finalized = Absent
    ELSE /\ finalized # Absent
         /\ finalized.committed = Max(Finals)
         /\ finalized.price = pending[finalized.committed].price
         /\ finalized.at >= pending[finalized.committed].final_at

\* The revision chain explains the corrections, whoever else writes the price
\* and however often the asset is delisted: it opens with the original, which
\* stands, holds one entry per counted correction, and a live price that is
\* marked as an override is its last entry (corrections.rs:238).
RevisionsExplain ==
    /\ corrections = IF revisions = <<>> THEN 0 ELSE Len(revisions) - 1
    /\ \A i \in 1..Len(revisions) : revisions[i].corrected = (i > 1)
    /\ revisions # <<>> => original = Head(revisions).price
    /\ (live # Absent /\ live.override)
          => Len(revisions) > 1 /\ Last(revisions).price = live.price

=============================================================================
