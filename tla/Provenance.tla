----------------------------- MODULE Provenance -----------------------------
(***************************************************************************)
(* The provenance records of one asset (provenance.rs) beside the price    *)
(* history they explain.  A record is written by every aggregation, names  *)
(* the hash of its predecessor and is dropped by the trimming of the       *)
(* aggregation.  Compaction and pruning by the admin know nothing of it,   *)
(* nor does a finalised proposal, which lists a snapshot and trims too     *)
(* (optimistic.rs).                                                        *)
(* A hash is the tuple of what it commits to: the contributors are left    *)
(* out, and the history is the one of PriceArchive, of which this module   *)
(* keeps the list and the prices.                                          *)
(***************************************************************************)
EXTENDS Integers, Sequences, SequencesExt, FiniteSets, FiniteSetsExt

CONSTANTS
    ProvPrices,     \* prices published
    HistoryCaps,    \* values of MaxHistoryPerAsset and MaxHistoryLength
    MaxProvLedger   \* bound: the last ledger

VARIABLES
    prov_now,   \* ledger sequence
    kept,       \* PriceHistoryLedgers
    snapshot,   \* the history: ledger -> price
    records,    \* Provenance: ledger -> [price, previous, hash]
    head,       \* ProvenanceHead: [ledger, hash]; ledger 0 when absent
    proposed,   \* the ledgers whose snapshot is a proposal's (history)
    prov_cap    \* the smaller of the two caps

provvars == <<prov_now, kept, snapshot, records, head, proposed, prov_cap>>

Zero == <<>>
NoHead == [ledger |-> 0, hash |-> Zero]
Without(f, L) == [l \in DOMAIN f \ L |-> f[l]]
With(f, l, v) == [k \in DOMAIN f \cup {l} |-> IF k = l THEN v ELSE f[k]]

commitment(previous, l, p) == <<previous, l, p>>

\* The walk starts at the oldest listed ledger and returns the first record.
head_before(l) ==
    LET older == SelectSeq(kept, LAMBDA k : k < l /\ k \in DOMAIN records) IN
    IF older = <<>> THEN [hash |-> Zero, found |-> FALSE]
    ELSE [hash |-> records[Head(older)].hash, found |-> TRUE]

Previous(l) == IF head.ledger < l THEN head.hash ELSE head_before(l).hash

recordOnce(l, p) == IF l \in DOMAIN records THEN records
                    ELSE With(records, l, [price |-> p, previous |-> Previous(l),
                                           hash |-> commitment(Previous(l), l, p)])
\* A second aggregation in a ledger replaces the record of the first.
record(l, p) == With(records, l, [price |-> p, previous |-> Previous(l),
                                  hash |-> commitment(Previous(l), l, p)])

\* Is the record intact, and does it name the predecessor that head_before finds?
verify_record(l) ==
    records[l].hash = commitment(records[l].previous, l, records[l].price)
verify_link(l) ==
    /\ verify_record(l)
    /\ head_before(l).found => records[l].previous = head_before(l).hash

\* The head is dropped with the last record; it can only be pruned after all the
\* records before it.
prune(recs, hd, L) ==
    [records |-> Without(recs, L), head |-> IF hd.ledger \in L THEN NoHead ELSE hd]

\* The snapshot may be left out when the price stayed within the threshold.
MaySkip == kept # <<>> /\ Last(kept) # prov_now
Listing == IF kept = <<>> \/ Last(kept) # prov_now THEN Append(kept, prov_now) ELSE kept

\* A publication lists its snapshot, unless it is skipped, and trims the list to
\* a cap; Gone is what the trimming takes.
Listed(skip) == IF skip THEN kept ELSE Listing
Excess(skip, c) == Max({0, Len(Listed(skip)) - c})
Gone(skip, c) == ToSet(SubSeq(Listed(skip), 1, Excess(skip, c)))
Push(p, skip, c) ==
    /\ skip => MaySkip
    /\ kept' = SubSeq(Listed(skip), Excess(skip, c) + 1, Len(Listed(skip)))
    /\ snapshot' = Without(IF skip THEN snapshot ELSE With(snapshot, prov_now, p),
                           Gone(skip, c))

aggregate(p, skip) ==
    LET r == record(prov_now, p)
        left == prune(r, [ledger |-> prov_now, hash |-> r[prov_now].hash],
                      Gone(skip, prov_cap))
    IN /\ Push(p, skip, prov_cap)
       /\ records' = left.records
       /\ head' = left.head
       /\ proposed' = proposed \ ({prov_now} \cup Gone(skip, prov_cap))
       /\ UNCHANGED <<prov_now, prov_cap>>

\* optimistic.rs: a finalised proposal writes no record and prunes none.  It
\* trims to the global cap alone, which may be the larger of the two.
write_price_snapshot(p, skip, c) ==
    /\ Push(p, skip, c)
    /\ proposed' = (IF skip THEN proposed ELSE proposed \cup {prov_now}) \ Gone(skip, c)
    /\ UNCHANGED <<prov_now, records, head, prov_cap>>

\* history.rs compact_history and pruning.rs prune_history.
Dropping(s, L) == FoldLeft(LAMBDA left, l : IF l \in L THEN left ELSE Append(left, l), <<>>, s)
Forget(L) ==
    /\ kept' = Dropping(kept, L)
    /\ snapshot' = Without(snapshot, L)
    /\ proposed' = proposed \ L
    /\ UNCHANGED <<prov_now, records, head, prov_cap>>
compact_history(L) == L \subseteq ToSet(kept) \ {Head(kept), Last(kept)} /\ Forget(L)
prune_history(n) == Forget(ToSet(SubSeq(kept, 1, Len(kept) - n)))

set_max_history_per_asset(n) ==
    /\ prov_cap' = n
    /\ UNCHANGED <<prov_now, kept, snapshot, records, head, proposed>>

CloseLedger ==
    /\ prov_now < MaxProvLedger
    /\ prov_now' = prov_now + 1
    /\ UNCHANGED <<kept, snapshot, records, head, proposed, prov_cap>>

Init ==
    /\ prov_now = 1
    /\ kept = <<>> /\ snapshot = <<>>
    /\ records = <<>> /\ head = NoHead /\ proposed = {}
    /\ prov_cap = Max(HistoryCaps)

Next ==
    \/ \E p \in ProvPrices, skip \in BOOLEAN : aggregate(p, skip)
    \/ \E p \in ProvPrices, skip \in BOOLEAN, c \in {prov_cap, Max(HistoryCaps)} :
          write_price_snapshot(p, skip, c)
    \/ kept # <<>> /\ \E L \in SUBSET ToSet(kept) : compact_history(L)
    \/ \E n \in 0..(Len(kept) - 1) : prune_history(n)
    \/ \E n \in HistoryCaps : set_max_history_per_asset(n)
    \/ CloseLedger

Spec == Init /\ [][Next]_provvars

(***************************************************************************)
(* Properties                                                              *)
(***************************************************************************)
\* Every snapshot an aggregation left in the history has the record that
\* explains its price, through a second aggregation in the same ledger,
\* trimming by either writer, compaction and pruning, and the head is the newest
\* record (provenance.rs:9-12).  The snapshot of a proposal has no record, or
\* that of an aggregation of its ledger it wrote over.
SnapshotsExplained ==
    /\ DOMAIN snapshot = ToSet(kept)
    /\ \A l \in DOMAIN snapshot \ proposed :
          l \in DOMAIN records /\ records[l].price = snapshot[l]
    /\ head # NoHead => /\ head.ledger = Max(DOMAIN records)
                        /\ head.hash = records[head.ledger].hash

\* "Returns false for a record that was edited, replaced or back-dated"
\* (lib.rs:5329): a record the contract wrote and nobody touched verifies.
GenuineVerifies == \A l \in DOMAIN records : verify_link(l)

=============================================================================
