---------------------------- MODULE PriceArchive ----------------------------
(***************************************************************************)
(* The price history of one asset (history.rs, storage_tier.rs,            *)
(* pruning.rs, watermark.rs and the recording parts of prices.rs and       *)
(* optimistic.rs).  A snapshot lives in up to two stores: a temporary      *)
(* entry per ledger, which the host drops when its lifetime runs out, and  *)
(* a persistent shard.  The list of ledgers is kept apart from both, and   *)
(* compaction, trimming, pruning and tier changes each edit the three.     *)
(***************************************************************************)
EXTENDS Integers, FiniteSets, Sequences, SequencesExt

CONSTANTS
    Prices,            \* prices a publication may carry
    Thresholds,        \* compaction thresholds in basis points; 0 is off
    Caps,              \* values given to max_history_length
    DefaultHistory,    \* its value at the start
    Parties,           \* addresses that may approve a downgrade
    Admin,             \* the admin, one of Parties
    LedgersPerBucket,  \* width of a shard
    DowngradeDelay,    \* TIER_DOWNGRADE_DELAY_LEDGERS
    Approvals,         \* TIER_DOWNGRADE_REQUIRED_APPROVALS
    MaxEvents,         \* prunings one publication may announce
    MaxLedger          \* bound on the ledger sequence

VARIABLES
    now,       \* ledger sequence
    list,      \* PriceHistoryLedgers
    temp,      \* PriceHistory entries: ledger -> price, in temporary storage
    shards,    \* HistoryBucket entries: ledger -> price, in persistent storage
    index,     \* HistoryBucketIndex
    tier,      \* AssetStorageTier
    request,   \* AssetStorageTierDowngrade, or NoRequest
    bps,       \* CfgCompactionThresholdBps
    cap,       \* CfgMaxHistory
    mark       \* HistoryWatermark

vars == <<now, list, temp, shards, index, tier, request, bps, cap, mark>>

NoRequest == [proposed_by |-> "none"]

(***************************************************************************)
(* Reading and writing the stores.                                         *)
(***************************************************************************)
ledger_to_bucket(l) == l \div LedgersPerBucket
Listed == ToSet(list)
Without(f, L) == [l \in DOMAIN f \ L |-> f[l]]
With(f, l, p) == [k \in DOMAIN f \cup {l} |-> IF k = l THEN p ELSE f[k]]

Readable(l) == l \in DOMAIN temp \cup DOMAIN shards
read_history_entry(l) == IF l \in DOMAIN temp THEN temp[l] ELSE shards[l]
TierStore == IF tier = "Temporary" THEN temp ELSE shards
get_tiered_historical_price(l) == TierStore[l]

\* A snapshot between two listed ones is interpolated on the straight line.
Before(l) == {k \in Listed : k <= l /\ Readable(k)}
After(l) == {k \in Listed : k > l /\ Readable(k)}
Interpolated(b, a, l) ==
    LET pb == read_history_entry(b)
        d == (read_history_entry(a) - pb) * (l - b)
    IN pb + (IF d >= 0 THEN d \div (a - b) ELSE -((-d) \div (a - b)))
get_historical_price(l) ==
    IF Readable(l) THEN read_history_entry(l)
    ELSE Interpolated(CHOOSE b \in Before(l) : \A k \in Before(l) : k <= b,
                      CHOOSE a \in After(l) : \A k \in After(l) : k >= a, l)

write_history_shard(s, l, p) == With(s, l, p)
IndexWith(i, l) == i \cup {ledger_to_bucket(l)}
\* history.rs drops the index of a bucket it empties ...
remove_history_shard_entriesKeep(s, L) == s
remove_history_shard_entries(s, L) == Without(s, L)
IndexWithout(i, s, L) ==
    i \ {b \in {ledger_to_bucket(l) : l \in L \cap DOMAIN s} :
            \A l \in DOMAIN s \ L : ledger_to_bucket(l) # b}
\* ... and storage_tier.rs leaves it behind.
remove_history_entry_temp(t) == IF tier = "Temporary" THEN Without(t, {now}) ELSE t
remove_history_entry_shards(s) == IF tier = "Temporary" THEN s ELSE Without(s, {now})

within_threshold(ref, p) ==
    /\ bps # 0 /\ ref # 0
    /\ 10000 * (IF p > ref THEN p - ref ELSE ref - p) <= bps * ref

should_skip_on_write(p) ==
    /\ bps # 0
    /\ list # <<>>
    /\ Last(list) # now
    /\ Readable(Last(list))
    /\ within_threshold(read_history_entry(Last(list)), p)

Dropped(l, n) == ToSet(SubSeq(l, 1, n))
Excess(l, c) == IF Len(l) > c THEN Len(l) - c ELSE 0
Listing == IF list = <<>> \/ Last(list) # now THEN Append(list, now) ELSE list

\* Forget the n oldest ledgers of l, from the list and from both stores.
Forget(l, n, t, s, i) ==
    LET L == Dropped(l, n) IN
    /\ list' = SubSeq(l, n + 1, Len(l))
    /\ temp' = Without(t, L)
    /\ shards' = remove_history_shard_entries(s, L)
    /\ index' = IndexWithout(i, s, L)

(***************************************************************************)
(* Publications.                                                           *)
(***************************************************************************)
\* prices.rs: an aggregation records its snapshot and trims the history.  It
\* stops trimming when the events of the call are used up.
aggregate(p, budget) ==
    LET skip == should_skip_on_write(p)
        t1 == IF tier = "Temporary" THEN With(temp, now, p) ELSE temp
        d1 == IF tier = "Temporary" THEN shards ELSE write_history_shard(shards, now, p)
        l1 == IF skip THEN list ELSE Listing
        t2 == IF skip THEN remove_history_entry_temp(t1) ELSE t1
        d2 == IF skip THEN remove_history_entry_shards(d1)
              ELSE write_history_shard(d1, now, p)
        i2 == IF skip /\ tier = "Temporary" THEN index ELSE IndexWith(index, now)
        n == Excess(l1, cap)
    IN /\ Forget(l1, IF n < budget THEN n ELSE budget, t2, d2, i2)
       /\ UNCHANGED <<now, tier, request, bps, cap, mark>>

\* optimistic.rs: a finalised proposal records its snapshot in both stores,
\* whatever the tier, and trims without a budget.
write_price_snapshot(p) ==
    LET skip == should_skip_on_write(p)
        l1 == IF skip THEN list ELSE Listing
    IN /\ Forget(l1, Excess(l1, cap),
                 IF skip THEN temp ELSE With(temp, now, p),
                 IF skip THEN shards ELSE write_history_shard(shards, now, p),
                 IF skip THEN index ELSE IndexWith(index, now))
       /\ UNCHANGED <<now, tier, request, bps, cap, mark>>

(***************************************************************************)
(* Compaction, pruning and migration, called by the admin.                 *)
(***************************************************************************)
\* Keep the first and the last ledger, and between them those whose price
\* left the threshold around the price kept before.
Compact(a, l) ==
    IF ~Readable(l) \/ within_threshold(a.price, read_history_entry(l)) THEN a
    ELSE [kept |-> Append(a.kept, l), price |-> read_history_entry(l)]
Compacted ==
    FoldLeft(Compact,
             [kept |-> <<Head(list)>>,
              price |-> IF Readable(Head(list)) THEN read_history_entry(Head(list)) ELSE 0],
             SubSeq(list, 2, Len(list) - 1)).kept

compact_history ==
    /\ Len(list) > 1 /\ bps # 0
    /\ LET kept == Append(Compacted, Last(list))
           L == {l \in Listed \ ToSet(kept) : Readable(l)}
       IN /\ list' = kept
          /\ temp' = Without(temp, L)
          /\ shards' = remove_history_shard_entries(shards, L)
          /\ index' = IndexWithout(index, shards, L)
    /\ UNCHANGED <<now, tier, request, bps, cap, mark>>

prune_history(target) ==
    /\ Len(list) > target
    /\ Forget(list, Excess(list, target), temp, shards, index)
    /\ UNCHANGED <<now, tier, request, bps, cap, mark>>

Copied(L, to) ==
    /\ temp' = IF to = "Temporary"
               THEN [l \in DOMAIN temp \cup L |-> IF l \in L THEN read_history_entry(l) ELSE temp[l]]
               ELSE temp
    /\ shards' = IF to = "Temporary" THEN shards
                 ELSE [l \in DOMAIN shards \cup L |->
                          IF l \in L THEN read_history_entry(l) ELSE shards[l]]
    /\ index' = IF to = "Temporary" THEN index
                ELSE index \cup {ledger_to_bucket(l) : l \in L}

migrate_history_to_shards ==
    /\ Copied(Listed \cap DOMAIN temp, "Persistent")
    /\ UNCHANGED <<now, list, tier, request, bps, cap, mark>>

migrate_history_to_tier(to) ==
    /\ to # tier
    /\ Copied({l \in Listed : Readable(l)}, to)
    /\ UNCHANGED <<now, list, tier, request, bps, cap, mark>>

(***************************************************************************)
(* Storage tier.                                                           *)
(***************************************************************************)
Matured == /\ request # NoRequest
           /\ request.ready # 0
           /\ request.ready <= now

set_asset_storage_tier(t) ==
    /\ t # tier
    /\ t = "Temporary" => Matured
    /\ tier' = t
    /\ request' = IF t = "Temporary" THEN NoRequest ELSE request
    /\ UNCHANGED <<now, list, temp, shards, index, bps, cap, mark>>

propose_storage_tier_downgrade ==
    /\ tier = "Persistent"
    /\ request = NoRequest
    /\ request' = [proposed_by |-> Admin, approvals |-> {}, ready |-> 0]
    /\ UNCHANGED <<now, list, temp, shards, index, tier, bps, cap, mark>>

approve_storage_tier_downgrade(a) ==
    /\ request # NoRequest
    /\ a # request.proposed_by
    /\ a \notin request.approvals
    /\ LET as == request.approvals \cup {a} IN
       request' = [request EXCEPT !.approvals = as,
                     !.ready = IF Cardinality(as) >= Approvals THEN now + DowngradeDelay ELSE @]
    /\ UNCHANGED <<now, list, temp, shards, index, tier, bps, cap, mark>>

execute_storage_tier_downgrade ==
    /\ Matured
    /\ tier' = "Temporary"
    /\ request' = NoRequest
    /\ UNCHANGED <<now, list, temp, shards, index, bps, cap, mark>>

(***************************************************************************)
(* Configuration and the completeness watermark.                           *)
(***************************************************************************)
set_compaction_threshold_bps(b) ==
    /\ bps' = b
    /\ UNCHANGED <<now, list, temp, shards, index, tier, request, cap, mark>>

set_max_history_length(c) ==
    /\ cap' = c
    /\ UNCHANGED <<now, list, temp, shards, index, tier, request, bps, mark>>

Strides == [i \in 1..Len(list) - 1 |-> list[i + 1] - list[i]]
Votes(i) == Cardinality({j \in DOMAIN Strides : Strides[j] = Strides[i]})
compute_dominant_stride ==
    LET best == CHOOSE i \in DOMAIN Strides :
                   /\ \A j \in DOMAIN Strides : Votes(j) <= Votes(i)
                   /\ \A j \in DOMAIN Strides : Votes(j) = Votes(i) => i <= j
    IN Strides[best]

\* The ledgers read without meeting a distance above twice the usual one.
Contiguous ==
    {i \in 1..Len(list) :
        \A j \in 1..i - 1 : Strides[j] <= 2 * compute_dominant_stride}

advance_watermark ==
    /\ mark' = IF list = <<>> THEN [first |-> 0, ledger |-> 0, count |-> 0]
               ELSE [first |-> Head(list), ledger |-> list[Cardinality(Contiguous)],
                     count |-> Len(list)]
    /\ UNCHANGED <<now, list, temp, shards, index, tier, request, bps, cap>>

(***************************************************************************)
(* The host: temporary entries expire, ledgers close.                      *)
(***************************************************************************)
ExpireTemporary(l) ==
    /\ l \in DOMAIN temp
    /\ temp' = Without(temp, {l})
    /\ UNCHANGED <<now, list, shards, index, tier, request, bps, cap, mark>>

CloseLedger ==
    /\ now < MaxLedger
    /\ now' = now + 1
    /\ UNCHANGED <<list, temp, shards, index, tier, request, bps, cap, mark>>

Init ==
    /\ now = 1
    /\ list = <<>>
    /\ temp = <<>>
    /\ shards = <<>>
    /\ index = {}
    /\ tier = "Temporary"
    /\ request = NoRequest
    /\ bps = 0
    /\ cap = DefaultHistory
    /\ mark = [first |-> 0, ledger |-> 0, count |-> 0]

Publications == \E p \in Prices : \/ \E budget \in 0..MaxEvents : aggregate(p, budget)
                                  \/ write_price_snapshot(p)
Maintenance ==
    \/ \E b \in Thresholds : set_compaction_threshold_bps(b)
    \/ compact_history
    \/ \E n \in 0..1 : prune_history(n)
    \/ migrate_history_to_shards
Tiers ==
    \/ \E t \in {"Temporary", "Persistent"} : \/ set_asset_storage_tier(t)
                                              \/ migrate_history_to_tier(t)
    \/ propose_storage_tier_downgrade
    \/ \E a \in Parties : approve_storage_tier_downgrade(a)
    \/ execute_storage_tier_downgrade
Next ==
    \/ Publications
    \/ Maintenance
    \/ Tiers
    \/ \E c \in Caps : set_max_history_length(c)
    \/ advance_watermark
    \/ \E l \in DOMAIN temp : ExpireTemporary(l)
    \/ CloseLedger

Spec == Init /\ [][Next]_vars
(***************************************************************************)
(* Properties.                                                             *)
(***************************************************************************)
\* Whatever publications, compactions, prunings, tier changes, migrations and
\* expiries happened, the ledgers a reader can find a snapshot for are exactly
\* the listed ones: nothing listed is lost when its temporary entry expires,
\* and nothing pruned stays readable in the other store.
ReadableIffListed == {l \in 1..MaxLedger : Readable(l)} = Listed

\* The history endpoint "returns the historical price snapshot recorded at a
\* specific ledger" (lib.rs:3057): it answers as the endpoint that reads the
\* configured tier does.
ReadersAgree ==
    \A l \in Listed \cap DOMAIN TierStore :
        get_historical_price(l) = get_tiered_historical_price(l)

=============================================================================
