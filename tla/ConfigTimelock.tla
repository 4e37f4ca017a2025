--------------------------- MODULE ConfigTimelock ---------------------------
(***************************************************************************)
(* Timelocked operations and batches and the versioned configuration they  *)
(* change (timelock.rs, config_history.rs, the setters of admin.rs).  An   *)
(* operation only records that its time has come; a batch applies its      *)
(* elements.  Of the configuration the quorum and the timelock duration    *)
(* are kept: one only the setters write, and the one the delays read.      *)
(***************************************************************************)
EXTENDS Integers, Sequences, SequencesExt, FiniteSets, FiniteSetsExt

CONSTANTS
    Delays,         \* delays the admin may set
    Defaults,       \* DEFAULT_*_DELAY by priority
    BatchFloor,     \* default of DataKey::TimelockDuration, which nothing writes
    Quorums,        \* values of CfgMinSources
    MaxConfig,      \* MAX_CONFIG_HISTORY
    MaxOps,         \* bound: operations and batches proposed
    MaxVersions,    \* bound: configuration versions
    MaxSequence     \* bound: the last ledger

VARIABLES
    seq,         \* ledger sequence
    delay,       \* TlUrgentDelay, TlNormalDelay, TlLongTermDelay, or Unset
    ops,         \* TlPendingOp with its TlOpRequiredDelay, by id
    op_count,    \* TlPendingOpCount
    batches,     \* PendingBatch with its PendingBatchRequiredDelay, by id
    batch_count, \* PendingBatchCount
    config,      \* the live configuration
    snapshots,   \* ConfigSnapshot by version
    versions,    \* ConfigVersionIndex
    executed     \* ghost: what was executed, how long it waited and was told to wait

tlvars == <<delay, ops, op_count, batches, batch_count>>
cfgvars == <<config, snapshots, versions>>

Priorities == {"Urgent", "Normal", "LongTerm"}
Unset == -1
Gone == [proposed |-> -1]
Elements == [type : {"Upgrade"}] \cup [type : {"SetMinSources"}, value : Quorums]

(***************************************************************************)
(* Configuration history                                                   *)
(***************************************************************************)
version_count == IF versions = <<>> THEN 0 ELSE Last(versions)

SnapshotLeak(snaps, index, now) ==
    LET v == (IF index = <<>> THEN 0 ELSE Last(index)) + 1
        grown == Append(index, v)
        kept == IF Len(grown) > MaxConfig THEN Tail(grown) ELSE grown
    IN  [index |-> kept,
         snaps |-> [w \in DOMAIN snaps \cup {v} |-> IF w = v THEN now ELSE snaps[w]]]

\* One snapshot more; the oldest retained one goes when there are too many.
Snapshot(snaps, index, now) ==
    LET v == (IF index = <<>> THEN 0 ELSE Last(index)) + 1
        grown == Append(index, v)
        kept == IF Len(grown) > MaxConfig THEN Tail(grown) ELSE grown
    IN  [index |-> kept,
         snaps |-> [w \in ToSet(kept) |-> IF w = v THEN now ELSE snaps[w]]]

snapshot_before_change ==
    LET s == Snapshot(snapshots, versions, config) IN
    /\ version_count < MaxVersions
    /\ versions' = s.index
    /\ snapshots' = s.snaps

\* Every setter takes a snapshot first.
set_min_sources_required(n) ==
    /\ snapshot_before_change
    /\ config' = [config EXCEPT !.min_sources = n]
    /\ UNCHANGED <<seq, tlvars, executed>>

set_timelock_duration(n) ==
    /\ snapshot_before_change
    /\ config' = [config EXCEPT !.duration = n]
    /\ UNCHANGED <<seq, tlvars, executed>>

rollback_config(v) ==
    /\ v \in DOMAIN snapshots
    /\ snapshot_before_change
    /\ config' = snapshots[v]
    /\ UNCHANGED <<seq, tlvars, executed>>

(***************************************************************************)
(* Timelock                                                                *)
(***************************************************************************)
\* A Normal delay that was never set is the timelock duration.
get_priority_delay(p) ==
    IF delay[p] # Unset THEN delay[p]
    ELSE IF p = "Normal" THEN config.duration
    ELSE Defaults[p]

set_priority_delay(p, n) ==
    /\ delay' = [delay EXCEPT ![p] = n]
    /\ UNCHANGED <<seq, ops, op_count, batches, batch_count, cfgvars, executed>>

propose_operation_with_priority(p) ==
    /\ op_count + batch_count < MaxOps
    /\ op_count' = op_count + 1
    /\ ops' = Append(ops, [proposed |-> seq, priority |-> p, promised |-> get_priority_delay(p)])
    /\ UNCHANGED <<seq, delay, batches, batch_count, cfgvars, executed>>

required_delayLive(i) == get_priority_delay(ops[i].priority)

\* The longer of the delay promised at the proposal and the one in force.
required_delay(i) == Max({get_priority_delay(ops[i].priority), ops[i].promised})

Done(kind, id, x) ==
    executed \cup {[kind |-> kind, id |-> id, waited |-> seq - x.proposed, promised |-> x.promised]}

execute_operation(i) ==
    /\ ops[i] # Gone
    /\ seq - ops[i].proposed >= required_delay(i)
    /\ ops' = [ops EXCEPT ![i] = Gone]
    /\ executed' = Done("op", i, ops[i])
    /\ UNCHANGED <<seq, delay, op_count, batches, batch_count, cfgvars>>

cancel_operation(i) ==
    /\ ops[i] # Gone
    /\ ops' = [ops EXCEPT ![i] = Gone]
    /\ UNCHANGED <<seq, delay, op_count, batches, batch_count, cfgvars, executed>>

element_delay(e) ==
    IF e.type = "Upgrade" THEN get_priority_delay("LongTerm") ELSE get_priority_delay("Normal")
batch_required_delay(elements) == Max({BatchFloor} \cup {element_delay(e) : e \in ToSet(elements)})

propose_batch(elements) ==
    /\ op_count + batch_count < MaxOps
    /\ batch_count' = batch_count + 1
    /\ batches' = Append(batches, [proposed |-> seq, elements |-> elements,
                                   promised |-> batch_required_delay(elements)])
    /\ UNCHANGED <<seq, delay, ops, op_count, cfgvars, executed>>

\* A configuration element snapshots and sets; an upgrade leaves the state alone.
execute_single_op(s, e) ==
    IF e.type = "Upgrade" THEN s
    ELSE LET t == Snapshot(s.snaps, s.index, s.config)
         IN  [index |-> t.index, snaps |-> t.snaps,
              config |-> [s.config EXCEPT !.min_sources = e.value]]

execute_batch(i) ==
    LET b == batches[i]
        after == FoldLeft(execute_single_op,
                          [index |-> versions, snaps |-> snapshots, config |-> config], b.elements)
    IN  /\ b # Gone
        /\ seq - b.proposed >= Max({batch_required_delay(b.elements), b.promised})
        /\ version_count + Len(b.elements) <= MaxVersions
        /\ versions' = after.index /\ snapshots' = after.snaps /\ config' = after.config
        /\ batches' = [batches EXCEPT ![i] = Gone]
        /\ executed' = Done("batch", i, b)
        /\ UNCHANGED <<seq, delay, ops, op_count, batch_count>>

cancel_batch(i) ==
    /\ batches[i] # Gone
    /\ batches' = [batches EXCEPT ![i] = Gone]
    /\ UNCHANGED <<seq, delay, ops, op_count, batch_count, cfgvars, executed>>

CloseSequence ==
    /\ seq < MaxSequence
    /\ seq' = seq + 1
    /\ UNCHANGED <<tlvars, cfgvars, executed>>

Init ==
    /\ seq = 0 /\ delay = [p \in Priorities |-> Unset]
    /\ ops = <<>> /\ op_count = 0 /\ batches = <<>> /\ batch_count = 0
    /\ config = [min_sources |-> Min(Quorums), duration |-> Defaults["Normal"]]
    /\ snapshots = <<>> /\ versions = <<>>
    /\ executed = {}

ConfigCalls ==
    \/ \E n \in Quorums : set_min_sources_required(n)
    \/ \E n \in Delays : set_timelock_duration(n)
    \/ \E v \in 1..MaxVersions : rollback_config(v)

TimelockCalls ==
    \/ \E p \in Priorities : propose_operation_with_priority(p)
    \/ \E p \in Priorities, n \in Delays : set_priority_delay(p, n)
    \/ \E i \in 1..op_count : execute_operation(i) \/ cancel_operation(i)

BatchCalls ==
    \/ \E e \in Elements : propose_batch(<<e>>)
    \/ \E e \in Elements, q \in Quorums : propose_batch(<<e, [type |-> "SetMinSources", value |-> q]>>)
    \/ \E i \in 1..batch_count : execute_batch(i) \/ cancel_batch(i)

Next == ConfigCalls \/ TimelockCalls \/ BatchCalls \/ CloseSequence

Spec == Init /\ [][Next]_<<seq, tlvars, cfgvars, executed>>

(***************************************************************************)
(* Properties                                                              *)
(***************************************************************************)
\* Nothing runs before the delay it was announced with, although delays, the
\* duration they default to and, through a rollback or a batch, the whole
\* configuration change while it waits; and nothing runs twice
\* (timelock.rs:188, timelock.rs:359).
NothingEarly ==
    /\ \A x \in executed : x.waited >= x.promised
    /\ \A x, y \in executed : x.kind = y.kind /\ x.id = y.id => x = y
    /\ \A x \in executed : (IF x.kind = "op" THEN ops ELSE batches)[x.id] = Gone

\* The history holds exactly the retained versions, each newer than the one
\* before it and the newest MAX_CONFIG_HISTORY of them, so every version a
\* reader is shown can be rolled back to and none older can, even when a
\* batch takes several snapshots in one call (config_history.rs:63).
HistoryIsRecent ==
    /\ DOMAIN snapshots = ToSet(versions)
    /\ Len(versions) <= MaxConfig
    /\ \A i \in 2..Len(versions) : versions[i] = versions[i - 1] + 1

=============================================================================
