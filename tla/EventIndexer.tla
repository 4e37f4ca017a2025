---------------------------- MODULE EventIndexer ----------------------------
(***************************************************************************)
(* The off-chain store of contract events (services/indexer/indexer.py) and *)
(* the pump that feeds it (backpressure.py): a reader thread, a bounded    *)
(* buffer and a store thread.  The process may crash between two steps and *)
(* a store call may fail in the middle of a batch; an export may lack a    *)
(* ledger; the chain may be reorganised.  Only authentic events are        *)
(* modelled, and of the materialized tables the one of the sources, for    *)
(* one source.                                                             *)
(***************************************************************************)
EXTENDS Integers, Sequences, SequencesExt, FiniteSets, FiniteSetsExt

CONSTANTS
    Content,        \* fork -> ledger -> the topics of its events, in order
    ForkAt,         \* the first ledger on which the forks differ
    Size,           \* topic -> bytes of an event
    BatchSize,      \* batch_size
    MaxBuffered,    \* max_buffered_events
    MaxBytes,       \* max_buffered_bytes
    Careless,       \* may a reorganisation reach below the cursor, or a run get a
                    \* stream without the ledger of the cursor
    MaxFaults       \* bound: crashes, store failures and incomplete exports

VARIABLES
    fork,      \* the chain in force
    db,        \* the committed store: [events, gaps, cursor, src]
    work,      \* the store as the open connection sees it
    stream,    \* what the reader has still to read
    buffer,    \* BoundedBuffer._items
    gate,      \* [closed, aborted]
    store,     \* the calling thread: "idle", "get", "ingest" or "join"
    batch,     \* the batch it ingests
    faults     \* how many faults there have been

ivars == <<fork, db, work, stream, buffer, gate, store, batch, faults>>

Forks == DOMAIN Content
Heights == DOMAIN Content[1]
NoSource == [added |-> 0, removed |-> 0]
Empty == [events |-> {}, gaps |-> {}, cursor |-> 0, src |-> NoSource]

hash_of(f, l) == IF l < ForkAt THEN 1 ELSE f
Rows(f, l) == [i \in DOMAIN Content[f][l] |->
                 [ledger |-> l, idx |-> i, hash |-> hash_of(f, l), topic |-> Content[f][l][i]]]
\* An export of the chain that lacks some ledgers; ledgers without events are
\* not part of the model.
Export(f, lacking) == FlattenSeq([l \in Heights |-> IF l \in lacking THEN <<>> ELSE Rows(f, l)])

(***************************************************************************)
(* The store                                                               *)
(***************************************************************************)
MaxLedger(evs) == Max({0} \cup {e.ledger : e \in evs})

\* 0 stands for no gap, as ledgers begin with 1.
trusted_ledger(d) ==
    IF d.gaps # {} THEN Min({g[1] : g \in d.gaps}) - 1 ELSE MaxLedger(d.events)

rollback_to(d, l) ==
    LET kept == {e \in d.events : e.ledger <= l} IN
    [events |-> kept,
     gaps |-> {g \in d.gaps : g[1] <= l},
     cursor |-> MaxLedger(kept),
     src |-> IF d.src.added > l THEN NoSource
             ELSE IF d.src.removed > l THEN [d.src EXCEPT !.removed = 0] ELSE d.src]

\* A gap that holds the ledger is split around it.
close_gap_at(gaps, l) ==
    LET hit == {g \in gaps : g[1] <= l /\ l <= g[2]}
        rest == {<<g[1], l - 1>> : g \in hit} \cup {<<l + 1, g[2]>> : g \in hit}
    IN (gaps \ hit) \cup {g \in rest : g[1] <= g[2]}

materialize(src, e) ==
    CASE e.topic = "added" -> [added |-> e.ledger, removed |-> 0]
      [] e.topic = "removed" /\ src.added # 0 -> [src EXCEPT !.removed = e.ledger]
      [] OTHER -> src

\* One event of a batch; ok turns FALSE where ingest raises, and hashed is the
\* ledger this batch has written last.
ingest_one(s, e, allow) ==
    LET other == \E x \in s.d.events : x.ledger = e.ledger /\ x.hash # e.hash
        d == IF other THEN rollback_to(s.d, e.ledger - 1) ELSE s.d
        jump == d.cursor # 0 /\ e.ledger > d.cursor + 1
        gaps == IF jump THEN d.gaps \cup {<<d.cursor + 1, e.ledger - 1>>} ELSE d.gaps
    IN CASE ~s.ok -> s
         [] s.ok /\ other /\ s.hashed = e.ledger -> [s EXCEPT !.ok = FALSE]
         [] s.ok /\ e \in d.events -> [s EXCEPT !.d = d]
         [] s.ok /\ jump /\ ~allow -> [s EXCEPT !.d = [d EXCEPT !.gaps = gaps], !.ok = FALSE]
         [] OTHER -> [ok |-> TRUE, hashed |-> e.ledger,
                      d |-> [events |-> d.events \cup {e}, gaps |-> close_gap_at(gaps, e.ledger),
                             cursor |-> Max({d.cursor, e.ledger}), src |-> materialize(d.src, e)]]

Ingest(d, rows, allow) ==
    FoldLeft(LAMBDA s, e : ingest_one(s, e, allow), [d |-> d, ok |-> TRUE, hashed |-> 0], rows)

\* The command line: the whole export in one transaction, which a rejected
\* event or a gap ends after what came before it.
ingest(lacking, allow) ==
    /\ store = "idle"
    /\ work' = Ingest(work, Export(fork, lacking), allow).d
    /\ db' = work'
    /\ faults' = IF lacking = {} THEN faults ELSE faults + 1
    /\ faults' <= MaxFaults
    /\ UNCHANGED <<fork, stream, buffer, gate, store, batch>>

(***************************************************************************)
(* The pump                                                                *)
(***************************************************************************)
Bytes(rows) == FoldLeft(LAMBDA n, e : n + Size[e.topic], 0, rows)

full_forLate(e) ==
    /\ buffer # <<>>
    /\ Len(buffer) > MaxBuffered \/ Bytes(buffer) > MaxBytes
full_for(e) ==
    /\ buffer # <<>>
    /\ Len(buffer) >= MaxBuffered \/ Bytes(buffer) + Size[e.topic] > MaxBytes

\* The reader is started behind the cursor; the cursor's own ledger is read again.
stamp_and_resume(rows, from) == SelectSeq(rows, LAMBDA e : e.ledger >= from)

run(lacking) ==
    /\ store = "idle"
    /\ faults' = IF lacking = {} THEN faults ELSE faults + 1
    /\ faults' <= MaxFaults
    /\ stream' = stamp_and_resume(Export(fork, lacking), work.cursor)
    /\ buffer' = <<>> /\ gate' = [closed |-> FALSE, aborted |-> FALSE]
    /\ store' = "get" /\ batch' = <<>>
    /\ UNCHANGED <<fork, db, work>>

\* The reader: put blocks while the buffer is full.
put ==
    /\ ~gate.closed /\ stream # <<>>
    /\ ~full_for(Head(stream))
    /\ buffer' = Append(buffer, Head(stream))
    /\ stream' = Tail(stream)
    /\ UNCHANGED <<fork, db, work, gate, store, batch, faults>>

close ==
    /\ ~gate.closed /\ stream = <<>>
    /\ gate' = [gate EXCEPT !.closed = TRUE]
    /\ UNCHANGED <<fork, db, work, stream, buffer, store, batch, faults>>

get_batch ==
    /\ store = "get"
    /\ buffer # <<>> \/ gate.closed
    /\ LET n == Min({BatchSize, Len(buffer)}) IN
         /\ batch' = SubSeq(buffer, 1, n)
         /\ buffer' = SubSeq(buffer, n + 1, Len(buffer))
    /\ store' = IF buffer = <<>> THEN "join" ELSE "ingest"
    /\ UNCHANGED <<fork, db, work, stream, gate, faults>>

\* The thread that stops leaves nothing buffered behind.
Aborting ==
    /\ gate' = [closed |-> TRUE, aborted |-> TRUE]
    /\ buffer' = <<>>
    /\ store' = "join"

\* A batch is committed whole, or up to the event that raises.
ingest_batch ==
    /\ store = "ingest"
    /\ LET r == Ingest(work, batch, FALSE) IN
         /\ work' = r.d /\ db' = r.d
         /\ IF r.ok THEN store' = "get" /\ UNCHANGED <<gate, buffer>> ELSE Aborting
    /\ batch' = <<>>
    /\ UNCHANGED <<fork, stream, faults>>

\* The store fails inside the batch: what it wrote stays in the open transaction.
store_fails ==
    /\ store = "ingest" /\ faults < MaxFaults
    /\ \E n \in 0..(Len(batch) - 1) : work' = Ingest(work, SubSeq(batch, 1, n), FALSE).d
    /\ Aborting
    /\ batch' = <<>>
    /\ faults' = faults + 1
    /\ UNCHANGED <<fork, db, stream>>

join ==
    /\ store = "join" /\ gate.closed
    /\ store' = "idle"
    /\ stream' = <<>>
    /\ UNCHANGED <<fork, db, work, buffer, gate, batch, faults>>

(***************************************************************************)
(* The environment                                                         *)
(***************************************************************************)
\* The process dies and is started again: the open transaction is undone.
crash ==
    /\ faults < MaxFaults
    /\ faults' = faults + 1
    /\ work' = db
    /\ stream' = <<>> /\ buffer' = <<>> /\ gate' = [closed |-> TRUE, aborted |-> FALSE]
    /\ store' = "idle" /\ batch' = <<>>
    /\ UNCHANGED <<fork, db>>

\* Where operators are careful, the chain replaces ledgers between two runs,
\* and only ledgers the next run reads again.
reorganise ==
    /\ fork + 1 \in Forks
    /\ Careless \/ (store = "idle" /\ Max({db.cursor, work.cursor}) <= ForkAt)
    /\ fork' = fork + 1
    /\ UNCHANGED <<db, work, stream, buffer, gate, store, batch, faults>>

Init ==
    /\ fork = 1
    /\ db = Empty /\ work = Empty
    /\ stream = <<>> /\ buffer = <<>> /\ gate = [closed |-> TRUE, aborted |-> FALSE]
    /\ store = "idle" /\ batch = <<>> /\ faults = 0

\* The next stream is whole, or it lacks a ledger, the cursor's only by mistake.
Lacking == {{}} \cup {{l} : l \in {h \in Heights : Careless \/ h # work.cursor}}

Next ==
    \/ \E lacking \in Lacking : run(lacking) \/ \E allow \in BOOLEAN : ingest(lacking, allow)
    \/ put \/ close \/ get_batch \/ ingest_batch \/ store_fails \/ join
    \/ crash \/ reorganise

\* Both threads go on, and the operator runs the pump again on a full export.
Threads ==
    /\ WF_ivars(put) /\ WF_ivars(close)
    /\ WF_ivars(get_batch) /\ WF_ivars(ingest_batch) /\ WF_ivars(join)
IndexerFairness == Threads /\ WF_ivars(run({}))

Spec == Init /\ [][Next]_ivars /\ IndexerFairness

(***************************************************************************)
(* Properties                                                              *)
(***************************************************************************)
Whole(d, l) == \E f \in Forks : {e \in d.events : e.ledger = l} = ToSet(Rows(f, l))
First(d) == Min({e.ledger : e \in d.events})

\* Below the trusted ledger of the committed store every ledger is there in
\* full, from one fork of it, whatever crashed, failed half way, was exported
\* with a hole or ingested across one (indexer.py:122): gaps are split and
\* closed exactly, and a ledger cut by a batch boundary is completed.
TrustedLedgersWhole ==
    db.events # {} => \A l \in First(db)..(trusted_ledger(db) - 1) : Whole(db, l)

\* The buffer keeps to its ceilings; only an event that is alone may exceed
\* the bytes (backpressure.py:70).
BufferBounded ==
    Len(buffer) <= MaxBuffered /\ (Bytes(buffer) <= MaxBytes \/ Len(buffer) = 1)

Caught == db.gaps = {} /\ \A l \in Heights : l >= First(db) => {e \in db.events : e.ledger = l} = ToSet(Rows(fork, l))
Crossed == \E g \in db.gaps : g[2] < db.cursor

Settled == Crossed \/ (db.events # {} /\ Caught)

\* The store catches up with the chain in force and stays there
\* (docs/indexer.md:71-75): no fault leaves the two threads waiting for each
\* other, and the resume point never skips an event.  The pump does not go
\* back to a gap that an operator crossed with allow_gaps.
IndexCatchesUp == <>[]Settled

\* The row of the source is what the stored events say (indexer.py:20-23,
\* docs/indexer.md:107): rolled back and rebuilt.  A source added, removed,
\* added again and rolled back to before that is forgotten whole.
SourceFollowsEvents ==
    LET adds == {e \in db.events : e.topic = "added"}
        last == IF adds = {} THEN 0 ELSE MaxLedger(adds)
        offs == {e \in db.events : e.topic = "removed" /\ e.ledger >= last}
    IN db.gaps = {} => db.src = [added |-> last, removed |-> IF last = 0 THEN 0 ELSE MaxLedger(offs)]

=============================================================================
