-------------------------- MODULE ConsumerDelivery --------------------------
(***************************************************************************)
(* How a published price reaches its consumers: callbacks into their       *)
(* contracts (price_callback.rs), the lists of subscribers                 *)
(* (price_update_subscription.rs) and the triggers that publish by         *)
(* themselves (triggers.rs), for one asset.  The bit of feature_flags.rs   *)
(* that gates each reader is part of the state, since an unset bit hides   *)
(* what is stored.                                                         *)
(***************************************************************************)
EXTENDS Integers, Sequences, SequencesExt, FiniteSets

CONSTANTS
    Consumers,     \* consumers
    TickPrices,    \* prices submitted
    MaxCallbacks,  \* MAX_CALLBACKS_PER_ASSET
    TriggerCounts, \* values set_submission_threshold_trigger is called with
    TriggerBps,    \* values set_deviation_trigger is called with
    TriggerGaps,   \* values set_time_trigger is called with
    MaxDelivery    \* bound: the last ledger time

VARIABLES
    dclock,      \* ledger time
    callbacks,   \* PriceCallbackList: consumers in order of registration
    subscribed,  \* PriceUpdateSubscription
    subscribers, \* AssetSubscriberList
    flags,       \* feature bits set
    trigger,     \* [count, bps, gap]: the three triggers, 0 when off
    counted,     \* TriggerSubmissionCount
    fired_at,    \* TriggerLastAggTime
    quorum_met,  \* do enough sources contribute (PriceOracle)
    latest,      \* the newest submission
    published,   \* the aggregate, 0 when none
    aggregated,  \* ghost: the last price an aggregation published, 0 when none
    heard        \* ghost: consumer -> what its callback knows since it registered

delivery == <<dclock, callbacks, subscribed, subscribers, flags, trigger,
              counted, fired_at, quorum_met, latest, published, aggregated, heard>>

BPS == 10000
Nothing == 0
Missed == -1

markForgotten(bit) == UNCHANGED flags
mark(bit) == flags' = flags \cup {bit}
on(bit) == bit \in flags

(***************************************************************************)
(* Callbacks                                                               *)
(***************************************************************************)
\* A second registration replaces the first in its place.
register_price_callback(c) ==
    /\ c \in ToSet(callbacks) \/ Len(callbacks) < MaxCallbacks
    /\ callbacks' = IF c \in ToSet(callbacks) THEN callbacks ELSE Append(callbacks, c)
    /\ mark("PRICE_CALLBACK")
    /\ heard' = [heard EXCEPT ![c] = Nothing]
    /\ UNCHANGED <<dclock, subscribed, subscribers, trigger, counted, fired_at,
                   quorum_met, latest, published, aggregated>>

unregister_price_callback(c) ==
    /\ c \in ToSet(callbacks)
    /\ callbacks' = RemoveFirst(callbacks, c)
    /\ UNCHANGED <<dclock, subscribed, subscribers, flags, trigger, counted, fired_at,
                   quorum_met, latest, published, aggregated, heard>>

\* Every callback is tried; one that fails is caught and not tried again.
invoke_price_callbacks(price, fails) ==
    heard' = IF on("PRICE_CALLBACK")
             THEN [c \in Consumers |->
                     IF c \notin ToSet(callbacks) THEN heard[c]
                     ELSE IF c \in fails THEN Missed ELSE price]
             ELSE heard

\* Aggregation with one submission in hand; below quorum nothing happens.
do_aggregate(price, fails) ==
    IF quorum_met
    THEN /\ published' = price /\ aggregated' = price
         /\ invoke_price_callbacks(price, fails)
    ELSE UNCHANGED <<published, aggregated, heard>>

(***************************************************************************)
(* Triggers                                                                *)
(***************************************************************************)
set_trigger(field, value) ==
    /\ trigger' = [trigger EXCEPT ![field] = value]
    /\ IF field = "gap" THEN UNCHANGED flags ELSE mark("TRIGGERS")
    /\ UNCHANGED <<dclock, callbacks, subscribed, subscribers, counted, fired_at,
                   quorum_met, latest, published, aggregated, heard>>

set_time_trigger(secs) == set_trigger("gap", secs)
set_submission_threshold_trigger(n) == set_trigger("count", n)
set_deviation_trigger(bps) == bps <= 100000 /\ set_trigger("bps", bps)

Change(p) == ((IF p > published THEN p - published ELSE published - p) * BPS) \div published

record_submission_for_triggers(price) ==
    LET live == on("TRIGGERS")
        deviates == live /\ trigger.bps > 0 /\ published > 0 /\ Change(price) >= trigger.bps
        counts == live /\ trigger.count > 0 /\ ~deviates
        fires == deviates \/ (counts /\ counted + 1 >= trigger.count)
    IN /\ counted' = IF fires THEN 0 ELSE IF counts THEN counted + 1 ELSE counted
       /\ fired_at' = IF fires THEN dclock ELSE fired_at

\* submit_price: the trigger, and the aggregation that follows it anyway.
submit_price(price, fails) ==
    /\ latest' = price
    /\ record_submission_for_triggers(price)
    /\ do_aggregate(price, fails)
    /\ UNCHANGED <<dclock, callbacks, subscribed, subscribers, flags, trigger, quorum_met>>

poke_time_trigger(fails) ==
    /\ trigger.gap > 0
    /\ dclock - fired_at >= trigger.gap
    /\ fired_at' = dclock
    /\ counted' = 0
    /\ IF latest = 0 THEN UNCHANGED <<published, aggregated, heard>> ELSE do_aggregate(latest, fails)
    /\ UNCHANGED <<dclock, callbacks, subscribed, subscribers, flags, trigger,
                   quorum_met, latest>>

\* The writers of the aggregate that call nobody back, although price_callback.rs:4
\* promises a call "whenever a new aggregate price is published": the
\* permissionless trigger (prices.rs), which counts sources in its own way, a
\* finalised proposal (optimistic.rs) and a correction (corrections.rs).
WriteBeside(price) ==
    /\ published' = price
    /\ UNCHANGED <<dclock, callbacks, subscribed, subscribers, flags, trigger, counted,
                   fired_at, quorum_met, latest, aggregated, heard>>
trigger_aggregation == latest # 0 /\ WriteBeside(latest)
write_price_snapshot(price) == WriteBeside(price)
correct_price(price) == published # 0 /\ WriteBeside(price)

(***************************************************************************)
(* Subscribers                                                             *)
(***************************************************************************)
Without(list, gone) ==
    FoldLeft(LAMBDA left, x : IF x \in gone THEN left ELSE Append(left, x), <<>>, list)

dropNone(c) == subscribers
dropAll(c) == Without(subscribers, {c})

subscribe_price_updates(c) ==
    /\ c \notin subscribed
    /\ subscribed' = subscribed \cup {c}
    /\ subscribers' = Append(subscribers, c)
    /\ UNCHANGED <<dclock, callbacks, flags, trigger, counted, fired_at,
                   quorum_met, latest, published, aggregated, heard>>

unsubscribe_price_updates(c) ==
    /\ c \in subscribed
    /\ subscribed' = subscribed \ {c}
    /\ subscribers' = dropAll(c)
    /\ UNCHANGED <<dclock, callbacks, flags, trigger, counted, fired_at,
                   quorum_met, latest, published, aggregated, heard>>

(***************************************************************************)
(* The specification                                                       *)
(***************************************************************************)
\* Sources come and go (PriceOracle).
QuorumShifts ==
    /\ quorum_met' = ~quorum_met
    /\ UNCHANGED <<dclock, callbacks, subscribed, subscribers, flags, trigger, counted,
                   fired_at, latest, published, aggregated, heard>>

Elapse ==
    /\ dclock < MaxDelivery
    /\ dclock' = dclock + 1
    /\ UNCHANGED <<callbacks, subscribed, subscribers, flags, trigger, counted, fired_at,
                   quorum_met, latest, published, aggregated, heard>>

Init ==
    /\ dclock = 0 /\ callbacks = <<>> /\ subscribed = {} /\ subscribers = <<>>
    /\ flags = {} /\ trigger = [count |-> 0, bps |-> 0, gap |-> 0]
    /\ counted = 0 /\ fired_at = 0
    /\ quorum_met = FALSE /\ latest = 0 /\ published = 0 /\ aggregated = 0
    /\ heard = [c \in Consumers |-> Nothing]

TriggerCalls ==
    \/ \E n \in TriggerCounts : set_submission_threshold_trigger(n)
    \/ \E n \in TriggerBps : set_deviation_trigger(n)
    \/ \E n \in TriggerGaps : set_time_trigger(n)
    \/ \E fails \in SUBSET Consumers : poke_time_trigger(fails)

CallbackCalls == \E c \in Consumers : register_price_callback(c) \/ unregister_price_callback(c)

SubscriberCalls == \E c \in Consumers : subscribe_price_updates(c) \/ unsubscribe_price_updates(c)

Publications == \E p \in TickPrices, fails \in SUBSET Consumers : submit_price(p, fails)

WritesBeside ==
    \/ trigger_aggregation
    \/ \E p \in TickPrices : write_price_snapshot(p) \/ correct_price(p)

Next == TriggerCalls \/ CallbackCalls \/ SubscriberCalls \/ Publications
        \/ WritesBeside \/ QuorumShifts \/ Elapse

Spec == Init /\ [][Next]_delivery

(***************************************************************************)
(* Properties                                                              *)
(***************************************************************************)
\* A newly aggregated price reaches every consumer that has a callback, or its
\* own call fails (price_callback.rs:191-237): one published by a submission, a
\* count, a deviation or a poked timer, for the first consumer as for one that
\* came back, never hidden behind a feature bit that nobody set, and whatever
\* was written in between without a call to anybody.
CallbacksHear ==
    [][aggregated' # aggregated =>
         \A c \in ToSet(callbacks) : heard'[c] \in {Missed, aggregated'}]_delivery

\* The lists name each consumer once, the callbacks stay under their cap and
\* the subscribers are exactly the flagged ones, over any sequence of
\* subscribing, leaving and coming back (price_update_subscription.rs:104, 138).
DeliveryListsExact ==
    /\ IsInjective(callbacks) /\ Len(callbacks) <= MaxCallbacks
    /\ IsInjective(subscribers) /\ ToSet(subscribers) = subscribed

=============================================================================
