---------------------------- MODULE Subscriptions ----------------------------
(***************************************************************************)
(* What is paid for: subscriptions of one consumer (subscription.rs) with  *)
(* their renewal by anybody under a standing mandate of the consumer       *)
(* (auto_renewal.rs), and places in the queue of submissions               *)
(* (fee_market.rs).                                                        *)
(*                                                                         *)
(* A mandate allows a number of periods and an amount for each, a period   *)
(* is named by the time it falls due, and each renewal needs an            *)
(* authorisation of its own for that period.  The clock is in seconds,     *)
(* scaled down.                                                            *)
(*                                                                         *)
(* In the fee market a source pays for the place of its submission;        *)
(* anybody may process the queue, which submits the prices from the head   *)
(* on and splits each fee between the source and the treasury.  A          *)
(* submission the price path rejects undoes the whole call.                *)
(***************************************************************************)
EXTENDS Integers, Sequences, FiniteSets, FiniteSetsExt, SequencesExt

CONSTANTS
    Durations,      \* plan durations
    PlanPrices,     \* prices of a plan
    Ceilings,       \* values of max_amount_per_period
    Periods,        \* values of periods_authorized
    RenewalNonces,  \* nonces the consumer may use
    Allowance,      \* allowances the consumer may set on the token
    MaxTime         \* bound on the clock

CONSTANTS
    FeeSources, Amounts, Stamps,
    Ratios,           \* values of the share of the source, in percent
    MaxProcess,       \* MAX_PROCESS_PER_LEDGER
    MaxEnqueued       \* bound on the submissions paid for

VARIABLES
    clock,
    plans,        \* SubscriptionPlans: duration -> price, for the plans on offer
    expiry,       \* SubscriptionExpiry, 0 when there is none
    payment,      \* SubscriptionPayment: amount and status
    mandate,      \* AutoRenewRecord, or NoMandate
    auths,        \* SubscriptionRenewalAuthorization: period -> record
    spent,        \* SubscriptionRenewalSpent
    allowance,    \* what the token contract lets this contract pull
    pulled,       \* ghost: what was pulled since the mandate was given
    agreed        \* ghost: the largest ceiling the consumer ever gave

VARIABLES
    queue,      \* FmPendingQueue
    pool,       \* FmFeePool
    balance,    \* FmSourceFeeBalance
    fm_treasury,  \* FmTreasuryBalance
    min_fee,    \* FmMinPriorityFee
    ratio,      \* FmFeeDistributionRatio
    active,     \* SrcActive
    enqueued    \* submissions paid for so far

svars == <<clock, plans, expiry, payment, mandate, auths, spent, allowance, pulled, agreed>>
subscription == <<plans, expiry, payment>>
renewal == <<mandate, auths, spent, allowance, pulled, agreed>>
fvars == <<queue, pool, balance, fm_treasury, min_fee, ratio, active, enqueued>>

NoMandate == [cap |-> 0]
Lesser(a, b) == IF a < b THEN a ELSE b
Put(f, k, v) == [x \in DOMAIN f \cup {k} |-> IF x = k THEN v ELSE f[x]]

(***************************************************************************)
(* Subscriptions.                                                          *)
(***************************************************************************)
set_subscription_price(d, amount) ==
    /\ plans' = Put(plans, d, amount)
    /\ UNCHANGED <<clock, expiry, payment, renewal>>

\* The payment record of an earlier subscription is overwritten.
subscribe(d) ==
    /\ d \in DOMAIN plans
    /\ payment' = IF plans[d] > 0 THEN [amount |-> plans[d], status |-> 1] ELSE payment
    /\ expiry' = clock + d
    /\ UNCHANGED <<clock, plans, renewal>>

renew_subscription ==
    /\ expiry # 0 /\ expiry >= clock
    /\ expiry' = expiry + (expiry - clock)
    /\ expiry' <= 2 * MaxTime
    /\ UNCHANGED <<clock, plans, payment, renewal>>

distribute_subscription_fees ==
    /\ payment.status = 1
    /\ payment' = [payment EXCEPT !.status = 2]
    /\ UNCHANGED <<clock, plans, expiry, renewal>>

refund_subscription_payment ==
    /\ payment.status = 1
    /\ payment' = [payment EXCEPT !.status = 2]
    /\ UNCHANGED <<clock, plans, expiry, renewal>>

(***************************************************************************)
(* Automatic renewal.                                                      *)
(***************************************************************************)
enable_auto_renewal(d, cap, n) ==
    /\ d > 0 /\ cap > 0 /\ n > 0
    /\ mandate' = [duration |-> d, cap |-> cap, periods |-> n, used |-> 0, nonce |-> 0,
                   due |-> clock, active |-> TRUE, cancelled |-> FALSE]
    /\ pulled' = 0
    /\ agreed' = IF cap > agreed THEN cap ELSE agreed
    /\ UNCHANGED <<clock, subscription, auths, spent, allowance>>

disable_auto_renewal ==
    /\ mandate # NoMandate
    /\ mandate' = [mandate EXCEPT !.active = FALSE]
    /\ UNCHANGED <<clock, subscription, auths, spent, allowance, pulled, agreed>>

\* Slip: the ceiling of the mandate is not applied.
authorized_amountUncapped ==
    IF mandate.duration \in DOMAIN plans THEN plans[mandate.duration] ELSE 0
authorized_amount ==
    Lesser(IF mandate.duration \in DOMAIN plans THEN plans[mandate.duration] ELSE 0, mandate.cap)

Live == mandate # NoMandate /\ ~mandate.cancelled /\ mandate.active

authorize_renewal(period, nonce) ==
    /\ Live
    /\ period = mandate.due
    /\ nonce > mandate.nonce
    /\ auths' = Put(auths, period, [nonce |-> nonce, amount |-> authorized_amount, consumed |-> FALSE])
    /\ mandate' = [mandate EXCEPT !.nonce = nonce]
    /\ spent' = spent \ {period}
    /\ UNCHANGED <<clock, subscription, allowance, pulled, agreed>>

try_auto_renew ==
    /\ Live
    /\ mandate.used < mandate.periods
    /\ mandate.due \notin spent
    /\ clock >= mandate.due
    /\ mandate.due \in DOMAIN auths
    /\ LET auth == auths[mandate.due] IN
       /\ ~auth.consumed /\ auth.nonce = mandate.nonce
       /\ auth.amount > 0
       /\ allowance >= auth.amount
       /\ expiry # 0 /\ expiry >= clock
       /\ auths' = [auths EXCEPT ![mandate.due].consumed = TRUE]
       /\ spent' = spent \cup {mandate.due}
       /\ mandate' = [mandate EXCEPT !.used = @ + 1, !.due = @ + mandate.duration,
                                     !.nonce = @ + 1]
       /\ expiry' = expiry + mandate.duration
       /\ expiry' <= 2 * MaxTime
       /\ allowance' = allowance - auth.amount
       /\ pulled' = pulled + auth.amount
    /\ UNCHANGED <<clock, plans, payment, agreed>>

revoke_on_cancel ==
    IF mandate = NoMandate THEN UNCHANGED <<mandate, auths, spent>>
    ELSE /\ mandate' = [mandate EXCEPT !.cancelled = TRUE, !.active = FALSE]
         /\ auths' = IF mandate.due \in DOMAIN auths
                     THEN [auths EXCEPT ![mandate.due].consumed = TRUE] ELSE auths
         /\ spent' = spent \cup {mandate.due}

\* No deposit record is ever written, so cancelling refunds nothing.
cancel_subscription ==
    /\ expiry # 0
    /\ expiry' = 0
    /\ revoke_on_cancel
    /\ UNCHANGED <<clock, plans, payment, allowance, pulled, agreed>>

(***************************************************************************)
(* The fee market.                                                         *)
(***************************************************************************)
Precedes(new, old) ==
    new.fee > old.fee \/ (new.fee = old.fee /\ new.stamp < old.stamp)

\* The first place whose holder the new submission precedes.
find_insert_position(q, new) ==
    Min({i \in 1..Len(q) : Precedes(new, q[i])} \cup {Len(q) + 1})

enqueue_submission(s, fee, stamp) ==
    LET sub == [source |-> s, fee |-> fee, stamp |-> stamp] IN
    /\ active[s]
    /\ fee >= min_fee
    /\ enqueued < MaxEnqueued
    /\ queue' = InsertAt(queue, find_insert_position(queue, sub), sub)
    /\ pool' = pool + fee
    /\ enqueued' = enqueued + 1
    /\ UNCHANGED <<balance, fm_treasury, min_fee, ratio, active>>

source_share(fee) == (fee * ratio) \div 100
treasury_shareRounded(fee) == (fee * (100 - ratio)) \div 100
treasury_share(fee) == fee - source_share(fee)

\* One round of the loop: the fee of a submission is split between two accounts.
distribute(books, sub) ==
    [balance |-> [books.balance EXCEPT ![sub.source] = @ + source_share(sub.fee)],
     treasury |-> books.treasury + treasury_share(sub.fee)]

\* submit_price_internal accepts a price of a source that is still active; a
\* suspension or an earlier timestamp does not stop it.
process_fee_market ==
    LET n == Lesser(Len(queue), MaxProcess)
        served[k \in 0..n] ==
            IF k = 0 THEN [balance |-> balance, treasury |-> fm_treasury]
            ELSE distribute(served[k - 1], queue[k])
    IN /\ n > 0
       /\ \A i \in 1..n : active[queue[i].source]
       /\ queue' = SubSeq(queue, n + 1, Len(queue))
       /\ balance' = served[n].balance
       /\ fm_treasury' = served[n].treasury
       /\ UNCHANGED <<pool, min_fee, ratio, active, enqueued>>

set_min_priority_fee(f) ==
    /\ min_fee' = f
    /\ UNCHANGED <<queue, pool, balance, fm_treasury, ratio, active, enqueued>>

set_fee_distribution_ratio(r) ==
    /\ r <= 100
    /\ ratio' = r
    /\ UNCHANGED <<queue, pool, balance, fm_treasury, min_fee, active, enqueued>>

\* sources.rs adds and removes sources while their submissions wait.
ChangeSource(s) ==
    /\ active' = [active EXCEPT ![s] = ~@]
    /\ UNCHANGED <<queue, pool, balance, fm_treasury, min_fee, ratio, enqueued>>

(***************************************************************************)
(* The token contract and the clock.                                       *)
(***************************************************************************)
approve(a) ==
    /\ allowance' = a
    /\ UNCHANGED <<clock, subscription, mandate, auths, spent, pulled, agreed>>

AdvanceClock ==
    /\ clock < MaxTime
    /\ clock' = clock + 1
    /\ UNCHANGED <<subscription, renewal>>

MarketInit ==
    /\ queue = <<>>
    /\ pool = 0
    /\ balance = [s \in FeeSources |-> 0]
    /\ fm_treasury = 0
    /\ min_fee = 0
    /\ ratio = 80     \* DEFAULT_FEE_DISTRIBUTION_RATIO
    /\ active = [s \in FeeSources |-> TRUE]
    /\ enqueued = 0

Init ==
    /\ clock = 1
    /\ plans = <<>>
    /\ expiry = 0
    /\ payment = [amount |-> 0, status |-> 0]
    /\ mandate = NoMandate
    /\ auths = <<>>
    /\ spent = {}
    /\ allowance = 0
    /\ pulled = 0
    /\ agreed = 0
    /\ MarketInit

SubscriptionCalls ==
    \/ \E d \in Durations : subscribe(d) \/ (\E p \in PlanPrices : set_subscription_price(d, p))
    \/ renew_subscription
    \/ cancel_subscription
    \/ distribute_subscription_fees
    \/ refund_subscription_payment
RenewalCalls ==
    \/ \E d \in Durations, c \in Ceilings, n \in Periods : enable_auto_renewal(d, c, n)
    \/ disable_auto_renewal
    \/ \E p \in 1..2 * MaxTime, n \in RenewalNonces : authorize_renewal(p, n)
    \/ try_auto_renew
MarketCalls ==
    \/ \E s \in FeeSources, f \in Amounts, t \in Stamps : enqueue_submission(s, f, t)
    \/ process_fee_market
    \/ \E f \in Amounts : set_min_priority_fee(f)
    \/ \E r \in Ratios : set_fee_distribution_ratio(r)
    \/ \E s \in FeeSources : ChangeSource(s)
ConsumerCalls ==
    \/ SubscriptionCalls
    \/ RenewalCalls
    \/ \E a \in Allowance : approve(a)
    \/ AdvanceClock
Next ==
    \/ ConsumerCalls /\ UNCHANGED fvars
    \/ MarketCalls /\ UNCHANGED svars

Spec == Init /\ [][Next]_<<svars, fvars>>

(***************************************************************************)
(* Properties.                                                             *)
(***************************************************************************)
\* "max_tokens_moved = periods_authorized * max_amount_per_period" and "an
\* authorization captured under the old grant can never be replayed against the
\* new one": what is pulled under a mandate stays within its own ceiling for
\* the periods it used.
RenewalsWithinMandate ==
    mandate # NoMandate => pulled <= mandate.used * mandate.cap

\* What the code does keep of that bound, however plan prices and mandates
\* change between authorisation and renewal and whoever retries it: a mandate is
\* used for no more periods than it grants, each time for an amount within a
\* ceiling the consumer gave, and every period it was used for is spent with its
\* authorisation consumed, so that no period is paid for twice.
RenewalsBounded ==
    mandate # NoMandate =>
        /\ mandate.used <= mandate.periods
        /\ pulled <= mandate.used * agreed
        /\ \A k \in 1..mandate.used :
              LET period == mandate.due - k * mandate.duration
              IN  period \in spent /\ period \in DOMAIN auths /\ auths[period].consumed

\* Every fee ever paid is either still attached to a waiting submission or was
\* credited in full, rounding included, to its source and the treasury; and
\* the queue that is cut at MAX_PROCESS_PER_LEDGER is in order of priority, so
\* a call never serves a submission before one that outbids it.
FeesAccounted ==
    /\ pool = SumFunction([i \in DOMAIN queue |-> queue[i].fee])
              + SumFunction(balance) + fm_treasury
    /\ \A i, j \in DOMAIN queue : i < j => ~Precedes(queue[j], queue[i])

=============================================================================
