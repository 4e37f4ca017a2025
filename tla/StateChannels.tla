---------------------------- MODULE StateChannels ----------------------------
(***************************************************************************)
(* State channels for frequent updates (state_channel.rs).  A source locks *)
(* a deposit, publishes batches it signs off-chain, and takes the deposit  *)
(* back; after a timeout anybody may present a signed batch with a newer   *)
(* state.  A batch is the sequence of the nonces it carries, and the price *)
(* that goes with a nonce is left out.                                     *)
(***************************************************************************)
EXTENDS Integers, Sequences, FiniteSets, FiniteSetsExt, SequencesExt

CONSTANTS
    ChannelSources,   \* addresses that open channels
    Keys,             \* signing keys
    ChannelTokens,    \* token contracts
    Deposits,         \* amounts a channel may lock
    MaxNonce,         \* largest nonce signed
    Timeout           \* DEFAULT_DISPUTE_TIMEOUT_SECS, in steps of the clock

VARIABLES
    channel,   \* StateChannel of each source, or NoChannel
    signer,    \* StateChannelSigner, "none" until the first batch
    escrow,    \* token balances of the contract
    accepted   \* ghost: the nonces accepted since the channel was opened

scvars == <<channel, signer, escrow, accepted>>

NoChannel == [deposit |-> 0]
IsOpen(s) == channel[s] # NoChannel
Batches == UNION {[1..n -> 1..MaxNonce] : n \in 1..2}
Increasing(b) == \A i \in 2..Len(b) : b[i] > b[i - 1]

open_channel(s, deposit, t) ==
    /\ deposit > 0
    /\ ~IsOpen(s)
    /\ channel' = [channel EXCEPT ![s] =
          [deposit |-> deposit, token |-> t, nonce |-> 0, wait |-> Timeout]]
    /\ escrow' = [escrow EXCEPT ![t] = @ + deposit]
    /\ accepted' = [accepted EXCEPT ![s] = {}]
    /\ UNCHANGED signer

check_channel_signer(s, key, may_bind) ==
    signer[s] = key \/ (signer[s] = "none" /\ may_bind)

\* The newest state of a batch replaces the stored one; a batch that brings
\* nothing newer is rejected.
AdvanceLast(s, b) ==
    /\ Last(b) # channel[s].nonce
    /\ channel' = [channel EXCEPT ![s].nonce = Last(b)]
    /\ accepted' = [accepted EXCEPT ![s] = @ \cup ToSet(b)]
Advance(s, b) ==
    LET best == Max(ToSet(b) \cup {channel[s].nonce}) IN
    /\ best # channel[s].nonce
    /\ channel' = [channel EXCEPT ![s].nonce = best]
    /\ accepted' = [accepted EXCEPT ![s] = @ \cup ToSet(b)]

\* Signed by key and authorised by the source.
submit_batch(s, b, key) ==
    /\ IsOpen(s)
    /\ check_channel_signer(s, key, TRUE)
    /\ Increasing(b)
    /\ Advance(s, b)
    /\ signer' = [signer EXCEPT ![s] = key]
    /\ UNCHANGED escrow

close_channel(s) ==
    /\ IsOpen(s)
    /\ escrow' = [escrow EXCEPT ![channel[s].token] = @ - channel[s].deposit]
    /\ channel' = [channel EXCEPT ![s] = NoChannel]
    /\ signer' = [signer EXCEPT ![s] = "none"]
    /\ UNCHANGED accepted

\* Anybody may present a batch signed by the bound key; its order is not tested.
dispute_channel(s, b, key) ==
    /\ IsOpen(s)
    /\ channel[s].wait = 0
    /\ check_channel_signer(s, key, FALSE)
    /\ Advance(s, b)
    /\ UNCHANGED <<signer, escrow>>

AdvanceClock ==
    /\ \E s \in ChannelSources : IsOpen(s) /\ channel[s].wait > 0
    /\ channel' = [s \in ChannelSources |->
          IF IsOpen(s) /\ channel[s].wait > 0 THEN [channel[s] EXCEPT !.wait = @ - 1]
          ELSE channel[s]]
    /\ UNCHANGED <<signer, escrow, accepted>>

Init ==
    /\ channel = [s \in ChannelSources |-> NoChannel]
    /\ signer = [s \in ChannelSources |-> "none"]
    /\ escrow = [t \in ChannelTokens |-> 0]
    /\ accepted = [s \in ChannelSources |-> {}]

Next ==
    \/ \E s \in ChannelSources :
          \/ \E d \in Deposits, t \in ChannelTokens : open_channel(s, d, t)
          \/ \E b \in Batches, k \in Keys : submit_batch(s, b, k) \/ dispute_channel(s, b, k)
          \/ close_channel(s)
    \/ AdvanceClock

Spec == Init /\ [][Next]_scvars

(***************************************************************************)
(* Properties.                                                             *)
(***************************************************************************)
\* In every token the contract holds exactly the deposits of the open
\* channels, and an open channel stores the newest state that was accepted for
\* it, whether its source or a disputer brought it and in whatever order the
\* states of a batch stand.
ChannelsSound ==
    /\ \A t \in ChannelTokens :
          escrow[t] = SumFunction([s \in ChannelSources |->
                          IF IsOpen(s) /\ channel[s].token = t THEN channel[s].deposit ELSE 0])
    /\ \A s \in ChannelSources :
          IsOpen(s) => channel[s].nonce = Max(accepted[s] \cup {0})

=============================================================================
