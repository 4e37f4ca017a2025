-------------------------- MODULE ConsensusRounds --------------------------
(***************************************************************************)
(* Multi-round price confirmation of one asset (consensus_rounds.rs).      *)
(*                                                                         *)
(* A vote's timestamp, carried to the confirmation and compared by nothing *)
(* but the retry test, is left out, and with it the decimals, the ledger   *)
(* stamps of tallies and confirmations and the events.  The sources are    *)
(* the registered ones and the asset stays registered.                     *)
(***************************************************************************)
EXTENDS Naturals, Sequences, FiniteSets, PriceMath

CONSTANTS
    Sources,       \* the registered sources
    Faulty,        \* those that may report any price
    Prices,        \* the prices a vote may carry
    HonestPrices,  \* the prices the other sources observe
    Configs,       \* the RoundConfig values the admin may set
    disabled,      \* RoundConfig::disabled, what an asset starts with
    MaxRound,      \* bound on the round counter
    MaxLedger,     \* bound on ledger time
    MaxVotes,      \* bound on the votes of all rounds together
    MaxReports,    \* bound on the penalties recorded
    None           \* an absent storage entry

MAX_AGREEMENT_BPS == 10000

RoundConfig ==
    {c \in [required_rounds : 1..16, quorum : 1..64, round_ledgers : Nat,
            agreement_bps : 0..MAX_AGREEMENT_BPS] : c.round_ledgers > 0}

ASSUME ConsensusRoundsAssumptions ==
    /\ IsFiniteSet(Sources) /\ Faulty \subseteq Sources
    /\ Prices \subseteq Nat \ {0} /\ HonestPrices \subseteq Prices
    /\ Configs \subseteq RoundConfig /\ disabled \in RoundConfig
    /\ MaxRound \in Nat /\ MaxLedger \in Nat /\ MaxVotes \in Nat /\ MaxReports \in Nat

Rounds == 0..MaxRound

VARIABLES
    ledger,         \* env.ledger().sequence()
    config,         \* ConsensusRoundConfig
    round,          \* ConsensusRoundCounter
    start,          \* ConsensusRoundStart, by round
    votes,          \* ConsensusRoundVoteIndex with ConsensusRoundVote, by round
    tally,          \* ConsensusRoundTally, by round
    confirmed,      \* ConsensusConfirmedPrice
    barred,         \* ConsensusRoundEquivocation: <<round, source>> pairs
    equivocations,  \* ConsensusEquivocationCount, by source
    abandoned       \* ConsensusRoundAbandoned

vars == <<ledger, config, round, start, votes, tally, confirmed, barred,
          equivocations, abandoned>>

Init ==
    /\ ledger = 1
    /\ config = disabled
    /\ round = 0
    /\ start = [r \in Rounds |-> None]
    /\ votes = [r \in Rounds |-> << >>]
    /\ tally = [r \in Rounds |-> None]
    /\ confirmed = None
    /\ barred = {}
    /\ equivocations = [s \in Sources |-> 0]
    /\ abandoned = 0

-----------------------------------------------------------------------------

set_round_config(c) ==
    /\ config' = c
    /\ UNCHANGED <<ledger, round, start, votes, tally, confirmed, barred,
                   equivocations, abandoned>>

\* A round without a start entry (round 0) starts whenever it is asked for.
round_start(r) == IF start[r] = None THEN ledger ELSE start[r]

Expired(r) == ledger > round_start(r) + config.round_ledgers

OpenNextRound ==
    /\ round < MaxRound
    /\ round' = round + 1
    /\ start' = [start EXCEPT ![round + 1] = ledger]
    /\ UNCHANGED <<ledger, config, votes, tally, confirmed, barred, equivocations>>

\* start_round: anyone, at any time.
start_round == OpenNextRound /\ UNCHANGED abandoned

abandon_stalled_round ==
    /\ Expired(round)
    /\ OpenNextRound
    /\ abandoned' = abandoned + 1

\* The observation id commits to the round, the source and the price.
observation_id(r, v) == <<r, v.source, v.price>>

\* The ids bound to a round by its tally (ConsensusRoundEvidenceOwner).
Evidence(r) ==
    IF tally[r] = None THEN {}
    ELSE {observation_id(r, tally[r].sources[i]) : i \in DOMAIN tally[r].sources}

\* try_tally: the first votes, as many as the quorum asks for.
try_tally(vs) ==
    IF Len(vs) < config.quorum THEN None
    ELSE [median  |-> compute_median([i \in 1..config.quorum |-> vs[i].price]),
          sources |-> SubSeq(vs, 1, config.quorum)]

Voted(r, s) == \E i \in DOMAIN votes[r] : votes[r][i].source = s

submit_round_voteRetally(s, r, p) ==   \* slip: an existing tally is computed again
    /\ r = round
    /\ ~Expired(r)
    /\ <<r, s>> \notin barred
    /\ ~Voted(r, s)
    /\ LET v  == [source |-> s, price |-> p, ledger |-> ledger]
           vs == Append(votes[r], v)
       IN  /\ votes' = [votes EXCEPT ![r] = vs]
           /\ tally' = [tally EXCEPT ![r] = try_tally(vs)]
    /\ UNCHANGED <<ledger, config, round, start, confirmed, barred, equivocations, abandoned>>

submit_round_voteAnyRound(s, r, p) ==   \* slip: an earlier round still takes votes
    /\ r <= round
    /\ <<r, s>> \notin barred
    /\ ~Voted(r, s)
    /\ LET vs == Append(votes[r], [source |-> s, price |-> p, ledger |-> ledger])
       IN  /\ votes' = [votes EXCEPT ![r] = vs]
           /\ tally' = [tally EXCEPT ![r] = IF tally[r] = None THEN try_tally(vs) ELSE tally[r]]
    /\ UNCHANGED <<ledger, config, round, start, confirmed, barred, equivocations, abandoned>>

\* An identical retry changes nothing and a second value is refused, so a
\* source that has voted takes no further step in the round.
submit_round_vote(s, r, p) ==
    /\ r = round
    /\ ~Expired(r)
    /\ <<r, s>> \notin barred
    /\ ~Voted(r, s)
    /\ LET v  == [source |-> s, price |-> p, ledger |-> ledger]
           vs == Append(votes[r], v)
       IN  /\ \A q \in Rounds \ {r} : observation_id(r, v) \notin Evidence(q)
           /\ votes' = [votes EXCEPT ![r] = vs]
           /\ tally' = [tally EXCEPT ![r] = IF tally[r] = None THEN try_tally(vs) ELSE tally[r]]
    /\ UNCHANGED <<ledger, config, round, start, confirmed, barred, equivocations, abandoned>>

bps_between(a, b) ==
    LET lo == IF a < b THEN a ELSE b
        hi == IF a < b THEN b ELSE a
        scaled == ((hi - lo) * 10000) \div lo
    IN  IF a = b THEN 0
        ELSE IF lo = 0 \/ scaled > MAX_AGREEMENT_BPS THEN MAX_AGREEMENT_BPS
        ELSE scaled

\* The adjacent spreads of a run of rounds.
Spreads(run) ==
    {bps_between(tally[r].median, tally[r - 1].median) : r \in {q \in run : q - 1 \in run}}

Worst(S) == CHOOSE x \in S \cup {0} : \A y \in S : y <= x

Confirm(run) ==
    /\ \A x \in Spreads(run) : x <= config.agreement_bps
    /\ confirmed' = [price      |-> compute_median([r \in run |-> tally[r].median]),
                     rounds     |-> run,
                     spread_bps |-> Worst(Spreads(run))]
    /\ UNCHANGED <<ledger, config, round, start, votes, tally, barred, equivocations, abandoned>>

finalize_confirmationZero ==   \* slip: the loop does not stop at round 0
    /\ config.required_rounds <= round + 1
    /\ LET run == (round + 1 - config.required_rounds)..round
       IN  /\ \A r \in run : tally[r] # None
           /\ Confirm(run)

finalize_confirmationAnyRun ==   \* slip: the run need not end with the current round
    \E last \in 1..round :
        /\ config.required_rounds <= last
        /\ \A r \in (last + 1 - config.required_rounds)..last : tally[r] # None
        /\ Confirm((last + 1 - config.required_rounds)..last)

\* finalize_confirmation: anyone.  The loop walks down from the current round
\* and stops at round 0 and at the first round without a tally.
finalize_confirmation ==
    /\ config.required_rounds <= round
    /\ LET run == (round + 1 - config.required_rounds)..round
       IN  /\ \A r \in run : tally[r] # None
           /\ Confirm(run)

report_equivocationAgain(s, r) ==   \* slip: a second report counts again
    /\ Voted(r, s)
    /\ barred' = barred \cup {<<r, s>>}
    /\ equivocations[s] <= MaxReports
    /\ equivocations' = [equivocations EXCEPT ![s] = @ + 1]
    /\ UNCHANGED <<ledger, config, round, start, votes, tally, confirmed, abandoned>>
\* report_equivocation: anyone, about any source that has voted in the round.
report_equivocation(s, r) ==
    /\ Voted(r, s)
    /\ <<r, s>> \notin barred
    /\ Cardinality(barred) < MaxReports
    /\ barred' = barred \cup {<<r, s>>}
    /\ equivocations' = [equivocations EXCEPT ![s] = @ + 1]
    /\ UNCHANGED <<ledger, config, round, start, votes, tally, confirmed, abandoned>>

\* The ledger closes.
Tick ==
    /\ ledger < MaxLedger
    /\ ledger' = ledger + 1
    /\ UNCHANGED <<config, round, start, votes, tally, confirmed, barred,
                   equivocations, abandoned>>

-----------------------------------------------------------------------------

\* The price a source reports (environment).
Observations(s) == IF s \in Faulty THEN Prices ELSE HonestPrices

\* The votes of the rounds together, and the bound on them.
Cast == {c \in Rounds \X Sources : Voted(c[1], c[2])}
VotesLeft == Cardinality(Cast) < MaxVotes

Next ==
    \/ \E c \in Configs : set_round_config(c)
    \/ start_round
    \/ abandon_stalled_round
    \/ \E s \in Sources, r \in Rounds : \E p \in Observations(s) :
          VotesLeft /\ submit_round_vote(s, r, p)
    \/ finalize_confirmation
    \/ \E s \in Sources, r \in Rounds : report_equivocation(s, r)
    \/ Tick

Spec == Init /\ [][Next]_vars

-----------------------------------------------------------------------------

RoundVote == [source : Sources, price : Prices, ledger : Nat]
RoundTally == [median : Nat, sources : Seq(RoundVote)]

\* Every stored entry has the type the contract stores.
TypeOK ==
    /\ ledger \in Nat /\ round \in Rounds /\ abandoned \in Nat
    /\ config \in RoundConfig
    /\ start \in [Rounds -> Nat \cup {None}]
    /\ votes \in [Rounds -> Seq(RoundVote)]
    /\ tally \in [Rounds -> RoundTally \cup {None}]
    /\ barred \subseteq Rounds \X Sources
    /\ equivocations \in [Sources -> Nat]
    /\ confirmed \in [price : Nat, rounds : SUBSET Rounds, spread_bps : Nat] \cup {None}

\* A tally is written once (try_tally runs only while there is none): later
\* votes, a later round or a change of the quorum never move it.
TallyIsFinal ==
    [][\A r \in Rounds : tally[r] # None => tally'[r] = tally[r]]_vars

\* A round's votes are cast between its own opening and the opening of the
\* next one, whatever is done to the deadline by set_round_config: evidence of
\* two rounds never overlaps in time (submit_round_vote's current-round test).
RoundsDoNotOverlap ==
    \A r \in 1..round : \A i \in DOMAIN votes[r] :
        /\ start[r] <= votes[r][i].ledger
        /\ r < round => votes[r][i].ledger <= start[r + 1]

\* When fewer than half of a tally's counted votes come from faulty sources,
\* its median lies between two honest prices (try_tally, compute_median).
TallyFollowsHonestMajority ==
    \A r \in Rounds : tally[r] # None =>
        LET vs     == tally[r].sources
            honest == {i \in DOMAIN vs : vs[i].source \notin Faulty}
        IN  2 * Cardinality(honest) > Len(vs) =>
                \E i, j \in honest : vs[i].price <= tally[r].median /\ tally[r].median <= vs[j].price

\* What is confirmed stays backed by the tallies on record: an unbroken run of
\* tallied rounds, each counted from distinct sources, of which it is the
\* median and whose worst adjacent spread it reports (finalize_confirmation).
ConfirmedStandsOnTallies ==
    confirmed # None =>
        LET run == confirmed.rounds
        IN  /\ run # {} /\ 0 \notin run
            /\ \A r, q \in run : r..q \subseteq run
            /\ \A r \in run :
                  /\ tally[r] # None
                  /\ \A i, j \in DOMAIN tally[r].sources :
                        tally[r].sources[i].source = tally[r].sources[j].source => i = j
            /\ confirmed.price = compute_median([r \in run |-> tally[r].median])
            /\ confirmed.spread_bps = Worst(Spreads(run))

\* A confirmation is replaced only by one whose newest round is the current
\* round, and never by one of older rounds.
ConfirmationMovesForward ==
    [][confirmed' # confirmed /\ confirmed # None =>
          /\ round \in confirmed'.rounds
          /\ \A r \in confirmed.rounds : r <= round]_vars

\* A source's lifetime counter equals the number of rounds it is barred from,
\* however often and by however many observers it is reported.
EquivocationCountedOnce ==
    \A s \in Sources :
        equivocations[s] = Cardinality({r \in Rounds : <<r, s>> \in barred})

\* The evidence a round leaves is exact: the votes of two rounds never overlap
\* in time, and a source is penalised once for a round.
EvidenceExact == RoundsDoNotOverlap /\ EquivocationCountedOnce

\* What is on record stands: a tally is final, and a confirmation is replaced
\* only by one of newer rounds.
RecordStands == TallyIsFinal /\ ConfirmationMovesForward

\* docs/consensus-rounds.md on rounds in which 2q - 1 honest sources take part:
\* "an adversary holding f < n/3 sources cannot move the round's median".  Read
\* for quorums above one, the value of an asset in single-round mode.
MedianIsHonest ==
    3 * Cardinality(Faulty) < Cardinality(Sources) =>
        \A r \in Rounds :
            /\ tally[r] # None
            /\ Len(tally[r].sources) > 1
            /\ Cardinality(Sources \ Faulty) >= 2 * Len(tally[r].sources) - 1
            => \E lo, hi \in HonestPrices : lo <= tally[r].median /\ tally[r].median <= hi

=============================================================================
