------------------------ MODULE ConsensusRoundsProofs ------------------------
(***************************************************************************)
(* Confirmation by rounds, for any sources, prices, configurations and     *)
(* bounds.                                                                 *)
(*                                                                         *)
(* What the runs check is not inductive.  The invariant below adds what    *)
(* the code relies on without testing it: a round that was not opened yet  *)
(* holds no vote, openings follow the ledger, a source votes once in a     *)
(* round, and a tally is the median of the votes it names.                 *)
(*                                                                         *)
(* The second half is about one aggregation under layers of policy, for    *)
(* any number of sources and any sequence of settings.  What a round reads *)
(* is PolicyKept; the rest is what the algorithms compute: entries in the  *)
(* interior of a sorted vector lie between two values of others, a fence   *)
(* keeps the quartiles it is built on, each pass of the influence cap      *)
(* lowers weights and the last one holds, and half of the capped weight    *)
(* cannot be the suspect's.                                                *)
(***************************************************************************)
EXTENDS MCConsensusRounds, PriceMathProofs

\* The prices of a sequence of votes.
PricesIn(vs) == [i \in DOMAIN vs |-> vs[i].price]

DistinctSources(vs) ==
    \A i, j \in DOMAIN vs : vs[i].source = vs[j].source => i = j

\* Rounds open in the order of the ledger, and votes wait for the opening.
Openings ==
    /\ \A r \in 1..round : start[r] \in Nat /\ start[r] <= ledger
    /\ \A r \in Rounds : \A i \in DOMAIN votes[r] : votes[r][i].ledger <= ledger
    /\ \A r \in Rounds : r > round => votes[r] = << >>

OneVoteEach == \A r \in Rounds : DistinctSources(votes[r])

\* A tally is the median of at least one vote, each of another source.
Tallied(t) ==
    /\ t.sources \in Seq(RoundVote) /\ Len(t.sources) > 0
    /\ DistinctSources(t.sources)
    /\ t.median = compute_median(PricesIn(t.sources))

TalliesAreMedians == \A r \in Rounds : tally[r] # None => Tallied(tally[r])

\* The rounds of a confirmation are rounds that were opened.
ConfirmedRounds == confirmed # None => \A r \in confirmed.rounds : r <= round

IInv ==
    /\ TypeOK
    /\ Openings
    /\ RoundsDoNotOverlap
    /\ EquivocationCountedOnce
    /\ OneVoteEach
    /\ TalliesAreMedians
    /\ ConfirmedRounds
    /\ ConfirmedStandsOnTallies

-----------------------------------------------------------------------------

LEMMA RoundsAreNaturals == Rounds \subseteq Nat /\ IsFiniteSet(Rounds)
BY FS_Interval, ConsensusRoundsAssumptions DEF Rounds

\* The prices of votes are a family PriceMath can rank.
LEMMA VotesFamily ==
    ASSUME NEW vs \in Seq(RoundVote)
    PROVE  Family(PricesIn(vs)) /\ DOMAIN PricesIn(vs) = 1..Len(vs)
<1>1. DOMAIN PricesIn(vs) = 1..Len(vs) /\ Len(vs) \in Nat
  BY DEF PricesIn
<1>2. IsFiniteSet(1..Len(vs))
  BY <1>1, FS_Interval
<1>3. ASSUME NEW i \in 1..Len(vs)
      PROVE  PricesIn(vs)[i] \in Nat
  <2>1. vs[i] \in RoundVote /\ PricesIn(vs)[i] = vs[i].price
    BY DEF PricesIn
  <2>2. vs[i].price \in Prices
    BY <2>1 DEF RoundVote
  <2> QED  BY <2>1, <2>2, ConsensusRoundsAssumptions
<1> QED  BY <1>1, <1>2, <1>3 DEF Family

\* try_tally makes a tally of the first votes.
LEMMA TryTally ==
    ASSUME config \in RoundConfig, NEW vs \in Seq(RoundVote), DistinctSources(vs),
           try_tally(vs) # None
    PROVE  try_tally(vs) \in RoundTally /\ Tallied(try_tally(vs))
<1> DEFINE q == config.quorum
           t == try_tally(vs)
           us == SubSeq(vs, 1, q)
<1>1. q \in Nat /\ q > 0 /\ q <= Len(vs) /\ Len(vs) \in Nat
  <2>1. q \in 1..64
    BY DEF RoundConfig
  <2>2. ~ (Len(vs) < q)
    BY DEF try_tally
  <2>3. Len(vs) \in Nat
    OBVIOUS
  <2> HIDE DEF q
  <2> QED  BY <2>1, <2>2, <2>3
<1>2. t = [median |-> compute_median([i \in 1..q |-> vs[i].price]), sources |-> us]
  BY <1>1 DEF try_tally
<1> HIDE DEF q
<1>3. us \in Seq(RoundVote) /\ Len(us) = q /\ \A i \in 1..q : us[i] = vs[i]
  BY <1>1
<1>4. DistinctSources(us)
  BY <1>1, <1>3 DEF DistinctSources
<1>5. [i \in 1..q |-> vs[i].price] = PricesIn(us)
  BY <1>1, <1>3 DEF PricesIn
<1>6. compute_median(PricesIn(us)) \in Nat
  <2>1. Family(PricesIn(us)) /\ DOMAIN PricesIn(us) = 1..q
    BY <1>3, VotesFamily
  <2>2. 1 \in 1..q
    BY <1>1
  <2> QED  BY <2>1, <2>2, MedianWithin
<1> HIDE DEF us, t
<1>7. t.median = compute_median(PricesIn(us)) /\ t.sources = us
  BY <1>2, <1>5
<1>8. t \in RoundTally
  BY <1>2, <1>3, <1>5, <1>6 DEF RoundTally
<1>9. Tallied(t)
  BY <1>1, <1>3, <1>4, <1>7 DEF Tallied
<1> QED  BY <1>8, <1>9 DEF t

-----------------------------------------------------------------------------

\* The spread of two prices, in basis points, is a number up to its ceiling.
LEMMA SpreadTyped ==
    ASSUME NEW a \in Nat, NEW b \in Nat
    PROVE  bps_between(a, b) \in Nat
<1> DEFINE lo == IF a < b THEN a ELSE b
           hi == IF a < b THEN b ELSE a
           scaled == ((hi - lo) * 10000) \div lo
<1>1. bps_between(a, b) = IF a = b THEN 0
                          ELSE IF lo = 0 \/ scaled > MAX_AGREEMENT_BPS THEN MAX_AGREEMENT_BPS
                          ELSE scaled
  BY DEF bps_between
<1>2. lo \in Nat /\ hi - lo \in Nat
  OBVIOUS
<1>3. lo # 0 => scaled \in Nat
  <2> DEFINE x == (hi - lo) * 10000
  <2>1. x \in Nat
    BY <1>2
  <2> HIDE DEF x, lo, hi
  <2> QED  BY <1>2, <2>1
<1> HIDE DEF lo, scaled
<1> QED  BY <1>1, <1>3 DEF MAX_AGREEMENT_BPS

\* The worst of the adjacent spreads of a run of tallied rounds is one of them,
\* or zero.
LEMMA WorstSpread ==
    ASSUME NEW run \in SUBSET Rounds, \A r \in run : tally[r].median \in Nat
    PROVE  Worst(Spreads(run)) \in Nat
<1> DEFINE D == {q \in run : q - 1 \in run}
           f == [r \in D |-> bps_between(tally[r].median, tally[r - 1].median)]
           S == Spreads(run)
<1>1. D \in SUBSET Rounds /\ IsFiniteSet(D)
  <2>1. D \in SUBSET Rounds
    OBVIOUS
  <2> QED  BY <2>1, RoundsAreNaturals, FS_Subset
<1>2. \A r \in D : f[r] \in Nat
  BY SpreadTyped
<1>3. S = {f[r] : r \in D} /\ DOMAIN f = D
  BY DEF Spreads
<1>4. Family(f)
  BY <1>1, <1>2, <1>3 DEF Family
<1> HIDE DEF f, D, S
<1>5. \E x \in S \cup {0} : \A y \in S : y <= x
  <2>1. CASE D = {}
    BY <1>3, <2>1
  <2>2. CASE D # {}
    <3>1. PICK j \in D : \A i \in D : f[i] <= f[j]
      BY <1>3, <1>4, <2>2, GreatestExists
    <3> QED  BY <1>3, <3>1
  <2> QED  BY <2>1, <2>2
<1>6. Worst(S) \in S \cup {0}
  BY <1>5 DEF Worst
<1> QED  BY <1>2, <1>3, <1>6 DEF S

LEMMA VoteTyped ==
    ASSUME TypeOK, NEW r \in Rounds, NEW i \in DOMAIN votes[r]
    PROVE  votes[r][i] \in RoundVote /\ votes[r][i].ledger \in Nat
<1>1. votes[r] \in Seq(RoundVote)
  BY DEF TypeOK
<1>2. votes[r][i] \in RoundVote
  BY <1>1
<1> QED  BY <1>2 DEF RoundVote

LEMMA InitInv == Init => IInv
<1> SUFFICES ASSUME Init PROVE IInv
  OBVIOUS
<1>1. TypeOK
  <2>1. 0 \in Rounds /\ << >> \in Seq(RoundVote)
    BY ConsensusRoundsAssumptions DEF Rounds
  <2> QED  BY <2>1, ConsensusRoundsAssumptions DEF Init, TypeOK
<1>2. Openings /\ RoundsDoNotOverlap /\ OneVoteEach
  BY DEF Init, Openings, RoundsDoNotOverlap, OneVoteEach, DistinctSources
<1>3. EquivocationCountedOnce
  <2> SUFFICES ASSUME NEW s \in Sources
               PROVE  equivocations[s] = Cardinality({r \in Rounds : <<r, s>> \in barred})
    BY DEF EquivocationCountedOnce
  <2>1. {r \in Rounds : <<r, s>> \in barred} = {}
    BY DEF Init
  <2> QED  BY <2>1, FS_EmptySet DEF Init
<1>4. TalliesAreMedians /\ ConfirmedRounds /\ ConfirmedStandsOnTallies
  BY DEF Init, TalliesAreMedians, ConfirmedRounds, ConfirmedStandsOnTallies
<1> QED  BY <1>1, <1>2, <1>3, <1>4 DEF IInv

\* A confirmation stays backed as long as the tallies it stands on stay.
LEMMA ConfirmedKept ==
    ASSUME IInv, confirmed' = confirmed,
           \A r \in Rounds : tally[r] # None => tally'[r] = tally[r]
    PROVE  ConfirmedStandsOnTallies'
<1> SUFFICES ASSUME confirmed # None
             PROVE  ConfirmedStandsOnTallies'
  BY DEF ConfirmedStandsOnTallies
<1> DEFINE run == confirmed.rounds
<1>1. run \subseteq Rounds
  BY DEF IInv, TypeOK
<1>2. \A r \in run : tally'[r] = tally[r]
  BY <1>1 DEF IInv, ConfirmedStandsOnTallies
<1>3. [r \in run |-> tally'[r].median] = [r \in run |-> tally[r].median]
  BY <1>2
<1>4. {bps_between(tally'[r].median, tally'[r - 1].median) : r \in {q \in run : q - 1 \in run}}
      = {bps_between(tally[r].median, tally[r - 1].median) : r \in {q \in run : q - 1 \in run}}
  BY <1>2
<1>5. Spreads(run)' = Spreads(run)
  BY <1>4 DEF Spreads
<1> QED  BY <1>2, <1>3, <1>5 DEF IInv, ConfirmedStandsOnTallies

\* What the steps outside the voting leave as it is.
LEMMA EvidenceKept ==
    ASSUME IInv, TypeOK', UNCHANGED <<votes, tally, confirmed, barred, equivocations>>,
           round' \in Nat, round <= round'
    PROVE  /\ EquivocationCountedOnce' /\ OneVoteEach' /\ TalliesAreMedians'
           /\ ConfirmedRounds' /\ ConfirmedStandsOnTallies'
<1>1. EquivocationCountedOnce' /\ OneVoteEach' /\ TalliesAreMedians'
  BY DEF IInv, EquivocationCountedOnce, OneVoteEach, TalliesAreMedians
<1>2. ConfirmedRounds'
  <2>1. confirmed # None => confirmed.rounds \subseteq Nat
    BY RoundsAreNaturals DEF IInv, TypeOK
  <2>2. round \in Nat
    BY RoundsAreNaturals DEF IInv, TypeOK
  <2> QED  BY <2>1, <2>2 DEF IInv, ConfirmedRounds
<1>3. ConfirmedStandsOnTallies'
  BY ConfirmedKept
<1> QED  BY <1>1, <1>2, <1>3

LEMMA ConfigStep ==
    ASSUME IInv, NEW c \in Configs, set_round_config(c)
    PROVE  IInv'
<1>1. TypeOK' /\ round' \in Nat /\ round <= round'
  BY RoundsAreNaturals, ConsensusRoundsAssumptions DEF IInv, TypeOK, set_round_config
<1>2. Openings' /\ RoundsDoNotOverlap'
  BY DEF IInv, Openings, RoundsDoNotOverlap, set_round_config
<1> QED  BY <1>1, <1>2, EvidenceKept DEF IInv, set_round_config

LEMMA TickStep ==
    ASSUME IInv, Tick
    PROVE  IInv'
<1>1. TypeOK' /\ round' \in Nat /\ round <= round' /\ ledger \in Nat /\ ledger' = ledger + 1
  BY RoundsAreNaturals DEF IInv, TypeOK, Tick
<1>2. Openings'
  <2>1. \A r \in Rounds : \A i \in DOMAIN votes[r] : votes[r][i].ledger \in Nat
    BY VoteTyped DEF IInv
  <2> QED  BY <1>1, <2>1 DEF IInv, Openings, Tick
<1>3. RoundsDoNotOverlap'
  BY DEF IInv, RoundsDoNotOverlap, Tick
<1> QED  BY <1>1, <1>2, <1>3, EvidenceKept DEF IInv, Tick

\* The next round opens at the current ledger, after every vote cast so far.
LEMMA OpenStep ==
    ASSUME IInv, OpenNextRound, abandoned' \in Nat
    PROVE  IInv'
<1>1. /\ round \in Nat /\ ledger \in Nat /\ MaxRound \in Nat
      /\ round + 1 \in Rounds /\ round' = round + 1
      /\ Rounds = 0..MaxRound
  BY ConsensusRoundsAssumptions DEF IInv, TypeOK, OpenNextRound, Rounds
<1>2. /\ start' \in [Rounds -> Nat \cup {None}]
      /\ start'[round + 1] = ledger
      /\ \A r \in Rounds : r # round + 1 => start'[r] = start[r]
  BY <1>1 DEF IInv, TypeOK, OpenNextRound
<1>3. TypeOK'
  BY <1>1, <1>2 DEF IInv, TypeOK, OpenNextRound
<1>4. \A r \in 1..round : r \in Rounds /\ r # round + 1
  BY <1>1 DEF IInv, TypeOK
<1>5. Openings'
  <2>1. \A r \in 1..(round + 1) : start'[r] \in Nat /\ start'[r] <= ledger
    BY <1>1, <1>2, <1>4 DEF IInv, Openings
  <2>2. \A r \in Rounds : r > round + 1 => votes[r] = << >>
    BY <1>1 DEF IInv, Openings
  <2> QED  BY <1>1, <2>1, <2>2 DEF IInv, Openings, OpenNextRound
<1>6. RoundsDoNotOverlap'
  <2> SUFFICES ASSUME NEW r \in 1..(round + 1), NEW i \in DOMAIN votes[r]
               PROVE  /\ start'[r] <= votes[r][i].ledger
                      /\ r < round + 1 => votes[r][i].ledger <= start'[r + 1]
    BY <1>1 DEF RoundsDoNotOverlap, OpenNextRound
  <2>1. CASE r = round + 1
    BY <1>1, <2>1 DEF IInv, Openings
  <2>2. CASE r = round
    <3>1. votes[r][i].ledger <= ledger /\ start[r] <= votes[r][i].ledger
      BY <1>1, <1>4, <2>2 DEF IInv, Openings, RoundsDoNotOverlap
    <3> QED  BY <1>1, <1>2, <1>4, <2>2, <3>1
  <2>3. CASE r < round
    <3>1. start[r] <= votes[r][i].ledger /\ votes[r][i].ledger <= start[r + 1]
      BY <1>1, <2>3 DEF IInv, RoundsDoNotOverlap
    <3>2. r \in 1..round /\ r + 1 \in 1..round
      BY <1>1, <2>3
    <3> QED  BY <1>1, <1>2, <1>4, <3>1, <3>2
  <2> QED  BY <1>1, <2>1, <2>2, <2>3
<1> QED  BY <1>1, <1>3, <1>5, <1>6, EvidenceKept DEF IInv, OpenNextRound

\* A vote is the first of its source in the current round; it can complete the
\* round's tally but not touch one.
LEMMA VoteStep ==
    ASSUME IInv, NEW s \in Sources, NEW r \in Rounds, NEW p \in Prices,
           submit_round_vote(s, r, p)
    PROVE  IInv'
<1> DEFINE v == [source |-> s, price |-> p, ledger |-> ledger]
           vs == Append(votes[r], v)
           n == Len(votes[r])
<1>1. /\ r = round /\ r \in Nat /\ ledger \in Nat
      /\ v \in RoundVote /\ votes[r] \in Seq(RoundVote) /\ n \in Nat
      /\ config \in RoundConfig
  <2>1. r = round /\ ledger \in Nat /\ votes[r] \in Seq(RoundVote) /\ config \in RoundConfig
    BY DEF IInv, TypeOK, submit_round_vote
  <2>2. r \in Nat
    BY RoundsAreNaturals
  <2>3. v \in RoundVote
    BY <2>1 DEF RoundVote
  <2> QED  BY <2>1, <2>2, <2>3
<1>2. /\ votes' = [votes EXCEPT ![r] = vs]
      /\ tally' = [tally EXCEPT ![r] = IF tally[r] = None THEN try_tally(vs) ELSE tally[r]]
      /\ \A i \in DOMAIN votes[r] : votes[r][i].source # s
      /\ UNCHANGED <<ledger, config, round, start, confirmed, barred, equivocations, abandoned>>
  BY DEF submit_round_vote, Voted
<1>3. /\ vs \in Seq(RoundVote) /\ Len(vs) = n + 1 /\ vs[n + 1] = v
      /\ \A i \in 1..n : vs[i] = votes[r][i]
      /\ DOMAIN vs = 1..(n + 1) /\ DOMAIN votes[r] = 1..n
  BY <1>1
<1>4. /\ votes'[r] = vs /\ votes' \in [Rounds -> Seq(RoundVote)]
      /\ \A q \in Rounds : q # r => votes'[q] = votes[q]
  BY <1>2, <1>3 DEF IInv, TypeOK
<1> HIDE DEF vs
<1>5. DistinctSources(vs)
  <2>1. DistinctSources(votes[r])
    BY DEF IInv, OneVoteEach
  <2>2. v.source = s
    OBVIOUS
  <2> HIDE DEF v, n
  <2> SUFFICES ASSUME NEW i \in 1..(n + 1), NEW j \in 1..(n + 1), vs[i].source = vs[j].source
               PROVE  i = j
    BY <1>3 DEF DistinctSources
  <2>3. CASE i = n + 1 /\ j # n + 1
    BY <1>1, <1>2, <1>3, <2>2, <2>3
  <2>4. CASE j = n + 1 /\ i # n + 1
    BY <1>1, <1>2, <1>3, <2>2, <2>4
  <2>5. CASE i # n + 1 /\ j # n + 1
    <3>1. i \in 1..n /\ j \in 1..n
      BY <1>1, <2>5
    <3> QED  BY <1>3, <2>1, <3>1 DEF DistinctSources
  <2> QED  BY <2>3, <2>4, <2>5
<1>6. try_tally(vs) # None => try_tally(vs) \in RoundTally /\ Tallied(try_tally(vs))
  BY <1>1, <1>3, <1>5, TryTally
<1>7. TypeOK'
  <2>1. tally' \in [Rounds -> RoundTally \cup {None}]
    BY <1>2, <1>6 DEF IInv, TypeOK
  <2> QED  BY <1>2, <1>4, <2>1 DEF IInv, TypeOK
<1>8. \A i \in DOMAIN vs : (i \in DOMAIN votes[r] /\ vs[i] = votes[r][i]) \/ vs[i] = v
  BY <1>1, <1>3
<1>9. v.ledger = ledger
  OBVIOUS
<1> HIDE DEF v, n
<1>10. Openings'
  <2>1. \A i \in DOMAIN vs : vs[i].ledger <= ledger
    BY <1>1, <1>8, <1>9 DEF IInv, Openings
  <2>2. \A q \in Rounds : \A i \in DOMAIN votes'[q] : votes'[q][i].ledger <= ledger
    BY <1>4, <2>1 DEF IInv, Openings
  <2>3. \A q \in Rounds : q > round => votes'[q] = << >>
    BY <1>1, <1>4 DEF IInv, Openings
  <2> QED  BY <1>2, <2>2, <2>3 DEF IInv, Openings
<1>11. RoundsDoNotOverlap'
  <2> SUFFICES ASSUME NEW q \in 1..round, NEW i \in DOMAIN votes'[q]
               PROVE  /\ start[q] <= votes'[q][i].ledger
                      /\ q < round => votes'[q][i].ledger <= start[q + 1]
    BY <1>2 DEF RoundsDoNotOverlap
  <2>1. q \in Rounds
    BY <1>1, ConsensusRoundsAssumptions DEF Rounds
  <2>2. CASE q # r
    BY <1>4, <2>1, <2>2 DEF IInv, RoundsDoNotOverlap
  <2>3. CASE q = r
    <3>1. start[q] <= ledger
      BY DEF IInv, Openings
    <3> QED  BY <1>1, <1>4, <1>8, <1>9, <2>3, <3>1 DEF IInv, RoundsDoNotOverlap
  <2> QED  BY <2>2, <2>3
<1>12. EquivocationCountedOnce' /\ ConfirmedRounds'
  BY <1>2 DEF IInv, EquivocationCountedOnce, ConfirmedRounds
<1>13. OneVoteEach'
  BY <1>4, <1>5 DEF IInv, OneVoteEach
<1>14. TalliesAreMedians'
  BY <1>2, <1>6 DEF IInv, TypeOK, TalliesAreMedians
<1>15. ConfirmedStandsOnTallies'
  <2>1. \A q \in Rounds : tally[q] # None => tally'[q] = tally[q]
    BY <1>2 DEF IInv, TypeOK
  <2> QED  BY <1>2, <2>1, ConfirmedKept
<1> QED  BY <1>7, <1>10, <1>11, <1>12, <1>13, <1>14, <1>15 DEF IInv

\* A report bars a source from one more round and counts one more.
LEMMA ReportStep ==
    ASSUME IInv, NEW s \in Sources, NEW r \in Rounds, report_equivocation(s, r)
    PROVE  IInv'
<1> DEFINE Barred(t) == {q \in Rounds : <<q, t>> \in barred}
<1>1. /\ <<r, s>> \notin barred
      /\ barred' = barred \cup {<<r, s>>}
      /\ equivocations' = [equivocations EXCEPT ![s] = @ + 1]
      /\ UNCHANGED <<ledger, config, round, start, votes, tally, confirmed, abandoned>>
  BY DEF report_equivocation
<1>2. TypeOK'
  BY <1>1 DEF IInv, TypeOK
<1>3. EquivocationCountedOnce'
  <2> SUFFICES ASSUME NEW t \in Sources
               PROVE  equivocations'[t] = Cardinality({q \in Rounds : <<q, t>> \in barred'})
    BY DEF EquivocationCountedOnce
  <2>1. equivocations[t] = Cardinality(Barred(t))
    BY DEF IInv, EquivocationCountedOnce
  <2>2. CASE t # s
    <3>1. {q \in Rounds : <<q, t>> \in barred'} = Barred(t)
      BY <1>1, <2>2
    <3> QED  BY <1>1, <2>1, <2>2, <3>1 DEF IInv, TypeOK
  <2>3. CASE t = s
    <3>1. {q \in Rounds : <<q, t>> \in barred'} = Barred(t) \cup {r} /\ r \notin Barred(t)
      BY <1>1, <2>3
    <3>2. IsFiniteSet(Barred(t))
      <4>1. Barred(t) \in SUBSET Rounds
        OBVIOUS
      <4> QED  BY <4>1, RoundsAreNaturals, FS_Subset
    <3>3. Cardinality(Barred(t) \cup {r}) = Cardinality(Barred(t)) + 1
      <4> HIDE DEF Barred
      <4> QED  BY <3>1, <3>2, FS_AddElement
    <3> QED  BY <1>1, <2>1, <2>3, <3>1, <3>3 DEF IInv, TypeOK
  <2> QED  BY <2>2, <2>3
<1>4. Openings' /\ RoundsDoNotOverlap'
  BY <1>1 DEF IInv, Openings, RoundsDoNotOverlap
<1>5. OneVoteEach' /\ TalliesAreMedians' /\ ConfirmedRounds'
  BY <1>1 DEF IInv, OneVoteEach, TalliesAreMedians, ConfirmedRounds
<1>6. ConfirmedStandsOnTallies'
  BY <1>1, ConfirmedKept
<1> QED  BY <1>2, <1>3, <1>4, <1>5, <1>6 DEF IInv

\* A confirmation is made of the tallies of the newest rounds.
LEMMA FinalizeStep ==
    ASSUME IInv, finalize_confirmation
    PROVE  IInv' /\ round \in confirmed'.rounds
<1> DEFINE n == config.required_rounds
           run == (round + 1 - n)..round
           medians == [r \in run |-> tally[r].median]
<1>1. n \in Nat /\ n > 0 /\ n <= round /\ round \in Nat /\ round <= MaxRound /\ MaxRound \in Nat
  <2>1. n \in 1..16
    BY DEF IInv, TypeOK, RoundConfig
  <2>2. n <= round
    BY DEF finalize_confirmation
  <2>3. round \in 0..MaxRound /\ MaxRound \in Nat
    BY ConsensusRoundsAssumptions DEF IInv, TypeOK, Rounds
  <2> HIDE DEF n
  <2> QED  BY <2>1, <2>2, <2>3
<1>2. /\ \A r \in run : tally[r] # None
      /\ confirmed' = [price |-> compute_median(medians), rounds |-> run,
                       spread_bps |-> Worst(Spreads(run))]
      /\ UNCHANGED <<ledger, config, round, start, votes, tally, barred, equivocations, abandoned>>
  BY DEF finalize_confirmation, Confirm
<1> HIDE DEF n
<1>3. run \subseteq Rounds /\ run # {} /\ 0 \notin run /\ round \in run
  BY <1>1 DEF Rounds
<1>4. \A r, q \in run : r..q \subseteq run
  BY <1>1
<1>5. \A r \in run : r <= round
  BY <1>1
<1>6. \A r \in run : Tallied(tally[r]) /\ tally[r] \in RoundTally /\ tally[r].median \in Nat
  <2> TAKE r \in run
  <2>1. tally[r] \in RoundTally /\ Tallied(tally[r])
    BY <1>2, <1>3 DEF IInv, TypeOK, TalliesAreMedians
  <2>2. tally[r].median \in Nat
    BY <2>1 DEF RoundTally
  <2> QED  BY <2>1, <2>2
<1> HIDE DEF run
<1>7. compute_median(medians) \in Nat
  <2>1. IsFiniteSet(run)
    BY <1>3, RoundsAreNaturals, FS_Subset
  <2>2. Family(medians) /\ DOMAIN medians # {}
    BY <1>3, <1>6, <2>1 DEF Family
  <2> HIDE DEF medians
  <2> QED  BY <2>2, MedianWithin
<1>8. Worst(Spreads(run)) \in Nat
  BY <1>3, <1>6, WorstSpread
<1>9. TypeOK'
  BY <1>2, <1>3, <1>7, <1>8 DEF IInv, TypeOK
<1>10. Openings' /\ RoundsDoNotOverlap' /\ EquivocationCountedOnce'
  BY <1>2 DEF IInv, Openings, RoundsDoNotOverlap, EquivocationCountedOnce
<1>11. OneVoteEach' /\ TalliesAreMedians' /\ ConfirmedRounds'
  BY <1>2, <1>5 DEF IInv, OneVoteEach, TalliesAreMedians, ConfirmedRounds
<1>12. ConfirmedStandsOnTallies'
  <2>1. PICK R : R = run
    OBVIOUS
  <2>2. \A r \in R : \A i, j \in DOMAIN tally[r].sources :
           tally[r].sources[i].source = tally[r].sources[j].source => i = j
    BY <1>6, <2>1 DEF Tallied, DistinctSources
  <2>3. Spreads(R)' = Spreads(R)
    BY <1>2 DEF Spreads
  <2>4. [r \in R |-> tally[r].median]' = medians
    BY <1>2, <2>1
  <2>5. /\ confirmed'.rounds = R /\ confirmed'.price = compute_median(medians)
        /\ confirmed'.spread_bps = Worst(Spreads(R))
    BY <1>2, <2>1
  <2> HIDE DEF medians
  <2> QED  BY <1>2, <1>3, <1>4, <2>1, <2>2, <2>3, <2>4, <2>5 DEF ConfirmedStandsOnTallies
<1> QED  BY <1>2, <1>3, <1>9, <1>10, <1>11, <1>12 DEF IInv

LEMMA NextInv == IInv /\ [Next]_vars => IInv'
<1> SUFFICES ASSUME IInv, [Next]_vars PROVE IInv'
  OBVIOUS
<1>1. CASE \E c \in Configs : set_round_config(c)
  BY <1>1, ConfigStep
<1>2. CASE start_round \/ abandon_stalled_round
  <2>1. OpenNextRound /\ abandoned' \in Nat
    BY <1>2 DEF start_round, abandon_stalled_round, IInv, TypeOK
  <2> QED  BY <2>1, OpenStep
<1>3. CASE \E s \in Sources, r \in Rounds : \E p \in Observations(s) :
             VotesLeft /\ submit_round_vote(s, r, p)
  <2>1. \A s \in Sources : Observations(s) \subseteq Prices
    BY ConsensusRoundsAssumptions DEF Observations
  <2> QED  BY <1>3, <2>1, VoteStep
<1>4. CASE finalize_confirmation
  BY <1>4, FinalizeStep
<1>5. CASE \E s \in Sources, r \in Rounds : report_equivocation(s, r)
  BY <1>5, ReportStep
<1>6. CASE Tick
  BY <1>6, TickStep
<1>7. CASE UNCHANGED vars
  <2>1. TypeOK' /\ round' \in Nat /\ round <= round'
    BY <1>7, RoundsAreNaturals DEF IInv, TypeOK, vars
  <2>2. Openings' /\ RoundsDoNotOverlap'
    BY <1>7 DEF IInv, Openings, RoundsDoNotOverlap, vars
  <2> QED  BY <1>7, <2>1, <2>2, EvidenceKept DEF IInv, vars
<1> QED  BY <1>1, <1>2, <1>3, <1>4, <1>5, <1>6, <1>7 DEF Next

LEMMA Inductive == Spec => []IInv
BY InitInv, NextInv, PTL DEF Spec

\* The evidence of two rounds never overlaps in time and a source is counted
\* once for a round, whatever set_round_config does to the deadlines and
\* however often a source is reported (submit_round_vote, report_equivocation).
THEOREM EvidenceIsExact == Spec => []EvidenceExact
<1>1. IInv => EvidenceExact
  BY DEF IInv, EvidenceExact
<1> QED  BY <1>1, Inductive, PTL

\* A tally whose counted votes are honest in their majority lies between two
\* honest prices, for every quorum and every set of sources (try_tally).
THEOREM TallyIsHonest == Spec => []TallyFollowsHonestMajority
<1>1. IInv => TallyFollowsHonestMajority
  <2> SUFFICES ASSUME IInv, NEW r \in Rounds, tally[r] # None
               PROVE  LET vs     == tally[r].sources
                          honest == {i \in DOMAIN vs : vs[i].source \notin Faulty}
                      IN  2 * Cardinality(honest) > Len(vs) =>
                            \E i, j \in honest :
                               vs[i].price <= tally[r].median /\ tally[r].median <= vs[j].price
    BY DEF TallyFollowsHonestMajority
  <2> DEFINE vs == tally[r].sources
             honest == {i \in DOMAIN vs : vs[i].source \notin Faulty}
             f == PricesIn(vs)
             g == [i \in honest |-> f[i]]
  <2> SUFFICES ASSUME 2 * Cardinality(honest) > Len(vs)
               PROVE  \E i, j \in honest :
                         vs[i].price <= tally[r].median /\ tally[r].median <= vs[j].price
    OBVIOUS
  <2>1. vs \in Seq(RoundVote) /\ Len(vs) > 0 /\ tally[r].median = compute_median(f)
    BY DEF IInv, TalliesAreMedians, Tallied
  <2>2. /\ Family(f) /\ DOMAIN f = 1..Len(vs) /\ DOMAIN f # {} /\ DOMAIN vs = DOMAIN f
        /\ \A i \in DOMAIN vs : f[i] = vs[i].price
    <3>1. Family(f) /\ DOMAIN f = 1..Len(vs)
      BY <2>1, VotesFamily
    <3>2. 1 \in 1..Len(vs) /\ DOMAIN vs = 1..Len(vs)
      BY <2>1
    <3>3. \A i \in DOMAIN vs : f[i] = vs[i].price
      BY DEF PricesIn
    <3> HIDE DEF vs, f
    <3> QED  BY <3>1, <3>2, <3>3
  <2>3. honest \in SUBSET DOMAIN f /\ Len(vs) \in Nat /\ Cardinality(DOMAIN f) = Len(vs)
    <3>1. honest \in SUBSET DOMAIN f /\ Len(vs) \in Nat
      BY <2>1, <2>2
    <3>2. Cardinality(1..Len(vs)) = Len(vs)
      <4>1. \A n \in Nat : Cardinality(1..n) = n
        <5> TAKE n \in Nat
        <5>1. Cardinality(1..n) = IF 1 > n THEN 0 ELSE n - 1 + 1
          BY FS_Interval
        <5> QED  BY <5>1
      <4> HIDE DEF vs
      <4> QED  BY <3>1, <4>1
    <3> HIDE DEF honest, f, vs
    <3> QED  BY <2>2, <3>1, <3>2
  <2>4. Family(g) /\ DOMAIN g = honest
    <3>1. IsFiniteSet(honest)
      BY <2>2, <2>3, FS_Subset DEF Family
    <3> QED  BY <2>2, <2>3, <3>1 DEF Family
  <2>5. honest # {}
    <3> SUFFICES ASSUME honest = {}
                 PROVE  FALSE
      OBVIOUS
    <3>1. Cardinality(honest) = 0
      BY FS_EmptySet
    <3>2. 2 * Cardinality(honest) > Len(vs) /\ Len(vs) \in Nat
      BY <2>3
    <3> HIDE DEF honest, vs
    <3> QED  BY <3>1, <3>2
  <2> HIDE DEF honest, f, vs
  <2>6. PICK j \in honest : \A i \in honest : g[i] <= g[j]
    BY <2>4, <2>5, GreatestExists
  <2>7. PICK k \in honest : \A i \in honest : g[k] <= g[i]
    <3> DEFINE S == {g[i] : i \in honest}
    <3>1. S \in SUBSET Nat /\ S # {}
      BY <2>4, <2>5 DEF Family
    <3>2. PICK m \in S : \A x \in S : m <= x
      BY <3>1, LeastNatural
    <3> QED  BY <3>2
  <2>8. f[k] <= compute_median(f) /\ compute_median(f) <= f[j]
    <3>1. f[k] \in Nat /\ f[j] \in Nat /\ \A i \in honest : f[k] <= f[i] /\ f[i] <= f[j]
      BY <2>2, <2>3, <2>6, <2>7 DEF Family
    <3> QED  BY <2>2, <2>3, <3>1, MedianFollowsMajority
  <2> QED  BY <2>1, <2>2, <2>3, <2>8
<1> QED  BY <1>1, Inductive, PTL

\* A confirmation stays backed by an unbroken run of tallies of distinct
\* sources, whatever rounds are opened or configured after it
\* (finalize_confirmation).
THEOREM ConfirmationIsBacked == Spec => []ConfirmedStandsOnTallies
<1>1. IInv => ConfirmedStandsOnTallies
  BY DEF IInv
<1> QED  BY <1>1, Inductive, PTL

\* Tallies are final and confirmations move forward, under any interleaving of
\* votes, reports, openings and configuration changes.
THEOREM RecordIsFinal == Spec => RecordStands
<1>1. IInv /\ [Next]_vars => [\A r \in Rounds : tally[r] # None => tally'[r] = tally[r]]_vars
  BY DEF Next, vars, set_round_config, start_round, abandon_stalled_round, OpenNextRound,
         submit_round_vote, finalize_confirmation, Confirm, report_equivocation, Tick, IInv, TypeOK
<1>2. IInv /\ [Next]_vars =>
        [confirmed' # confirmed /\ confirmed # None =>
           /\ round \in confirmed'.rounds
           /\ \A r \in confirmed.rounds : r <= round]_vars
  <2> SUFFICES ASSUME IInv, Next, confirmed' # confirmed, confirmed # None
               PROVE  /\ round \in confirmed'.rounds
                      /\ \A r \in confirmed.rounds : r <= round
    OBVIOUS
  <2>1. finalize_confirmation
    BY DEF Next, set_round_config, start_round, abandon_stalled_round, OpenNextRound,
           submit_round_vote, report_equivocation, Tick
  <2> QED  BY <2>1, FinalizeStep DEF IInv, ConfirmedRounds
<1> QED  BY <1>1, <1>2, Inductive, PTL DEF Spec, RecordStands, TallyIsFinal, ConfirmationMovesForward

-----------------------------------------------------------------------------
(* The arithmetic of a round of aggregation *)

\* AggregationPolicy has the ranks of PriceMath and the sums of PriceMathProofs.
LEMMA SameCount == \A S : Policy!Cardinality(S) = Cardinality(S)
BY Zenon DEF Policy!Cardinality, Cardinality

LEMMA SameRanks ==
    ASSUME NEW f
    PROVE  /\ \A v : Policy!Below(f, v) = Below(f, v) /\ Policy!AtMost(f, v) = AtMost(f, v)
           /\ \A k : Policy!select_kth(f, k) = select_kth(f, k)
<1>1. \A v : Policy!Below(f, v) = Below(f, v) /\ Policy!AtMost(f, v) = AtMost(f, v)
  BY DEF Policy!Below, Policy!AtMost, Below, AtMost
<1>2. ASSUME NEW k, NEW v
      PROVE  Policy!IsKth(f, k, v) = IsKth(f, k, v)
  <2>1. /\ Policy!Cardinality(Policy!Below(f, v)) = Cardinality(Below(f, v))
        /\ Policy!Cardinality(Policy!AtMost(f, v)) = Cardinality(AtMost(f, v))
    BY <1>1, SameCount
  <2> QED  BY <2>1 DEF Policy!IsKth, IsKth
<1>3. ASSUME NEW k
      PROVE  Policy!select_kth(f, k) = select_kth(f, k)
  BY <1>2, Zenon DEF Policy!select_kth, select_kth
<1> QED  BY <1>1, <1>3

LEMMA SameMedian ==
    ASSUME NEW f
    PROVE  Policy!compute_median(f) = compute_median(f)
BY SameRanks, SameCount, Zenon DEF Policy!compute_median, compute_median

LEMMA SameTotal ==
    ASSUME NEW f, NEW S
    PROVE  Policy!Total(f, S) = SumOver(f, S)
BY DEF Policy!Total, Policy!MapThenSumSet, Policy!MapThenFoldSet, SumOver, Summing, SumStep

\* The prices of f lie between lo and hi.
AllIn(f, lo, hi) == \A i \in DOMAIN f : lo <= f[i] /\ f[i] <= hi

\* A family to take a price of: finite, not empty, within lo and hi.
Quoted(f, lo, hi) ==
    /\ f \in [DOMAIN f -> Nat] /\ IsFiniteSet(DOMAIN f) /\ DOMAIN f # {}
    /\ lo \in Nat /\ hi \in Nat /\ AllIn(f, lo, hi)

LEMMA QuotedCount ==
    ASSUME NEW f, NEW lo, NEW hi, Quoted(f, lo, hi)
    PROVE  Cardinality(DOMAIN f) \in Nat \ {0} /\ IsFiniteSet(DOMAIN f) /\ Family(f)
BY FS_CardinalityType, FS_EmptySet DEF Quoted, Family

\* A quotient of sums lies within the bounds of the terms, each counted as often
\* as its weight says.
LEMMA QuotientInside ==
    ASSUME NEW S, IsFiniteSet(S), NEW v \in [S -> Int], NEW g \in [S -> Int],
           NEW lo \in Nat, NEW hi \in Nat, SumOver(g, S) \in Nat \ {0},
           \A i \in S : lo * g[i] <= v[i] /\ v[i] <= hi * g[i]
    PROVE  SumOver(v, S) \div SumOver(g, S) \in lo..hi
<1>1. PICK A : Additive(v, S, A) /\ SumOver(v, S) = A[S]
  BY SumIsAdditive
<1>2. PICK G : Additive(g, S, G) /\ SumOver(g, S) = G[S]
  BY SumIsAdditive
<1>3. PICK W \in Nat \ {0} : W = G[S]
  BY <1>2
<1>4. A[S] \div W <= hi
  BY <1>1, <1>2, <1>3, MeanBelow
<1>5. lo <= A[S] \div W
  BY <1>1, <1>2, <1>3, MeanAbove
<1>6. A[S] \div W \in Int
  BY <1>1, DivLaw DEF Additive
<1> QED  BY <1>1, <1>2, <1>3, <1>4, <1>5, <1>6

LEMMA MeanInside ==
    ASSUME NEW f, NEW lo, NEW hi, Quoted(f, lo, hi)
    PROVE  Policy!compute_mean(f) \in lo..hi
<1>1. PICK S : S = DOMAIN f
  OBVIOUS
<1>2. PICK g : g = [i \in S |-> 1]
  OBVIOUS
<1>3. f \in [S -> Int] /\ g \in [S -> Int] /\ IsFiniteSet(S) /\ Cardinality(S) \in Nat \ {0}
  BY <1>1, <1>2, QuotedCount DEF Quoted, Family
<1>4. SumOver(g, S) = Cardinality(S)
  <2>1. PICK G : Additive(g, S, G) /\ SumOver(g, S) = G[S]
    BY <1>3, SumIsAdditive
  <2>2. S \in SUBSET S /\ \A i \in S : g[i] = IF i \in S THEN 1 ELSE 0
    BY <1>2
  <2> QED  BY <1>3, <2>1, <2>2, SumCounts
<1>5. SumOver(f, S) \div SumOver(g, S) \in lo..hi
  <2>1. lo \in Nat /\ hi \in Nat /\ \A i \in S : lo * g[i] <= f[i] /\ f[i] <= hi * g[i]
    BY <1>1, <1>2 DEF Quoted, AllIn, Family
  <2> QED  BY <1>3, <1>4, <2>1, QuotientInside
<1> QED  BY <1>1, <1>4, <1>5, SameTotal, SameCount DEF Policy!compute_mean, Policy!Count

\* The sorted vector: every entry has its rank, and entries rise.
LEMMA SortedRanks ==
    ASSUME NEW f, NEW lo, NEW hi, Quoted(f, lo, hi), NEW s, s = Policy!Sorted(f),
           NEW n, n = Cardinality(DOMAIN f)
    PROVE  /\ n \in Nat \ {0} /\ DOMAIN s = 0..(n - 1)
           /\ \A k \in 0..(n - 1) : s[k] \in Nat /\ IsKth(f, k, s[k])
           /\ \A k, m \in 0..(n - 1) : k <= m => s[k] <= s[m]
           /\ Quoted(s, lo, hi)
<1>1. n \in Nat \ {0} /\ Family(f)
  BY QuotedCount
<1>2. s = [k \in 0..(n - 1) |-> select_kth(f, k)]
  BY SameRanks, SameCount DEF Policy!Sorted, Policy!Count
<1>3. DOMAIN s = 0..(n - 1)
  BY <1>2
<1>4. ASSUME NEW k \in 0..(n - 1)
      PROVE  s[k] \in Nat /\ IsKth(f, k, s[k])
  <2>1. k \in Nat /\ k < n
    BY <1>1, <1>4
  <2> QED  BY <1>1, <1>2, <1>4, <2>1, SelectKth
<1>5. ASSUME NEW k \in 0..(n - 1), NEW m \in 0..(n - 1), k <= m
      PROVE  s[k] <= s[m]
  <2>1. k \in Nat /\ m \in Nat
    BY <1>1, <1>5
  <2>2. s[k] \in Nat /\ IsKth(f, k, s[k]) /\ s[m] \in Nat /\ IsKth(f, m, s[m])
    BY <1>4, <1>5
  <2> QED  BY <1>1, <1>5, <2>1, <2>2, KthMonotone
<1>6. Quoted(s, lo, hi)
  <2>1. IsFiniteSet(0..(n - 1)) /\ 0 \in 0..(n - 1)
    <3>1. PICK m \in Int : m = n - 1
      BY <1>1
    <3>2. IsFiniteSet(0..m)
      BY FS_Interval
    <3> QED  BY <1>1, <3>1, <3>2
  <2>2. \A k \in 0..(n - 1) : lo <= s[k] /\ s[k] <= hi
    BY <1>4 DEF IsKth, Quoted, AllIn
  <2>3. s \in [0..(n - 1) -> Nat]
    BY <1>2, <1>3, <1>4
  <2> QED  BY <1>3, <2>1, <2>2, <2>3 DEF Quoted, AllIn
<1> QED  BY <1>1, <1>3, <1>4, <1>5, <1>6

\* Part of a family is a family.
LEMMA PartQuoted ==
    ASSUME NEW f, NEW lo, NEW hi, Quoted(f, lo, hi), NEW S \in SUBSET DOMAIN f, S # {}
    PROVE  Quoted(Policy!Only(f, S), lo, hi) /\ DOMAIN Policy!Only(f, S) = S
<1>1. IsFiniteSet(S)
  BY FS_Subset DEF Quoted
<1> QED  BY <1>1 DEF Quoted, AllIn, Policy!Only

\* The indices left when t are cut off at each end.
Inner(I, t) ==
    {i \in I : /\ Cardinality({j \in I : j < i}) >= t
               /\ Cardinality({j \in I : j > i}) >= t}

\* Fewer than half cut off at each end leave something.
LEMMA InnerLeft ==
    ASSUME NEW n \in Nat, NEW I \in SUBSET (0..n), NEW t \in Nat, 2 * t < Cardinality(I)
    PROVE  Inner(I, t) # {}
<1>1. IsFiniteSet(0..n) /\ IsFiniteSet(I)
  <2>1. IsFiniteSet(0..n)
    BY FS_Interval
  <2> QED  BY <2>1, FS_Subset
<1>2. PICK f : f = [i \in I |-> i]
  OBVIOUS
<1>3. Family(f) /\ DOMAIN f = I
  BY <1>1, <1>2 DEF Family
<1>4. Cardinality(I) \in Nat
  BY <1>1, FS_CardinalityType
<1>5. PICK v \in {f[i] : i \in DOMAIN f} : IsKth(f, t, v)
  BY <1>3, <1>4, KthExists
<1>6. v \in I /\ v \in Int
  BY <1>2, <1>3, <1>5
<1>7. Below(f, v) = {j \in I : j < v} /\ AtMost(f, v) = {j \in I : j < v} \cup {v}
  <2>1. \A i \in I : f[i] = i /\ i \in Int
    BY <1>2
  <2>2. \A i : i \in Below(f, v) <=> i \in {j \in I : j < v}
    BY <1>3, <2>1 DEF Below
  <2>3. \A i : i \in AtMost(f, v) <=> i \in {j \in I : j < v} \cup {v}
    <3>1. \A i \in I : f[i] <= v <=> (i < v \/ i = v)
      BY <1>6, <2>1
    <3> QED  BY <1>3, <1>6, <3>1, Zenon DEF AtMost
  <2> QED  BY <2>2, <2>3
<1>8. PICK L : L = {j \in I : j < v}
  OBVIOUS
<1>9. PICK H : H = {j \in I : j > v}
  OBVIOUS
<1>10. IsFiniteSet(L) /\ IsFiniteSet(H) /\ v \notin L
  BY <1>1, <1>8, <1>9, FS_Subset, <1>6
<1>11. Cardinality(L \cup {v}) = Cardinality(L) + 1 /\ Cardinality(L) \in Nat /\ Cardinality(H) \in Nat
  BY <1>10, FS_AddElement, FS_CardinalityType
<1>12. Cardinality(L) = t
  BY <1>5, <1>7, <1>8, <1>11 DEF IsKth
<1>13. I = (L \cup {v}) \cup H /\ (L \cup {v}) \cap H = {} /\ IsFiniteSet(L \cup {v})
  <2>1. \A i \in I : i \in Int /\ (i < v \/ i = v \/ i > v)
    BY <1>6
  <2>2. \A i : i \in I <=> i \in (L \cup {v}) \cup H
    BY <1>6, <1>8, <1>9, <2>1
  <2>3. \A i \in L \cup {v} : i \notin H
    BY <1>6, <1>8, <1>9, <2>1
  <2> QED  BY <1>10, <2>2, <2>3, FS_AddElement
<1>14. Cardinality(I) = Cardinality(L \cup {v}) + Cardinality(H)
  <2>1. PICK M : M = L \cup {v}
    OBVIOUS
  <2>2. IsFiniteSet(M) /\ IsFiniteSet(H) /\ M \cap H = {} /\ I = M \cup H
    BY <1>10, <1>13, <2>1
  <2>3. Cardinality(M \cup H) = Cardinality(M) + Cardinality(H) - Cardinality(M \cap H)
    BY <2>2, FS_Union
  <2>4. Cardinality(M \cap H) = 0
    BY <2>2, FS_EmptySet
  <2> QED  BY <1>11, <2>1, <2>2, <2>3, <2>4
<1>15. Cardinality(H) >= t
  BY <1>11, <1>12, <1>14
<1> QED  BY <1>6, <1>8, <1>9, <1>12, <1>15 DEF Inner

\* A sum of natural numbers is not negative.
LEMMA SumNotNegative ==
    ASSUME NEW S, IsFiniteSet(S), NEW w \in [S -> Int], \A i \in S : 0 <= w[i],
           NEW A, Additive(w, S, A), NEW T \in SUBSET S
    PROVE  A[T] \in Int /\ 0 <= A[T]
<1>1. A[T] \in Int
  BY DEF Additive
<1>2. PICK one \in Int, nil \in Int : one = 1 /\ nil = 0
  OBVIOUS
<1>3. PICK z : z = [i \in S |-> 0]
  OBVIOUS
<1>4. z \in [S -> Int]
  BY <1>3
<1>5. PICK Z : Additive(z, S, Z) /\ SumOver(z, S) = Z[S]
  BY <1>4, SumIsAdditive
<1>6. Z[T] \in Int
  BY <1>5 DEF Additive
<1>7. TermsBound(T, nil, z, one, w, nil, z)
  BY <1>2, <1>3 DEF TermsBound
<1>8. nil * Z[T] <= one * A[T] + nil * Z[T]
  BY <1>4, <1>5, <1>7, SumBound
<1> QED  BY <1>1, <1>2, <1>6, <1>8


LEMMA TrimmedIsInner ==
    ASSUME NEW s, NEW t
    PROVE  Policy!Trimmed(s, t) = Policy!Only(s, Inner(DOMAIN s, t))
BY SameCount, Zenon DEF Policy!Trimmed, Inner

LEMMA TrimmedQuoted ==
    ASSUME NEW s, NEW lo, NEW hi, Quoted(s, lo, hi), NEW n \in Nat, DOMAIN s \in SUBSET (0..n),
           NEW t \in Nat, 2 * t < Cardinality(DOMAIN s)
    PROVE  /\ Quoted(Policy!Trimmed(s, t), lo, hi)
           /\ DOMAIN Policy!Trimmed(s, t) = Inner(DOMAIN s, t)
<1>1. Inner(DOMAIN s, t) # {} /\ Inner(DOMAIN s, t) \in SUBSET DOMAIN s
  <2>1. Inner(DOMAIN s, t) # {}
    BY InnerLeft
  <2> QED  BY <2>1 DEF Inner
<1> QED  BY <1>1, PartQuoted, TrimmedIsInner

LEMMA TrimmedMeanInside ==
    ASSUME NEW f, NEW lo, NEW hi, Quoted(f, lo, hi)
    PROVE  Policy!compute_trimmed_mean(f) \in lo..hi
<1>1. PICK s : s = Policy!Sorted(f)
  OBVIOUS
<1>2. PICK n : n = Cardinality(DOMAIN f)
  OBVIOUS
<1>3. n \in Nat \ {0} /\ DOMAIN s = 0..(n - 1) /\ Quoted(s, lo, hi)
  BY <1>1, <1>2, SortedRanks
<1>4. PICK t : t = ((n * 10) \div 100) \div 2
  OBVIOUS
<1>5. t \in Nat /\ 2 * t < n
  BY <1>3, <1>4
<1>6. Cardinality(DOMAIN s) = n
  <2>1. PICK m \in Int : m = n - 1
    BY <1>3
  <2>2. Cardinality(0..m) = IF 0 > m THEN 0 ELSE m - 0 + 1
    BY FS_Interval
  <2> QED  BY <1>3, <2>1, <2>2
<1>7. PICK m \in Nat : DOMAIN s \in SUBSET (0..m)
  <2>1. \A i \in 0..(n - 1) : i \in 0..n
    BY <1>3
  <2> QED  BY <1>3, <2>1
<1>8. Quoted(Policy!Trimmed(s, t), lo, hi)
  BY <1>3, <1>5, <1>6, <1>7, TrimmedQuoted
<1>9. Policy!compute_trimmed_mean(f) = Policy!compute_mean(Policy!Trimmed(s, t))
  BY <1>1, <1>2, <1>4, SameCount DEF Policy!compute_trimmed_mean, Policy!Count
<1> QED  BY <1>8, <1>9, MeanInside

LEMMA MedianInside ==
    ASSUME NEW f, NEW lo, NEW hi, Quoted(f, lo, hi)
    PROVE  Policy!compute_median(f) \in lo..hi
<1>1. Family(f) /\ DOMAIN f # {}
  BY QuotedCount DEF Quoted
<1>2. PICK i, j \in DOMAIN f : f[i] <= compute_median(f) /\ compute_median(f) <= f[j]
  BY <1>1, MedianWithin
<1>3. compute_median(f) \in Nat
  BY <1>1, MedianWithin
<1> QED  BY <1>2, <1>3, SameMedian DEF Quoted, AllIn

LEMMA ByMethodInside ==
    ASSUME NEW f, NEW lo, NEW hi, Quoted(f, lo, hi), NEW method
    PROVE  Policy!ByMethod(method, f) \in lo..hi
BY MeanInside, TrimmedMeanInside, MedianInside DEF Policy!ByMethod

\* A volume-weighted price: without any volume it is the mean.
LEMMA VwapInside ==
    ASSUME NEW f, NEW lo, NEW hi, Quoted(f, lo, hi), DOMAIN f \in SUBSET Reporters
    PROVE  Policy!compute_vwap(f, Volume) \in lo..hi
<1>1. PICK T : T = {i \in DOMAIN f : Volume[i] > 0}
  OBVIOUS
<1>2. CASE T = {}
  BY <1>1, <1>2, MeanInside DEF Policy!compute_vwap
<1>3. CASE T # {}
  <2>1. PICK v : v = [i \in T |-> f[i] * Volume[i]]
    OBVIOUS
  <2>2. PICK g : g = [i \in T |-> Volume[i]]
    OBVIOUS
  <2>3. T \in SUBSET DOMAIN f /\ T \in SUBSET Reporters /\ IsFiniteSet(T)
    BY <1>1, FS_Subset DEF Quoted
  <2>4. \A i \in T : Volume[i] \in Nat \ {0} /\ f[i] \in Nat
    BY <1>1, <2>3, PolicyAssumption DEF Quoted
  <2>5. v \in [T -> Int] /\ g \in [T -> Int]
    BY <2>1, <2>2, <2>4
  <2>6. SumOver(Volume, T) = SumOver(g, T)
    <3>1. Volume \in [Reporters -> Int] /\ IsFiniteSet(Reporters)
      BY PolicyAssumption
    <3>2. PICK A : Additive(Volume, Reporters, A)
      BY <3>1, SumIsAdditive
    <3>3. SumOver(Volume, T) = A[T]
      BY <2>3, <3>1, <3>2, SumWithin
    <3>4. Additive(g, T, A)
      BY <2>2, <2>3, <3>2 DEF Additive
    <3>5. T \in SUBSET T
      OBVIOUS
    <3>6. SumOver(g, T) = A[T]
      BY <2>3, <2>5, <3>4, <3>5, SumWithin
    <3> QED  BY <3>3, <3>6
  <2>7. lo \in Nat /\ hi \in Nat /\ \A i \in T : lo * g[i] <= v[i] /\ v[i] <= hi * g[i]
    <3>1. lo \in Nat /\ hi \in Nat /\ \A i \in T : lo <= f[i] /\ f[i] <= hi
      BY <2>3 DEF Quoted, AllIn
    <3> SUFFICES ASSUME NEW i \in T
                 PROVE  lo * g[i] <= v[i] /\ v[i] <= hi * g[i]
      BY <3>1
    <3>2. PICK c \in Nat, p \in Nat : c = Volume[i] /\ p = f[i]
      BY <2>4
    <3>3. c * lo <= c * p /\ c * p <= c * hi
      BY <3>1, <3>2, ProductGrows
    <3>4. g[i] = c /\ v[i] = p * c
      BY <2>1, <2>2, <3>2
    <3> QED  BY <3>1, <3>3, <3>4
  <2>8. SumOver(g, T) \in Nat \ {0}
    <3>1. PICK A : Additive(g, T, A) /\ SumOver(g, T) = A[T]
      BY <2>3, <2>5, SumIsAdditive
    <3>2. PICK x \in T : TRUE
      BY <1>3
    <3>3. A[T] = g[x] + A[T \ {x}] /\ A[T \ {x}] \in Int /\ T \ {x} \in SUBSET T
      BY <3>1 DEF Additive
    <3>4. 0 <= A[T \ {x}]
      BY <2>2, <2>3, <2>4, <2>5, <3>1, <3>3, SumNotNegative
    <3> QED  BY <2>2, <2>4, <3>1, <3>2, <3>3, <3>4
  <2>9. SumOver(v, T) \div SumOver(g, T) \in lo..hi
    BY <2>3, <2>5, <2>7, <2>8, QuotientInside
  <2>10. Policy!compute_vwap(f, Volume) = SumOver(v, T) \div SumOver(Volume, T)
    BY <1>1, <1>3, <2>1, SameTotal DEF Policy!compute_vwap
  <2> QED  BY <2>6, <2>9, <2>10
<1> QED  BY <1>2, <1>3

\* A sum is the sum of a part and of the rest.
Splits(A, S) ==
    \A T \in SUBSET S : \A X \in SUBSET T : \A R :
        R = T \ X => A[T] \in Int /\ A[X] \in Int /\ A[R] \in Int /\ A[T] = A[X] + A[R]
LEMMA SumSplit ==
    ASSUME NEW S, IsFiniteSet(S), NEW w \in [S -> Int], NEW A, Additive(w, S, A)
    PROVE  Splits(A, S)
<1> SUFFICES ASSUME NEW T \in SUBSET S, NEW X \in SUBSET T
             PROVE  A[T] \in Int /\ A[X] \in Int /\ A[T \ X] \in Int /\ A[T] = A[X] + A[T \ X]
  BY Zenon DEF Splits
<1> DEFINE Q(Y) == A[T] = A[Y] + A[T \ Y]
           N == {n \in Nat : \E Y \in SUBSET T : Cardinality(Y) = n /\ ~Q(Y)}
<1>1. \A Y \in SUBSET T : /\ IsFiniteSet(Y) /\ Cardinality(Y) \in Nat
                          /\ A[Y] \in Int /\ A[T \ Y] \in Int /\ A[T] \in Int
  BY FS_Subset, FS_CardinalityType DEF Additive
<1>2. Q({})
  <2>1. PICK E : E = T \ {}
    OBVIOUS
  <2>2. E = T /\ A[{}] = 0 /\ A[T] \in Int
    BY <2>1 DEF Additive
  <2>3. A[T] = A[{}] + A[E]
    BY <2>2
  <2> QED  BY <2>1, <2>3
<1>3. ASSUME NEW Y \in SUBSET T, NEW x \in Y, Q(Y \ {x})
      PROVE  Q(Y)
  <2>1. PICK R : R = Y \ {x}
    OBVIOUS
  <2>2. PICK E : E = T \ R
    OBVIOUS
  <2>3. E \in SUBSET S /\ x \in E /\ E \ {x} = T \ Y /\ Y \in SUBSET S /\ R \in SUBSET T
    BY <2>1, <2>2
  <2>4. A[E] = w[x] + A[T \ Y]
    BY <2>3 DEF Additive
  <2>5. A[Y] = w[x] + A[R]
    BY <2>1, <2>3 DEF Additive
  <2>6. A[T] = A[R] + A[E]
    BY <1>3, <2>1, <2>2
  <2>7. PICK a \in Int, b \in Int, c \in Int : a = A[R] /\ b = A[T \ Y] /\ c = w[x]
    BY <1>1, <2>3
  <2> QED  BY <2>4, <2>5, <2>6, <2>7
<1>4. N = {}
  <2> SUFFICES ASSUME N # {}
               PROVE  FALSE
    OBVIOUS
  <2>1. N \in SUBSET Nat
    OBVIOUS
  <2>2. PICK n \in N : \A m \in N : n <= m
    <3> HIDE DEF N
    <3> QED  BY <2>1, LeastNatural
  <2>3. PICK Y \in SUBSET T : Cardinality(Y) = n /\ ~Q(Y)
    OBVIOUS
  <2> HIDE DEF Q
  <2>4. PICK x \in Y : TRUE
    BY <1>2, <2>3
  <2>5. ~Q(Y \ {x})
    BY <1>3, <2>3
  <2>6. Cardinality(Y \ {x}) = n - 1 /\ n \in Nat
    BY <1>1, <2>3, FS_RemoveElement
  <2>7. Y \ {x} \in SUBSET T /\ Cardinality(Y \ {x}) \in Nat
    BY <1>1
  <2>8. n - 1 \in N
    BY <2>5, <2>6, <2>7
  <2>9. n <= n - 1
    <3> HIDE DEF N
    <3> QED  BY <2>2, <2>8
  <2> QED  BY <2>6, <2>9
<1>5. Q(X)
  <2> HIDE DEF Q
  <2> QED  BY <1>1, <1>4
<1> QED  BY <1>1, <1>5

\* Two sets that each hold half of the weight, one of them more, have a common
\* member.
LEMMA HeavySetsMeet ==
    ASSUME NEW S, IsFiniteSet(S), NEW w \in [S -> Int], \A i \in S : 0 <= w[i],
           NEW A, Additive(w, S, A), NEW X \in SUBSET S, NEW U \in SUBSET S,
           2 * A[X] >= A[S], 2 * A[U] > A[S]
    PROVE  \E i \in U : i \in X
<1> SUFFICES ASSUME \A i \in U : i \notin X
             PROVE  FALSE
  OBVIOUS
<1>1. PICK V \in SUBSET S : V = S \ X
  OBVIOUS
<1>2. PICK Y \in SUBSET V : Y = U
  BY <1>1
<1>3. PICK R : R = V \ Y
  OBVIOUS
<1>4. S \in SUBSET S /\ R \in SUBSET S
  BY <1>3
<1>5. Splits(A, S)
  BY SumSplit
<1>6. A[S] \in Int /\ A[X] \in Int /\ A[V] \in Int /\ A[S] = A[X] + A[V]
  BY <1>1, <1>4, <1>5 DEF Splits
<1>7. A[V] \in Int /\ A[Y] \in Int /\ A[R] \in Int /\ A[V] = A[Y] + A[R]
  BY <1>3, <1>5, Zenon DEF Splits
<1>8. 0 <= A[R]
  BY <1>4, SumNotNegative
<1> QED  BY <1>2, <1>6, <1>7, <1>8

\* The lowest and the highest price of some contributors.
LEMMA Extremes ==
    ASSUME NEW D, IsFiniteSet(D), NEW f \in [D -> Nat], NEW U \in SUBSET D, U # {}
    PROVE  \E r, s \in U : \A i \in U : f[r] <= f[i] /\ f[i] <= f[s]
<1>1. PICK r \in U : \A i \in U : f[r] <= f[i]
  <2>1. PICK V : V = {f[i] : i \in U}
    OBVIOUS
  <2>2. V \in SUBSET Nat /\ V # {}
    BY <2>1
  <2>3. PICK v \in V : \A u \in V : v <= u
    BY <2>2, LeastNatural
  <2> QED  BY <2>1, <2>3
<1>2. PICK s \in U : \A i \in U : f[i] <= f[s]
  <2>1. PICK g : g = [i \in U |-> f[i]]
    OBVIOUS
  <2>2. Family(g) /\ DOMAIN g = U /\ DOMAIN g # {}
    BY <2>1, FS_Subset DEF Family
  <2>3. PICK s \in U : \A i \in U : g[i] <= g[s]
    BY <2>2, GreatestExists
  <2> QED  BY <2>1, <2>3
<1> QED  BY <1>1, <1>2

\* Contributors that hold more than half of the weight have the weighted median
\* between two of their prices.
LEMMA WeightedMedianFollowsWeight ==
    ASSUME NEW D, IsFiniteSet(D), NEW f \in [D -> Nat], NEW w \in [D -> Int],
           \A i \in D : 0 <= w[i], NEW A, Additive(w, D, A), NEW U \in SUBSET D, 2 * A[U] > A[D],
           NEW p, p = Policy!weighted_median(f, w)
    PROVE  p \in Nat /\ \E i, j \in U : f[i] <= p /\ p <= f[j]
<1>1. /\ A[D] \in Int /\ 0 <= A[D] /\ DOMAIN f = D /\ D \in SUBSET D
      /\ \A T \in SUBSET D : A[T] \in Int /\ 0 <= A[T]
  BY SumNotNegative
<1>2. U # {} /\ D # {}
  <2>1. A[{}] = 0
    BY DEF Additive
  <2>2. ASSUME U = {} PROVE FALSE
    <3>1. A[U] = 0
      BY <2>1, <2>2
    <3> QED  BY <1>1, <3>1
  <2> QED  BY <2>2
<1>3. \A v : AtMost(f, v) \in SUBSET D /\ 2 * Policy!Total(w, Policy!AtMost(f, v)) = 2 * A[AtMost(f, v)]
  <2> SUFFICES ASSUME NEW v
               PROVE  AtMost(f, v) \in SUBSET D /\ Policy!Total(w, AtMost(f, v)) = A[AtMost(f, v)]
    BY SameRanks
  <2>1. AtMost(f, v) \in SUBSET D
    BY <1>1 DEF AtMost
  <2> QED  BY <2>1, SumWithin, SameTotal
<1>4. Policy!Total(w, D) = A[D]
  BY <1>1, SumWithin, SameTotal
<1>5. PICK V : V = {f[i] : i \in D}
  OBVIOUS
<1>6. PICK G : G = {v \in V : 2 * A[AtMost(f, v)] >= A[D]}
  OBVIOUS
<1>7. PICK mid : mid = Policy!Min(G)
  OBVIOUS
<1>8. PICK above : above = {v \in V : v > mid}
  OBVIOUS
<1>9. p = IF 2 * A[AtMost(f, mid)] = A[D] /\ above # {}
          THEN mid + ((Policy!Min(above) - mid) \div 2) ELSE mid
  <2>1. G = {v \in V : 2 * Policy!Total(w, Policy!AtMost(f, v)) >= Policy!Total(w, D)}
    BY <1>3, <1>4, <1>6
  <2>2. p = IF 2 * Policy!Total(w, Policy!AtMost(f, mid)) = Policy!Total(w, D) /\ above # {}
            THEN mid + ((Policy!Min(above) - mid) \div 2) ELSE mid
    BY <1>1, <1>5, <1>7, <1>8, <2>1 DEF Policy!weighted_median
  <2> QED  BY <1>3, <1>4, <2>2
<1>10. V \in SUBSET Nat /\ G \in SUBSET V /\ above \in SUBSET V
  BY <1>5, <1>6, <1>8
<1>11. G # {}
  <2>1. PICK s \in D : \A i \in D : f[i] <= f[s]
    BY <1>1, <1>2, Extremes
  <2>2. AtMost(f, f[s]) = D
    BY <1>1, <2>1 DEF AtMost
  <2>3. f[s] \in G
    BY <1>1, <1>5, <1>6, <2>2
  <2> QED  BY <2>3
<1>12. mid \in G /\ \A v \in G : mid <= v
  <2>1. PICK v \in G : \A u \in G : v <= u
    BY <1>10, <1>11, LeastNatural
  <2> QED  BY <1>7, <2>1, Zenon DEF Policy!Min
<1>13. mid \in Nat /\ 2 * A[AtMost(f, mid)] >= A[D]
  BY <1>6, <1>10, <1>12
<1>14. PICK i \in U : f[i] <= mid
  <2>1. PICK i \in U : i \in AtMost(f, mid)
    BY <1>1, <1>3, <1>13, HeavySetsMeet
  <2> QED  BY <2>1 DEF AtMost
<1>15. CASE 2 * A[AtMost(f, mid)] = A[D] /\ above # {}
  <2>1. PICK X : X = D \ AtMost(f, mid)
    OBVIOUS
  <2>2. X \in SUBSET D
    BY <2>1
  <2>3. A[D] = A[AtMost(f, mid)] + A[X] /\ A[X] \in Int /\ A[AtMost(f, mid)] \in Int
    BY <1>1, <1>3, <2>1, SumSplit DEF Splits
  <2>4. 2 * A[X] >= A[D]
    BY <1>1, <1>15, <2>3
  <2>5. PICK j \in U : j \in X
    BY <2>2, <2>4, HeavySetsMeet
  <2>6. f[j] \in above /\ f[j] \in Nat
    BY <1>1, <1>5, <1>8, <1>13, <2>1, <2>5 DEF AtMost
  <2>7. PICK low : low = Policy!Min(above)
    OBVIOUS
  <2>8. low \in above /\ low <= f[j]
    <3>1. PICK v \in above : \A u \in above : v <= u
      BY <1>10, <1>15, LeastNatural
    <3>2. low \in above /\ \A u \in above : low <= u
      BY <2>7, <3>1, Zenon DEF Policy!Min
    <3> QED  BY <2>6, <3>2
  <2>9. low \in Nat /\ low > mid
    BY <1>8, <1>10, <2>8
  <2>10. p = mid + ((low - mid) \div 2)
    BY <1>9, <1>15, <2>7
  <2>11. p \in Nat /\ mid <= p /\ p <= low
    BY <1>13, <2>9, <2>10
  <2>12. f[i] \in Nat
    BY <1>14
  <2>13. f[i] <= p /\ p <= f[j]
    BY <1>13, <1>14, <2>6, <2>8, <2>9, <2>11, <2>12
  <2> QED  BY <1>14, <2>5, <2>11, <2>13
<1>16. CASE ~(2 * A[AtMost(f, mid)] = A[D] /\ above # {})
  <2>1. p = mid
    BY <1>9, <1>16
  <2>2. PICK X : X = D \ Below(f, mid)
    OBVIOUS
  <2>3. Below(f, mid) \in SUBSET D /\ X \in SUBSET D
    BY <1>1, <2>2 DEF Below
  <2>4. 2 * A[X] >= A[D]
    <3>1. CASE Below(f, mid) = {}
      BY <1>1, <2>2, <3>1
    <3>2. CASE Below(f, mid) # {}
      <4>1. PICK s \in Below(f, mid) : \A k \in Below(f, mid) : f[k] <= f[s]
        BY <2>3, <3>2, Extremes
      <4>2. f[s] \in Nat /\ f[s] < mid /\ f[s] \in V
        BY <1>1, <1>5, <2>3, <4>1 DEF Below
      <4>3. AtMost(f, f[s]) = Below(f, mid)
        <5>1. \A k \in D : f[k] \in Nat
          OBVIOUS
        <5>2. \A k \in D : f[k] <= f[s] <=> f[k] < mid
          BY <1>1, <1>13, <4>1, <4>2, <5>1 DEF Below
        <5> QED  BY <1>1, <5>2 DEF AtMost, Below
      <4>4. f[s] \notin G
        BY <1>12, <1>13, <4>2
      <4>5. 2 * A[Below(f, mid)] < A[D]
        BY <1>1, <1>6, <2>3, <4>2, <4>3, <4>4
      <4>6. A[D] = A[Below(f, mid)] + A[X] /\ A[X] \in Int /\ A[Below(f, mid)] \in Int
        BY <1>1, <2>2, <2>3, SumSplit DEF Splits
      <4> QED  BY <1>1, <4>5, <4>6
    <3> QED  BY <3>1, <3>2
  <2>5. PICK j \in U : j \in X
    BY <2>3, <2>4, HeavySetsMeet
  <2>6. mid <= f[j]
    BY <1>1, <1>13, <2>2, <2>5 DEF Below
  <2> QED  BY <1>13, <1>14, <2>1, <2>5, <2>6
<1> QED  BY <1>15, <1>16

\* What a price of all contributors but one is bounded by: their own prices.
Honest(f, U, lo, hi) ==
    /\ U \in SUBSET DOMAIN f /\ Cardinality(DOMAIN f \ U) <= 1
    /\ lo \in Nat /\ hi \in Nat /\ \A i \in U : lo <= f[i] /\ f[i] <= hi

\* A set of two members or more holds one of the others.
LEMMA OneOfTheOthers ==
    ASSUME NEW D, IsFiniteSet(D), NEW U \in SUBSET D, Cardinality(D \ U) <= 1,
           NEW X \in SUBSET D, Cardinality(X) > 1
    PROVE  \E i \in X : i \in U
<1> SUFFICES ASSUME \A i \in X : i \notin U
             PROVE  FALSE
  OBVIOUS
<1>1. PICK R : R = D \ U
  OBVIOUS
<1>2. X \in SUBSET R /\ R \in SUBSET D
  BY <1>1
<1>3. IsFiniteSet(R) /\ IsFiniteSet(X)
  BY <1>2, FS_Subset
<1>4. Cardinality(X) <= Cardinality(R) /\ Cardinality(R) \in Nat /\ Cardinality(X) \in Nat
  BY <1>2, <1>3, FS_Subset, FS_CardinalityType
<1> QED  BY <1>1, <1>4

\* Nothing but the lowest and the highest entry of the sorted vector can be
\* outside their prices.
LEMMA InnerEntriesHonest ==
    ASSUME NEW f, NEW a, NEW b, Quoted(f, a, b), NEW s, s = Policy!Sorted(f),
           NEW n, n = Cardinality(DOMAIN f), NEW U, NEW lo, NEW hi, Honest(f, U, lo, hi),
           NEW k \in 1..(n - 2)
    PROVE  lo <= s[k] /\ s[k] <= hi
<1>1. n \in Nat /\ s[k] \in Nat /\ IsKth(f, k, s[k])
  <2>1. n \in Nat \ {0}
    BY SortedRanks
  <2>2. k \in 0..(n - 1)
    BY <2>1
  <2> QED  BY <2>1, <2>2, SortedRanks
<1>2. PICK v \in Nat : v = s[k]
  BY <1>1
<1>3. PICK D : D = DOMAIN f
  OBVIOUS
<1>4. IsFiniteSet(D) /\ Family(f) /\ \A i \in D : f[i] \in Nat
  BY <1>3, QuotedCount DEF Quoted
<1>5. U \in SUBSET D /\ Cardinality(D \ U) <= 1
  BY <1>3 DEF Honest
<1>6. PICK i \in AtMost(f, v) : i \in U
  <2>1. k < Cardinality(AtMost(f, v)) /\ Cardinality(AtMost(f, v)) \in Nat
    BY <1>1, <1>2, <1>4, RankSets DEF IsKth
  <2>2. Cardinality(AtMost(f, v)) > 1
    BY <1>1, <2>1
  <2>3. AtMost(f, v) \in SUBSET D
    BY <1>3 DEF AtMost
  <2> QED  BY <1>4, <1>5, <2>2, <2>3, OneOfTheOthers
<1>7. PICK j \in D \ Below(f, v) : j \in U
  <2>1. PICK L : L = Below(f, v)
    OBVIOUS
  <2>2. L \in SUBSET D /\ IsFiniteSet(L) /\ Cardinality(L) <= k /\ Cardinality(L) \in Nat
    BY <1>1, <1>2, <1>3, <1>4, <2>1, RankSets DEF IsKth, Below
  <2>3. PICK X : X = D \ L
    OBVIOUS
  <2>4. IsFiniteSet(X) /\ X \in SUBSET D /\ X \cup L = D /\ X \cap L = {}
    BY <1>4, <2>2, <2>3, FS_Subset
  <2>5. Cardinality(X \cup L) = Cardinality(X) + Cardinality(L) - Cardinality(X \cap L)
    BY <2>2, <2>4, FS_Union
  <2>6. Cardinality(X \cap L) = 0 /\ Cardinality(X) \in Nat
    BY <2>4, FS_EmptySet, FS_CardinalityType
  <2>7. Cardinality(X) > 1
    BY <1>1, <1>3, <2>2, <2>4, <2>5, <2>6
  <2>8. \E x \in X : x \in U
    BY <1>4, <1>5, <2>4, <2>7, OneOfTheOthers
  <2> QED  BY <2>1, <2>3, <2>8
<1>8. f[i] <= v /\ lo <= f[i] /\ f[i] \in Nat /\ lo \in Nat
  BY <1>3, <1>4, <1>5, <1>6 DEF AtMost, Honest
<1>9. v <= f[j] /\ f[j] <= hi /\ f[j] \in Nat /\ hi \in Nat
  BY <1>3, <1>4, <1>5, <1>7 DEF Below, Honest
<1> QED  BY <1>2, <1>8, <1>9

\* The places of the quartiles.
LEMMA Quarters ==
    ASSUME NEW n \in Nat
    PROVE  \E d, e \in Nat : /\ d = n \div 4 /\ e = (n * 3) \div 4
                             /\ 4 * d <= n /\ n < 4 * d + 4
                             /\ 4 * e <= 3 * n /\ 3 * n < 4 * e + 4
                             /\ n >= 4 => d < e - 1 /\ d <= n - 1 /\ e <= n - 1 /\ d >= 1
<1>1. PICK d \in Nat : d = n \div 4 /\ 4 * d <= n /\ n < 4 * d + 4
  OBVIOUS
<1>2. PICK e \in Nat : e = (n * 3) \div 4 /\ 4 * e <= 3 * n /\ 3 * n < 4 * e + 4
  OBVIOUS
<1>3. n >= 4 => d < e - 1 /\ d <= n - 1 /\ e <= n - 1 /\ d >= 1
  BY <1>1, <1>2
<1> QED  BY <1>1, <1>2, <1>3

\* What the fence keeps is an interval of the sorted vector with its quartiles.
LEMMA FenceKeepsQuartiles ==
    ASSUME NEW f, NEW a, NEW b, Quoted(f, a, b), NEW s, s = Policy!Sorted(f),
           NEW n, n = Cardinality(DOMAIN f), NEW g, g = Policy!Fenced(s), NEW I, I = DOMAIN g
    PROVE  /\ n \in Nat \ {0}
           /\ I \in SUBSET (0..(n - 1)) /\ \A i \in I : g[i] = s[i]
           /\ n < 4 => I = 0..(n - 1)
           /\ n >= 4 => \A i \in 0..(n - 1) :
                          (n \div 4) <= i /\ i <= ((n * 3) \div 4) - 1 => i \in I
           /\ \A i, k \in I : \A j \in 0..(n - 1) : i <= j /\ j <= k => j \in I
           /\ Quoted(g, a, b)
<1>1. /\ n \in Nat \ {0} /\ DOMAIN s = 0..(n - 1)
      /\ \A k \in 0..(n - 1) : s[k] \in Nat
      /\ \A k, m \in 0..(n - 1) : k <= m => s[k] <= s[m]
      /\ Quoted(s, a, b)
  BY SortedRanks
<1>2. Policy!Count(s) = n
  <2>1. PICK m \in Int : m = n - 1
    BY <1>1
  <2>2. Cardinality(0..m) = IF 0 > m THEN 0 ELSE m - 0 + 1
    BY FS_Interval
  <2> QED  BY <1>1, <2>1, <2>2, SameCount DEF Policy!Count
<1>3. CASE n < 4
  <2>1. g = s
    BY <1>2, <1>3 DEF Policy!Fenced
  <2> QED  BY <1>1, <1>3, <2>1
<1>4. CASE n >= 4
  <2>1. PICK x, y : x = n \div 4 /\ y = ((n * 3) \div 4) - 1
    OBVIOUS
  <2>2. x \in 0..(n - 1) /\ y \in 0..(n - 1) /\ x <= y
    <3>1. n \in Nat
      BY <1>1
    <3>2. PICK d, e \in Nat : /\ d = n \div 4 /\ e = (n * 3) \div 4
                              /\ d <= e - 1 /\ d <= n - 1 /\ e <= n - 1
      BY <1>4, <3>1, Quarters
    <3>3. x = d /\ y = e - 1
      BY <2>1, <3>2
    <3> QED  BY <3>1, <3>2, <3>3
  <2>3. PICK q1 \in Nat, q3 \in Nat : q1 = s[x] /\ q3 = s[y] /\ q1 <= q3
    BY <1>1, <2>2
  <2>4. PICK margin \in Nat : margin = ((q3 - q1) * 3) \div 2
    BY <2>3
  <2>5. PICK K : K = {i \in DOMAIN s : s[i] >= q1 - margin /\ s[i] <= q3 + margin}
    OBVIOUS
  <2>6. g = Policy!Only(s, K)
    <3>1. s[Policy!Count(s) \div 4] = q1 /\ s[((Policy!Count(s) * 3) \div 4) - 1] = q3
      BY <1>2, <2>1, <2>3, Zenon
    <3>2. ~(Policy!Count(s) < 4)
      BY <1>1, <1>2, <1>4
    <3>3. g = Policy!Only(s, {i \in DOMAIN s : /\ s[i] >= q1 - (((q3 - q1) * 3) \div 2)
                                              /\ s[i] <= q3 + (((q3 - q1) * 3) \div 2)})
      BY <3>1, <3>2, Zenon DEF Policy!Fenced
    <3> QED  BY <2>4, <2>5, <3>3, Zenon
  <2>7. \A i \in 0..(n - 1) : i \in K <=> s[i] >= q1 - margin /\ s[i] <= q3 + margin
    BY <1>1, <2>5
  <2>8. \A i \in 0..(n - 1) : x <= i /\ i <= y => i \in K
    <3> SUFFICES ASSUME NEW i \in 0..(n - 1), x <= i, i <= y
                 PROVE  s[i] >= q1 - margin /\ s[i] <= q3 + margin
      BY <2>7
    <3>1. s[x] <= s[i] /\ s[i] <= s[y] /\ s[i] \in Nat
      BY <1>1, <2>2
    <3> QED  BY <2>3, <2>4, <3>1
  <2>9. ASSUME NEW i \in K, NEW k \in K, NEW j \in 0..(n - 1), i <= j, j <= k
        PROVE  j \in K
    <3>1. i \in 0..(n - 1) /\ k \in 0..(n - 1)
      BY <1>1, <2>5
    <3>2. s[i] <= s[j] /\ s[j] <= s[k] /\ s[i] \in Nat /\ s[j] \in Nat /\ s[k] \in Nat
      BY <1>1, <2>9, <3>1
    <3>3. s[i] >= q1 - margin /\ s[k] <= q3 + margin
      BY <2>7, <3>1
    <3>4. s[j] >= q1 - margin /\ s[j] <= q3 + margin
      BY <2>3, <2>4, <3>2, <3>3
    <3> QED  BY <2>7, <3>4
  <2>10. x \in K /\ K \in SUBSET DOMAIN s
    BY <2>2, <2>5, <2>8
  <2>11. Quoted(g, a, b) /\ DOMAIN g = K
    BY <1>1, <2>6, <2>10, PartQuoted
  <2>12. \A i \in K : g[i] = s[i]
    BY <2>6 DEF Policy!Only
  <2>13. \A i, k \in I : \A j \in 0..(n - 1) : i <= j /\ j <= k => j \in I
    BY <2>9, <2>11
  <2>14. \A i \in 0..(n - 1) : (n \div 4) <= i /\ i <= ((n * 3) \div 4) - 1 => i \in I
    BY <2>1, <2>8, <2>11, Zenon
  <2>15. I \in SUBSET (0..(n - 1)) /\ (\A i \in I : g[i] = s[i]) /\ ~(n < 4)
    BY <1>1, <1>4, <2>10, <2>11, <2>12
  <2> QED  BY <1>1, <2>11, <2>13, <2>14, <2>15, Zenon
<1> QED  BY <1>1, <1>3, <1>4

\* A set of two members or more has another member than x.
LEMMA AnotherMember ==
    ASSUME NEW X, IsFiniteSet(X), Cardinality(X) > 1, NEW x
    PROVE  \E i \in X : i # x
<1> SUFFICES ASSUME \A i \in X : i = x
             PROVE  FALSE
  OBVIOUS
<1>1. PICK Y : Y = {x}
  OBVIOUS
<1>2. IsFiniteSet(Y) /\ Cardinality(Y) = 1 /\ X \in SUBSET Y
  BY <1>1, FS_Singleton
<1>3. Cardinality(X) <= Cardinality(Y) /\ Cardinality(X) \in Nat
  BY <1>2, FS_Subset, FS_CardinalityType
<1> QED  BY <1>2, <1>3

\* An interval that is part of a set is not larger than it.
LEMMA IntervalWithin ==
    ASSUME NEW I, IsFiniteSet(I), NEW x \in Int, NEW y \in Int, x <= y, \A i \in x..y : i \in I
    PROVE  /\ Cardinality(I) \in Nat /\ (y - x) + 1 <= Cardinality(I)
           /\ Cardinality(I) = (y - x) + 1 => I = x..y
<1>1. x..y \in SUBSET I
  OBVIOUS
<1>2. Cardinality(x..y) = IF x > y THEN 0 ELSE y - x + 1
  BY FS_Interval
<1>3. /\ Cardinality(x..y) <= Cardinality(I)
      /\ Cardinality(I) = Cardinality(x..y) => I = x..y
  BY <1>1, FS_Subset
<1>4. Cardinality(I) \in Nat
  BY FS_CardinalityType
<1> QED  BY <1>2, <1>3, <1>4

\* What trimming cuts off: the lesser of the tolerance and half of the fenced.
LEMMA TrimmedOff ==
    ASSUME NEW c \in Nat, NEW tolerance \in Nat, NEW t, t = Policy!Least(tolerance, c \div 2)
    PROVE  /\ t \in Nat /\ t <= tolerance /\ 2 * t <= c
           /\ tolerance >= 1 /\ c >= 2 => t >= 1
<1>1. PICK h \in Nat : h = c \div 2 /\ 2 * h <= c /\ c < 2 * h + 2
  OBVIOUS
<1> QED  BY <1>1 DEF Policy!Least

LEMMA FaultTolerantInside ==
    ASSUME NEW f, NEW a, NEW b, Quoted(f, a, b), setting.tolerance \in Nat
    PROVE  Policy!aggregate_bft_prices(f) \in a..b
<1>1. PICK s, n, g, I, c, t :
        /\ s = Policy!Sorted(f) /\ n = Cardinality(DOMAIN f) /\ g = Policy!Fenced(s)
        /\ I = DOMAIN g /\ c = Cardinality(I) /\ t = Policy!Least(setting.tolerance, c \div 2)
  OBVIOUS
<1>2. n \in Nat \ {0} /\ I \in SUBSET (0..(n - 1)) /\ Quoted(g, a, b)
  BY <1>1, FenceKeepsQuartiles
<1>3. c \in Nat \ {0}
  BY <1>1, <1>2, QuotedCount
<1>4. t \in Nat
  <2>1. PICK q : q = setting.tolerance
    OBVIOUS
  <2>2. q \in Nat /\ c \in Nat /\ t = Policy!Least(q, c \div 2)
    BY <1>1, <1>3, <2>1
  <2> QED  BY <2>2, TrimmedOff
<1>5. Policy!aggregate_bft_prices(f) =
        Policy!ByMethod(setting.bft_method, IF c > t * 2 THEN Policy!Trimmed(g, t) ELSE g)
  BY <1>1, SameCount DEF Policy!aggregate_bft_prices, Policy!Count
<1>6. CASE c > t * 2
  <2>1. PICK m \in Nat : m = n - 1
    BY <1>2
  <2>2. Quoted(Policy!Trimmed(g, t), a, b)
    BY <1>1, <1>2, <1>3, <1>4, <1>6, <2>1, TrimmedQuoted
  <2> QED  BY <1>5, <1>6, <2>2, ByMethodInside
<1>7. CASE ~(c > t * 2)
  BY <1>2, <1>5, <1>7, ByMethodInside
<1> QED  BY <1>6, <1>7

\* Entries of the fence other than the two ends of the vector are bounded by
\* the others' prices, and so is what is taken of them.
LEMMA HonestPart ==
    ASSUME NEW f, NEW a, NEW b, Quoted(f, a, b), NEW s, s = Policy!Sorted(f),
           NEW n, n = Cardinality(DOMAIN f), NEW g, g = Policy!Fenced(s),
           NEW U, NEW lo, NEW hi, Honest(f, U, lo, hi),
           NEW J, J \in SUBSET DOMAIN g, J # {}, \A i \in J : 1 <= i /\ i <= n - 2
    PROVE  Quoted(Policy!Only(g, J), lo, hi)
<1>1. n \in Nat \ {0} /\ DOMAIN g \in SUBSET (0..(n - 1)) /\ (\A i \in DOMAIN g : g[i] = s[i])
      /\ Quoted(g, a, b)
  BY FenceKeepsQuartiles
<1>2. Quoted(Policy!Only(g, J), a, b) /\ DOMAIN Policy!Only(g, J) = J
  BY <1>1, PartQuoted
<1>3. ASSUME NEW i \in J
      PROVE  lo <= Policy!Only(g, J)[i] /\ Policy!Only(g, J)[i] <= hi
  <2>1. i \in 1..(n - 2)
    BY <1>1, <1>3
  <2>2. Policy!Only(g, J)[i] = s[i]
    BY <1>1, <1>3 DEF Policy!Only
  <2> QED  BY <2>1, <2>2, InnerEntriesHonest
<1> QED  BY <1>2, <1>3 DEF Quoted, AllIn, Honest

\* What is inside at both ends is neither the lowest nor the highest entry.
LEMMA InnerIsInterior ==
    ASSUME NEW n \in Nat, NEW I \in SUBSET (0..(n - 1)), NEW t \in Nat, t >= 1, NEW i \in Inner(I, t)
    PROVE  1 <= i /\ i <= n - 2
<1>1. i \in I /\ Cardinality({j \in I : j < i}) >= 1 /\ Cardinality({j \in I : j > i}) >= 1
  <2>1. PICK x, y : x = Cardinality({j \in I : j < i}) /\ y = Cardinality({j \in I : j > i})
    OBVIOUS
  <2>2. i \in I /\ x >= t /\ y >= t
    BY <2>1 DEF Inner
  <2>3. IsFiniteSet(0..(n - 1))
    <3>1. PICK m \in Int : m = n - 1
      OBVIOUS
    <3> QED  BY <3>1, FS_Interval
  <2>4. {j \in I : j < i} \in SUBSET (0..(n - 1)) /\ {j \in I : j > i} \in SUBSET (0..(n - 1))
    OBVIOUS
  <2>5. x \in Nat /\ y \in Nat
    BY <2>1, <2>3, <2>4, FS_Subset, FS_CardinalityType
  <2> QED  BY <2>1, <2>2, <2>5
<1>2. {j \in I : j < i} # {} /\ {j \in I : j > i} # {}
  BY <1>1, FS_EmptySet
<1>3. PICK j \in I, k \in I : j < i /\ k > i
  BY <1>2
<1> QED  BY <1>1, <1>3

\* The fence keeps an interval around the quartiles.
Around(I, n) ==
    /\ I \in SUBSET (0..(n - 1))
    /\ \A i \in 0..(n - 1) : (n \div 4) <= i /\ i <= ((n * 3) \div 4) - 1 => i \in I
    /\ \A i, k \in I : \A j \in 0..(n - 1) : i <= j /\ j <= k => j \in I

\* Two entries at least, and when it is two then not the ends of the vector.
LEMMA AroundTwo ==
    ASSUME NEW n \in Nat, n >= 4, NEW I, Around(I, n)
    PROVE  /\ IsFiniteSet(I) /\ Cardinality(I) \in Nat /\ Cardinality(I) >= 2
           /\ Cardinality(I) = 2 => \A i \in I : 1 <= i /\ i <= n - 2
<1>1. PICK d, e \in Nat : /\ d = n \div 4 /\ e = (n * 3) \div 4
                          /\ d < e - 1 /\ e <= n - 1 /\ d >= 1
  BY Quarters
<1>2. PICK y \in Int, m \in Int : y = e - 1 /\ m = n - 1
  BY <1>1
<1>3. IsFiniteSet(I)
  <2>1. IsFiniteSet(0..m)
    BY FS_Interval
  <2> QED  BY <1>2, <2>1, FS_Subset DEF Around
<1>4. \A i \in d..y : i \in I
  <2> SUFFICES ASSUME NEW i \in d..y
               PROVE  i \in I
    OBVIOUS
  <2>1. i \in 0..(n - 1) /\ d <= i /\ i <= e - 1
    BY <1>1, <1>2
  <2> QED  BY <1>1, <2>1 DEF Around
<1>5. /\ Cardinality(I) \in Nat /\ (y - d) + 1 <= Cardinality(I)
      /\ Cardinality(I) = (y - d) + 1 => I = d..y
  <2>1. d \in Int /\ d <= y
    BY <1>1, <1>2
  <2> QED  BY <1>3, <1>4, <2>1, IntervalWithin
<1>6. ASSUME Cardinality(I) = 2
      PROVE  \A i \in I : 1 <= i /\ i <= n - 2
  <2>1. I = d..y
    BY <1>1, <1>2, <1>5, <1>6
  <2> QED  BY <1>1, <1>2, <2>1
<1> QED  BY <1>1, <1>2, <1>3, <1>5, <1>6

\* With less than two thirds of the vector kept its ends are not.
LEMMA AroundFew ==
    ASSUME NEW n \in Nat, n >= 4, NEW I, Around(I, n), NEW q \in Nat, 3 * q < n,
           Cardinality(I) <= 2 * q
    PROVE  \A i \in I : 1 <= i /\ i <= n - 2
<1>1. PICK d, e \in Nat : /\ d = n \div 4 /\ e = (n * 3) \div 4
                          /\ 4 * d <= n /\ 3 * n < 4 * e + 4
                          /\ d < e - 1 /\ e <= n - 1 /\ d >= 1
  BY Quarters
<1>2. PICK y \in Int, m \in Int : y = e - 1 /\ m = n - 1
  BY <1>1
<1>3. IsFiniteSet(I) /\ Cardinality(I) \in Nat
  BY AroundTwo
<1>4. d \in I /\ y \in I
  <2>1. d \in 0..(n - 1) /\ y \in 0..(n - 1) /\ d <= d /\ d <= e - 1 /\ d <= y /\ y <= e - 1
    BY <1>1, <1>2
  <2> QED  BY <1>1, <2>1 DEF Around
<1>5. \A i, k \in I : \A j \in 0..(n - 1) : i <= j /\ j <= k => j \in I
  BY DEF Around
<1>6. ASSUME 0 \in I
      PROVE  FALSE
  <2>1. \A i \in 0..y : i \in I
    <3>1. \A i \in 0..y : i \in 0..(n - 1) /\ 0 <= i /\ i <= y
      BY <1>1, <1>2
    <3> QED  BY <1>4, <1>5, <1>6, <3>1
  <2>2. (y - 0) + 1 <= Cardinality(I)
    <3>1. 0 \in Int /\ 0 <= y
      BY <1>1, <1>2
    <3> QED  BY <1>3, <2>1, <3>1, IntervalWithin
  <2> QED  BY <1>1, <1>2, <1>3, <2>2
<1>7. ASSUME m \in I
      PROVE  FALSE
  <2>1. \A i \in d..m : i \in I
    <3>1. \A i \in d..m : i \in 0..(n - 1) /\ d <= i /\ i <= m
      BY <1>1, <1>2
    <3> QED  BY <1>4, <1>5, <1>7, <3>1
  <2>2. (m - d) + 1 <= Cardinality(I)
    <3>1. d \in Int /\ d <= m
      BY <1>1, <1>2
    <3> QED  BY <1>3, <2>1, <3>1, IntervalWithin
  <2> QED  BY <1>1, <1>2, <1>3, <2>2
<1>8. ASSUME NEW i \in I
      PROVE  1 <= i /\ i <= n - 2
  <2>1. i \in 0..(n - 1) /\ i # 0 /\ i # m
    BY <1>6, <1>7, <1>8 DEF Around
  <2> QED  BY <1>2, <2>1
<1> QED  BY <1>8

\* The median of three or more that the fence kept.
LEMMA FencedMedianHonest ==
    ASSUME NEW f, NEW a, NEW b, Quoted(f, a, b), NEW s, s = Policy!Sorted(f),
           NEW n, n = Cardinality(DOMAIN f), n >= 3, NEW g, g = Policy!Fenced(s),
           NEW U, NEW lo, NEW hi, Honest(f, U, lo, hi), Cardinality(DOMAIN g) >= 3
    PROVE  Policy!compute_median(g) \in lo..hi
<1>1. /\ n \in Nat \ {0} /\ DOMAIN g \in SUBSET (0..(n - 1))
      /\ (\A i \in DOMAIN g : g[i] = s[i]) /\ Quoted(g, a, b)
  BY FenceKeepsQuartiles
<1>2. /\ \A k \in 0..(n - 1) : s[k] \in Nat
      /\ \A k, m \in 0..(n - 1) : k <= m => s[k] <= s[m]
  BY SortedRanks
<1>3. PICK I, c : I = DOMAIN g /\ c = Cardinality(I)
  OBVIOUS
<1>4. c \in Nat \ {0} /\ c >= 3 /\ IsFiniteSet(I) /\ Family(g) /\ I # {} /\ I \in SUBSET (0..(n - 1))
  BY <1>1, <1>3, QuotedCount DEF Quoted
<1>5. PICK k, m \in Nat : \E l, u \in Nat :
              /\ m = c \div 2
              /\ k <= m /\ 2 * k + 2 >= c
              /\ IsKth(g, k, l) /\ IsKth(g, m, u)
              /\ l <= compute_median(g) /\ compute_median(g) <= u
              /\ compute_median(g) \in Nat
  BY <1>3, <1>4, MedianRanks
<1>6. PICK l, u \in Nat : /\ m = c \div 2 /\ k <= m /\ 2 * k + 2 >= c
              /\ IsKth(g, k, l) /\ IsKth(g, m, u)
              /\ l <= compute_median(g) /\ compute_median(g) <= u
              /\ compute_median(g) \in Nat
  BY <1>5
<1>7. lo <= l
  <2>1. PICK X : X = AtMost(g, l)
    OBVIOUS
  <2>2. IsFiniteSet(X) /\ Cardinality(X) \in Nat /\ k < Cardinality(X)
    BY <1>4, <1>6, <2>1, RankSets DEF IsKth
  <2>3. Cardinality(X) > 1
    BY <1>4, <1>6, <2>2
  <2>4. PICK j \in X : j # 0
    BY <2>2, <2>3, AnotherMember
  <2>5. j \in I /\ g[j] <= l
    BY <1>3, <2>1, <2>4 DEF AtMost
  <2>6. j \in 0..(n - 1) /\ g[j] = s[j] /\ 1 \in 0..(n - 1) /\ 1 <= j /\ 1 \in 1..(n - 2)
    BY <1>1, <1>3, <1>4, <2>4, <2>5
  <2>7. s[1] <= s[j] /\ s[1] \in Nat /\ s[j] \in Nat
    BY <1>2, <2>6
  <2>8. lo <= s[1]
    BY <2>6, InnerEntriesHonest
  <2> QED  BY <1>6, <2>5, <2>6, <2>7, <2>8 DEF Honest
<1>8. u <= hi
  <2>1. PICK L : L = Below(g, u)
    OBVIOUS
  <2>2. L \in SUBSET I /\ IsFiniteSet(L) /\ Cardinality(L) <= m /\ Cardinality(L) \in Nat
    BY <1>3, <1>4, <1>6, <2>1, RankSets DEF IsKth, Below
  <2>3. PICK X : X = I \ L
    OBVIOUS
  <2>4. IsFiniteSet(X) /\ X \cup L = I /\ X \cap L = {}
    BY <1>4, <2>2, <2>3, FS_Subset
  <2>5. Cardinality(X \cup L) = Cardinality(X) + Cardinality(L) - Cardinality(X \cap L)
    BY <2>2, <2>4, FS_Union
  <2>6. Cardinality(X \cap L) = 0 /\ Cardinality(X) \in Nat
    BY <2>4, FS_EmptySet, FS_CardinalityType
  <2>7. Cardinality(X) > 1
    <3>1. 2 * m <= c
      BY <1>4, <1>6
    <3> QED  BY <1>3, <1>4, <1>6, <2>2, <2>4, <2>5, <2>6, <3>1
  <2>8. PICK e \in Int, d \in Int : e = n - 1 /\ d = n - 2
    BY <1>1
  <2>9. PICK j \in X : j # e
    BY <2>4, <2>7, AnotherMember
  <2>10. j \in I /\ ~(g[j] < u)
    BY <1>3, <2>1, <2>3, <2>9 DEF Below
  <2>11. j \in 0..(n - 1) /\ g[j] = s[j] /\ d \in 0..(n - 1) /\ j <= d /\ d \in 1..(n - 2)
    BY <1>1, <1>3, <1>4, <2>8, <2>9, <2>10
  <2>12. s[j] <= s[d] /\ s[d] \in Nat /\ s[j] \in Nat
    BY <1>2, <2>11
  <2>13. s[d] <= hi
    BY <2>11, InnerEntriesHonest
  <2> QED  BY <1>6, <2>10, <2>11, <2>12, <2>13 DEF Honest
<1>9. Policy!compute_median(g) = compute_median(g)
  BY SameMedian
<1> QED  BY <1>6, <1>7, <1>8, <1>9 DEF Honest

\* One contributor of three or more decides nothing when the trimming takes
\* something off each end, and with the median or with a tolerance of less than
\* a third of the contributors also when it does not.
LEMMA FaultTolerantHonest ==
    ASSUME NEW f, NEW a, NEW b, Quoted(f, a, b), setting.tolerance \in Nat, setting.tolerance > 0,
           NEW U, NEW lo, NEW hi, Honest(f, U, lo, hi),
           NEW n, n = Cardinality(DOMAIN f), n >= 3,
           setting.bft_method = 0 \/ n = 3 \/ 3 * setting.tolerance < n
    PROVE  Policy!aggregate_bft_prices(f) \in lo..hi
<1>1. PICK s, g, I, c, q :
        /\ s = Policy!Sorted(f) /\ g = Policy!Fenced(s)
        /\ I = DOMAIN g /\ c = Cardinality(I) /\ q = setting.tolerance
  OBVIOUS
<1>2. /\ n \in Nat \ {0} /\ I \in SUBSET (0..(n - 1)) /\ Quoted(g, a, b)
      /\ n < 4 => I = 0..(n - 1)
      /\ n >= 4 => Around(I, n)
  BY <1>1, FenceKeepsQuartiles DEF Around
<1>3. c \in Nat /\ n \in Nat /\ IsFiniteSet(I) /\ I # {} /\ q \in Nat /\ q >= 1
  BY <1>1, <1>2, QuotedCount DEF Quoted
<1>4. c >= 2 /\ (n = 3 => c = 3)
  <2>1. CASE n >= 4
    BY <1>1, <1>2, <1>3, <2>1, AroundTwo
  <2>2. CASE n < 4
    <3>1. n = 3 /\ I = 0..2
      BY <1>2, <1>3, <2>2
    <3>2. PICK x \in Int, y \in Int : x = 0 /\ y = 2
      OBVIOUS
    <3>3. Cardinality(x..y) = IF x > y THEN 0 ELSE y - x + 1
      BY FS_Interval
    <3> QED  BY <1>1, <3>1, <3>2, <3>3
  <2> QED  BY <1>3, <2>1, <2>2
<1>5. PICK t : t = Policy!Least(q, c \div 2)
  OBVIOUS
<1>6. t \in Nat /\ t <= q /\ 2 * t <= c /\ t >= 1
  BY <1>3, <1>4, <1>5, TrimmedOff
<1>7. Policy!aggregate_bft_prices(f) =
        Policy!ByMethod(setting.bft_method, IF c > t * 2 THEN Policy!Trimmed(g, t) ELSE g)
  BY <1>1, <1>5, SameCount DEF Policy!aggregate_bft_prices, Policy!Count
<1>8. ASSUME NEW J, J \in SUBSET I, J # {}, \A i \in J : 1 <= i /\ i <= n - 2
      PROVE  Policy!ByMethod(setting.bft_method, Policy!Only(g, J)) \in lo..hi
  <2>1. Quoted(Policy!Only(g, J), lo, hi)
    BY <1>1, <1>8, HonestPart
  <2> QED  BY <2>1, ByMethodInside
<1>9. CASE c > t * 2
  <2>1. PICK J : J = Inner(I, t)
    OBVIOUS
  <2>2. PICK m \in Nat : m = n - 1
    BY <1>2
  <2>3. J # {} /\ J \in SUBSET I
    <3>1. I \in SUBSET (0..m) /\ 2 * t < Cardinality(I)
      BY <1>1, <1>2, <1>3, <1>6, <1>9, <2>2
    <3>2. J # {}
      BY <1>6, <2>1, <3>1, InnerLeft
    <3>3. J \in SUBSET I
      BY <2>1 DEF Inner
    <3> QED  BY <3>2, <3>3
  <2>4. \A i \in J : 1 <= i /\ i <= n - 2
    BY <1>2, <1>3, <1>6, <2>1, InnerIsInterior
  <2>5. Policy!Trimmed(g, t) = Policy!Only(g, J)
    BY <1>1, <2>1, TrimmedIsInner
  <2> QED  BY <1>7, <1>8, <1>9, <2>3, <2>4, <2>5
<1>10. CASE ~(c > t * 2)
  <2>1. Policy!aggregate_bft_prices(f) = Policy!ByMethod(setting.bft_method, g)
    BY <1>7, <1>10
  <2>2. c = 2 * t /\ n >= 4
    BY <1>3, <1>4, <1>6, <1>10
  <2>3. g = Policy!Only(g, I)
    BY <1>1, <1>2 DEF Policy!Only, Quoted
  <2>4. CASE \A i \in I : 1 <= i /\ i <= n - 2
    <3>1. Policy!ByMethod(setting.bft_method, Policy!Only(g, I)) \in lo..hi
      BY <1>3, <1>8, <2>4
    <3> QED  BY <2>1, <2>3, <3>1, Zenon
  <2>5. CASE 3 * q < n
    <3>1. Cardinality(I) <= 2 * q
      BY <1>1, <1>3, <1>6, <2>2
    <3>2. \A i \in I : 1 <= i /\ i <= n - 2
      BY <1>2, <1>3, <2>2, <2>5, <3>1, AroundFew
    <3> QED  BY <2>4, <3>2
  <2>6. CASE c = 2
    <3>1. \A i \in I : 1 <= i /\ i <= n - 2
      BY <1>1, <1>2, <1>3, <2>2, <2>6, AroundTwo
    <3> QED  BY <2>4, <3>1
  <2>7. CASE setting.bft_method = 0 /\ c # 2
    <3>1. Cardinality(DOMAIN g) >= 3
      BY <1>1, <1>3, <1>4, <2>7
    <3>2. Policy!compute_median(g) \in lo..hi
      BY <1>1, <3>1, FencedMedianHonest
    <3> QED  BY <2>1, <2>7, <3>2 DEF Policy!ByMethod
  <2> QED  BY <1>1, <1>3, <2>2, <2>5, <2>6, <2>7
<1> QED  BY <1>9, <1>10

\* The weight of an entry falls with its age from W_MAX to the curve's least.
LEMMA WeightInRange ==
    ASSUME NEW age \in Nat, setting.curve.window_secs \in Nat \ {0},
           setting.curve.min_weight \in 1..Policy!W_MAX
    PROVE  Policy!weight_for_age(age) \in 1..Policy!W_MAX
<1>0. Policy!W_MAX \in Nat
  BY DEF Policy!W_MAX
<1>1. PICK win \in Nat \ {0}, low \in Nat : /\ win = setting.curve.window_secs
                                            /\ low = setting.curve.min_weight
                                            /\ low >= 1 /\ low <= Policy!W_MAX
  BY <1>0
<1>2. PICK x \in Nat : x = Policy!Least(age, win) /\ x <= win
  BY DEF Policy!Least
<1>3. PICK drop \in Nat : drop = Policy!W_MAX - low
  BY <1>0, <1>1
<1>4. PICK a \in Int : a = drop * x /\ 0 <= a /\ a < win * drop + win
  <2>1. drop * x \in Int /\ drop * win \in Int /\ drop * x <= drop * win
    BY <1>2, ProductGrows
  <2>2. 0 <= drop * x
    <3>1. drop * 0 <= drop * x
      BY ProductGrows
    <3> QED  BY <3>1
  <2> QED  BY <2>1, <2>2
<1>5. a \div win <= drop
  BY <1>4, DivAtMost
<1>6. 0 <= a \div win
  <2>1. win * 0 <= a
    BY <1>4
  <2> QED  BY <2>1, DivAtLeast
<1>7. Policy!weight_for_age(age) = Policy!W_MAX - (a \div win)
  BY <1>1, <1>2, <1>3, <1>4 DEF Policy!weight_for_age
<1>8. a \div win \in Int
  BY DivLaw
<1> QED  BY <1>0, <1>1, <1>3, <1>5, <1>6, <1>7, <1>8

\* Weights by contributor.
Weights(D) == [D -> 1..Policy!W_MAX]

LEMMA GreaterOfTwo ==
    ASSUME NEW m \in Int
    PROVE  Policy!Max({m, 1}) \in {m, 1} /\ Policy!Max({m, 1}) >= 1
<1>1. \E x \in {m, 1} : \A y \in {m, 1} : x >= y
  <2>1. CASE m >= 1
    BY <2>1
  <2>2. CASE ~(m >= 1)
    BY <2>2
  <2> QED  BY <2>1, <2>2
<1>2. Policy!Max({m, 1}) = CHOOSE x \in {m, 1} : \A y \in {m, 1} : x >= y
  BY Zenon DEF Policy!Max
<1>3. Policy!Max({m, 1}) \in {m, 1} /\ \A y \in {m, 1} : Policy!Max({m, 1}) >= y
  BY <1>1, <1>2, Zenon
<1> QED  BY <1>3

\* One pass raises no weight and leaves each at least one.
LEMMA PassLowers ==
    ASSUME NEW D, IsFiniteSet(D), NEW x \in Weights(D), NEW cap \in Nat, cap < 10000
    PROVE  /\ Policy!CapPass(x, cap) \in Weights(D)
           /\ \A i \in D : Policy!CapPass(x, cap)[i] <= x[i]
<1>0. Policy!W_MAX \in Nat
  BY DEF Policy!W_MAX
<1>1. DOMAIN x = D /\ x \in [D -> Int] /\ \A i \in D : x[i] \in Int /\ 1 <= x[i] /\ x[i] <= Policy!W_MAX
  BY <1>0 DEF Weights
<1>2. PICK total \in Int : total = Policy!Total(x, D)
  <2>1. \E A : Additive(x, D, A) /\ SumOver(x, D) = A[D]
    BY <1>1, SumIsAdditive
  <2>2. SumOver(x, D) \in Int
    BY <2>1 DEF Additive
  <2> QED  BY <2>2, SameTotal
<1>3. PICK rest \in Nat \ {0} : rest = 10000 - cap
  OBVIOUS
<1> DEFINE max(i) == ((total - x[i]) * cap) \div rest
<1>5. ASSUME NEW i \in D
      PROVE  max(i) \in Int
  <2>1. PICK a \in Int : a = (total - x[i]) * cap
    BY <1>1
  <2>2. max(i) = a \div rest
    BY <2>1
  <2> QED  BY <2>2, DivLaw
<1>6. Policy!CapPass(x, cap) = [i \in D |-> IF x[i] > max(i) THEN Policy!Max({max(i), 1}) ELSE x[i]]
  BY <1>1, <1>2, <1>3 DEF Policy!CapPass, Policy!BPS
<1> HIDE DEF max
<1>7. PICK y : y = Policy!CapPass(x, cap)
  OBVIOUS
<1>8. ASSUME NEW i \in D
      PROVE  y[i] \in 1..Policy!W_MAX /\ y[i] <= x[i]
  <2>1. y[i] = IF x[i] > max(i) THEN Policy!Max({max(i), 1}) ELSE x[i]
    BY <1>6, <1>7, <1>8
  <2>2. PICK k \in Int : k = max(i)
    BY <1>5, <1>8
  <2>3. Policy!Max({k, 1}) \in {k, 1} /\ Policy!Max({k, 1}) >= 1
    BY GreaterOfTwo
  <2>4. PICK z : z = Policy!Max({k, 1})
    OBVIOUS
  <2>5. (z = k \/ z = 1) /\ z >= 1 /\ y[i] = IF x[i] > k THEN z ELSE x[i]
    BY <2>1, <2>2, <2>3, <2>4
  <2> QED  BY <1>0, <1>1, <1>8, <2>2, <2>5
<1>9. y \in Weights(D)
  BY <1>6, <1>7, <1>8 DEF Weights
<1> QED  BY <1>7, <1>8, <1>9

\* The passes of the loop, counted from none.
Lowering(m, P, w, it) == it = [k \in 0..m |-> IF k = 0 THEN w ELSE P[it[k - 1]]]

LEMMA LoweringExists ==
    ASSUME NEW m \in Nat, NEW Y, NEW P \in [Y -> Y], NEW w \in Y
    PROVE  \E it : Lowering(m, P, w, it)
<1>1. PICK F : F = [ky \in (1..m) \X Y |-> P[ky[2]]]
  OBVIOUS
<1>2. F \in [(1..m) \X Y -> Y]
  BY <1>1
<1>3. PICK A : ListFold(m, Y, F, w, A)
  BY <1>2, ListFoldExists
<1>4. PICK it : it = [k \in 0..m |-> A[1..k]]
  OBVIOUS
<1>5. ASSUME NEW k \in 0..m
      PROVE  it[k] = IF k = 0 THEN w ELSE P[it[k - 1]]
  <2>1. CASE k = 0
    <3>1. 1..k = {}
      BY <2>1
    <3> QED  BY <1>3, <1>4, <2>1, <3>1 DEF ListFold
  <2>2. CASE k # 0
    <3>1. k \in Nat /\ k - 1 \in 0..m /\ k \in 1..m
      BY <1>5, <2>2
    <3>2. Top(1..k) = k /\ (1..k) \ {k} = 1..(k - 1)
      BY <2>2, <3>1, PrefixStep
    <3>3. 1..k \in SUBSET (1..m) /\ 1..k # {} /\ 1..(k - 1) \in SUBSET (1..m)
      BY <3>1
    <3>4. A[1..k] = F[<<k, A[1..(k - 1)]>>] /\ A[1..(k - 1)] \in Y
      <4>1. A[1..k] = F[<<Top(1..k), A[(1..k) \ {Top(1..k)}]>>] /\ A[1..(k - 1)] \in Y
        BY <1>3, <3>3, Zenon DEF ListFold
      <4> QED  BY <3>2, <4>1, Zenon
    <3>5. F[<<k, A[1..(k - 1)]>>] = P[A[1..(k - 1)]]
      BY <1>1, <3>1, <3>4
    <3>6. it[k] = A[1..k] /\ it[k - 1] = A[1..(k - 1)]
      BY <1>4, <1>5, <3>1
    <3> QED  BY <2>2, <3>4, <3>5, <3>6
  <2> QED  BY <2>1, <2>2
<1>6. it = [k \in 0..m |-> IF k = 0 THEN w ELSE P[it[k - 1]]]
  BY <1>4, <1>5
<1> QED  BY <1>6 DEF Lowering

\* However many passes, no weight is raised.
LEMMA Lowered ==
    ASSUME NEW D, NEW P \in [Weights(D) -> Weights(D)], NEW w \in Weights(D),
           \A x \in Weights(D) : \A i \in D : P[x][i] <= x[i],
           NEW m \in Nat, NEW v, v = (CHOOSE it : Lowering(m, P, w, it))[m]
    PROVE  v \in Weights(D) /\ \A i \in D : v[i] <= w[i]
<1>0. Policy!W_MAX \in Nat
  BY DEF Policy!W_MAX
<1>1. PICK low : low = CHOOSE it : Lowering(m, P, w, it)
  OBVIOUS
<1>2. Lowering(m, P, w, low)
  <2>1. \E it : Lowering(m, P, w, it)
    BY LoweringExists
  <2> QED  BY <1>1, <2>1, Zenon
<1>3. \A k \in 0..m : low[k] = IF k = 0 THEN w ELSE P[low[k - 1]]
  <2>1. low = [k \in 0..m |-> IF k = 0 THEN w ELSE P[low[k - 1]]]
    BY <1>2, Zenon DEF Lowering
  <2> QED  BY <2>1, Zenon
<1>4. PICK G : G = {k \in 0..m : low[k] \in Weights(D) /\ \A i \in D : low[k][i] <= w[i]}
  OBVIOUS
<1>5. 0 \in G
  <2>1. 0 \in 0..m /\ low[0] = w
    BY <1>3
  <2>2. \A i \in D : w[i] <= w[i]
    BY <1>0 DEF Weights
  <2> QED  BY <1>4, <2>1, <2>2
<1>6. ASSUME NEW k \in 0..m, k \in G, k < m
      PROVE  k + 1 \in G
  <2>1. k + 1 \in 0..m /\ k + 1 # 0 /\ (k + 1) - 1 = k
    BY <1>6
  <2>2. PICK x \in Weights(D) : x = low[k] /\ \A i \in D : x[i] <= w[i]
    BY <1>4, <1>6
  <2>3. low[k + 1] = P[x]
    BY <1>3, <2>1, <2>2
  <2>4. PICK y \in Weights(D) : y = P[x] /\ \A i \in D : y[i] <= x[i]
    BY <2>2
  <2>5. \A i \in D : y[i] <= w[i]
    BY <1>0, <2>2, <2>4 DEF Weights
  <2> QED  BY <1>4, <2>1, <2>3, <2>4, <2>5
<1>7. m \in G
  <2>1. \A k \in 0..m : k \in G
    BY <1>5, <1>6, Climb
  <2> QED  BY <2>1
<1> QED  BY <1>1, <1>4, <1>7

\* The loop of the cap, and what is done with what it leaves.
LoweredBy(w, cap, D, n) ==
    (CHOOSE it : Lowering(n * 4, [x \in Weights(D) |-> Policy!CapPass(x, cap)], w, it))[n * 4]

CapOf(w, cap, n, v) ==
    CASE n < 3 \/ cap >= Policy!BPS -> w
      [] n >= 3 /\ n * cap < Policy!BPS -> Policy!Equal(w)
      [] OTHER -> IF Policy!within_cap(v, cap) THEN v ELSE Policy!Equal(w)

LEMMA CapUnfolds ==
    ASSUME NEW w, NEW cap
    PROVE  Policy!apply_cap(w, cap) =
             CapOf(w, cap, Policy!Count(w), LoweredBy(w, cap, DOMAIN w, Policy!Count(w)))
BY Zenon DEF Policy!apply_cap, CapOf, LoweredBy, Lowering, Weights

\* A sum of weights and what one of them leaves.
LEMMA WeightSums ==
    ASSUME NEW D, IsFiniteSet(D), NEW w \in Weights(D)
    PROVE  \E A : /\ Additive(w, D, A) /\ Policy!Total(w, D) = A[D] /\ A[D] \in Int
                  /\ w \in [D -> Int] /\ (\A i \in D : 0 <= w[i] /\ 1 <= w[i])
                  /\ \A i \in D : w[i] <= A[D] /\ A[D] = w[i] + A[D \ {i}] /\ A[D \ {i}] \in Int
<1>1. Policy!W_MAX \in Nat
  BY DEF Policy!W_MAX
<1>2. w \in [D -> Int] /\ \A i \in D : 0 <= w[i] /\ 1 <= w[i]
  BY <1>1 DEF Weights
<1>3. PICK A : Additive(w, D, A) /\ SumOver(w, D) = A[D]
  BY <1>2, SumIsAdditive
<1>4. ASSUME NEW i \in D
      PROVE  w[i] <= A[D] /\ A[D] = w[i] + A[D \ {i}] /\ A[D \ {i}] \in Int
  <2>1. PICK R \in SUBSET D : R = D \ {i}
    OBVIOUS
  <2>2. A[R] \in Int /\ 0 <= A[R]
    BY <1>2, <1>3, SumNotNegative
  <2>3. A[D] = w[i] + A[D \ {i}]
    BY <1>3, <1>4 DEF Additive
  <2> QED  BY <1>2, <1>4, <2>1, <2>2, <2>3
<1>5. A[D] \in Int /\ Policy!Total(w, D) = A[D]
  BY <1>3, SameTotal DEF Additive
<1> QED  BY <1>2, <1>3, <1>4, <1>5

\* Equal weights: their sum is their number.
LEMMA EqualWeights ==
    ASSUME NEW D, IsFiniteSet(D), NEW w \in Weights(D), NEW n, n = Cardinality(D),
           NEW e, e = Policy!Equal(w)
    PROVE  /\ e \in Weights(D) /\ \A i \in D : e[i] = 1 /\ e[i] <= w[i]
           /\ Policy!Total(e, D) = n /\ n \in Nat
<1>1. Policy!W_MAX \in Nat /\ Policy!W_MAX >= 1
  BY DEF Policy!W_MAX
<1>2. DOMAIN w = D /\ e = [i \in D |-> 1]
  BY DEF Policy!Equal, Weights
<1>3. e \in Weights(D) /\ e \in [D -> Int] /\ \A i \in D : e[i] = 1 /\ e[i] <= w[i]
  BY <1>1, <1>2 DEF Weights
<1>4. PICK A : Additive(e, D, A) /\ SumOver(e, D) = A[D]
  BY <1>3, SumIsAdditive
<1>5. D \in SUBSET D /\ \A i \in D : e[i] = IF i \in D THEN 1 ELSE 0
  BY <1>3
<1>6. A[D] = Cardinality(D) /\ Cardinality(D) \in Nat
  BY <1>3, <1>4, <1>5, SumCounts
<1> QED  BY <1>3, <1>4, <1>6, SameTotal

\* The weights the cap leaves: none raised, none above the cap when it can be
\* met, and none as heavy as the others together under a cap below one half.
CapHolds(D, w, cap, n, v) ==
    /\ v \in Weights(D) /\ \A i \in D : v[i] <= w[i]
    /\ n >= 3 /\ n * cap >= Policy!BPS => Policy!within_cap(v, cap)
    /\ n >= 3 /\ cap < 5000 => \A i \in D : 2 * v[i] < Policy!Total(v, D)

LEMMA EqualHolds ==
    ASSUME NEW D, IsFiniteSet(D), NEW w \in Weights(D), NEW n, n = Cardinality(D), NEW cap \in Nat
    PROVE  CapHolds(D, w, cap, n, Policy!Equal(w))
<1>1. PICK e : e = Policy!Equal(w)
  OBVIOUS
<1>2. /\ e \in Weights(D) /\ \A i \in D : e[i] = 1 /\ e[i] <= w[i]
      /\ Policy!Total(e, D) = n /\ n \in Nat
  BY <1>1, EqualWeights
<1>3. DOMAIN e = D
  BY <1>2 DEF Weights
<1>4. ASSUME n * cap >= Policy!BPS
      PROVE  Policy!within_cap(e, cap)
  <2>1. \A i \in D : 1 * Policy!BPS <= cap * n
    BY <1>2, <1>4 DEF Policy!BPS
  <2> QED  BY <1>2, <1>3, <2>1 DEF Policy!within_cap
<1>5. n >= 3 => \A i \in D : 2 * e[i] < Policy!Total(e, D)
  BY <1>2
<1> QED  BY <1>1, <1>2, <1>4, <1>5 DEF CapHolds

LEMMA WithinHolds ==
    ASSUME NEW D, IsFiniteSet(D), NEW w, NEW v \in Weights(D), \A i \in D : v[i] <= w[i],
           NEW n, NEW cap \in Nat, Policy!within_cap(v, cap)
    PROVE  CapHolds(D, w, cap, n, v)
<1>1. PICK A : /\ Policy!Total(v, D) = A[D] /\ A[D] \in Int /\ v \in [D -> Int]
               /\ \A i \in D : 1 <= v[i] /\ v[i] <= A[D]
  BY WeightSums
<1>2. ASSUME cap < 5000, NEW i \in D
      PROVE  2 * v[i] < Policy!Total(v, D)
  <2>1. PICK x \in Int, t \in Nat : x = v[i] /\ t = A[D] /\ 1 <= x /\ x <= t
    BY <1>1, <1>2
  <2>2. x * 10000 <= cap * t
    BY <1>1, <1>2, <2>1 DEF Policy!within_cap, Policy!BPS, Weights
  <2>3. t * cap <= t * 4999
    BY <1>2, ProductGrows
  <2> QED  BY <1>1, <2>1, <2>2, <2>3
<1> QED  BY <1>2 DEF CapHolds

LEMMA CapLaw ==
    ASSUME NEW D, IsFiniteSet(D), NEW w \in Weights(D), NEW n, n = Cardinality(D), NEW cap \in Nat
    PROVE  CapHolds(D, w, cap, n, Policy!apply_cap(w, cap))
<1>1. n \in Nat /\ Policy!BPS = 10000 /\ DOMAIN w = D
  BY FS_CardinalityType DEF Policy!BPS, Weights
<1>2. PICK P, v, r : /\ P = [x \in Weights(D) |-> Policy!CapPass(x, cap)]
                     /\ v = LoweredBy(w, cap, D, n)
                     /\ r = Policy!apply_cap(w, cap)
  OBVIOUS
<1>3. r = CapOf(w, cap, n, v)
  <2>1. Policy!Count(w) = n
    BY <1>1, SameCount DEF Policy!Count
  <2> QED  BY <1>1, <1>2, <2>1, CapUnfolds, Zenon
<1>4. CapHolds(D, w, cap, n, Policy!Equal(w))
  BY EqualHolds
<1>5. PICK A : /\ Policy!Total(w, D) = A[D] /\ A[D] \in Int /\ w \in [D -> Int]
               /\ \A i \in D : 1 <= w[i] /\ w[i] <= A[D]
  BY WeightSums
<1>6. CASE cap >= Policy!BPS
  <2>1. r = w
    <3>1. n >= 3 => ~(n * cap < Policy!BPS)
      <4> HAVE n >= 3
      <4>1. cap * 3 <= cap * n
        BY <1>1, ProductGrows
      <4> QED  BY <1>1, <1>6, <4>1
    <3> QED  BY <1>3, <1>6, <3>1 DEF CapOf
  <2>2. ASSUME NEW i \in D
        PROVE  w[i] * Policy!BPS <= cap * Policy!Total(w, D)
    <3>1. PICK x \in Int, t \in Nat : x = w[i] /\ t = A[D] /\ 1 <= x /\ x <= t
      BY <1>5, <2>2
    <3>2. 10000 * x <= 10000 * t /\ t * 10000 <= t * cap
      BY <1>1, <1>6, <3>1, ProductGrows
    <3> QED  BY <1>1, <1>5, <3>1, <3>2
  <2>3. Policy!within_cap(w, cap)
    BY <1>1, <2>2 DEF Policy!within_cap
  <2>4. \A i \in D : w[i] <= w[i]
    BY <1>5
  <2> QED  BY <1>2, <2>1, <2>3, <2>4, WithinHolds
<1>7. CASE n < 3
  <2>1. r = w
    BY <1>1, <1>3, <1>7 DEF CapOf
  <2>2. \A i \in D : w[i] <= w[i]
    BY <1>5
  <2> QED  BY <1>1, <1>2, <1>7, <2>1, <2>2 DEF CapHolds
<1>8. CASE ~(cap >= Policy!BPS) /\ n >= 3
  <2>1. cap < 10000
    BY <1>1, <1>8
  <2>2. P \in [Weights(D) -> Weights(D)] /\ \A x \in Weights(D) : \A i \in D : P[x][i] <= x[i]
    BY <1>2, <2>1, PassLowers
  <2>3. v \in Weights(D) /\ \A i \in D : v[i] <= w[i]
    <3>1. PICK m \in Nat : m = n * 4
      BY <1>1
    <3>2. v = (CHOOSE it : Lowering(m, P, w, it))[m]
      BY <1>2, <3>1, Zenon DEF LoweredBy
    <3> QED  BY <2>2, <3>2, Lowered
  <2>4. r = Policy!Equal(w) \/ (r = v /\ Policy!within_cap(v, cap))
    BY <1>1, <1>3, <1>8 DEF CapOf
  <2> QED  BY <1>2, <1>4, <2>3, <2>4, WithinHolds
<1> QED  BY <1>1, <1>6, <1>7, <1>8

-----------------------------------------------------------------------------
(* The rounds of AggregationPolicy *)

\* What every reachable state keeps of the entries a round reads.
EntriesKept ==
    /\ instant \in Nat
    /\ submitted = [r \in DOMAIN submitted |-> submitted[r]]
    /\ DOMAIN submitted \in SUBSET Reporters
    /\ \A r \in DOMAIN submitted : submitted[r].price \in Nat /\ submitted[r].at \in 0..instant
SettingKept ==
    /\ DOMAIN setting = {"method", "min_sources", "class", "in_class", "asset", "tier", "enforced",
                         "asset_window", "default_window", "noted", "outlier", "curve", "cap",
                         "tolerance", "bft_method"}
    /\ setting.min_sources \in Nat /\ setting.tolerance \in Nat /\ setting.cap \in Nat
    /\ setting.curve.window_secs \in Nat \ {0} /\ setting.curve.min_weight \in 1..Policy!W_MAX
PolicyKept == EntriesKept /\ SettingKept

\* The prices f of the contributors K, whose entries are held.
Contributed(K, held, f) ==
    /\ K \in SUBSET DOMAIN submitted
    /\ held = Policy!Only(submitted, K)
    /\ f = Policy!PricesOf(held, K)

LEMMA ContributedPrices ==
    ASSUME PolicyKept, NEW K, NEW held, NEW f, Contributed(K, held, f)
    PROVE  /\ IsFiniteSet(K) /\ Cardinality(K) \in Nat /\ K \in SUBSET Reporters
           /\ DOMAIN held = K /\ \A r \in K : held[r] = submitted[r]
           /\ f \in [K -> Nat] /\ DOMAIN f = K /\ \A r \in K : f[r] = submitted[r].price
<1>1. K \in SUBSET Reporters
  BY DEF PolicyKept, EntriesKept, Contributed
<1>2. IsFiniteSet(K) /\ Cardinality(K) \in Nat
  BY <1>1, PolicyAssumption, FS_Subset, FS_CardinalityType
<1>3. DOMAIN held = K /\ \A r \in K : held[r] = submitted[r]
  BY DEF Contributed, Policy!Only
<1>4. f = [r \in K |-> held[r].price]
  BY DEF Contributed, Policy!PricesOf
<1>5. \A r \in K : submitted[r].price \in Nat
  BY DEF PolicyKept, EntriesKept, Contributed
<1> QED  BY <1>1, <1>2, <1>3, <1>4, <1>5

LEMMA ContributedWeights ==
    ASSUME PolicyKept, NEW K, NEW held, NEW f, Contributed(K, held, f)
    PROVE  \E w : /\ w \in Weights(K)
                  /\ \A r \in K : w[r] = Policy!weight_for_age(Policy!Age(submitted[r]))
                  /\ CapHolds(K, w, setting.cap, Cardinality(K), Policy!Capped(held))
<1>1. PICK w : w = [r \in K |-> Policy!weight_for_age(Policy!Age(submitted[r]))]
  OBVIOUS
<1>2. /\ IsFiniteSet(K) /\ K \in SUBSET DOMAIN submitted
      /\ DOMAIN held = K /\ \A r \in K : held[r] = submitted[r]
  BY ContributedPrices DEF Contributed
<1>3. ASSUME NEW r \in K
      PROVE  w[r] \in 1..Policy!W_MAX
  <2>1. PICK age : age = Policy!Age(submitted[r])
    OBVIOUS
  <2>2. PICK x \in Nat, period \in Nat : x = instant - submitted[r].at /\ period = Period
    BY <1>2, <1>3, PolicyAssumption DEF PolicyKept, EntriesKept
  <2>3. age \in Nat
    <3>1. age = x * period
      BY <2>1, <2>2 DEF Policy!Age
    <3> QED  BY <3>1
  <2>4. Policy!weight_for_age(age) \in 1..Policy!W_MAX
    BY <2>3, WeightInRange DEF PolicyKept, SettingKept
  <2> QED  BY <1>1, <1>3, <2>1, <2>4
<1>4. w \in Weights(K)
  BY <1>1, <1>3 DEF Weights
<1>5. Policy!Capped(held) = Policy!apply_cap(w, setting.cap)
  <2>1. w = [r \in DOMAIN held |-> Policy!weight_for_age(Policy!Age(held[r]))]
    BY <1>1, <1>2
  <2> QED  BY <2>1 DEF Policy!Capped
<1>6. PICK cap \in Nat : cap = setting.cap
  BY DEF PolicyKept, SettingKept
<1>7. CapHolds(K, w, cap, Cardinality(K), Policy!apply_cap(w, cap))
  BY <1>2, <1>4, CapLaw
<1> QED  BY <1>1, <1>4, <1>5, <1>6, <1>7

\* The prices of some contributors bound them.
LEMMA Bounds ==
    ASSUME NEW K, IsFiniteSet(K), NEW f \in [K -> Nat], NEW U \in SUBSET K, U # {}
    PROVE  \E r, s \in U : /\ f[r] \in Nat /\ f[s] \in Nat
                           /\ \A i \in U : f[r] <= f[i] /\ f[i] <= f[s]
<1>1. PICK r, s \in U : \A i \in U : f[r] <= f[i] /\ f[i] <= f[s]
  BY Extremes
<1> QED  BY <1>1

\* Either the weighted median or one of the other methods.
LEMMA PriceUnfolds ==
    ASSUME PolicyKept, NEW K, NEW held, NEW f, Contributed(K, held, f), NEW p, p = Policy!Price(held)
    PROVE  /\ Policy!apply_to_policy.method = 4 /\ setting.tolerance = 0
                => p = Policy!weighted_median(f, Policy!Capped(held))
           /\ ~(Policy!apply_to_policy.method = 4 /\ setting.tolerance = 0)
                => p = Policy!aggregate_prices(f)
<1>1. DOMAIN held = K
  BY ContributedPrices
<1>2. f = Policy!PricesOf(held, DOMAIN held)
  BY <1>1 DEF Contributed
<1> QED  BY <1>2 DEF Policy!Price

LEMMA PriceInside ==
    ASSUME PolicyKept, NEW K, NEW held, NEW f, Contributed(K, held, f), K # {},
           NEW p, p = Policy!Price(held)
    PROVE  \E r, s \in K : f[r] <= p /\ p <= f[s]
<1>1. IsFiniteSet(K) /\ K \in SUBSET Reporters /\ f \in [K -> Nat] /\ DOMAIN f = K
  BY ContributedPrices
<1>2. CASE Policy!apply_to_policy.method = 4 /\ setting.tolerance = 0
  <2>1. PICK v \in Weights(K) : v = Policy!Capped(held)
    BY ContributedWeights DEF CapHolds
  <2>2. PICK A : /\ Additive(v, K, A) /\ v \in [K -> Int] /\ (\A i \in K : 0 <= v[i] /\ 1 <= v[i])
                 /\ A[K] \in Int /\ \A i \in K : v[i] <= A[K]
    BY <1>1, WeightSums
  <2>3. 2 * A[K] > A[K]
    <3>1. PICK i \in K : TRUE
      OBVIOUS
    <3>2. v[i] \in Int /\ 1 <= v[i] /\ v[i] <= A[K]
      BY <2>2
    <3> QED  BY <2>2, <3>2
  <2>4. p = Policy!weighted_median(f, v)
    BY <1>2, <2>1, PriceUnfolds
  <2>5. K \in SUBSET K
    OBVIOUS
  <2> QED  BY <1>1, <2>2, <2>3, <2>4, <2>5, WeightedMedianFollowsWeight
<1>3. CASE ~(Policy!apply_to_policy.method = 4 /\ setting.tolerance = 0)
  <2>1. PICK r, s \in K : /\ f[r] \in Nat /\ f[s] \in Nat
                          /\ \A i \in K : f[r] <= f[i] /\ f[i] <= f[s]
    BY <1>1, Bounds
  <2>2. PICK lo \in Nat, hi \in Nat : lo = f[r] /\ hi = f[s]
    BY <2>1
  <2>3. Quoted(f, lo, hi)
    BY <1>1, <2>1, <2>2 DEF Quoted, AllIn
  <2>4. p = Policy!aggregate_prices(f)
    BY <1>3, PriceUnfolds
  <2>5. Policy!aggregate_bft_prices(f) \in lo..hi
    BY <2>3, FaultTolerantInside DEF PolicyKept, SettingKept
  <2>6. Policy!compute_vwap(f, Volume) \in lo..hi
    BY <1>1, <2>3, VwapInside
  <2>7. Policy!ByMethod(Policy!effective_policy.method, f) \in lo..hi
    BY <2>3, ByMethodInside
  <2>8. p \in lo..hi
    BY <2>4, <2>5, <2>6, <2>7 DEF Policy!aggregate_prices
  <2> QED  BY <2>1, <2>2, <2>8
<1> QED  BY <1>2, <1>3

Without(K, x, U) == U = K \ {x}
Most(K, U, n) ==
    /\ U \in SUBSET K /\ U # {} /\ Cardinality(K \ U) <= 1
    /\ 2 * Cardinality(U) > n /\ n \in Nat

\* All contributors but one are more than half of three or more.
LEMMA AllButOne ==
    ASSUME NEW K, IsFiniteSet(K), NEW n, n = Cardinality(K), n >= 3, NEW x, NEW U, Without(K, x, U)
    PROVE  Most(K, U, n)
<1>0. U = K \ {x}
  BY DEF Without
<1>1. n \in Nat /\ U \in SUBSET K /\ IsFiniteSet(U) /\ Cardinality(U) \in Nat
  BY <1>0, FS_CardinalityType, FS_Subset
<1>2. CASE x \in K
  <2>1. Cardinality(U) = n - 1
    BY <1>0, <1>2, FS_RemoveElement
  <2>2. K \ U = {x}
    BY <1>0, <1>2
  <2>3. Cardinality({x}) = 1
    BY FS_Singleton
  <2> QED  BY <1>1, <2>1, <2>2, <2>3, FS_EmptySet DEF Most
<1>3. CASE x \notin K
  <2>1. U = K /\ K \ U = {}
    BY <1>0, <1>3
  <2> QED  BY <1>1, <2>1, FS_EmptySet DEF Most
<1> QED  BY <1>2, <1>3

LEMMA PriceHonest ==
    ASSUME PolicyKept, NEW K, NEW held, NEW f, Contributed(K, held, f),
           NEW n, n = Cardinality(K), n >= 3, Policy!Robust(n),
           NEW U, Without(K, Suspect, U), NEW p, p = Policy!Price(held)
    PROVE  \E r, s \in U : f[r] <= p /\ p <= f[s]
<1>1. IsFiniteSet(K) /\ K \in SUBSET Reporters /\ f \in [K -> Nat] /\ DOMAIN f = K
  BY ContributedPrices
<1>2. /\ U \in SUBSET K /\ U # {} /\ Cardinality(K \ U) <= 1
      /\ 2 * Cardinality(U) > n /\ n \in Nat
  <2>1. Most(K, U, n)
    BY <1>1, AllButOne
  <2> QED  BY <2>1 DEF Most
<1>3. setting.tolerance \in Nat
  BY DEF PolicyKept, SettingKept
<1>4. CASE Policy!apply_to_policy.method = 4 /\ setting.tolerance = 0
  <2>1. setting.cap < 5000
    BY <1>4 DEF Policy!Robust
  <2>2. PICK v \in Weights(K) : /\ v = Policy!Capped(held)
                                /\ \A i \in K : 2 * v[i] < Policy!Total(v, K)
    BY <1>2, <2>1, ContributedWeights DEF CapHolds
  <2>3. PICK A : /\ Additive(v, K, A) /\ v \in [K -> Int] /\ (\A i \in K : 0 <= v[i] /\ 1 <= v[i])
                 /\ Policy!Total(v, K) = A[K] /\ A[K] \in Int
                 /\ \A i \in K : v[i] <= A[K] /\ A[K] = v[i] + A[K \ {i}] /\ A[K \ {i}] \in Int
    BY <1>1, WeightSums
  <2>4. 2 * A[U] > A[K]
    <3>1. CASE Suspect \in K
      <4>1. /\ A[K] = v[Suspect] + A[U] /\ A[U] \in Int /\ v[Suspect] \in Int
            /\ 2 * v[Suspect] < A[K]
        BY <2>2, <2>3, <3>1 DEF Without
      <4> QED  BY <2>3, <4>1
    <3>2. CASE Suspect \notin K
      <4>1. U = K
        BY <3>2 DEF Without
      <4>2. PICK i \in K : v[i] \in Int /\ 1 <= v[i] /\ v[i] <= A[K]
        BY <1>2, <2>3
      <4>3. 2 * A[K] > A[K]
        BY <2>3, <4>2
      <4> QED  BY <4>1, <4>3, Zenon
    <3> QED  BY <3>1, <3>2
  <2>5. p = Policy!weighted_median(f, v)
    BY <1>4, <2>2, PriceUnfolds
  <2> QED  BY <1>1, <1>2, <2>3, <2>4, <2>5, WeightedMedianFollowsWeight
<1>5. CASE ~(Policy!apply_to_policy.method = 4 /\ setting.tolerance = 0)
  <2>1. p = Policy!aggregate_prices(f)
    BY <1>5, PriceUnfolds
  <2>2. PICK r, s \in U : /\ f[r] \in Nat /\ f[s] \in Nat
                          /\ \A i \in U : f[r] <= f[i] /\ f[i] <= f[s]
    BY <1>1, <1>2, Bounds
  <2>3. PICK lo \in Nat, hi \in Nat : lo = f[r] /\ hi = f[s]
    BY <2>2
  <2>4. PICK x, y \in K : /\ f[x] \in Nat /\ f[y] \in Nat
                          /\ \A i \in K : f[x] <= f[i] /\ f[i] <= f[y]
    <3>1. K \in SUBSET K /\ K # {}
      BY <1>2
    <3> QED  BY <1>1, <3>1, Bounds
  <2>5. Quoted(f, f[x], f[y])
    BY <1>1, <2>4 DEF Quoted, AllIn
  <2>6. Honest(f, U, lo, hi)
    BY <1>1, <1>2, <2>2, <2>3 DEF Honest
  <2>7. CASE setting.tolerance > 0
    <3>1. setting.bft_method = 0 \/ n = 3 \/ 3 * setting.tolerance < n
      BY <2>7 DEF Policy!Robust
    <3>2. Policy!aggregate_bft_prices(f) \in lo..hi
      BY <1>1, <1>3, <2>5, <2>6, <2>7, <3>1, FaultTolerantHonest
    <3>3. p = Policy!aggregate_bft_prices(f)
      BY <2>1, <2>7 DEF Policy!aggregate_prices
    <3> QED  BY <2>3, <3>2, <3>3
  <2>8. CASE ~(setting.tolerance > 0)
    <3>1. setting.tolerance = 0
      BY <1>3, <2>8
    <3>2. Policy!effective_policy.method \in {0, 4}
      BY <1>5, <2>8, <3>1 DEF Policy!Robust
    <3>3. p = Policy!compute_median(f)
      BY <2>1, <2>8, <3>1, <3>2 DEF Policy!aggregate_prices, Policy!ByMethod
    <3>4. Family(f) /\ DOMAIN f # {} /\ U \in SUBSET DOMAIN f /\ 2 * Cardinality(U) > Cardinality(DOMAIN f)
      BY <1>1, <1>2 DEF Family
    <3>5. \A i \in U : lo <= f[i] /\ f[i] <= hi
      BY <2>2, <2>3
    <3>6. lo <= compute_median(f) /\ compute_median(f) <= hi
      BY <3>4, <3>5, MedianFollowsMajority
    <3> QED  BY <2>3, <3>3, <3>6, SameMedian
  <2> QED  BY <2>7, <2>8
<1> QED  BY <1>4, <1>5

\* A round is taken over some of the entries, and publishes none when there are none.
RoundOf(outcome, K, held, f) ==
    /\ Contributed(K, held, f)
    /\ outcome.contributors = K
    /\ outcome.published => K # {} /\ outcome.price = Policy!Price(held)

LEMMA RoundUnfolds ==
    ASSUME PolicyKept, NEW outcome, outcome = Policy!Round(submitted)
    PROVE  \E K, held, f : RoundOf(outcome, K, held, f)
<1>1. PICK F, g, K, held, f :
        /\ F = Policy!Fresh(submitted) /\ g = Policy!PricesOf(submitted, F) /\ K = Policy!Kept(g)
        /\ held = Policy!Only(submitted, K) /\ f = Policy!PricesOf(held, K)
  OBVIOUS
<1>2. F \in SUBSET DOMAIN submitted
  BY <1>1 DEF Policy!Fresh, Policy!InPolicyWindow
<1>3. DOMAIN g = F
  BY <1>1 DEF Policy!PricesOf
<1>4. K \in SUBSET F
  BY <1>1, <1>3 DEF Policy!Kept
<1>5. DOMAIN held = K
  BY <1>1 DEF Policy!Only
<1>6. K = {} => held = Policy!Nothing
  BY <1>1 DEF Policy!Only, Policy!Nothing
<1>7. PICK q, e : /\ q => held # Policy!Nothing
                  /\ outcome = [published |-> q, price |-> IF q THEN Policy!Price(held) ELSE 0,
                              contributors |-> DOMAIN held, excluded |-> e]
  BY <1>1, Zenon DEF Policy!Round
<1>8. Contributed(K, held, f)
  BY <1>1, <1>2, <1>4 DEF Contributed
<1>9. /\ outcome.contributors = K
      /\ outcome.published => K # {} /\ outcome.price = Policy!Price(held)
  BY <1>5, <1>6, <1>7
<1> QED  BY <1>8, <1>9 DEF RoundOf

LEMMA BoundedRound ==
    ASSUME PolicyKept, NEW outcome, outcome = Policy!Round(submitted)
    PROVE  Policy!OneSourceIsBounded(outcome)
<1>1. PICK K, held, f : RoundOf(outcome, K, held, f)
  BY RoundUnfolds
<1>2. PICK p, n : p = Policy!Price(held) /\ n = Cardinality(K)
  OBVIOUS
<1>3. Contributed(K, held, f) /\ K = outcome.contributors
  BY <1>1 DEF RoundOf
<1>4. \A r \in K : f[r] = submitted[r].price
  BY <1>3, ContributedPrices
<1>5. ASSUME outcome.published
      PROVE  /\ Policy!Between(outcome.price, K)
             /\ n >= 3 /\ Policy!Robust(n) => Policy!Between(outcome.price, K \ {Suspect})
  <2>1. K # {} /\ outcome.price = p
    BY <1>1, <1>2, <1>5 DEF RoundOf
  <2>2. \E r, s \in K : f[r] <= p /\ p <= f[s]
    BY <1>2, <1>3, <2>1, PriceInside
  <2>3. ASSUME n >= 3, Policy!Robust(n)
        PROVE  \E r, s \in K \ {Suspect} : f[r] <= p /\ p <= f[s]
    <3>1. PICK U : U = K \ {Suspect} /\ Without(K, Suspect, U)
      BY DEF Without
    <3>2. \E r, s \in U : f[r] <= p /\ p <= f[s]
      BY <1>2, <1>3, <2>3, <3>1, PriceHonest
    <3> QED  BY <3>1, <3>2
  <2> QED  BY <1>4, <2>1, <2>2, <2>3 DEF Policy!Between
<1>6. Policy!Cardinality(outcome.contributors) = n
  BY <1>2, <1>3, SameCount
<1> QED  BY <1>3, <1>5, <1>6 DEF Policy!OneSourceIsBounded

LEMMA CappedRound ==
    ASSUME PolicyKept, NEW outcome, outcome = Policy!Round(submitted)
    PROVE  Policy!SharesCapped(outcome)
<1>1. PICK K, held, f : RoundOf(outcome, K, held, f)
  BY RoundUnfolds
<1>2. Contributed(K, held, f) /\ K = outcome.contributors
  BY <1>1 DEF RoundOf
<1>3. PICK w : /\ w \in Weights(K)
               /\ \A r \in K : w[r] = Policy!weight_for_age(Policy!Age(submitted[r]))
               /\ CapHolds(K, w, setting.cap, Cardinality(K), Policy!Capped(held))
  BY <1>2, ContributedWeights
<1>4. PICK v, n : v = Policy!Capped(held) /\ n = Cardinality(K)
  OBVIOUS
<1>5. /\ v \in Weights(K) /\ \A i \in K : v[i] <= w[i]
      /\ n >= 3 /\ n * setting.cap >= Policy!BPS => Policy!within_cap(v, setting.cap)
  BY <1>3, <1>4 DEF CapHolds
<1>6. ASSUME NEW r \in K
      PROVE  v[r] \in 1..Policy!weight_for_age(Policy!Age(submitted[r]))
  <2>1. Policy!W_MAX \in Nat
    BY DEF Policy!W_MAX
  <2>2. v[r] \in 1..Policy!W_MAX /\ w[r] \in 1..Policy!W_MAX /\ v[r] <= w[r]
    BY <1>3, <1>5, <1>6 DEF Weights
  <2>3. v[r] \in 1..w[r]
    BY <2>1, <2>2
  <2> QED  BY <1>3, <1>6, <2>3
<1>7. v = Policy!Capped(Policy!Only(submitted, outcome.contributors))
  BY <1>2, <1>4 DEF Contributed
<1>8. Policy!Cardinality(outcome.contributors) = n
  BY <1>2, <1>4, SameCount
<1> QED  BY <1>2, <1>5, <1>6, <1>7, <1>8 DEF Policy!SharesCapped

\* Nothing supplies no field.
LEMMA OverNothing ==
    ASSUME NEW base, base = [x \in DOMAIN base |-> base[x]]
    PROVE  Policy!Over(Policy!Nothing, base) = base
BY DEF Policy!Over, Policy!Nothing

\* The settings under which the views are to tell the result.
GlobalOnly ==
    /\ setting.asset = Policy!Nothing /\ ~setting.in_class /\ setting.method # 3
    /\ setting.tier = None /\ setting.asset_window = 0 /\ setting.default_window = 0
    /\ setting.outlier = None /\ setting.tolerance = 0

LEMMA GlobalPolicy ==
    ASSUME GlobalOnly
    PROVE  /\ Policy!apply_to_policy = Policy!effective_policy
           /\ Policy!effective_policy.method = setting.method
           /\ Policy!effective_policy.min_sources = setting.min_sources
           /\ Policy!effective_policy.freshness_secs = 0
           /\ Policy!effective_policy.max_deviation_bps = 0
<1>1. PICK base : base = [method |-> setting.method, min_sources |-> setting.min_sources,
                          freshness_secs |-> 0, max_deviation_bps |-> 0]
  OBVIOUS
<1>2. base = [x \in DOMAIN base |-> base[x]]
  BY <1>1
<1>3. Policy!Over(Policy!Nothing, base) = base
  BY <1>2, OverNothing
<1>4. Policy!effective_policy = base
  <2>1. Policy!effective_policy = Policy!Over(Policy!Nothing, Policy!Over(Policy!Nothing, base))
    BY <1>1 DEF Policy!effective_policy, GlobalOnly
  <2> QED  BY <1>3, <2>1
<1>5. Policy!apply_to_policy = Policy!effective_policy
  BY DEF Policy!apply_to_policy, GlobalOnly
<1> QED  BY <1>1, <1>4, <1>5

\* Such a round takes every entry.
LEMMA GlobalRound ==
    ASSUME PolicyKept, GlobalOnly, NEW outcome, outcome = Policy!Round(submitted)
    PROVE  outcome.published => /\ outcome.price = Policy!Price(submitted) /\ submitted # Policy!Nothing
                              /\ Cardinality(DOMAIN submitted) >= setting.min_sources
<1>1. PICK F, g, K, held :
        /\ F = Policy!Fresh(submitted) /\ g = Policy!PricesOf(submitted, F) /\ K = Policy!Kept(g)
        /\ held = Policy!Only(submitted, K)
  OBVIOUS
<1>2. F = DOMAIN submitted
  <2>1. Policy!window_for = 0
    <3>1. setting.asset_window = 0 /\ setting.default_window = 0 /\ ~(setting.tier # None)
      BY DEF GlobalOnly
    <3>2. ~(setting.asset_window > 0)
      BY <3>1
    <3> QED  BY <3>1, <3>2 DEF Policy!window_for
  <2>2. Policy!InPolicyWindow(submitted) = DOMAIN submitted
    BY GlobalPolicy DEF Policy!InPolicyWindow
  <2> QED  BY <1>1, <2>1, <2>2 DEF Policy!Fresh, Policy!is_fresh
<1>3. DOMAIN g = DOMAIN submitted
  BY <1>1, <1>2 DEF Policy!PricesOf
<1>4. K = DOMAIN submitted
  <2>1. Policy!filter_round(g) = {}
    BY DEF Policy!filter_round, GlobalOnly
  <2>2. Policy!apply_to_policy.max_deviation_bps = 0
    BY GlobalPolicy
  <2> QED  BY <1>1, <1>3, <2>1, <2>2 DEF Policy!Kept
<1>5. held = submitted
  BY <1>1, <1>4 DEF Policy!Only, PolicyKept, EntriesKept
<1>6. PICK q, e : /\ q => held # Policy!Nothing /\ Policy!Count(held) >= Policy!apply_to_policy.min_sources
                  /\ outcome = [published |-> q, price |-> IF q THEN Policy!Price(held) ELSE 0,
                              contributors |-> DOMAIN held, excluded |-> e]
  BY <1>1, Zenon DEF Policy!Round
<1>7. Policy!Count(held) = Cardinality(DOMAIN submitted)
  BY <1>5, SameCount DEF Policy!Count
<1>8. Policy!apply_to_policy.min_sources = setting.min_sources
  BY GlobalPolicy
<1> QED  BY <1>5, <1>6, <1>7, <1>8

LEMMA ViewedRound ==
    ASSUME PolicyKept, NEW outcome, outcome = Policy!Round(submitted)
    PROVE  Policy!ViewsAgree(outcome)
<1> SUFFICES ASSUME GlobalOnly, outcome.published
             PROVE  outcome.price = IF setting.method = 4 THEN Policy!get_weighted_aggregate
                                                        ELSE Policy!simulate_aggregation
  BY DEF Policy!ViewsAgree, GlobalOnly
<1>1. /\ outcome.price = Policy!Price(submitted) /\ submitted # Policy!Nothing
      /\ Cardinality(DOMAIN submitted) >= setting.min_sources
  BY GlobalRound
<1>2. PICK f : f = Policy!PricesOf(submitted, DOMAIN submitted)
  OBVIOUS
<1>3. /\ Policy!apply_to_policy.method = setting.method
      /\ Policy!effective_policy.method = setting.method
      /\ setting.tolerance = 0 /\ setting.method # 3
  BY GlobalPolicy DEF GlobalOnly
<1>4. CASE setting.method = 4
  <2>1. Policy!Price(submitted) = Policy!weighted_median(f, Policy!Capped(submitted))
    BY <1>2, <1>3, <1>4 DEF Policy!Price
  <2> QED  BY <1>1, <1>2, <1>4, <2>1 DEF Policy!get_weighted_aggregate
<1>5. CASE setting.method # 4
  <2>1. Policy!Price(submitted) = Policy!aggregate_prices(f)
    BY <1>2, <1>3, <1>5 DEF Policy!Price
  <2>2. Policy!aggregate_prices(f) = Policy!ByMethod(setting.method, f)
    BY <1>3 DEF Policy!aggregate_prices
  <2>3. ~(Policy!Cardinality(DOMAIN submitted) < setting.min_sources)
    <3>1. IsFiniteSet(DOMAIN submitted) /\ setting.min_sources \in Nat
      BY PolicyAssumption, FS_Subset DEF PolicyKept, EntriesKept, SettingKept
    <3>2. Cardinality(DOMAIN submitted) \in Nat
      BY <3>1, FS_CardinalityType
    <3> QED  BY <1>1, <3>1, <3>2, SameCount
  <2> QED  BY <1>1, <1>2, <1>5, <2>1, <2>2, <2>3 DEF Policy!simulate_aggregation
<1> QED  BY <1>4, <1>5

LEMMA KeptIsBounded ==
    ASSUME PolicyKept
    PROVE  Policy!AggregateBounded
<1>1. PICK outcome : outcome = Policy!Round(submitted)
  OBVIOUS
<1>2. Policy!OneSourceIsBounded(outcome) /\ Policy!SharesCapped(outcome) /\ Policy!ViewsAgree(outcome)
  BY <1>1, BoundedRound, CappedRound, ViewedRound
<1> QED  BY <1>1, <1>2 DEF Policy!AggregateBounded

\* A step of the policy keeps what a round reads.
LEMMA SettingStep ==
    ASSUME PolicyKept, Policy!PolicyCalls \/ Policy!FilterCalls
    PROVE  PolicyKept'
<1>1. EntriesKept'
  <2>1. CASE Policy!PolicyCalls
    <3>1. \E s : Policy!Set(s)
      BY <2>1, Zenon DEF Policy!PolicyCalls, Policy!set_aggregation_method,
         Policy!set_min_sources_required, Policy!set_asset_policy, Policy!set_class_policy,
         Policy!set_asset_class, Policy!set_tier, Policy!set_enforcement
    <3> QED  BY <3>1 DEF Policy!Set, PolicyKept, EntriesKept
  <2>2. CASE Policy!FilterCalls
    <3>1. \E s : Policy!Set(s)
      BY <2>2, Zenon DEF Policy!FilterCalls, Policy!set_asset_window, Policy!set_default_window,
         Policy!set_curve, Policy!set_cap_bps, Policy!set_bft_parameters, Policy!set_config
    <3> QED  BY <3>1 DEF Policy!Set, PolicyKept, EntriesKept
  <2> QED  BY <2>1, <2>2
<1>2. SettingKept'
  <2>1. ASSUME Policy!PolicyCalls
        PROVE  SettingKept'
    <3>1. Cardinality(Reporters) \in Nat /\ \A S : Policy!Cardinality(S) = Cardinality(S)
      BY PolicyAssumption, FS_CardinalityType, SameCount
    <3>2. CASE \E q \in MinQuorums : Policy!set_min_sources_required(q)
      BY <3>1, <3>2 DEF Policy!set_min_sources_required, Policy!Set, PolicyKept, SettingKept
    <3>3. CASE \E m \in Methods : Policy!set_aggregation_method(m)
      BY <3>3 DEF Policy!set_aggregation_method, Policy!Set, PolicyKept, SettingKept
    <3>4. CASE \E p \in Overrides : Policy!set_asset_policy(p) \/ Policy!set_class_policy(p)
      BY <3>4 DEF Policy!set_asset_policy, Policy!set_class_policy, Policy!Set, PolicyKept, SettingKept
    <3>5. CASE \E in \in BOOLEAN : Policy!set_asset_class(in) \/ Policy!set_enforcement(in)
      BY <3>5 DEF Policy!set_asset_class, Policy!set_enforcement, Policy!Set, PolicyKept, SettingKept
    <3>6. CASE \E t \in RiskTiers \cup {None} : Policy!set_tier(t)
      <4>1. PICK s : setting' = s /\ \E t, noted : s = [setting EXCEPT !.tier = t, !.noted = noted]
        BY <3>6, Zenon DEF Policy!set_tier, Policy!Set
      <4> QED  BY <4>1 DEF PolicyKept, SettingKept
    <3> QED  BY <2>1, <3>2, <3>3, <3>4, <3>5, <3>6 DEF Policy!PolicyCalls
  <2>2. ASSUME Policy!FilterCalls
        PROVE  SettingKept'
    <3>1. Policy!MAX_WINDOW_SECS \in Nat /\ Policy!MIN_CAP_BPS \in Nat /\ Policy!BPS \in Nat
      BY DEF Policy!MAX_WINDOW_SECS, Policy!MIN_CAP_BPS, Policy!BPS
    <3>2. CASE \E s \in FreshWindows : Policy!set_asset_window(s) \/ Policy!set_default_window(s)
      BY <3>2 DEF Policy!set_asset_window, Policy!set_default_window, Policy!Set, PolicyKept, SettingKept
    <3>3. CASE \E c \in FreshnessCurves : Policy!set_curve(c)
      BY <3>1, <3>3 DEF Policy!set_curve, Policy!Set, PolicyKept, SettingKept
    <3>4. CASE \E cap \in InfluenceCaps : Policy!set_cap_bps(cap)
      BY <3>1, <3>4 DEF Policy!set_cap_bps, Policy!Set, PolicyKept, SettingKept
    <3>5. CASE \E f \in Tolerances, m \in 0..2 : Policy!set_bft_parameters(f, m)
      BY <3>5, PolicyAssumption DEF Policy!set_bft_parameters, Policy!Set, PolicyKept, SettingKept
    <3>6. CASE \E c \in OutlierConfigs : Policy!set_config(c)
      BY <3>6 DEF Policy!set_config, Policy!Set, PolicyKept, SettingKept
    <3> QED  BY <2>2, <3>2, <3>3, <3>4, <3>5, <3>6 DEF Policy!FilterCalls
  <2> QED  BY <2>1, <2>2
<1> QED  BY <1>1, <1>2 DEF PolicyKept

LEMMA PolicyStep ==
    ASSUME PolicyKept, Policy!Next
    PROVE  PolicyKept'
<1>1. CASE \E r \in Reporters : \E p \in Offers[r] : Policy!submit(r, p)
  <2>0. PICK r \in Reporters : \E p \in Offers[r] : Policy!submit(r, p)
    BY <1>1
  <2>1. PICK p \in Offers[r] : Policy!submit(r, p)
    BY <2>0
  <2>2. /\ submitted' = [s \in DOMAIN submitted \cup {r} |->
                           IF s = r THEN [price |-> p, at |-> instant] ELSE submitted[s]]
        /\ instant' = instant /\ setting' = setting
    BY <2>1 DEF Policy!submit
  <2>3. p \in Nat
    BY PolicyAssumption
  <2>4. EntriesKept'
    BY <2>2, <2>3 DEF PolicyKept, EntriesKept
  <2>5. SettingKept'
    BY <2>2 DEF PolicyKept, SettingKept
  <2> QED  BY <2>4, <2>5 DEF PolicyKept
<1>2. CASE Policy!recompute_asset
  BY <1>2 DEF Policy!recompute_asset, PolicyKept, EntriesKept, SettingKept
<1>3. CASE Policy!PolicyCalls \/ Policy!FilterCalls
  BY <1>3, SettingStep
<1>4. CASE Policy!Pass
  BY <1>4 DEF Policy!Pass, PolicyKept, EntriesKept, SettingKept
<1> QED  BY <1>1, <1>2, <1>3, <1>4 DEF Policy!Next

LEMMA PolicyInit ==
    ASSUME Policy!Init
    PROVE  PolicyKept
<1>1. EntriesKept
  BY DEF Policy!Init, Policy!Nothing, EntriesKept
<1>2. Policy!W_MAX \in Nat /\ Policy!W_MAX >= 100
  BY DEF Policy!W_MAX
<1>3. SettingKept
  BY <1>2 DEF Policy!Init, SettingKept
<1> QED  BY <1>1, <1>3 DEF PolicyKept

\* Whatever the sources submit, however often the admin changes policy, tier,
\* windows, filters, curve, cap and method, and for any number of sources: a
\* round publishes a price between two of its contributors' prices, a robust
\* round of three or more one between two prices of contributors other than the
\* suspect, the freshness weights are never raised and stay under the influence
\* cap, and the two views tell what a round publishes (prices.rs aggregate_asset,
\* freshness_weight.rs, influence_cap.rs).
THEOREM OneSourceNeverDecides == BothSpec => []AggregateBounded
<1>1. BothInit => PolicyKept
  BY PolicyInit DEF BothInit
<1>2. PolicyKept /\ [BothNext]_<<focus, vars, pvars>> => PolicyKept'
  <2> SUFFICES ASSUME PolicyKept, [BothNext]_<<focus, vars, pvars>>
               PROVE  PolicyKept'
    OBVIOUS
  <2>1. CASE PolicySteps
    BY <2>1, PolicyStep DEF PolicySteps
  <2>2. CASE RoundSteps
    BY <2>2 DEF RoundSteps, pvars, PolicyKept, EntriesKept, SettingKept
  <2>3. CASE UNCHANGED <<focus, vars, pvars>>
    BY <2>3 DEF pvars, PolicyKept, EntriesKept, SettingKept
  <2> QED  BY <2>1, <2>2, <2>3 DEF BothNext
<1>3. PolicyKept => AggregateBounded
  BY KeptIsBounded DEF AggregateBounded
<1> QED  BY <1>1, <1>2, <1>3, PTL DEF BothSpec

=============================================================================
