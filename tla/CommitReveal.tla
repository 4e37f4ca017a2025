---------------------------- MODULE CommitReveal ----------------------------
(***************************************************************************)
(* Commit-reveal submission for one asset (prices.rs).  Ledgers are cut    *)
(* into rounds of one commit window; a source commits to a hash during the *)
(* round, reveals the price in the window after it, and may be slashed by  *)
(* anybody when it did not.  A hash is the record of what it covers, the   *)
(* salt being as private as the commitment is binding.  Commitments are    *)
(* temporary entries that outlive their reveal window by another one, so   *)
(* none is dropped here; the revealed price is stored and aggregated as in *)
(* PriceOracle.                                                            *)
(***************************************************************************)
EXTENDS Integers

CONSTANTS
    Committers,     \* registered sources
    Quotes,         \* prices they commit to
    CommitWindows,  \* values of CfgCommitWindow
    RevealWindows,  \* values of CfgRevealWindow
    FirstCommitWindow, FirstRevealWindow,   \* the values at the start
    SlashAmounts,   \* values of CommitRevealSlashAmount
    InitialBond,    \* SourceBond of every source
    LastLedger      \* bound: the last ledger

VARIABLES
    height,        \* ledger sequence
    commits,       \* PriceCommit by source and round, or NoCommit
    commit_window, reveal_window,
    slash_amount,  \* CommitRevealSlashAmount
    stake,         \* SourceBond
    changed,       \* ghost: ledger of the last change of a window
    shown          \* ghost: ledger of the first reveal of a round, -1 before it

crvars == <<height, commits, commit_window, reveal_window, slash_amount,
            stake, changed, shown>>

RoundLedgers == 0..LastLedger
NoCommit == [price |-> 0]
current_round_ledger == (height \div commit_window) * commit_window

reveal_startEarly(r) == r
reveal_start(r) == r + commit_window
reveal_end(r) == r + commit_window + reveal_window

\* The round is the current one, so its commit window is open by construction.
commit_price(s, p) ==
    LET r == current_round_ledger IN
    /\ commits[s][r] = NoCommit
    /\ commits' = [commits EXCEPT ![s][r] =
          [price |-> p, revealed |-> FALSE, at |-> height]]
    /\ UNCHANGED <<height, commit_window, reveal_window, slash_amount,
                   stake, changed, shown>>

InRevealWindow(r) == height >= reveal_start(r) /\ height < reveal_end(r)

\* The hash of the revealed price must be the committed one.
reveal_price(s, r, p) ==
    /\ InRevealWindow(r)
    /\ commits[s][r] # NoCommit
    /\ ~commits[s][r].revealed
    /\ commits[s][r].price = p
    /\ p > 0
    /\ commits' = [commits EXCEPT ![s][r].revealed = TRUE]
    /\ shown' = [shown EXCEPT ![r] = IF @ = -1 THEN height ELSE @]
    /\ UNCHANGED <<height, commit_window, reveal_window, slash_amount,
                   stake, changed>>

\* Two rounds revealed in one transaction.
reveal_prices_batch(s, r1, r2) ==
    /\ r1 # r2
    /\ \A r \in {r1, r2} :
          /\ InRevealWindow(r)
          /\ commits[s][r] # NoCommit
          /\ ~commits[s][r].revealed
    /\ commits' = [commits EXCEPT ![s][r1].revealed = TRUE, ![s][r2].revealed = TRUE]
    /\ shown' = [r \in RoundLedgers |->
                    IF r \in {r1, r2} /\ shown[r] = -1 THEN height ELSE shown[r]]
    /\ UNCHANGED <<height, commit_window, reveal_window, slash_amount,
                   stake, changed>>

\* Permissionless.
slash_expired_commits(s, r) ==
    LET actual == IF stake[s] < slash_amount THEN stake[s] ELSE slash_amount IN
    /\ height >= reveal_end(r)
    /\ commits[s][r] # NoCommit
    /\ ~commits[s][r].revealed
    /\ actual > 0
    /\ stake' = [stake EXCEPT ![s] = @ - actual]
    /\ commits' = [commits EXCEPT ![s][r] = NoCommit]
    /\ UNCHANGED <<height, commit_window, reveal_window, slash_amount,
                   changed, shown>>

set_commit_window(n) ==
    /\ n > 0
    /\ commit_window' = n
    /\ changed' = height
    /\ UNCHANGED <<height, commits, reveal_window, slash_amount,
                   stake, shown>>

set_reveal_window(n) ==
    /\ n > 0
    /\ reveal_window' = n
    /\ changed' = height
    /\ UNCHANGED <<height, commits, commit_window, slash_amount,
                   stake, shown>>

set_commit_reveal_slash_amount(n) ==
    /\ slash_amount' = n
    /\ UNCHANGED <<height, commits, commit_window, reveal_window,
                   stake, changed, shown>>

CloseRound ==
    /\ height < LastLedger
    /\ height' = height + 1
    /\ UNCHANGED <<commits, commit_window, reveal_window, slash_amount,
                   stake, changed, shown>>

Init ==
    /\ height = 0 /\ commits = [s \in Committers |-> [r \in RoundLedgers |-> NoCommit]]
    /\ commit_window = FirstCommitWindow /\ reveal_window = FirstRevealWindow
    /\ slash_amount = 0
    /\ stake = [s \in Committers |-> InitialBond]
    /\ changed = -1 /\ shown = [r \in RoundLedgers |-> -1]

RevealCalls ==
    \E s \in Committers, r \in RoundLedgers :
        \/ \E p \in Quotes : reveal_price(s, r, p)
        \/ \E r2 \in RoundLedgers : reveal_prices_batch(s, r, r2)
        \/ slash_expired_commits(s, r)

CommitCalls == \E s \in Committers, p \in Quotes : commit_price(s, p)

CommitConfig ==
    \/ \E n \in CommitWindows : set_commit_window(n)
    \/ \E n \in RevealWindows : set_reveal_window(n)
    \/ \E n \in SlashAmounts : set_commit_reveal_slash_amount(n)

Next == CommitCalls \/ RevealCalls \/ CommitConfig \/ CloseRound

Spec == Init /\ [][Next]_crvars

(***************************************************************************)
(* Properties                                                              *)
(***************************************************************************)
\* As long as the windows were not changed since the round began, every
\* commitment of the round was made before its first price was shown, so no
\* source commits to a price another one revealed (prices.rs:2599).  A change
\* of the commit window in mid-round can reopen the round.
RoundsAreBlind ==
    \A s \in Committers, r \in RoundLedgers :
        commits[s][r] # NoCommit /\ shown[r] # -1 /\ changed <= r
            => commits[s][r].at < shown[r]

=============================================================================
