------------------------- MODULE PublicationProofs -------------------------
(***************************************************************************)
(* What the parts around a publication keep, for every value of the        *)
(* constants: the blackouts and the gates (PublicationGates), the          *)
(* commit-reveal way in (CommitReveal), the timestamps of an aggregate     *)
(* whose asset is administered (PriceOracle), the history (PriceArchive)   *)
(* and the records that explain it (Provenance), the averages and the      *)
(* counters a reader relies on (PriceReads), and the finalised and the     *)
(* corrected price (PriceFinality).                                        *)
(***************************************************************************)
EXTENDS MCPublication, PriceMathProofs

-----------------------------------------------------------------------------
(* The parts *)

\* A step of the composition is, for each part, a step of it or no change of
\* its variables.
LEMMA StepsOfParts ==
    [Next]_vars => /\ [Gates!Next]_<<clock, Gates!bvars, Gates!gvars>>
                   /\ [Archive!Next]_avars
                   /\ [Finality!Next]_fvars
                   /\ [Commits!Next]_crvars
                   /\ [Prov!Next]_pvars
                   /\ [Lifecycle!Next]_lvars
                   /\ [Reads!Next]_rvars
<1>1. CASE UNCHANGED vars
  BY <1>1 DEF vars, bvars, gvars, Gates!bvars, Gates!gvars
<1>2. CASE GatedSteps
  <2>1. GateSteps => Gates!Next
    BY DEF GateSteps, Gates!Next, gvars, Gates!gvars
  <2> QED  BY <1>2, <2>1 DEF GatedSteps
<1>3. CASE ArchiveSteps
  BY <1>3 DEF ArchiveSteps, bvars, gvars, Gates!bvars, Gates!gvars
<1>4. CASE FinalitySteps
  BY <1>4 DEF FinalitySteps, bvars, gvars, Gates!bvars, Gates!gvars
<1>5. CASE CommitSteps
  BY <1>5 DEF CommitSteps, bvars, gvars, Gates!bvars, Gates!gvars
<1>6. CASE ProvenanceSteps
  BY <1>6 DEF ProvenanceSteps, bvars, gvars, Gates!bvars, Gates!gvars
<1>7. CASE LifecycleSteps
  BY <1>7 DEF LifecycleSteps, bvars, gvars, Gates!bvars, Gates!gvars
<1>8. CASE ReadSteps
  BY <1>8 DEF ReadSteps, bvars, gvars, Gates!bvars, Gates!gvars
<1> QED  BY <1>1, <1>2, <1>3, <1>4, <1>5, <1>6, <1>7, <1>8 DEF Next

-----------------------------------------------------------------------------
(* Blackouts *)

\* A window withholds inside its limits; once it has withheld, what the ghost
\* remembers last is its doing, and before that its start keeps the cooldown
\* after what an earlier window withheld.  A closed window is remembered by an
\* end that nothing was withheld after.
WindowsSpaced ==
    /\ clock \in Nat
    /\ window \in [start : Int, end : Int]
    /\ last_end \in Int
    /\ opened \in BOOLEAN
    /\ withheld \in [first : Int, last : Int, before : Int]
    /\ withheld.first <= withheld.last /\ withheld.last <= clock
    /\ withheld.last >= -1 /\ withheld.first >= -1
    /\ withheld.last # -1 => withheld.first # -1
    /\ Gates!HasWindow =>
         /\ window.start >= 0 /\ window.start < window.end
         /\ window.end - window.start <= MaxBlackout
         /\ withheld.last < window.end
         /\ opened /\ withheld.last # -1 => window.start >= withheld.last + Cooldown
         /\ ~opened => withheld.first >= window.start
    /\ ~Gates!HasWindow /\ withheld.last # -1 => last_end # -1 /\ last_end >= withheld.last
    /\ Gates!BlackoutsSpaced

\* A window is opened outside a live one and the cooldown after the last end.
LEMMA OpeningStep ==
    ASSUME WindowsSpaced, NEW start \in Nat, NEW end \in Nat,
           start >= clock, start < end, end - start <= MaxBlackout,
           Gates!can_open(start), Gates!open(start, end), UNCHANGED <<clock, withheld>>
    PROVE  WindowsSpaced'
<1>1. MaxBlackout \in Nat /\ Cooldown \in Nat
  BY GatesAssumption
<1>2. /\ window' = [start |-> start, end |-> end] /\ opened' = TRUE
      /\ last_end' = IF Gates!HasWindow THEN window.end ELSE last_end
  BY DEF Gates!open, Gates!close
<1>3. window'.start = start /\ window'.end = end /\ window' # Gates!NoWindow
  BY <1>2 DEF Gates!NoWindow
<1>4. withheld.last # -1 => start >= withheld.last + Cooldown
  <2>1. CASE Gates!HasWindow
    BY <1>1, <2>1 DEF Gates!can_open, Gates!close, WindowsSpaced
  <2>2. CASE ~Gates!HasWindow
    BY <1>1, <2>2 DEF Gates!can_open, WindowsSpaced
  <2> QED  BY <2>1, <2>2
<1>5. last_end' \in Int
  BY <1>2 DEF WindowsSpaced
<1> QED  BY <1>1, <1>2, <1>3, <1>4, <1>5 DEF WindowsSpaced, Gates!HasWindow,
       Gates!BlackoutsSpaced

\* Extending and cancelling.
LEMMA WindowStep ==
    ASSUME WindowsSpaced, UNCHANGED clock,
           (\E e \in Gates!Instants : Gates!extend(e)) \/ Gates!cancel
    PROVE  WindowsSpaced'
<1>1. MaxBlackout \in Nat /\ Cooldown \in Nat
  BY GatesAssumption
<1>2. ASSUME NEW e \in Gates!Instants, Gates!extend(e)
      PROVE  WindowsSpaced'
  <2>1. e \in Int
    BY GatesAssumption DEF Gates!Instants
  <2>2. /\ Gates!HasWindow /\ e > window.end /\ e - window.start <= MaxBlackout
        /\ window' = [window EXCEPT !.end = e]
        /\ UNCHANGED <<last_end, opened, withheld>>
    BY <1>2 DEF Gates!extend
  <2>3. window' \in [start : Int, end : Int] /\ window'.start = window.start /\ window'.end = e
    BY <2>1, <2>2 DEF WindowsSpaced
  <2>4. Gates!HasWindow'
    BY <2>2, <2>3 DEF WindowsSpaced, Gates!HasWindow, Gates!NoWindow
  <2> QED  BY <1>1, <2>1, <2>2, <2>3, <2>4 DEF WindowsSpaced, Gates!BlackoutsSpaced
<1>3. CASE Gates!cancel
  <2>1. /\ Gates!HasWindow /\ window' = Gates!NoWindow
        /\ last_end' = IF clock < window.end THEN clock ELSE window.end
        /\ UNCHANGED <<opened, withheld>>
    BY <1>3 DEF Gates!cancel, Gates!close
  <2>2. ~Gates!HasWindow' /\ window' \in [start : Int, end : Int]
    BY <2>1 DEF Gates!HasWindow, Gates!NoWindow
  <2> QED  BY <1>1, <2>1, <2>2 DEF WindowsSpaced, Gates!BlackoutsSpaced
<1> QED  BY <1>2, <1>3

\* An aggregation in the dark is withheld; an expired window is closed.
LEMMA SuppressionStep ==
    ASSUME WindowsSpaced, UNCHANGED clock, Gates!suppresses
    PROVE  WindowsSpaced'
<1>1. MaxBlackout \in Nat \ {0} /\ Cooldown \in Nat
  BY GatesAssumption
<1>2. CASE Gates!Dark
  <2>1. /\ Gates!HasWindow /\ clock >= window.start /\ clock < window.end
        /\ ~Gates!Expired
    BY <1>2 DEF Gates!Dark, Gates!Expired, WindowsSpaced
  <2>2. /\ withheld' = Gates!Withhold /\ opened' = FALSE
        /\ UNCHANGED <<window, last_end>>
    BY <1>2, <2>1 DEF Gates!suppresses
  <2>3. CASE opened
    <3>1. withheld' = [first |-> clock, last |-> clock, before |-> withheld.last]
      BY <2>2, <2>3 DEF Gates!Withhold
    <3>2. /\ withheld' \in [first : Int, last : Int, before : Int]
          /\ withheld'.first = clock /\ withheld'.last = clock /\ withheld'.before = withheld.last
      BY <3>1 DEF WindowsSpaced
    <3>3. Gates!BlackoutsSpaced'
      BY <1>1, <2>1, <2>3, <3>2 DEF WindowsSpaced, Gates!BlackoutsSpaced
    <3>4. Gates!HasWindow'
      BY <2>1, <2>2 DEF Gates!HasWindow
    <3>5. /\ withheld'.first <= withheld'.last /\ withheld'.last <= clock
          /\ withheld'.last >= -1 /\ withheld'.first >= -1
          /\ withheld'.last # -1 => withheld'.first # -1
          /\ withheld'.last < window.end /\ withheld'.first >= window.start
      BY <2>1, <2>3, <3>2 DEF WindowsSpaced
    <3>6. window' = window /\ last_end' = last_end /\ opened' = FALSE /\ clock' = clock
      BY <2>2
    <3> QED  BY <2>1, <3>2, <3>3, <3>4, <3>5, <3>6 DEF WindowsSpaced
  <2>4. CASE ~opened
    <3>1. withheld' = [withheld EXCEPT !.last = clock]
      BY <2>2, <2>4 DEF Gates!Withhold
    <3>2. /\ withheld' \in [first : Int, last : Int, before : Int]
          /\ withheld'.first = withheld.first /\ withheld'.last = clock
          /\ withheld'.before = withheld.before
      BY <3>1 DEF WindowsSpaced
    <3>3. Gates!BlackoutsSpaced'
      BY <1>1, <2>1, <2>4, <3>2 DEF WindowsSpaced, Gates!BlackoutsSpaced
    <3>4. Gates!HasWindow'
      BY <2>1, <2>2 DEF Gates!HasWindow
    <3>5. /\ withheld'.first <= withheld'.last /\ withheld'.last <= clock
          /\ withheld'.last >= -1 /\ withheld'.first >= -1
          /\ withheld'.last # -1 => withheld'.first # -1
          /\ withheld'.last < window.end /\ withheld'.first >= window.start
      BY <2>1, <2>4, <3>2 DEF WindowsSpaced
    <3>6. window' = window /\ last_end' = last_end /\ opened' = FALSE /\ clock' = clock
      BY <2>2
    <3> QED  BY <2>1, <3>2, <3>3, <3>4, <3>5, <3>6 DEF WindowsSpaced
  <2> QED  BY <2>3, <2>4
<1>3. CASE ~Gates!Dark /\ Gates!Expired
  <2>1. /\ Gates!HasWindow /\ window' = Gates!NoWindow /\ last_end' = window.end
        /\ withheld' = withheld /\ opened' \in BOOLEAN
    BY <1>3 DEF Gates!suppresses, Gates!close, Gates!Expired, WindowsSpaced
  <2>2. ~Gates!HasWindow' /\ window' \in [start : Int, end : Int]
    BY <2>1 DEF Gates!HasWindow, Gates!NoWindow
  <2> QED  BY <1>1, <2>1, <2>2 DEF WindowsSpaced, Gates!BlackoutsSpaced
<1>4. CASE ~Gates!Dark /\ ~Gates!Expired
  <2>1. UNCHANGED <<window, last_end, withheld>> /\ opened' = opened
    BY <1>4 DEF Gates!suppresses, WindowsSpaced
  <2> QED  BY <2>1 DEF WindowsSpaced, Gates!HasWindow, Gates!BlackoutsSpaced
<1> QED  BY <1>2, <1>3, <1>4

\* Scheduling and signalling.
LEMMA ScheduleStep ==
    ASSUME WindowsSpaced, UNCHANGED clock, Gates!BlackoutCalls
    PROVE  WindowsSpaced'
<1>0. /\ MaxBlackout \in Nat /\ VolatilityBlackout \in 1..MaxBlackout /\ MinNotice \in Nat
      /\ clock \in Nat
  BY GatesAssumption DEF WindowsSpaced
<1>1. ASSUME NEW start \in Gates!Instants, NEW end \in Gates!Instants, Gates!schedule(start, end)
      PROVE  WindowsSpaced'
  <2>1. start \in Nat /\ end \in Nat
    BY GatesAssumption DEF Gates!Instants
  <2>2. /\ start >= clock + MinNotice /\ start < end /\ end - start <= MaxBlackout
        /\ Gates!can_open(start) /\ Gates!open(start, end) /\ withheld' = withheld
    BY <1>1, <2>1 DEF Gates!schedule
  <2>3. start >= clock
    BY <1>0, <2>1, <2>2
  <2> QED  BY <2>1, <2>2, <2>3, OpeningStep
<1>2. ASSUME NEW s, Gates!signal_volatility(s)
      PROVE  WindowsSpaced'
  <2>1. CASE UNCHANGED <<window, last_end, opened, withheld>>
    BY <2>1 DEF WindowsSpaced, Gates!HasWindow, Gates!BlackoutsSpaced
  <2>2. CASE /\ Gates!can_open(clock) /\ Gates!open(clock, clock + VolatilityBlackout)
             /\ withheld' = withheld
    <3>1. PICK end \in Nat : end = clock + VolatilityBlackout
      BY <1>0
    <3>2. clock >= clock /\ clock < end /\ end - clock <= MaxBlackout
      BY <1>0, <3>1
    <3> QED  BY <1>0, <2>2, <3>1, <3>2, OpeningStep
  <2> QED  BY <1>2, <2>1, <2>2 DEF Gates!signal_volatility
<1>3. ASSUME NEW q, Gates!set_volatility_quorum(q)
      PROVE  WindowsSpaced'
  BY <1>3 DEF Gates!set_volatility_quorum, WindowsSpaced, Gates!HasWindow, Gates!BlackoutsSpaced
<1> QED  BY <1>1, <1>2, <1>3, WindowStep DEF Gates!BlackoutCalls

\* The other steps leave the windows alone or let time pass.
LEMMA BlackoutStep ==
    ASSUME WindowsSpaced, [Gates!Next]_<<clock, Gates!bvars, Gates!gvars>>
    PROVE  WindowsSpaced'
<1> USE DEF Gates!bvars
<1>1. CASE UNCHANGED <<window, last_end, opened, withheld>> /\ (clock' = clock \/ clock' = clock + 1)
  <2>1. clock' \in Nat /\ clock' >= clock
    BY <1>1 DEF WindowsSpaced
  <2>2. Gates!BlackoutsSpaced' /\ Gates!HasWindow' = Gates!HasWindow
    BY <1>1 DEF WindowsSpaced, Gates!BlackoutsSpaced, Gates!HasWindow
  <2>3. withheld.last <= clock'
    BY <2>1 DEF WindowsSpaced
  <2> QED  BY <1>1, <2>1, <2>2, <2>3 DEF WindowsSpaced
<1>2. CASE UNCHANGED <<clock, Gates!bvars, Gates!gvars>>
  BY <1>1, <1>2
<1>3. CASE Gates!Rounds
  BY <1>3, SuppressionStep DEF Gates!Rounds, Gates!update_aggregate
<1>4. CASE Gates!AdminWrites
  BY <1>1, <1>4 DEF Gates!AdminWrites, Gates!trigger_aggregation, Gates!correct_price
<1>5. CASE Gates!BlackoutCalls /\ UNCHANGED <<clock, Gates!gvars>>
  BY <1>5, ScheduleStep
<1>6. CASE Gates!GateCalls
  BY <1>1, <1>6 DEF Gates!GateCalls, Gates!set_bounds, Gates!clear_bounds, Gates!set_policy,
       Gates!clear_policy
<1>7. CASE Gates!LatticeCalls
  BY <1>1, <1>7 DEF Gates!LatticeCalls, Gates!add_relation, Gates!remove_relation,
       Gates!declare_depeg, Gates!clear_depeg, Gates!PeerPublishes
<1>8. CASE Gates!Tick
  BY <1>1, <1>8 DEF Gates!Tick
<1> QED  BY <1>2, <1>3, <1>4, <1>5, <1>6, <1>7, <1>8 DEF Gates!Next

-----------------------------------------------------------------------------
(* Gates *)

Deferrals == [state : {"Published", "Stale", "Deferred"}, since : Int,
              received : Nat, quorum : Nat]

\* The gates hold what their setters accept.
GatesTyped ==
    /\ clock \in Nat
    /\ bounds \in {Gates!NoTier} \cup Tiers
    /\ policy \in {Gates!NoPolicy} \cup Policies
    /\ status \in {Gates!Unknown} \cup Deferrals
    /\ sanity \in [violated : BOOLEAN, quarantined : BOOLEAN]

\* What a gated round may do.
Gated ==
    /\ price' # price /\ route' = "pipeline" =>
         /\ ~Gates!Dark /\ ~sanity.quarantined /\ ~sanity'.quarantined
         /\ bounds # Gates!NoTier => price' \in bounds.soft_min..bounds.soft_max
    /\ status' # status /\ status'.state = "Deferred" =>
         clock - status'.since < policy.max_defer

\* A clamped median lies inside the soft bounds.
LEMMA ClampedInside ==
    ASSUME NEW p \in Nat, bounds \in Tiers
    PROVE  Gates!evaluate(p) \in bounds.soft_min..bounds.soft_max
<1>1. /\ bounds.soft_min \in Int /\ bounds.soft_max \in Int /\ bounds.soft_min <= bounds.soft_max
      /\ bounds # Gates!NoTier
  <2>1. bounds = [hard_min |-> 90, soft_min |-> 95, soft_max |-> 105, hard_max |-> 120]
    BY DEF Tiers
  <2> QED  BY <2>1 DEF Gates!NoTier
<1> QED  BY <1>1 DEF Gates!evaluate

\* A deferral is resolved to a well-formed state, and not to Deferred when its
\* bound is over.
LEMMA DeferralResolved ==
    ASSUME GatesTyped, policy # Gates!NoPolicy, NEW n \in Nat
    PROVE  /\ Gates!resolve(n) \in Deferrals
           /\ Gates!resolve(n).state = "Deferred"
                => clock - Gates!resolve(n).since < policy.max_defer
<1>1. policy.quorum \in Nat /\ policy.max_defer \in Nat \ {0}
  BY DEF GatesTyped, Policies
<1>2. clock \in Nat
  BY DEF GatesTyped
<1>3. Gates!DeferredSince \in Int
  BY DEF Gates!DeferredSince, GatesTyped, Deferrals
<1>4. PICK d \in Int : d = Gates!DeferredSince
  BY <1>3
<1>5. CASE n >= policy.quorum
  BY <1>1, <1>5 DEF Gates!resolve, Deferrals
<1>6. CASE ~(n >= policy.quorum) /\ (Gates!BoundHit \/ Gates!PreviousState = "Stale")
  BY <1>1, <1>4, <1>6 DEF Gates!resolve, Deferrals
<1>7. CASE /\ ~(n >= policy.quorum) /\ ~Gates!BoundHit /\ Gates!PreviousState = "Deferred"
  <2>1. Gates!resolve(n) = [state |-> "Deferred", since |-> d, received |-> n,
                            quorum |-> policy.quorum]
    BY <1>4, <1>7 DEF Gates!resolve
  <2>2. clock - d < policy.max_defer
    BY <1>1, <1>2, <1>4, <1>7 DEF Gates!BoundHit
  <2> QED  BY <1>1, <1>4, <2>1, <2>2 DEF Deferrals
<1>8. CASE /\ ~(n >= policy.quorum) /\ ~Gates!BoundHit /\ Gates!PreviousState # "Stale"
           /\ Gates!PreviousState # "Deferred"
  <2>1. Gates!resolve(n) = [state |-> "Deferred", since |-> clock, received |-> n,
                            quorum |-> policy.quorum]
    BY <1>8 DEF Gates!resolve
  <2> QED  BY <1>1, <1>2, <2>1 DEF Deferrals
<1> QED  BY <1>5, <1>6, <1>7, <1>8

\* A round publishes only past every gate, clamped, and resolves its deferral.
LEMMA RoundStep ==
    ASSUME GatesTyped, NEW p \in Medians, NEW received \in 0..2, NEW enough \in BOOLEAN,
           Gates!update_aggregate(p, received, enough)
    PROVE  GatesTyped' /\ Gated
<1> DEFINE out == Gates!evaluate(p)
           passes == Gates!Passes(p, received, enough)
<1>1. /\ clock' = clock /\ bounds' = bounds /\ policy' = policy
      /\ price' = IF passes /\ ~Gates!Blocked(out) THEN out ELSE price
      /\ sanity' = IF passes /\ Gates!Violated(out) # {}
                   THEN [violated |-> TRUE, quarantined |-> Gates!Quarantines(out)]
                   ELSE sanity
  BY DEF Gates!update_aggregate
<1>2. status' = status \/ (policy # Gates!NoPolicy
                             /\ \E n \in {policy.quorum, received} : status' = Gates!resolve(n))
  BY DEF Gates!update_aggregate
<1>3. p \in Nat /\ received \in Nat
  BY GatesAssumption
<1>4. Gates!Quarantines(out) \in BOOLEAN
  BY DEF Gates!Quarantines, GatesTyped
<1>5. sanity' \in [violated : BOOLEAN, quarantined : BOOLEAN]
  BY <1>1, <1>4 DEF GatesTyped
<1>6. /\ status' \in {Gates!Unknown} \cup Deferrals
      /\ status' # status /\ status'.state = "Deferred" => clock - status'.since < policy.max_defer
  <2>1. CASE status' = status
    BY <2>1 DEF GatesTyped
  <2>2. ASSUME policy # Gates!NoPolicy, NEW n \in {policy.quorum, received},
               status' = Gates!resolve(n)
        PROVE  /\ status' \in Deferrals
               /\ status'.state = "Deferred" => clock - status'.since < policy.max_defer
    <3>1. n \in Nat
      BY <1>3, <2>2 DEF GatesTyped, Policies
    <3> QED  BY <2>2, <3>1, DeferralResolved
  <2> QED  BY <1>2, <2>1, <2>2
<1>7. ASSUME price' # price
      PROVE  /\ ~Gates!Dark /\ ~sanity.quarantined /\ ~sanity'.quarantined
             /\ bounds # Gates!NoTier => price' \in bounds.soft_min..bounds.soft_max
  <2>1. passes /\ ~Gates!Blocked(out) /\ price' = out
    BY <1>1, <1>7
  <2>2. ~Gates!Dark
    BY <2>1 DEF Gates!Passes
  <2>3. ~Gates!Quarantines(out)
    BY <2>1 DEF Gates!Blocked
  <2>4. ~sanity.quarantined
    BY <2>3 DEF Gates!Quarantines
  <2>5. ~sanity'.quarantined
    BY <1>1, <2>3, <2>4
  <2>6. bounds # Gates!NoTier => price' \in bounds.soft_min..bounds.soft_max
    BY <1>3, <2>1, ClampedInside DEF GatesTyped
  <2> QED  BY <2>2, <2>4, <2>5, <2>6
<1>8. GatesTyped'
  BY <1>1, <1>5, <1>6 DEF GatesTyped
<1> HIDE DEF out, passes
<1> QED  BY <1>6, <1>7, <1>8 DEF Gated

LEMMA GateStep ==
    ASSUME GatesTyped, [Gates!Next]_<<clock, Gates!bvars, Gates!gvars>>
    PROVE  GatesTyped' /\ Gated
<1> USE DEF Gates!gvars
<1>1. CASE UNCHANGED <<clock, Gates!bvars, Gates!gvars>>
  BY <1>1 DEF GatesTyped, Gated
<1>2. CASE Gates!Rounds
  BY <1>2, RoundStep DEF Gates!Rounds
<1>3. CASE Gates!AdminWrites
  BY <1>3 DEF Gates!AdminWrites, Gates!trigger_aggregation, Gates!correct_price, GatesTyped,
       Gated
<1>4. CASE Gates!BlackoutCalls /\ UNCHANGED <<clock, Gates!gvars>>
  BY <1>4 DEF GatesTyped, Gated
<1>5. CASE Gates!GateCalls
  BY <1>5 DEF Gates!GateCalls, Gates!set_bounds, Gates!clear_bounds, Gates!set_policy,
       Gates!clear_policy, GatesTyped, Gated
<1>6. CASE Gates!LatticeCalls
  BY <1>6 DEF Gates!LatticeCalls, Gates!add_relation, Gates!remove_relation,
       Gates!declare_depeg, Gates!clear_depeg, Gates!PeerPublishes, GatesTyped, Gated
<1>7. CASE Gates!Tick
  BY <1>7 DEF Gates!Tick, GatesTyped, Gated
<1> QED  BY <1>1, <1>2, <1>3, <1>4, <1>5, <1>6, <1>7 DEF Gates!Next

\* sanity_lattice.rs:317, deferral.rs:189.  A round that publishes is outside a
\* blackout, inside the soft bounds and not quarantined, and none leaves the
\* asset Deferred past its bound, whatever is configured between the rounds.
THEOREM GatesAreRespected == Spec => RoundsRespectGates
<1>1. Init => GatesTyped
  BY DEF Init, Gates!Init, Gates!BlackoutInit, GatesTyped, Gates!Clean
<1>2. GatesTyped /\ [Next]_vars => GatesTyped'
  BY StepsOfParts, GateStep
<1>3. GatesTyped /\ [Next]_vars
        => [ /\ price' # price /\ route' = "pipeline" =>
                  /\ ~Gates!Dark /\ ~sanity.quarantined /\ ~sanity'.quarantined
                  /\ bounds # Gates!NoTier => price' \in bounds.soft_min..bounds.soft_max
             /\ status' # status /\ status'.state = "Deferred" =>
                  clock - status'.since < policy.max_defer ]_<<clock, Gates!bvars, Gates!gvars>>
  BY StepsOfParts, GateStep DEF Gated
<1> QED  BY <1>1, <1>2, <1>3, PTL DEF Spec, RoundsRespectGates, Gates!RoundsRespectGates

-----------------------------------------------------------------------------
(* Commit-reveal *)

CommitRecords == [price : Quotes, revealed : BOOLEAN, at : Nat]
Books == [Committers -> [Commits!RoundLedgers -> {Commits!NoCommit} \cup CommitRecords]]

\* A commitment is of its round's window and a price is shown after it, as long
\* as the windows stand since the round began.
RoundsApart ==
    /\ height \in Nat /\ height <= LastLedger
    /\ commit_window \in Nat \ {0} /\ reveal_window \in Nat \ {0}
    /\ changed \in Int /\ changed <= height
    /\ commits \in Books
    /\ shown \in [Commits!RoundLedgers -> Int]
    /\ \A s \in Committers, r \in Commits!RoundLedgers :
         commits[s][r] # Commits!NoCommit =>
            /\ r <= commits[s][r].at /\ commits[s][r].at <= height
            /\ changed <= r => commits[s][r].at < r + commit_window
    /\ \A r \in Commits!RoundLedgers :
         shown[r] # -1 =>
            /\ r < shown[r] /\ shown[r] <= height
            /\ changed <= r => r + commit_window <= shown[r]

\* The current round is the one the ledger is in.
LEMMA CurrentRound ==
    ASSUME NEW h \in Nat, NEW w \in Nat \ {0}
    PROVE  /\ (h \div w) * w \in Nat
           /\ (h \div w) * w <= h
           /\ h < (h \div w) * w + w
<1>1. PICK q \in Int : q = h \div w
  OBVIOUS
<1>2. h \div w >= 0
  OBVIOUS
<1> QED  BY <1>1, <1>2

\* A commitment is made to the current round.
LEMMA CommitStep ==
    ASSUME RoundsApart, NEW s \in Committers, NEW p \in Quotes, Commits!commit_price(s, p)
    PROVE  RoundsApart'
<1>1. PICK c : c = Commits!current_round_ledger
  OBVIOUS
<1>2. c \in Nat /\ c <= height /\ height < c + commit_window
  BY <1>1, CurrentRound DEF RoundsApart, Commits!current_round_ledger, Books
<1>3. c \in Commits!RoundLedgers
  BY <1>2, WindowsAssumption DEF RoundsApart, Commits!RoundLedgers, Books
<1>4. PICK x \in CommitRecords : x = [price |-> p, revealed |-> FALSE, at |-> height]
  BY DEF CommitRecords, RoundsApart, Books
<1>5. /\ commits' = [commits EXCEPT ![s][c] = x]
      /\ UNCHANGED <<height, commit_window, reveal_window, changed, shown>>
  BY <1>1, <1>4 DEF Commits!commit_price
<1>6. x.at = height
  BY <1>4
<1>7. commits' \in Books
  BY <1>3, <1>5 DEF RoundsApart, Books
<1>8. \A t \in Committers, r \in Commits!RoundLedgers :
        commits'[t][r] = IF t = s /\ r = c THEN x ELSE commits[t][r]
  BY <1>3, <1>5 DEF RoundsApart, Books
<1>9. ASSUME NEW t \in Committers, NEW r \in Commits!RoundLedgers,
             commits'[t][r] # Commits!NoCommit
      PROVE  /\ r <= commits'[t][r].at /\ commits'[t][r].at <= height
             /\ changed <= r => commits'[t][r].at < r + commit_window
  <2>1. CASE t = s /\ r = c
    BY <1>2, <1>6, <1>8, <2>1 DEF RoundsApart, Books
  <2>2. CASE ~(t = s /\ r = c)
    BY <1>8, <1>9, <2>2 DEF RoundsApart, Books
  <2> QED  BY <2>1, <2>2
<1> QED  BY <1>5, <1>7, <1>9 DEF RoundsApart, Books

\* A step that marks commitments revealed keeps when they were made.
LEMMA RevealStep ==
    ASSUME RoundsApart, NEW R \in SUBSET Commits!RoundLedgers,
           \A r \in R : Commits!InRevealWindow(r),
           UNCHANGED <<height, commit_window, reveal_window, changed>>,
           commits' \in Books,
           \A t \in Committers, r \in Commits!RoundLedgers :
              commits'[t][r] = commits[t][r]
                \/ (commits[t][r] # Commits!NoCommit /\ commits'[t][r].at = commits[t][r].at),
           shown' = [r \in Commits!RoundLedgers |->
                       IF r \in R /\ shown[r] = -1 THEN height ELSE shown[r]]
    PROVE  RoundsApart'
<1>1. \A r \in Commits!RoundLedgers : r \in Nat
  BY WindowsAssumption DEF Commits!RoundLedgers
<1>2. shown' \in [Commits!RoundLedgers -> Int]
  BY DEF RoundsApart, Books
<1>3. ASSUME NEW r \in Commits!RoundLedgers, shown'[r] # -1
      PROVE  /\ r < shown'[r] /\ shown'[r] <= height
             /\ changed <= r => r + commit_window <= shown'[r]
  <2>1. CASE r \in R /\ shown[r] = -1
    <3>1. height >= r + commit_window
      BY <2>1 DEF Commits!InRevealWindow, Commits!reveal_start
    <3> QED  BY <1>1, <2>1, <3>1 DEF RoundsApart, Books
  <2>2. CASE ~(r \in R /\ shown[r] = -1)
    BY <1>3, <2>2 DEF RoundsApart, Books
  <2> QED  BY <2>1, <2>2
<1>4. ASSUME NEW t \in Committers, NEW r \in Commits!RoundLedgers,
             commits'[t][r] # Commits!NoCommit
      PROVE  /\ r <= commits'[t][r].at /\ commits'[t][r].at <= height
             /\ changed <= r => commits'[t][r].at < r + commit_window
  BY <1>4 DEF RoundsApart, Books
<1> QED  BY <1>2, <1>3, <1>4 DEF RoundsApart, Books

\* Marking a commitment revealed keeps it, and when it was made.
LEMMA MarkedRecord ==
    ASSUME NEW x \in CommitRecords
    PROVE  /\ [x EXCEPT !.revealed = TRUE] \in CommitRecords
           /\ [x EXCEPT !.revealed = TRUE].at = x.at
BY DEF CommitRecords

LEMMA CommitRevealStep ==
    ASSUME RoundsApart, [Commits!Next]_crvars
    PROVE  RoundsApart'
<1>1. CASE UNCHANGED crvars
  BY <1>1 DEF crvars, RoundsApart, Books
<1>2. CASE Commits!CommitCalls
  BY <1>2, CommitStep DEF Commits!CommitCalls
<1>3. ASSUME NEW s \in Committers, NEW r \in Commits!RoundLedgers, NEW p,
             Commits!reveal_price(s, r, p)
      PROVE  RoundsApart'
  <2>1. /\ Commits!InRevealWindow(r) /\ commits[s][r] # Commits!NoCommit
        /\ commits' = [commits EXCEPT ![s][r].revealed = TRUE]
        /\ UNCHANGED <<height, commit_window, reveal_window, changed>>
        /\ shown' = [shown EXCEPT ![r] = IF @ = -1 THEN height ELSE @]
    BY <1>3 DEF Commits!reveal_price
  <2>2. shown' = [q \in Commits!RoundLedgers |->
                    IF q \in {r} /\ shown[q] = -1 THEN height ELSE shown[q]]
    BY <2>1 DEF RoundsApart, Books
  <2>3. {r} \in SUBSET Commits!RoundLedgers /\ \A q \in {r} : Commits!InRevealWindow(q)
    BY <2>1
  <2>4. /\ commits' \in Books
        /\ \A t \in Committers, q \in Commits!RoundLedgers :
             commits'[t][q] = commits[t][q]
               \/ (commits[t][q] # Commits!NoCommit /\ commits'[t][q].at = commits[t][q].at)
    <3>1. commits \in Books
      BY DEF RoundsApart
    <3>2. PICK x : x = [commits[s][r] EXCEPT !.revealed = TRUE]
      OBVIOUS
    <3>3. commits[s][r] \in CommitRecords
      BY <2>1, <3>1 DEF Books
    <3>4. x \in CommitRecords /\ x.at = commits[s][r].at
      BY <3>2, <3>3, MarkedRecord
    <3>5. PICK row : row = [commits[s] EXCEPT ![r] = x]
      OBVIOUS
    <3>6. commits[s] \in [Commits!RoundLedgers -> {Commits!NoCommit} \cup CommitRecords]
      BY <3>1 DEF Books
    <3>7. /\ row \in [Commits!RoundLedgers -> {Commits!NoCommit} \cup CommitRecords]
          /\ \A q \in Commits!RoundLedgers : row[q] = IF q = r THEN x ELSE commits[s][q]
      BY <3>4, <3>5, <3>6
    <3>8. commits' = [commits EXCEPT ![s] = row]
      BY <2>1, <3>2, <3>5
    <3>9. commits' \in Books
      BY <3>1, <3>8, <3>7 DEF Books
    <3>10. \A t \in Committers : commits'[t] = IF t = s THEN row ELSE commits[t]
      BY <3>1, <3>8 DEF Books
    <3> QED  BY <2>1, <3>4, <3>9, <3>7, <3>10
  <2> QED  BY <2>1, <2>2, <2>3, <2>4, RevealStep
<1>4. ASSUME NEW s \in Committers, NEW r \in Commits!RoundLedgers, NEW q \in Commits!RoundLedgers,
             Commits!reveal_prices_batch(s, r, q)
      PROVE  RoundsApart'
  <2>1. /\ r # q /\ \A x \in {r, q} : Commits!InRevealWindow(x) /\ commits[s][x] # Commits!NoCommit
        /\ commits' = [commits EXCEPT ![s][r].revealed = TRUE, ![s][q].revealed = TRUE]
        /\ UNCHANGED <<height, commit_window, reveal_window, changed>>
        /\ shown' = [x \in Commits!RoundLedgers |->
                       IF x \in {r, q} /\ shown[x] = -1 THEN height ELSE shown[x]]
    BY <1>4 DEF Commits!reveal_prices_batch
  <2>2. commits \in Books
    BY DEF RoundsApart
  <2>3. commits[s][r] \in CommitRecords /\ commits[s][q] \in CommitRecords
    BY <2>1, <2>2 DEF Books
  <2>4. PICK x, y : /\ x = [commits[s][r] EXCEPT !.revealed = TRUE]
                    /\ y = [commits[s][q] EXCEPT !.revealed = TRUE]
    OBVIOUS
  <2>5. /\ x \in CommitRecords /\ x.at = commits[s][r].at
        /\ y \in CommitRecords /\ y.at = commits[s][q].at
    BY <2>3, <2>4, MarkedRecord
  <2>6. PICK row : row = [commits[s] EXCEPT ![r] = x]
    OBVIOUS
  <2>7. PICK next : next = [row EXCEPT ![q] = y]
    OBVIOUS
  <2>8. commits[s] \in [Commits!RoundLedgers -> {Commits!NoCommit} \cup CommitRecords]
    BY <2>2 DEF Books
  <2>9. /\ row \in [Commits!RoundLedgers -> {Commits!NoCommit} \cup CommitRecords]
         /\ \A z \in Commits!RoundLedgers : row[z] = IF z = r THEN x ELSE commits[s][z]
    BY <2>5, <2>6, <2>8
  <2>10. /\ next \in [Commits!RoundLedgers -> {Commits!NoCommit} \cup CommitRecords]
         /\ \A z \in Commits!RoundLedgers : next[z] = IF z = q THEN y ELSE row[z]
    BY <2>5, <2>7, <2>9
  <2>11. commits' = [commits EXCEPT ![s] = next]
    <3>1. PICK mid : mid = [commits EXCEPT ![s][r].revealed = TRUE]
      OBVIOUS
    <3>2. mid = [commits EXCEPT ![s] = row]
      BY <2>4, <2>6, <3>1
    <3>3. commits' = [mid EXCEPT ![s][q].revealed = TRUE]
      BY <2>1, <3>1
    <3>4. mid[s] = row /\ \A t \in Committers : t # s => mid[t] = commits[t]
      BY <2>2, <3>2 DEF Books
    <3>5. commits' = [mid EXCEPT ![s] = [mid[s] EXCEPT ![q] = [mid[s][q] EXCEPT !.revealed = TRUE]]]
      BY <3>3
    <3>6. mid[s][q] = commits[s][q]
      BY <2>1, <2>9, <3>4
    <3>7. commits' = [mid EXCEPT ![s] = next]
      BY <2>4, <2>7, <3>4, <3>5, <3>6
    <3> QED  BY <2>2, <3>2, <3>7 DEF Books
  <2>12. commits' \in Books
    BY <2>2, <2>10, <2>11 DEF Books
  <2>13. \A t \in Committers : commits'[t] = IF t = s THEN next ELSE commits[t]
    BY <2>2, <2>11 DEF Books
  <2>14. \A t \in Committers, z \in Commits!RoundLedgers :
          commits'[t][z] = commits[t][z]
            \/ (commits[t][z] # Commits!NoCommit /\ commits'[t][z].at = commits[t][z].at)
    BY <2>1, <2>5, <2>9, <2>10, <2>13
  <2>15. {r, q} \in SUBSET Commits!RoundLedgers /\ \A z \in {r, q} : Commits!InRevealWindow(z)
    BY <2>1
  <2> QED  BY <2>1, <2>14, <2>15, <2>12, RevealStep
<1>5. ASSUME NEW s \in Committers, NEW r \in Commits!RoundLedgers,
             Commits!slash_expired_commits(s, r)
      PROVE  RoundsApart'
  <2>1. /\ commits' = [commits EXCEPT ![s][r] = Commits!NoCommit]
        /\ UNCHANGED <<height, commit_window, reveal_window, changed, shown>>
    BY <1>5 DEF Commits!slash_expired_commits
  <2>2. commits' \in Books
    BY <2>1 DEF RoundsApart, Books
  <2>3. \A t \in Committers, q \in Commits!RoundLedgers :
          commits'[t][q] = commits[t][q] \/ commits'[t][q] = Commits!NoCommit
    BY <2>1 DEF RoundsApart, Books
  <2> QED  BY <2>1, <2>2, <2>3 DEF RoundsApart, Books
<1>6. ASSUME NEW n \in Nat \ {0}, changed' = height, UNCHANGED <<height, commits, shown>>,
             \/ commit_window' = n /\ reveal_window' = reveal_window
             \/ reveal_window' = n /\ commit_window' = commit_window
      PROVE  RoundsApart'
  <2>1. commit_window' \in Nat \ {0} /\ reveal_window' \in Nat \ {0}
    BY <1>6 DEF RoundsApart, Books
  <2>2. \A r \in Commits!RoundLedgers : r \in Nat
    BY WindowsAssumption DEF Commits!RoundLedgers
  <2>3. ASSUME NEW t \in Committers, NEW r \in Commits!RoundLedgers,
               commits[t][r] # Commits!NoCommit, height <= r
        PROVE  commits[t][r].at < r + commit_window'
    <3>1. commits[t][r].at \in Nat /\ commits[t][r].at <= height /\ height \in Nat
      BY <2>3 DEF RoundsApart, CommitRecords, Books
    <3> QED  BY <2>1, <2>2, <2>3, <3>1
  <2>4. ASSUME NEW r \in Commits!RoundLedgers, shown[r] # -1, height <= r
        PROVE  FALSE
    <3>1. shown[r] \in Int /\ r < shown[r] /\ shown[r] <= height /\ height \in Nat
      BY <2>4 DEF RoundsApart, Books
    <3> QED  BY <2>2, <2>4, <3>1
  <2> QED  BY <1>6, <2>1, <2>3, <2>4 DEF RoundsApart, Books
<1>7. CASE Commits!CommitConfig
  <2>1. ASSUME NEW n, Commits!set_commit_reveal_slash_amount(n)
        PROVE  RoundsApart'
    BY <2>1 DEF Commits!set_commit_reveal_slash_amount, RoundsApart, Books
  <2>2. ASSUME NEW n \in CommitWindows, Commits!set_commit_window(n)
        PROVE  RoundsApart'
    BY <1>6, <2>2, WindowsAssumption DEF Commits!set_commit_window
  <2>3. ASSUME NEW n \in RevealWindows, Commits!set_reveal_window(n)
        PROVE  RoundsApart'
    BY <1>6, <2>3, WindowsAssumption DEF Commits!set_reveal_window
  <2> QED  BY <1>7, <2>1, <2>2, <2>3 DEF Commits!CommitConfig
<1>8. CASE Commits!CloseRound
  <2>1. /\ height' = height + 1 /\ height < LastLedger
        /\ UNCHANGED <<commits, commit_window, reveal_window, changed, shown>>
    BY <1>8 DEF Commits!CloseRound
  <2>2. height' \in Nat /\ height' <= LastLedger /\ height <= height' /\ changed <= height'
    BY <2>1, WindowsAssumption DEF RoundsApart, Books
  <2>3. \A t \in Committers, r \in Commits!RoundLedgers :
          commits[t][r] # Commits!NoCommit => commits[t][r].at <= height'
    <3>1. \A t \in Committers, r \in Commits!RoundLedgers :
            commits[t][r] # Commits!NoCommit => commits[t][r].at \in Nat
      BY DEF RoundsApart, CommitRecords, Books
    <3> QED  BY <2>1, <2>2, <3>1 DEF RoundsApart, Books
  <2>4. \A r \in Commits!RoundLedgers : shown[r] # -1 => shown[r] <= height'
    BY <2>1, <2>2 DEF RoundsApart, Books
  <2> QED  BY <2>1, <2>2, <2>3, <2>4 DEF RoundsApart, Books
<1> QED  BY <1>1, <1>2, <1>3, <1>4, <1>5, <1>7, <1>8 DEF Commits!Next, Commits!RevealCalls

\* prices.rs:2599.  Every commitment of a round is older than the first price
\* shown of it, unless a window was changed since the round began.
THEOREM RoundsStayBlind == Spec => []RoundsAreBlind
<1>1. Init => RoundsApart
  BY WindowsAssumption DEF Init, Commits!Init, RoundsApart, Books
<1>2. RoundsApart /\ [Next]_vars => RoundsApart'
  BY StepsOfParts, CommitRevealStep
<1>3. RoundsApart => RoundsAreBlind
  <2> SUFFICES ASSUME RoundsApart, NEW s \in Committers, NEW r \in Commits!RoundLedgers,
                      commits[s][r] # Commits!NoCommit, shown[r] # -1, changed <= r
               PROVE  commits[s][r].at < shown[r]
    BY DEF RoundsAreBlind, Commits!RoundsAreBlind
  <2>1. /\ commits[s][r].at \in Nat /\ shown[r] \in Int /\ commit_window \in Nat /\ r \in Nat
    BY WindowsAssumption DEF RoundsApart, CommitRecords, Commits!RoundLedgers, Books
  <2>2. commits[s][r].at < r + commit_window /\ r + commit_window <= shown[r]
    BY DEF RoundsApart, Books
  <2> QED  BY <2>1, <2>2
<1> QED  BY <1>1, <1>2, <1>3, PTL DEF Spec

-----------------------------------------------------------------------------
(* Time *)

Math == INSTANCE PriceMathProofs

Entries == [{a1} -> [{s1, s2} -> Lifecycle!PriceEntry \cup {None}]]

\* Entries no newer than the ledger.
DatedEntries(subs) ==
    /\ subs \in Entries
    /\ \A a \in {a1}, s \in {s1, s2} : subs[a][s] # None => subs[a][s].timestamp <= ledger
DatedAggregates(g) ==
    /\ DOMAIN g = {a1}
    /\ \A a \in {a1} : g[a] # None => g[a].timestamp \in Nat /\ g[a].timestamp <= ledger

\* Neither the stored submissions nor the aggregates are ahead of the ledger.
Dated ==
    /\ ledger \in Nat
    /\ sources \subseteq {s1, s2}
    /\ DatedEntries(submission)
    /\ aggregate = [a \in {a1} |-> aggregate[a]]
    /\ DatedAggregates(aggregate)

\* A round takes its timestamp from one of its submissions.
LEMMA RoundIsDated ==
    ASSUME Dated, NEW subs, DatedEntries(subs), NEW a \in {a1}, NEW C \in SUBSET {s1, s2},
           \A s \in C : subs[a][s] # None
    PROVE  LET t == Lifecycle!TimestampOf(Lifecycle!BasisOf(a, subs, C))
           IN  t \in Nat /\ t <= ledger
<1>1. PICK f : f = [s \in C |-> subs[a][s].timestamp]
  OBVIOUS
<1>2. DOMAIN f = C /\ \A s \in C : f[s] \in Nat /\ f[s] <= ledger
  BY <1>1 DEF DatedEntries, Entries, Lifecycle!PriceEntry
<1>3. Math!IsFiniteSet({s1, s2})
  <2>1. Math!IsFiniteSet({})
    BY Math!FS_EmptySet
  <2>2. Math!IsFiniteSet({} \cup {s1})
    BY <2>1, Math!FS_AddElement
  <2>3. Math!IsFiniteSet(({} \cup {s1}) \cup {s2})
    BY <2>2, Math!FS_AddElement
  <2>4. ({} \cup {s1}) \cup {s2} = {s1, s2}
    OBVIOUS
  <2> QED  BY <2>3, <2>4
<1>4. Math!IsFiniteSet(C)
  BY <1>3, Math!FS_Subset
<1>5. Math!Family(f)
  BY <1>2, <1>4 DEF Math!Family
<1>6. Math!latest_timestamp(f) \in Nat /\ Math!latest_timestamp(f) <= ledger
  BY <1>2, <1>5, Math!LatestBound DEF Dated
<1>7. Lifecycle!TimestampOf(Lifecycle!BasisOf(a, subs, C)) = Lifecycle!latest_timestamp(f)
  BY <1>1 DEF Lifecycle!TimestampOf, Lifecycle!BasisOf
<1>8. Lifecycle!latest_timestamp(f) = Math!latest_timestamp(f)
  BY DEF Lifecycle!latest_timestamp, Math!latest_timestamp
<1> QED  BY <1>6, <1>7, <1>8

\* Aggregating publishes such a round or leaves the aggregate alone.
LEMMA AggregationIsDated ==
    ASSUME Dated, NEW A, NEW subs, DatedEntries(subs), NEW srcs \in SUBSET {s1, s2}, NEW inact,
           NEW recompute, Lifecycle!AggregateAssets(A, subs, srcs, inact, recompute)
    PROVE  aggregate' = [a \in {a1} |-> aggregate'[a]] /\ DatedAggregates(aggregate')
<1> DEFINE C(a) == Lifecycle!Eligible(a, subs, srcs, inact)
           B(a) == Lifecycle!BasisOf(a, subs, C(a))
           On(a) == a \in A /\ Lifecycle!Reaches(C(a))
<1>1. aggregate' = [a \in {a1} |->
         IF On(a) THEN Lifecycle!Published(a, B(a), recompute) ELSE aggregate[a]]
  BY DEF Lifecycle!AggregateAssets
<1>2. ASSUME NEW a \in {a1}
      PROVE  C(a) \in SUBSET {s1, s2} /\ \A s \in C(a) : subs[a][s] # None
  BY DEF Lifecycle!Eligible
<1>3. ASSUME NEW a \in {a1}
      PROVE  /\ Lifecycle!TimestampOf(B(a)) \in Nat
             /\ Lifecycle!TimestampOf(B(a)) <= ledger
  <2> HIDE DEF C
  <2> QED  BY <1>2, RoundIsDated
<1> HIDE DEF B, On
<1>4. ASSUME NEW a \in {a1}
      PROVE  /\ Lifecycle!Published(a, B(a), recompute).timestamp \in Nat
             /\ Lifecycle!Published(a, B(a), recompute).timestamp <= ledger
  BY <1>3 DEF Lifecycle!Published, Dated, DatedAggregates
<1>5. ASSUME NEW a \in {a1}, aggregate'[a] # None
      PROVE  aggregate'[a].timestamp \in Nat /\ aggregate'[a].timestamp <= ledger
  BY <1>1, <1>4, <1>5 DEF Dated, DatedAggregates
<1> QED  BY <1>1, <1>5 DEF DatedAggregates

LEMMA DatedStep ==
    ASSUME Dated, UNCHANGED ledger, sources' \subseteq {s1, s2}, DatedEntries(submission'),
           aggregate' = [a \in {a1} |-> aggregate'[a]], DatedAggregates(aggregate')
    PROVE  Dated'
BY DEF Dated, DatedEntries, DatedAggregates

\* A submission is stored with a timestamp that has passed.
LEMMA EntryIsDated ==
    ASSUME Dated, NEW p \in {1}, NEW t \in {0, 1, 2}, t <= ledger + 0
    PROVE  /\ Lifecycle!StoreEntry(p, t) \in Lifecycle!PriceEntry
           /\ Lifecycle!StoreEntry(p, t).timestamp <= ledger
BY DEF Dated, Lifecycle!StoreEntry, Lifecycle!PriceEntry

LEMMA SubmissionIsDated ==
    ASSUME Dated, NEW s \in {s1, s2}, Lifecycle!Submit(s)
    PROVE  Dated'
<1>1. ASSUME NEW a \in {a1}, NEW p \in {1}, NEW t \in {0, 1, 2},
             Lifecycle!submit_price(s, a, p, t)
      PROVE  Dated'
  <2>1. /\ t <= ledger + 0 /\ UNCHANGED <<ledger, sources>>
        /\ submission' = [submission EXCEPT ![a][s] = Lifecycle!StoreEntry(p, t)]
        /\ Lifecycle!AggregateAssets({a}, submission', sources, inactive, FALSE)
    BY <1>1 DEF Lifecycle!submit_price, Lifecycle!Acceptable
  <2>2. PICK e : e = Lifecycle!StoreEntry(p, t)
    OBVIOUS
  <2>3. e \in Lifecycle!PriceEntry /\ e.timestamp <= ledger
    BY <2>1, <2>2, EntryIsDated
  <2>4. submission \in Entries
    BY DEF Dated, DatedEntries
  <2>5. submission' \in Entries
    BY <2>1, <2>2, <2>3, <2>4 DEF Entries
  <2>6. \A c \in {a1}, r \in {s1, s2} :
          submission'[c][r] = IF c = a /\ r = s THEN e ELSE submission[c][r]
    BY <2>1, <2>2, <2>4 DEF Entries
  <2>7. DatedEntries(submission')
    BY <2>3, <2>5, <2>6 DEF Dated, DatedEntries
  <2> QED  BY <2>1, <2>7, AggregationIsDated, DatedStep DEF Dated
<1>2. ASSUME NEW A \in SUBSET {a1}, NEW p \in [A -> {1}], NEW t \in [A -> {0, 1, 2}],
             Lifecycle!submit_prices(s, A, p, t)
      PROVE  Dated'
  <2>1. /\ \A a \in A : t[a] <= ledger + 0
        /\ UNCHANGED <<ledger, sources>>
        /\ submission' = [a \in {a1} |->
             IF a \in A THEN [submission[a] EXCEPT ![s] = Lifecycle!StoreEntry(p[a], t[a])]
                        ELSE submission[a]]
        /\ Lifecycle!AggregateAssets(A, submission', sources, inactive, FALSE)
    BY <1>2 DEF Lifecycle!submit_prices, Lifecycle!Acceptable
  <2>2. \A a \in A : /\ Lifecycle!StoreEntry(p[a], t[a]) \in Lifecycle!PriceEntry
                     /\ Lifecycle!StoreEntry(p[a], t[a]).timestamp <= ledger
    BY <2>1, EntryIsDated
  <2>3. submission \in Entries
    BY DEF Dated, DatedEntries
  <2>4. submission' \in Entries
    BY <2>1, <2>2, <2>3 DEF Entries
  <2>5. \A c \in {a1}, r \in {s1, s2} :
          submission'[c][r] = IF c \in A /\ r = s THEN Lifecycle!StoreEntry(p[c], t[c])
                                                  ELSE submission[c][r]
    BY <2>1, <2>3 DEF Entries
  <2>6. DatedEntries(submission')
    BY <2>2, <2>4, <2>5 DEF Dated, DatedEntries
  <2> QED  BY <2>1, <2>6, AggregationIsDated, DatedStep DEF Dated
<1> QED  BY <1>1, <1>2 DEF Lifecycle!Submit

\* A recomputation after a change of the source set.
LEMMA RecomputationIsDated ==
    ASSUME Dated, NEW X, NEW srcs \in SUBSET {s1, s2}, NEW inact,
           Lifecycle!RecomputeAssets(X, srcs, inact)
    PROVE  aggregate' = [a \in {a1} |-> aggregate'[a]] /\ DatedAggregates(aggregate')
<1>1. DatedEntries(submission)
  BY DEF Dated
<1> QED  BY <1>1, AggregationIsDated DEF Lifecycle!RecomputeAssets

LEMMA SourcesDated ==
    ASSUME Dated, Lifecycle!ChangeSources
    PROVE  Dated'
<1>1. ASSUME NEW s \in {s1, s2},
             Lifecycle!add_source(s) \/ Lifecycle!submit_heartbeat(s)
      PROVE  Dated'
  BY <1>1, DatedStep DEF Lifecycle!add_source, Lifecycle!submit_heartbeat, Dated
<1>2. ASSUME NEW s \in {s1, s2}, Lifecycle!remove_source(s)
      PROVE  Dated'
  <2>1. sources' \in SUBSET {s1, s2} /\ UNCHANGED <<ledger, submission>>
    BY <1>2 DEF Lifecycle!remove_source, Dated
  <2>2. Lifecycle!RecomputeAssets(Lifecycle!AffectedAssets(s), sources', inactive)
    BY <1>2 DEF Lifecycle!remove_source
  <2> QED  BY <2>1, <2>2, RecomputationIsDated, DatedStep DEF Dated
<1>3. ASSUME NEW S \in SUBSET {s1, s2}, Lifecycle!remove_sources(S)
      PROVE  Dated'
  <2>1. sources' \in SUBSET {s1, s2} /\ UNCHANGED <<ledger, submission>>
    BY <1>3 DEF Lifecycle!remove_sources, Dated
  <2>2. Lifecycle!RecomputeAssets(registered, sources', inactive)
    BY <1>3 DEF Lifecycle!remove_sources
  <2> QED  BY <2>1, <2>2, RecomputationIsDated, DatedStep DEF Dated
<1>4. ASSUME NEW s \in {s1, s2}, Lifecycle!is_source_inactive(s)
      PROVE  Dated'
  <2>1. UNCHANGED <<ledger, sources, submission>>
    BY <1>4 DEF Lifecycle!is_source_inactive
  <2>2. Lifecycle!RecomputeAssets(Lifecycle!AffectedAssets(s), sources, inactive')
    BY <1>4 DEF Lifecycle!is_source_inactive
  <2> QED  BY <2>1, <2>2, RecomputationIsDated, DatedStep DEF Dated
<1> QED  BY <1>1, <1>2, <1>3, <1>4 DEF Lifecycle!ChangeSources

\* What is written without aggregating is dated now, earlier or at zero.
LEMMA DirectIsDated ==
    ASSUME Dated, Lifecycle!WriteDirectly
    PROVE  Dated'
<1>1. ASSUME NEW a \in {a1}, NEW e, e.timestamp \in Nat, e.timestamp <= ledger,
             Lifecycle!Write(a, e)
      PROVE  Dated'
  <2>1. aggregate' = [aggregate EXCEPT ![a] = e] /\ UNCHANGED <<ledger, sources, submission>>
    BY <1>1 DEF Lifecycle!Write
  <2>2. aggregate' = [c \in {a1} |-> aggregate'[c]] /\ DatedAggregates(aggregate')
    BY <1>1, <2>1 DEF Dated, DatedAggregates
  <2> QED  BY <2>1, <2>2, DatedStep DEF Dated
<1>2. ledger \in Nat
  BY DEF Dated
<1>3. ASSUME NEW a \in {a1}, NEW p, NEW t \in {0, 1, 2}, Lifecycle!write_price_snapshot(a, p, t)
      PROVE  Dated'
  <2>1. PICK v : /\ t <= ledger + 0
                 /\ Lifecycle!Write(a, [price |-> p, timestamp |-> t, num_sources |-> 1,
                                        version |-> v, is_override |-> FALSE])
    BY <1>3 DEF Lifecycle!write_price_snapshot
  <2> QED  BY <1>1, <1>2, <2>1
<1>4. ASSUME NEW a \in {a1}, NEW p, Lifecycle!correct_price(a, p)
      PROVE  Dated'
  <2>1. PICK n, v : Lifecycle!Write(a, [price |-> p, timestamp |-> ledger, num_sources |-> n,
                                        version |-> v, is_override |-> TRUE])
    BY <1>4 DEF Lifecycle!correct_price
  <2> QED  BY <1>1, <1>2, <2>1
<1>5. ASSUME NEW a \in {a1}, Lifecycle!migrate_v1_to_v2(a)
      PROVE  Dated'
  BY <1>1, <1>2, <1>5 DEF Lifecycle!migrate_v1_to_v2
<1> QED  BY <1>3, <1>4, <1>5 DEF Lifecycle!WriteDirectly

LEMMA LifecycleStep ==
    ASSUME Dated, [Lifecycle!Next]_lvars
    PROVE  Dated'
<1>1. CASE UNCHANGED lvars
  BY <1>1 DEF lvars, Dated, DatedEntries, DatedAggregates
<1>2. CASE \E s \in {s1, s2} : Lifecycle!Submit(s)
  BY <1>2, SubmissionIsDated
<1>3. ASSUME NEW a \in {a1}, Lifecycle!trigger_aggregation(a)
      PROVE  Dated'
  <2>1. PICK b : b = Lifecycle!BasisOf(a, submission, Lifecycle!Stored(a))
    OBVIOUS
  <2>2. /\ aggregate' = [aggregate EXCEPT ![a] =
             [price |-> Lifecycle!PriceOf(b), timestamp |-> Lifecycle!TimestampOf(b),
              num_sources |-> Lifecycle!Cardinality(DOMAIN b), version |-> 0,
              is_override |-> FALSE]]
        /\ UNCHANGED <<ledger, sources, submission>>
    BY <1>3, <2>1 DEF Lifecycle!trigger_aggregation
  <2>3. DatedEntries(submission)
    BY DEF Dated
  <2>4. /\ Lifecycle!Stored(a) \in SUBSET {s1, s2}
        /\ \A s \in Lifecycle!Stored(a) : submission[a][s] # None
    BY DEF Lifecycle!Stored, Dated
  <2>5. Lifecycle!TimestampOf(b) \in Nat /\ Lifecycle!TimestampOf(b) <= ledger
    BY <2>1, <2>3, <2>4, RoundIsDated
  <2>6. aggregate' = [c \in {a1} |-> aggregate'[c]] /\ DatedAggregates(aggregate')
    BY <2>2, <2>5 DEF Dated, DatedAggregates
  <2> QED  BY <2>2, <2>3, <2>6, DatedStep DEF Dated
<1>4. ASSUME NEW a \in {a1}, Lifecycle!recompute_asset_price(a)
      PROVE  Dated'
  <2>1. /\ UNCHANGED <<ledger, sources, submission>>
        /\ Lifecycle!AggregateAssets({a}, submission, sources, inactive, TRUE)
    BY <1>4 DEF Lifecycle!recompute_asset_price
  <2>2. DatedEntries(submission)
    BY DEF Dated
  <2> QED  BY <2>1, <2>2, AggregationIsDated, DatedStep DEF Dated
<1>5. CASE Lifecycle!ChangeSources
  BY <1>5, SourcesDated
<1>6. CASE Lifecycle!Administer
  <2>1. /\ UNCHANGED <<ledger, sources, submission>>
        /\ \/ UNCHANGED aggregate
           \/ \E a \in {a1} : aggregate' = [aggregate EXCEPT ![a] = None]
    BY <1>6 DEF Lifecycle!Administer, Lifecycle!register_asset, Lifecycle!unregister_asset,
         Lifecycle!disable_asset, Lifecycle!enable_asset, Lifecycle!freeze_price,
         Lifecycle!unfreeze_price, Lifecycle!set_paused, Lifecycle!set_min_sources_required,
         Lifecycle!dataVars
  <2>2. aggregate' = [c \in {a1} |-> aggregate'[c]] /\ DatedAggregates(aggregate')
    BY <2>1 DEF Dated, DatedAggregates
  <2> QED  BY <2>1, <2>2, DatedStep DEF Dated
<1>7. CASE Lifecycle!CloseLedger
  <2>1. ledger' = ledger + 1 /\ UNCHANGED <<sources, submission, aggregate>>
    BY <1>7 DEF Lifecycle!CloseLedger
  <2>2. \A a \in {a1}, s \in {s1, s2} : submission[a][s] # None => submission[a][s].timestamp \in Nat
    BY DEF Dated, DatedEntries, Entries, Lifecycle!PriceEntry
  <2> QED  BY <2>1, <2>2 DEF Dated, DatedEntries, DatedAggregates
<1> QED  BY <1>1, <1>2, <1>3, <1>4, <1>5, <1>6, <1>7, DirectIsDated DEF Lifecycle!Next

\* blackout.rs:218, prices.rs:1180.  Blackouts keep the cooldown between them,
\* however they are opened, extended, cancelled and expired, and no aggregate is
\* dated ahead of the ledger, whoever writes it and while its asset is administered.
THEOREM TimeIsRespected == Spec => []TimesRespected
<1>1. Init => WindowsSpaced
  <2> SUFFICES ASSUME Init
               PROVE  WindowsSpaced
    OBVIOUS
  <2>1. /\ clock = 0 /\ window = Gates!NoWindow /\ last_end = -1
        /\ opened = FALSE /\ withheld = Gates!Nothing
    BY DEF Init, Gates!Init, Gates!BlackoutInit
  <2>2. /\ withheld \in [first : Int, last : Int, before : Int]
        /\ withheld.first = -1 /\ withheld.last = -1 /\ withheld.before = -1
    BY <2>1 DEF Gates!Nothing
  <2>3. window \in [start : Int, end : Int] /\ ~Gates!HasWindow
    BY <2>1 DEF Gates!NoWindow, Gates!HasWindow
  <2>4. Gates!BlackoutsSpaced
    BY <2>2, GatesAssumption DEF Gates!BlackoutsSpaced
  <2>5. /\ clock \in Nat /\ last_end \in Int
        /\ withheld.first <= withheld.last /\ withheld.last <= clock
        /\ withheld.last >= -1 /\ withheld.first >= -1
    BY <2>1, <2>2
  <2>6. opened \in BOOLEAN
    BY <2>1
  <2> QED  BY <2>2, <2>3, <2>4, <2>5, <2>6, Zenon DEF WindowsSpaced
<1>2. Init => Dated
  BY DEF Init, Lifecycle!Init, Dated, DatedEntries, Entries, DatedAggregates
<1>3. WindowsSpaced /\ [Next]_vars => WindowsSpaced'
  BY StepsOfParts, BlackoutStep
<1>4. Dated /\ [Next]_vars => Dated'
  BY StepsOfParts, LifecycleStep
<1>5. Dated => Lifecycle!NotFromTheFuture
  BY DEF Dated, DatedEntries, DatedAggregates, Lifecycle!NotFromTheFuture
<1>6. WindowsSpaced /\ Dated => TimesRespected
  BY <1>5 DEF WindowsSpaced, TimesRespected
<1> QED  BY <1>1, <1>2, <1>3, <1>4, <1>6, PTL DEF Spec

-----------------------------------------------------------------------------
(* The history *)

\* The listed ledgers rise up to the current one.  Each of them has its snapshot
\* in the shards, which do not expire, and nothing else is in either store.
HistoryKept ==
    /\ now \in 1..MaxLedger
    /\ cap \in Nat
    /\ list \in Seq(1..now) /\ Ordered(list, Rising)
    /\ DOMAIN shards = Members(list)
    /\ DOMAIN temp \subseteq Members(list)

LEMMA ListedMembers == Archive!Listed = Members(list)
BY DEF Archive!Listed, Archive!ToSet, Members

\* What a store without some ledgers, and one with another, holds.
LEMMA WithoutDomain ==
    ASSUME NEW f, NEW L
    PROVE  /\ DOMAIN Archive!Without(f, L) = DOMAIN f \ L
           /\ DOMAIN Archive!remove_history_shard_entries(f, L) = DOMAIN f \ L
BY DEF Archive!Without, Archive!remove_history_shard_entries
LEMMA WithDomain ==
    ASSUME NEW f, NEW l, NEW p
    PROVE  /\ DOMAIN Archive!With(f, l, p) = DOMAIN f \cup {l}
           /\ DOMAIN Archive!write_history_shard(f, l, p) = DOMAIN f \cup {l}
BY DEF Archive!With, Archive!write_history_shard

\* Trimming drops the same ledgers from the list and from both stores.
LEMMA ForgetStep ==
    ASSUME now \in 1..MaxLedger, cap \in Nat, UNCHANGED <<now, cap>>,
           NEW l \in Seq(1..now), Ordered(l, Rising), NEW n \in 0..Len(l), NEW t, NEW s, NEW i,
           DOMAIN s = Members(l), DOMAIN t \subseteq Members(l), Archive!Forget(l, n, t, s, i)
    PROVE  HistoryKept'
<1>1. now \in Nat
  BY HistoryAssumption
<1>2. PICK L : L = Members(SubSeq(l, 1, n))
  OBVIOUS
<1>3. Archive!Dropped(l, n) = L
  BY <1>2 DEF Archive!Dropped, Archive!ToSet, Members
<1>4. /\ list' = SubSeq(l, n + 1, Len(l))
      /\ DOMAIN temp' = DOMAIN t \ L /\ DOMAIN shards' = DOMAIN s \ L
  BY <1>3, WithoutDomain, WithDomain DEF Archive!Forget
<1>5. /\ list' \in Seq(1..now) /\ Ordered(list', Rising)
      /\ Members(list') = Members(l) \ L
  BY <1>1, <1>2, <1>4, CutLaw
<1>6. Members(list)' = Members(list') /\ Ordered(list, Rising)' = Ordered(list', Rising)
  BY DEF Members, Ordered, Rising
<1> QED  BY <1>4, <1>5, <1>6 DEF HistoryKept

\* The list with the current ledger behind it, if it is not there already.
LEMMA ListingLaw ==
    ASSUME HistoryKept
    PROVE  /\ Archive!Listing \in Seq(1..now) /\ Ordered(Archive!Listing, Rising)
           /\ Members(Archive!Listing) = Members(list) \cup {now}
           /\ list # <<>> /\ Archive!Last(list) # now => now \notin Members(list)
<1>1. now \in Nat /\ now \in 1..now /\ list \in Seq(1..now) /\ Ordered(list, Rising)
  BY HistoryAssumption DEF HistoryKept
<1>2. Archive!Last(list) = list[Len(list)]
  BY DEF Archive!Last
<1>3. CASE list = <<>> \/ list[Len(list)] # now
  <2>1. \A y \in Members(list) : y < now
    BY <1>1, <1>3, LastIsGreatest
  <2>2. Archive!Listing = Append(list, now)
    BY <1>2, <1>3 DEF Archive!Listing
  <2>3. now \notin Members(list)
    BY <1>1, <2>1
  <2> QED  BY <1>1, <2>1, <2>2, <2>3, AppendLaw
<1>4. CASE list # <<>> /\ list[Len(list)] = now
  <2>1. Archive!Listing = list
    BY <1>2, <1>4 DEF Archive!Listing
  <2>2. Len(list) \in DOMAIN list
    BY <1>1, <1>4
  <2>3. now \in Members(list)
    BY <1>4, <2>2 DEF Members
  <2> QED  BY <1>1, <1>2, <1>4, <2>1, <2>3
<1> QED  BY <1>3, <1>4

\* prices.rs and optimistic.rs: a publication is recorded or skipped.
LEMMA RecordingStep ==
    ASSUME HistoryKept, NEW p, NEW budget \in Nat,
           Archive!aggregate(p, budget) \/ Archive!write_price_snapshot(p)
    PROVE  HistoryKept'
<1>1. PICK l : l = IF Archive!should_skip_on_write(p) THEN list ELSE Archive!Listing
  OBVIOUS
<1>2. /\ l \in Seq(1..now) /\ Ordered(l, Rising)
      /\ Members(l) = Members(list) \cup (IF Archive!should_skip_on_write(p) THEN {} ELSE {now})
      /\ Archive!should_skip_on_write(p) => now \notin Members(list)
  BY <1>1, ListingLaw DEF HistoryKept, Archive!should_skip_on_write
<1>3. Len(l) \in Nat /\ cap \in Nat
  BY <1>2 DEF HistoryKept
<1>4. PICK n : n = Archive!Excess(l, cap)
  OBVIOUS
<1>5. n \in 0..Len(l)
  BY <1>3, <1>4 DEF Archive!Excess
<1>6. CASE Archive!aggregate(p, budget)
  <2>1. PICK m : m = IF n < budget THEN n ELSE budget
    OBVIOUS
  <2>2. m \in 0..Len(l)
    BY <1>3, <1>5, <2>1
  <2>3. PICK t1 : t1 = IF tier = "Temporary" THEN Archive!With(temp, now, p) ELSE temp
    OBVIOUS
  <2>4. PICK d1 : d1 = IF tier = "Temporary" THEN shards
                       ELSE Archive!write_history_shard(shards, now, p)
    OBVIOUS
  <2>5. PICK t2 : t2 = IF Archive!should_skip_on_write(p)
                       THEN Archive!remove_history_entry_temp(t1) ELSE t1
    OBVIOUS
  <2>6. PICK d2 : d2 = IF Archive!should_skip_on_write(p)
                       THEN Archive!remove_history_entry_shards(d1)
                       ELSE Archive!write_history_shard(d1, now, p)
    OBVIOUS
  <2>7. PICK i2 : i2 = IF Archive!should_skip_on_write(p) /\ tier = "Temporary" THEN index
                       ELSE Archive!IndexWith(index, now)
    OBVIOUS
  <2>8. Archive!Forget(l, m, t2, d2, i2) /\ UNCHANGED <<now, cap>>
    BY <1>1, <1>4, <1>6, <2>1, <2>3, <2>4, <2>5, <2>6, <2>7 DEF Archive!aggregate
  <2>9. DOMAIN d2 = Members(l)
    <3>1. tier = "Temporary" => DOMAIN d1 = Members(list)
      BY <2>4 DEF HistoryKept
    <3>2. tier # "Temporary" => DOMAIN d1 = Members(list) \cup {now}
      <4>1. DOMAIN Archive!write_history_shard(shards, now, p) = DOMAIN shards \cup {now}
        BY WithDomain
      <4> QED  BY <2>4, <4>1 DEF HistoryKept
    <3>3. CASE Archive!should_skip_on_write(p)
      <4>1. tier = "Temporary" => d2 = d1
        BY <2>6, <3>3 DEF Archive!remove_history_entry_shards
      <4>2. tier # "Temporary" => d2 = Archive!Without(d1, {now})
        BY <2>6, <3>3 DEF Archive!remove_history_entry_shards
      <4>3. DOMAIN Archive!Without(d1, {now}) = DOMAIN d1 \ {now}
        BY WithoutDomain
      <4> QED  BY <1>2, <3>1, <3>2, <3>3, <4>1, <4>2, <4>3
    <3>4. CASE ~Archive!should_skip_on_write(p)
      <4>1. d2 = Archive!write_history_shard(d1, now, p)
        BY <2>6, <3>4
      <4>2. DOMAIN d2 = DOMAIN d1 \cup {now}
        BY <4>1, WithDomain
      <4> QED  BY <1>2, <3>1, <3>2, <3>4, <4>2
    <3> QED  BY <3>3, <3>4
  <2>10. DOMAIN t2 \subseteq Members(l)
    <3>1. DOMAIN Archive!With(temp, now, p) = DOMAIN temp \cup {now}
      BY WithDomain
    <3>2. tier = "Temporary" => DOMAIN t1 \subseteq Members(list) \cup {now}
      BY <2>3, <3>1 DEF HistoryKept
    <3>3. tier # "Temporary" => DOMAIN t1 \subseteq Members(list)
      BY <2>3 DEF HistoryKept
    <3>4. CASE Archive!should_skip_on_write(p)
      <4>1. tier # "Temporary" => t2 = t1
        BY <2>5, <3>4 DEF Archive!remove_history_entry_temp
      <4>2. tier = "Temporary" => t2 = Archive!Without(t1, {now})
        BY <2>5, <3>4 DEF Archive!remove_history_entry_temp
      <4>3. DOMAIN Archive!Without(t1, {now}) = DOMAIN t1 \ {now}
        BY WithoutDomain
      <4> QED  BY <1>2, <3>2, <3>3, <3>4, <4>1, <4>2, <4>3
    <3>5. CASE ~Archive!should_skip_on_write(p)
      BY <1>2, <2>5, <3>2, <3>3, <3>5
    <3> QED  BY <3>4, <3>5
  <2> QED  BY <1>2, <2>2, <2>8, <2>9, <2>10, ForgetStep DEF HistoryKept
<1>7. CASE Archive!write_price_snapshot(p)
  <2>1. PICK t : t = IF Archive!should_skip_on_write(p) THEN temp ELSE Archive!With(temp, now, p)
    OBVIOUS
  <2>2. PICK s : s = IF Archive!should_skip_on_write(p) THEN shards
                     ELSE Archive!write_history_shard(shards, now, p)
    OBVIOUS
  <2>3. PICK i : i = IF Archive!should_skip_on_write(p) THEN index
                     ELSE Archive!IndexWith(index, now)
    OBVIOUS
  <2>4. Archive!Forget(l, n, t, s, i) /\ UNCHANGED <<now, cap>>
    BY <1>1, <1>4, <1>7, <2>1, <2>2, <2>3 DEF Archive!write_price_snapshot
  <2>5. DOMAIN s = Members(l) /\ DOMAIN t \subseteq Members(l)
    <3>1. /\ DOMAIN Archive!With(temp, now, p) = DOMAIN temp \cup {now}
          /\ DOMAIN Archive!write_history_shard(shards, now, p) = DOMAIN shards \cup {now}
      BY WithDomain
    <3>2. CASE Archive!should_skip_on_write(p)
      BY <1>2, <2>1, <2>2, <3>2 DEF HistoryKept
    <3>3. CASE ~Archive!should_skip_on_write(p)
      BY <1>2, <2>1, <2>2, <3>1, <3>3 DEF HistoryKept
    <3> QED  BY <3>2, <3>3
  <2> QED  BY <1>2, <1>5, <2>4, <2>5, ForgetStep DEF HistoryKept
<1> QED  BY <1>6, <1>7

\* The fold of Compacted over the list q, and its prefixes.
CompactStep(q, start, it, T) ==
    IF T = {} THEN start ELSE LET x == Top(T) IN Archive!Compact(it[T \ {x}], q[x])
Compacting(q, start, it) == it = [T \in SUBSET DOMAIN q |-> CompactStep(q, start, it, T)]
CompactFold(q, start) == (CHOOSE it : Compacting(q, start, it))[DOMAIN q]

Compactable(n, q, Y) == \A k \in 1..n, y \in Y : Archive!Compact(y, q[k]) \in Y
LEMMA CompactPrefixes ==
    ASSUME NEW n \in Nat, NEW q, DOMAIN q = 1..n, NEW Y, NEW start \in Y, Compactable(n, q, Y)
    PROVE  \E A : /\ CompactFold(q, start) = A[n] /\ A[0] = start
                  /\ \A k \in 1..n : A[k] = Archive!Compact(A[k - 1], q[k])
<1>1. PICK F : F = [xy \in (1..n) \X Y |-> Archive!Compact(xy[2], q[xy[1]])]
  OBVIOUS
<1>2. F \in [(1..n) \X Y -> Y]
  BY <1>1 DEF Compactable
<1>3. \A x \in 1..n, y \in Y : F[<<x, y>>] = Archive!Compact(y, q[x])
  BY <1>1
<1>4. PICK it : ListFold(n, Y, F, start, it)
  BY <1>2, ListFoldExists
<1>5. ASSUME NEW T \in SUBSET (1..n)
      PROVE  it[T] = CompactStep(q, start, it, T)
  <2>1. CASE T = {}
    BY <1>4, <2>1 DEF ListFold, CompactStep
  <2>2. CASE T # {}
    <3>1. PICK x \in 1..n : x = Top(T)
      BY <2>2, TopIsGreatest
    <3>2. it[T] = F[<<x, it[T \ {x}]>>] /\ it[T \ {x}] \in Y
      BY <1>4, <2>2, <3>1 DEF ListFold
    <3>3. it[T] = Archive!Compact(it[T \ {x}], q[x])
      BY <1>3, <3>2
    <3> QED  BY <2>2, <3>1, <3>3 DEF CompactStep
  <2> QED  BY <2>1, <2>2
<1>6. Compacting(q, start, it)
  <2>1. it = [T \in SUBSET (1..n) |-> CompactStep(q, start, it, T)]
    BY <1>4, <1>5 DEF ListFold
  <2> QED  BY <2>1 DEF Compacting
<1>7. PICK B : B = CHOOSE h : Compacting(q, start, h)
  OBVIOUS
<1>8. Compacting(q, start, B) /\ CompactFold(q, start) = B[1..n]
  BY <1>6, <1>7 DEF CompactFold
<1>9. \A T \in SUBSET (1..n) : B[T] = CompactStep(q, start, B, T)
  <2>1. PICK step : step = [T \in SUBSET (1..n) |-> CompactStep(q, start, B, T)]
    OBVIOUS
  <2>2. B = step
    BY <1>8, <2>1 DEF Compacting
  <2> QED  BY <2>1, <2>2
<1>10. PICK A : A = [k \in 0..n |-> B[1..k]]
  OBVIOUS
<1>11. A[n] = CompactFold(q, start) /\ A[0] = start
  <2>1. 1..0 = {} /\ 0 \in 0..n /\ n \in 0..n
    OBVIOUS
  <2>2. B[{}] = start
    BY <1>9 DEF CompactStep
  <2> QED  BY <1>8, <1>10, <2>1, <2>2
<1>12. ASSUME NEW k \in 1..n
       PROVE  A[k] = Archive!Compact(A[k - 1], q[k])
  <2>1. PICK T : T = 1..k
    OBVIOUS
  <2>2. T \in SUBSET (1..n) /\ T # {}
    <3>1. k \in 1..k /\ 1..k \subseteq 1..n
      OBVIOUS
    <3> QED  BY <2>1, <3>1
  <2>3. Top(T) = k /\ T \ {k} = 1..(k - 1)
    BY <2>1, PrefixStep
  <2>4. A[k] = B[T] /\ A[k - 1] = B[T \ {k}]
    <3>1. A[k] = B[1..k] /\ A[k - 1] = B[1..(k - 1)]
      <4>1. k \in 0..n /\ k - 1 \in 0..n
        OBVIOUS
      <4> QED  BY <1>10, <4>1
    <3> QED  BY <2>1, <2>3, <3>1
  <2>5. B[T] = Archive!Compact(B[T \ {k}], q[k])
    BY <1>9, <2>2, <2>3 DEF CompactStep
  <2> QED  BY <2>4, <2>5
<1> QED  BY <1>11, <1>12

\* history.rs:355.  Compaction keeps a rising part of the list, the last ledger
\* aside.
LEMMA CompactedLaw ==
    ASSUME HistoryKept, Len(list) > 1
    PROVE  /\ Archive!Compacted \in Seq(1..now) /\ Ordered(Archive!Compacted, Rising)
           /\ \A x \in Members(Archive!Compacted) : x \in Members(list) /\ x < Archive!Last(list)
<1>1. PICK m \in Nat : m = Len(list)
  BY DEF HistoryKept
<1>2. /\ m > 1 /\ DOMAIN list = 1..m /\ now \in Nat
      /\ \A i \in 1..m : list[i] \in 1..now
  BY <1>1, HistoryAssumption DEF HistoryKept
<1>3. \A i, j \in 1..m : i < j => list[i] < list[j]
  BY <1>2 DEF HistoryKept, Ordered, Rising
<1>4. PICK n \in Nat : n = m - 2
  BY <1>2
<1>5. PICK q : q = SubSeq(list, 2, Len(list) - 1)
  OBVIOUS
<1>6. DOMAIN q = 1..n /\ \A k \in 1..n : q[k] = list[k + 1]
  BY <1>1, <1>2, <1>4, <1>5 DEF HistoryKept
<1>7. PICK V : V = {Archive!read_history_entry(l) : l \in Members(list)} \cup {0}
  OBVIOUS
<1>8. PICK start : start = [kept |-> <<Head(list)>>,
                            price |-> IF Archive!Readable(Head(list))
                                      THEN Archive!read_history_entry(Head(list)) ELSE 0]
  OBVIOUS
<1>9. PICK Y : Y = [kept : Seq(1..now), price : V]
  OBVIOUS
<1>10. Head(list) = list[1] /\ 1 \in 1..m
  BY <1>1, <1>2 DEF HistoryKept
<1>11. start \in Y /\ start.kept = <<list[1]>>
  <2>1. list[1] \in Members(list) /\ list[1] \in 1..now
    BY <1>2, <1>10 DEF Members
  <2>2. start.price \in V
    BY <1>7, <1>8, <1>10, <2>1
  <2>3. start.kept = <<list[1]>> /\ <<list[1]>> \in Seq(1..now)
    BY <1>8, <1>10, <2>1
  <2> QED  BY <1>8, <1>9, <2>2, <2>3
<1>12. ASSUME NEW k \in 1..n, NEW y \in Y
       PROVE  /\ Archive!Compact(y, q[k]) \in Y
              /\ \/ Archive!Compact(y, q[k]) = y
                 \/ Archive!Compact(y, q[k]).kept = Append(y.kept, list[k + 1])
  <2>1. PICK l : l = q[k]
    OBVIOUS
  <2>2. l = list[k + 1] /\ k + 1 \in 1..m /\ l \in 1..now /\ l \in Members(list)
    <3>1. k + 1 \in 1..m
      BY <1>2, <1>4
    <3>2. l = list[k + 1]
      BY <1>6, <2>1
    <3> QED  BY <1>2, <3>1, <3>2 DEF Members
  <2>3. PICK v \in V : v = Archive!read_history_entry(l)
    BY <1>7, <2>2
  <2>4. PICK z : z = [kept |-> Append(y.kept, l), price |-> v]
    OBVIOUS
  <2>5. y.kept \in Seq(1..now)
    BY <1>9
  <2>6. Append(y.kept, l) \in Seq(1..now)
    BY <2>2, <2>5
  <2>7. z \in Y /\ z.kept = Append(y.kept, l)
    BY <1>9, <2>4, <2>6
  <2>8. Archive!Compact(y, l) = y \/ Archive!Compact(y, l) = z
    BY <2>3, <2>4 DEF Archive!Compact
  <2> QED  BY <2>1, <2>2, <2>7, <2>8
<1>13. PICK A : /\ CompactFold(q, start) = A[n] /\ A[0] = start
                /\ \A k \in 1..n : A[k] = Archive!Compact(A[k - 1], q[k])
  <2>1. Compactable(n, q, Y)
    BY <1>12 DEF Compactable
  <2> QED  BY <1>6, <1>11, <2>1, CompactPrefixes
<1> DEFINE Q(k) == /\ A[k] \in Y /\ Ordered(A[k].kept, Rising)
                   /\ \A x \in Members(A[k].kept) : \E i \in 1..(k + 1) : x = list[i]
           G == {k \in 0..n : Q(k)}
<1>14. 0 \in G
  <2>1. PICK one : one = <<list[1]>>
    OBVIOUS
  <2>2. DOMAIN one = {1} /\ one[1] = list[1]
    BY <2>1
  <2>3. Members(one) = {list[1]} /\ Ordered(one, Rising)
    BY <2>2 DEF Members, Ordered
  <2>4. A[0].kept = one /\ A[0] \in Y
    BY <1>11, <1>13, <2>1
  <2>5. \A x \in Members(A[0].kept) : \E i \in 1..(0 + 1) : x = list[i]
    BY <2>3, <2>4
  <2> QED  BY <2>3, <2>4, <2>5
<1>15. ASSUME NEW k \in 0..n, k \in G, k < n
       PROVE  k + 1 \in G
  <2>1. PICK y \in Y : y = A[k]
    BY <1>15
  <2>2. Ordered(y.kept, Rising) /\ \A x \in Members(y.kept) : \E i \in 1..(k + 1) : x = list[i]
    BY <1>15, <2>1
  <2>3. PICK j \in 1..n : j = k + 1
    BY <1>15
  <2>4. PICK z : z = A[j]
    OBVIOUS
  <2>5. z \in Y /\ (z = y \/ z.kept = Append(y.kept, list[j + 1]))
    <3>1. j - 1 = k
      BY <2>3
    <3>2. z = Archive!Compact(y, q[j])
      BY <1>13, <2>1, <2>4, <3>1
    <3> QED  BY <1>12, <3>2
  <2>6. 1..(k + 1) \subseteq 1..(j + 1) /\ j + 1 \in 1..(j + 1) /\ j + 1 \in 1..m
    BY <1>4, <2>3
  <2>7. CASE z = y
    <3>1. Q(j)
      BY <2>2, <2>4, <2>5, <2>6, <2>7
    <3> QED  BY <2>3, <3>1
  <2>8. CASE z.kept = Append(y.kept, list[j + 1])
    <3>1. y.kept \in Seq(1..now)
      BY <1>9
    <3>2. ASSUME NEW x \in Members(y.kept)
          PROVE  x < list[j + 1]
      <4>1. PICK i \in 1..(k + 1) : x = list[i]
        BY <2>2
      <4>2. i \in 1..m /\ i < j + 1
        BY <1>4, <2>3
      <4> QED  BY <1>3, <2>6, <4>1, <4>2
    <3>3. list[j + 1] \in 1..now
      BY <1>2, <2>6
    <3>4. Ordered(z.kept, Rising) /\ Members(z.kept) = Members(y.kept) \cup {list[j + 1]}
      BY <1>2, <2>2, <2>8, <3>1, <3>2, <3>3, AppendLaw
    <3>5. \A x \in Members(z.kept) : \E i \in 1..(j + 1) : x = list[i]
      BY <2>2, <2>6, <3>4
    <3>6. Q(j)
      BY <2>4, <2>5, <3>4, <3>5
    <3> QED  BY <2>3, <3>6
  <2> QED  BY <2>5, <2>7, <2>8
<1>16. Q(n)
  <2> HIDE DEF Q
  <2>1. n \in 0..n
    OBVIOUS
  <2>2. n \in G
    <3> HIDE DEF G
    <3> QED  BY <1>14, <1>15, <2>1, Climb
  <2> QED  BY <2>2
<1>17. Archive!Compacted = A[n].kept
  <2>1. Archive!Compacted = CompactFold(q, start).kept
    BY <1>5, <1>8 DEF Archive!Compacted, Archive!FoldLeft, Archive!MapThenFoldSet, Archive!Max,
         CompactFold, Compacting, CompactStep, Top
  <2> QED  BY <1>13, <2>1
<1>18. PICK c : c = A[n].kept
  OBVIOUS
<1>19. c \in Seq(1..now) /\ Ordered(c, Rising)
  BY <1>9, <1>16, <1>18
<1>20. ASSUME NEW x \in Members(c)
       PROVE  x \in Members(list) /\ x < Archive!Last(list)
  <2>1. PICK i \in 1..(n + 1) : x = list[i]
    BY <1>16, <1>18
  <2>2. i \in 1..m /\ i < m /\ m \in 1..m
    BY <1>2, <1>4
  <2>3. list[i] < list[m]
    BY <1>3, <2>2
  <2> QED  BY <1>1, <1>2, <2>1, <2>2, <2>3 DEF Members, Archive!Last
<1> HIDE DEF Q, G
<1> QED  BY <1>17, <1>18, <1>19, <1>20

LEMMA CompactionStep ==
    ASSUME HistoryKept, Archive!compact_history
    PROVE  HistoryKept'
<1>1. now \in Nat /\ list \in Seq(1..now) /\ Ordered(list, Rising)
  BY HistoryAssumption DEF HistoryKept
<1>2. Len(list) > 1
  BY DEF Archive!compact_history
<1>3. PICK c : c = Archive!Compacted
  OBVIOUS
<1>4. /\ c \in Seq(1..now) /\ Ordered(c, Rising)
      /\ \A x \in Members(c) : x \in Members(list) /\ x < Archive!Last(list)
  BY <1>2, <1>3, CompactedLaw
<1>5. PICK x : x = Archive!Last(list)
  OBVIOUS
<1>6. x \in 1..now /\ x \in Members(list)
  <2>1. Len(list) \in DOMAIN list /\ x = list[Len(list)]
    BY <1>1, <1>2, <1>5 DEF Archive!Last
  <2> QED  BY <1>1, <2>1 DEF Members
<1>7. PICK k : k = Append(c, x)
  OBVIOUS
<1>8. k \in Seq(1..now) /\ Ordered(k, Rising) /\ Members(k) = Members(c) \cup {x}
  <2>1. \A y \in Members(c) : y < x
    BY <1>4, <1>5
  <2> QED  BY <1>1, <1>4, <1>6, <1>7, <2>1, AppendLaw
<1>9. PICK L : L = {l \in Members(list) \ Members(k) : Archive!Readable(l)}
  OBVIOUS
<1>10. \A l \in Members(list) : Archive!Readable(l)
  BY DEF Archive!Readable, HistoryKept
<1>11. L = Members(list) \ Members(k) /\ Members(k) \subseteq Members(list)
  BY <1>4, <1>6, <1>8, <1>9, <1>10
<1>12. /\ list' = k /\ UNCHANGED <<now, cap>>
       /\ temp' = Archive!Without(temp, L)
       /\ shards' = Archive!remove_history_shard_entries(shards, L)
  <2>1. Archive!ToSet(k) = Members(k)
    BY DEF Archive!ToSet, Members
  <2> QED  BY <1>3, <1>5, <1>7, <1>9, <2>1, ListedMembers DEF Archive!compact_history
<1>13. DOMAIN temp' = DOMAIN temp \ L /\ DOMAIN shards' = DOMAIN shards \ L
  BY <1>12, WithoutDomain
<1>14. DOMAIN shards' = Members(k) /\ DOMAIN temp' \subseteq Members(k)
  BY <1>11, <1>13 DEF HistoryKept
<1>15. Members(list)' = Members(k) /\ Ordered(list, Rising)' = Ordered(k, Rising)
  BY <1>12 DEF Members, Ordered, Rising
<1> QED  BY <1>8, <1>12, <1>14, <1>15 DEF HistoryKept

\* A migration copies listed snapshots.
LEMMA CopyStep ==
    ASSUME HistoryKept, NEW L \in SUBSET Members(list), NEW to, Archive!Copied(L, to),
           UNCHANGED <<now, list, cap>>
    PROVE  HistoryKept'
<1>1. DOMAIN temp' = DOMAIN temp \/ DOMAIN temp' = DOMAIN temp \cup L
  BY DEF Archive!Copied
<1>2. DOMAIN shards' = DOMAIN shards \/ DOMAIN shards' = DOMAIN shards \cup L
  BY DEF Archive!Copied
<1>3. Members(list)' = Members(list) /\ Ordered(list, Rising)' = Ordered(list, Rising)
  BY DEF Members, Ordered, Rising
<1> QED  BY <1>1, <1>2, <1>3 DEF HistoryKept

LEMMA HistoryStep ==
    ASSUME HistoryKept, [Archive!Next]_avars
    PROVE  HistoryKept'
<1>1. MaxLedger \in Nat /\ MaxEvents \in Nat /\ now \in Nat /\ now <= MaxLedger
  BY HistoryAssumption DEF HistoryKept
<1>2. UNCHANGED <<now, list, temp, shards, cap>> => HistoryKept'
  BY DEF HistoryKept, Members, Ordered, Rising
<1>3. CASE UNCHANGED avars
  BY <1>2, <1>3 DEF avars
<1>4. CASE Archive!Publications
  <2>1. PICK p \in Prices : \/ \E budget \in 0..MaxEvents : Archive!aggregate(p, budget)
                            \/ Archive!write_price_snapshot(p)
    BY <1>4 DEF Archive!Publications
  <2>2. \E budget \in Nat : Archive!aggregate(p, budget) \/ Archive!write_price_snapshot(p)
    BY <1>1, <2>1
  <2> QED  BY <2>2, RecordingStep
<1>5. CASE Archive!Maintenance
  <2>1. CASE Archive!compact_history
    BY <2>1, CompactionStep
  <2>2. ASSUME NEW n \in 0..1, Archive!prune_history(n)
        PROVE  HistoryKept'
    <3>1. PICK m : m = Archive!Excess(list, n)
      OBVIOUS
    <3>2. Archive!Forget(list, m, temp, shards, index) /\ UNCHANGED <<now, cap>>
      BY <2>2, <3>1 DEF Archive!prune_history
    <3>3. m \in 0..Len(list)
      <4>1. Len(list) \in Nat
        BY DEF HistoryKept
      <4> QED  BY <3>1, <4>1 DEF Archive!Excess
    <3> QED  BY <3>2, <3>3, ForgetStep DEF HistoryKept
  <2>3. CASE Archive!migrate_history_to_shards
    <3>1. Archive!Copied(Archive!Listed \cap DOMAIN temp, "Persistent")
          /\ UNCHANGED <<now, list, cap>>
      BY <2>3 DEF Archive!migrate_history_to_shards
    <3> QED  BY <3>1, CopyStep, ListedMembers
  <2>4. ASSUME NEW b, Archive!set_compaction_threshold_bps(b)
        PROVE  HistoryKept'
    BY <1>2, <2>4 DEF Archive!set_compaction_threshold_bps
  <2> QED  BY <1>5, <2>1, <2>2, <2>3, <2>4 DEF Archive!Maintenance
<1>6. CASE Archive!Tiers
  <2>1. ASSUME NEW t, Archive!set_asset_storage_tier(t)
        PROVE  HistoryKept'
    BY <1>2, <2>1 DEF Archive!set_asset_storage_tier
  <2>2. ASSUME NEW t, Archive!migrate_history_to_tier(t)
        PROVE  HistoryKept'
    <3>1. PICK L : L = {l \in Archive!Listed : Archive!Readable(l)}
      OBVIOUS
    <3>2. Archive!Copied(L, t) /\ UNCHANGED <<now, list, cap>>
      BY <2>2, <3>1 DEF Archive!migrate_history_to_tier
    <3>3. L \in SUBSET Members(list)
      BY <3>1, ListedMembers
    <3> QED  BY <3>2, <3>3, CopyStep
  <2>3. CASE Archive!propose_storage_tier_downgrade \/ Archive!execute_storage_tier_downgrade
    BY <1>2, <2>3 DEF Archive!propose_storage_tier_downgrade,
         Archive!execute_storage_tier_downgrade
  <2>4. ASSUME NEW a, Archive!approve_storage_tier_downgrade(a)
        PROVE  HistoryKept'
    BY <1>2, <2>4 DEF Archive!approve_storage_tier_downgrade
  <2> QED  BY <1>6, <2>1, <2>2, <2>3, <2>4 DEF Archive!Tiers
<1>7. ASSUME NEW c \in Caps, Archive!set_max_history_length(c)
      PROVE  HistoryKept'
  <2>1. cap' \in Nat /\ UNCHANGED <<now, list, temp, shards>>
    BY <1>7, HistoryAssumption DEF Archive!set_max_history_length
  <2> QED  BY <2>1 DEF HistoryKept, Members, Ordered, Rising
<1>8. CASE Archive!advance_watermark
  BY <1>2, <1>8 DEF Archive!advance_watermark
<1>9. ASSUME NEW l, Archive!ExpireTemporary(l)
      PROVE  HistoryKept'
  <2>1. temp' = Archive!Without(temp, {l}) /\ UNCHANGED <<now, list, shards, cap>>
    BY <1>9 DEF Archive!ExpireTemporary
  <2>2. DOMAIN temp' = DOMAIN temp \ {l}
    BY <2>1, WithoutDomain
  <2> QED  BY <2>1, <2>2 DEF HistoryKept, Members, Ordered, Rising
<1>10. CASE Archive!CloseLedger
  <2>1. now < MaxLedger /\ now' = now + 1 /\ UNCHANGED <<list, temp, shards, cap>>
    BY <1>10 DEF Archive!CloseLedger
  <2>2. now' \in 1..MaxLedger /\ 1..now \subseteq 1..now'
    BY <1>1, <2>1
  <2>3. list' \in Seq(1..now')
    BY <2>1, <2>2 DEF HistoryKept
  <2> QED  BY <2>1, <2>2, <2>3 DEF HistoryKept, Members, Ordered, Rising
<1> QED  BY <1>3, <1>4, <1>5, <1>6, <1>7, <1>8, <1>9, <1>10 DEF Archive!Next

LEMMA KeptIsReadable ==
    ASSUME HistoryKept
    PROVE  Archive!ReadableIffListed
<1>1. MaxLedger \in Nat /\ now \in 1..MaxLedger /\ list \in Seq(1..now)
  BY HistoryAssumption DEF HistoryKept
<1>2. Members(list) \subseteq 1..MaxLedger
  <2>1. Members(list) \subseteq 1..now
    BY <1>1 DEF Members
  <2>2. 1..now \subseteq 1..MaxLedger
    BY <1>1
  <2> QED  BY <2>1, <2>2
<1>3. DOMAIN temp \cup DOMAIN shards = Members(list)
  BY DEF HistoryKept
<1> QED  BY <1>2, <1>3, ListedMembers DEF Archive!ReadableIffListed, Archive!Readable

-----------------------------------------------------------------------------
(* Provenance *)

\* The listed ledgers rise up to the current one and are those with a snapshot;
\* each that is not a proposal's has its record.  A head that is there is the
\* newest record.
ProvenanceKept ==
    /\ prov_now \in 1..MaxProvLedger
    /\ prov_cap \in Nat
    /\ kept \in Seq(1..prov_now) /\ Ordered(kept, Rising)
    /\ DOMAIN snapshot = Members(kept)
    /\ \A l \in DOMAIN snapshot \ proposed :
         l \in DOMAIN records /\ records[l].price = snapshot[l]
    /\ DOMAIN records \subseteq 1..prov_now
    /\ head # Prov!NoHead => /\ head.ledger \in DOMAIN records
                             /\ \A l \in DOMAIN records : l <= head.ledger
                             /\ head.hash = records[head.ledger].hash

\* The greater of zero and d.
LEMMA GreaterOfZero ==
    ASSUME NEW d \in Int
    PROVE  Prov!Max({0, d}) = IF d > 0 THEN d ELSE 0
<1>1. PICK m : m = IF d > 0 THEN d ELSE 0
  OBVIOUS
<1>2. m \in {0, d} /\ \A y \in {0, d} : m >= y
  BY <1>1
<1>3. \A x \in {0, d} : (\A y \in {0, d} : x >= y) => x = m
  BY <1>1
<1>4. Prov!Max({0, d}) = m
  BY <1>2, <1>3 DEF Prov!Max
<1> QED  BY <1>1, <1>4

\* Compaction and pruning take the same ledgers from the list and the history;
\* the records stay.
LEMMA ForgottenStep ==
    ASSUME ProvenanceKept, NEW L, Prov!Forget(L)
    PROVE  ProvenanceKept'
<1>1. PICK k : k = Filtered(kept, L)
  OBVIOUS
<1>2. Prov!Dropping(kept, L) = k
  BY <1>1 DEF Prov!Dropping, Prov!FoldLeft, Prov!MapThenFoldSet, Prov!Max, Filtered, Filtering,
       FilterStep, Top
<1>3. k \in Seq(1..prov_now) /\ Members(k) = Members(kept) \ L /\ Ordered(k, Rising)
  <2>1. PICK S : S = 1..prov_now
    OBVIOUS
  <2>2. kept \in Seq(S) /\ Ordered(kept, Rising)
    BY <2>1 DEF ProvenanceKept
  <2>3. Filtered(kept, L) \in Seq(S) /\ Members(Filtered(kept, L)) = Members(kept) \ L
        /\ Ordered(Filtered(kept, L), Rising)
    BY <2>2, FilterLaw
  <2> QED  BY <1>1, <2>1, <2>3
<1>4. /\ kept' = k /\ snapshot' = Prov!Without(snapshot, L) /\ proposed' = proposed \ L
      /\ UNCHANGED <<prov_now, records, head, prov_cap>>
  BY <1>2 DEF Prov!Forget
<1>5. DOMAIN snapshot' = DOMAIN snapshot \ L
      /\ \A l \in DOMAIN snapshot' : snapshot'[l] = snapshot[l]
  BY <1>4 DEF Prov!Without
<1>6. Members(kept)' = Members(k) /\ Ordered(kept, Rising)' = Ordered(k, Rising)
  BY <1>4 DEF Members, Ordered, Rising
<1>7. DOMAIN snapshot' = Members(k)
      /\ \A l \in DOMAIN snapshot' \ proposed' :
            l \in DOMAIN records /\ records[l].price = snapshot'[l]
  BY <1>3, <1>4, <1>5 DEF ProvenanceKept
<1> QED  BY <1>3, <1>4, <1>6, <1>7 DEF ProvenanceKept

\* The list a publication leaves before it trims.
LEMMA ProvListingLaw ==
    ASSUME ProvenanceKept
    PROVE  /\ Prov!Listing \in Seq(1..prov_now) /\ Ordered(Prov!Listing, Rising)
           /\ Members(Prov!Listing) = Members(kept) \cup {prov_now}
           /\ Prov!MaySkip => prov_now \notin Members(kept)
<1>1. /\ prov_now \in Nat /\ prov_now \in 1..prov_now
      /\ kept \in Seq(1..prov_now) /\ Ordered(kept, Rising)
  BY HistoryAssumption DEF ProvenanceKept
<1>2. Prov!Last(kept) = kept[Len(kept)]
  BY DEF Prov!Last
<1>3. CASE kept = <<>> \/ kept[Len(kept)] # prov_now
  <2>1. \A y \in Members(kept) : y < prov_now
    BY <1>1, <1>3, LastIsGreatest
  <2>2. Prov!Listing = Append(kept, prov_now)
    BY <1>2, <1>3 DEF Prov!Listing
  <2>3. prov_now \notin Members(kept)
    BY <1>1, <2>1
  <2> QED  BY <1>1, <2>1, <2>2, <2>3, AppendLaw
<1>4. CASE kept # <<>> /\ kept[Len(kept)] = prov_now
  <2>1. Prov!Listing = kept
    BY <1>2, <1>4 DEF Prov!Listing
  <2>2. Len(kept) \in DOMAIN kept
    BY <1>1, <1>4
  <2>3. prov_now \in Members(kept)
    BY <1>4, <2>2 DEF Members
  <2> QED  BY <1>1, <1>2, <1>4, <2>1, <2>3 DEF Prov!MaySkip
<1> QED  BY <1>3, <1>4

\* The greatest of the caps, the global one.
LEMMA GreatestCap == Prov!Max(HistoryCaps) \in Nat
<1>1. PICK m \in HistoryCaps : \A x \in HistoryCaps : x <= m
  <2>1. PICK f : f = [x \in HistoryCaps |-> x]
    OBVIOUS
  <2>2. Family(f) /\ DOMAIN f = HistoryCaps /\ HistoryCaps # {}
    BY <2>1, HistoryAssumption DEF Family
  <2>3. PICK j \in DOMAIN f : \A i \in DOMAIN f : f[i] <= f[j]
    BY <2>2, GreatestExists
  <2> QED  BY <2>1, <2>2, <2>3
<1>2. \A x \in HistoryCaps : m >= x
  BY <1>1, HistoryAssumption
<1>3. Prov!Max(HistoryCaps) \in HistoryCaps
  BY <1>2 DEF Prov!Max
<1> QED  BY <1>3, HistoryAssumption

\* prices.rs:1061 and optimistic.rs:107.  A publication lists its snapshot, unless
\* it is skipped, and trims list and history alike.
LEMMA PushLaw ==
    ASSUME ProvenanceKept, NEW p, NEW skip \in BOOLEAN, NEW c \in Nat, Prov!Push(p, skip, c)
    PROVE  /\ kept' \in Seq(1..prov_now) /\ Ordered(kept', Rising)
           /\ DOMAIN snapshot' = Members(kept')
           /\ \A l \in DOMAIN snapshot' : l \notin Prov!Gone(skip, c)
           /\ \A l \in DOMAIN snapshot' :
                IF l = prov_now /\ ~skip THEN snapshot'[l] = p
                ELSE l # prov_now /\ l \in DOMAIN snapshot /\ snapshot'[l] = snapshot[l]
<1>1. prov_now \in Nat /\ prov_now \in 1..prov_now
  BY HistoryAssumption DEF ProvenanceKept
<1>2. PICK l1 : l1 = Prov!Listed(skip)
  OBVIOUS
<1>3. PICK snap : snap = IF skip THEN snapshot ELSE Prov!With(snapshot, prov_now, p)
  OBVIOUS
<1>4. skip => prov_now \notin Members(kept)
  BY ProvListingLaw DEF Prov!Push
<1>5. /\ l1 \in Seq(1..prov_now) /\ Ordered(l1, Rising)
      /\ Members(l1) = Members(kept) \cup (IF skip THEN {} ELSE {prov_now})
  <2>1. CASE skip
    BY <1>2, <2>1 DEF ProvenanceKept, Prov!Listed
  <2>2. CASE ~skip
    BY <1>2, <2>2, ProvListingLaw DEF Prov!Listed
  <2> QED  BY <2>1, <2>2
<1>6. PICK n : n = Prov!Excess(skip, c)
  OBVIOUS
<1>7. n \in 0..Len(l1)
  <2>1. Len(l1) \in Nat /\ Len(l1) - c \in Int
    BY <1>5
  <2>2. n = IF Len(l1) - c > 0 THEN Len(l1) - c ELSE 0
    BY <1>2, <1>6, <2>1, GreaterOfZero DEF Prov!Excess
  <2> QED  BY <2>1, <2>2
<1>8. PICK L : L = Members(SubSeq(l1, 1, n))
  OBVIOUS
<1>9. Prov!Gone(skip, c) = L
  BY <1>2, <1>6, <1>8 DEF Prov!Gone, Prov!ToSet, Members
<1>10. kept' = SubSeq(l1, n + 1, Len(l1)) /\ snapshot' = Prov!Without(snap, L)
  BY <1>2, <1>3, <1>6, <1>9 DEF Prov!Push
<1>11. /\ kept' \in Seq(1..prov_now) /\ Ordered(kept', Rising)
       /\ Members(kept') = Members(l1) \ L
  BY <1>1, <1>5, <1>7, <1>8, <1>10, CutLaw
<1>12. /\ DOMAIN snap = Members(l1)
       /\ \A l \in DOMAIN snap : IF l = prov_now /\ ~skip THEN snap[l] = p
                                 ELSE /\ l # prov_now
                                      /\ l \in DOMAIN snapshot /\ snap[l] = snapshot[l]
  <2>1. CASE skip
    <3>1. snap = snapshot /\ Members(l1) = Members(kept)
      BY <1>3, <1>5, <2>1
    <3> QED  BY <1>4, <2>1, <3>1 DEF ProvenanceKept
  <2>2. CASE ~skip
    <3>1. /\ DOMAIN snap = DOMAIN snapshot \cup {prov_now} /\ snap[prov_now] = p
          /\ \A l \in DOMAIN snapshot : l # prov_now => snap[l] = snapshot[l]
      BY <1>3, <2>2 DEF Prov!With
    <3>2. Members(l1) = Members(kept) \cup {prov_now}
      BY <1>5, <2>2
    <3> QED  BY <2>2, <3>1, <3>2 DEF ProvenanceKept
  <2> QED  BY <2>1, <2>2
<1>13. /\ DOMAIN snapshot' = DOMAIN snap \ L
       /\ \A l \in DOMAIN snapshot' : snapshot'[l] = snap[l]
  BY <1>10 DEF Prov!Without
<1> QED  BY <1>9, <1>11, <1>12, <1>13

\* provenance.rs:124.  An aggregation writes its record and, unless it is skipped,
\* its snapshot; trimming takes both.
LEMMA ExplainedStep ==
    ASSUME ProvenanceKept, NEW p, NEW skip \in BOOLEAN, Prov!aggregate(p, skip)
    PROVE  ProvenanceKept'
<1>1. prov_now \in Nat /\ prov_now \in 1..prov_now /\ prov_cap \in Nat
  BY HistoryAssumption DEF ProvenanceKept
<1>2. PICK L : L = Prov!Gone(skip, prov_cap)
  OBVIOUS
<1>3. PICK r : r = Prov!record(prov_now, p)
  OBVIOUS
<1>4. /\ DOMAIN r = DOMAIN records \cup {prov_now} /\ r[prov_now].price = p
      /\ \A l \in DOMAIN records : l # prov_now => r[l] = records[l]
  BY <1>3 DEF Prov!record, Prov!With
<1>5. /\ Prov!Push(p, skip, prov_cap)
      /\ records' = Prov!Without(r, L)
      /\ head' = IF prov_now \in L THEN Prov!NoHead
                 ELSE [ledger |-> prov_now, hash |-> r[prov_now].hash]
      /\ proposed' = proposed \ ({prov_now} \cup L)
      /\ UNCHANGED <<prov_now, prov_cap>>
  BY <1>2, <1>3 DEF Prov!aggregate, Prov!prune
<1>6. /\ kept' \in Seq(1..prov_now) /\ Ordered(kept', Rising)
      /\ DOMAIN snapshot' = Members(kept')
      /\ \A l \in DOMAIN snapshot' : l \notin L
      /\ \A l \in DOMAIN snapshot' :
           IF l = prov_now /\ ~skip THEN snapshot'[l] = p
           ELSE l # prov_now /\ l \in DOMAIN snapshot /\ snapshot'[l] = snapshot[l]
  BY <1>1, <1>2, <1>5, PushLaw
<1>7. DOMAIN records' = DOMAIN r \ L /\ \A l \in DOMAIN records' : records'[l] = r[l]
  BY <1>5 DEF Prov!Without
<1>8. ASSUME NEW l \in DOMAIN snapshot' \ proposed'
      PROVE  l \in DOMAIN records' /\ records'[l].price = snapshot'[l]
  <2>1. CASE l = prov_now
    BY <1>4, <1>6, <1>7, <2>1
  <2>2. CASE l # prov_now
    <3>1. l \in DOMAIN snapshot \ proposed /\ snapshot'[l] = snapshot[l] /\ l \notin L
      BY <1>5, <1>6, <2>2
    <3>2. l \in DOMAIN records /\ records[l].price = snapshot[l]
      BY <3>1 DEF ProvenanceKept
    <3> QED  BY <1>4, <1>7, <2>2, <3>1, <3>2
  <2> QED  BY <2>1, <2>2
<1>9. DOMAIN records' \subseteq 1..prov_now
  BY <1>1, <1>4, <1>7 DEF ProvenanceKept
<1>10. head' # Prov!NoHead => /\ head'.ledger \in DOMAIN records'
                              /\ \A l \in DOMAIN records' : l <= head'.ledger
                              /\ head'.hash = records'[head'.ledger].hash
  <2>1. SUFFICES ASSUME prov_now \notin L
                 PROVE  /\ head'.ledger \in DOMAIN records'
                        /\ \A l \in DOMAIN records' : l <= head'.ledger
                        /\ head'.hash = records'[head'.ledger].hash
    BY <1>5
  <2>2. head'.ledger = prov_now /\ head'.hash = r[prov_now].hash
    BY <1>5, <2>1
  <2>3. prov_now \in DOMAIN records'
    BY <1>4, <1>7, <2>1
  <2> QED  BY <1>1, <1>7, <1>9, <2>2, <2>3
<1>11. Members(kept)' = Members(kept') /\ Ordered(kept, Rising)' = Ordered(kept', Rising)
  BY DEF Members, Ordered, Rising
<1> QED  BY <1>1, <1>5, <1>6, <1>8, <1>9, <1>10, <1>11 DEF ProvenanceKept, Prov!NoHead,
         Prov!Zero

\* optimistic.rs:107.  A finalised proposal marks its snapshot as one without a
\* record, and leaves the records.
LEMMA ProposalStep ==
    ASSUME ProvenanceKept, NEW p, NEW skip \in BOOLEAN, NEW c \in Nat,
           Prov!write_price_snapshot(p, skip, c)
    PROVE  ProvenanceKept'
<1>1. PICK L : L = Prov!Gone(skip, c)
  OBVIOUS
<1>2. /\ Prov!Push(p, skip, c)
      /\ proposed' = (IF skip THEN proposed ELSE proposed \cup {prov_now}) \ L
      /\ UNCHANGED <<prov_now, records, head, prov_cap>>
  BY <1>1 DEF Prov!write_price_snapshot
<1>3. /\ kept' \in Seq(1..prov_now) /\ Ordered(kept', Rising)
      /\ DOMAIN snapshot' = Members(kept')
      /\ \A l \in DOMAIN snapshot' : l \notin L
      /\ \A l \in DOMAIN snapshot' :
           IF l = prov_now /\ ~skip THEN snapshot'[l] = p
           ELSE l # prov_now /\ l \in DOMAIN snapshot /\ snapshot'[l] = snapshot[l]
  BY <1>1, <1>2, PushLaw
<1>4. ASSUME NEW l \in DOMAIN snapshot' \ proposed'
      PROVE  l \in DOMAIN records' /\ records'[l].price = snapshot'[l]
  <2>1. l \notin L /\ l \notin proposed /\ ~(l = prov_now /\ ~skip)
    BY <1>2, <1>3
  <2>2. l \in DOMAIN snapshot \ proposed /\ snapshot'[l] = snapshot[l]
    BY <1>3, <2>1
  <2> QED  BY <1>2, <2>2 DEF ProvenanceKept
<1>5. Members(kept)' = Members(kept') /\ Ordered(kept, Rising)' = Ordered(kept', Rising)
  BY DEF Members, Ordered, Rising
<1> QED  BY <1>2, <1>3, <1>4, <1>5 DEF ProvenanceKept, Prov!NoHead, Prov!Zero

LEMMA ProvenanceStep ==
    ASSUME ProvenanceKept, [Prov!Next]_pvars
    PROVE  ProvenanceKept'
<1>1. UNCHANGED <<prov_now, kept, snapshot, records, head, proposed, prov_cap>> => ProvenanceKept'
  BY DEF ProvenanceKept, Members, Ordered, Rising, Prov!NoHead, Prov!Zero
<1>2. CASE UNCHANGED pvars
  BY <1>1, <1>2 DEF pvars
<1>3. ASSUME NEW p, NEW skip \in BOOLEAN, Prov!aggregate(p, skip)
      PROVE  ProvenanceKept'
  BY <1>3, ExplainedStep
<1>4. ASSUME NEW L, Prov!compact_history(L)
      PROVE  ProvenanceKept'
  BY <1>4, ForgottenStep DEF Prov!compact_history
<1>5. ASSUME NEW n, Prov!prune_history(n)
      PROVE  ProvenanceKept'
  BY <1>5, ForgottenStep DEF Prov!prune_history
<1>6. ASSUME NEW n \in HistoryCaps, Prov!set_max_history_per_asset(n)
      PROVE  ProvenanceKept'
  <2>1. prov_cap' \in Nat /\ UNCHANGED <<prov_now, kept, snapshot, records, head, proposed>>
    BY <1>6, HistoryAssumption DEF Prov!set_max_history_per_asset
  <2> QED  BY <2>1 DEF ProvenanceKept, Members, Ordered, Rising, Prov!NoHead, Prov!Zero
<1>7. CASE Prov!CloseLedger
  <2>1. /\ prov_now < MaxProvLedger /\ prov_now' = prov_now + 1
        /\ UNCHANGED <<kept, snapshot, records, head, proposed, prov_cap>>
    BY <1>7 DEF Prov!CloseLedger
  <2>2. prov_now' \in 1..MaxProvLedger /\ 1..prov_now \subseteq 1..prov_now'
    BY <2>1, HistoryAssumption DEF ProvenanceKept
  <2>3. kept' \in Seq(1..prov_now') /\ DOMAIN records' \subseteq 1..prov_now'
    BY <2>1, <2>2 DEF ProvenanceKept
  <2> QED  BY <2>1, <2>2, <2>3 DEF ProvenanceKept, Members, Ordered, Rising, Prov!NoHead,
           Prov!Zero
<1>8. ASSUME NEW p, NEW skip \in BOOLEAN, NEW c \in {prov_cap, Prov!Max(HistoryCaps)},
             Prov!write_price_snapshot(p, skip, c)
      PROVE  ProvenanceKept'
  <2>1. c \in Nat
    BY GreatestCap DEF ProvenanceKept
  <2> QED  BY <1>8, <2>1, ProposalStep
<1> QED  BY <1>2, <1>3, <1>4, <1>5, <1>6, <1>7, <1>8 DEF Prov!Next

LEMMA KeptIsExplained ==
    ASSUME ProvenanceKept
    PROVE  Prov!SnapshotsExplained
<1>1. Prov!ToSet(kept) = Members(kept)
  BY DEF Prov!ToSet, Members
<1>2. ASSUME head # Prov!NoHead
      PROVE  head.ledger = Prov!Max(DOMAIN records)
  <2>1. PICK D : D = DOMAIN records
    OBVIOUS
  <2>2. /\ head.ledger \in D /\ D \subseteq Nat /\ \A l \in D : l <= head.ledger
    BY <1>2, <2>1, HistoryAssumption DEF ProvenanceKept
  <2>3. \A x \in D : (\A y \in D : x >= y) <=> x = head.ledger
    <3>1. PICK h \in D : h = head.ledger
      BY <2>2
    <3>2. h \in Nat /\ \A x \in D : x \in Nat /\ x <= h
      BY <2>2, <3>1
    <3> QED  BY <3>1, <3>2
  <2>4. Prov!Max(D) = head.ledger
    BY <2>2, <2>3 DEF Prov!Max
  <2> QED  BY <2>1, <2>4
<1> QED  BY <1>1, <1>2 DEF ProvenanceKept, Prov!SnapshotsExplained

\* history.rs, storage_tier.rs and provenance.rs:9.  For any caps, thresholds,
\* prices and expiries: the ledgers a reader finds a snapshot for are exactly the
\* listed ones, and each snapshot an aggregation left has the record that explains
\* its price, the head being the newest record, whatever proposals write and trim
\* beside them.
THEOREM HistoryIsReadable == Spec => []HistoryReadable
<1>1. Init => HistoryKept /\ ProvenanceKept
  <2>1. ASSUME Archive!Init
        PROVE  HistoryKept
    <3>1. /\ now = 1 /\ list = <<>> /\ temp = <<>> /\ shards = <<>> /\ cap = DefaultHistory
      BY <2>1 DEF Archive!Init
    <3>2. DOMAIN list = {} /\ DOMAIN temp = {} /\ DOMAIN shards = {} /\ list \in Seq(1..now)
      BY <3>1
    <3>3. Members(list) = {} /\ Ordered(list, Rising)
      BY <3>2 DEF Members, Ordered
    <3> QED  BY <3>1, <3>2, <3>3, HistoryAssumption DEF HistoryKept
  <2>2. ASSUME Prov!Init
        PROVE  ProvenanceKept
    <3>1. /\ prov_now = 1 /\ kept = <<>> /\ snapshot = <<>> /\ records = <<>>
          /\ head = Prov!NoHead /\ prov_cap = Prov!Max(HistoryCaps)
      BY <2>2 DEF Prov!Init
    <3>2. /\ DOMAIN kept = {} /\ DOMAIN snapshot = {} /\ DOMAIN records = {}
          /\ kept \in Seq(1..prov_now)
      BY <3>1
    <3>3. Members(kept) = {} /\ Ordered(kept, Rising)
      BY <3>2 DEF Members, Ordered
    <3>4. prov_cap \in Nat
      BY <3>1, GreatestCap
    <3> QED  BY <3>1, <3>2, <3>3, <3>4, HistoryAssumption DEF ProvenanceKept
  <2> QED  BY <2>1, <2>2 DEF Init
<1>2. HistoryKept /\ ProvenanceKept /\ [Next]_vars => (HistoryKept /\ ProvenanceKept)'
  BY StepsOfParts, HistoryStep, ProvenanceStep
<1>3. HistoryKept /\ ProvenanceKept => HistoryReadable
  BY KeptIsReadable, KeptIsExplained DEF HistoryReadable
<1> QED  BY <1>1, <1>2, <1>3, PTL DEF Spec

-----------------------------------------------------------------------------
(* The time-weighted average *)

\* Snapshots are not from the future.
SnapshotsKept ==
    /\ read_now \in 1..MaxLedgers
    /\ floor \in Nat
    /\ DOMAIN snapshots \subseteq 1..read_now
    /\ \A l \in DOMAIN snapshots : snapshots[l] \in ReadPrices
    /\ current.price \in Nat

\* The greatest of a nonempty set of ledgers, and the least of one.
LEMMA ExtremeLedgers ==
    ASSUME NEW M \in SUBSET Nat, M # {}, NEW n \in Nat, \A m \in M : m <= n
    PROVE  /\ Reads!Max(M) \in M /\ \A m \in M : m <= Reads!Max(M)
           /\ Reads!Min(M) \in M /\ \A m \in M : Reads!Min(M) <= m
<1>1. \E x \in M : \A y \in M : y <= x
  BY GreatestNatural
<1>2. \E x \in M : \A y \in M : x >= y
  BY <1>1
<1>3. Reads!Max(M) \in M /\ \A y \in M : Reads!Max(M) >= y
  BY <1>2 DEF Reads!Max
<1>4. \E x \in M : \A y \in M : x <= y
  BY LeastNatural
<1>5. Reads!Min(M) \in M /\ \A y \in M : Reads!Min(M) <= y
  BY <1>4 DEF Reads!Min
<1> QED  BY <1>3, <1>5

\* The observation in charge of a ledger: the last snapshot up to it, and the
\* aggregate for the current one.
Charge(k) == IF k = read_now THEN read_now ELSE Reads!Max({m \in DOMAIN snapshots : m <= k})
Known(start) == {l \in start..read_now : l = read_now \/ \E m \in DOMAIN snapshots : m <= l}

\* A ledger before the current one is in the charge of l exactly when l is the
\* last snapshot up to it.
LEMMA ChargeLaw ==
    ASSUME SnapshotsKept, NEW k \in Nat, \E m \in DOMAIN snapshots : m <= k
    PROVE  LET top == Reads!Max({m \in DOMAIN snapshots : m <= k}) IN
           /\ top \in DOMAIN snapshots /\ top <= k /\ \A m \in DOMAIN snapshots : m <= k => m <= top
           /\ \A l \in DOMAIN snapshots :
                l <= k /\ (\A m \in DOMAIN snapshots : m <= k => m <= l) => top = l
<1>1. PICK M : M = {m \in DOMAIN snapshots : m <= k}
  OBVIOUS
<1>2. DOMAIN snapshots \subseteq Nat
  BY ReadsAssumption DEF SnapshotsKept
<1>3. M \in SUBSET Nat /\ M # {} /\ \A m \in M : m <= k
  BY <1>1, <1>2
<1>4. Reads!Max(M) \in M /\ \A m \in M : m <= Reads!Max(M)
  BY <1>3, ExtremeLedgers
<1>5. PICK top \in Nat : top = Reads!Max(M)
  BY <1>3, <1>4
<1>6. top \in DOMAIN snapshots /\ top <= k /\ \A m \in DOMAIN snapshots : m <= k => m <= top
  BY <1>1, <1>4, <1>5
<1>7. ASSUME NEW l \in DOMAIN snapshots, l <= k,
             \A m \in DOMAIN snapshots : m <= k => m <= l
      PROVE  top = l
  <2>1. l <= top /\ top <= l /\ l \in Nat
    BY <1>2, <1>6, <1>7
  <2> QED  BY <2>1
<1> QED  BY <1>1, <1>5, <1>6, <1>7

\* The weight of an observation is the number of known ledgers in its charge.
LEMMA WeightCounts ==
    ASSUME SnapshotsKept, NEW start \in Nat, start <= read_now,
           NEW l \in Reads!Observations(start)
    PROVE  Reads!Weight(l, start) = Cardinality({k \in Known(start) : Charge(k) = l})
<1>1. PICK N \in Nat : N = read_now
  BY ReadsAssumption DEF SnapshotsKept
<1>2. PICK D : D = DOMAIN snapshots
  OBVIOUS
<1>3. D \subseteq 1..N
  BY <1>1, <1>2 DEF SnapshotsKept
<1>4. PICK O : O = Reads!Observations(start)
  OBVIOUS
<1>5. /\ N \in O /\ O \subseteq D \cup {N}
      /\ \A m \in O : m # N =>
            m \in D /\ m < N /\ ~\E x \in D : x < N /\ m < x /\ x <= start
      /\ \A m \in D : m < N /\ (~\E x \in D : x < N /\ m < x /\ x <= start) => m \in O
  BY <1>1, <1>2, <1>4 DEF Reads!Observations
<1>6. O \subseteq Nat /\ \A m \in O : m <= N
  BY <1>1, <1>3, <1>5
<1>7. PICK after : after = {m \in O : m > l}
  OBVIOUS
<1>8. Reads!Weight(l, start) =
        (IF after = {} THEN N + 1 ELSE Reads!Later(Reads!Min(after), start)) - Reads!Later(l, start)
  BY <1>1, <1>4, <1>7 DEF Reads!Weight
<1>9. l \in O /\ l \in Nat
  BY <1>4, <1>6
<1>10. PICK C : C = {k \in Known(start) : Charge(k) = l}
  OBVIOUS
<1>11. ASSUME NEW k \in Known(start), k # N
       PROVE  /\ k \in Nat /\ k < N /\ start <= k
              /\ Charge(k) \in D /\ Charge(k) <= k /\ \A m \in D : m <= k => m <= Charge(k)
              /\ \A x \in D : x <= k /\ (\A m \in D : m <= k => m <= x) => Charge(k) = x
  <2>1. k \in start..N /\ (\E m \in D : m <= k)
    BY <1>1, <1>2, <1>11 DEF Known
  <2>2. k \in Nat /\ k < N /\ start <= k
    BY <1>1, <1>11, <2>1
  <2>3. Charge(k) = Reads!Max({m \in DOMAIN snapshots : m <= k})
    BY <1>1, <1>11 DEF Charge
  <2> QED  BY <1>2, <2>1, <2>2, <2>3, ChargeLaw
<1>12. Charge(N) = N
  BY <1>1 DEF Charge
<1>13. CASE l = N
  <2>1. after = {}
    <3>1. \A m \in O : m \in Nat /\ ~(m > l)
      BY <1>6, <1>13
    <3> QED  BY <1>7, <3>1
  <2>2. Reads!Later(l, start) = N
    BY <1>1, <1>13 DEF Reads!Later
  <2>3. Reads!Weight(l, start) = (N + 1) - N
    BY <1>8, <2>1, <2>2
  <2>4. \A k \in C : k = N
    <3> TAKE k \in C
    <3>1. k \in Known(start) /\ Charge(k) = N
      BY <1>10, <1>13
    <3>2. k # N => Charge(k) \in Nat /\ Charge(k) <= k /\ k < N /\ k \in Nat
      BY <1>3, <1>11, <3>1
    <3> QED  BY <1>1, <3>1, <3>2
  <2>5. N \in Known(start)
    BY <1>1 DEF Known
  <2>6. C = {N}
    BY <1>10, <1>12, <1>13, <2>4, <2>5
  <2>7. Cardinality({N}) = 1
    BY FS_Singleton
  <2> QED  BY <1>1, <1>10, <2>3, <2>6, <2>7
<1>14. CASE l # N
  <2>1. /\ l \in D /\ l < N /\ after # {} /\ N \in after
        /\ ~\E x \in D : x < N /\ l < x /\ x <= start
    BY <1>5, <1>7, <1>9, <1>14
  <2>2. PICK b \in after : b = Reads!Min(after) /\ \A m \in after : b <= m
    <3>1. after \in SUBSET Nat /\ \A m \in after : m <= N
      BY <1>6, <1>7
    <3> QED  BY <1>1, <2>1, <3>1, ExtremeLedgers
  <2>3. b \in O /\ b \in Nat /\ b > l /\ b <= N /\ (b # N => b \in D /\ b < N)
    BY <1>5, <1>6, <1>7, <2>2
  <2>4. PICK lo \in Nat : lo = IF l > start THEN l ELSE start
    BY <1>9
  <2>5. PICK hi \in Nat : hi = IF b > start THEN b ELSE start
    BY <2>3
  <2>6. Reads!Weight(l, start) = hi - lo /\ lo <= hi
    <3>1. Reads!Later(b, start) = hi /\ Reads!Later(l, start) = lo
      BY <2>4, <2>5 DEF Reads!Later
    <3>2. Reads!Weight(l, start) = hi - lo
      BY <1>8, <2>1, <2>2, <3>1
    <3> QED  BY <1>9, <2>3, <2>4, <2>5, <3>2
  <2>7. ASSUME NEW k \in C
        PROVE  k \in lo..(hi - 1)
    <3>1. k \in Known(start) /\ Charge(k) = l
      BY <1>10
    <3>2. k # N
      BY <1>12, <1>14, <3>1
    <3>3. k \in Nat /\ k < N /\ start <= k /\ l <= k /\ \A m \in D : m <= k => m <= l
      BY <1>11, <3>1, <3>2
    <3>4. k < b
      <4>1. SUFFICES ASSUME b <= k
                     PROVE  FALSE
        BY <2>3, <3>3
      <4>2. b \in D
        BY <2>3, <3>3, <4>1
      <4>3. b <= l
        BY <3>3, <4>1, <4>2
      <4> QED  BY <1>9, <2>3, <4>3
    <3>5. lo <= k /\ k < hi
      BY <1>9, <2>3, <2>4, <2>5, <3>3, <3>4
    <3> QED  BY <2>4, <2>5, <3>3, <3>5
  <2>8. ASSUME NEW k \in lo..(hi - 1)
        PROVE  k \in C
    <3>1. k \in Nat /\ l <= k /\ start <= k /\ k < hi
      BY <1>9, <2>4, <2>5
    <3>2. k < b /\ k < N
      BY <1>1, <2>3, <2>5, <3>1
    <3>3. ASSUME NEW m \in D, m <= k
          PROVE  m <= l
      <4>1. SUFFICES ASSUME l < m
                     PROVE  FALSE
        BY <1>3, <1>9
      <4>2. m \in Nat /\ m < N /\ m < b
        BY <1>3, <3>1, <3>2, <3>3, <2>3
      <4>3. ~\E x \in D : x < N /\ m < x /\ x <= start
        <5>1. SUFFICES ASSUME NEW x \in D, x < N, m < x, x <= start
                       PROVE  FALSE
          OBVIOUS
        <5>2. x \in Nat /\ l < x
          BY <1>3, <1>9, <4>1, <4>2, <5>1
        <5> QED  BY <2>1, <5>1, <5>2
      <4>4. m \in O
        BY <1>5, <4>2, <4>3
      <4>5. b <= m
        BY <1>7, <2>2, <4>1, <4>4
      <4> QED  BY <2>3, <4>2, <4>5
    <3>4. k \in Known(start)
      BY <1>1, <1>2, <2>1, <3>1, <3>2 DEF Known
    <3>5. Charge(k) = l
      BY <1>1, <1>11, <2>1, <3>1, <3>2, <3>3, <3>4
    <3> QED  BY <1>10, <3>4, <3>5
  <2>9. C = lo..(hi - 1)
    BY <2>7, <2>8
  <2>10. Cardinality(lo..(hi - 1)) = hi - lo
    <3>1. Cardinality(lo..(hi - 1)) = IF lo > hi - 1 THEN 0 ELSE (hi - 1) - lo + 1
      <4>1. lo \in Int /\ hi - 1 \in Int
        BY <2>4, <2>5
      <4> QED  BY <4>1, FS_Interval
    <3> QED  BY <2>4, <2>5, <2>6, <3>1
  <2> QED  BY <1>10, <2>6, <2>9, <2>10
<1> QED  BY <1>13, <1>14

\* The sum of the library is the one of PriceMathProofs.
LEMMA SumIsSumOver ==
    ASSUME NEW f
    PROVE  Reads!SumFunction(f) = SumOver(f, DOMAIN f)
BY DEF Reads!SumFunction, Reads!SumFunctionOnSet, Reads!FoldFunctionOnSet, Reads!MapThenFoldSet,
       SumOver, Summing, SumStep

LEMMA ReadsCount == \A S : Reads!Cardinality(S) = Cardinality(S)
BY Zenon DEF Reads!Cardinality, Cardinality

\* A known ledger is in the charge of an observation, whose price is the one on
\* record at it.
LEMMA ChargeIsOnRecord ==
    ASSUME SnapshotsKept, NEW start \in Nat, start <= read_now, NEW k \in Known(start)
    PROVE  /\ Charge(k) \in Reads!Observations(start)
           /\ Reads!PriceOf(Charge(k)) = Reads!OnRecord(k)
           /\ Reads!OnRecord(k) \in Nat
<1>1. PICK N \in Nat : N = read_now
  BY ReadsAssumption DEF SnapshotsKept
<1>2. /\ DOMAIN snapshots \subseteq 1..N
      /\ \A l \in DOMAIN snapshots : snapshots[l] \in Nat
  BY <1>1, ReadsAssumption DEF SnapshotsKept
<1>3. k \in start..N /\ (k = N \/ \E m \in DOMAIN snapshots : m <= k)
  BY <1>1 DEF Known
<1>4. k \in Nat /\ start <= k /\ k <= N
  BY <1>1, <1>3
<1>5. CASE k = N
  <2>1. Charge(k) = N /\ Reads!OnRecord(k) = current.price
    BY <1>1, <1>5 DEF Charge, Reads!OnRecord
  <2>2. N \in Reads!Observations(start) /\ Reads!PriceOf(N) = current.price
    BY <1>1 DEF Reads!Observations, Reads!PriceOf
  <2> QED  BY <2>1, <2>2 DEF SnapshotsKept
<1>6. CASE k # N
  <2>1. PICK top : top = Reads!Max({m \in DOMAIN snapshots : m <= k})
    OBVIOUS
  <2>2. /\ top \in DOMAIN snapshots /\ top <= k
        /\ \A m \in DOMAIN snapshots : m <= k => m <= top
    BY <1>3, <1>4, <1>6, <2>1, ChargeLaw
  <2>3. Charge(k) = top /\ Reads!OnRecord(k) = snapshots[top]
    BY <1>1, <1>6, <2>1 DEF Charge, Reads!OnRecord
  <2>4. top \in Nat /\ top < N
    BY <1>2, <1>4, <1>6, <2>2
  <2>5. ASSUME NEW x \in DOMAIN snapshots, top < x, x <= start
        PROVE  FALSE
    <3>1. x \in Nat /\ x <= k
      BY <1>2, <1>4, <2>5
    <3>2. x <= top
      BY <2>2, <3>1
    <3> QED  BY <2>4, <2>5, <3>1, <3>2
  <2>6. top \in Reads!Observations(start)
    BY <1>1, <2>2, <2>4, <2>5 DEF Reads!Observations
  <2>7. Reads!PriceOf(top) = snapshots[top]
    BY <1>1, <2>4 DEF Reads!PriceOf
  <2> QED  BY <1>2, <2>2, <2>3, <2>6, <2>7
<1> QED  BY <1>5, <1>6

\* The segments add up: their weights to the known ledgers, their prices to the
\* prices on record.
LEMMA SegmentsAddUp ==
    ASSUME SnapshotsKept, NEW start \in Nat, start <= read_now
    PROVE  /\ Reads!SumFunction([l \in Reads!Observations(start) |-> Reads!Weight(l, start)])
                = Cardinality(Known(start))
           /\ Reads!SumFunction([l \in Reads!Observations(start) |->
                                    Reads!PriceOf(l) * Reads!Weight(l, start)])
                = Reads!SumFunction([k \in Known(start) |-> Reads!OnRecord(k)])
           /\ IsFiniteSet(Reads!Observations(start))
<1>1. PICK N \in Nat : N = read_now
  BY ReadsAssumption DEF SnapshotsKept
<1>2. DOMAIN snapshots \subseteq 1..N
  BY <1>1 DEF SnapshotsKept
<1>3. PICK K : K = Known(start)
  OBVIOUS
<1>4. PICK O : O = Reads!Observations(start)
  OBVIOUS
<1>5. IsFiniteSet(0..N) /\ K \subseteq 0..N /\ O \subseteq 0..N
  <2>1. IsFiniteSet(0..N)
    <3>1. 0 \in Int /\ N \in Int
      BY <1>1
    <3> QED  BY <3>1, FS_Interval
  <2>2. K \subseteq 0..N
    BY <1>1, <1>3 DEF Known
  <2>3. O \subseteq 0..N
    BY <1>1, <1>2, <1>4 DEF Reads!Observations
  <2> QED  BY <2>1, <2>2, <2>3
<1>6. IsFiniteSet(K) /\ IsFiniteSet(O)
  BY <1>5, FS_Subset
<1>7. PICK seg : seg = [k \in K |-> Charge(k)]
  OBVIOUS
<1>8. PICK p : p = [l \in O |-> Reads!PriceOf(l)]
  OBVIOUS
<1>9. PICK one : one = [l \in O |-> 1]
  OBVIOUS
<1>10. /\ \A k \in K : Charge(k) \in O /\ Reads!PriceOf(Charge(k)) = Reads!OnRecord(k)
       /\ \A k \in K : Reads!OnRecord(k) \in Nat
  BY <1>3, <1>4, ChargeIsOnRecord
<1>11. seg \in [K -> O] /\ \A k \in K : seg[k] = Charge(k)
  BY <1>7, <1>10
<1>12. p \in [O -> Int]
  <2>1. ASSUME NEW l \in O
        PROVE  Reads!PriceOf(l) \in Int
    <3>1. l = N \/ l \in DOMAIN snapshots
      BY <1>1, <1>4 DEF Reads!Observations
    <3>2. \A m \in DOMAIN snapshots : snapshots[m] \in Int
      <4>1. \A m \in DOMAIN snapshots : snapshots[m] \in ReadPrices
        BY DEF SnapshotsKept
      <4>2. \A x \in ReadPrices : x \in Int
        BY ReadsAssumption
      <4> QED  BY <4>1, <4>2
    <3>3. current.price \in Int
      BY DEF SnapshotsKept
    <3> QED  BY <1>1, <3>1, <3>2, <3>3 DEF Reads!PriceOf
  <2> QED  BY <1>8, <2>1
<1>13. \A l \in O : Reads!Weight(l, start) = Cardinality({k \in K : seg[k] = l})
  <2> TAKE l \in O
  <2>1. Reads!Weight(l, start) = Cardinality({k \in Known(start) : Charge(k) = l})
    BY <1>4, WeightCounts
  <2>2. {k \in Known(start) : Charge(k) = l} = {k \in K : seg[k] = l}
    BY <1>3, <1>11
  <2> QED  BY <2>1, <2>2
<1>14. \A l \in O : Cardinality({k \in K : seg[k] = l}) \in Nat
  <2> TAKE l \in O
  <2>1. PICK P : P = {k \in K : seg[k] = l}
    OBVIOUS
  <2>2. IsFiniteSet(P)
    BY <1>6, <2>1, FS_Subset
  <2> QED  BY <2>1, <2>2, FS_CardinalityType
<1>15. PICK w : w = [l \in O |-> Reads!Weight(l, start)]
  OBVIOUS
<1>16. PICK v : v = [l \in O |-> Reads!PriceOf(l) * Reads!Weight(l, start)]
  OBVIOUS
<1>17. PICK unit : unit = [k \in K |-> 1]
  OBVIOUS
<1>18. PICK f : f = [k \in K |-> Reads!OnRecord(k)]
  OBVIOUS
<1>19. SumOver(w, O) = SumOver(unit, K)
  <2>1. PartByPart(K, O, one, seg, w)
    <3>1. w = [l \in O |-> one[l] * Cardinality({k \in K : seg[k] = l})]
      BY <1>9, <1>13, <1>14, <1>15
    <3> QED  BY <3>1 DEF PartByPart
  <2>2. one \in [O -> Int] /\ unit \in [K -> Int] /\ \A k \in K : unit[k] = one[seg[k]]
    BY <1>9, <1>11, <1>17
  <2> QED  BY <1>6, <1>11, <2>1, <2>2, PartitionLaw
<1>20. SumOver(v, O) = SumOver(f, K)
  <2>1. PartByPart(K, O, p, seg, v)
    <3>1. v = [l \in O |-> p[l] * Cardinality({k \in K : seg[k] = l})]
      BY <1>8, <1>13, <1>16
    <3> QED  BY <3>1 DEF PartByPart
  <2>2. f \in [K -> Int] /\ \A k \in K : f[k] = p[seg[k]]
    BY <1>8, <1>10, <1>11, <1>18
  <2> QED  BY <1>6, <1>11, <1>12, <2>1, <2>2, PartitionLaw
<1>21. SumOver(unit, K) = Cardinality(K)
  <2>1. unit \in [K -> Int] /\ K \in SUBSET K /\ \A k \in K : unit[k] = IF k \in K THEN 1 ELSE 0
    BY <1>17
  <2>2. PICK A : Additive(unit, K, A) /\ SumOver(unit, K) = A[K]
    BY <1>6, <2>1, SumIsAdditive
  <2>3. A[K] = Cardinality(K)
    BY <1>6, <2>1, <2>2, SumCounts
  <2> QED  BY <2>2, <2>3
<1>22. DOMAIN w = O /\ DOMAIN v = O /\ DOMAIN f = K
  BY <1>15, <1>16, <1>18
<1>23. Reads!SumFunction(w) = SumOver(w, O)
  BY <1>22, SumIsSumOver
<1>24. Reads!SumFunction(v) = SumOver(v, O)
  BY <1>22, SumIsSumOver
<1>25. Reads!SumFunction(f) = SumOver(f, K)
  BY <1>22, SumIsSumOver
<1>26. Reads!SumFunction(w) = Cardinality(K) /\ Reads!SumFunction(v) = Reads!SumFunction(f)
  BY <1>19, <1>20, <1>21, <1>23, <1>24, <1>25
<1> QED  BY <1>3, <1>4, <1>6, <1>15, <1>16, <1>18, <1>26

\* So the average is the mean of the prices on record.
LEMMA AverageIsExact ==
    SnapshotsKept => Reads!TwapExact
<1> SUFFICES ASSUME SnapshotsKept, current # Reads!NoPrice, NEW w \in 1..(MaxLedgers + 1)
             PROVE  /\ Reads!get_twap_ex(w).weight = Reads!Cardinality(Reads!Covered(w))
                    /\ Reads!get_twap_ex(w).price # 0 =>
                         /\ Reads!get_twap_ex(w).price =
                              Reads!SumFunction([l \in Reads!Covered(w) |-> Reads!OnRecord(l)])
                                \div Reads!Cardinality(Reads!Covered(w))
                         /\ Reads!get_twap_ex(w).cardinality >= floor
  BY DEF Reads!TwapExact
<1>1. PICK start : start = Reads!StartOf(w)
  OBVIOUS
<1>2. start \in Nat /\ start <= read_now
  BY <1>1, ReadsAssumption DEF SnapshotsKept, Reads!StartOf
<1>3. Reads!Covered(w) = Known(start)
  BY <1>1 DEF Reads!Covered, Known
<1>4. PICK O : O = Reads!Observations(start)
  OBVIOUS
<1>5. PICK total : total = Reads!SumFunction([l \in O |-> Reads!Weight(l, start)])
  OBVIOUS
<1>6. PICK sum : sum = Reads!SumFunction([l \in O |-> Reads!PriceOf(l) * Reads!Weight(l, start)])
  OBVIOUS
<1>7. PICK n : n = Reads!Cardinality({l \in O : Reads!Weight(l, start) > 0})
  OBVIOUS
<1>8. PICK r : r = Reads!compute_twap_stats(start)
  OBVIOUS
<1>9. r = [price |-> IF total = 0 THEN 0 ELSE sum \div total, weight |-> total,
           cardinality |-> n, concentrated |-> n = 1]
  BY <1>4, <1>5, <1>6, <1>7, <1>8, Zenon DEF Reads!compute_twap_stats
<1>10. Reads!get_twap_ex(w) = IF r.cardinality < floor THEN [r EXCEPT !.price = 0] ELSE r
  BY <1>1, <1>8 DEF Reads!get_twap_ex
<1>11. /\ total = Cardinality(Known(start))
       /\ sum = Reads!SumFunction([k \in Known(start) |-> Reads!OnRecord(k)])
       /\ IsFiniteSet(O)
  BY <1>2, <1>4, <1>5, <1>6, SegmentsAddUp
<1>12. n \in Nat /\ floor \in Nat
  <2>1. PICK U : U = {l \in O : Reads!Weight(l, start) > 0}
    OBVIOUS
  <2>2. IsFiniteSet(U)
    BY <1>11, <2>1, FS_Subset
  <2>3. n = Cardinality(U)
    BY <1>7, <2>1, ReadsCount
  <2> QED  BY <2>2, <2>3, FS_CardinalityType DEF SnapshotsKept
<1>13. PICK q : q = Reads!get_twap_ex(w)
  OBVIOUS
<1>14. /\ q.weight = total
       /\ q.price # 0 => q.price = sum \div total /\ q.cardinality = n /\ ~(n < floor)
  BY <1>9, <1>10, <1>13
<1>15. q.price # 0 => q.cardinality >= floor
  BY <1>12, <1>14
<1>16. Reads!Cardinality(Reads!Covered(w)) = total
  BY <1>3, <1>11, ReadsCount
<1> QED  BY <1>3, <1>11, <1>13, <1>14, <1>15, <1>16

\* A publication may add the snapshot of its ledger.
LEMMA SnapshotsStep ==
    SnapshotsKept /\ [Reads!Next]_rvars => SnapshotsKept'
<1> SUFFICES ASSUME SnapshotsKept, [Reads!Next]_rvars
             PROVE  SnapshotsKept'
  OBVIOUS
<1>1. CASE UNCHANGED rvars
  BY <1>1 DEF SnapshotsKept, rvars
<1>2. CASE \E p \in ReadPrices, n \in Counts : Reads!publish(p, n)
  <2>1. PICK p \in ReadPrices, n \in Counts : Reads!publish(p, n)
    BY <1>2
  <2>2. /\ current' = [price |-> p, at |-> read_now, sources |-> n]
        /\ snapshots' = Reads!With(snapshots, read_now, p)
        /\ read_now' = read_now /\ floor' = floor
    BY <2>1 DEF Reads!publish
  <2>3. PICK D : D = DOMAIN snapshots
    OBVIOUS
  <2>4. /\ read_now \in 1..MaxLedgers /\ floor \in Nat /\ D \subseteq 1..read_now
        /\ \A l \in D : snapshots[l] \in ReadPrices
    BY <2>3 DEF SnapshotsKept
  <2>5. /\ DOMAIN snapshots' = D \cup {read_now}
        /\ \A l \in D \cup {read_now} : snapshots'[l] = IF l = read_now THEN p ELSE snapshots[l]
    BY <2>2, <2>3 DEF Reads!With
  <2>6. D \cup {read_now} \subseteq 1..read_now /\ \A l \in D \cup {read_now} : l <= read_now
    BY <2>4, ReadsAssumption
  <2>7. \A l \in DOMAIN snapshots' : snapshots'[l] \in ReadPrices
    BY <2>4, <2>5
  <2>8. current'.price \in Nat
    BY <2>2, ReadsAssumption
  <2> QED  BY <2>2, <2>4, <2>5, <2>6, <2>7, <2>8 DEF SnapshotsKept
<1>3. CASE Reads!PinCalls \/ Reads!ReadCalls
  BY <1>3 DEF SnapshotsKept, Reads!PinCalls, Reads!ReadCalls, Reads!freeze_price,
              Reads!unfreeze_price, Reads!override_price, Reads!remove_price_override,
              Reads!get_price
<1>4. CASE Reads!TwapCalls
  BY <1>4, ReadsAssumption DEF SnapshotsKept, Reads!TwapCalls, Reads!set_twap_min_cardinality
<1>5. CASE Reads!CloseLedger
  <2>1. /\ read_now < MaxLedgers /\ read_now' = read_now + 1
        /\ UNCHANGED <<current, snapshots, floor>>
    BY <1>5 DEF Reads!CloseLedger
  <2>2. read_now' \in 1..MaxLedgers /\ DOMAIN snapshots \subseteq 1..read_now'
    BY <2>1, ReadsAssumption DEF SnapshotsKept
  <2> QED  BY <2>1, <2>2 DEF SnapshotsKept
<1>6. CASE \E p \in ReadPrices, n \in Counts : Reads!write_live(p, n)
  <2>1. PICK p \in ReadPrices, n \in Counts : Reads!write_live(p, n)
    BY <1>6
  <2>2. /\ current' = [price |-> p, at |-> read_now, sources |-> n]
        /\ UNCHANGED <<read_now, floor, snapshots>>
    BY <2>1 DEF Reads!write_live
  <2>3. current'.price \in Nat
    BY <2>2, ReadsAssumption
  <2> QED  BY <2>2, <2>3 DEF SnapshotsKept
<1> QED  BY <1>1, <1>2, <1>3, <1>4, <1>5, <1>6 DEF Reads!Next

-----------------------------------------------------------------------------
(* Degraded reads *)

\* What the counters of a window say of n degraded reads.
Tallied(c, n) ==
    /\ c.total \in Nat /\ c.severe \in Nat /\ c.emitted \in Nat
    /\ c.by_state \in [Reads!States -> Int]
    /\ c.total = n /\ c.total = SumOver(c.by_state, Reads!States)
    /\ c.severe = c.by_state["Clamped"] /\ c.severe <= c.emitted /\ c.emitted <= c.total

Windows == 0..(MaxLedgers \div WindowLedgers)

CountsKept ==
    /\ read_now \in 1..MaxLedgers
    /\ degraded \in [Windows -> Nat]
    /\ DOMAIN counters \subseteq Windows
    /\ \A w \in DOMAIN counters : Tallied(counters[w], degraded[w])
    /\ \A w \in Windows :
         degraded[w] > 0 /\ w \notin DOMAIN counters =>
             w + RetainedWindows <= Reads!current_window

\* The window of a ledger exists, and a later ledger has no earlier window.
LEMMA WindowsRise ==
    ASSUME NEW x \in 1..MaxLedgers, NEW y \in 1..MaxLedgers, x <= y
    PROVE  /\ x \div WindowLedgers \in Windows
           /\ x \div WindowLedgers <= y \div WindowLedgers
<1>1. /\ WindowLedgers \in Nat \ {0} /\ MaxLedgers \in Nat
      /\ x \in Nat /\ y \in Nat /\ x <= y /\ y <= MaxLedgers
  BY ReadsAssumption
<1>2. \A a, b \in Nat : a <= b => a \div WindowLedgers <= b \div WindowLedgers
  <2> TAKE a, b \in Nat
  <2> HAVE a <= b
  <2>1. PICK q \in Int : q = b \div WindowLedgers
    BY <1>1, DivLaw
  <2>2. b < WindowLedgers * q + WindowLedgers
    BY <1>1, <2>1, DivLaw
  <2>3. PICK z \in Int : z = WindowLedgers * q
    BY <1>1, <2>1
  <2>4. a < WindowLedgers * q + WindowLedgers
    BY <1>1, <2>2, <2>3
  <2> QED  BY <1>1, <2>1, <2>4, DivAtMost
<1>3. x \div WindowLedgers \in Int /\ 0 <= x \div WindowLedgers /\ MaxLedgers \div WindowLedgers \in Int
  <2>1. WindowLedgers * 0 <= x
    BY <1>1
  <2> QED  BY <1>1, <2>1, DivLaw, DivAtLeast
<1> QED  BY <1>1, <1>2, <1>3 DEF Windows

\* One more degraded read keeps the tally of its window.
LEMMA TallyGrows ==
    ASSUME NEW c, NEW n \in Nat, Tallied(c, n), NEW s \in Reads!States, NEW e \in {0, 1},
           Reads!is_severe(s) => e = 1
    PROVE  Tallied([total |-> c.total + 1,
                    by_state |-> [c.by_state EXCEPT ![s] = @ + 1],
                    severe |-> c.severe + (IF Reads!is_severe(s) THEN 1 ELSE 0),
                    emitted |-> c.emitted + e], n + 1)
<1>1. PICK f : f = c.by_state
  OBVIOUS
<1>2. PICK g : g = [f EXCEPT ![s] = @ + 1]
  OBVIOUS
<1>3. PICK S : S = Reads!States
  OBVIOUS
<1>4. /\ c.total \in Nat /\ c.severe \in Nat /\ c.emitted \in Nat /\ f \in [S -> Int]
      /\ c.total = n /\ c.total = SumOver(f, S)
      /\ c.severe = f["Clamped"] /\ c.severe <= c.emitted /\ c.emitted <= c.total
  BY <1>1, <1>3 DEF Tallied
<1>5. IsFiniteSet(S) /\ s \in S
  <2>1. IsFiniteSet({"Stale"} \cup {"Clamped"} \cup {"LowConfidence"})
    BY FS_Singleton, FS_Union
  <2>2. S = {"Stale"} \cup {"Clamped"} \cup {"LowConfidence"}
    BY <1>3 DEF Reads!States
  <2> QED  BY <1>3, <2>1, <2>2
<1>6. g \in [S -> Int] /\ (\A x \in S : x # s => g[x] = f[x]) /\ g[s] = f[s] + 1
  BY <1>2, <1>4, <1>5
<1>7. SumOver(g, S) = SumOver(f, S) + (g[s] - f[s])
  BY <1>4, <1>5, <1>6, SumChanged
<1>8. SumOver(g, S) = c.total + 1
  BY <1>4, <1>5, <1>6, <1>7
<1>9. "Clamped" \in S /\ g["Clamped"] = f["Clamped"] + (IF s = "Clamped" THEN 1 ELSE 0)
  BY <1>2, <1>3, <1>4, <1>5, <1>6 DEF Reads!States
<1>10. PICK i \in {0, 1} : i = (IF Reads!is_severe(s) THEN 1 ELSE 0)
  OBVIOUS
<1>11. g["Clamped"] = f["Clamped"] + i /\ i <= e
  BY <1>9, <1>10 DEF Reads!is_severe
<1>12. PICK d : d = [total |-> c.total + 1, by_state |-> g, severe |-> c.severe + i,
                     emitted |-> c.emitted + e]
  OBVIOUS
<1>13. /\ d.total = c.total + 1 /\ d.by_state = g /\ d.severe = c.severe + i
       /\ d.emitted = c.emitted + e
  BY <1>12
<1>14. Tallied(d, n + 1)
  BY <1>3, <1>4, <1>6, <1>8, <1>10, <1>11, <1>13 DEF Tallied
<1> QED  BY <1>1, <1>2, <1>10, <1>12, <1>14

\* A recorded read: the counters of its window grow by it, and the window that
\* is dropped when a new one opens is old enough.
LEMMA RecordStep ==
    ASSUME CountsKept, NEW s \in Reads!States, Reads!record_read(s), read_now' = read_now
    PROVE  CountsKept'
<1>1. PICK w \in Int : w = Reads!current_window
  <2>1. read_now \in Int /\ WindowLedgers \in Nat \ {0}
    BY ReadsAssumption DEF CountsKept
  <2> QED  BY <2>1, DivLaw DEF Reads!current_window
<1>2. w \in Windows /\ Windows \subseteq Nat /\ Reads!current_window' = w
  <2>1. read_now \in 1..MaxLedgers /\ read_now <= read_now
    BY ReadsAssumption DEF CountsKept
  <2>2. w \in Windows
    BY <1>1, <2>1, WindowsRise DEF Reads!current_window
  <2> QED  BY <1>1, <2>2 DEF Windows, Reads!current_window
<1>3. PICK was : was = Reads!read_counters(w)
  OBVIOUS
<1>4. PICK e \in {0, 1} : e = (IF Reads!Emits(s, was.total) THEN 1 ELSE 0)
  OBVIOUS
<1>5. PICK stats : stats = [total |-> was.total + 1,
                            by_state |-> [was.by_state EXCEPT ![s] = @ + 1],
                            severe |-> was.severe + (IF Reads!is_severe(s) THEN 1 ELSE 0),
                            emitted |-> was.emitted + e]
  OBVIOUS
<1>6. PICK kep : kep = IF w \in DOMAIN counters THEN DOMAIN counters ELSE Reads!prune_windows(w)
  OBVIOUS
<1>7. /\ counters' = Reads!With(Reads!Restrict(counters, kep), w, stats)
      /\ degraded' = [degraded EXCEPT ![w] = @ + 1]
  BY <1>1, <1>3, <1>4, <1>5, <1>6 DEF Reads!record_read
<1>8. degraded[w] \in Nat /\ Tallied(was, degraded[w])
  <2>1. degraded[w] \in Nat
    BY <1>2 DEF CountsKept
  <2>2. CASE w \in DOMAIN counters
    BY <1>3, <2>1, <2>2 DEF CountsKept, Reads!read_counters
  <2>3. CASE w \notin DOMAIN counters
    <3>1. was = Reads!Zeroed
      BY <1>3, <2>3 DEF Reads!read_counters
    <3>2. degraded[w] = 0
      <4>1. degraded[w] > 0 => w + RetainedWindows <= w
        BY <1>1, <1>2, <2>3 DEF CountsKept
      <4>2. ~(w + RetainedWindows <= w)
        BY <1>1, ReadsAssumption
      <4> QED  BY <2>1, <4>1, <4>2
    <3>3. PICK z : z = [x \in Reads!States |-> 0]
      OBVIOUS
    <3>4. z \in [Reads!States -> Int] /\ \A x \in Reads!States : z[x] = 0
      BY <3>3
    <3>5. IsFiniteSet(Reads!States)
      <4>1. IsFiniteSet({"Stale"} \cup {"Clamped"} \cup {"LowConfidence"})
        BY FS_Singleton, FS_Union
      <4>2. Reads!States = {"Stale"} \cup {"Clamped"} \cup {"LowConfidence"}
        BY DEF Reads!States
      <4> QED  BY <4>1, <4>2
    <3>6. SumOver(z, Reads!States) = 0
      BY <3>4, <3>5, SumOfZeros
    <3>7. /\ was.total = 0 /\ was.severe = 0 /\ was.emitted = 0 /\ was.by_state = z
      BY <3>1, <3>3 DEF Reads!Zeroed
    <3>8. z["Clamped"] = 0
      BY <3>4 DEF Reads!States
    <3> QED  BY <3>2, <3>4, <3>6, <3>7, <3>8 DEF Tallied
  <2> QED  BY <2>1, <2>2, <2>3
<1>9. Tallied(stats, degraded[w] + 1)
  <2>1. Reads!is_severe(s) => e = 1
    BY <1>4 DEF Reads!Emits
  <2> QED  BY <1>5, <1>8, <2>1, TallyGrows
<1>10. /\ kep \subseteq DOMAIN counters
       /\ \A x \in DOMAIN counters : x \in kep \/ x + RetainedWindows = w
  <2>1. CASE w \in DOMAIN counters \/ w <= RetainedWindows
    BY <1>6, <2>1 DEF Reads!prune_windows
  <2>2. CASE w \notin DOMAIN counters /\ ~(w <= RetainedWindows)
    <3>1. kep = DOMAIN counters \ {w - RetainedWindows}
      BY <1>6, <2>2 DEF Reads!prune_windows
    <3>2. (w - RetainedWindows) + RetainedWindows = w
      BY <1>1, ReadsAssumption
    <3> QED  BY <3>1, <3>2
  <2> QED  BY <2>1, <2>2
<1>11. /\ DOMAIN counters' = kep \cup {w}
       /\ counters'[w] = stats
       /\ \A x \in kep : x # w => counters'[x] = counters[x]
  BY <1>7 DEF Reads!With, Reads!Restrict
<1>12. /\ degraded' \in [Windows -> Nat] /\ degraded'[w] = degraded[w] + 1
       /\ \A x \in Windows : x # w => degraded'[x] = degraded[x]
  BY <1>2, <1>7, <1>8 DEF CountsKept
<1>13. DOMAIN counters' \subseteq Windows
  BY <1>2, <1>10, <1>11 DEF CountsKept
<1>14. \A x \in DOMAIN counters' : Tallied(counters'[x], degraded'[x])
  <2> TAKE x \in DOMAIN counters'
  <2>1. CASE x = w
    BY <1>9, <1>11, <1>12, <2>1
  <2>2. CASE x # w
    <3>1. x \in kep /\ x \in DOMAIN counters /\ x \in Windows
      BY <1>10, <1>11, <1>13, <2>2
    <3>2. Tallied(counters[x], degraded[x])
      BY <3>1 DEF CountsKept
    <3> QED  BY <1>11, <1>12, <2>2, <3>1, <3>2
  <2> QED  BY <2>1, <2>2
<1>15. ASSUME NEW x \in Windows, degraded'[x] > 0, x \notin DOMAIN counters'
       PROVE  x + RetainedWindows <= w
  <2>1. x # w /\ x \notin kep /\ degraded[x] > 0
    BY <1>11, <1>12, <1>15
  <2>2. CASE x \in DOMAIN counters
    BY <1>1, <1>10, <2>1, <2>2
  <2>3. CASE x \notin DOMAIN counters
    BY <1>1, <2>1, <2>3 DEF CountsKept
  <2> QED  BY <2>2, <2>3
<1>16. (DOMAIN counters)' = DOMAIN counters' /\ read_now' \in 1..MaxLedgers
  BY DEF CountsKept
<1>17. \A x \in Windows : degraded'[x] > 0 /\ x \notin DOMAIN counters' =>
           x + RetainedWindows <= Reads!current_window'
  BY <1>2, <1>15
<1> QED  BY <1>12, <1>13, <1>14, <1>16, <1>17 DEF CountsKept, Tallied, Windows

LEMMA CountsStep ==
    CountsKept /\ [Reads!Next]_rvars => CountsKept'
<1> SUFFICES ASSUME CountsKept, [Reads!Next]_rvars
             PROVE  CountsKept'
  OBVIOUS
<1>1. ASSUME UNCHANGED <<read_now, counters, degraded>>
      PROVE  CountsKept'
  BY <1>1 DEF CountsKept, Tallied, Windows, Reads!current_window
<1>2. CASE UNCHANGED rvars
  BY <1>1, <1>2 DEF rvars
<1>3. CASE (\E p \in ReadPrices, n \in Counts : Reads!publish(p, n) \/ Reads!write_live(p, n))
           \/ Reads!PinCalls \/ Reads!TwapCalls
  BY <1>1, <1>3 DEF Reads!publish, Reads!write_live, Reads!PinCalls, Reads!freeze_price, Reads!unfreeze_price,
                    Reads!override_price, Reads!remove_price_override, Reads!TwapCalls,
                    Reads!set_twap_min_cardinality
<1>4. CASE Reads!ReadCalls
  <2>1. PICK age \in ReadAges : Reads!get_price(age)
    BY <1>4 DEF Reads!ReadCalls
  <2>2. PICK s : s = Reads!classify(age)
    OBVIOUS
  <2>3. /\ IF s \in Reads!States THEN Reads!record_read(s) ELSE UNCHANGED <<counters, degraded>>
        /\ read_now' = read_now
    BY <2>1, <2>2 DEF Reads!get_price
  <2> QED  BY <1>1, <2>3, RecordStep
<1>5. CASE Reads!CloseLedger
  <2>1. /\ read_now < MaxLedgers /\ read_now' = read_now + 1
        /\ counters' = counters /\ degraded' = degraded
    BY <1>5 DEF Reads!CloseLedger
  <2>2. /\ read_now \in 1..MaxLedgers /\ read_now' \in 1..MaxLedgers
        /\ read_now <= read_now'
    BY <2>1, ReadsAssumption DEF CountsKept
  <2>3. PICK was \in Int : was = Reads!current_window
    <3>1. read_now \in Int /\ WindowLedgers \in Nat \ {0}
      BY <2>2, ReadsAssumption
    <3> QED  BY <3>1, DivLaw DEF Reads!current_window
  <2>4. PICK is \in Int : is = Reads!current_window'
    <3>1. read_now' \in Int /\ WindowLedgers \in Nat \ {0}
      BY <2>2, ReadsAssumption
    <3> QED  BY <3>1, DivLaw DEF Reads!current_window
  <2>5. was <= is
    <3>1. read_now \div WindowLedgers <= read_now' \div WindowLedgers
      BY <2>2, WindowsRise
    <3> QED  BY <2>3, <2>4, <3>1 DEF Reads!current_window
  <2>6. ASSUME NEW x \in Windows, degraded[x] > 0 /\ x \notin DOMAIN counters
        PROVE  x + RetainedWindows <= is
    <3>1. x + RetainedWindows <= was /\ x \in Int /\ RetainedWindows \in Int
      BY <2>3, <2>6, ReadsAssumption DEF CountsKept, Windows
    <3> QED  BY <2>3, <2>4, <2>5, <3>1
  <2>7. /\ degraded' \in [Windows -> Nat] /\ DOMAIN counters' \subseteq Windows
        /\ \A w \in DOMAIN counters' : Tallied(counters'[w], degraded'[w])
        /\ \A w \in Windows : degraded'[w] > 0 /\ w \notin DOMAIN counters' =>
               w + RetainedWindows <= Reads!current_window'
    BY <2>1, <2>4, <2>6 DEF CountsKept
  <2> QED  BY <2>2, <2>7 DEF CountsKept, Tallied, Windows
<1> QED  BY <1>2, <1>3, <1>4, <1>5 DEF Reads!Next

LEMMA KeptIsCounted ==
    CountsKept => Reads!CountsExact
<1> SUFFICES ASSUME CountsKept
             PROVE  Reads!CountsExact
  OBVIOUS
<1>1. ASSUME NEW w \in DOMAIN counters
      PROVE  LET c == counters[w]
             IN  /\ c.total = degraded[w]
                 /\ c.total = Reads!SumFunction(c.by_state)
                 /\ c.severe = c.by_state["Clamped"] /\ c.severe <= c.emitted
                 /\ c.emitted <= c.total
  <2>1. Tallied(counters[w], degraded[w])
    BY DEF CountsKept
  <2>2. PICK f : f = counters[w].by_state
    OBVIOUS
  <2>3. Reads!SumFunction(f) = SumOver(f, DOMAIN f) /\ DOMAIN f = Reads!States
    BY <2>1, <2>2, SumIsSumOver DEF Tallied
  <2> QED  BY <2>1, <2>2, <2>3 DEF Tallied
<1>2. DOMAIN degraded = Windows
  BY DEF CountsKept
<1> QED  BY <1>1, <1>2 DEF CountsKept, Reads!CountsExact

\* An age of zero is no limit.
LEMMA ReadersAgree == Reads!ReadersMeet
BY DEF Reads!ReadersMeet, Reads!Served, Reads!Older, Reads!lastprice

-----------------------------------------------------------------------------
(* Finality *)

\* A finalised ledger has its entry, and the finalized price is the entry of the
\* newest one.
Stored(r) ==
    /\ r = [price |-> r.price, final_at |-> r.final_at, status |-> r.status]
    /\ r.final_at \in Nat /\ r.status \in {"Pending", "Finalized", "Retracted"}

FinalityKept ==
    /\ fin_now \in Nat /\ horizon \in Nat
    /\ DOMAIN pending = Finality!Ledgers
    /\ \A c \in Finality!Ledgers :
         pending[c] # Finality!Absent => Stored(pending[c])
    /\ finalized = Finality!Absent => Finality!Finals = {}
    /\ finalized # Finality!Absent =>
         /\ finalized.committed \in Finality!Finals
         /\ \A c \in Finality!Finals : c <= finalized.committed
         /\ finalized.price = pending[finalized.committed].price
         /\ finalized.at >= pending[finalized.committed].final_at

\* An entry that is stored is not the absent one.
LEMMA EntryIsPresent ==
    ASSUME NEW p, NEW f, NEW st
    PROVE  /\ [price |-> p, final_at |-> f, status |-> st] # Finality!Absent
           /\ [price |-> p, committed |-> f, at |-> st] # Finality!Absent
           /\ [price |-> p, override |-> st] # Finality!Absent
<1>1. DOMAIN Finality!Absent = {"price"}
  BY DEF Finality!Absent
<1>2. /\ "status" \in DOMAIN [price |-> p, final_at |-> f, status |-> st]
      /\ "at" \in DOMAIN [price |-> p, committed |-> f, at |-> st]
      /\ "override" \in DOMAIN [price |-> p, override |-> st]
  OBVIOUS
<1> QED  BY <1>1, <1>2

LEMMA FinalityStep ==
    FinalityKept /\ [Finality!Next]_fvars => FinalityKept'
<1> SUFFICES ASSUME FinalityKept, [Finality!Next]_fvars
             PROVE  FinalityKept'
  OBVIOUS
<1>1. Finality!Ledgers \subseteq Nat
  BY ReadsAssumption DEF Finality!Ledgers
<1>2. ASSUME fin_now' \in Nat, horizon' \in Nat, UNCHANGED <<pending, finalized>>
      PROVE  FinalityKept'
  <2>1. Finality!Finals' = Finality!Finals
    BY <1>2 DEF Finality!Finals, Finality!Ledgers, Finality!Absent
  <2> QED  BY <1>2, <2>1 DEF FinalityKept, Stored, Finality!Ledgers, Finality!Absent
<1>3. CASE UNCHANGED fvars
  BY <1>2, <1>3 DEF fvars, FinalityKept
<1>4. CASE Finality!Publications \/ Finality!CorrectionCalls
  <2>1. UNCHANGED <<fin_now, horizon, pending, finalized>>
    BY <1>4 DEF Finality!Publications, Finality!publish_aggregate, Finality!WriteBeside,
                Finality!trigger_aggregation, Finality!write_price_snapshot,
                Finality!migrate_v1_to_v2, Finality!register_asset, Finality!unregister_asset,
                Finality!CorrectionCalls, Finality!correct_price,
                Finality!set_correction_scope, Finality!finvars
  <2> QED  BY <1>2, <2>1 DEF FinalityKept
<1>5. CASE Finality!CloseFinLedger
  BY <1>2, <1>5 DEF Finality!CloseFinLedger, FinalityKept
<1>6. CASE \E n \in Horizons : Finality!set_finality_ledgers(n)
  BY <1>2, <1>6, ReadsAssumption DEF Finality!set_finality_ledgers, FinalityKept
<1>7. CASE Finality!mark_price_pending
  <2>1. /\ pending[fin_now] = Finality!Absent \/ Finality!IsPending(fin_now)
        /\ pending' = [pending EXCEPT ![fin_now] = [price |-> live.price,
              final_at |-> fin_now + horizon, status |-> "Pending"]]
        /\ fin_now' = fin_now /\ horizon' = horizon /\ finalized' = finalized
    BY <1>7 DEF Finality!mark_price_pending
  <2>2. DOMAIN pending' = Finality!Ledgers /\ fin_now + horizon \in Nat
    BY <2>1 DEF FinalityKept
  <2>3. fin_now \notin Finality!Finals
    BY <2>1 DEF Finality!Finals, Finality!IsPending
  <2>4. \A x \in Finality!Ledgers : x # fin_now => pending'[x] = pending[x]
    BY <2>1 DEF FinalityKept
  <2>5. fin_now \in Finality!Ledgers =>
          pending'[fin_now] = [price |-> live.price, final_at |-> fin_now + horizon,
                               status |-> "Pending"]
    BY <2>1 DEF FinalityKept
  <2>6. Finality!Finals' = {c \in Finality!Ledgers :
                              pending'[c] # Finality!Absent /\ pending'[c].status = "Finalized"}
    BY DEF Finality!Finals, Finality!Ledgers, Finality!Absent
  <2>7. Finality!Finals' = Finality!Finals
    <3>1. ASSUME NEW c \in Finality!Ledgers
          PROVE  c \in Finality!Finals' <=> c \in Finality!Finals
      <4>1. CASE c = fin_now
        BY <2>3, <2>5, <2>6, <4>1
      <4>2. CASE c # fin_now
        BY <2>4, <2>6, <4>2 DEF Finality!Finals
      <4> QED  BY <4>1, <4>2
    <3> QED  BY <2>6, <3>1 DEF Finality!Finals
  <2>8. ASSUME NEW x \in Finality!Ledgers, pending'[x] # Finality!Absent
        PROVE  Stored(pending'[x])
    <3>1. CASE x = fin_now
      BY <2>2, <2>5, <3>1 DEF Stored
    <3>2. CASE x # fin_now
      BY <2>4, <2>8, <3>2 DEF FinalityKept
    <3> QED  BY <3>1, <3>2
  <2>9. finalized # Finality!Absent =>
           pending'[finalized.committed] = pending[finalized.committed]
    BY <2>3, <2>4 DEF FinalityKept, Finality!Finals
  <2>10. fin_now' \in Nat /\ horizon' \in Nat
    BY <2>1 DEF FinalityKept
  <2>11. /\ finalized' = Finality!Absent => Finality!Finals' = {}
         /\ finalized' # Finality!Absent =>
              /\ finalized'.committed \in Finality!Finals'
              /\ \A c \in Finality!Finals' : c <= finalized'.committed
              /\ finalized'.price = pending'[finalized'.committed].price
              /\ finalized'.at >= pending'[finalized'.committed].final_at
    BY <2>1, <2>7, <2>9 DEF FinalityKept
  <2> QED  BY <2>2, <2>8, <2>10, <2>11 DEF FinalityKept, Stored, Finality!Ledgers, Finality!Absent
<1>8. ASSUME NEW c \in Finality!Ledgers, Finality!IsPending(c),
             NEW st \in {"Finalized", "Retracted"},
             pending' = [pending EXCEPT ![c].status = st]
      PROVE  /\ DOMAIN pending' = Finality!Ledgers
             /\ pending'[c].price = pending[c].price /\ pending'[c].final_at = pending[c].final_at
             /\ pending[c].final_at \in Nat
             /\ \A x \in Finality!Ledgers : x # c => pending'[x] = pending[x]
             /\ \A x \in Finality!Ledgers : pending'[x] # Finality!Absent => Stored(pending'[x])
             /\ c \notin Finality!Finals
             /\ Finality!Finals' = IF st = "Finalized" THEN Finality!Finals \cup {c}
                                   ELSE Finality!Finals
  <2>1. pending[c] # Finality!Absent /\ pending[c].status = "Pending"
    BY <1>8 DEF Finality!IsPending
  <2>2. /\ pending[c] = [price |-> pending[c].price, final_at |-> pending[c].final_at,
                         status |-> pending[c].status]
        /\ pending[c].final_at \in Nat
    BY <2>1 DEF FinalityKept, Stored
  <2>3. /\ DOMAIN pending' = Finality!Ledgers
        /\ pending'[c] = [pending[c] EXCEPT !.status = st]
        /\ \A x \in Finality!Ledgers : x # c => pending'[x] = pending[x]
    BY <1>8 DEF FinalityKept
  <2>4. pending'[c] = [price |-> pending[c].price, final_at |-> pending[c].final_at,
                       status |-> st]
    BY <2>2, <2>3
  <2>5. pending'[c] # Finality!Absent /\ Stored(pending'[c])
    BY <2>2, <2>4, EntryIsPresent DEF Stored
  <2>6. \A x \in Finality!Ledgers : pending'[x] # Finality!Absent => Stored(pending'[x])
    BY <2>3, <2>5 DEF FinalityKept
  <2>7. c \notin Finality!Finals
    BY <2>1 DEF Finality!Finals
  <2>8. Finality!Finals' = {x \in Finality!Ledgers :
                              pending'[x] # Finality!Absent /\ pending'[x].status = "Finalized"}
    BY DEF Finality!Finals, Finality!Ledgers, Finality!Absent
  <2>9. \A x \in Finality!Ledgers : x # c => (x \in Finality!Finals' <=> x \in Finality!Finals)
    BY <2>3, <2>8 DEF Finality!Finals
  <2>10. c \in Finality!Finals' <=> st = "Finalized"
    BY <2>4, <2>5, <2>8
  <2>11. Finality!Finals \subseteq Finality!Ledgers /\ Finality!Finals' \subseteq Finality!Ledgers
    BY <2>8 DEF Finality!Finals
  <2>12. Finality!Finals' = IF st = "Finalized" THEN Finality!Finals \cup {c} ELSE Finality!Finals
    BY <2>7, <2>9, <2>10, <2>11
  <2> QED  BY <2>2, <2>3, <2>4, <2>6, <2>7, <2>12
<1>9. CASE \E c \in Finality!Ledgers : Finality!try_finalize_price(c)
  <2>1. PICK c \in Finality!Ledgers : Finality!try_finalize_price(c)
    BY <1>9
  <2>2. /\ Finality!IsPending(c) /\ fin_now >= pending[c].final_at
        /\ finalized' = IF Finality!newer_finalized(c) THEN finalized
                        ELSE [price |-> pending[c].price, committed |-> c, at |-> fin_now]
        /\ pending' = [pending EXCEPT ![c].status = "Finalized"]
        /\ fin_now' = fin_now /\ horizon' = horizon
    BY <2>1 DEF Finality!try_finalize_price
  <2>3. /\ DOMAIN pending' = Finality!Ledgers
        /\ pending'[c].price = pending[c].price /\ pending'[c].final_at = pending[c].final_at
        /\ pending[c].final_at \in Nat
        /\ \A x \in Finality!Ledgers : x # c => pending'[x] = pending[x]
        /\ \A x \in Finality!Ledgers : pending'[x] # Finality!Absent => Stored(pending'[x])
        /\ c \notin Finality!Finals
        /\ Finality!Finals' = Finality!Finals \cup {c}
    BY <1>8, <2>2
  <2>4. c \in Nat /\ Finality!Finals \subseteq Finality!Ledgers
    BY <1>1 DEF Finality!Finals
  <2>5. CASE Finality!newer_finalized(c)
    <3>1. /\ finalized' = finalized /\ finalized # Finality!Absent /\ finalized.committed > c
      BY <2>2, <2>5 DEF Finality!newer_finalized
    <3>2. PICK d \in Finality!Finals : d = finalized.committed
      BY <3>1 DEF FinalityKept
    <3>3. d # c /\ d \in Finality!Ledgers /\ c <= d /\ \A x \in Finality!Finals : x <= d
      <4>1. d \in Finality!Ledgers /\ d \in Nat
        BY <1>1, <2>4, <3>2
      <4>2. \A x \in Finality!Finals : x <= d
        BY <3>1, <3>2 DEF FinalityKept
      <4>3. d > c
        BY <3>1, <3>2
      <4> QED  BY <2>3, <2>4, <3>2, <4>1, <4>2, <4>3
    <3>4. pending'[d] = pending[d]
      BY <2>3, <3>3
    <3>5. /\ finalized' # Finality!Absent
          /\ finalized'.committed \in Finality!Finals'
          /\ \A x \in Finality!Finals' : x <= finalized'.committed
          /\ finalized'.price = pending'[finalized'.committed].price
          /\ finalized'.at >= pending'[finalized'.committed].final_at
      BY <2>3, <3>1, <3>2, <3>3, <3>4 DEF FinalityKept
    <3> QED  BY <2>2, <2>3, <3>5 DEF FinalityKept, Stored, Finality!Ledgers, Finality!Absent
  <2>6. CASE ~Finality!newer_finalized(c)
    <3>1. finalized' = [price |-> pending[c].price, committed |-> c, at |-> fin_now]
      BY <2>2, <2>6
    <3>2. finalized' # Finality!Absent
      BY <3>1, EntryIsPresent
    <3>3. ASSUME NEW x \in Finality!Finals'
          PROVE  x <= c
      <4>1. CASE x = c
        BY <2>4, <4>1
      <4>2. CASE x \in Finality!Finals
        <5>1. finalized # Finality!Absent
          BY <4>2 DEF FinalityKept
        <5>2. PICK d \in Finality!Finals : d = finalized.committed
          BY <5>1 DEF FinalityKept
        <5>3. ~(d > c) /\ x <= d
          BY <2>6, <4>2, <5>1, <5>2 DEF Finality!newer_finalized, FinalityKept
        <5>4. d \in Nat /\ x \in Nat
          BY <1>1, <2>4, <4>2, <5>2
        <5> QED  BY <2>4, <5>3, <5>4
      <4> QED  BY <2>3, <4>1, <4>2
    <3>4. /\ finalized'.committed = c /\ finalized'.price = pending'[c].price
          /\ finalized'.at >= pending'[c].final_at
      BY <2>2, <2>3, <3>1
    <3>5. c \in Finality!Finals'
      BY <2>3
    <3> QED  BY <2>2, <2>3, <3>2, <3>3, <3>4, <3>5
             DEF FinalityKept, Stored, Finality!Ledgers, Finality!Absent
  <2> QED  BY <2>5, <2>6
<1>10. CASE \E c \in Finality!Ledgers : Finality!retract_price(c)
  <2>1. PICK c \in Finality!Ledgers : Finality!retract_price(c)
    BY <1>10
  <2>2. /\ Finality!IsPending(c)
        /\ finalized' = IF finalized # Finality!Absent /\ finalized.committed = c
                        THEN Finality!Absent ELSE finalized
        /\ pending' = [pending EXCEPT ![c].status = "Retracted"]
        /\ fin_now' = fin_now /\ horizon' = horizon
    BY <2>1 DEF Finality!retract_price
  <2>3. /\ DOMAIN pending' = Finality!Ledgers
        /\ \A x \in Finality!Ledgers : x # c => pending'[x] = pending[x]
        /\ \A x \in Finality!Ledgers : pending'[x] # Finality!Absent => Stored(pending'[x])
        /\ c \notin Finality!Finals
        /\ Finality!Finals' = Finality!Finals
    BY <1>8, <2>2
  <2>4. finalized' = finalized
    BY <2>2, <2>3 DEF FinalityKept
  <2>5. finalized # Finality!Absent =>
           pending'[finalized.committed] = pending[finalized.committed]
    BY <2>3 DEF FinalityKept, Finality!Finals
  <2>6. /\ finalized' = Finality!Absent => Finality!Finals' = {}
        /\ finalized' # Finality!Absent =>
             /\ finalized'.committed \in Finality!Finals'
             /\ \A x \in Finality!Finals' : x <= finalized'.committed
             /\ finalized'.price = pending'[finalized'.committed].price
             /\ finalized'.at >= pending'[finalized'.committed].final_at
    BY <2>3, <2>4, <2>5 DEF FinalityKept
  <2> QED  BY <2>2, <2>3, <2>6 DEF FinalityKept, Stored, Finality!Ledgers, Finality!Absent
<1> QED  BY <1>3, <1>4, <1>5, <1>6, <1>7, <1>9, <1>10 DEF Finality!Next, Finality!FinalityCalls

LEMMA KeptIsFinal ==
    FinalityKept => Finality!FinalizedStands
<1> SUFFICES ASSUME FinalityKept
             PROVE  Finality!FinalizedStands
  OBVIOUS
<1>1. CASE Finality!Finals = {}
  BY <1>1 DEF FinalityKept, Finality!FinalizedStands
<1>2. CASE Finality!Finals # {}
  <2>1. finalized # Finality!Absent
    BY <1>2 DEF FinalityKept
  <2>2. PICK d \in Finality!Finals : d = finalized.committed /\ \A c \in Finality!Finals : c <= d
    BY <2>1 DEF FinalityKept
  <2>3. Finality!Finals \subseteq Nat
    BY ReadsAssumption DEF Finality!Finals, Finality!Ledgers
  <2>4. PICK F : F = Finality!Finals
    OBVIOUS
  <2>5. F \subseteq Nat /\ d \in F /\ \A c \in F : d >= c
    BY <2>2, <2>3, <2>4
  <2>6. Finality!Max(F) \in F /\ \A c \in F : Finality!Max(F) >= c
    BY <2>5 DEF Finality!Max
  <2>7. Finality!Max(F) = d
    <3>1. PICK m \in F : m = Finality!Max(F) /\ \A c \in F : m >= c
      BY <2>6
    <3>2. m \in Nat /\ d \in Nat /\ m >= d /\ d >= m
      BY <2>5, <3>1
    <3> QED  BY <3>1, <3>2
  <2> QED  BY <1>2, <2>1, <2>2, <2>4, <2>7 DEF FinalityKept, Finality!FinalizedStands
<1> QED  BY <1>1, <1>2

-----------------------------------------------------------------------------
(* Corrections *)

\* The chain is well formed, and a live price may open it.
RevisionsKept ==
    /\ revisions \in Seq([price : Int, corrected : BOOLEAN])
    /\ live # Finality!Absent => live.price \in Int
    /\ Finality!RevisionsExplain

\* A writer beside the chain leaves a price that is no override, or none.
LEMMA BesideStep ==
    ASSUME RevisionsKept, UNCHANGED <<revisions, original, corrections>>,
           \/ live' = Finality!Absent
           \/ live' # Finality!Absent /\ live'.price \in Int /\ ~live'.override
    PROVE  RevisionsKept'
BY DEF RevisionsKept, Finality!RevisionsExplain, Finality!Absent, Finality!Last

LEMMA RevisionsStep ==
    RevisionsKept /\ [Finality!Next]_fvars => RevisionsKept'
<1> SUFFICES ASSUME RevisionsKept, [Finality!Next]_fvars
             PROVE  RevisionsKept'
  OBVIOUS
<1>1. ASSUME UNCHANGED <<live, revisions, original, corrections>>
      PROVE  RevisionsKept'
  BY <1>1 DEF RevisionsKept, Finality!RevisionsExplain, Finality!Absent, Finality!Last
<1>2. CASE UNCHANGED fvars
  BY <1>1, <1>2 DEF fvars
<1>3. CASE Finality!FinalityCalls \/ Finality!CloseFinLedger
  BY <1>1, <1>3 DEF Finality!FinalityCalls, Finality!CloseFinLedger, Finality!mark_price_pending,
                    Finality!try_finalize_price, Finality!retract_price,
                    Finality!set_finality_ledgers, Finality!corrvars
<1>4. CASE \E new \in Finality!Scopes : Finality!set_correction_scope(new)
  BY <1>1, <1>4 DEF Finality!set_correction_scope, Finality!finvars
<1>5. CASE \E p \in FinPrices : Finality!publish_aggregate(p)
  <2>1. PICK p \in FinPrices : Finality!publish_aggregate(p)
    BY <1>5
  <2>2. /\ live' = [price |-> p, override |-> FALSE] /\ corrections' = corrections
        /\ Finality!record_original(p)
    BY <2>1 DEF Finality!publish_aggregate
  <2>3. live' # Finality!Absent /\ ~live'.override /\ live'.price \in Int
    BY <2>2, EntryIsPresent, ReadsAssumption
  <2>4. CASE revisions # <<>>
    <3>1. revisions' = revisions /\ original' = original
      BY <2>2, <2>4 DEF Finality!record_original
    <3> QED  BY <2>2, <2>3, <3>1, BesideStep
  <2>5. CASE revisions = <<>>
    <3>1. revisions' = <<[price |-> p, corrected |-> FALSE]>> /\ original' = p
      BY <2>2, <2>5 DEF Finality!record_original, Finality!append_revision
    <3>2. PICK e \in [price : Int, corrected : BOOLEAN] : e = [price |-> p, corrected |-> FALSE]
      BY ReadsAssumption
    <3>3. revisions' = <<e>>
      BY <3>1, <3>2
    <3>4. /\ revisions' \in Seq([price : Int, corrected : BOOLEAN]) /\ revisions' # <<>>
          /\ Len(revisions') = 1 /\ Head(revisions') = e /\ revisions'[1] = e
      BY <3>3
    <3>5. e.price = p /\ e.corrected = FALSE
      BY <3>2
    <3>6. ASSUME NEW i \in 1..Len(revisions')
          PROVE  revisions'[i].corrected = (i > 1)
      <4>1. i = 1
        BY <3>4
      <4> QED  BY <3>4, <3>5, <4>1
    <3>7. corrections' = Len(revisions') - 1
      BY <2>2, <2>5, <3>4 DEF RevisionsKept, Finality!RevisionsExplain
    <3>8. original' = Head(revisions').price
      BY <3>1, <3>4, <3>5
    <3> QED  BY <2>3, <3>4, <3>6, <3>7, <3>8
             DEF RevisionsKept, Finality!RevisionsExplain, Finality!Absent, Finality!Last
  <2> QED  BY <2>4, <2>5
<1>6. CASE \E p \in FinPrices : Finality!correct_price(p)
  <2>1. PICK p \in FinPrices : Finality!correct_price(p)
    BY <1>6
  <2>2. PICK chain : chain = IF revisions = <<>>
                             THEN <<[price |-> live.price, corrected |-> FALSE]>> ELSE revisions
    OBVIOUS
  <2>3. /\ live # Finality!Absent
        /\ revisions' = Append(chain, [price |-> p, corrected |-> TRUE])
        /\ original' = IF revisions = <<>> THEN live.price ELSE original
        /\ corrections' = corrections + 1
        /\ live' = [price |-> p, override |-> TRUE]
    BY <2>1, <2>2 DEF Finality!correct_price, Finality!append_revision
  <2>4. live' # Finality!Absent /\ live'.price \in Int
    BY <2>3, EntryIsPresent, ReadsAssumption
  <2>5. /\ chain \in Seq([price : Int, corrected : BOOLEAN]) /\ chain # <<>>
        /\ corrections = Len(chain) - 1
        /\ \A i \in 1..Len(chain) : chain[i].corrected = (i > 1)
        /\ original' = chain[1].price
    <3>1. CASE revisions = <<>>
      <4>1. PICK e \in [price : Int, corrected : BOOLEAN] :
              e = [price |-> live.price, corrected |-> FALSE]
        BY <2>3 DEF RevisionsKept
      <4>2. chain = <<e>> /\ e.price = live.price /\ e.corrected = FALSE
        BY <2>2, <3>1, <4>1
      <4>3. /\ chain \in Seq([price : Int, corrected : BOOLEAN]) /\ chain # <<>>
            /\ Len(chain) = 1 /\ chain[1] = e
        BY <4>2
      <4>4. ASSUME NEW i \in 1..Len(chain)
            PROVE  chain[i].corrected = (i > 1)
        <5>1. i = 1
          BY <4>3
        <5> QED  BY <4>2, <4>3, <5>1
      <4>5. corrections = Len(chain) - 1
        BY <3>1, <4>3 DEF RevisionsKept, Finality!RevisionsExplain
      <4> QED  BY <2>3, <3>1, <4>2, <4>3, <4>4, <4>5
    <3>2. CASE revisions # <<>>
      <4>1. chain = revisions /\ original' = original
        BY <2>2, <2>3, <3>2
      <4>2. Head(revisions) = revisions[1]
        BY <3>2 DEF RevisionsKept
      <4> QED  BY <3>2, <4>1, <4>2 DEF RevisionsKept, Finality!RevisionsExplain
    <3> QED  BY <3>1, <3>2
  <2>6. PICK n \in Nat : n = Len(chain) /\ n >= 1
    BY <2>5
  <2>7. PICK e \in [price : Int, corrected : BOOLEAN] : e = [price |-> p, corrected |-> TRUE]
    BY ReadsAssumption
  <2>8. /\ revisions' \in Seq([price : Int, corrected : BOOLEAN]) /\ revisions' # <<>>
        /\ Len(revisions') = n + 1 /\ revisions'[n + 1] = e
        /\ \A i \in 1..n : revisions'[i] = chain[i]
    BY <2>3, <2>5, <2>6, <2>7
  <2>9. Head(revisions') = chain[1]
    BY <2>6, <2>8
  <2>10. ASSUME NEW i \in 1..(n + 1)
         PROVE  revisions'[i].corrected = (i > 1)
    <3>1. CASE i \in 1..n
      BY <2>5, <2>6, <2>8, <3>1
    <3>2. CASE i = n + 1
      BY <2>6, <2>7, <2>8, <3>2
    <3> QED  BY <2>6, <3>1, <3>2
  <2>11. corrections' = Len(revisions') - 1 /\ Len(revisions') > 1
    BY <2>3, <2>5, <2>6, <2>8
  <2>12. revisions'[Len(revisions')].price = live'.price
    BY <2>3, <2>7, <2>8
  <2>13. original' = Head(revisions').price
    BY <2>5, <2>9
  <2> QED  BY <2>4, <2>8, <2>10, <2>11, <2>12, <2>13
           DEF RevisionsKept, Finality!RevisionsExplain, Finality!Absent, Finality!Last
<1>7. ASSUME NEW p \in Int, Finality!WriteBeside(p)
      PROVE  RevisionsKept'
  <2>1. /\ live' = [price |-> p, override |-> FALSE]
        /\ UNCHANGED <<revisions, original, corrections>>
    BY <1>7 DEF Finality!WriteBeside, Finality!corrvars
  <2>2. live' # Finality!Absent /\ live'.price \in Int /\ ~live'.override
    BY <2>1, EntryIsPresent
  <2> QED  BY <2>1, <2>2, BesideStep
<1>8. CASE Finality!Publications
  <2>1. ASSUME NEW p \in FinPrices,
               Finality!trigger_aggregation(p) \/ Finality!write_price_snapshot(p)
        PROVE  RevisionsKept'
    BY <1>7, <2>1, ReadsAssumption DEF Finality!trigger_aggregation, Finality!write_price_snapshot
  <2>2. CASE Finality!migrate_v1_to_v2
    BY <1>7, <2>2 DEF Finality!migrate_v1_to_v2
  <2>3. CASE Finality!register_asset
    BY <1>1, <2>3 DEF Finality!register_asset, Finality!corrvars
  <2>4. CASE Finality!unregister_asset
    <3>1. live' = Finality!Absent /\ UNCHANGED <<revisions, original, corrections>>
      BY <2>4 DEF Finality!unregister_asset, Finality!corrvars
    <3> QED  BY <3>1, BesideStep
  <2> QED  BY <1>5, <1>8, <2>1, <2>2, <2>3, <2>4 DEF Finality!Publications
<1> QED  BY <1>2, <1>3, <1>4, <1>6, <1>8 DEF Finality!Next, Finality!CorrectionCalls

-----------------------------------------------------------------------------
(* What readers get *)

\* prices.rs, degradation.rs, finality.rs:206 and corrections.rs:238.  For any
\* prices, windows, horizons and order of calls: the time-weighted average is the
\* mean of the price on record over the ledgers of its window for which one is
\* known, every degraded read is counted once, in every way it is counted, the
\* two readers agree, the finalized price is the newest finalised entry, and the
\* revisions explain every correction, whoever else writes the live price.
THEOREM ReadsAreExact == Spec => []ReadsExact
<1> DEFINE Inv == SnapshotsKept /\ CountsKept /\ FinalityKept /\ RevisionsKept
<1>1. Init => Inv
  <2> SUFFICES ASSUME Reads!Init, Finality!Init
               PROVE  Inv
    BY DEF Init
  <2>1. SnapshotsKept
    <3>1. read_now = 1 /\ floor = 1 /\ snapshots = <<>> /\ current = Reads!NoPrice
      BY DEF Reads!Init
    <3>2. DOMAIN snapshots = {} /\ 1 \in 1..MaxLedgers
      BY <3>1, ReadsAssumption
    <3>3. current.price = 0
      BY <3>1 DEF Reads!NoPrice
    <3> QED  BY <3>1, <3>2, <3>3 DEF SnapshotsKept
  <2>2. CountsKept
    <3>1. read_now = 1 /\ counters = <<>> /\ degraded = [w \in Windows |-> 0]
      BY DEF Reads!Init, Windows
    <3>2. DOMAIN counters = {} /\ 1 \in 1..MaxLedgers
      BY <3>1, ReadsAssumption
    <3> QED  BY <3>1, <3>2 DEF CountsKept
  <2>3. FinalityKept
    <3>1. /\ fin_now = 1 /\ horizon = DefaultHorizon /\ finalized = Finality!Absent
          /\ pending = [c \in Finality!Ledgers |-> Finality!Absent]
      BY DEF Finality!Init
    <3>2. Finality!Finals = {}
      BY <3>1 DEF Finality!Finals
    <3> QED  BY <3>1, <3>2, ReadsAssumption DEF FinalityKept
  <2>4. RevisionsKept
    BY DEF Finality!Init, RevisionsKept, Finality!RevisionsExplain
  <2> QED  BY <2>1, <2>2, <2>3, <2>4
<1>2. Inv /\ [Next]_vars => Inv'
  BY StepsOfParts, SnapshotsStep, CountsStep, FinalityStep, RevisionsStep
<1>3. Inv => ReadsExact
  <2> SUFFICES ASSUME Inv
               PROVE  ReadsExact
    OBVIOUS
  <2>1. Reads!TwapExact /\ Reads!CountsExact /\ Reads!ReadersMeet
    BY AverageIsExact, KeptIsCounted, ReadersAgree
  <2>2. Finality!FinalizedStands /\ Finality!RevisionsExplain
    BY KeptIsFinal DEF RevisionsKept
  <2>3. CASE focus \in {"reads", "averages"}
    BY <2>1, <2>3, Zenon DEF ReadsExact
  <2>4. CASE focus \in {"finality", "revisions"}
    BY <2>2, <2>4, Zenon DEF ReadsExact
  <2>5. CASE focus \notin {"reads", "averages", "finality", "revisions"}
    BY <2>5, Zenon DEF ReadsExact
  <2> QED  BY <2>3, <2>4, <2>5
<1> QED  BY <1>1, <1>2, <1>3, PTL DEF Spec

=============================================================================
