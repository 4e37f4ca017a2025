---------------------------- MODULE AdminControl ----------------------------
(* Who controls the contract, and whether it serves: the admin key and its   *)
(* recovery by guardians (recovery.rs, admin.rs set_admin), the dead-man      *)
(* switch of the operators (dead_man.rs) and the pause flag that it shares    *)
(* with pause.rs and emergency_pause.rs.                                      *)
(*                                                                            *)
(* Time is relative: where the code stores a ledger number or a timestamp and *)
(* compares it with the current one, the model keeps the number of ledgers    *)
(* since or until then, saturated at Horizon, which no configured delay       *)
(* exceeds.  Every comparison the code makes has the same outcome, and the    *)
(* model needs no bound on the length of a behaviour.                         *)
EXTENDS Integers, Sequences, FiniteSets, Functions

CONSTANTS
    Accounts,      \* the accounts that can be admin, guardian or operator
    GuardianLists,  \* the arguments of set_guardians: vectors of accounts
    Thresholds,     \* ... and its thresholds
    Delays,         \* the arguments of set_recovery_delay
    Switches,       \* the arguments of configure: [trigger_after, warn_after, operators]
    EmergencyTerms, \* the arguments of emergency_pause and its extension
    Horizon,        \* where counted time saturates; emergency pauses end before
    None

ASSUME ControlAssumption ==
    /\ GuardianLists \subseteq Seq(Accounts)
    /\ Thresholds \subseteq Nat
    /\ Delays \subseteq Nat /\ Delays # {}
    /\ Horizon \in Nat
    /\ \A d \in Delays : d <= Horizon
    /\ Switches \subseteq [trigger_after : 0..Horizon, warn_after : 0..Horizon,
                           operators : SUBSET Accounts]
    /\ EmergencyTerms \subseteq Nat
    /\ None \notin Nat
    /\ None \notin [new_admin : Accounts, approvals : SUBSET Accounts,
                    since : Nat \cup {None}, announced : Nat]
    /\ None \notin [vetoed : Accounts, left : Nat]

VARIABLES
    admin,      \* Admin
    guardians,  \* RecoveryGuardians
    threshold,  \* RecoveryThreshold
    delay,      \* RecoveryDelay
    recovery,   \* PendingRecovery; since: ledgers since ready_ledger (None
                \* before quorum), announced: ledgers until execute_after_ledger
    veto,       \* RecoveryVeto; left: ledgers until it expires
    switch,     \* DeadManConfig
    quiet,      \* time since DeadManLastHeartbeat
    warned,     \* DeadManWarned
    degraded,   \* DeadManDegraded
    paused,     \* CfgPauseFlag
    emergency   \* EmergencyPauseEntry: ledgers until auto_unpause_ledger

recoveryVars == <<guardians, threshold, delay, recovery, veto>>
switchVars == <<switch, quiet, warned, degraded>>
controlVars == <<admin, recoveryVars, switchVars, paused, emergency>>

Off == [trigger_after |-> 0, warn_after |-> 0, operators |-> {}]
Ready == recovery # None /\ recovery.since # None
Enabled == switch.trigger_after > 0

ControlInit ==
    /\ admin \in Accounts
    /\ guardians = <<>> /\ threshold = 0
    /\ delay \in Delays
    /\ recovery = None
    /\ veto = None
    /\ switch = Off
    /\ quiet = Horizon   \* no heartbeat yet: last_heartbeat is 0
    /\ warned = FALSE /\ degraded = FALSE
    /\ paused = FALSE
    /\ emergency = None

-----------------------------------------------------------------------------
(* Recovery *)

ConfigUnlocked ==
    /\ recovery = None
    /\ veto # None => veto.left = 0

set_guardiansUnlocked(list, t) ==   \* slip: allowed during a recovery
    /\ t \in 1..Len(list)
    /\ guardians' = list /\ threshold' = t
    /\ UNCHANGED <<admin, delay, recovery, veto, switchVars, paused, emergency>>

\* recovery.rs set_guardians (admin): duplicates are not refused.
set_guardians(list, t) ==
    /\ ConfigUnlocked
    /\ t \in 1..Len(list)
    /\ guardians' = list /\ threshold' = t
    /\ UNCHANGED <<admin, delay, recovery, veto, switchVars, paused, emergency>>

set_recovery_delayUnlocked(d) ==   \* slip: allowed during a recovery
    /\ d > 0
    /\ delay' = d
    /\ UNCHANGED <<admin, guardians, threshold, recovery, veto, switchVars,
                   paused, emergency>>

\* recovery.rs set_recovery_delay (admin).
set_recovery_delay(d) ==
    /\ ConfigUnlocked
    /\ d > 0
    /\ delay' = d
    /\ UNCHANGED <<admin, guardians, threshold, recovery, veto, switchVars,
                   paused, emergency>>

\* recovery.rs approve_recovery: the first approval opens the recovery; the one
\* that reaches the threshold starts the delay and announces its end.
approve_recovery(g, c) ==
    /\ g \in Range(guardians)
    /\ recovery # None => recovery.new_admin = c /\ g \notin recovery.approvals
    /\ LET approvals == {g} \cup (IF recovery = None THEN {} ELSE recovery.approvals)
       IN  recovery' =
             IF ~Ready /\ Cardinality(approvals) >= threshold
             THEN [new_admin |-> c, approvals |-> approvals,
                   since |-> 0, announced |-> delay]
             ELSE [new_admin |-> c, approvals |-> approvals,
                   since |-> IF Ready THEN recovery.since ELSE None,
                   announced |-> IF Ready THEN recovery.announced ELSE 0]
    /\ UNCHANGED <<admin, guardians, threshold, delay, veto, switchVars,
                   paused, emergency>>

cancel_recoveryAlways ==   \* slip: a vetoed candidate can be vetoed again
    /\ recovery # None
    /\ veto' = IF Ready THEN [vetoed |-> recovery.new_admin, left |-> delay] ELSE veto
    /\ recovery' = None
    /\ UNCHANGED <<admin, guardians, threshold, delay, switchVars, paused, emergency>>

\* recovery.rs cancel_recovery (admin): after quorum the cancellation is a
\* veto, refused for the candidate the stored veto names.
cancel_recovery ==
    /\ recovery # None
    /\ Ready /\ veto # None => veto.vetoed # recovery.new_admin
    /\ veto' = IF Ready THEN [vetoed |-> recovery.new_admin, left |-> delay] ELSE veto
    /\ recovery' = None
    /\ UNCHANGED <<admin, guardians, threshold, delay, switchVars, paused, emergency>>

\* recovery.rs execute_recovery: anyone, once the delay has passed.
execute_recovery ==
    /\ Ready
    /\ recovery.since >= delay
    /\ admin' = recovery.new_admin
    /\ recovery' = None
    /\ veto' = None
    /\ UNCHANGED <<guardians, threshold, delay, switchVars, paused, emergency>>

\* admin.rs set_admin (admin), allowed during a recovery.
set_admin(a) ==
    /\ admin' = a
    /\ UNCHANGED <<recoveryVars, switchVars, paused, emergency>>

-----------------------------------------------------------------------------
(* The dead-man switch *)

\* dead_man.rs configure (admin): the heartbeat, the latch and the degraded
\* flag stay.
configure(s) ==
    /\ s.trigger_after > 0 => s.warn_after < s.trigger_after /\ s.operators # {}
    /\ switch' = s
    /\ UNCHANGED <<admin, recoveryVars, quiet, warned, degraded, paused, emergency>>

\* dead_man.rs heartbeat: it leaves the warning latch and the degraded flag.
heartbeat(o) ==
    /\ Enabled
    /\ o \in switch.operators
    /\ quiet' = 0
    /\ UNCHANGED <<admin, recoveryVars, switch, warned, degraded, paused, emergency>>

\* dead_man.rs evaluate and enter_degraded: anyone.  Warning and trip can fall
\* in one call.
evaluate ==
    /\ Enabled /\ ~degraded
    /\ warned' = (warned \/ (switch.warn_after > 0 /\ quiet >= switch.warn_after))
    /\ degraded' = (quiet >= switch.trigger_after)
    /\ paused' = (paused \/ quiet >= switch.trigger_after)
    /\ UNCHANGED <<admin, recoveryVars, switch, quiet, emergency>>

recoverKeepsPause(g) ==   \* slip: the flag set by the trip is not cleared
    /\ degraded
    /\ g = admin \/ g \in Range(guardians)
    /\ degraded' = FALSE /\ warned' = FALSE
    /\ UNCHANGED <<admin, recoveryVars, switch, quiet, paused, emergency>>

\* dead_man.rs recover: a guardian or the admin; the pause flag is cleared
\* whoever set it, and the heartbeat stays as old as it is.
recover(g) ==
    /\ degraded
    /\ g = admin \/ g \in Range(guardians)
    /\ degraded' = FALSE /\ warned' = FALSE
    /\ paused' = FALSE
    /\ UNCHANGED <<admin, recoveryVars, switch, quiet, emergency>>

-----------------------------------------------------------------------------
(* Pausing (admin).  pause.rs and emergency_pause.rs write one flag, and the *)
(* admin's unpause leaves the emergency entry behind.                        *)

pause ==
    /\ paused' = TRUE
    /\ UNCHANGED <<admin, recoveryVars, switchVars, emergency>>

unpause ==
    /\ paused' = FALSE
    /\ UNCHANGED <<admin, recoveryVars, switchVars, emergency>>

emergency_pause(n) ==
    /\ paused' = TRUE
    /\ emergency' = n
    /\ UNCHANGED <<admin, recoveryVars, switchVars>>

extend_emergency_pause(n) ==
    /\ emergency # None
    /\ emergency > 0
    /\ emergency + n <= Horizon
    /\ emergency' = emergency + n
    /\ UNCHANGED <<admin, recoveryVars, switchVars, paused>>

cancel_emergency_pause ==
    /\ emergency # None
    /\ emergency' = None
    /\ paused' = FALSE
    /\ UNCHANGED <<admin, recoveryVars, switchVars>>

-----------------------------------------------------------------------------

Later(n) == IF n < Horizon THEN n + 1 ELSE n
Sooner(n) == IF n > 0 THEN n - 1 ELSE 0

\* A ledger closes.
CloseLedger ==
    /\ recovery' = IF Ready
                  THEN [recovery EXCEPT !.since = Later(@), !.announced = Sooner(@)]
                  ELSE recovery
    /\ veto' = IF veto = None THEN None ELSE [veto EXCEPT !.left = Sooner(@)]
    /\ quiet' = Later(quiet)
    /\ emergency' = IF emergency = None THEN None ELSE Sooner(emergency)
    /\ UNCHANGED <<admin, guardians, threshold, delay, switch, warned, degraded,
                   paused>>

AdminRecoveryNext ==
    \/ \E list \in GuardianLists, t \in Thresholds : set_guardians(list, t)
    \/ \E d \in Delays : set_recovery_delay(d)
    \/ cancel_recovery
    \/ \E a \in Accounts : set_admin(a)

AdminServiceNext ==
    \/ \E s \in Switches : configure(s)
    \/ pause \/ unpause \/ cancel_emergency_pause
    \/ \E n \in EmergencyTerms : emergency_pause(n) \/ extend_emergency_pause(n)

ControlNext ==
    \/ AdminRecoveryNext
    \/ AdminServiceNext
    \/ \E g, c \in Accounts : approve_recovery(g, c)
    \/ execute_recovery
    \/ \E o \in Accounts : heartbeat(o)
    \/ evaluate
    \/ \E g \in Accounts : recover(g)
    \/ CloseLedger

ControlSpec == ControlInit /\ [][ControlNext]_controlVars

\* Ledgers keep closing; execute_recovery needs no authorisation, so a watcher
\* submits it; some guardian reacts to a trip.
WatchedSpec ==
    /\ ControlSpec
    /\ WF_controlVars(CloseLedger)
    /\ WF_controlVars(execute_recovery)
    /\ WF_controlVars(\E g \in Range(guardians) : recover(g))

-----------------------------------------------------------------------------
(* Properties *)

\* The storage entries have their shape.
ControlTypeOK ==
    /\ admin \in Accounts
    /\ guardians \in Seq(Accounts) /\ threshold \in Nat
    /\ delay \in Delays
    /\ recovery \in [new_admin : Accounts, approvals : SUBSET Accounts,
                    since : Nat \cup {None}, announced : Nat] \cup {None}
    /\ veto \in [vetoed : Accounts, left : Nat] \cup {None}
    /\ switch \in [trigger_after : Nat, warn_after : Nat, operators : SUBSET Accounts]
    /\ quiet \in Nat
    /\ warned \in BOOLEAN /\ degraded \in BOOLEAN /\ paused \in BOOLEAN
    /\ emergency \in Nat \cup {None}

\* A pending recovery stands on the guardians and the threshold in force:
\* every approval is a current guardian's, and its delay runs exactly when the
\* approvals reach the threshold.  set_guardians could break it, were it not
\* locked (check_recovery_config_unlocked).
RecoveryStandsOnGuardians ==
    recovery # None =>
        /\ recovery.approvals \subseteq Range(guardians)
        /\ Ready <=> Cardinality(recovery.approvals) >= threshold

\* RecoveryReadyEvent announces the ledger before which the recovery cannot be
\* executed; nothing the admin does in between brings the execution forward.
AnnouncedDelayHolds ==
    Ready /\ recovery.since >= delay => recovery.announced = 0

\* Guardian quorum outranks the admin key: once the guardians have approved
\* the candidate of the last veto again, that candidate becomes admin, whatever
\* the admin does.
GuardiansPrevail ==
    \A c \in Accounts :
        (Ready /\ recovery.new_admin = c /\ veto # None /\ veto.vetoed = c)
        ~> (admin = c)

\* Recovery from a trip does not need the admin: with guardians in place the
\* contract serves again, even if it was paused before or is paused meanwhile.
ServiceReturns ==
    (degraded /\ guardians # <<>>) ~> (~degraded /\ ~paused)

=============================================================================
