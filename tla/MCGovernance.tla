---------------------------- MODULE MCGovernance ----------------------------
(***************************************************************************)
(* The two ways to govern the contract, model-checked together: the queue  *)
(* of the governors (Multisig) and the admin key with its guardians        *)
(* (AdminControl).  They share no storage entry, so the run picks one of   *)
(* them in the initial state and the other stands still; the rotations,    *)
(* guardian vectors and dead-man settings are small enough for TLC.        *)
(***************************************************************************)
EXTENDS Multisig, AdminControl

CONSTANTS g1, g2, g3, x

\* Two governors, and one of them with a newcomer entered twice.
MCRotations == {<<g1, g2>>, <<g2, g3, g3>>}

MCGuardianLists == {<<g1, g2>>, <<g1, g1>>}
MCSwitches == {Off, [trigger_after |-> 2, warn_after |-> 1, operators |-> {g1}]}

VARIABLE focus

governanceVars == <<focus, vars, controlVars>>

\* The part that stands still starts in one state.
GovernanceInit ==
    /\ focus \in {"queue", "control"}
    /\ Init /\ ControlInit
    /\ focus = "queue" => admin = g1 /\ delay = CHOOSE d \in Delays : TRUE
    /\ focus = "control" => duration = CHOOSE d \in Durations : TRUE

QueueSteps ==
    /\ focus = "queue" /\ UNCHANGED focus
    /\ Next
    /\ UNCHANGED controlVars
Controlled(A) ==
    /\ focus = "control" /\ UNCHANGED focus
    /\ A
    /\ UNCHANGED vars
GovernanceNext == QueueSteps \/ Controlled(ControlNext)

\* The fairness of WatchedSpec.
GovernanceSpec ==
    /\ GovernanceInit
    /\ [][GovernanceNext]_governanceVars
    /\ WF_governanceVars(Controlled(CloseLedger))
    /\ WF_governanceVars(Controlled(execute_recovery))
    /\ WF_governanceVars(Controlled(\E g \in Range(guardians) : recover(g)))

=============================================================================
