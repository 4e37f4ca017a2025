------------------------------ MODULE MCSources ------------------------------
(***************************************************************************)
(* The life of the sources, model-checked: their identities                *)
(* (SourceIdentity) and, with a focus of its own, their suspension and the *)
(* custody of their bonds (SourceHealth).  The run picks the part it       *)
(* exercises once, in the initial state.                                   *)
(***************************************************************************)
EXTENDS SourceIdentity, Integers, FiniteSets, TLC

CONSTANTS s1, s2, s3, i1, i2, h1, h2

CONSTANTS HealthSources, Interval, Window, MaxInactive, MinSources, Bonds, SlashAmount,
          RotationCooldown, MaxLedger, MaxHeld

\* The settings of the heartbeat are u32, and set_heartbeat_window refuses zero;
\* amounts are i128.
ASSUME HealthAssumption ==
    /\ Interval \in Nat /\ Window \in Nat \ {0} /\ MaxLedger \in Nat
    /\ None \notin Nat
    /\ Bonds \subseteq Int /\ SlashAmount \in Int /\ MaxHeld \in Int
    /\ IsFiniteSet(HealthSources)

VARIABLES focus,
    ledger, hregistered, inactive, missed, heartbeat, since, priced, rotated, required, bond,
    treasury, held, lapsedAt

Health == INSTANCE SourceHealth WITH
    Sources <- HealthSources, registered <- hregistered

hvars == <<ledger, hregistered, inactive, missed, heartbeat, since, priced, rotated, required,
           bond, treasury, held, lapsedAt>>

SourcesInit ==
    /\ focus \in {"identity", "health"}
    /\ Init /\ Health!Init
    /\ focus = "identity" => hregistered = {} /\ required = 0

IdentitySteps ==
    /\ focus = "identity" /\ UNCHANGED focus
    /\ Next
    /\ UNCHANGED hvars
HealthSteps ==
    /\ focus = "health" /\ UNCHANGED focus
    /\ Health!Next
    /\ UNCHANGED vars
SourcesNext ==
    \/ IdentitySteps
    \/ HealthSteps

SourcesSpec == SourcesInit /\ [][SourcesNext]_<<focus, vars, hvars>>

\* The contract holds every bond and the treasury's share, and every suspended
\* source has the date its pruning counts from (SourceHealth).
HealthBooked == Health!Solvent /\ Health!SuspensionIsDated
\* A source that is not overdue is not suspended (SourceHealth).
PunctualIsSafe == Health!PunctualIsSafe

Symmetry == Permutations(HealthSources)

=============================================================================
