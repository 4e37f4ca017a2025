----------------------------- MODULE AccessRoles -----------------------------
(***************************************************************************)
(* Who may do what besides the admin: delegated roles (rbac.rs), the       *)
(* operations granted to an external governor (external_governance.rs) and *)
(* the consumers allowed to read (consumer_auth.rs).  The admin may hand   *)
(* the contract over between any two calls.                                *)
(***************************************************************************)
EXTENDS Integers, Sequences, SequencesExt, FiniteSets

CONSTANTS
    Accounts,     \* addresses, the admins and governors among them
    FirstOwner,   \* the admin at deployment
    Roles,        \* Role discriminants
    GovernorOps,  \* operation names
    MaxEpoch      \* bound: GovernorEpoch

VARIABLES
    owner,      \* Admin
    roles,      \* DelegatedRole: the <<holder, role>> pairs set
    holders,    \* RoleHolders: role -> sequence
    governor,   \* ExternalGovernor, Nil when the admin stands in
    epoch,      \* GovernorEpoch
    grants,     \* GovernorOpGrant: operation -> epoch, -1 when absent
    given,      \* ghost: operations allowed since the last change of governor
    readers     \* ConsumerAccessMode and ConsumerAuthorized: [mode, allowed]

rolevars == <<owner, roles, holders, governor, epoch, grants, given, readers>>

Nil == "Nil"

(***************************************************************************)
(* Roles                                                                   *)
(***************************************************************************)
has_role(a, r) == a = owner \/ <<a, r>> \in roles

get_address_roles(a) == IF a = owner THEN Roles ELSE {r \in Roles : <<a, r>> \in roles}

PushHolderAgain(r, a) == [holders EXCEPT ![r] = Append(@, a)]
PushHolder(r, a) == [holders EXCEPT ![r] = IF a \in ToSet(@) THEN @ ELSE Append(@, a)]

delegate_role(a, r) ==
    /\ roles' = roles \cup {<<a, r>>}
    /\ holders' = PushHolder(r, a)
    /\ UNCHANGED <<owner, governor, epoch, grants, given, readers>>

Without(list, gone) ==
    FoldLeft(LAMBDA left, x : IF x \in gone THEN left ELSE Append(left, x), <<>>, list)

revoke_role(a, r) ==
    /\ roles' = roles \ {<<a, r>>}
    /\ holders' = [holders EXCEPT ![r] = Without(@, {a})]
    /\ UNCHANGED <<owner, governor, epoch, grants, given, readers>>

\* The old admin keeps the roles it was delegated and no other.
transfer_admin(a) ==
    /\ owner' = a
    /\ UNCHANGED <<roles, holders, governor, epoch, grants, given, readers>>

(***************************************************************************)
(* The governor                                                            *)
(***************************************************************************)
bump_epochForgotten == epoch' = epoch
bump_epoch == epoch' = epoch + 1

set_external_governor(g) ==
    /\ epoch < MaxEpoch
    /\ bump_epoch
    /\ governor' = g
    /\ given' = {}
    /\ UNCHANGED <<owner, roles, holders, grants, readers>>

clear_external_governor ==
    /\ epoch < MaxEpoch
    /\ governor' = Nil
    /\ bump_epoch
    /\ given' = {}
    /\ UNCHANGED <<owner, roles, holders, grants, readers>>

reauthorize_governor ==
    /\ epoch < MaxEpoch
    /\ bump_epoch
    /\ given' = {}
    /\ UNCHANGED <<owner, roles, holders, governor, grants, readers>>

get_external_governor == IF governor = Nil THEN owner ELSE governor

allow_governor_op(op) ==
    /\ grants' = [grants EXCEPT ![op] = epoch]
    /\ given' = given \cup {op}
    /\ UNCHANGED <<owner, roles, holders, governor, epoch, readers>>

disallow_governor_op(op) ==
    /\ grants' = [grants EXCEPT ![op] = -1]
    /\ given' = given \ {op}
    /\ UNCHANGED <<owner, roles, holders, governor, epoch, readers>>

is_governor_op_allowed(op) == grants[op] = epoch

(***************************************************************************)
(* Readers                                                                 *)
(***************************************************************************)
\* No entry point blocks a consumer, so the third mode admits everybody.
is_consumer_authorized(c) == readers.mode = "AllowedOnly" => c \in readers.allowed

set_readers(mode, allowed) ==
    /\ readers' = [mode |-> mode, allowed |-> allowed]
    /\ UNCHANGED <<owner, roles, holders, governor, epoch, grants, given>>

add_authorized_consumer(c) == set_readers(readers.mode, readers.allowed \cup {c})
remove_authorized_consumer(c) == set_readers(readers.mode, readers.allowed \ {c})
set_consumer_access_mode(m) == set_readers(m, readers.allowed)

(***************************************************************************)
(* The specification                                                       *)
(***************************************************************************)
Init ==
    /\ owner = FirstOwner
    /\ roles = {} /\ holders = [r \in Roles |-> <<>>]
    /\ governor = Nil /\ epoch = 0
    /\ grants = [op \in GovernorOps |-> -1] /\ given = {}
    /\ readers = [mode |-> "Public", allowed |-> {}]

RoleCalls ==
    \E a \in Accounts :
        \/ transfer_admin(a)
        \/ \E r \in Roles : delegate_role(a, r) \/ revoke_role(a, r)

GovernorCalls ==
    \/ \E g \in Accounts : set_external_governor(g)
    \/ clear_external_governor
    \/ reauthorize_governor
    \/ \E op \in GovernorOps : allow_governor_op(op) \/ disallow_governor_op(op)

ReaderCalls ==
    \/ \E c \in Accounts : add_authorized_consumer(c) \/ remove_authorized_consumer(c)
    \/ \E m \in {"Public", "AllowedOnly", "BlockedOnly"} : set_consumer_access_mode(m)

Next == RoleCalls \/ GovernorCalls \/ ReaderCalls

Spec == Init /\ [][Next]_rolevars

(***************************************************************************)
(* Properties                                                              *)
(***************************************************************************)
\* An operation is allowed exactly when the admin allowed it since the last
\* change of governor (external_governance.rs:153): an operation granted to
\* one governor is never inherited by the next, nor by the admin who stands
\* in after clear_external_governor, nor by a governor who is appointed again.
GrantsDieWithAppointment == \A op \in GovernorOps : is_governor_op_allowed(op) <=> op \in given

\* The list of a role names its holders once each, over delegations repeated,
\* revoked without having been given, and made by successive admins, and a
\* replaced admin is left with what the lists say (rbac.rs:102, 162).
HoldersExact ==
    \A r \in Roles :
        /\ IsInjective(holders[r])
        /\ ToSet(holders[r]) = {a \in Accounts : <<a, r>> \in roles}
        /\ \A a \in Accounts \ {owner} : r \in get_address_roles(a) <=> a \in ToSet(holders[r])

=============================================================================
