-------------------------- MODULE SourceAdmission --------------------------
(***************************************************************************)
(* The doors through which a source enters, moves in and leaves the        *)
(* registry (sources.rs): direct registration, a vote of approvers,        *)
(* evidence-backed enrollment, key rotation, removal one by one, in bulk   *)
(* and by pruning; with what is kept per source beside the registry: its   *)
(* name, verification, asset claims, signing key and nonce                 *)
(* (signed_submission.rs).                                                 *)
(*                                                                         *)
(* Tombstones and probation are in SourceIdentity, bonds, heartbeats and   *)
(* the rotation cooldown in SourceHealth, what a submission does to the    *)
(* price in PriceOracle.  Names and evidence are present or not; lists of  *)
(* assets and of approvers are sets.                                       *)
(***************************************************************************)
EXTENDS Naturals, Sequences, FiniteSets, SequencesExt, Functions

CONSTANTS
    Sources,      \* addresses
    Priced,       \* registered assets
    SigningKeys,
    Committees,   \* values of SourceGovernance: approvers and threshold
    SourceCaps,   \* values of CfgMaxSources, 0 for no cap
    Verifiable, Applicants, Candidates, Signers,   \* who is verified, enrolls, is proposed, signs
    MaxNonce,     \* bound on the nonces signed
    MaxProposals  \* bound on the proposals
Absent == "absent"   \* a storage entry that does not exist

VARIABLES
    registered,    \* SrcActive
    roster, named, verified_map,   \* SrcRegistry: sources, metadata, verification
    verified_key,  \* SourceVerification
    claims,        \* SourceAssets, of the sources that have a list
    restricting,   \* feature flag SOURCE_ASSETS
    source_cap,    \* CfgMaxSources
    committee,     \* SourceGovConfig
    proposals,     \* SourceProposal
    enrollment,    \* SourceEnrollment
    signing_key,   \* SignedSubmitPubKey
    nonce,         \* SignedSubmitNonce
    quotes,        \* assets the source has a Submission for
    taken          \* the nonces accepted, in order (history)

registry == <<registered, roster, named>>
verification == <<verified_map, verified_key>>
signing == <<signing_key, nonce, taken>>
svars == <<registry, verification, claims, restricting, source_cap, committee, proposals,
           enrollment, signing, quotes>>

Init ==
    /\ registered = {} /\ roster = <<>> /\ named = {}
    /\ verified_map = {} /\ verified_key = {}
    /\ claims = <<>>
    /\ restricting = FALSE
    /\ source_cap = 0
    /\ committee = [approvers |-> {}, threshold |-> 0]
    /\ proposals = <<>>
    /\ enrollment = [s \in Sources |-> Absent]
    /\ signing_key = [s \in Sources |-> Absent]
    /\ nonce = [s \in Sources |-> 0]
    /\ quotes = [s \in Sources |-> {}]
    /\ taken = [s \in Sources |-> <<>>]

-----------------------------------------------------------------------------
(* Entry *)

register_source_internal(s) ==
    /\ s \notin registered
    /\ source_cap > 0 => Len(roster) < source_cap
    /\ registered' = registered \cup {s}
    /\ roster' = Append(roster, s)
    /\ named' = named \cup {s}

add_source(s) ==
    /\ committee.threshold = 0
    /\ register_source_internal(s)
    /\ UNCHANGED <<verification, claims, restricting, source_cap, committee, proposals,
                   enrollment, signing, quotes>>

\* add_source_with_assets: the committee is not asked.
add_source_with_assets(s, assets) ==
    /\ register_source_internal(s)
    /\ claims' = (s :> assets) @@ claims
    /\ restricting' = TRUE
    /\ UNCHANGED <<verification, source_cap, committee, proposals, enrollment, signing, quotes>>

set_source_governance(c) ==
    /\ c.threshold <= Cardinality(c.approvers)
    /\ c.threshold = 0 => c.approvers = {}
    /\ committee' = c
    /\ UNCHANGED <<registry, verification, claims, restricting, source_cap, proposals,
                   enrollment, signing, quotes>>

propose_source(proposer, s) ==
    /\ committee.threshold > 0 /\ proposer \in committee.approvers
    /\ Len(proposals) < MaxProposals
    /\ proposals' = Append(proposals, [source |-> s, approvals |-> {}, executed |-> FALSE])
    /\ UNCHANGED <<registry, verification, claims, restricting, source_cap, committee,
                   enrollment, signing, quotes>>

\* approve_source: the approval that reaches the threshold in force registers
\* the source, or fails as a whole.  Earlier approvals count whoever gave them.
approve_source(approver, id) ==
    LET p == proposals[id]
        approvals == p.approvals \cup {approver}
        passes == Cardinality(approvals) >= committee.threshold
    IN  /\ committee.threshold > 0 /\ approver \in committee.approvers
        /\ ~p.executed /\ approver \notin p.approvals
        /\ proposals' = [proposals EXCEPT ![id] =
                            [p EXCEPT !.approvals = approvals, !.executed = passes]]
        /\ IF passes THEN register_source_internal(p.source) ELSE UNCHANGED registry
        /\ UNCHANGED <<verification, claims, restricting, source_cap, committee, enrollment,
                       signing, quotes>>

enroll_source(s) ==
    /\ enrollment[s] = Absent /\ s \notin registered
    /\ enrollment' = [enrollment EXCEPT ![s] = "open"]
    /\ UNCHANGED <<registry, verification, claims, restricting, source_cap, committee,
                   proposals, signing, quotes>>

submit_source_evidence(s) ==
    /\ enrollment[s] # Absent
    /\ enrollment' = [enrollment EXCEPT ![s] = "evidenced"]
    /\ UNCHANGED <<registry, verification, claims, restricting, source_cap, committee,
                   proposals, signing, quotes>>

\* activate_source: the enrollment is kept.
activate_source(s) ==
    /\ enrollment[s] = "evidenced"
    /\ register_source_internal(s)
    /\ UNCHANGED <<verification, claims, restricting, source_cap, committee, proposals,
                   enrollment, signing, quotes>>

set_max_sources(n) ==
    /\ source_cap' = n
    /\ UNCHANGED <<registry, verification, claims, restricting, committee, proposals,
                   enrollment, signing, quotes>>

-----------------------------------------------------------------------------
(* Exit *)

Without(list, gone) ==
    FoldLeft(LAMBDA left, x : IF x \in gone THEN left ELSE Append(left, x), <<>>, list)

remove_source_innerForgets(gone) ==   \* slip: the nonce goes with the key
    /\ gone \subseteq registered
    /\ registered' = registered \ gone
    /\ roster' = Without(roster, gone)
    /\ named' = named \ gone
    /\ verified_map' = verified_map \ gone /\ verified_key' = verified_key \ gone
    /\ claims' = Restrict(claims, DOMAIN claims \ gone)
    /\ signing_key' = [s \in Sources |-> IF s \in gone THEN Absent ELSE signing_key[s]]
    /\ nonce' = [s \in Sources |-> IF s \in gone THEN 0 ELSE nonce[s]]
    /\ UNCHANGED <<restricting, source_cap, committee, proposals, taken, quotes>>
\* remove_source_inner, once per source of a list: submissions and nonce stay.
remove_source_inner(gone) ==
    /\ gone \subseteq registered
    /\ registered' = registered \ gone
    /\ roster' = Without(roster, gone)
    /\ named' = named \ gone
    /\ verified_map' = verified_map \ gone /\ verified_key' = verified_key \ gone
    /\ claims' = Restrict(claims, DOMAIN claims \ gone)
    /\ signing_key' = [s \in Sources |-> IF s \in gone THEN Absent ELSE signing_key[s]]
    /\ UNCHANGED <<restricting, source_cap, committee, proposals, nonce, taken, quotes>>

\* remove_source: also ends an enrollment, of an address not registered too.
remove_source(s) ==
    /\ enrollment' = [enrollment EXCEPT ![s] = Absent]
    /\ \/ remove_source_inner({s})
       \/ /\ s \notin registered /\ enrollment[s] # Absent
          /\ UNCHANGED <<registry, verification, claims, restricting, source_cap, committee,
                         proposals, signing, quotes>>

remove_sources(gone) ==
    /\ gone # {}
    /\ remove_source_inner(gone)
    /\ UNCHANGED enrollment

\* _remove_source_internal, for a source that pruning found inactive: claims,
\* verification, signing key and enrollment stay.
prune_source(s) ==
    /\ s \in registered
    /\ registered' = registered \ {s}
    /\ roster' = Without(roster, {s})
    /\ named' = named \ {s}
    /\ UNCHANGED <<verification, claims, restricting, source_cap, committee, proposals,
                   enrollment, signing, quotes>>

-----------------------------------------------------------------------------
(* What an admitted source has *)

MoveClaims(s, n) == IF s \in DOMAIN claims
                    THEN (n :> claims[s]) @@ Restrict(claims, DOMAIN claims \ {s})
                    ELSE claims

rotate_source_keyHalf(s, n) ==   \* slip: the verification moves in the registry only
    /\ s \in registered /\ n \notin registered
    /\ registered' = (registered \ {s}) \cup {n}
    /\ roster' = [i \in DOMAIN roster |-> IF roster[i] = s THEN n ELSE roster[i]]
    /\ named' = (named \ {s}) \cup {n}
    /\ verified_map' = IF s \in verified_map THEN (verified_map \ {s}) \cup {n} ELSE verified_map
    /\ claims' = MoveClaims(s, n)
    /\ quotes' = [quotes EXCEPT ![s] = {}, ![n] = @ \cup quotes[s]]
    /\ UNCHANGED <<verified_key, restricting, source_cap, committee, proposals, enrollment,
                   signing>>
\* rotate_source_key: registration, name, verification, claims and submissions
\* move to the new address; signing key, nonce and enrollment stay behind.
rotate_source_key(s, n) ==
    /\ s \in registered /\ n \notin registered
    /\ registered' = (registered \ {s}) \cup {n}
    /\ roster' = [i \in DOMAIN roster |-> IF roster[i] = s THEN n ELSE roster[i]]
    /\ named' = (named \ {s}) \cup {n}
    /\ IF s \in verified_map
       THEN /\ verified_map' = (verified_map \ {s}) \cup {n}
            /\ verified_key' = (verified_key \ {s}) \cup {n}
       ELSE UNCHANGED verification
    /\ claims' = MoveClaims(s, n)
    /\ quotes' = [quotes EXCEPT ![s] = {}, ![n] = @ \cup quotes[s]]
    /\ UNCHANGED <<restricting, source_cap, committee, proposals, enrollment, signing>>

set_source_verification(s) ==
    /\ s \in registered
    /\ verified_map' = verified_map \cup {s} /\ verified_key' = verified_key \cup {s}
    /\ UNCHANGED <<registry, claims, restricting, source_cap, committee, proposals,
                   enrollment, signing, quotes>>

Claimed(s) == IF s \in DOMAIN claims THEN claims[s] ELSE {}

add_source_asset(s, a) ==
    /\ s \in registered
    /\ claims' = IF a \in Claimed(s) THEN claims
                 ELSE (s :> Claimed(s) \cup {a}) @@ claims
    /\ restricting' = (restricting \/ a \notin Claimed(s))
    /\ UNCHANGED <<registry, verification, source_cap, committee, proposals, enrollment,
                   signing, quotes>>

\* remove_source_asset: the list is written even if the asset was not on it;
\* the stored price goes only if it was.
remove_source_asset(s, a) ==
    /\ s \in registered
    /\ claims' = (s :> Claimed(s) \ {a}) @@ claims
    /\ quotes' = IF a \in Claimed(s) THEN [quotes EXCEPT ![s] = @ \ {a}] ELSE quotes
    /\ UNCHANGED <<registry, verification, restricting, source_cap, committee, proposals,
                   enrollment, signing>>

\* storage.rs check_source_asset.
check_source_asset(s, a) == restricting /\ s \in DOMAIN claims => a \in claims[s]

register_submission_key(s, k) ==
    /\ s \in registered
    /\ signing_key' = [signing_key EXCEPT ![s] = k]
    /\ UNCHANGED <<registry, verification, claims, restricting, source_cap, committee,
                   proposals, enrollment, nonce, taken, quotes>>

\* submit_price_with_proof: anyone presents a price that key k signed for the
\* source under nonce n.  A refused proof changes nothing.
submit_price_with_proof(s, a, k, n) ==
    /\ s \in registered
    /\ check_source_asset(s, a)
    /\ n > nonce[s]
    /\ signing_key[s] = k
    /\ nonce' = [nonce EXCEPT ![s] = n]
    /\ taken' = [taken EXCEPT ![s] = Append(@, n)]
    /\ quotes' = [quotes EXCEPT ![s] = @ \cup {a}]
    /\ UNCHANGED <<registry, verification, claims, restricting, source_cap, committee,
                   proposals, enrollment, signing_key>>

-----------------------------------------------------------------------------

AdmissionCalls ==
    \/ \E s \in Sources : \/ add_source(s)
                          \/ \E assets \in SUBSET Priced : add_source_with_assets(s, assets)
    \/ \E s \in Applicants : enroll_source(s) \/ submit_source_evidence(s) \/ activate_source(s)
    \/ \E n \in SourceCaps : set_max_sources(n)

GovernanceCalls ==
    \/ \E c \in Committees : set_source_governance(c)
    \/ \E x \in committee.approvers :
          \/ \E s \in Candidates : propose_source(x, s)
          \/ \E id \in DOMAIN proposals : approve_source(x, id)

DepartureCalls ==
    \/ \E s \in Sources : remove_source(s) \/ prune_source(s)
    \/ \E gone \in SUBSET Sources : remove_sources(gone)

SourceCalls ==
    \/ \E s, n \in Sources : rotate_source_key(s, n)
    \/ \E s \in Verifiable : set_source_verification(s)
    \/ \E s \in Sources, a \in Priced : add_source_asset(s, a) \/ remove_source_asset(s, a)

SigningCalls ==
    \E s \in Signers, k \in SigningKeys :
        \/ register_submission_key(s, k)
        \/ \E a \in Priced, n \in 1..MaxNonce : submit_price_with_proof(s, a, k, n)

Next == AdmissionCalls \/ GovernanceCalls \/ DepartureCalls \/ SourceCalls \/ SigningCalls

Spec == Init /\ [][Next]_svars

-----------------------------------------------------------------------------
(* Properties *)

\* The storage entries have their shape.
TypeOK ==
    /\ registered \subseteq Sources /\ roster \in Seq(Sources) /\ named \subseteq Sources
    /\ DOMAIN claims \subseteq Sources /\ \A s \in DOMAIN claims : claims[s] \subseteq Priced
    /\ nonce \in [Sources -> 0..MaxNonce]

\* Whichever doors sources enter and leave by, the membership flag, the list
\* aggregation walks and the names agree, no source is listed (and so
\* weighed) twice, and the two copies of a verification never part.
RegistryExact ==
    /\ ToSet(roster) = registered /\ IsInjective(roster)
    /\ named = registered
    /\ verified_map = verified_key

\* signed_submission.rs: a nonce "must be strictly greater than the source's
\* last accepted nonce".  A signed price is taken once, also when the source
\* is removed or rotated and registered again, with the same key, in between.
ProofsUsedOnce ==
    \A s \in Sources : \A i, j \in DOMAIN taken[s] : i < j => taken[s][i] < taken[s][j]

=============================================================================
