------------------------- MODULE MCAuthorizeService -------------------------
(* Instances of AuthorizeService for TLC: which policy says what of a key. *)
EXTENDS AuthorizeRefinement, Evidence, TLC

\* One key, one slot per key value: every slot asks about the same intent.
OneKey == CHOOSE k \in Keys : TRUE
SameKey == [r \in Requests |-> OneKey]

AlwaysGated == [p \in Policies |-> [k \in Keys |-> "require_approval"]]
AlwaysAllowed == [p \in Policies |-> [k \in Keys |-> "allow"]]
AllRoles == [p \in Policies |-> [k \in Keys |-> TRUE]]

CONSTANTS pGated, pAllow, pDeny

\* The operator moves between a policy that gates, one that allows and one
\* that denies.
MixedVerdicts == [p \in Policies |-> [k \in Keys |->
    CASE p = pGated -> "require_approval" [] p = pAllow -> "allow" [] OTHER -> "deny"]]

\* Full evidence with every call, and a TTL in every rule.
AllPlans == [k \in Keys |-> TRUE]
AllDiffs == [t \in Stamps |-> TRUE]
GatesByVerdict == [p \in Policies |-> [k \in Keys |-> VerdictOf[p][k] = "require_approval"]]

RequestSymmetry == Permutations(Requests)
=============================================================================
