------------------------------- MODULE Policy -------------------------------
(***************************************************************************)
(* internal/policy/engine.go: Evaluate over one policy file and one input. *)
(* It is the function behind VerdictOf and HasRole of the other modules.   *)
(* TTL, risk and reason are carried along like the role and left out.      *)
(***************************************************************************)
EXTENDS Naturals, Sequences, FiniteSetsExt

CONSTANTS
    Values,    \* what the action, resource or env of an input may be
    Named,     \* ... and what a match may name
    Roles,     \* aws_role_arn
    MaxRules,  \* bound of the model: rules of a policy
    Any,       \* the empty string in a match: any value
    None       \* a field the YAML leaves out (nil, or the empty role)

Fields == {"action", "resource", "env"}
Optional(S) == S \cup {None}

Inputs == [Fields -> Values]
Rule == [match : [Fields -> Named \cup {Any}],
         require_approval : Optional(BOOLEAN), deny : Optional(BOOLEAN),
         role : Optional(Roles)]
PolicyFile == [require_approval : BOOLEAN, deny : BOOLEAN,
               rules : UNION {[1..n -> Rule] : n \in 0..MaxRules}]
Decision == [verdict : {"allow", "deny", "require_approval"},
             require_approval : BOOLEAN, role : Optional(Roles), rule : 0..MaxRules]

VARIABLES
    policy,    \* the parsed file
    input,     \* the action, resource and env of the call
    decision   \* what Evaluate returned, None before

policyVars == <<policy, input, decision>>

-----------------------------------------------------------------------------
matchRule(match, in) == \A f \in Fields : match[f] = Any \/ match[f] = in[f]

Matching(p, in) == {i \in DOMAIN p.rules : matchRule(p.rules[i].match, in)}

(* The decision from the defaults alone, and a rule's effect on it.        *)
FromDefaults(p) ==
    [verdict |-> IF p.deny THEN "deny" ELSE "allow",
     require_approval |-> p.require_approval, role |-> None, rule |-> 0]

EffectOnVerdict(verdict, deny) ==
    CASE deny = None -> verdict
      [] deny = TRUE -> "deny"
      [] deny = FALSE -> IF verdict = "deny" THEN "allow" ELSE verdict

Apply(d, i, rule) ==
    [d EXCEPT !.verdict = EffectOnVerdict(@, rule.deny),
              !.require_approval = IF rule.require_approval # None
                                   THEN rule.require_approval ELSE @,
              !.role = rule.role,
              !.rule = i]

(* Both returns end with the same adjustment of the verdict.               *)
Settle(d) ==
    IF d.verdict = "deny" THEN d
    ELSE [d EXCEPT !.verdict = IF d.require_approval THEN "require_approval" ELSE "allow"]

\* Seeded fault: the loop goes on after a match, so the last one decides.
LastMatch(p, in) == Max(Matching(p, in))
FirstMatch(p, in) == Min(Matching(p, in))

Evaluate(p, in) ==
    IF Matching(p, in) = {} THEN Settle(FromDefaults(p))
    ELSE LET i == FirstMatch(p, in) IN Settle(Apply(FromDefaults(p), i, p.rules[i]))

-----------------------------------------------------------------------------
Init == policy \in PolicyFile /\ input \in Inputs /\ decision = None

Decide ==
    /\ decision = None
    /\ decision' = Evaluate(policy, input)
    /\ UNCHANGED <<policy, input>>

Next == Decide

Spec == Init /\ [][Next]_policyVars

-----------------------------------------------------------------------------
Decided == decision # None

(* What decides: the rule that matches while no rule before it does, or    *)
(* the defaults.  Its deny wins over its approval, whichever of the two it *)
(* leaves to the defaults, and "deny: false" lifts a default denial.       *)
Governs(rule, i) ==
    /\ matchRule(rule.match, input)
    /\ \A j \in 1..(i - 1) : ~matchRule(policy.rules[j].match, input)
Says(field, default) == IF field = None THEN default ELSE field
VerdictFrom(deny, approval) ==
    IF deny THEN "deny" ELSE IF approval THEN "require_approval" ELSE "allow"

FirstMatchDecides ==
    Decided =>
        \/ \E i \in DOMAIN policy.rules :
            LET rule == policy.rules[i] IN
            /\ Governs(rule, i)
            /\ decision.rule = i
            /\ decision.role = rule.role
            /\ decision.verdict = VerdictFrom(Says(rule.deny, policy.deny),
                                      Says(rule.require_approval, policy.require_approval))
        \/ /\ \A i \in DOMAIN policy.rules : ~matchRule(policy.rules[i].match, input)
           /\ decision.rule = 0 /\ decision.role = None
           /\ decision.verdict = VerdictFrom(policy.deny, policy.require_approval)

=============================================================================
