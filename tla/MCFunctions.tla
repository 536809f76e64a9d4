---------------------------- MODULE MCFunctions ----------------------------
(* The two functions of the gateway that decide by calculation, nextAttempt *)
(* and policy.Evaluate, side by side: a behaviour is about one of them.     *)
EXTENDS Backoff

CONSTANTS Values, Named, Roles, MaxRules, Any, None

\* A field that is left out is told apart from both truth values.
ASSUME NoneAssumption == None \notin BOOLEAN

VARIABLES policy, input, decision

P == INSTANCE Policy

policyVars == <<policy, input, decision>>

FunctionsInit ==
    \/ Init /\ policy = None /\ input = None /\ decision = None
    \/ P!Init /\ attempts = MaxFailures /\ wait = Zero /\ previous = Zero

FunctionsNext ==
    \/ Next /\ UNCHANGED policyVars
    \/ policy # None /\ P!Next /\ UNCHANGED backoffVars

FunctionsSpec == FunctionsInit /\ [][FunctionsNext]_<<backoffVars, policyVars>>

(* Policy says it of the rule that governs a call.                          *)
FirstMatchDecides == P!FirstMatchDecides
=============================================================================
