----------------------------- MODULE MCStartup -----------------------------
(* An instance of Startup for TLC: a rolling upgrade. *)
EXTENDS Startup

CONSTANTS old, new1, new2

\* One build from before slack_outbox, two with both files.
BuildFiles == [g \in Gateways |-> IF g = old THEN 1 ELSE 2]
=============================================================================
