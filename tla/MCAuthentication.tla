-------------------------- MODULE MCAuthentication --------------------------
(* An instance of Authentication for TLC. *)
EXTENDS Authentication

CONSTANTS k1, k2, dev

\* What tokens say of the jobs of one workflow: one job; the same job by the
\* claims that stand in for the preferred ones; another job of the same run,
\* bound to an environment; another run; and nothing about the repository.
Preferred ==
    [sub |-> "repo:o/r:ref:main", run_id |-> "1", sha |-> "c0ffee",
     repository |-> "o/r", owner_and_name |-> "o/r", workflow_ref |-> "w.yml@main",
     job_workflow_ref |-> "lib.yml@v1", workflow |-> "w"]
StandIns ==
    [Preferred EXCEPT !.repository = "", !.workflow_ref = "", !.job_workflow_ref = "w.yml@main"]
OtherJob == [Preferred EXCEPT !.sub = "repo:o/r:environment:prod"]
OtherRun == [Preferred EXCEPT !.run_id = "2"]
Unnamed == [Preferred EXCEPT !.repository = "", !.owner_and_name = ""]

\* A job asks again with a token under the next key; one token is not genuine.
Token(kid, genuine, claims) == [kid |-> kid, genuine |-> genuine, claims |-> claims]
SentTokens ==
    {Token(k1, TRUE, Preferred), Token(k2, TRUE, StandIns), Token(k1, TRUE, OtherJob),
     Token(k2, TRUE, OtherRun), Token(k2, TRUE, Unnamed), Token(k1, FALSE, Preferred), dev}

\* The same thing asked twice, something else, and a body without env.
Plain == [action |-> "deploy", resource |-> "stack", env |-> "prod", intent |-> "absent",
          plan_digest |-> "", refs |-> "", request_id |-> "", diff_url |-> "", region |-> ""]
SentBodies ==
    {Plain, [Plain EXCEPT !.intent = "{}", !.diff_url = "https://d", !.region = "eu-west-1"],
     [Plain EXCEPT !.plan_digest = "sha256:1"], [Plain EXCEPT !.env = ""], Null}
=============================================================================
