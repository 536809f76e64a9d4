--------------------------- MODULE Authentication ---------------------------
(***************************************************************************)
(* From the bearer token of a call to the idempotency key it acts under:   *)
(* internal/auth, the Authorize handler, and ComputeIdemKey.  Calls run    *)
(* concurrently and share the cache of the issuer's keys, which a mutex    *)
(* guards except while the key set is fetched; the issuer rotates its      *)
(* keys, and a token may expire while its call is on the way.              *)
(*                                                                         *)
(* The issuer is external: a key identifier stands for one key for ever.   *)
(* Nothing is assumed of the claims its tokens carry.                      *)
(***************************************************************************)
EXTENDS Naturals

CONSTANTS
    Calls,     \* slots for POST /v1/authorize; a slot is used again
    Kids,      \* key identifiers of the issuer
    Tokens,    \* bearer tokens that are sent
    DevToken,  \* RELIA_DEV_TOKEN
    Bodies,    \* bodies that are sent; Null is one that is not JSON
    Null

Claim == {"sub", "repository", "owner_and_name", "workflow_ref", "job_workflow_ref",
          "workflow", "run_id", "sha"}
Field == {"action", "resource", "env", "intent", "plan_digest", "refs", "request_id",
          "diff_url", "region"}

ASSUME TokensAssumption ==
    Tokens \subseteq [kid : Kids, genuine : BOOLEAN, claims : [Claim -> STRING]] \cup {DevToken}
ASSUME BodiesAssumption ==
    \A body \in Bodies \ {Null} : DOMAIN body = Field

VARIABLES
    published,  \* keys in the issuer's key set
    known,      \* keys that have been in it
    cache,      \* a.keys
    mu,         \* who holds a.mu
    calls       \* each call: where it is and its local variables

vars == <<published, known, cache, mu, calls>>

Steps == {"idle", "lookup", "locked", "fetch", "merge", "merging", "verify", "done"}
Answers == {"none", "accepted", "unauthorized", "bad request"}

NoCall == [step |-> "idle", token |-> Null, body |-> Null, passed |-> FALSE,
           expired |-> FALSE, failed |-> FALSE, fetched |-> {}, answer |-> "none",
           key |-> Null]

Goto(c, from, to) == calls[c].step = from /\ calls' = [calls EXCEPT ![c].step = to]
Answered(call, answer) == [call EXCEPT !.step = "done", !.fetched = {}, !.answer = answer]
BadRequest == [NoCall EXCEPT !.step = "done", !.answer = "bad request"]

-----------------------------------------------------------------------------
(* Claims and key.  AuthenticateBearer wants every claim it passes on; the *)
(* repository and the workflow have fallbacks.                             *)
FirstNonEmpty(value, other) == IF value # "" THEN value ELSE other

Actor(token) ==
    IF token = DevToken
    THEN [iss |-> "relia-dev", sub |-> "dev", repo |-> "dev/repo", workflow |-> "dev",
          run_id |-> "dev", sha |-> "dev"]
    ELSE LET claims == token.claims IN
         [iss |-> "github", sub |-> claims.sub,
          repo |-> FirstNonEmpty(claims.repository, claims.owner_and_name),
          workflow |-> FirstNonEmpty(FirstNonEmpty(claims.workflow_ref, claims.job_workflow_ref),
                                     claims.workflow),
          run_id |-> claims.run_id, sha |-> claims.sha]

Complete(actor) == \A name \in DOMAIN actor : actor[name] # ""
Genuine(token) == token.genuine /\ Complete(Actor(token))

(* ComputeIdemKey: the digest of what is asked and by whom, so the record  *)
(* of both.  A missing intent counts as an empty one; the diff URL is no   *)
(* part of it, nor is the AWS region the broker will be called in.         *)
Uncounted == {"diff_url", "region"}
Askable(body) == \A name \in {"action", "resource", "env"} : body[name] # ""
Asked(body) ==
    [name \in Field \ Uncounted |->
        IF name = "intent" /\ body.intent = "absent" THEN "{}" ELSE body[name]]

\* Seeded fault: the payload names the commit, not the run.
KeyOfCommit(token, body) ==
    [actor |-> [Actor(token) EXCEPT !.run_id = ""], request |-> Asked(body)]
ComputeIdemKey(token, body) == [actor |-> Actor(token), request |-> Asked(body)]

-----------------------------------------------------------------------------
Init ==
    /\ published \in {{k} : k \in Kids}
    /\ known = published
    /\ cache = {}
    /\ mu = Null
    /\ calls = [c \in Calls |-> NoCall]

(* Where Authenticate begins: the dev token needs no key.                  *)
FirstStep(token) == IF token = DevToken THEN "verify" ELSE "lookup"

Arrive(c) ==
    /\ calls[c].step \in {"idle", "done"}
    /\ \E token \in Tokens :
        /\ token # DevToken => (token.genuine => token.kid \in known)
        /\ calls' = [calls EXCEPT ![c] =
                        [NoCall EXCEPT !.step = FirstStep(token), !.token = token]]
    /\ UNCHANGED <<published, known, cache, mu>>

(* keyForKID: a.mu.Lock, twice.                                            *)
Lock(c) ==
    /\ mu = Null /\ mu' = c
    /\ Goto(c, "lookup", "locked") \/ Goto(c, "merge", "merging")
    /\ UNCHANGED <<published, known, cache>>

Hit(c) ==
    /\ Goto(c, "locked", "verify")
    /\ calls[c].token.kid \in cache
    /\ mu' = Null
    /\ UNCHANGED <<published, known, cache>>

Miss(c) ==
    /\ Goto(c, "locked", "fetch")
    /\ calls[c].token.kid \notin cache
    /\ mu' = Null
    /\ UNCHANGED <<published, known, cache>>

(* fetchKeys: the answer is the key set as it was when the issuer gave it. *)
Fetch(c) ==
    /\ calls[c].step = "fetch" /\ published # {}
    /\ calls' = [calls EXCEPT ![c].step = "merge", ![c].fetched = published]
    /\ UNCHANGED <<published, known, cache, mu>>

(* No answer within five seconds, one that does not decode, or no usable   *)
(* key in it.                                                              *)
FetchFail(c) ==
    /\ calls[c].step = "fetch"
    /\ calls' = [calls EXCEPT ![c] = [Answered(@, "unauthorized") EXCEPT !.failed = TRUE]]
    /\ UNCHANGED <<published, known, cache, mu>>

\* Seeded fault: the cache is replaced by what was fetched.
Replaced(keys, fetched) == fetched
\* Seeded fault: the key set is fetched once.
FirstOnly(keys, fetched) == IF keys = {} THEN fetched ELSE keys
Merged(keys, fetched) == keys \cup fetched

\* Seeded fault: the return without a key leaves the mutex locked.
UnlockedIf(found) == IF found THEN Null ELSE mu
Unlocked(found) == Null

Merge(c) ==
    /\ calls[c].step = "merging"
    /\ cache' = Merged(cache, calls[c].fetched)
    /\ mu' = Unlocked(calls[c].token.kid \in cache')
    /\ calls' = [calls EXCEPT ![c] =
            IF @.token.kid \in cache'
            THEN [calls[c] EXCEPT !.step = "verify", !.fetched = {}]
            ELSE Answered(@, "unauthorized")]
    /\ UNCHANGED <<published, known>>

(* The signature and the times are checked; a token runs out at any time.  *)
\* Seeded fault: an answer of its own for a token that has run out.
DeniedExpired(call, expired) ==
    Answered([call EXCEPT !.expired = expired], IF expired THEN "expired" ELSE "unauthorized")
Refused(call, expired) == Answered([call EXCEPT !.expired = expired], "unauthorized")

Check(c, expired) ==
    /\ calls[c].step = "verify" /\ calls[c].token # DevToken
    /\ expired \/ ~Genuine(calls[c].token)
    /\ calls' = [calls EXCEPT ![c] = Refused(@, expired)]
    /\ UNCHANGED <<published, known, cache, mu>>

Passes(c) == calls[c].step = "verify" /\ (calls[c].token # DevToken => Genuine(calls[c].token))

(* Authorize authenticates twice: before it reads the body ...             *)
ReadBody(c) ==
    /\ Passes(c) /\ ~calls[c].passed
    /\ \E body \in Bodies :
        calls' = [calls EXCEPT ![c] =
            IF body = Null THEN BadRequest
            ELSE [calls[c] EXCEPT !.step = FirstStep(calls[c].token), !.body = body, !.passed = TRUE]]
    /\ UNCHANGED <<published, known, cache, mu>>

(* ... and again for the claims the key is made of.                        *)
MakeKey(c) ==
    LET call == calls[c] IN
    /\ Passes(c) /\ call.passed
    /\ calls' = [calls EXCEPT ![c] =
            IF ~Askable(call.body) THEN BadRequest
            ELSE [Answered(call, "accepted") EXCEPT !.key = ComputeIdemKey(call.token, call.body)]]
    /\ UNCHANGED <<published, known, cache, mu>>

-----------------------------------------------------------------------------
(* The issuer adds a key, or withdraws one.                                *)
Rotate ==
    /\ \/ \E k \in Kids \ known : published' = published \cup {k} /\ known' = known \cup {k}
       \/ \E k \in published : published' = published \ {k} /\ UNCHANGED known
    /\ UNCHANGED <<cache, mu, calls>>

Restart ==
    /\ cache' = {} /\ mu' = Null
    /\ calls' = [c \in Calls |-> IF calls[c].step = "done" THEN calls[c] ELSE NoCall]
    /\ UNCHANGED <<published, known>>

(* What a call does without the issuer.                                    *)
Local(c) ==
    \/ Hit(c) \/ Miss(c) \/ Merge(c)
    \/ \E expired \in BOOLEAN : Check(c, expired)
    \/ ReadBody(c) \/ MakeKey(c)

Next ==
    \/ \E c \in Calls : Arrive(c) \/ Lock(c) \/ Local(c) \/ Fetch(c) \/ FetchFail(c)
    \/ Rotate
    \/ Restart

Spec == Init /\ [][Next]_vars

(* A call that has passed its first check waits for the client's body.     *)
AwaitsBody(c) == Passes(c) /\ ~calls[c].passed

(* Goroutines go on, and a sync.Mutex is handed to a waiter that has       *)
(* waited for a millisecond.  Nothing is assumed of the issuer, nor of a   *)
(* client, which may take for ever to send its body.                       *)
FairSpec ==
    Spec /\ \A c \in Calls : WF_vars(~AwaitsBody(c) /\ Local(c)) /\ SF_vars(Lock(c))

-----------------------------------------------------------------------------
IdemKeys == {ComputeIdemKey(token, body) : token \in Tokens, body \in Bodies \ {Null}}
Call == [step : Steps, token : Tokens \cup {Null}, body : Bodies \cup {Null},
         passed : BOOLEAN, expired : BOOLEAN, failed : BOOLEAN,
         fetched : SUBSET Kids, answer : Answers,
         key : IdemKeys \cup {Null}]

TypeOK ==
    /\ published \subseteq known /\ known \subseteq Kids
    /\ cache \subseteq known
    /\ mu \in Calls \cup {Null}
    /\ calls \in [Calls -> Call]

(* A call that was let in once is not turned away when its handler asks    *)
(* again, whatever other calls fetched and the issuer withdrew in between, *)
(* unless its token has run out.                                           *)
SecondAgrees ==
    \A c \in Calls :
        calls[c].answer = "unauthorized" /\ calls[c].passed => calls[c].expired

(* Rotation is followed without a restart: a token the issuer stands by,   *)
(* under a key it still publishes, is refused only if asking the issuer    *)
(* failed.                                                                 *)
RotationIsFollowed ==
    \A c \in Calls :
        /\ calls[c].answer = "unauthorized" /\ calls[c].token # DevToken
        /\ Genuine(calls[c].token)
        /\ ~calls[c].expired /\ ~calls[c].failed
        => calls[c].token.kid \notin published

(* A call whose key is cached is answered, or waits for nothing but its    *)
(* own body, though the issuer never answers the calls that are waiting    *)
(* for it.                                                                 *)
CachedIsAnswered ==
    \A c \in Calls :
        (calls[c].step = "lookup" /\ calls[c].token.kid \in cache)
            ~> (calls[c].step \in {"idle", "done"} \/ AwaitsBody(c))

(* What a token says of where it comes from, by the claim that is          *)
(* preferred or by one that stands in for it.                              *)
Repository(claims) ==
    IF claims.repository # "" THEN claims.repository ELSE claims.owner_and_name
Workflow(claims) ==
    IF claims.workflow_ref # "" THEN claims.workflow_ref
    ELSE IF claims.job_workflow_ref # "" THEN claims.job_workflow_ref ELSE claims.workflow

(* Two accepted calls share a key exactly if one repeats the other: the    *)
(* same subject, in the same run of a workflow, with whatever token it has *)
(* by now and however that names repository and workflow, asks for the     *)
(* same action.  Another diff URL or another AWS region is no other        *)
(* request.                                                                *)
SameWorkload(t, u) ==
    IF DevToken \in {t, u} THEN t = u
    ELSE /\ \A name \in {"sub", "run_id", "sha"} : t.claims[name] = u.claims[name]
         /\ Repository(t.claims) = Repository(u.claims)
         /\ Workflow(t.claims) = Workflow(u.claims)
Repeats(b1, b2) ==
    /\ \A name \in {"action", "resource", "env", "plan_digest", "refs", "request_id"} :
        b1[name] = b2[name]
    /\ b1.intent = b2.intent \/ {b1.intent, b2.intent} = {"absent", "{}"}
RetriesShareTheKey ==
    \A c, d \in Calls :
        calls[c].answer = "accepted" /\ calls[d].answer = "accepted" =>
            (calls[c].key = calls[d].key <=>
                /\ SameWorkload(calls[c].token, calls[d].token)
                /\ Repeats(calls[c].body, calls[d].body))

=============================================================================
