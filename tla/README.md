# A TLA+ model of the Relia gateway

Relia hands short-lived cloud credentials to automated callers. A policy file
says for each request whether it is allowed, denied or needs a human; every
decision is recorded in a chain of signed receipts. These modules model the
gateway's own logic: the authorize service over its SQLite or Postgres ledger,
the Slack outbox that asks humans, the clicks that answer, the backoff of the
outbox, the policy engine, the jobs of the GitHub action, what a reader of a
receipt is told, the way from a bearer token to an idempotency key, and the start of
several gateways on one database. TLC checks them on small instances; TLAPS proves every
invariant and action property the passing runs check, and the refinement of the
abstract lifecycle, for every value of the constants. Liveness is left to TLC.

Paths below are relative to the root of the repository.

## 1. Inventory

| Component | State | Operations | Interacts with |
|---|---|---|---|
| Authorize service, `internal/api/authorize_service.go` | none of its own; works on the ledger | `Authorize` (first call, existing answer, `issueApprovedReady`, `retryIssuing`, lost race), `Approve`, `GetApproval` | ledger transactions, policy file, broker, outbox (inline) |
| Ledger, `internal/ledger` and `sqlstore` | tables keys, policy_versions, contexts, decisions, receipts, approvals, idempotency_keys, slack_outbox | `WithTx`, `Put…` upserts, `Get…` | everyone |
| Receipts, `internal/ledger/receipt.go` | none | `MakeReceipt`: content address and signature | service |
| Slack outbox, `internal/slack/outbox.go` | rows of slack_outbox; a loop variable per processor | `ProcessOutboxDue`, `RunOutboxWorker`, `nextAttempt` | approvals table, Slack |
| Slack callbacks, `internal/slack/handler.go` | none | `HandleInteractions` | `Approve` |
| Policy engine, `internal/policy` | the file on disk | `LoadPolicy`, `Evaluate` | service |
| Gateway process, `cmd/relia-gateway/main.go` | wiring, the signing key of the process | `newServer`: open, migrate, choose the key, listen; restart | all of the above |
| HTTP layer, `internal/api/handlers.go`, `router.go` | none | routes; authenticates a call before and after it reads the body | authentication, service |
| Store variants, `memory_store.go`, `pgstore` | the same tables | the same operations, other guarantees | service |
| Migrator, `internal/ledger/migrate.go` | schema_migrations | claim a version, run its file, commit | database, other gateways that start |
| Authentication, `internal/auth` | cached JWKS and its mutex | validate a token, fetch the key set | HTTP layer, the issuer |
| Idempotency key, `internal/api/authorize.go` | none | `ComputeIdemKey` over claims and request | authentication, service |
| Contexts and decisions, `internal/context`, `internal/decision` | their tables | `BuildContext`, `BuildDecision` | service, packs, grading |
| Grading and packs, `internal/grade`, `internal/pack` | none | pure functions of stored rows | CLI, HTTP layer |
| Credential broker, `internal/aws` | external | hand out credentials | service |
| Client action, `.github/actions/relia-authorize` | a script with a polling loop | post, poll the approval, post again | HTTP layer |

What is hard, and what makes each part correct:

- **Service.** A request reads the row of its key, then evaluates, then writes
  in a transaction, then calls the broker, then writes again. Between any two of
  these another request, a click, a policy edit, a failing read or a restart can
  come. Correct means: the row and the receipts agree; the broker is called only
  with durable authority; one approval opens one issuance; credentials leave only
  with a record; answers can be followed up; an approved action is issued in the
  end.
- **Ledger.** Upserts that keep the old row, overwrite it or fail decide who wins
  a race. `sqlstore` reports a failing read as "no row", so a decided key can look
  new.
- **Outbox.** The check "already posted?", the post, and the two writes after it
  are four separate steps over rows two processors may hold. Correct means: no
  approval is silently lost, repetitions are bounded, every message is shown in
  the end, and what the outbox writes to the approvals table does no harm.
- **Postgres.** `pgstore` begins transactions of the default level, READ
  COMMITTED: a row read in a transaction may be overwritten before the
  transaction writes it back. Bodies are kept in JSONB columns.
- **Grading.** The grade of one receipt is computed from its body and from records
  written by an earlier step of the chain.
- **Backoff.** A shift of a 64-bit duration.
- **Client action.** It polls one table and is served from another, and its
  connection may break while the gateway works on. Correct means: a job that polled
  an approval is not asked for another, and is turned away only in error.
- **Packs.** A pack joins the receipt as signed with rows found through it and with
  the approval as it is now. Correct means: every row is there, and they agree.
- **Start.** Gateways of different builds start on one database at the same time and
  may die anywhere; the key a process signs with is configured or drawn. Correct
  means: a migration takes effect once, nobody serves without its tables, all come
  up, and what readers of the key table say of a stored receipt depends neither on who
  says it nor when.
- **Authentication.** Calls share a cache they leave unlocked while one of them asks
  the issuer, the issuer rotates its keys, and the handler authenticates twice.
  Correct means: rotation is followed, nobody is let in once and turned away the
  second time, nobody waits for the issuer without need, and a repeated call gets
  the key of the first.
- **Policy.** Defaults, optional fields and first-match order interact.

`PROJECT.json` lists these as hazards, each at its line.

## 2. Modules

| Module | Models | Lines of code it stands for |
|---|---|---|
| `Ledger` | row types, conflict clauses, receipts, contexts and decisions as content-addressed records | `store.go`, `sqlstore.go`, `receipt.go`, the two `builder.go` |
| `AuthorizeService` | calls, clicks, policy edits, faults, restarts | `authorize_service.go`, parts of `handlers.go`, `loader.go` |
| `ApprovalLifecycle` | abstract: what is promised for an action that needs a human | – |
| `AuthorizeRefinement` | the mapping from the service to the lifecycle | status column, broker calls |
| `AuthorizePostgres` | the same service over READ COMMITTED transactions | `pgstore.go`, the transactions of `authorize_service.go` |
| `AuthorizeClient` | the jobs that post, poll and post again, over the service | `authorize.sh`, the approvals handler |
| `Evidence` | verification, grade and pack of a stored receipt | `grade.go`, `verify.go`, the verify and pack handlers, `summary.go` |
| `SlackOutbox` | `ProcessOutboxDue` and the worker | `outbox.go`, `client.go` |
| `Gateway` | service, outbox, worker and clicks over shared tables | `main.go` |
| `Backoff` | `nextAttempt` on 64-bit integers | `outbox.go:117-129` |
| `Policy` | `Evaluate` | `engine.go`, `types.go` |
| `Startup` | gateways that start, migrate, choose a key, sign, die | `migrate.go`, `main.go`, `putSigningKey`, the verify page |
| `Authentication` | calls from the token to the key | `internal/auth`, `handlers.go`, `api/authorize.go` |
| `AuthorizeService_proofs`, `AuthorizeGated_proofs`, `AuthorizeRecords_proofs`, `SlackOutbox_proofs`, `Gateway_proofs`, `Functions_proofs`, `Startup_proofs`, `Authentication_proofs` | theorems | – |
| `MCAuthorizeService`, `MCAuthorizeClient`, `MCAuthorizePostgres`, `MCSlackOutbox`, `MCGateway`, `MCStartup`, `MCAuthentication` | constants for TLC | – |
| `MCFunctions` | `Backoff` and `Policy` side by side, for one run | – |

`Gateway` extends `AuthorizeService` and instantiates `SlackOutbox` over the same
`approvals` and `outbox`; `Ledger` is below both. `AuthorizePostgres` extends
`AuthorizeService` and reuses its writes (`WriteIssuing`, `WriteIssued`,
`WriteDecision`) over rows read earlier; `AuthorizeClient` extends it and says when
a call starts. `Evidence` only reads. `Backoff` and `Policy` stand
alone: the first details the abstract "not due / due" of an outbox row, the second
is the function behind `VerdictOf` and `HasRole`. `Startup` and `Authentication`
share no variable with the others either: the first says which key a process of the
service signs with (`SignerKeys`, `keyRow`) and that its tables are there, the second
says where `KeyOf` comes from.

### How the service is modelled

`pc[r]` is where request `r` is, `work[r]` its local variables, `resp[r]` its
last answer. A transaction is one action: its first statement is a write, so
SQLite serialises the transactions and rolls a failing one back.

| Action | Code |
|---|---|
| `Start` | a call arrives; `created_at` is taken |
| `LookupNone`, `LookupExisting`, `LookupReady`, `LookupIssuing` | the lookup of the idempotency row and the path its status selects, with the checks before the next transaction |
| `Evaluate`, `EvaluateFail` | load and evaluate the policy; a missing role stops the call |
| `FirstCommit`, `FirstFail`, `Reread` | the first transaction; its failure; the answer taken from the winner's row |
| `StartInline`, `FinishInline` | the inline `ProcessOutboxDue` (its body is in `Gateway`) |
| `ReadyCommit`, `ReadyLost` | the transaction of `issueApprovedReady` with its status comparison |
| `Mint`, `MintFail`, `FinalCommit` | `finalizeIssuance`: the broker, then the record |
| `StorageFault` | a read reported as an error or a failed transaction |
| `Approve` | a decision from Slack, one transaction |
| `EditPolicy`, `Restart` | the operator; the process |

Reads of rows that never change once written (receipts, policy versions) are
merged into the step that uses them: nobody can tell when they happened.

A receipt identifier is modelled by the record of what the signed body says,
because the identifier is the digest of that body. `Stamps` stands for what makes
two bodies of one kind and key differ, the second they were made in (the request
id is part of the key; a context also differs by its diff URL): with one stamp
all receipts of a kind coincide, with two they may or may not. The rows of contexts
and decisions are the records of what their digests are taken over; a receipt names
both (`ContextOf`, `DecisionOf`).

### How Postgres is modelled

Of the four transactions three read a row and write it back. `ReadRow` and
`WriteRow` split those of `issueApprovedReady` and `finalizeIssuance`,
`ReadApproval`, `ReadApprovalRow` and `WriteClick` that of `Approve`; `rowRead`
and `click` hold what the open transactions have read, and any step of another
actor may come between. The writes of one transaction stay one step: they become
visible together at the commit, and no read of the same transaction follows them.
The first transaction of a call only writes, and its first row conflict makes it
wait for the other one as a whole. `Abort`, `AbortClick` and `PgRestart` undo
what is open. The steps of SQLite are those of Postgres where the write follows
its read at once, so what holds here also holds there.

### How the client is modelled

`stage[r]` is where the job of slot `r` is in the script. `Post` starts a call,
`Poll` reads the answer to the first post and the approval it names, and decides
whether the job ends or posts again; what the second answer says no longer moves
it. `HangUp` is a lost connection: the gateway goes on with the call. A job is run
again at any time, and as `run_id` and `sha` are the same it asks about the same key.
The jobs restrict nothing but when calls start, and since they may be cut off
anywhere, every behaviour of the service occurs under them.

### How evidence is modelled

`Missing` and `Grade` are `grade.Evaluate` over the fields a body and its records
carry: the approval (in the body and in the decision), plan digest and diff URL
(in the context), role and TTL (in the grant, which only `finalizeIssuance`
writes). `VerifyGrade` grades after verification as the handlers do, `PackGrade`
without it as `BuildSummary` does. `PackApproval` is the approval a pack shows: the
row as it is when the pack is asked for. `TextBodies` says which store the bytes come
back from.

### How the outbox is modelled

`at[p]`, `batch[p]`, `current[p]` and `snapshot[p]` are the loop of processor `p`.
`List` reads the due rows, `Take` reads the approval of the next one, `Post` and
`PostFail` are the call to Slack (which may accept a message and still report an
error), `Record` writes the approval read in `Take` back with the message's
timestamp, `MarkSent` and `Backoff` write the listed row. A failed write of the
row ends the batch. `attempt_count` only feeds `nextAttempt`, so a row is just
due or not, `Elapse` makes it due, and `Backoff.tla` says how long that takes.

### How the start is modelled

`at[g]` is where process `g` is: down, in the loop of `Migrate`, in a transaction with
the version claimed, or with its file run, or up. `Claim` is the INSERT that tells by
its affected rows whether the version is new, `Skip` the case that it is not,
`RunStatements` and `Commit` the rest of the transaction. Other transactions see a
claim once it commits. `Locked` is what holds an INSERT up: on SQLite any other
writer, on Postgres only the same uncommitted version; SQLite reports it (`Busy`, the
start fails), Postgres waits. `Listen` chooses the key, `Sign` is any transaction of
the service: it puts the key row and stores a receipt. `VerifyKey` is the choice of
the verify handlers: the row `GetKey` hands out, or the key of their own process if it
hands out none, because there is none or because the read failed (the store makes no
difference). `Stop` is a start that fails or a process that dies, `Configure`
the operator who names a key file, which counts from the next start on. `Files` says
how many migration files each build carries: builds of one release line, where the
files of an older one are the first of a newer.

### How authentication is modelled

A slot of `calls` is one `POST /v1/authorize` with its local variables. `Arrive` is
the bearer that comes in, `Lock`, `Hit`, `Miss`, `Fetch`, `FetchFail` and `Merge` are
`keyForKID` step by step, with the mutex `mu` as a variable, `Check` is a token
that is refused, `ReadBody` and `MakeKey` the handler after the first and the second
authentication. What a call has fetched is its own until it merges it. A token is
the key it was signed with, its claims, any of which may be missing, and whether it is
genuine; it may run out at any `Check`. `ComputeIdemKey` is a digest, so a key is the
record of what goes into it: neither the diff URL nor the AWS region does (`Uncounted`). A key withdrawn by the issuer stays in the cache for the life of
the process; nothing in the repository promises otherwise.

## 3. Runs

All runs finish within the limits of a laptop (the largest takes two minutes).

| Run | Instance | Distinct states | Checks |
|---|---|---|---|
| `gated` | 1 key, 2 approval ids, 2 stamps, 1 gating policy, 2 jobs, Slack, failing reads, lost connections, fairness | 268,384 | `JobsTypeOK`, `ClearedIsNotAskedAgain`, `SingleIssuance`, `ApprovalMatchesStatus`, `DeniedGetsNothing`, `PackAgrees`, `ReferencesResolve`, refinement `LifecycleSpec`, liveness `ApprovedIsIssued` |
| `postgres` | Postgres; 1 key, 1 stamp, 3 policies (gate, allow, deny), 2 requests, 2 click transactions | 323,289 | `PgTypeOK`, `StatusMatchesReceipt`, `MintsAreAuthorized`, `CredentialsAreRecorded`, `AnswersResolve`, `BestGradeIsEarned`, `ChainsEnd` |
| `bodies` | Postgres; 1 allowed key, 1 request | violated | `StoredReceiptsVerify` |
| `grades` | 1 gated key, 1 request, full evidence | violated | `ApprovedEarnsBestGrade` |
| `outbox_live` | 2 approvals, inline call and worker, batches of 2, posts that fail, a crash, fairness | 510,260 | `OutboxTypeOK`, `QueuedOrShown`, `RepeatsBounded`, liveness `EventuallySent` |
| `outbox_twice` | 1 approval, no faults | violated | `PostedOnce` |
| `gateway` | 1 gated key, 2 requests, worker, clicks, faults, restarts | 894,734 | `StatusMatchesReceipt`, `MintsAreAuthorized`, `ApprovalIsAnnounced`, `MessagesAreBacked` |
| `gateway_clicks` | 1 request, worker, clicks, no faults | violated | `OneDecisionPerApproval` |
| `functions` | 128 failures; every policy of up to 2 rules, 2 values per field | 1,336,513 | `NeverPutOffTooLong`, `GrowsAtFirst`, `FirstMatchDecides` |
| `backoff_overflow` | 128 failures | violated | `WaitsAtLeastBase` |
| `startup` | 3 processes of 2 builds, SQLite and Postgres, 2 drawn keys and 1 configured, 2 faults, fairness | 111,922 | `TypeOK`, `AppliedOnce`, `ServesMigratedSchema`, `ConfiguredVerifies`, `VerdictStays`, liveness `EventuallyServes` |
| `auth` | 2 concurrent calls, 2 issuer keys, 7 tokens of two jobs and two runs, 5 bodies, rotation, restarts, fairness | 253,628 | `TypeOK`, `SecondAgrees`, `RotationIsFollowed`, `RetriesShareTheKey`, liveness `CachedIsAnswered` |

What the less obvious properties say:

- `SingleIssuance`, `ApprovalMatchesStatus`: for a key every policy gates there is
  at most one pending, one decision and one issuing receipt, and the approval a
  client polls never contradicts the row that issues. The comparison inside
  `ReadyCommit` and the UNIQUE constraint on `approvals.idem_key` carry this.
- `ClearedIsNotAskedAgain`: the script trusts the poll and takes the second answer
  as final; a request for approval there would fail the job though a human said yes. A
  denial does occur, in one way: the lookup of the row fails, the call evaluates as if it
  were the first, loses on the UNIQUE constraint and rereads a row that is approved or
  issuing, for which `handleExistingIdem` has no answer but "deny", "unsupported state"
  (`authorize_service.go:543`). The property says that there is no other way.
- `MintsAreAuthorized`: policy edits between approval and issuance do not matter,
  because the issuance is under the policy named in the receipt.
- `LifecycleSpec`: every step of the service is one step of the abstract lifecycle
  or none. `Grant` may repeat after `Record`: a call that took an issuance for
  dead may be granted credentials again after the first one recorded its own.
- `AnswersResolve`: no answer names a receipt that is not stored, and none reports
  a dangling reference.
- `BestGradeIsEarned`: an A in a pack, which verifies nothing itself, still means
  that the broker was called and that the call was authorized. With the three
  policies of `postgres` such receipts exist: those of allowed keys.
- `ReferencesResolve`: whatever pack handlers look up by the columns of a stored
  receipt is stored, though only the first transaction of a key writes those rows.
- `ChainsEnd`: who follows `supersedes` from any receipt comes to the receipt that
  opened the key: he never goes round, which is what the property states. Two receipts of one kind and second are
  one row; that a row is never its own predecessor is due to ON CONFLICT DO NOTHING
  (`postgres` has the single stamp that makes them meet).
- `PackAgrees`: the approval is read when the pack is asked for, the receipt was signed
  long before. Only `Approve`'s "already decided" check keeps the two together.
- `AppliedOnce`, `ServesMigratedSchema`: the first looks at what statements have taken
  effect, the second at a process that was told "not new" and serves.
- `ConfiguredVerifies`, `VerdictStays`: drawn and configured keys have different
  `key_id`s, the key table keeps its first row, and readers ask it before their own
  process. Without a configured key, what a later process draws is not the pair in the
  row of its `key_id`: what it signs does not verify with that row. A key read that fails
  is the exception to both: the reader falls back to the key of its own process, so one
  that runs on a drawn key calls a good receipt of the configured one invalid, and one
  that signed with a key the table does not hold calls its own receipts good (`Misled`).
- `SecondAgrees`: true because the cache only grows. `RotationIsFollowed`: true because
  an unknown key is always asked for.
- `CachedIsAnswered`: although nothing is assumed of the issuer, and up to the point
  where a call waits for the rest of its own body.
- `RetriesShareTheKey` relates answered calls to each other, in both directions, whatever
  their tokens claim: a repetition gets the key of the first, another subject, run, commit
  or request never does. A body that names another diff URL or another AWS region counts
  as a repetition.
- `GrowsAtFirst`: the wait is at least five seconds and never shrinks, over the first 31
  failures.
- `RepeatsBounded`: one post per processor and life of the process, where reads and
  writes work and Slack reports what it did; a message Slack accepts and reports as failed
  is posted again (`QueuedOrShown` covers that case). `QueuedOrShown`
  says the same of the outbox alone as `ApprovalIsAnnounced` of the composition,
  with batches of two.
- `ApprovalIsAnnounced`, `MessagesAreBacked`: in the composition, an approval is
  always queued or in the channel, and what is in the channel is backed by a
  stored pending receipt of the same key.

### Bounds

One key is enough for the service: no operation relates two keys (the UNIQUE
constraint is per key). Two requests give every race the code has, since each
race is between one request and what it read earlier; slots are reused, so a third
and later call come after an answer. Two approval ids let a second approval of
the same key be attempted. Two stamps let receipts differ or coincide. With three
policies they make the space too large, and there one stamp is used, which keeps
the case that receipts coincide, and reads do not fail: a request that finds no
row can hold its first transaction back for as long as it likes, which is what a
failing read leads to. Two click transactions let two decisions on one approval
overlap. `postgres` uses the symmetry of requests and of clicks, which only occur
as function arguments (it checks no liveness); no other run uses symmetry.

The outbox has two processors of different kinds and two rows, so a batch can be
left half done and two processors can hold the same row. `MaxCrashes` is
one: a crash at any point of either loop, and recovery from it; `Gateway` has
restarts without a bound. `MaxPosts` bounds the messages Slack accepts: it is
above the bound `RepeatsBounded` states, and only cuts off further repetition
elsewhere. Reads and writes of the outbox fail in `gateway` (`Unreliable`).
`WorkerLimit` is 2 (25 in the code) so that
the batch can be as large as the table; 1 in `Gateway`, where the single approval
makes it immaterial; no property depends on it. `MaxFailures` is twice the width of the integer: the wait
has been zero for long by then. Two rules are enough for `Policy`: which of two
matching rules decides, and the defaults; the fields of a rule take every
combination.

In `startup`, three processes of two builds are what `Migrate` can tell apart: two that
want the same version, one that wants fewer. `MaxFaults` is two, a second start cut
off after a first; `Busy` starts are not counted. Two drawn keys are two that differ.
In `auth` two calls give every race over the cache, since what a call holds is one
fetched set, and two keys one rotation in each direction. The tokens are those of a
job, of the same job through the claims that stand in for missing ones, of another job
of the same run (another subject), and of another run; one names no repository and
one is not genuine. The bodies repeat (with another diff URL, region and spelling of an
empty intent), differ, and lack a field.

`CHECK_DEADLOCK FALSE` is used for `Backoff` and `Policy` (`functions` and
`backoff_overflow`: a bounded counter and one evaluation). In the other instances the deadlock check is on.

### Fairness

`ApprovedIsIssued` assumes that a job which ended is run again (somebody re-runs it:
the script itself posts no more than twice, so one run of it alone need not get the
credentials), that jobs and calls go on, and that a job whose call died with the
gateway ends (`WF` per job); and that what the callers together try for ever
succeeds at some point, whoever tries: reading the row, the transaction of
`issueApprovedReady`, the broker, the last transaction (one `SF` each, over some
request). Faults, restarts and lost connections may recur without end. `SF` is
needed there because a restart or a fault disables the step. No fairness is assumed
of clicks, edits, restarts or lost connections.

`EventuallySent` assumes a worker that polls for ever (`RunOutboxWorker` is a
ticker loop), loops that go on, `next_attempt_at` passing, and `SF` on a post per
approval: Slack accepts a message that is tried for ever. The process may die on
the way. Failing reads and writes are left out of that run.

`EventuallyServes` assumes that a process goes on by itself and that whoever runs it
starts it again (`WF` per process, over all its steps). A start that fails with a busy
database costs nothing but a new one, and the other transaction ends. The database is
busy only because of other starts here: a serving process that writes for ever is not
modelled, and could keep an SQLite start from its lock.

`CachedIsAnswered` assumes that goroutines go on (`WF` per call, over the steps that
need nobody else) and that `sync.Mutex` is not unfair for ever (`SF` on `Lock`: in Go
a waiter is handed the lock after a millisecond). Nothing is assumed of `Fetch`, nor of
`ReadBody`: the server limits the time for the headers only (`main.go`,
`ReadHeaderTimeout`), so a client may take for ever to send its body.

### Seeded faults

Some definitions are preceded by a variant marked `Seeded fault`. Each is a
plausible mistake in the code at that place; put in place of the definition that
follows it, it makes TLC find a violation of the property listed for it under
`mutants` in `PROJECT.json`. They are evidence that a property depends on the
code, and no specification uses them.

## 4. Where code and documentation disagree

1. `outbox_twice`: the inline call and the worker both post one approval's
   message; `slack_msg_ts` is checked before the post and written after it. The
   blog (`docs/blog/slack-approvals-with-retries.md:47`) says retries are deduped.
2. `gateway_clicks`: `ProcessOutboxDue` writes back the approval it read before
   the post. A click in between is reset to `pending`, and the next click is
   decided again, with a second decision receipt. The same page, line 34, says
   repeated clicks append nothing. (This is why `SingleIssuance` is checked with
   clicks and calls but without the outbox.)
3. `bodies`: `pgstore` keeps the signed body in a JSONB column and reads it back as
   `body_json::text`. PostgreSQL stores the value, not the text, and renders it
   with its own key order and spacing, so `VerifyReceipt` digests other bytes than
   were signed: over Postgres no stored receipt verifies, and every verify page
   says grade F, while the pack, which takes the receipt for valid, may say A. The
   tests of `pgstore` use a mocked driver that returns what it is told to.
4. `grades`: the issuing and issued receipts of an approved action do not carry the
   approval (`authorize_service.go:681` and `:783`), while the decision requires
   one, so `grade.Evaluate` reports it missing: D at best. The documented rubric
   (`docs/blog/receipt-quality-grade.md:25`) asks for "approval (if required)".
5. `backoff_overflow`: the 32nd failure of a row shifts five seconds into the sign
   bit; the wait is negative, then zero, and the row is tried at every poll. The
   comment at `outbox.go:118` gives 5s up to a cap of 5m.

## 5. Proofs

The theorems hold for every set of keys, approval ids, stamps, policies, signing keys,
requests and click transactions, with or without failing reads; for every set of
processors, batch size and number of faults and crashes; for every set of gateways, any
builds and keys; for every set of concurrent calls, tokens and bodies; for any number of
failing posts; and for policies of any length.

| Module | Theorem | States |
|---|---|---|
| `AuthorizeService_proofs` | `TypeCorrect` | `Spec => []TypeOK` |
| | `StatusAlwaysMatches` | `Spec => []StatusMatchesReceipt` |
| | `MintsAlwaysAuthorized` | `Spec => []MintsAreAuthorized` |
| | `CredentialsAlwaysRecorded` | `Spec => []CredentialsAreRecorded` |
| `AuthorizeGated_proofs` | `ApprovalAlwaysMatches` | `Spec => []ApprovalMatchesStatus` |
| | `AlwaysSingleIssuance` | `Spec => []SingleIssuance` |
| | `ImplementsLifecycle` | `Spec => LifecycleSpec` |
| | `DeniedAlwaysGetsNothing` | `Spec => []DeniedGetsNothing` |
| | `JobsImplementService` | `JobsSpec => Spec` |
| | `JobsTypeCorrect` | `JobsSpec => []JobsTypeOK` |
| | `ClearedNeverAskedAgain` | `JobsSpec => []ClearedIsNotAskedAgain` |
| `AuthorizeRecords_proofs` | `ReferencesAlwaysResolve` | `Spec => []ReferencesResolve` |
| | `AnswersAlwaysResolve` | `Spec => []AnswersResolve` |
| | `ChainsAlwaysEnd` | `Spec => []ChainsEnd` |
| | `BestGradeAlwaysEarned` | `Spec => []BestGradeIsEarned` |
| | `PackAlwaysAgrees` | `Spec => []PackAgrees` |
| | `PgTypeCorrect` | `PgSpec => []PgTypeOK` |
| | `PgStatusAlwaysMatches`, `PgMintsAlwaysAuthorized`, `PgCredentialsAlwaysRecorded`, `PgAnswersAlwaysResolve`, `PgChainsAlwaysEnd`, `PgBestGradeAlwaysEarned` | the same six of `PgSpec` |
| `SlackOutbox_proofs` | `OutboxTypeCorrect` | `Spec => []OutboxTypeOK` |
| | `AlwaysQueuedOrShown` | `Spec => []QueuedOrShown` |
| | `RepeatsAlwaysBounded` | `Spec => []RepeatsBounded` |
| `Gateway_proofs` | `GatewayStatusMatches` | `GatewaySpec => []StatusMatchesReceipt` |
| | `GatewayMintsAuthorized` | `GatewaySpec => []MintsAreAuthorized` |
| | `ApprovalAlwaysAnnounced` | `GatewaySpec => []ApprovalIsAnnounced` |
| | `MessagesAlwaysBacked` | `GatewaySpec => []MessagesAreBacked` |
| `Functions_proofs` | `PutOffAlwaysBounded` | `Spec => []NeverPutOffTooLong` |
| | `AlwaysGrowsAtFirst` | `Spec => []GrowsAtFirst` |
| | `FirstMatchAlwaysDecides` | `P!Spec => []FirstMatchDecides` |
| `Startup_proofs` | `StartupTypeCorrect` | `Spec => []TypeOK` |
| | `AlwaysAppliedOnce` | `Spec => []AppliedOnce` |
| | `AlwaysServesMigrated` | `Spec => []ServesMigratedSchema` |
| | `ConfiguredAlwaysVerifies` | `Spec => []ConfiguredVerifies` |
| | `VerdictAlwaysStays` | `Spec => VerdictStays` |
| `Authentication_proofs` | `AuthTypeCorrect` | `Spec => []TypeOK` |
| | `SecondAlwaysAgrees` | `Spec => []SecondAgrees` |
| | `RotationAlwaysFollowed` | `Spec => []RotationIsFollowed` |
| | `RetriesAlwaysShareTheKey` | `Spec => []RetriesShareTheKey` |

Assumptions: the typing of `VerdictOf`, `HasRole`, `KeyOf`, the switches and the
bounds, and that `Null` is none of the values it stands in for. Besides:
`GatewayAssumption` says that Slack is configured (a gateway without it posts nothing
and has no worker) and, like `ProcessorsAssumption`, that processors are finitely many
(goroutines are), which `RepeatsBounded` needs to count them; `NoneAssumption`, that a
YAML field that is left out is neither true nor false. TLC evaluates all of them.

### The service

`TypeOK` alone is not inductive: that a step writes a well-typed receipt depends
on what its request holds. `WorkOK` says what a request holds at each place, and
`TypeInv == TypeOK /\ WorkOK` is inductive.

`StatusMatchesReceipt` is not inductive either. `FinalCommit` writes the row from
a receipt read several steps earlier, and nothing in the row says that receipt is
stored, is about this key or was minted. `Safe` therefore adds `HeldOK` (what a
request at "ready", "mint" or "final" holds), `ReceiptsOK` (every stored receipt
has its policy; an issuing one has its authority; an issued one follows a broker
call), `MintedOK` (the broker is called only for stored issuing receipts) and
`SignedOK`. Since tables only grow (`Grows`), what holds of a receipt keeps
holding (`AuthorityStays`, `PutKeepsReceipts`), so each lemma about an action is about
the one receipt and the one row it writes. The lemmas about the three transactions
that read first (`WriteIssuingSafe`, `WriteIssuedSafe`, `WriteDecisionSafe`) take the row
that was read as a parameter and say what must be true of it: `ReadyCommitReads`,
`FinalCommitReads` and `ApproveReads` say that it is when the row is read in the same
step, and the proofs about Postgres say when it still is later. `SafeStep` sums up.

`ApprovalMatchesStatus` needs to know who can write the row of a gated key.
`FinalCommit` does so without a look at it, so `Opened` says that a request at the
broker has an opened issuance behind it; `FirstCommit` does so too, and is kept from
a second time by the UNIQUE constraint, given that a row once written has an
approval (`Linked`) and a key at most one (`OnePerKey`). Steps that touch neither
table are dealt with at once (`PassiveKeeps`).

`SingleIssuance` counts receipts, so the receipts must be tied to the row: `HistoryOK`
says which kinds of receipt a gated key can have at each status (`Past`) and that
of the kinds in `OnceOnly` it has one. Every transaction writes its receipt at its place in
that order (`FirstCommitWrites`, `ReadyCommitWrites`, `FinalCommitWrites`,
`ApproveWrites`), where no receipt of the kind can have been made (`InOrderIsNew`).

The refinement uses the same four lemmas: the status that a transaction writes is the
move of the lifecycle (`WritesMoves`), a broker call is `Grant` because of `Opened`, a
repeated record is a stutter, and all other steps leave row and broker alone
(`UnchangedIsStutter`). `LifecycleStep` puts them together. `DeniedGetsNothing` is then
proved of the abstract specification (`GrantedStep`) and holds of the service because it
refines it.

The jobs only say when a call starts (`JobStepIsServiceStep`), so all this holds of them;
`Named` (the approval a job was told of is one of its key) and `Cleared` (a
cleared job has an approved row, and its second call is on a path that does not ask)
give `ClearedIsNotAskedAgain`. `Cleared` follows the call whichever way its lookup went: one
that found the row takes its path, one that missed it (`Missed`) can only come back by
`Reread`, which meets no pending and no denied row, so both end in an answer that is
`Settled`.

### Records, grades, packs, and PostgreSQL

`Records` says what every column that names a row points to: from receipts
(`ReceiptRefs`), idempotency rows, approvals and outbox rows, and from answers and calls
that have not answered yet. It has to go round in a circle: only the first transaction
writes the rows of a key, so a later receipt resolves because its predecessor does.
`ChainsEnd` is stated of sets of receipts: every nonempty set has one whose
predecessor is outside. A receipt that is new follows an old one; one whose identifier
is stored already is dropped by the conflict clause (`PutKeepsChains`).
`BestGradeIsEarned` follows from `Safe`. `PackAgrees` needs `DecidedOK`: what a
decision receipt says is still in the approval, which no step changes back.

Over Postgres the lemmas about writes are reused, and `Snapshots` says what is still true
of a row read earlier: it may be stale, but its approval is one of its key, its receipt is
of that key, and no issuance was final when a request at "ready" read it. It is stable under the steps of
others (`OthersKeepRowRead`, `OthersKeepClicks`) because approvals never change keys.
This is not enough for `ApprovalMatchesStatus` or `SingleIssuance`, which are not claimed
there.

### The outbox and the gateway

`QueuedOrShown` needs `HeldOK` (a processor at a row knows which, and
has read an approval only of a row that has one, with its key), `ShownOK` (a timestamp, a
row marked sent, or a processor about to write either stands for a message in the
channel), `EnqueuedOK` (no approval without its row) and `BackedOK` (nothing is handled or
posted but for an approval that exists).

`RepeatsBounded` is an argument by counting. Until the first timestamp of an approval is
recorded, its posts in this life of the process are those of processors about to record
one (`Shown`). From then on nobody turns to posting it again, and only those on
their way (`Going`) still can; these are not among the former. So `Bounded` keeps the
posts made plus those to come below the number of processors per life. `Unreliable`
breaks each half: a failing read lets a processor post without a look, a failing
write leaves no timestamp.

In the gateway a step is one of the service, one of the outbox, or one of both, over
shared tables. `Gateway_proofs` instantiates `SlackOutbox_proofs` for the outbox as
the gateway wires it (`OutboxConstants` discharges its assumptions), so the invariants and the
lemmas about single steps are those of the components: the service's first transaction is the
outbox's `Enqueue`, a click its `Decide`. What is left to show is that each
component's invariant survives the other's steps: what the outbox writes to approvals
keeps their keys and existence (`KeysStay`), which is all the service's `Safe` needs, while
`ApprovalMatchesStatus` is lost (`gateway_clicks`). `Asked` (an approval has its
pending receipt) relates the two.

### The functions

`nextAttempt`: a number that reaches a bit the other does not is not less
(`HigherIsNotLess`); five seconds reach bit 32 and five minutes bit 38, so up to the fifth
shift the wait doubles and from the sixth to the thirtieth it is the cap. Beyond, nothing is
known of the bits but that the cap is applied to them. `Evaluate`: the loop stops at
the first of the matching positions, which exists because `<` is well-founded on the
naturals; `Verdict` goes through the fields given or left out.

### The start and authentication

For the start, `PassedOK` says that what a loop has passed is applied, by whomever, and
that a process serves only past its last file; `ClaimsOK` that two open transactions
never hold the same version and hold none that is applied (on SQLite and on Postgres for
different reasons, both in `Locked`). For the keys, `KeysOK`: the configured pair and no
other goes by its `key_id`, and a stored receipt has a key row, which `KeysStay` says is
never replaced. `VerdictStays` follows from that for whoever gets the row, and for whoever
does not get it but holds the same key.

For authentication `CallOK` says of one call what is true of it given the key set and the
cache (`TokenOK`, `PlaceOK`, `FetchedOK`, `AnswerOK`). `CallStays` says that it stays true
while others add to the cache and the issuer rotates, so a step has to keep it for the
call that takes it (`OneCall`). `FetchedOK` carries rotation: a key missing in what was
fetched and published once has been withdrawn, and never comes back. `PlaceOK` carries the
second authentication: once let in, a call finds its key in the cache. `KeyOK` says that an
accepted call acts under the key of its own token and body; which of two such keys are
equal is then a question about `ComputeIdemKey` alone (`ActorIsWorkload` for the token,
`AskedIsRepeated` for the body).

### Only model-checked

The liveness properties `ApprovedIsIssued`, `EventuallySent`, `EventuallyServes` and
`CachedIsAnswered`: fairness and ENABLED are out of the prover's reach. In the `functions`
run the two functions share one specification, `FunctionsSpec`; the theorems are about
the specification of each.

## 6. Not modelled

- The status `errored`: it is written for a verdict that `Evaluate` never returns.
- The message_json of an outbox row that cannot be decoded: no row the gateway
  writes is one.
- Foreign keys: every transaction writes a referenced row before the reference
  (which is why the first one writes the idempotency row three times).
- The outbox over Postgres: its reads and writes are transactions of one statement,
  for which the isolation level makes no difference.
- `SingleIssuance` over Postgres: two calls may pass the comparison of
  `issueApprovedReady` together there, and nothing in the repository promises
  otherwise for that store.
- The in-memory store: `newServer` always opens an SQL store, so no gateway runs on it;
  tests do. It has neither rollback nor constraints.
- Two concurrent calls about one allowed key may both be issued credentials, under two
  receipts (`retryIssuing` goes to the broker while the first call is still at it).
  The repository speaks of repeated calls one after the other only.
- A deployment that changes the key file under one `key_id`, or gives its configured
  key the id `dev`: the table keeps the first key, and there is no operation to rotate.
- What a repetition with another `aws.region` gets: it has the key of the first call, so it
  is answered from that row, and if it is the one that issues, the broker is called in
  its region. Nothing in the repository says which region counts.
- Scopes of keys by the issuer, `nbf` and clock skew: a token is valid or has run out.
- That credentials can be had again: an answer lost on the way is not repeated, a
  later call is answered from the row without credentials. Nothing in the
  repository promises otherwise.
- Cryptography and canonical JSON (a digest is taken to be injective), HTTP,
  rendering, configuration, the CLI and the documentation site: pure functions or
  I/O around the modelled state.
- `PlanAuthorizeAction` and `DetermineNextAction` are called by tests only.

## 7. Plan

Order chosen so that what could hand out credentials wrongly comes first.

1. *Done.* `Ledger`, `AuthorizeService`, `ApprovalLifecycle` with the refinement,
   `AuthorizeClient`, `AuthorizePostgres`, `Evidence`, `SlackOutbox`, `Gateway`,
   `Backoff`, `Policy`, `Startup`, `Authentication`; a theorem for each of the safety
   properties the passing runs check, and for the refinement.
2. Prove: what else the service promises alone and keeps in the composition
   (`AnswersResolve`, `ChainsEnd`, `CredentialsAreRecorded` over `GatewaySpec`, which no run
   checks there), with the records lemmas in place of `SafeStep`.
3. Extend, if the code grows that way: an operation that rotates a signing key
   (`keys.rotated_at` has no writer yet), the status `errored`.
