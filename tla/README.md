# TLA+ models of the SecureScope control plane

This directory models and checks the backend of SecureScope: a FastAPI service
that lets a team run tightly bounded security validations against assets they
are authorized to test, and the isolated worker processes that run them. Every
path below is relative to the repository root (`src/`); `VE` stands for
`src/backend/app/modules/validation_executions`.

## The system

The control plane is asynchronous Python over PostgreSQL at READ COMMITTED.
One HTTP request is one transaction: the session dependency commits when the
handler returned and rolls back on any exception (`platform/database.py`). Rows
carry no version column; a handler that must not lose a race locks its row with
`SELECT ... FOR UPDATE` and writes through a conditional UPDATE
(`conditional_transition`). Validations leave the control plane as envelopes on
RabbitMQ (Celery, acknowledged on delivery). A worker is a container started for
one execution: its environment carries the one-time credential of that
execution, it takes the envelope, posts `worker-started`, scans the target with
a handful of HTTP requests while polling the kill switch, and posts
`worker-finished` once.

## Inventory

| component | state it keeps | operations | what is hard about it | what makes it correct |
| --- | --- | --- | --- | --- |
| execution control plane (`VE/service.py`) | execution row, step rows, worker credential | create and queue, cancel, worker-started, worker-finished, kill-switch poll | envelope published before the commit; unlocked authentication before a locked transition; duplicate and late hook calls | one result per row, closed rows final, credential dead exactly when the row is |
| worker credentials (`VE/credential_*.py`, `worker_auth.py`) | digest, expiry, revocation | issue, verify, revoke | expiry during a run, revocation between check and use | only a live credential authenticates |
| dispatch broker (`VE/celery_publisher.py`) | envelopes | publish, consume | loss, redelivery, envelopes of rolled-back requests | an envelope alone never reaches a target |
| worker process (`VE/celery_worker*.py`, `worker_client.py`) | credential copy, run, pending call | resolve, start, run, finish | crash and restart, timeouts, a single finish call | no scan without an accepted start; it always becomes idle again |
| header executor and transport (`VE/executor.py`, `http_transport.py`) | url, counters, verdict | poll, request, redirect, fall back, conclude | hostile redirects, rebound names, a stop signal between two steps | in scope, public, polled, bounded |
| scope and safety snapshots (`VE/specification.py`) | frozen prefixes and limits | freeze | two sources of one column, in two representations | the snapshot means what the rows say |
| authorizations (`authorizations/`) | status, terms, window, stamps | create, update, submit, activate, reject, revoke, get, list | reads that write: unlocked lazy expiry next to locked transitions | what is active is what was submitted; statuses move along the table |
| engagements (`engagements/`) | status, scopes, window, kill switch | create, update, schedule, activate, pause, resume, complete, cancel, set kill switch | a row is locked, what it is judged by is not; `resume` repeats none of the checks | what was scheduled lies inside its grant; what is over stays without executions |
| assets and verifications (`assets/`, `asset_verifications/`) | asset status, challenges | register, request, challenge, verify, cancel | two services write one status, one of them without a lock; a lock held over two DNS lookups | verified only by an answered challenge |
| accounts (`auth/`, `reset_admin.py`) | users, token versions | register, log in, update, change password, delete, bootstrap, recover | no change locks its row: each is a read and a later write | a changed account ends its tokens; an administrator remains |
| development queue (`VE/in_memory_*.py`) | queue in memory | publish, consume | enqueued before the commit, taken for good, gone with its process | only a lost call or a restart leaves an execution behind |
| migrations (`backend/migrations`) | revision, tables, enum types | upgrade, downgrade | containers that upgrade one database at once; types that are declared twice | what serves has its schema |
| pentest audit (`pentest_audit/`) | none that lasts | gate, scan, report | probes that get lost; one timeout over everything | what had its answers in time is reported, and nothing else ever |
| AI proof of risk (`ai_proof_of_risk/`) | none that lasts | load, examine, route, simulate, ask, report | a model that fails between two sections, or that cannot be prompted; evidence of odd shapes | a section is a model's only where its answer was valid |
| audit events, tenancy, organizations, projects, worker read model, shared helpers, safe scan, seed data, frontend | rows and text | insert, list, format | one step each, or nothing but formatting | see "Not modelled" |

Components interact in five ways: engagements are judged by the authorization
they are linked to and by assets, none of which they lock; create-and-queue
reads asset, authorization and engagement rows without locks and freezes what it
read into snapshots; the envelope carries the snapshots to a worker; the worker
calls the two hooks and polls the kill switch; the kill switch and the row's
status are the only things that stop a run that has begun. Accounts, the
verification of assets, migrations, audits and analyses touch the others by the
rows they leave only.

## Modules

| module | models | depends on |
| --- | --- | --- |
| `ExecutionLifecycle` | abstract: what the control plane promises about a row and its report | |
| `ValidationExecution` | create, dispatch, worker, hooks, credential, kill switch, clock and faults | refines `ExecutionLifecycle`, and `TargetRun` per worker |
| `ValidationExecutionProofs` | its theorems | `TLAPS` |
| `TargetRun` | abstract: one scanner run, as the control plane has it and as the executor does it | |
| `PathScope` | path prefixes: freezing them, matching them | |
| `HeaderExecutor` | the executor loop and the transport below it | extends `PathScope`, refines `TargetRun` |
| `HeaderExecutorProofs` | its theorems | `TLAPS` |
| `GrantLifecycle` | abstract: what others rely on about an authorization | |
| `Authorization` | all handlers on authorization rows and the unlocked reads | refines `GrantLifecycle` |
| `AuthorizationProofs` | its theorems | `TLAPS` |
| `Engagement` | all handlers on engagement rows, next to authorizations and assets that change | uses `GrantLifecycle` |
| `Admission` | create-and-queue step by step, with its idempotency key | extends `Engagement` |
| `AdmissionProofs` | theorems of both | `TLAPS` |
| `AssetVerification` | assets, challenges, the DNS lookups | |
| `Accounts` | users, tokens, every change as a read and a write | |
| `DevelopmentQueue` | the queue in memory and its consumers | |
| `Migrations` | the ten revisions and the containers that run them | |
| `AssetVerificationProofs`, `AccountsProofs` | their theorems | `TLAPS` |
| `DeploymentProofs` | theorems of `DevelopmentQueue` and `Migrations` | `TLAPS` |
| `PentestAudit` | gate, scanners and report of an ad-hoc audit | |
| `ProofOfRisk` | the analysis of an execution's evidence | |
| `ReportProofs` | theorems of both | `TLAPS` |
| `MCServices` | one instance of the services that stand on their own: in a behaviour one of them moves, the others rest | `Authorization`, `AssetVerification`, `Accounts`, `DevelopmentQueue`, `Migrations`, `PentestAudit`, `ProofOfRisk` |
| `MCPentestAudit`, `MCProofOfRisk` | the instances of these two, within `MCServices`, and of the first by itself | |
| other `MC...` | the values TLC gives the constants | |

### ValidationExecution

`row`, `verdict`, `stepSets` and `credential` are the committed columns of one
execution; `request` is the transaction that creates it, so `Create` puts the
envelope on `broker` before `Commit` makes the row visible, and `RollBack` leaves
the envelope behind. A hook call is a record in `calls` that moves from the wire
to authenticated (an unlocked read of the credential) to answered (the locked
transition): any other call may commit between the two. `Abandon` is the
worker's timeout, after which the call may still be served; `Lose`, `Redeliver`,
`Restart` and `PollFails` are the other faults, `MaxFaults` of which occur.
`Poll`, `Request` and `LastPoll` are the run, reduced to what the control plane
sees of it. The history variables `late` and `scans` serve properties only.
Abstractions: `Admission` models the idempotency keys and the create-time checks,
which are the one flag `eligible` here; digests, headers and payload fields are left out; a handler commits
before its answer is sent; two processes have one clock.

### HeaderExecutor

One run of `execute_http_security_header_validation`. Each response action is
one whole call of the HTTP client, `Send`, and what the executor does with the
answer up to its next await: `RedirectRefused`, `Redirected` (counted, then held
against the limit), `HeadUnsupported`, `FinalResponse`, `NoResponse` and
`RedirectRaises`. `Resolve` is the transport's policy check and lookup; the
vetted addresses stay in `pin` while `Rebind` changes the name. `Toggle` moves
the stop signal between any two steps. `scope` holds the two database scopes a
run was queued with; `Snapshot` is what `build_scope_snapshot` freezes of them.
Left out: header values and their judgement (the last step takes either
verdict), bodies, durations, and the check of the template id, which cannot
fail with one template. An IP literal is a name that resolves to itself.

### PathScope

A path is the sequence of its segments, so a slash at the end is an empty last
segment. `Frozen` keeps the representation each source has: the engagement's
columns are lists, the authorization's are one text, and `Characters` is what
iterating over that text amounts to.

### Authorization

A handler that locks its row is one step and may only run while no read holds
the row (`Free`). `get_for_tenant` and `list_for_project` are transactions of
several steps: a snapshot of what they saw active (`BeginRead`), one `Examine`
per row, newest first, which may have to wait for a row's lock, and a commit
(`EndRead`) that writes `expired` by primary key. `terms` are a grant (tier,
document, contacts) and a set of assets; `Acceptable` stands for the gates of
`submit` and `activate`; `verified` is live data that changes at any time.
Only `activated_at` is kept of the stamps. `submitted` and `due` are history.

### Engagement

`engagement` holds the rows; a row that does not exist yet already holds what its
payload will say. `Check` is the first half of `schedule` or `activate`: it locks
the row (`checked`) and judges the linked authorization; `Schedule` and
`Activate` are the second half, which reads the assets and writes. Pause,
resume, complete, cancel and the kill switch are one step each: they look at the
row's own status and at nothing else. `ChangeAuthorization`, `ChangeAssets` and
`Tick` are the surroundings, an authorization being reduced to what
`GrantLifecycle` says of it: terms that no longer change once it is active, and
an end that is final for every check made here. Stamps and texts are left out.

### Admission

`create_and_queue` for one request: `LookUpKey` answers, refuses or goes on;
`ReadEngagement` and `ReadAuthorization` read without a lock and keep what they
saw in `seen`; `Judge` reads asset and clock and applies every check; `Insert`
meets the unique index, waiting for a row with the same key that is not
committed yet; `Dispatch` computes the credential's expiry and publishes;
`Commit` and `RollBack` end the transaction. An execution is named by the request
it comes from. `over` is history: what was over when the request began. Material
comparison of a repeated request is the equality of payloads.

### AssetVerification

`RegisterAsset` keeps what a target of each shape normalizes to. `create` and
`verify` lock the asset: `lookup` is the verify that holds it while it asks for
the record and then for the control name. `DecideRequest` and `WriteRequest` are
`request_verification`, which locks nothing and writes what it decided. `zone` is
what the asset's own DNS would answer for each challenge: nothing, the record, or
anything at all. `proof` is history: by what a challenge was verified. Token and
digest are abstracted to whether the zone answers with the value.

### Accounts

Every change is a read (`Prepare`) and a later write (`Commit`) that sets only
the columns that differ from what was read, among them the version read plus
one. An administrator is let in by a token (`AdminEnters`) and acts later. A
starting API reads, disables (holding those rows until it commits) and may make
an administrator: `BootstrapReads`, `BootstrapDisables`. `ResetAdmin` is the
recovery script. A token carries the number of changes its user had when it was
issued (`mark`); with `changes` and `overlapped` this is history.

### DevelopmentQueue

`Enqueue` precedes the end of its transaction (`EndRequest`). A consumer's call
takes up to `n` messages: `Dequeue`, `PostStarted`, `RunMessage`, `PostFinished`.
Either hook call may not arrive, be refused, or be served and its answer lost.
`ProcessRestarts` empties the queue. `missed` is history.

### Migrations

A revision is the tables it creates in order, the enum types its downgrade
drops, and the columns it replaces; `Up` and `Down` are what its statements do and
whether each is accepted (`Creates`, `Drops`, `ok`), in the order in which they
run. `Ups` and `Downs` are the states a command passes, revision by revision. A container reads the version
(`BootContainer`), runs all missing revisions in one transaction that fails when
the version has moved (`Migrate`), and serves. `Downgrade` happens with all
containers off. Columns and indexes no later revision touches are left out.

### PentestAudit

A site is the facts it shows. Each scanner is a function of the probes that got
no answer; a scanner may also raise. `Gate` is the only look at coverage.
`Finished` are the scanners that returned, and `Report` counts, scores and advises
on what they returned. `GlobalTimeout` leaves what the scanners returned as it is
and reports on none of it ("cut off", which the response does not tell).
Technology and subdomain scanners yield nothing a finding is made from. Of the facts of one kind (paths, ports, headers) there is one or a number. A
request may name no scheme: then the header scanner always raises and the others
fall back to https.

### ProofOfRisk

From the evidence of an execution (`Redacted`, `Steps`, `Findings`) to graph and
scenario (`Examines`), the sandbox (`Simulate`), and verdict, plan and report,
each generated (`GenerateSection`) or asked of the routed model (`AskModel`),
whose answers are an error, an unsafe, incomplete or valid text, no JSON, no
content, or JSON of another shape. Step names are unique within a bundle, as the
providers in the repository give them. `FailToPrompt` is the prompt Fireworks is to
be given of a scenario (`Unspeakable`): it cannot be made, so with a scenario
Fireworks is never asked, and without one for the report only. `Allowed` tells
the guard's classes of addresses apart: a name with one of three public suffixes,
a metadata service and one that carries a user are rejected; what is public
otherwise passes, as does what is private; the validated host is rejected where
the evidence names it. The sandbox's address is a constructor's argument that no
setting fills; any class is possible here. Wording is left out.

## Runs

| run | checks | bounds | result |
| --- | --- | --- | --- |
| `safety` | `TypeOK`, `RevokedIffClosed`, `OneResult`, `AcknowledgedIsRecorded`, `ScanOnlyStarted`, `StopsPromptly`, `ClosedIsFinal`, `ImplementsLifecycle`, `RunsAreTargetRuns` | 1 execution, 2 workers that both hold its credential, both fallbacks, 2 requests, 3 instants, 1 fault of any kind | holds |
| `single_process` | `ScannedOnce`, `RunsEnd`, `ExecutingCloses` | 1 execution, 2 workers, credential only, 2 faults (no restart) | holds |
| `redelivered_scan` | `ScannedOnce` | 2 processes with one credential, 1 redelivery | violated |
| `expired_finish` | `FailedRunCloses` | 1 worker, no fault, the clock passes the expiry | violated |
| `executor` | `TypeOK`, `InScopeOnly`, `OverridesHold`, `OnlyPublicContacted`, `PolledEachTime`, `OneFallback`, `ImplementsTargetRun`, `RunEnds` | 7 urls, 7 scopes, 1 public and 1 private address, 4 requests, 3 redirects | holds |
| `executor_escape` | `NothingEscapes` | 2 requests, 1 redirect | violated |
| `authorization_final` | `FinalIsFinal` | 1 row, 2 reads | violated |
| `admission` | `TypeOK`, `CoveredByGrant`, `OneExecutionPerKey`, `NothingAfterTheEnd`, `CredentialWithinWindows` | 1 engagement, 2 authorizations one of which ends earlier, 4 drafts, 2 requests with one key, 2 instants; requests are symmetric | holds |
| `admission_linked` | `LinkedAuthorizationHeld` | the same with 1 request | violated |
| `services` | of `Authorization`: `ActivatedAsSubmitted`, `StatusMoves`, `ImplementsGrants`, `DueReadExpires`, `ReadsEnd`, and `TypeOK`; of `AssetVerification`: `VerifiedByProof`, `VerificationMoves`; of `Accounts`: `RevokedUnlessOverlapped`, `AdminRemains`; `NoneForgotten`; of `Migrations`: `SchemaFollowsRevision`, `ServesItsSchema`; `ReportOwed`; `AnalysisHolds` | 2 rows, 2 reads, 3 instants; 1 asset, 2 challenges, 2 clients, 2 attempts; 2 users, 2 transactions, 2 tokens, 1 change each; 2 executions, 2 consumers; 2 containers, images of revisions 3, 6 and 10; 8 audits of 4 sites; 12 bundles, 4 requests, 7 configurations | holds |
| `accounts_revocation` | `RevokedStaysRevoked` | 2 users, 2 transactions, 2 changes each | violated |
| `audit_timeout` | `ResultsAreCompiled` | the 8 audits of 4 sites | violated |

Why the bounds are enough. Executions share only the engagement's inputs, and
the theorems hold for any number of them. Two workers give the race of two
finishes and a redelivery to another process; a second request is what
`StopsPromptly` needs to fail; three instants give a credential that is live,
expiring and expired. `ScannedOnce` needs two faults to fail when the one-time
source is broken, hence the bound of `single_process`; `Restart` is excluded
there because a restarted container does get its credential anew. In `executor`
both limits bind. The template's own limits are 5 and 3, with which the request
budget is never what ends a run: the first HEAD, three redirects and one GET make
five, and a fourth redirect exceeds the redirect limit first. Two addresses are
enough for a name that resolves to a public one, a private one, both or none.

In `admission` two requests with one key are what the unique index is for, a
second authorization is what a request may name instead of the linked one, and
an engagement that ends after the shorter grant, one without a scope and one that
is too long are what `schedule` has to refuse. Two instants suffice: a window
that ends at the second is open at the first and over at the last.

In `services` the components do not share state, so one behaviour moves one of
them and the run is the sum of theirs, not the product. Two rows and two listings
are the smallest instance in which row locks could be taken in opposite orders;
the windows begin and end at every instant the clock has. Two challenges give the
race of two creates, two clients the request that was decided before a
verification, two attempts a failure that is not the last. Two users give
demotions of one another, and one change each is what two concurrent transactions
need; of the images 3, 6 and 10 the first lies before the revisions that declare a
type again (4 and 5), the others after them. The four sites show the worst, the best, little, and a
network of two hosts, and one audit names no scheme; the bundles hold a finding the graph knows, one it does
not, both, two of one name, none, and evidence that is text, with and without the
host they were found on.

Deadlock is not checked: every module describes work that comes to an end (a run
is over, every execution is closed), and the clock is bounded.

Fairness. A worker process that is alive runs its coroutine on, the control
plane serves the requests it received and open transactions end: weak fairness
on `Progress(w)` and on `Commit(e) \/ RollBack(e)`. Nothing obliges operators,
faults, the clock, the broker or the launch of workers. The executor is weakly
fair in `Step`: its polls and requests have timeouts and a lookup ends with the
resolver's. Reads are weakly fair in their commit and strongly fair in `Examine`,
since PostgreSQL serves the waiters of a row lock in turn; in `services` this is
the only fairness there is.

## Findings

- **A redelivered envelope can scan again** (`redelivered_scan`,
  `VE/service.py:513`). `worker_started` answers an executing row with success,
  so a second process with the same execution's credential scans too.
  `VE/celery_worker.py:245-247` says a redelivered envelope cannot re-run a scan.
  With one process per execution it cannot (`single_process`).
- **A run that outlives its credential never closes** (`expired_finish`,
  `VE/service.py:306`). The finish call is refused and is posted once;
  `VE/celery_worker.py:234-238` says the execution never lingers in executing.
- **An exception leaves the executor** (`executor_escape`, `VE/executor.py:121`)
  on a Location whose port is no number; its docstring says none does.
- **Revoked can become expired** (`authorization_final`,
  `authorizations/service.py:534`): the lazy expiry of an unlocked read writes by
  primary key, although `authorizations/enums.py:12` calls both terminal.
- **The engagement's own authorization is not asked for** (`admission_linked`,
  `VE/service.py:189`). A request names an authorization, and that one is judged;
  an execution is admitted under an engagement whose linked authorization was
  over before. `engagements/models.py:28-30` makes eligibility depend on the
  linked one.
- **A token can survive a password change** (`accounts_revocation`,
  `auth/service.py:219`). Two changes that read one version write the same next
  one; a token issued between them is still accepted, though `auth/service.py:211`
  says existing tokens are revoked. `RevokedUnlessOverlapped` says that nothing
  else lets one survive.
- **A timeout takes the results that are there** (`audit_timeout`,
  `pentest_audit/service.py:302`). The results of scanners that had returned are
  dropped with the others'; the response lists all modules as executed, scores 0
  and says the posture is good. The class (57-58) is said to enforce timeouts and
  to compile results. `ReportOwed` is what holds: it says what is reported of
  scanners that returned for audits that end in time only.

Other disagreements met while modelling, which have no run of their own; the
models show what the code does:

- Path prefixes inherited from the authorization are one text, and what matches
  them iterates over it as a list (`VE/specification.py:54`): over characters, of
  which "/" covers every path. An inherited allow list restricts nothing, although
  41-43 and `executor.py:132-134` say what it is frozen for; an inherited exclusion
  refuses everything. `OverridesHold` says that nothing else gets out of scope.
- Fireworks cannot be told of a scenario: the dump (`ai_proof_of_risk/service.py:286`)
  keeps a UUID, which `fireworks_provider.py:223` cannot write as JSON, outside of
  any try; every such analysis is answered 500, although
  `docs/ai-proof-of-risk-digital-twin-design.md:40` says that AI is not required for
  core function. `AnalysisHolds` names it among the causes of a failure.
- A value whose control name got no answer is taken as proof, although
  `asset_verifications/service.py:281-283` says a wildcard never is; and
  `request_verification` puts a verified asset back when it had read the draft.
- `risk_tier` is declared again by revisions 0004 and 0005 (`0004_engagements.py:34`
  says it is reused): an upgrade that starts from 0003 or 0004 fails, and
  succeeds only when 0003 is part of the same command.
- `set_kill_switch` is allowed on a draft, which the set at
  `engagements/service.py:71` leaves out; a repeat that races its first attempt is
  refused with a conflict, where `VE/service.py:92-94` promises the execution.
- `VE/in_memory_consumer.py:20-24` says a row never lingers in executing; it does
  when the finish call, or the answer to the start, is lost. A message whose
  transaction rolls back stays in the queue.
- In an audit lost DNS and firewall probes turn into findings; of a network only the first host is scanned; the certificate
  checks see none, since the client does not verify; its AI analysis always falls
  back.
- `sandbox_guards.py:3-4` and the design (277) say that no simulation runs against
  the public internet; the guard knows it by `.com`, `.org` and `.net` only (93-97),
  and the validated host only when the evidence names it.
- An analysis fails on a model's empty content and on a report of another shape;
  identifiers of 32 characters are cleaned as if they were secrets, so findings may
  share a name; the route to the local model cannot be taken; a generated report
  says that no model reasoned, also beside a verdict that a model wrote.

## Proofs

Every safety property that a passing run checks is also a theorem, for every
value of the constants that satisfies the named assumptions. These say: disjoint
sets of reports, an absent value that is no execution and positive budgets
(`ConstantsAssumption`, `NAssumption`); prefixes that are sequences of
strings and urls whose paths are such, and not empty, as splitting a path at its
slashes makes them; payloads and grants of the right kind, bounds that are numbers (`EngagementAssumption`,
`AdmissionAssumption`); an absent value that is no user, challenge, execution or
request (`AccountsAssumption`, `VerificationAssumption`, `QueueAssumption`);
images that end at a revision there is (`ReleasesAssumption`); terms that are
accepted name an asset (`AcceptableAssumption`); requests name modules, ports and
an intensity that exist (`AuditsAssumption`); bundles whose step names are unique
(`BundlesAssumption`).

### Execution and run

`ValidationExecutionProofs`. `TypeOK` is not inductive as it stands: `Typing`
adds that a busy worker has a job (`Busy`), that its budget was checked where
that matters (`Budget`) and that a worker that reports has a report
(`Reported`); `Waiting` adds that an awaited call belongs to the job and the
stage of its worker, without which a response could start a run for another
execution. On these rest `Ledger` (row, request and credential agree) and
`OneResult` (together `Sound`), from which `CredentialRevokedIffClosed`,
`OneResultPerExecution`, `ClosedRowsAreFinal` and `Refinement` follow; `Safe`
adds `Answered`, `RunsBegun` and `Lateness` for
`AcknowledgedFinishIsRecorded`, `OnlyStartedIsScanned` and `RunsStopPromptly`.
The bulk of the work is one lemma per group of actions and conjunct.

`ScannedAtMostOnce` has a hypothesis, `SingleProcess`: one process per execution,
the one-time source without the fallback, no restart. It is how
`celery_worker_bootstrap.py` is deployed; `redelivered_scan` shows that the first
part is needed. Its invariant `OneScan` says that no two processes hold one
credential (`Exclusive`), that who posted a start has used it up (`Spent`), and
that a start that is still awaited is the first (`Begun`).

`HeaderExecutorProofs`. The checked properties speak of the history; the
invariant ties them to where the executor is: `Located` (the url it is at may be
followed, and in the transport the pinned addresses are public), `Counted` (the
budget was checked and the number of clear polls is known at each point) and
`Fallback` (a GET is preceded by the HEAD of the same url). `RunRefinement`
maps the loop's points to the phases of `TargetRun`. `OverridesAreEnforced` is
about prefixes and paths of any length: `Bare` chooses where a prefix ends once
its trailing slashes are gone, and that such an end exists is a least-number
argument (`LeastNumber`, by the well-foundedness of `<`). An inherited exclusion
means nothing is requested, since "/" lies above every path (`RootIsAbove`).

The two meet in `TargetRun`. `RunsRefineTargetRun` says that what a worker of
`ValidationExecution` does between an accepted start and its report is a target
run; `TargetRunsAreAdmitted` says the opposite, that each step a target run may
take is one the model lets its worker take. So the executor, which implements
`TargetRun`, does nothing that the control plane was not checked against.

### Authorization, engagement, admission

`AuthorizationProofs`. The invariant adds to the properties what a read holds
on to: rows it will write were active once, those it marked are over, and all
that was over before it is still to be examined or marked (`ReadsHold`). That no
row becomes active twice is what makes an old snapshot harmless, except for the
one move `StatusMoves` names. `GrantRefinement` maps a row to its phase and its
terms: what comes before `active` is pending, what comes after it has ended.

`AdmissionProofs`. `EngagementInv` adds to `CoveredByGrant` what a transaction
between its two steps knows (`Checked`): the row is locked and the grant does not
change, so what was judged in the first step still holds in the second. `RequestInv` adds
what lasts (`Lasting`: over stays over), what a request must have noticed at each
of its steps (`Noticed`: whatever was over when it began makes it fail at the
latest when it judges) and what it carries (`Frozen`: the window it read is the
row's). `Onward` is the lemma about what steps of others cannot undo. From it
follow `OneExecutionPerKey`, `NothingAfterTheEnd` and `CredentialWithinWindows`.

The two meet in `GrantLifecycle`. `PromisedChangesAreAdmitted` says that when one
grant begins or ends as promised, `Engagement` lets it; `OnlyPromisedChanges`
that it lets nothing else happen to a grant. A listing that ends several grants
at once is several steps there. A pending grant is fixed in `Engagement` to the
terms it will be active with, which nothing reads before.

### The others

`AccountsProofs`. `WritesHold` says what a pending write may be, by who prepared
it (`Entitled`); `TokensHold` that a token of a user without overlapped changes is
older than the row exactly when a change came between. `AdminRemains` compares
the whole row a start had read with the one it writes over: with three concurrent
transactions a version can go back to what it was, so the version alone does not
tell that a row has changed.

`AssetVerificationProofs`. `Named`, `Asked` and `Locked` tie the challenge a
verify is at to the one pending challenge of its asset; then nothing but a
verify that was answered makes an asset verified, and closed challenges stay.

`DeploymentProofs`, the queue. `NoneForgotten` alone is not inductive: the
invariant adds that an execution is in the queue or with a consumer at most once,
and only after it was enqueued (`Once`, `Fresh`), and that whatever a call loses
is remembered (`Remembered`).

`DeploymentProofs`, the schema. `Forward`: a container that upgrades read a
revision no newer than its image, so a successful upgrade never lowers the
version under another. `SchemaIsDeclared` is an induction along the chain: each
revision adds what none before it did and refers to nothing that comes after it
(`Placed`, `EnumsAreNew`, `ColumnsFit`), so one step up or down from what is
declared leads to what is declared (`UpFollows`, `DownFollows`), and so does a
command of many (`UpgradeDeclares`, `DowngradeDeclares`). The facts about the ten
revisions are read off the chain; the induction is over the least revision at
which it would fail, and the same argument shows that the recursive functions
`Ups` and `Downs` exist, which their definition alone does not give.

`ReportProofs`. For `ReportsAreOwed` the invariant says what each scanner that
returned had seen (`ReturnedAsSeen`) and that a report was compiled from that
(`ReportedAsSeen`), or from nothing when it was cut off; so what follows for an
audit in time is more than for one cut off. The lemmas are about the scanners as functions: what one with
all its answers sees (`Answered`), and what a finding that denies something rests
on (`Justified`). `AnalysisIsWhole` needs the order of the sections: `WrittenInTurn`
says at each step which are written, by whom, and which are still to be asked for; and since a
prompt fails at the first section or never, no section was asked for when it does.
Unless cleaning made names the same (`NamesTold`), steps and their findings are in
bijection, so the graph loses none (`GraphComplete`).

### Only model-checked

Liveness (`RunsEnd`, `ExecutingCloses`, `RunEnds`, `ReadsEnd`): properties under
fairness are out of the prover's reach. What the violated runs check is false.

## Not modelled, and the plan

In the order in which they matter:

1. The credential hand-off registry of the development backend (a credential is
   given out once), and the resolver of the scope gate, whose networks and
   addresses `PentestAudit` takes as given.
2. A variant in which the response is sent before the commit.
3. Theorems across modules: `Admission` judged by `Authorization` itself in one
   specification, and what the executor requests under the snapshots that
   `Admission` froze.
4. The mutation policy of assets, and the remaining fields of the
   specification (ports, rates).

Hazards the models reach, but about which no document promises anything: a start
that is served after its worker gave up leaves the row executing
(`VE/worker_client.py:120`; `RunsEnd` is about the worker); an upgrade from 0003
or 0004 fails again whenever it is repeated (`SchemaFollowsRevision` excuses it,
`ServesItsSchema` says that such a container does not serve); a
worker that takes the envelope before the commit is answered 404 and nothing
queues the row again (`VE/service.py:286`); a pause, a revocation or the end of a
window does not stop a run that has begun (`VE/service.py:702`). Not reached: a
worker without the credential of its envelope (`VE/celery_worker_bootstrap.py:135`)
drops it, which differs from a lost envelope in nothing; a response before the
commit (`platform/database.py:79`) depends on the framework's version.

Left out for good. Organizations and projects: an insert with a unique slug, a
read and a listing. Audit events: inserts without a reader that acts on them.
Worker read model: an aggregation over rows. Tenancy: one condition of every
query, true of the one tenant the models have. Shared helpers: parsing and
formatting. Safe scan: one request without a state. Seed data: a script that runs
once on an empty database. Frontend: a client that keeps no state the server
relies on.
