------------------------- MODULE ValidationExecution -------------------------
(***************************************************************************)
(* One validation execution from the request that creates it to the        *)
(* verdict that closes it: the control-plane row and its per-execution     *)
(* worker credential, the dispatch envelope on the broker, the isolated    *)
(* worker process that scans the target, and the two machine hooks         *)
(* (worker-started, worker-finished) through which the worker moves the    *)
(* row.                                                                    *)
(*                                                                         *)
(* The database is PostgreSQL at READ COMMITTED.  A hook request reads its *)
(* credential without a lock, then locks the row (SELECT ... FOR UPDATE),  *)
(* so authentication and the transition are two steps and another request  *)
(* may commit in between; the locked part of a handler is one step.        *)
(* Create requests carry no idempotency key here, and a handler commits    *)
(* before its answer is sent.  Two equal calls nobody waits for any more   *)
(* are one element of calls: serving the second changes nothing.           *)
(***************************************************************************)
EXTENDS Naturals, FiniteSets

CONSTANTS
  Executions,           \* execution ids
  Workers,              \* worker processes
  Definitive,           \* reports with a definitive outcome (validated, not_reproduced)
  Indefinite,           \* reports that are inconclusive or failed safely
  Blocked,              \* the report of a run stopped by a control
  None,                 \* no execution, no report
  MaxRequests,          \* max_requests of the frozen safety snapshot
  Lifetime,             \* default lifetime of a worker credential
  WindowEnd,            \* end of the engagement's testing window
  MaxTime,              \* bound on the clock
  WorkerFallback,       \* the worker may use the shared token
  ServerFallback,       \* the control plane accepts the shared token
  ProcessesPerExecution,\* processes started with one execution's credential
  Faults,               \* kinds of fault injected
  MaxFaults             \* bound on the number of faults

Reports == Definitive \cup Indefinite \cup {Blocked}

FaultKinds == {"redelivery", "restart", "timeout", "loss", "pollFailure"}

ASSUME ConstantsAssumption ==
  /\ Blocked \notin Definitive /\ Definitive \cap Indefinite = {}
  /\ Indefinite # {}
  /\ None \notin Executions \cup Reports
  /\ MaxRequests \in Nat \ {0}
  /\ Lifetime \in Nat \ {0}
  /\ WindowEnd \in Nat
  /\ MaxTime \in Nat
  /\ WorkerFallback \in BOOLEAN
  /\ ServerFallback \in BOOLEAN
  /\ ProcessesPerExecution \in Nat
  /\ Faults \subseteq FaultKinds
  /\ MaxFaults \in Nat

VARIABLES
  clock,        \* wall clock read by every process
  request,      \* the create request of each execution
  row,          \* committed status of each execution row
  verdict,      \* report recorded in the row
  stepSets,     \* how many reports had their step rows appended
  credential,   \* committed state of the worker credential
  expires,      \* its expiry instant
  eligible,     \* authorization, asset and engagement pass the create-time checks
  killSwitch,   \* kill switch of the engagement
  broker,       \* copies of each execution's envelope waiting on the broker
  delivered,    \* executions whose envelope was delivered at least once
  faults,       \* faults injected so far
  pc,           \* control state of each worker process
  job,          \* execution the process works on
  token,        \* token its client holds
  env,          \* execution whose credential is in the process environment
  consumed,     \* the process has handed out the credential of its environment
  sent,         \* target requests sent in the current run
  report,       \* report being delivered
  calls,        \* hook calls on the wire or in the control plane
  late,         \* target requests sent while the run's stop signal was up
  scans         \* runs of the scanner begun for each execution

rowVars    == <<row, verdict, stepSets, credential>>
workerVars == <<pc, job, token, env, consumed, sent, report>>
inputVars  == <<eligible, killSwitch>>
brokerVars == <<broker, delivered>>
histVars   == <<late, scans>>
vars == <<clock, request, rowVars, expires, inputVars, brokerVars, faults,
          workerVars, calls, histVars>>

(***************************************************************************)
(* Statuses                                                                *)
(***************************************************************************)

Statuses == {"absent", "draft", "queued", "dispatching", "executing",
             "succeeded", "failed", "cancelled", "blocked"}
Terminal       == {"succeeded", "failed", "cancelled", "blocked"}
ResultTerminal == {"succeeded", "failed"}
Cancellable    == {"queued", "dispatching", "executing"}
\* Broken: a late start revives a cancelled run.
StartableBroken == {"queued", "dispatching", "cancelled"}
Startable      == {"queued", "dispatching"}

Running == {"poll", "request", "lastPoll"}

Hooks  == {"started", "finished"}
Tokens == {"credential", "shared"}
Stages == {"wire", "authenticated", "accepted", "rejected"}

Calls == [worker : Workers, hook : Hooks, job : Executions, token : Tokens,
          report : Reports \cup {None}, stage : Stages, awaited : BOOLEAN]

CallOf(w, hook, e, tok, r) ==
  [worker |-> w, hook |-> hook, job |-> e, token |-> tok, report |-> r,
   stage |-> "wire", awaited |-> TRUE]

Earlier(a, b) == IF a <= b THEN a ELSE b

Fault(kind) ==
  /\ kind \in Faults
  /\ faults < MaxFaults
  /\ faults' = faults + 1

\* A run has to stop: its row is closed, or the engagement's switch is up.
Stopped(e) == row[e] \in Terminal \/ killSwitch

Init ==
  /\ clock = 0
  /\ request = [e \in Executions |-> "new"]
  /\ row = [e \in Executions |-> "absent"]
  /\ verdict = [e \in Executions |-> None]
  /\ stepSets = [e \in Executions |-> 0]
  /\ credential = [e \in Executions |-> "none"]
  /\ expires = [e \in Executions |-> 0]
  /\ eligible = TRUE
  /\ killSwitch = FALSE
  /\ broker = [e \in Executions |-> 0]
  /\ delivered = {}
  /\ faults = 0
  /\ pc = [w \in Workers |-> "idle"]
  /\ job = [w \in Workers |-> None]
  /\ token = [w \in Workers |-> "none"]
  /\ env = [w \in Workers |-> None]
  /\ consumed = [w \in Workers |-> FALSE]
  /\ sent = [w \in Workers |-> 0]
  /\ report = [w \in Workers |-> None]
  /\ calls = {}
  /\ late = [w \in Workers |-> 0]
  /\ scans = [e \in Executions |-> 0]

(***************************************************************************)
(* The create request.  Its transaction checks eligibility, inserts the    *)
(* row, mints the credential and publishes the envelope; the transaction   *)
(* commits after the handler returned, so the envelope is on the broker    *)
(* before the row is visible.                                              *)
(***************************************************************************)

Create(e) ==
  /\ request[e] = "new"
  /\ eligible /\ ~killSwitch
  /\ clock < WindowEnd
  /\ request' = [request EXCEPT ![e] = "open"]
  /\ expires' = [expires EXCEPT ![e] = Earlier(clock + Lifetime, WindowEnd)]
  /\ broker' = [broker EXCEPT ![e] = @ + 1]
  /\ UNCHANGED <<clock, rowVars, inputVars, delivered, faults, workerVars,
                 calls, histVars>>

Commit(e) ==
  /\ request[e] = "open"
  /\ request' = [request EXCEPT ![e] = "committed"]
  /\ row' = [row EXCEPT ![e] = "queued"]
  /\ credential' = [credential EXCEPT ![e] = "live"]
  /\ UNCHANGED <<clock, verdict, stepSets, expires, inputVars, brokerVars,
                 faults, workerVars, calls, histVars>>

\* The publish was not confirmed or the commit failed after it: the row and
\* the credential roll back, the envelope does not.
RollBack(e) ==
  /\ request[e] = "open"
  /\ request' = [request EXCEPT ![e] = "rolledBack"]
  /\ UNCHANGED <<clock, rowVars, expires, inputVars, brokerVars, faults,
                 workerVars, calls, histVars>>

\* Broken: the terminal transition leaves the credential alone.
RevokeCredentialBroken(e) == credential' = credential
RevokeCredential(e) ==
  credential' = [credential EXCEPT ![e] = IF @ = "live" THEN "revoked" ELSE @]

Cancel(e) ==
  /\ row[e] \in Cancellable
  /\ row' = [row EXCEPT ![e] = "cancelled"]
  /\ RevokeCredential(e)
  /\ UNCHANGED <<clock, request, verdict, stepSets, expires, inputVars,
                 brokerVars, faults, workerVars, calls, histVars>>

(***************************************************************************)
(* The worker process                                                      *)
(***************************************************************************)

\* External: whoever provisions workers starts process w with the credential
\* of e in its environment.
Launch(w, e) ==
  /\ env[w] = None
  /\ request[e] # "new" /\ expires[e] > 0
  /\ Cardinality({v \in Workers : env[v] = e}) < ProcessesPerExecution
  /\ env' = [env EXCEPT ![w] = e]
  /\ UNCHANGED <<clock, request, rowVars, expires, inputVars, brokerVars,
                 faults, pc, job, token, consumed, sent, report, calls,
                 histVars>>

\* The environment's one-time credential source: it answers only for its own
\* execution, only once, and only before the credential's expiry.
CredentialFound(w, e) == env[w] = e /\ ~consumed[w] /\ clock < expires[e]

\* Broken: the source hands the credential out again.
ResolveBroken(w, e) == consumed' = consumed
\* Resolve consumes the environment's credential even when it has expired.
Resolve(w, e) ==
  consumed' = [consumed EXCEPT ![w] = @ \/ env[w] = e]

\* The broker hands one copy of e's envelope to an idle process.
Take(w, e) ==
  /\ pc[w] = "idle"
  /\ broker[e] > 0
  /\ broker' = [broker EXCEPT ![e] = @ - 1]
  /\ delivered' = delivered \cup {e}

\* A token was found: build the client and post worker-started.
Begin(w, e) ==
  /\ Take(w, e)
  /\ CredentialFound(w, e) \/ WorkerFallback
  /\ Resolve(w, e)
  /\ LET tok == IF CredentialFound(w, e) THEN "credential" ELSE "shared"
     IN  /\ token' = [token EXCEPT ![w] = tok]
         /\ calls' = calls \cup {CallOf(w, "started", e, tok, None)}
  /\ pc' = [pc EXCEPT ![w] = "starting"]
  /\ job' = [job EXCEPT ![w] = e]
  /\ UNCHANGED <<clock, request, rowVars, expires, inputVars, faults, env,
                 sent, report, histVars>>

\* No token: started_delivery_failed, and the envelope is gone.
Refuse(w, e) ==
  /\ Take(w, e)
  /\ ~CredentialFound(w, e) /\ ~WorkerFallback
  /\ Resolve(w, e)
  /\ UNCHANGED <<clock, request, rowVars, expires, inputVars, faults, pc, job,
                 token, env, sent, report, calls, histVars>>

\* Broken: the next run of the process inherits the count.
BecomeIdleBroken(w) ==
  /\ pc' = [pc EXCEPT ![w] = "idle"]
  /\ job' = [job EXCEPT ![w] = None]
  /\ token' = [token EXCEPT ![w] = "none"]
  /\ report' = [report EXCEPT ![w] = None]
  /\ late' = [late EXCEPT ![w] = 0]
  /\ UNCHANGED sent
\* The run is over for this process, whatever became of the row.
BecomeIdle(w) ==
  /\ pc' = [pc EXCEPT ![w] = "idle"]
  /\ job' = [job EXCEPT ![w] = None]
  /\ token' = [token EXCEPT ![w] = "none"]
  /\ sent' = [sent EXCEPT ![w] = 0]
  /\ report' = [report EXCEPT ![w] = None]
  /\ late' = [late EXCEPT ![w] = 0]

\* The runner returned r: post worker-finished once, without retry.
Deliver(w, r) ==
  /\ pc' = [pc EXCEPT ![w] = "finishing"]
  /\ report' = [report EXCEPT ![w] = r]
  /\ calls' = calls \cup {CallOf(w, "finished", job[w], token[w], r)}
  /\ UNCHANGED <<job, token, env, consumed, sent>>

Goto(w, label) ==
  /\ pc' = [pc EXCEPT ![w] = label]
  /\ UNCHANGED <<job, token, env, consumed, sent, report, calls>>

controlPlane == <<clock, request, rowVars, expires, inputVars, brokerVars>>

\* The answer of the kill-switch endpoint.
\* Broken: it looks only at the row.
PollAnswerBroken(e) == row[e] \in Terminal
PollAnswer(e) == row[e] = "absent" \/ row[e] \in Terminal \/ killSwitch

\* Broken: off by one.
BudgetLeftBroken(w) == sent[w] <= MaxRequests
BudgetLeft(w) == sent[w] < MaxRequests

\* The kill-switch poll that precedes each target request.
Poll(w) ==
  /\ pc[w] = "poll"
  /\ \/ /\ PollAnswer(job[w])
        /\ Deliver(w, Blocked)
     \/ /\ ~PollAnswer(job[w]) /\ ~BudgetLeft(w)
        /\ \E r \in Indefinite : Deliver(w, r)
     \/ /\ ~PollAnswer(job[w]) /\ BudgetLeft(w)
        /\ Goto(w, "request")
  /\ UNCHANGED <<controlPlane, faults, histVars>>

\* The poll before the result is evaluated.
LastPoll(w) ==
  /\ pc[w] = "lastPoll"
  /\ \/ /\ PollAnswer(job[w])
        /\ Deliver(w, Blocked)
     \/ /\ ~PollAnswer(job[w])
        /\ \E r \in Definitive : Deliver(w, r)
  /\ UNCHANGED <<controlPlane, faults, histVars>>

\* A poll that fails in transport or answers anything but a boolean aborts.
PollFails(w) ==
  /\ pc[w] \in {"poll", "lastPoll"}
  /\ Fault("pollFailure")
  /\ Deliver(w, Blocked)
  /\ UNCHANGED <<controlPlane, histVars>>

CountLate(w) ==
  late' = [late EXCEPT ![w] = IF Stopped(job[w]) THEN @ + 1 ELSE @]

\* One target request: it is redirected or retried with GET, it is the final
\* response, it times out or errs, or the target is refused.
Request(w) ==
  /\ pc[w] = "request"
  /\ CountLate(w)
  /\ \/ \E label \in {"poll", "lastPoll"} :
          /\ pc' = [pc EXCEPT ![w] = label]
          /\ sent' = [sent EXCEPT ![w] = @ + 1]
          /\ UNCHANGED <<job, token, env, consumed, report, calls>>
     \/ \E r \in Indefinite \cup {Blocked} : Deliver(w, r)
  /\ UNCHANGED <<controlPlane, faults, scans>>

\* The runner raised or refused the payload (closed out as failed_safely), or
\* the frozen target is outside the frozen scope (blocked).
RunnerFails(w) ==
  /\ pc[w] \in {"poll", "lastPoll"}
  /\ \E r \in Indefinite \cup {Blocked} : Deliver(w, r)
  /\ UNCHANGED <<controlPlane, faults, histVars>>

\* The process dies and is started again with the same environment.
Restart(w) ==
  /\ Fault("restart")
  /\ BecomeIdle(w)
  /\ consumed' = [consumed EXCEPT ![w] = FALSE]
  /\ calls' = {[c EXCEPT !.awaited = @ /\ c.worker # w] : c \in calls}
  /\ UNCHANGED <<controlPlane, env, scans>>

(***************************************************************************)
(* The hooks                                                               *)
(***************************************************************************)

Move(c, stage) == calls' = (calls \ {c}) \cup {[c EXCEPT !.stage = stage]}

\* An answer nobody waits for is dropped.
\* Broken: every answer is dropped.
AnswerBroken(c, stage) == calls' = calls \ {c}
Answer(c, stage) ==
  calls' = (calls \ {c}) \cup IF c.awaited THEN {[c EXCEPT !.stage = stage]} ELSE {}

\* Broken: the credential does not allow worker-finished.
AcceptedBroken(c) ==
  /\ c.hook = "started"
  /\ credential[c.job] = "live" /\ clock < expires[c.job]
\* The credential row is found by its digest and is neither revoked nor
\* expired, or the shared token is presented and the fallback is enabled.
Accepted(c) ==
  \/ c.token = "credential" /\ credential[c.job] = "live" /\ clock < expires[c.job]
  \/ c.token = "shared" /\ ServerFallback

\* The unlocked read at the start of the hook's transaction.
Authenticate(c) ==
  /\ c.stage = "wire"
  /\ IF Accepted(c) THEN Move(c, "authenticated") ELSE Answer(c, "rejected")
  /\ UNCHANGED <<controlPlane, faults, workerVars, histVars>>

WorkerStarted(c) ==
  /\ c.hook = "started" /\ c.stage = "authenticated"
  /\ \/ /\ row[c.job] \in Startable
        /\ row' = [row EXCEPT ![c.job] = "executing"]
        /\ Answer(c, "accepted")
     \/ /\ row[c.job] = "executing"
        /\ Answer(c, "accepted")
        /\ UNCHANGED row
     \/ /\ row[c.job] \notin Startable \cup {"executing"}
        /\ Answer(c, "rejected")
        /\ UNCHANGED row
  /\ UNCHANGED <<clock, request, verdict, stepSets, credential, expires,
                 inputVars, brokerVars, faults, workerVars, histVars>>

StatusOf(r) == IF r \in Definitive THEN "succeeded" ELSE "failed"

\* Broken: a finish with the same status but another report passes for a duplicate.
ResultMatchesBroken(e, r) == row[e] = StatusOf(r)
ResultMatches(e, r) == row[e] = StatusOf(r) /\ verdict[e] = r

\* Broken: a finish may overwrite a recorded result.
RecordableBroken(e) == row[e] \in ResultTerminal \cup {"executing"}
Recordable(e) == row[e] = "executing"

RecordResult(c) ==
  /\ Recordable(c.job)
  /\ row' = [row EXCEPT ![c.job] = StatusOf(c.report)]
  /\ verdict' = [verdict EXCEPT ![c.job] = c.report]
  /\ stepSets' = [stepSets EXCEPT ![c.job] = @ + 1]
  /\ RevokeCredential(c.job)
  /\ Answer(c, "accepted")

WorkerFinished(c) ==
  /\ c.hook = "finished" /\ c.stage = "authenticated"
  /\ \/ RecordResult(c)
     \/ /\ row[c.job] \in ResultTerminal /\ ResultMatches(c.job, c.report)
        /\ Answer(c, "accepted")
        /\ UNCHANGED rowVars
     \/ /\ ~Recordable(c.job)
        /\ ~(row[c.job] \in ResultTerminal /\ ResultMatches(c.job, c.report))
        /\ Answer(c, "rejected")
        /\ UNCHANGED rowVars
  /\ UNCHANGED <<clock, request, expires, inputVars, brokerVars, faults,
                 workerVars, histVars>>

\* Broken: the worker runs whatever the control plane answered.
MayRunBroken(c) == c.hook = "started"
MayRun(c) == c.hook = "started" /\ c.stage = "accepted"

\* The awaited answer reaches the worker: an accepted start begins the run,
\* any other answer ends it.
Respond(c) ==
  /\ c.awaited /\ c.stage \in {"accepted", "rejected"}
  /\ calls' = calls \ {c}
  /\ IF MayRun(c)
     THEN /\ pc' = [pc EXCEPT ![c.worker] = "poll"]
          /\ scans' = [scans EXCEPT ![c.job] = @ + 1]
          /\ UNCHANGED <<job, token, sent, report, late>>
     ELSE BecomeIdle(c.worker) /\ UNCHANGED scans
  /\ UNCHANGED <<controlPlane, faults, env, consumed>>

\* The worker gives up on a hook call: a transport error or its delivery
\* timeout.  The request itself may still be served.
Abandon(c) ==
  /\ c.awaited
  /\ Fault("timeout")
  /\ calls' = (calls \ {c}) \cup
       IF c.stage \in {"wire", "authenticated"} THEN {[c EXCEPT !.awaited = FALSE]} ELSE {}
  /\ BecomeIdle(c.worker)
  /\ UNCHANGED <<controlPlane, env, consumed, scans>>

\* The request never reaches the control plane.
Lose(c) ==
  /\ c.awaited /\ c.stage = "wire"
  /\ Fault("loss")
  /\ calls' = calls \ {c}
  /\ BecomeIdle(c.worker)
  /\ UNCHANGED <<controlPlane, env, consumed, scans>>

(***************************************************************************)
(* The surroundings                                                        *)
(***************************************************************************)

\* External: the broker did not see the acknowledgement of a delivered
\* envelope and puts a copy back.
Redeliver(e) ==
  /\ e \in delivered
  /\ Fault("redelivery")
  /\ broker' = [broker EXCEPT ![e] = @ + 1]
  /\ UNCHANGED <<clock, request, rowVars, expires, inputVars, delivered,
                 workerVars, calls, histVars>>

\* An operator toggles the engagement's kill switch.  Lowering it ends the
\* stop signal of every run that is not closed.
SetKillSwitch(b) ==
  /\ b # killSwitch
  /\ killSwitch' = b
  /\ late' = [w \in Workers |->
       IF job[w] \in Executions /\ row[job[w]] \notin Terminal THEN 0 ELSE late[w]]
  /\ UNCHANGED <<clock, request, rowVars, expires, eligible, brokerVars, faults,
                 workerVars, calls, scans>>

\* The authorization, the asset or the engagement becomes, or ceases to be,
\* usable for new executions.
ChangeEligibility ==
  /\ eligible' = ~eligible
  /\ UNCHANGED <<clock, request, rowVars, expires, killSwitch, brokerVars, faults,
                 workerVars, calls, histVars>>

Tick ==
  /\ clock < MaxTime
  /\ clock' = clock + 1
  /\ UNCHANGED <<request, rowVars, expires, inputVars, brokerVars, faults,
                 workerVars, calls, histVars>>

-----------------------------------------------------------------------------

CreateStep(e)  == Create(e) \/ Commit(e) \/ RollBack(e) \/ Cancel(e) \/ Redeliver(e)
WorkerStep(w)  == Poll(w) \/ LastPoll(w) \/ PollFails(w) \/ Request(w)
                  \/ RunnerFails(w) \/ Restart(w)
BrokerStep(w, e) == Launch(w, e) \/ Begin(w, e) \/ Refuse(w, e)
HookStep(c)    == Authenticate(c) \/ WorkerStarted(c) \/ WorkerFinished(c)
CallStep(c)    == HookStep(c) \/ Respond(c) \/ Abandon(c) \/ Lose(c)

Next ==
  \/ \E e \in Executions : CreateStep(e)
  \/ \E w \in Workers : WorkerStep(w)
  \/ \E w \in Workers, e \in Executions : BrokerStep(w, e)
  \/ \E c \in calls : CallStep(c)
  \/ \E b \in BOOLEAN : SetKillSwitch(b)
  \/ ChangeEligibility
  \/ Tick

Spec == Init /\ [][Next]_vars

(***************************************************************************)
(* Fairness.  A worker process that is alive goes on with its run, the     *)
(* control plane serves the requests it received and open transactions     *)
(* end; nothing obliges an operator, a fault, the clock or the broker.     *)
(***************************************************************************)

Progress(w) ==
  \/ Poll(w) \/ LastPoll(w) \/ Request(w)
  \/ \E c \in calls : c.worker = w /\ (HookStep(c) \/ Respond(c))

Fairness ==
  /\ \A w \in Workers : WF_vars(Progress(w))
  /\ \A e \in Executions : WF_vars(Commit(e) \/ RollBack(e))

FairSpec == Spec /\ Fairness

(***************************************************************************)
(* Properties                                                              *)
(***************************************************************************)

TypeOK ==
  /\ clock \in 0..MaxTime
  /\ request \in [Executions -> {"new", "open", "committed", "rolledBack"}]
  /\ row \in [Executions -> Statuses]
  /\ verdict \in [Executions -> Reports \cup {None}]
  /\ stepSets \in [Executions -> Nat]
  /\ credential \in [Executions -> {"none", "live", "revoked"}]
  /\ expires \in [Executions -> Nat]
  /\ eligible \in BOOLEAN /\ killSwitch \in BOOLEAN
  /\ broker \in [Executions -> Nat]
  /\ delivered \subseteq Executions
  /\ faults \in 0..MaxFaults
  /\ pc \in [Workers -> Running \cup {"idle", "starting", "finishing"}]
  /\ job \in [Workers -> Executions \cup {None}]
  /\ token \in [Workers -> Tokens \cup {"none"}]
  /\ env \in [Workers -> Executions \cup {None}]
  /\ consumed \in [Workers -> BOOLEAN]
  /\ sent \in [Workers -> 0..MaxRequests]
  /\ report \in [Workers -> Reports \cup {None}]
  /\ calls \subseteq Calls
  /\ late \in [Workers -> Nat]
  /\ scans \in [Executions -> Nat]

\* The credential of an execution is revoked exactly when its row is closed:
\* no terminal transition leaves a usable credential, and no live run loses
\* its credential to anything but its own end (_revoke_worker_credentials).
RevokedIffClosed ==
  \A e \in Executions : credential[e] = "revoked" <=> row[e] \in Terminal

\* A row carries the step rows of exactly one report when it ended with a
\* result and of none otherwise, and its status is the one that report
\* implies, however many finish calls raced, were repeated or came late.
OneResult ==
  \A e \in Executions :
    /\ stepSets[e] = IF row[e] \in ResultTerminal THEN 1 ELSE 0
    /\ row[e] \in ResultTerminal => verdict[e] \in Reports /\ row[e] = StatusOf(verdict[e])
    /\ row[e] \notin ResultTerminal => verdict[e] = None

\* A worker whose finish was answered with success finds exactly its own
\* report in the row, now and ever after (worker_finished answers a duplicate
\* with success only if the stored result matches).
AcknowledgedIsRecorded ==
  \A c \in calls : c.hook = "finished" /\ c.stage = "accepted" =>
    verdict[c.job] = c.report

\* A worker that may send a target request works for a row that was committed
\* and started: the envelope of a rolled-back request, or one delivered before
\* its row is visible, never reaches the target.
ScanOnlyStarted ==
  \A w \in Workers : pc[w] \in Running =>
    /\ job[w] \in Executions
    /\ row[job[w]] \in {"executing"} \cup Terminal
    /\ request[job[w]] = "committed"

\* Once a run has to stop, its worker sends at most the one request whose
\* poll it has already passed (the executor polls before each request).
StopsPromptly == \A w \in Workers : late[w] <= 1

\* One dispatch runs the scanner at most once.
ScannedOnce == \A e \in Executions : scans[e] <= 1

\* A step that leaves the closed rows, their reports, steps and credentials alone.
KeepsClosed ==
  \A e \in Executions : row[e] \in Terminal =>
    /\ row'[e] = row[e]
    /\ verdict'[e] = verdict[e]
    /\ stepSets'[e] = stepSets[e]
    /\ credential'[e] = credential[e]

\* Closed rows are final: status, verdict, step rows and credential of a
\* closed execution never change again, and no report replaces another.
ClosedIsFinal == [][KeepsClosed]_vars

\* The row and its report follow the abstract lifecycle: every handler, call,
\* fault and race moves an execution by one lifecycle step or not at all.
Lifecycle == INSTANCE ExecutionLifecycle
  WITH Indefinite <- Indefinite \cup {Blocked}, status <- row, result <- verdict

ImplementsLifecycle == Lifecycle!Spec

\* The run of worker w.  The count of requests goes with the run.
Run(w) == INSTANCE TargetRun WITH
  phase <- IF pc[w] \in Running THEN pc[w] ELSE "over",
  sent <- IF pc[w] \in Running THEN sent[w] ELSE 0,
  stop <- PollAnswer(job[w]), report <- report[w]

\* A run begins as a target run does, with nothing left of the run before it,
\* and each step of it is one of a target run, unless its process dies.
RunSteps == \A w \in Workers :
  /\ pc[w] \in Running => Restart(w) \/ [Run(w)!Next]_(Run(w)!vars)
  /\ pc[w] \notin Running /\ pc'[w] \in Running => (Run(w)!Init)'

\* Whatever its calls are answered, and whatever becomes of its row, what a
\* worker does between an accepted start and its report is a target run: the
\* scanner is polled, bounded and reported once.
RunsAreTargetRuns == [][RunSteps]_vars

\* A worker that took an envelope is free again after finitely many steps,
\* whatever its calls were answered and however the target behaved.
RunsEnd == \A w \in Workers : pc[w] # "idle" ~> pc[w] = "idle"

\* A started execution is closed and does not linger in executing, unless a
\* fault strikes or its credential expires first.
ExecutingCloses ==
  \A e \in Executions : row[e] = "executing" ~>
    \/ row[e] \in Terminal
    \/ faults > 0 \/ clock >= expires[e]

\* A run whose scanner failed is closed out by the failed_safely report.
FailedRunCloses ==
  \A e \in Executions, w \in Workers :
    (pc[w] = "finishing" /\ job[w] = e /\ report[w] \in Indefinite)
      ~> row[e] \in Terminal

=============================================================================
