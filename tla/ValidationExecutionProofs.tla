---------------------- MODULE ValidationExecutionProofs ----------------------
(***************************************************************************)
(* Proofs about ValidationExecution, for every set of executions and       *)
(* workers, every budget, every credential lifetime and every number and   *)
(* mix of faults.                                                          *)
(***************************************************************************)
EXTENDS ValidationExecution, FiniteSetTheorems, TLAPS

-----------------------------------------------------------------------------
(***************************************************************************)
(* Types.  TypeOK is not inductive: the bound on sent rests on the poll    *)
(* that checked the budget, and a report is posted with the job and token  *)
(* the process holds.                                                      *)
(***************************************************************************)

Busy == \A w \in Workers :
  pc[w] # "idle" => job[w] \in Executions /\ token[w] \in Tokens

Budget == \A w \in Workers : pc[w] = "request" => sent[w] < MaxRequests

Reported == \A c \in calls : c.hook = "finished" => c.report \in Reports

Typing == TypeOK /\ Busy /\ Budget /\ Reported

\* A process waits for one call at a time, and for the call of its own stage
\* and job.
Waiting ==
  /\ \A c \in calls : c.awaited =>
       /\ pc[c.worker] = IF c.hook = "started" THEN "starting" ELSE "finishing"
       /\ job[c.worker] = c.job
  /\ \A c, d \in calls : c.awaited /\ d.awaited /\ c.worker = d.worker => c = d

\* A new call is well typed.
LEMMA CallOfType ==
  ASSUME NEW w \in Workers, NEW h \in Hooks, NEW e \in Executions,
         NEW tok \in Tokens, NEW r \in Reports \cup {None}
  PROVE  CallOf(w, h, e, tok, r) \in Calls
BY DEF CallOf, Calls, Stages

\* Moving a call to another stage, or no longer waiting for it, keeps its type
\* and its content.
LEMMA StageType ==
  ASSUME NEW c \in Calls, NEW s \in Stages
  PROVE  /\ [c EXCEPT !.stage = s] \in Calls
         /\ [c EXCEPT !.stage = s].hook = c.hook
         /\ [c EXCEPT !.stage = s].report = c.report
         /\ [c EXCEPT !.stage = s].job = c.job
         /\ [c EXCEPT !.stage = s].worker = c.worker
         /\ [c EXCEPT !.stage = s].awaited = c.awaited
         /\ [c EXCEPT !.stage = s].stage = s
BY DEF Calls

\* Whether a call is awaited can change without changing anything else of it.
LEMMA AwaitedType ==
  ASSUME NEW c \in Calls, NEW b \in BOOLEAN
  PROVE  /\ [c EXCEPT !.awaited = b] \in Calls
         /\ [c EXCEPT !.awaited = b].hook = c.hook
         /\ [c EXCEPT !.awaited = b].report = c.report
         /\ [c EXCEPT !.awaited = b].job = c.job
         /\ [c EXCEPT !.awaited = b].worker = c.worker
         /\ [c EXCEPT !.awaited = b].awaited = b
         /\ [c EXCEPT !.awaited = b].stage = c.stage
BY DEF Calls

\* The initial states are well typed and no worker is busy.
LEMMA InitTyping == Init => Typing
<1> SUFFICES ASSUME Init PROVE Typing
  OBVIOUS
<1>1. TypeOK
  <2>1. /\ clock \in 0..MaxTime
        /\ faults \in 0..MaxFaults
        /\ sent \in [Workers -> 0..MaxRequests]
    BY ConstantsAssumption DEF Init
  <2>2. /\ request \in [Executions -> {"new", "open", "committed", "rolledBack"}]
        /\ row \in [Executions -> Statuses]
        /\ verdict \in [Executions -> Reports \cup {None}]
        /\ stepSets \in [Executions -> Nat]
        /\ credential \in [Executions -> {"none", "live", "revoked"}]
        /\ expires \in [Executions -> Nat]
        /\ broker \in [Executions -> Nat]
        /\ scans \in [Executions -> Nat]
    BY DEF Init, Statuses
  <2>3. /\ pc \in [Workers -> Running \cup {"idle", "starting", "finishing"}]
        /\ job \in [Workers -> Executions \cup {None}]
        /\ token \in [Workers -> Tokens \cup {"none"}]
        /\ env \in [Workers -> Executions \cup {None}]
        /\ consumed \in [Workers -> BOOLEAN]
        /\ report \in [Workers -> Reports \cup {None}]
        /\ late \in [Workers -> Nat]
    BY DEF Init
  <2>4. /\ eligible \in BOOLEAN /\ killSwitch \in BOOLEAN
        /\ delivered \subseteq Executions
        /\ calls \subseteq Calls
    BY DEF Init
  <2> QED BY <2>1, <2>2, <2>3, <2>4 DEF TypeOK
<1>2. Busy /\ Budget /\ Reported
  BY DEF Init, Busy, Budget, Reported
<1> QED BY <1>1, <1>2 DEF Typing

\* Creating, cancelling and redelivering an execution touch no worker: they keep the typing.
LEMMA CreateTyping ==
  ASSUME Typing, NEW e \in Executions, CreateStep(e)
  PROVE  Typing'
<1>1. CASE Create(e)
  BY <1>1, ConstantsAssumption
     DEF Typing, TypeOK, Busy, Budget, Reported, Create, Earlier, rowVars,
         inputVars, workerVars, histVars
<1>2. CASE Commit(e)
  BY <1>2 DEF Typing, TypeOK, Busy, Budget, Reported, Commit, Statuses,
              inputVars, brokerVars, workerVars, histVars
<1>3. CASE RollBack(e)
  BY <1>3 DEF Typing, TypeOK, Busy, Budget, Reported, RollBack, rowVars,
              inputVars, brokerVars, workerVars, histVars
<1>4. CASE Cancel(e)
  BY <1>4 DEF Typing, TypeOK, Busy, Budget, Reported, Cancel, RevokeCredential, Statuses,
              inputVars, brokerVars, workerVars, histVars
<1>5. CASE Redeliver(e)
  BY <1>5, ConstantsAssumption
     DEF Typing, TypeOK, Busy, Budget, Reported, Redeliver, Fault, rowVars,
         inputVars, workerVars, histVars
<1> QED BY <1>1, <1>2, <1>3, <1>4, <1>5 DEF CreateStep

\* Posting a report keeps the worker's variables and the calls well typed.
LEMMA DeliverTyping ==
  ASSUME Typing, NEW w \in Workers, pc[w] # "idle", NEW r \in Reports, Deliver(w, r)
  PROVE  /\ pc' \in [Workers -> Running \cup {"idle", "starting", "finishing"}]
         /\ report' \in [Workers -> Reports \cup {None}]
         /\ calls' \subseteq Calls
         /\ job' = job /\ token' = token /\ env' = env
         /\ consumed' = consumed /\ sent' = sent
         /\ Busy' /\ Budget' /\ Reported'
<1> DEFINE c == CallOf(w, "finished", job[w], token[w], r)
<1>1. job[w] \in Executions /\ token[w] \in Tokens
  BY DEF Typing, Busy
<1>2. c \in Calls
  BY <1>1, CallOfType DEF Hooks
<1>3. c.report = r
  BY DEF CallOf
<1>4. calls' \subseteq Calls /\ Reported'
  BY <1>2, <1>3 DEF Deliver, Typing, TypeOK, Reported
<1>5. Busy' /\ Budget'
  BY DEF Deliver, Typing, TypeOK, Busy, Budget
<1> QED BY <1>4, <1>5 DEF Deliver, Typing, TypeOK

\* A worker's own steps keep the typing and what is known of its job, budget and report.
LEMMA WorkerTyping ==
  ASSUME Typing, NEW w \in Workers, WorkerStep(w)
  PROVE  Typing'
<1> USE DEF controlPlane, rowVars, inputVars, brokerVars, histVars
<1>1. CASE Poll(w)
  <2>1. CASE \E r \in Reports : Deliver(w, r)
    BY <1>1, <2>1, DeliverTyping DEF Poll, Typing, TypeOK
  <2>2. CASE BudgetLeft(w) /\ Goto(w, "request")
    BY <1>1, <2>2 DEF Poll, Goto, BudgetLeft, Running, Typing, TypeOK, Busy, Budget, Reported
  <2> QED BY <1>1, <2>1, <2>2 DEF Poll, Reports
<1>2. CASE LastPoll(w)
  <2>1. \E r \in Reports : Deliver(w, r)
    BY <1>2 DEF LastPoll, Reports
  <2> QED BY <1>2, <2>1, DeliverTyping DEF LastPoll, Typing, TypeOK
<1>3. CASE PollFails(w)
  <2>1. Blocked \in Reports /\ pc[w] # "idle"
    BY <1>3 DEF PollFails, Reports
  <2>2. faults' \in 0..MaxFaults
    BY <1>3, ConstantsAssumption DEF PollFails, Fault, Typing, TypeOK
  <2> QED BY <1>3, <2>1, <2>2, DeliverTyping DEF PollFails, Typing, TypeOK
<1>4. CASE Request(w)
  <2>1. late' \in [Workers -> Nat]
    BY <1>4 DEF Request, CountLate, Typing, TypeOK
  <2>2. CASE \E r \in Reports : Deliver(w, r)
    BY <1>4, <2>1, <2>2, DeliverTyping DEF Request, Typing, TypeOK
  <2>3. ASSUME NEW label \in {"poll", "lastPoll"}, pc' = [pc EXCEPT ![w] = label],
               sent' = [sent EXCEPT ![w] = @ + 1],
               UNCHANGED <<job, token, env, consumed, report, calls>>
        PROVE  Typing'
    <3>1. sent' \in [Workers -> 0..MaxRequests]
      BY <1>4, <2>3, ConstantsAssumption DEF Request, Typing, TypeOK, Budget
    <3>2. Busy' /\ Budget' /\ Reported'
      BY <1>4, <2>3 DEF Request, Typing, TypeOK, Busy, Budget, Reported
    <3> QED BY <1>4, <2>1, <2>3, <3>1, <3>2 DEF Request, Running, Typing, TypeOK
  <2> QED BY <1>4, <2>2, <2>3 DEF Request, Reports
<1>5. CASE RunnerFails(w)
  <2>1. \E r \in Reports : Deliver(w, r)
    BY <1>5 DEF RunnerFails, Reports
  <2> QED BY <1>5, <2>1, DeliverTyping DEF RunnerFails, Typing, TypeOK
<1>6. CASE Restart(w)
  <2>1. faults' \in 0..MaxFaults
    BY <1>6, ConstantsAssumption DEF Restart, Fault, Typing, TypeOK
  <2>2. calls' \subseteq Calls /\ Reported'
    <3> SUFFICES ASSUME NEW d \in calls'
                 PROVE  d \in Calls /\ (d.hook = "finished" => d.report \in Reports)
      BY DEF Reported
    <3>1. PICK c \in calls : d = [c EXCEPT !.awaited = @ /\ c.worker # w]
      BY <1>6 DEF Restart
    <3> DEFINE b == c.awaited /\ c.worker # w
    <3>2. c \in Calls /\ b \in BOOLEAN
      BY DEF Typing, TypeOK
    <3>3. d = [c EXCEPT !.awaited = b]
      BY <3>1
    <3> HIDE DEF b
    <3>4. d \in Calls /\ d.hook = c.hook /\ d.report = c.report
      BY <3>2, <3>3, AwaitedType
    <3> QED BY <3>4 DEF Typing, Reported
  <2>3. sent' \in [Workers -> 0..MaxRequests] /\ late' \in [Workers -> Nat]
    BY <1>6, ConstantsAssumption DEF Restart, BecomeIdle, Typing, TypeOK
  <2>4. Busy' /\ Budget'
    BY <1>6 DEF Restart, BecomeIdle, Typing, TypeOK, Busy, Budget
  <2> QED BY <1>6, <2>1, <2>2, <2>3, <2>4 DEF Restart, BecomeIdle, Typing, TypeOK
<1> QED BY <1>1, <1>2, <1>3, <1>4, <1>5, <1>6 DEF WorkerStep

\* Launching a worker, and its taking or refusing an envelope, keep the typing.
LEMMA BrokerTyping ==
  ASSUME Typing, NEW w \in Workers, NEW e \in Executions, BrokerStep(w, e)
  PROVE  Typing'
<1> USE DEF rowVars, inputVars, histVars
<1>1. CASE Launch(w, e)
  BY <1>1 DEF Launch, brokerVars, Typing, TypeOK, Busy, Budget, Reported
<1>2. ASSUME Take(w, e), Resolve(w, e)
      PROVE  /\ broker' \in [Executions -> Nat]
             /\ delivered' \subseteq Executions
             /\ consumed' \in [Workers -> BOOLEAN]
  <2>1. broker' \in [Executions -> Nat] /\ delivered' \subseteq Executions
    BY <1>2 DEF Take, Typing, TypeOK
  <2>2. (consumed[w] \/ env[w] = e) \in BOOLEAN
    OBVIOUS
  <2>3. consumed' = [consumed EXCEPT ![w] = consumed[w] \/ env[w] = e]
    BY <1>2 DEF Resolve
  <2>4. consumed' \in [Workers -> BOOLEAN]
    BY <2>2, <2>3 DEF Typing, TypeOK
  <2> QED BY <2>1, <2>4
<1>3. CASE Begin(w, e)
  <2>1. PICK tok \in Tokens :
          /\ token' = [token EXCEPT ![w] = tok]
          /\ calls' = calls \cup {CallOf(w, "started", e, tok, None)}
    BY <1>3 DEF Begin, Tokens
  <2>2. calls' \subseteq Calls
    BY <2>1, CallOfType DEF Hooks, Typing, TypeOK
  <2>3. Reported'
    BY <2>1 DEF CallOf, Typing, Reported
  <2>4. Busy' /\ Budget'
    BY <1>3, <2>1 DEF Begin, Typing, TypeOK, Busy, Budget
  <2> QED BY <1>2, <1>3, <2>1, <2>2, <2>3, <2>4 DEF Begin, Typing, TypeOK
<1>4. CASE Refuse(w, e)
  <2>1. Busy' /\ Budget' /\ Reported'
    BY <1>4 DEF Refuse, Typing, Busy, Budget, Reported
  <2> QED BY <1>2, <1>4, <2>1 DEF Refuse, Typing, TypeOK
<1> QED BY <1>1, <1>3, <1>4 DEF BrokerStep

\* What the steps of a call do to the set of calls: each call that is left is
\* an old one, possibly at another stage or no longer awaited.
LEMMA MovedCalls ==
  ASSUME calls \subseteq Calls, Reported, NEW c \in calls, NEW s \in Stages,
         Move(c, s) \/ Answer(c, s)
  PROVE  calls' \subseteq Calls /\ Reported'
<1> DEFINE d == [c EXCEPT !.stage = s]
<1>1. d \in Calls /\ d.hook = c.hook /\ d.report = c.report
  BY StageType
<1>2. \A x \in calls' : x \in calls \/ x = d
  BY DEF Move, Answer
<1> QED BY <1>1, <1>2 DEF Reported

\* A revocation keeps the credentials well typed.
LEMMA RevokeTyping ==
  ASSUME credential \in [Executions -> {"none", "live", "revoked"}],
         NEW e \in Executions, RevokeCredential(e)
  PROVE  credential' \in [Executions -> {"none", "live", "revoked"}]
BY DEF RevokeCredential

\* A process that becomes idle is well typed.
LEMMA IdleTyping ==
  ASSUME Typing, NEW w \in Workers, BecomeIdle(w)
  PROVE  /\ pc' \in [Workers -> Running \cup {"idle", "starting", "finishing"}]
         /\ job' \in [Workers -> Executions \cup {None}]
         /\ token' \in [Workers -> Tokens \cup {"none"}]
         /\ sent' \in [Workers -> 0..MaxRequests]
         /\ report' \in [Workers -> Reports \cup {None}]
         /\ late' \in [Workers -> Nat]
         /\ Busy' /\ Budget'
<1>1. sent' \in [Workers -> 0..MaxRequests]
  BY ConstantsAssumption DEF BecomeIdle, Typing, TypeOK
<1>2. Busy' /\ Budget'
  BY DEF BecomeIdle, Typing, TypeOK, Busy, Budget
<1> QED BY <1>1, <1>2 DEF BecomeIdle, Typing, TypeOK

\* Serving, answering or abandoning a hook call keeps the typing.
LEMMA CallTyping ==
  ASSUME Typing, Waiting, NEW c \in calls, CallStep(c)
  PROVE  Typing'
<1> USE DEF controlPlane, rowVars, inputVars, brokerVars, histVars, workerVars
<1>0. c \in Calls /\ c.job \in Executions /\ c.worker \in Workers
      /\ c.report \in Reports \cup {None}
  BY DEF Typing, TypeOK, Calls
<1>1. CASE Authenticate(c)
  <2>1. calls' \subseteq Calls /\ Reported'
    BY <1>1, MovedCalls DEF Authenticate, Stages, Typing, TypeOK
  <2> QED BY <1>1, <2>1 DEF Authenticate, Typing, TypeOK, Busy, Budget
<1>2. CASE WorkerStarted(c)
  <2>1. calls' \subseteq Calls /\ Reported'
    BY <1>2, MovedCalls DEF WorkerStarted, Stages, Typing, TypeOK
  <2>2. row' \in [Executions -> Statuses]
    BY <1>2 DEF WorkerStarted, Statuses, Typing, TypeOK
  <2> QED BY <1>2, <2>1, <2>2 DEF WorkerStarted, Typing, TypeOK, Busy, Budget
<1>3. CASE WorkerFinished(c)
  <2>1. calls' \subseteq Calls /\ Reported'
    BY <1>3, MovedCalls DEF WorkerFinished, RecordResult, Stages, Typing, TypeOK
  <2>2. CASE RecordResult(c)
    <3>1. row' \in [Executions -> Statuses]
      BY <1>0, <2>2 DEF RecordResult, StatusOf, Statuses, Typing, TypeOK
    <3>2. /\ verdict' \in [Executions -> Reports \cup {None}]
          /\ stepSets' \in [Executions -> Nat]
      BY <1>0, <2>2 DEF RecordResult, Typing, TypeOK
    <3>3. credential' \in [Executions -> {"none", "live", "revoked"}]
      BY <1>0, <2>2, RevokeTyping DEF RecordResult, Typing, TypeOK
    <3> QED BY <1>3, <2>1, <3>1, <3>2, <3>3 DEF WorkerFinished, Typing, TypeOK, Busy, Budget
  <2>3. CASE UNCHANGED rowVars
    BY <1>3, <2>1, <2>3 DEF WorkerFinished, Typing, TypeOK, Busy, Budget
  <2> QED BY <1>3, <2>2, <2>3 DEF WorkerFinished
<1>4. CASE Respond(c)
  <2>1. calls' \subseteq Calls /\ Reported'
    BY <1>4 DEF Respond, Typing, TypeOK, Reported
  <2>2. CASE BecomeIdle(c.worker)
    BY <1>0, <1>4, <2>1, <2>2, IdleTyping DEF Respond, Typing, TypeOK
  <2>3. CASE ~BecomeIdle(c.worker)
    <3>1. /\ pc' \in [Workers -> Running \cup {"idle", "starting", "finishing"}]
          /\ scans' \in [Executions -> Nat]
      BY <1>0, <1>4, <2>3 DEF Respond, Running, Typing, TypeOK
    <3>2. pc[c.worker] # "idle"
      BY <1>4 DEF Respond, Waiting
    <3>3. Busy' /\ Budget'
      BY <1>0, <1>4, <2>3, <3>2 DEF Respond, Typing, TypeOK, Busy, Budget
    <3> QED BY <1>4, <2>1, <2>3, <3>1, <3>3 DEF Respond, Typing, TypeOK
  <2> QED BY <2>2, <2>3
<1>5. CASE Abandon(c)
  <2>1. calls' \subseteq Calls /\ Reported'
    <3> DEFINE d == [c EXCEPT !.awaited = FALSE]
    <3>1. d \in Calls /\ d.hook = c.hook /\ d.report = c.report
      BY <1>0, AwaitedType
    <3>2. \A x \in calls' : x \in calls \/ x = d
      BY <1>5 DEF Abandon
    <3> QED BY <3>1, <3>2 DEF Typing, TypeOK, Reported
  <2>2. faults' \in 0..MaxFaults
    BY <1>5, ConstantsAssumption DEF Abandon, Fault, Typing, TypeOK
  <2> QED BY <1>0, <1>5, <2>1, <2>2, IdleTyping DEF Abandon, Typing, TypeOK
<1>6. CASE Lose(c)
  <2>1. calls' \subseteq Calls /\ Reported'
    BY <1>6 DEF Lose, Typing, TypeOK, Reported
  <2>2. faults' \in 0..MaxFaults
    BY <1>6, ConstantsAssumption DEF Lose, Fault, Typing, TypeOK
  <2> QED BY <1>0, <1>6, <2>1, <2>2, IdleTyping DEF Lose, Typing, TypeOK
<1> QED BY <1>1, <1>2, <1>3, <1>4, <1>5, <1>6 DEF CallStep, HookStep

-----------------------------------------------------------------------------
(***************************************************************************)
(* A process waits for one call.                                           *)
(***************************************************************************)

\* Steps that leave the calls and the processes alone.
LEMMA WaitingUnchanged == Waiting /\ UNCHANGED <<calls, pc, job>> => Waiting'
BY DEF Waiting

\* Posting a call when no other is awaited.
LEMMA WaitingPosted ==
  ASSUME Typing, Waiting, NEW w \in Workers, NEW h \in Hooks, NEW e \in Executions,
         NEW tok, NEW r,
         pc[w] \notin {"starting", "finishing"},
         pc' = [pc EXCEPT ![w] = IF h = "started" THEN "starting" ELSE "finishing"],
         job' = [job EXCEPT ![w] = e],
         calls' = calls \cup {CallOf(w, h, e, tok, r)}
  PROVE  Waiting'
<1> DEFINE n == CallOf(w, h, e, tok, r)
<1>1. n.worker = w /\ n.hook = h /\ n.job = e
  BY DEF CallOf
<1>2. \A c \in calls : c.awaited => c.worker # w
  BY DEF Waiting
<1>3. \A c \in calls : c.worker \in Workers
  BY DEF Typing, TypeOK, Calls
<1> HIDE DEF n
<1> QED BY <1>1, <1>2, <1>3 DEF Waiting, Typing, TypeOK, n

\* Posting the report of a run makes an awaited call that belongs to the worker's job.
LEMMA WaitingDelivered ==
  ASSUME Typing, Waiting, NEW w \in Workers, pc[w] \in Running, NEW r, Deliver(w, r)
  PROVE  Waiting'
<1>1. job[w] \in Executions /\ job' = [job EXCEPT ![w] = job[w]]
  BY DEF Typing, TypeOK, Busy, Running, Deliver
<1>2. /\ pc' = [pc EXCEPT ![w] = IF "finished" = "started" THEN "starting" ELSE "finishing"]
      /\ calls' = calls \cup {CallOf(w, "finished", job[w], token[w], r)}
      /\ pc[w] \notin {"starting", "finishing"}
  BY DEF Deliver, Running
<1> QED BY <1>1, <1>2, WaitingPosted DEF Hooks

\* Calls are left alone, and one process that waits for none moves on.
LEMMA WaitingElsewhere ==
  ASSUME Typing, Waiting, NEW w \in Workers, UNCHANGED <<calls, job>>,
         pc[w] \notin {"starting", "finishing"}, NEW label, pc' = [pc EXCEPT ![w] = label]
  PROVE  Waiting'
<1>1. \A c \in calls : c.awaited => c.worker # w
  BY DEF Waiting
<1>2. \A c \in calls : c.worker \in Workers
  BY DEF Typing, TypeOK, Calls
<1> QED BY <1>1, <1>2 DEF Waiting, Typing, TypeOK

\* The call moves to another stage, or its answer is dropped.
LEMMA WaitingMoved ==
  ASSUME Typing, Waiting, NEW c \in calls, NEW s \in Stages,
         Move(c, s) \/ Answer(c, s), UNCHANGED <<pc, job>>
  PROVE  Waiting'
<1> DEFINE d == [c EXCEPT !.stage = s]
<1>1. /\ d.hook = c.hook /\ d.job = c.job /\ d.worker = c.worker
      /\ d.awaited = c.awaited
  BY StageType DEF Typing, TypeOK
<1>2. \A x \in calls' : (x \in calls /\ x # c) \/ x = d
  BY DEF Move, Answer
<1> HIDE DEF d
<1> QED BY <1>1, <1>2 DEF Waiting

\* The process stops waiting: the calls left are those of others, or nobody's.
LEMMA WaitingIdle ==
  ASSUME Typing, Waiting, NEW w \in Workers,
         \A v \in Workers \ {w} : pc'[v] = pc[v] /\ job'[v] = job[v],
         \A x \in calls' : x.awaited => x \in calls /\ x.worker # w
  PROVE  Waiting'
<1>1. \A c \in calls : c.worker \in Workers
  BY DEF Typing, TypeOK, Calls
<1> QED BY <1>1 DEF Waiting

\* A worker's own steps keep an awaited call tied to its job and its stage.
LEMMA WorkerWaiting ==
  ASSUME Typing, Waiting, NEW w \in Workers, WorkerStep(w)
  PROVE  Waiting'
<1>1. ASSUME pc[w] \in Running, \E r \in Reports : Deliver(w, r)
      PROVE  Waiting'
  BY <1>1, WaitingDelivered
<1>2. ASSUME pc[w] \in Running, UNCHANGED <<calls, job>>,
             NEW label, pc' = [pc EXCEPT ![w] = label]
      PROVE  Waiting'
  BY <1>2, WaitingElsewhere DEF Running
<1>3. CASE Poll(w)
  BY <1>1, <1>2, <1>3 DEF Poll, Running, Reports, Goto
<1>4. CASE LastPoll(w)
  BY <1>1, <1>4 DEF LastPoll, Running, Reports
<1>5. CASE PollFails(w)
  BY <1>1, <1>5 DEF PollFails, Running, Reports
<1>6. CASE Request(w)
  BY <1>1, <1>2, <1>6 DEF Request, Running, Reports
<1>7. CASE RunnerFails(w)
  BY <1>1, <1>7 DEF RunnerFails, Running, Reports
<1>8. CASE Restart(w)
  <2>1. ASSUME NEW x \in calls', x.awaited
        PROVE  x \in calls /\ x.worker # w
    <3>1. PICK c \in calls : x = [c EXCEPT !.awaited = @ /\ c.worker # w]
      BY <1>8 DEF Restart
    <3>2. c \in Calls
      BY DEF Typing, TypeOK
    <3>3. x.awaited = (c.awaited /\ c.worker # w) /\ x.worker = c.worker
      BY <3>1, <3>2 DEF Calls
    <3>4. c.awaited = TRUE /\ c.worker # w
      BY <2>1, <3>2, <3>3 DEF Calls
    <3>5. x = c
      BY <3>1, <3>2, <3>4 DEF Calls
    <3> QED BY <3>4, <3>5
  <2>2. \A v \in Workers \ {w} : pc'[v] = pc[v] /\ job'[v] = job[v]
    BY <1>8 DEF Restart, BecomeIdle, Typing, TypeOK
  <2> QED BY <2>1, <2>2, WaitingIdle
<1> QED BY <1>3, <1>4, <1>5, <1>6, <1>7, <1>8 DEF WorkerStep

\* Launching and refusing post nothing; a run that begins posts a call of its own job.
LEMMA BrokerWaiting ==
  ASSUME Typing, Waiting, NEW w \in Workers, NEW e \in Executions, BrokerStep(w, e)
  PROVE  Waiting'
<1>1. CASE Launch(w, e)
  BY <1>1, WaitingUnchanged DEF Launch
<1>2. CASE Refuse(w, e)
  BY <1>2, WaitingUnchanged DEF Refuse
<1>3. CASE Begin(w, e)
  <2>1. PICK tok : calls' = calls \cup {CallOf(w, "started", e, tok, None)}
    BY <1>3 DEF Begin
  <2>2. /\ pc' = [pc EXCEPT ![w] = IF "started" = "started" THEN "starting" ELSE "finishing"]
        /\ job' = [job EXCEPT ![w] = e]
        /\ pc[w] \notin {"starting", "finishing"}
    BY <1>3 DEF Begin, Take
  <2> QED BY <2>1, <2>2, WaitingPosted DEF Hooks
<1> QED BY <1>1, <1>2, <1>3 DEF BrokerStep

\* Serving a call changes how far it is, never whose it is.
LEMMA CallWaiting ==
  ASSUME Typing, Waiting, NEW c \in calls, CallStep(c)
  PROVE  Waiting'
<1>0. c \in Calls /\ c.worker \in Workers
  BY DEF Typing, TypeOK, Calls
<1>1. CASE HookStep(c)
  BY <1>1, WaitingMoved DEF HookStep, Authenticate, WorkerStarted, WorkerFinished,
                            RecordResult, Stages, workerVars
<1>2. ASSUME c.awaited, \A x \in calls' : x.awaited => x \in calls /\ x # c,
             \/ BecomeIdle(c.worker)
             \/ pc' = [pc EXCEPT ![c.worker] = "poll"] /\ UNCHANGED job
      PROVE  Waiting'
  <2>1. \A x \in calls' : x.awaited => x \in calls /\ x.worker # c.worker
    BY <1>2 DEF Waiting
  <2>2. \A v \in Workers \ {c.worker} : pc'[v] = pc[v] /\ job'[v] = job[v]
    BY <1>2 DEF BecomeIdle, Typing, TypeOK
  <2> QED BY <1>0, <2>1, <2>2, WaitingIdle
<1>3. CASE Respond(c)
  BY <1>2, <1>3 DEF Respond
<1>4. CASE Lose(c)
  BY <1>2, <1>4 DEF Lose
<1>5. CASE Abandon(c)
  <2>1. [c EXCEPT !.awaited = FALSE].awaited = FALSE
    BY <1>0, AwaitedType
  <2>2. \A x \in calls' : x.awaited => x \in calls /\ x # c
    BY <1>5, <2>1 DEF Abandon
  <2> QED BY <1>2, <1>5, <2>2 DEF Abandon
<1> QED BY <1>1, <1>3, <1>4, <1>5 DEF CallStep

\* Every step keeps awaited calls tied to their workers.
LEMMA NextWaiting == Typing /\ Waiting /\ [Next]_vars => Waiting'
<1> SUFFICES ASSUME Typing, Waiting, [Next]_vars PROVE Waiting'
  OBVIOUS
<1>1. ASSUME NEW e \in Executions, CreateStep(e) PROVE Waiting'
  BY <1>1, WaitingUnchanged DEF CreateStep, Create, Commit, RollBack, Cancel,
                                Redeliver, workerVars
<1>2. ASSUME \/ \E b \in BOOLEAN : SetKillSwitch(b)
             \/ ChangeEligibility \/ Tick \/ UNCHANGED vars
      PROVE  Waiting'
  BY <1>2, WaitingUnchanged DEF SetKillSwitch, ChangeEligibility, Tick, vars, workerVars
<1> QED BY <1>1, <1>2, WorkerWaiting, BrokerWaiting, CallWaiting DEF Next

\* Every step keeps the typing, given what awaited calls are tied to.
LEMMA NextTyping == Typing /\ Waiting /\ [Next]_vars => Typing'
<1> SUFFICES ASSUME Typing, Waiting, [Next]_vars PROVE Typing'
  OBVIOUS
<1>1. ASSUME NEW b \in BOOLEAN, SetKillSwitch(b) PROVE Typing'
  <2>1. late' \in [Workers -> Nat]
    BY <1>1 DEF SetKillSwitch, Typing, TypeOK
  <2> QED BY <1>1, <2>1 DEF SetKillSwitch, rowVars, brokerVars, workerVars,
                            Typing, TypeOK, Busy, Budget, Reported
<1>2. CASE ChangeEligibility
  BY <1>2 DEF ChangeEligibility, rowVars, brokerVars, workerVars, histVars,
              Typing, TypeOK, Busy, Budget, Reported
<1>3. CASE Tick
  <2>1. clock' \in 0..MaxTime
    BY <1>3, ConstantsAssumption DEF Tick, Typing, TypeOK
  <2> QED BY <1>3, <2>1 DEF Tick, rowVars, inputVars, brokerVars, workerVars,
                            histVars, Typing, TypeOK, Busy, Budget, Reported
<1>4. CASE UNCHANGED vars
  BY <1>4 DEF vars, rowVars, inputVars, brokerVars, workerVars, histVars,
              Typing, TypeOK, Busy, Budget, Reported
<1> QED BY <1>1, <1>2, <1>3, <1>4, CreateTyping, WorkerTyping, BrokerTyping,
           CallTyping DEF Next

\* Every value a variable takes is of its kind: statuses the model knows, a
\* request count within the frozen budget, faults within their bound.
THEOREM TypeCorrect == Spec => []TypeOK
<1>1. Init => Typing /\ Waiting
  BY InitTyping DEF Init, Waiting
<1>2. Typing => TypeOK
  BY DEF Typing
<1> QED BY <1>1, <1>2, NextTyping, NextWaiting, PTL DEF Spec

-----------------------------------------------------------------------------
(***************************************************************************)
(* Rows.  Ledger ties request, row and credential together and says which  *)
(* statuses are ever written; with OneResult it is inductive.              *)
(***************************************************************************)

Written == {"absent", "queued", "executing", "succeeded", "failed", "cancelled"}

CredentialFor(status) ==
  IF status = "absent" THEN "none" ELSE IF status \in Terminal THEN "revoked" ELSE "live"

Ledger == \A e \in Executions :
  /\ row[e] \in Written
  /\ row[e] = "absent" <=> request[e] # "committed"
  /\ credential[e] = CredentialFor(row[e])

Sound == Typing /\ Waiting /\ Ledger /\ OneResult

\* Only four operations write the rows; requests change only around them.
LEMMA RowWriters ==
  ASSUME [Next]_vars
  PROVE  \/ UNCHANGED <<request, rowVars>>
         \/ \E e \in Executions : Create(e) \/ RollBack(e) \/ Commit(e) \/ Cancel(e)
         \/ \E c \in calls : WorkerStarted(c) /\ row[c.job] \in Startable
         \/ \E c \in calls : WorkerFinished(c) /\ RecordResult(c)
<1> USE DEF controlPlane, rowVars
<1>1. ASSUME NEW e \in Executions, CreateStep(e)
      PROVE  UNCHANGED <<request, rowVars>> \/ Create(e) \/ RollBack(e) \/ Commit(e) \/ Cancel(e)
  BY <1>1 DEF CreateStep, Redeliver
<1>2. ASSUME NEW w \in Workers, WorkerStep(w)
      PROVE  UNCHANGED <<request, rowVars>>
  BY <1>2 DEF WorkerStep, Poll, LastPoll, PollFails, Request, RunnerFails, Restart
<1>3. ASSUME NEW w \in Workers, NEW e \in Executions, BrokerStep(w, e)
      PROVE  UNCHANGED <<request, rowVars>>
  BY <1>3 DEF BrokerStep, Launch, Begin, Refuse
<1>4. ASSUME NEW c \in calls, CallStep(c)
      PROVE  \/ UNCHANGED <<request, rowVars>>
             \/ WorkerStarted(c) /\ row[c.job] \in Startable
             \/ WorkerFinished(c) /\ RecordResult(c)
  BY <1>4 DEF CallStep, HookStep, Authenticate, WorkerStarted, WorkerFinished,
              Respond, Abandon, Lose
<1>5. ASSUME \/ \E b \in BOOLEAN : SetKillSwitch(b)
             \/ ChangeEligibility \/ Tick \/ UNCHANGED vars
      PROVE  UNCHANGED <<request, rowVars>>
  BY <1>5 DEF SetKillSwitch, ChangeEligibility, Tick, vars
<1> QED BY <1>1, <1>2, <1>3, <1>4, <1>5 DEF Next

\* The report of a recorded result determines the status.
LEMMA StatusOfReport ==
  ASSUME NEW r \in Reports
  PROVE  StatusOf(r) \in {"succeeded", "failed"} /\ r # None
BY ConstantsAssumption DEF StatusOf

\* What recording a result does to the row.
LEMMA RecordEffect ==
  ASSUME Typing, NEW c \in calls, WorkerFinished(c), RecordResult(c)
  PROVE  /\ c.job \in Executions /\ c.report \in Reports
         /\ row[c.job] = "executing"
         /\ row' = [row EXCEPT ![c.job] = StatusOf(c.report)]
         /\ verdict' = [verdict EXCEPT ![c.job] = c.report]
         /\ stepSets' = [stepSets EXCEPT ![c.job] = @ + 1]
         /\ RevokeCredential(c.job)
         /\ UNCHANGED request
<1>1. c.job \in Executions /\ c.report \in Reports
  BY DEF Typing, TypeOK, Calls, Reported, WorkerFinished
<1> QED BY <1>1 DEF WorkerFinished, RecordResult, Recordable

\* No row exists at first, so row, request and credential agree.
LEMMA InitLedger == Init => Ledger /\ OneResult
BY ConstantsAssumption DEF Init, Ledger, OneResult, Written, CredentialFor, ResultTerminal

\* Every step keeps row, request and credential in agreement, with one result at most.
LEMMA NextLedger ==
  ASSUME Typing, Ledger, OneResult, [Next]_vars
  PROVE  Ledger' /\ OneResult'
<1> USE DEF Written, Terminal, ResultTerminal, CredentialFor
<1>1. CASE UNCHANGED <<request, rowVars>>
  BY <1>1 DEF rowVars, Ledger, OneResult
<1>2. ASSUME NEW e \in Executions, Create(e) \/ RollBack(e)
      PROVE  Ledger' /\ OneResult'
  BY <1>2 DEF Create, RollBack, rowVars, Ledger, OneResult, Typing, TypeOK
<1>3. ASSUME NEW e \in Executions, Commit(e)
      PROVE  Ledger' /\ OneResult'
  BY <1>3 DEF Commit, Ledger, OneResult, Typing, TypeOK
<1>4. ASSUME NEW e \in Executions, Cancel(e)
      PROVE  Ledger' /\ OneResult'
  BY <1>4 DEF Cancel, Cancellable, RevokeCredential, Ledger, OneResult, Typing, TypeOK
<1>5. ASSUME NEW c \in calls, WorkerStarted(c), row[c.job] \in Startable
      PROVE  Ledger' /\ OneResult'
  <2>1. c.job \in Executions
    BY DEF Typing, TypeOK, Calls
  <2>2. row' = [row EXCEPT ![c.job] = "executing"]
    BY <1>5 DEF WorkerStarted, Startable
  <2> QED BY <1>5, <2>1, <2>2 DEF WorkerStarted, Startable, Ledger, OneResult, Typing, TypeOK
<1>6. ASSUME NEW c \in calls, WorkerFinished(c), RecordResult(c)
      PROVE  Ledger' /\ OneResult'
  <2>1. Ledger'
    BY <1>6, RecordEffect, StatusOfReport DEF RevokeCredential, Ledger, Typing, TypeOK
  <2>2. OneResult'
    BY <1>6, RecordEffect, StatusOfReport DEF OneResult, Typing, TypeOK
  <2> QED BY <2>1, <2>2
<1> QED BY <1>1, <1>2, <1>3, <1>4, <1>5, <1>6, RowWriters

\* The part of the invariant the row properties need holds in every reachable state.
LEMMA Soundness == Spec => []Sound
<1>1. Init => Sound
  BY InitTyping, InitLedger DEF Init, Waiting, Sound
<1>2. Sound /\ [Next]_vars => Sound'
  BY NextTyping, NextWaiting, NextLedger DEF Sound
<1> QED BY <1>1, <1>2, PTL DEF Spec

\* A worker credential is revoked exactly when its execution is closed
\* (_revoke_worker_credentials runs in each terminal transaction, and nowhere
\* else).
THEOREM CredentialRevokedIffClosed == Spec => []RevokedIffClosed
<1>1. Sound => RevokedIffClosed
  BY DEF Sound, Ledger, CredentialFor, RevokedIffClosed, Terminal
<1> QED BY <1>1, Soundness, PTL

\* A result row holds one report, its steps once and its status, whatever the
\* number of racing, repeated or late finish calls.
THEOREM OneResultPerExecution == Spec => []OneResult
<1>1. Sound => OneResult
  BY DEF Sound
<1> QED BY <1>1, Soundness, PTL

\* No step disturbs a closed row.
LEMMA KeepsClosedStep ==
  ASSUME Sound, [Next]_vars
  PROVE  KeepsClosed
<1> USE DEF Sound, KeepsClosed, Terminal, Ledger,
                  CredentialFor, Written, Typing, TypeOK
<1>1. CASE UNCHANGED <<request, rowVars>>
  BY <1>1 DEF rowVars
<1>2. ASSUME NEW e \in Executions, Create(e) \/ RollBack(e) \/ Commit(e) \/ Cancel(e)
      PROVE  KeepsClosed
  BY <1>2 DEF Create, RollBack, Commit, Cancel, Cancellable, RevokeCredential, rowVars
<1>3. ASSUME NEW c \in calls, WorkerStarted(c), row[c.job] \in Startable
      PROVE  KeepsClosed
  BY <1>3 DEF WorkerStarted, Startable, Calls
<1>4. ASSUME NEW c \in calls, WorkerFinished(c), RecordResult(c)
      PROVE  KeepsClosed
  BY <1>4, RecordEffect DEF RevokeCredential
<1> QED BY <1>1, <1>2, <1>3, <1>4, RowWriters

\* No handler changes anything about a closed execution.
THEOREM ClosedRowsAreFinal == Spec => ClosedIsFinal
<1>1. Sound /\ [Next]_vars => [KeepsClosed]_vars
  BY KeepsClosedStep
<1> QED BY <1>1, Soundness, PTL DEF Spec, ClosedIsFinal

\* Every step of the detailed system is one step of the abstract lifecycle of
\* one execution, or none.
THEOREM Refinement == Spec => ImplementsLifecycle
<1>1. Init => Lifecycle!Init
  BY DEF Init, Lifecycle!Init
<1>2. ASSUME Sound, [Next]_vars PROVE [Lifecycle!Next]_Lifecycle!vars
  <2> USE DEF Lifecycle!Next, Lifecycle!vars
  <2>1. CASE UNCHANGED <<request, rowVars>>
    BY <2>1 DEF rowVars
  <2>2. ASSUME NEW e \in Executions, Create(e) \/ RollBack(e)
        PROVE  UNCHANGED <<row, verdict>>
    BY <2>2 DEF Create, RollBack, rowVars
  <2>3. ASSUME NEW e \in Executions, Commit(e)
        PROVE  Lifecycle!Enqueue(e)
    BY <1>2, <2>3 DEF Commit, Lifecycle!Enqueue, Sound, Ledger
  <2>4. ASSUME NEW e \in Executions, Cancel(e)
        PROVE  Lifecycle!Cancel(e)
    BY <1>2, <2>4 DEF Cancel, Cancellable, Lifecycle!Cancel, Sound, Ledger, Written
  <2>5. ASSUME NEW c \in calls, WorkerStarted(c), row[c.job] \in Startable
        PROVE  c.job \in Executions /\ Lifecycle!Start(c.job)
    BY <1>2, <2>5 DEF WorkerStarted, Startable, Lifecycle!Start, Sound, Ledger,
                      Written, Typing, TypeOK, Calls
  <2>6. ASSUME NEW c \in calls, WorkerFinished(c), RecordResult(c)
        PROVE  c.job \in Executions /\ (Lifecycle!Succeed(c.job) \/ Lifecycle!Fail(c.job))
    BY <1>2, <2>6, RecordEffect
       DEF StatusOf, Reports, Lifecycle!Succeed, Lifecycle!Fail, Lifecycle!CloseWith, Sound
  <2> QED BY <1>2, <2>1, <2>2, <2>3, <2>4, <2>5, <2>6, RowWriters
<1> QED BY <1>1, <1>2, Soundness, PTL DEF Spec, ImplementsLifecycle, Lifecycle!Spec

-----------------------------------------------------------------------------
(***************************************************************************)
(* What an answer tells a worker, and how soon a run stops.  An accepted   *)
(* answer stays true while it travels, because closed rows are final and a *)
(* started row never goes back.                                            *)
(***************************************************************************)

BegunOrClosed == {"executing"} \cup Terminal

AnswerHolds(c) ==
  c.stage = "accepted" =>
    IF c.hook = "started" THEN row[c.job] \in BegunOrClosed ELSE verdict[c.job] = c.report

Answered == \A c \in calls : AnswerHolds(c)

RunsBegun == \A w \in Workers : pc[w] \in Running => row[job[w]] \in BegunOrClosed

Lateness == \A w \in Workers :
  \/ late[w] = 0
  \/ late[w] = 1 /\ pc[w] = "finishing"
  \/ late[w] = 1 /\ pc[w] \in {"poll", "lastPoll"} /\ Stopped(job[w])

\* A row that has begun never goes back, and a recorded report stays.
LEMMA BegunStays ==
  ASSUME Sound, [Next]_vars, NEW e \in Executions
  PROVE  /\ row[e] \in BegunOrClosed => row'[e] \in BegunOrClosed
         /\ row[e] \in Terminal => row'[e] \in Terminal
         /\ verdict[e] \in Reports => verdict'[e] = verdict[e]
<1>1. row[e] \in Terminal => row'[e] = row[e] /\ verdict'[e] = verdict[e]
  BY KeepsClosedStep DEF KeepsClosed
<1>2. verdict[e] \in Reports => row[e] \in Terminal
  BY ConstantsAssumption DEF Sound, OneResult, ResultTerminal, Terminal
<1>3. row[e] = "executing" => row'[e] \in BegunOrClosed
  <2> USE DEF BegunOrClosed, Terminal, Sound, Typing, TypeOK
  <2>1. CASE UNCHANGED <<request, rowVars>>
    BY <2>1 DEF rowVars
  <2>2. ASSUME NEW f \in Executions, Create(f) \/ RollBack(f) \/ Commit(f) \/ Cancel(f)
        PROVE  row[e] = "executing" => row'[e] \in BegunOrClosed
    BY <2>2 DEF Create, RollBack, Commit, Cancel, rowVars, Ledger
  <2>3. ASSUME NEW c \in calls, WorkerStarted(c), row[c.job] \in Startable
        PROVE  row[e] = "executing" => row'[e] \in BegunOrClosed
    BY <2>3 DEF WorkerStarted, Startable, Calls
  <2>4. ASSUME NEW c \in calls, WorkerFinished(c), RecordResult(c)
        PROVE  row[e] = "executing" => row'[e] \in BegunOrClosed
    BY <2>4, RecordEffect, StatusOfReport
  <2> QED BY <2>1, <2>2, <2>3, <2>4, RowWriters
<1> QED BY <1>1, <1>2, <1>3 DEF BegunOrClosed

\* An answer that held keeps holding, also for the same call otherwise marked.
LEMMA AnswerKept ==
  ASSUME Sound, [Next]_vars, NEW c \in calls, AnswerHolds(c), NEW x,
         x.hook = c.hook, x.job = c.job, x.report = c.report, x.stage = c.stage
  PROVE  AnswerHolds(x)'
<1>1. c.job \in Executions /\ c.hook \in Hooks
  BY DEF Sound, Typing, TypeOK, Calls
<1>2. c.hook = "finished" => c.report \in Reports
  BY DEF Sound, Typing, Reported
<1>3. /\ row[c.job] \in BegunOrClosed => row'[c.job] \in BegunOrClosed
      /\ verdict[c.job] \in Reports => verdict'[c.job] = verdict[c.job]
  BY <1>1, BegunStays
<1> QED BY <1>1, <1>2, <1>3 DEF AnswerHolds, Hooks

\* Calls only move to a stage other than accepted, arrive or disappear.
LEMMA AnswersKept ==
  ASSUME Sound, [Next]_vars, Answered,
         \A x \in calls' : \/ x.stage # "accepted"
                           \/ \E c \in calls : /\ x.hook = c.hook /\ x.job = c.job
                                               /\ x.report = c.report /\ x.stage = c.stage
  PROVE  Answered'
<1> SUFFICES ASSUME NEW x \in calls' PROVE AnswerHolds(x)'
  BY DEF Answered
<1>1. CASE x.stage # "accepted"
  BY <1>1 DEF AnswerHolds
<1>2. CASE \E c \in calls : /\ x.hook = c.hook /\ x.job = c.job
                            /\ x.report = c.report /\ x.stage = c.stage
  BY <1>2, AnswerKept DEF Answered
<1> QED BY <1>1, <1>2

\* The answer to c is accepted and true; nothing else about the calls changes.
LEMMA AnswerGiven ==
  ASSUME Sound, [Next]_vars, Answered, NEW c \in calls, Answer(c, "accepted"),
         IF c.hook = "started" THEN row'[c.job] \in BegunOrClosed
                               ELSE verdict'[c.job] = c.report
  PROVE  Answered'
<1> DEFINE d == [c EXCEPT !.stage = "accepted"]
<1>1. d.hook = c.hook /\ d.job = c.job /\ d.report = c.report
  BY StageType DEF Sound, Typing, TypeOK, Stages
<1>2. \A x \in calls' : x \in calls \/ x = d
  BY DEF Answer
<1> HIDE DEF d
<1> SUFFICES ASSUME NEW x \in calls' PROVE AnswerHolds(x)'
  BY DEF Answered
<1>3. CASE x = d
  BY <1>1, <1>3 DEF AnswerHolds
<1>4. CASE x \in calls
  BY <1>4, AnswerKept DEF Answered
<1> QED BY <1>2, <1>3, <1>4

\* Every step keeps an accepted finish recorded on its row.
LEMMA NextAnswered ==
  ASSUME Sound, [Next]_vars, Answered
  PROVE  Answered'
<1> DEFINE Kept == \A x \in calls' :
             \/ x.stage # "accepted"
             \/ \E c \in calls : /\ x.hook = c.hook /\ x.job = c.job
                                 /\ x.report = c.report /\ x.stage = c.stage
<1>0. calls \subseteq Calls
  BY DEF Sound, Typing, TypeOK
<1>1. ASSUME NEW e \in Executions, CreateStep(e) PROVE Kept
  BY <1>1 DEF CreateStep, Create, Commit, RollBack, Cancel, Redeliver
<1>2. ASSUME NEW w \in Workers, WorkerStep(w) PROVE Kept
  <2>1. ASSUME NEW r, Deliver(w, r) PROVE Kept
    BY <2>1 DEF Deliver, CallOf
  <2>2. CASE UNCHANGED calls
    BY <2>2
  <2>3. CASE Restart(w)
    <3> SUFFICES ASSUME NEW x \in calls'
                 PROVE  \E c \in calls : /\ x.hook = c.hook /\ x.job = c.job
                                        /\ x.report = c.report /\ x.stage = c.stage
      OBVIOUS
    <3>1. PICK c \in calls : x = [c EXCEPT !.awaited = @ /\ c.worker # w]
      BY <2>3 DEF Restart
    <3> QED BY <1>0, <3>1 DEF Calls
  <2> HIDE DEF Kept
  <2> QED BY <1>2, <2>1, <2>2, <2>3
          DEF WorkerStep, Poll, LastPoll, PollFails, Request, RunnerFails, Goto
<1>3. ASSUME NEW w \in Workers, NEW e \in Executions, BrokerStep(w, e) PROVE Kept
  BY <1>3 DEF BrokerStep, Launch, Begin, Refuse, CallOf
<1>4. ASSUME \/ \E b \in BOOLEAN : SetKillSwitch(b)
             \/ ChangeEligibility \/ Tick \/ UNCHANGED vars
      PROVE  Kept
  BY <1>4 DEF SetKillSwitch, ChangeEligibility, Tick, vars
<1>5. ASSUME NEW c \in calls, CallStep(c) PROVE Answered'
  <2>0. c \in Calls /\ c.job \in Executions
    BY <1>0 DEF Calls
  <2>1. ASSUME NEW s \in Stages \ {"accepted"}, Move(c, s) \/ Answer(c, s)
        PROVE  Kept
    <3>1. [c EXCEPT !.stage = s].stage # "accepted"
      BY <2>0, <2>1, StageType
    <3> QED BY <2>1, <3>1 DEF Move, Answer
  <2>2. ASSUME calls' \subseteq calls PROVE Kept
    BY <2>2
  <2>3. CASE Authenticate(c)
    BY <2>1, <2>3, AnswersKept DEF Authenticate, Stages
  <2>4. CASE WorkerStarted(c)
    <3>1. CASE row'[c.job] = "executing" /\ Answer(c, "accepted")
      BY <2>4, <3>1, AnswerGiven DEF WorkerStarted, BegunOrClosed
    <3>2. CASE Answer(c, "rejected")
      BY <2>1, <3>2, AnswersKept DEF Stages
    <3> QED BY <2>0, <2>4, <3>1, <3>2 DEF WorkerStarted, Sound, Typing, TypeOK
  <2>5. CASE WorkerFinished(c)
    <3>1. CASE verdict'[c.job] = c.report /\ Answer(c, "accepted")
      BY <2>5, <3>1, AnswerGiven DEF WorkerFinished
    <3>2. CASE Answer(c, "rejected")
      BY <2>1, <3>2, AnswersKept DEF Stages
    <3>3. CASE RecordResult(c)
      BY <2>0, <2>5, <3>1, <3>3 DEF RecordResult, Sound, Typing, TypeOK
    <3>4. CASE ResultMatches(c.job, c.report) /\ Answer(c, "accepted") /\ UNCHANGED rowVars
      BY <3>1, <3>4 DEF ResultMatches, rowVars
    <3> QED BY <2>5, <3>2, <3>3, <3>4 DEF WorkerFinished
  <2>6. CASE Respond(c)
    BY <2>2, <2>6, AnswersKept DEF Respond
  <2>7. CASE Lose(c)
    BY <2>2, <2>7, AnswersKept DEF Lose
  <2>8. CASE Abandon(c)
    <3> DEFINE d == [c EXCEPT !.awaited = FALSE]
    <3>1. d.hook = c.hook /\ d.job = c.job /\ d.report = c.report /\ d.stage = c.stage
      BY <2>0, AwaitedType
    <3>2. \A x \in calls' : x \in calls \/ x = d
      BY <2>8 DEF Abandon
    <3> HIDE DEF d
    <3>3. Kept
      BY <3>1, <3>2
    <3> QED BY <3>3, AnswersKept
  <2> QED BY <1>5, <2>3, <2>4, <2>5, <2>6, <2>7, <2>8 DEF CallStep, HookStep
<1> QED BY <1>1, <1>2, <1>3, <1>4, <1>5, AnswersKept DEF Next

\* A run begins when its worker is told that its start was accepted, and at no
\* other moment.
LEMMA RunBegins ==
  ASSUME Sound, [Next]_vars, NEW w \in Workers, pc'[w] \in Running,
         ~(pc[w] \in Running /\ job'[w] = job[w])
  PROVE  \E c \in calls : Respond(c) /\ c.worker = w /\ MayRun(c)
<1> USE DEF Sound, Typing, TypeOK, Running
<1>1. ASSUME NEW e \in Executions, CreateStep(e) PROVE FALSE
  BY <1>1 DEF CreateStep, Create, Commit, RollBack, Cancel, Redeliver, workerVars
<1>2. ASSUME NEW v \in Workers, WorkerStep(v) PROVE FALSE
  BY <1>2 DEF WorkerStep, Poll, LastPoll, PollFails, Request, RunnerFails,
                    Restart, Deliver, Goto, BecomeIdle
<1>3. ASSUME NEW v \in Workers, NEW e \in Executions, BrokerStep(v, e) PROVE FALSE
  BY <1>3 DEF BrokerStep, Launch, Begin, Refuse, Take
<1>4. ASSUME NEW c \in calls, CallStep(c)
      PROVE  Respond(c) /\ c.worker = w /\ MayRun(c)
  <2>1. c.worker \in Workers
    BY DEF Calls
  <2>2. ~HookStep(c)
    BY DEF HookStep, Authenticate, WorkerStarted, WorkerFinished, workerVars
  <2>3. ~Abandon(c) /\ ~Lose(c)
    BY <2>1 DEF Abandon, Lose, BecomeIdle
  <2>4. Respond(c)
    BY <1>4, <2>2, <2>3 DEF CallStep
  <2> QED BY <2>1, <2>4 DEF Respond, BecomeIdle
<1>5. ~ \/ \E b \in BOOLEAN : SetKillSwitch(b)
        \/ ChangeEligibility \/ Tick \/ UNCHANGED vars
  BY DEF SetKillSwitch, ChangeEligibility, Tick, vars, workerVars
<1> QED BY <1>1, <1>2, <1>3, <1>4, <1>5 DEF Next

\* Every step keeps runs under way on rows that have begun or closed only.
LEMMA NextRunsBegun ==
  ASSUME Sound, Answered, RunsBegun, [Next]_vars
  PROVE  RunsBegun'
<1> SUFFICES ASSUME NEW w \in Workers, pc'[w] \in Running
             PROVE  row'[job'[w]] \in BegunOrClosed
  BY DEF RunsBegun
<1> USE DEF Sound, Typing, TypeOK, Running
<1>1. CASE pc[w] \in Running /\ job'[w] = job[w]
  BY <1>1, BegunStays DEF Busy, RunsBegun
<1>2. ASSUME NEW c \in calls, Respond(c), c.worker = w, MayRun(c)
      PROVE  row'[job'[w]] \in BegunOrClosed
  <2>1. c.hook = "started" /\ c.stage = "accepted" /\ c.awaited
    BY <1>2 DEF Respond, MayRun
  <2>2. row[c.job] \in BegunOrClosed
    BY <2>1 DEF Answered, AnswerHolds
  <2>3. job'[w] = c.job /\ c.job \in Executions
    BY <1>2, <2>1 DEF Waiting, Respond, Calls
  <2> QED BY <2>2, <2>3, BegunStays
<1>3. ASSUME ~(pc[w] \in Running /\ job'[w] = job[w])
      PROVE  \E c \in calls : Respond(c) /\ c.worker = w /\ MayRun(c)
  BY <1>3, RunBegins
<1> QED BY <1>1, <1>2, <1>3

\* A stop signal that was up stays up, except when the switch is lowered.
LEMMA StopStays ==
  ASSUME Sound, [Next]_vars, NEW e \in Executions, Stopped(e), UNCHANGED killSwitch
  PROVE  Stopped(e)'
BY BegunStays DEF Stopped

\* Every step keeps the count of requests sent after a stop at most what the poll allows.
LEMMA NextLateness ==
  ASSUME Sound, RunsBegun, Lateness, [Next]_vars
  PROVE  Lateness'
<1> SUFFICES ASSUME NEW w \in Workers
             PROVE  \/ late'[w] = 0
                    \/ late'[w] = 1 /\ pc'[w] = "finishing"
                    \/ /\ late'[w] = 1 /\ pc'[w] \in {"poll", "lastPoll"}
                       /\ Stopped(job[w])'
  BY DEF Lateness, Stopped
<1> USE DEF Sound, Typing, TypeOK, Lateness
<1>1. ASSUME UNCHANGED <<killSwitch, job, pc, late>>
      PROVE  \/ late'[w] = 0
             \/ late'[w] = 1 /\ pc'[w] = "finishing"
             \/ /\ late'[w] = 1 /\ pc'[w] \in {"poll", "lastPoll"}
                /\ Stopped(job[w])'
  <2>1. pc[w] \in {"poll", "lastPoll"} => job[w] \in Executions
    BY DEF Busy
  <2> QED BY <1>1, <2>1, StopStays DEF Stopped
<1>2. ASSUME NEW e \in Executions, CreateStep(e)
      PROVE  UNCHANGED <<killSwitch, job, pc, late>>
  BY <1>2 DEF CreateStep, Create, Commit, RollBack, Cancel, Redeliver, inputVars,
              workerVars, histVars
<1>3. ASSUME NEW v \in Workers, WorkerStep(v), v # w
      PROVE  late'[w] = late[w] /\ pc'[w] = pc[w] /\ job'[w] = job[w] /\ UNCHANGED killSwitch
  BY <1>3 DEF WorkerStep, Poll, LastPoll, PollFails, Request, RunnerFails, Restart,
              Deliver, Goto, BecomeIdle, CountLate, controlPlane, inputVars, histVars
<1>4. ASSUME WorkerStep(w)
      PROVE  \/ late'[w] = 0
             \/ late'[w] = 1 /\ pc'[w] = "finishing"
             \/ /\ late'[w] = 1 /\ pc'[w] \in {"poll", "lastPoll"}
                /\ Stopped(job[w])'
  <2>1. CASE Poll(w)
    <3>1. CASE \E r : Deliver(w, r)
      BY <2>1, <3>1 DEF Poll, Deliver, histVars
    <3>2. CASE ~PollAnswer(job[w])
      BY <2>1, <3>2 DEF Poll, PollAnswer, Deliver, Stopped, Goto, Busy, histVars
    <3> QED BY <2>1, <3>1, <3>2 DEF Poll
  <2>2. CASE LastPoll(w) \/ PollFails(w) \/ RunnerFails(w)
    BY <2>2 DEF LastPoll, PollFails, RunnerFails, Deliver, histVars
  <2>3. CASE Request(w)
    <3>1. late[w] = 0 /\ job[w] \in Executions
      BY <2>3 DEF Request, Busy
    <3>2. late'[w] = IF Stopped(job[w]) THEN 1 ELSE 0
      BY <2>3, <3>1 DEF Request, CountLate
    <3>3. Stopped(job[w]) => Stopped(job[w])'
      BY <2>3, <3>1 DEF Request, Deliver, Stopped, controlPlane, rowVars, inputVars
    <3> QED BY <2>3, <3>2, <3>3 DEF Request, Deliver
  <2>4. CASE Restart(w)
    BY <2>4 DEF Restart, BecomeIdle
  <2> QED BY <1>4, <2>1, <2>2, <2>3, <2>4 DEF WorkerStep
<1>5. ASSUME NEW v \in Workers, NEW e \in Executions, BrokerStep(v, e)
      PROVE  \/ UNCHANGED <<killSwitch, job, pc, late>>
             \/ /\ UNCHANGED <<killSwitch, late>> /\ pc[v] = "idle"
                /\ \A u \in Workers \ {v} : pc'[u] = pc[u] /\ job'[u] = job[u]
  BY <1>5 DEF BrokerStep, Launch, Begin, Refuse, Take, inputVars, histVars
<1>6. ASSUME NEW c \in calls, CallStep(c)
      PROVE  \/ UNCHANGED <<killSwitch, job, pc, late>>
             \/ /\ UNCHANGED killSwitch /\ c.worker \in Workers
                /\ c.worker = w => late'[w] = 0
                /\ \A u \in Workers \ {c.worker} :
                     pc'[u] = pc[u] /\ job'[u] = job[u] /\ late'[u] = late[u]
  <2>0. c.worker \in Workers
    BY DEF Calls
  <2>1. CASE HookStep(c)
    BY <2>1 DEF HookStep, Authenticate, WorkerStarted, WorkerFinished, controlPlane,
                inputVars, workerVars, histVars
  <2>2. CASE Respond(c)
    <3>1. MayRun(c) => late[c.worker] = 0
      BY <2>0, <2>2 DEF MayRun, Respond, Waiting
    <3> QED BY <2>0, <2>2, <3>1 DEF Respond, BecomeIdle, controlPlane, inputVars
  <2>3. CASE Abandon(c) \/ Lose(c)
    BY <2>0, <2>3 DEF Abandon, Lose, BecomeIdle, controlPlane, inputVars
  <2> QED BY <1>6, <2>1, <2>2, <2>3 DEF CallStep
<1>7. ASSUME NEW b \in BOOLEAN, SetKillSwitch(b)
      PROVE  \/ late'[w] = 0
             \/ late'[w] = 1 /\ pc'[w] = "finishing"
             \/ /\ late'[w] = 1 /\ pc'[w] \in {"poll", "lastPoll"}
                /\ Stopped(job[w])'
  <2>1. pc[w] \in {"poll", "lastPoll"} => job[w] \in Executions
    BY DEF Busy
  <2> QED BY <1>7, <2>1 DEF SetKillSwitch, Stopped, rowVars, workerVars
<1>8. ASSUME ChangeEligibility \/ Tick \/ UNCHANGED vars
      PROVE  UNCHANGED <<killSwitch, job, pc, late>>
  BY <1>8 DEF ChangeEligibility, Tick, vars, inputVars, workerVars, histVars
<1>9. ASSUME late'[w] = late[w], pc'[w] = pc[w], job'[w] = job[w], UNCHANGED killSwitch
      PROVE  \/ late'[w] = 0
             \/ late'[w] = 1 /\ pc'[w] = "finishing"
             \/ /\ late'[w] = 1 /\ pc'[w] \in {"poll", "lastPoll"}
                /\ Stopped(job[w])'
  <2>1. pc[w] \in {"poll", "lastPoll"} => job[w] \in Executions
    BY DEF Busy
  <2> QED BY <1>9, <2>1, StopStays DEF Stopped
<1> QED BY <1>1, <1>2, <1>3, <1>4, <1>5, <1>6, <1>7, <1>8, <1>9 DEF Next

Safe == Sound /\ Answered /\ RunsBegun /\ Lateness

\* The whole invariant holds in every reachable state.
LEMMA Safety == Spec => []Safe
<1>1. Init => Safe
  BY InitTyping, InitLedger
     DEF Init, Waiting, Answered, RunsBegun, Running, Lateness, Sound, Safe
<1>2. Safe /\ [Next]_vars => Safe'
  BY NextTyping, NextWaiting, NextLedger, NextAnswered, NextRunsBegun, NextLateness
     DEF Sound, Safe
<1> QED BY <1>1, <1>2, PTL DEF Spec

\* A worker told that its finish was recorded finds its own report in the row.
THEOREM AcknowledgedFinishIsRecorded == Spec => []AcknowledgedIsRecorded
<1>1. Safe => AcknowledgedIsRecorded
  BY DEF Safe, Answered, AnswerHolds, AcknowledgedIsRecorded
<1> QED BY <1>1, Safety, PTL

\* Only a committed, started execution is ever scanned: neither an envelope
\* whose transaction rolled back nor one delivered before the commit reaches
\* the target.
THEOREM OnlyStartedIsScanned == Spec => []ScanOnlyStarted
<1>1. Safe => ScanOnlyStarted
  BY DEF Safe, Sound, Typing, Busy, Running, RunsBegun, BegunOrClosed, Ledger,
         Terminal, ScanOnlyStarted
<1> QED BY <1>1, Safety, PTL

\* After the kill switch is raised or the row is closed, a worker sends at
\* most the one target request whose poll it has already passed.
THEOREM RunsStopPromptly == Spec => []StopsPromptly
<1>1. Safe => StopsPromptly
  BY DEF Safe, Lateness, StopsPromptly
<1> QED BY <1>1, Safety, PTL

-----------------------------------------------------------------------------
(***************************************************************************)
(* One dispatch, one scan.  Under the deployment the worker image is built *)
(* for, a process accepts nothing but the credential of its environment,   *)
(* one process is started with the credential of an execution, and a       *)
(* container is not restarted with it.  Then the credential is handed out  *)
(* once, so one start call is posted, and answered to somebody at most     *)
(* once.                                                                   *)
(***************************************************************************)

SingleProcess ==
  /\ ~WorkerFallback
  /\ "restart" \notin Faults
  /\ ProcessesPerExecution <= 1

\* No two processes hold the credential of one execution.
Exclusive == \A v, w \in Workers : env[v] \in Executions /\ env[v] = env[w] => v = w

\* Whoever posted a start handed out the credential of that execution.
Spent == \A c \in calls : c.hook = "started" =>
  env[c.worker] = c.job /\ consumed[c.worker]

\* A scan begun is a credential handed out, and a start that is still awaited
\* is the first.
Begun ==
  /\ \A e \in Executions : scans[e] > 0 => \E w \in Workers : env[w] = e /\ consumed[w]
  /\ \A c \in calls : c.hook = "started" /\ c.awaited => scans[c.job] = 0

OneScan == Exclusive /\ Spent /\ Begun /\ ScannedOnce

\* A step by which calls only advance keeps OneScan, as long as neither the
\* processes' credentials nor the count of scans change.
LEMMA OneScanKept ==
  ASSUME OneScan, UNCHANGED <<env, consumed, scans>>,
         \A x \in calls' : x.hook = "started" =>
           \E c \in calls : /\ c.hook = "started" /\ c.worker = x.worker /\ c.job = x.job
                            /\ x.awaited => c.awaited
  PROVE  OneScan'
BY DEF OneScan, Exclusive, Spent, Begun, ScannedOnce

\* A call that moves to another stage, or whose answer is dropped, is the same call.
LEMMA OneScanMoved ==
  ASSUME Typing, OneScan, UNCHANGED <<env, consumed, scans>>,
         NEW c \in calls, NEW s \in Stages, Move(c, s) \/ Answer(c, s)
  PROVE  OneScan'
<1> DEFINE d == [c EXCEPT !.stage = s]
<1>1. d.hook = c.hook /\ d.job = c.job /\ d.worker = c.worker /\ d.awaited = c.awaited
  BY StageType DEF Typing, TypeOK
<1>2. \A x \in calls' : x \in calls \/ x = d
  BY DEF Move, Answer
<1> HIDE DEF d
<1> QED BY <1>1, <1>2, OneScanKept

\* Launching, beginning and refusing: the credential of an execution goes to
\* one process, and from there into one start call.
LEMMA BrokerOneScan ==
  ASSUME SingleProcess, Typing, OneScan,
         NEW w \in Workers, NEW e \in Executions, BrokerStep(w, e)
  PROVE  OneScan'
<1> USE DEF Typing, TypeOK, OneScan
<1>0. \A c \in calls : c.worker \in Workers /\ c.job \in Executions
  BY DEF Calls
<1>1. CASE Launch(w, e)
  <2>1. \A v \in Workers : env[v] # e
    <3> SUFFICES ASSUME NEW v \in Workers, env[v] = e PROVE FALSE
      OBVIOUS
    <3>1. {u \in Workers : env[u] = e} = {v}
      BY DEF Exclusive
    <3>2. Cardinality({v}) = 1
      BY FS_Singleton
    <3>3. Cardinality({u \in Workers : env[u] = e}) < ProcessesPerExecution
      BY <1>1 DEF Launch
    <3>4. 1 < ProcessesPerExecution
      BY <3>1, <3>2, <3>3
    <3> QED BY <3>4, ConstantsAssumption DEF SingleProcess
  <2>2. env[w] = None /\ env' = [env EXCEPT ![w] = e] /\ None \notin Executions
    BY <1>1, ConstantsAssumption DEF Launch
  <2>3. UNCHANGED <<consumed, scans, calls>>
    BY <1>1 DEF Launch, histVars
  <2>4. Exclusive'
    BY <2>1, <2>2 DEF Exclusive
  <2>5. Spent'
    BY <1>0, <2>2, <2>3 DEF Spent
  <2>6. Begun'
    BY <2>2, <2>3 DEF Begun
  <2> QED BY <2>3, <2>4, <2>5, <2>6 DEF ScannedOnce
<1>2. CASE Begin(w, e)
  <2>1. env[w] = e /\ ~consumed[w]
    BY <1>2 DEF Begin, CredentialFound, SingleProcess
  <2>2. UNCHANGED <<env, scans>> /\ consumed' = [consumed EXCEPT ![w] = TRUE]
    BY <1>2, <2>1 DEF Begin, Resolve, histVars
  <2>3. PICK tok : calls' = calls \cup {CallOf(w, "started", e, tok, None)}
    BY <1>2 DEF Begin
  <2> DEFINE n == CallOf(w, "started", e, tok, None)
  <2>4. n.worker = w /\ n.job = e /\ n.hook = "started"
    BY DEF CallOf
  <2>5. scans[e] = 0
    BY <2>1 DEF Begun, Exclusive
  <2> HIDE DEF n
  <2>6. Exclusive' /\ ScannedOnce'
    BY <2>2 DEF Exclusive, ScannedOnce
  <2>7. Spent'
    BY <1>0, <2>1, <2>2, <2>3, <2>4 DEF Spent, n
  <2>8. Begun'
    BY <1>0, <2>2, <2>3, <2>4, <2>5 DEF Begun, n
  <2> QED BY <2>6, <2>7, <2>8
<1>3. CASE Refuse(w, e)
  <2>1. UNCHANGED <<env, scans, calls>>
    BY <1>3 DEF Refuse, histVars
  <2>2. \A v \in Workers : consumed[v] => consumed'[v]
    BY <1>3 DEF Refuse, Resolve
  <2> QED BY <1>0, <2>1, <2>2 DEF Exclusive, Spent, Begun, ScannedOnce
<1> QED BY <1>1, <1>2, <1>3 DEF BrokerStep

\* Two awaited starts of one execution are the same call, so the answer that
\* begins a scan begins the first one.
LEMMA CallOneScan ==
  ASSUME Typing, Waiting, OneScan, NEW c \in calls, CallStep(c)
  PROVE  OneScan'
<1>0. c \in Calls /\ c.worker \in Workers /\ c.job \in Executions
  BY DEF Typing, TypeOK, Calls
<1>1. CASE HookStep(c)
  BY <1>1, OneScanMoved DEF HookStep, Authenticate, WorkerStarted, WorkerFinished,
                            RecordResult, Stages, workerVars, histVars
<1>2. ASSUME calls' \subseteq calls, UNCHANGED <<env, consumed, scans>>
      PROVE  OneScan'
  BY <1>2, OneScanKept
<1>3. CASE Respond(c)
  <2>1. CASE MayRun(c)
    <3>1. c.awaited /\ c.hook = "started"
      BY <1>3, <2>1 DEF Respond, MayRun
    <3>2. /\ calls' = calls \ {c} /\ UNCHANGED <<env, consumed>>
          /\ scans' = [scans EXCEPT ![c.job] = @ + 1]
      BY <1>3, <2>1 DEF Respond
    <3>3. scans[c.job] = 0 /\ scans \in [Executions -> Nat]
      BY <3>1 DEF OneScan, Begun, Typing, TypeOK
    <3>4. \A d \in calls : d.hook = "started" /\ d.awaited /\ d.job = c.job => d = c
      <4> SUFFICES ASSUME NEW d \in calls, d.hook = "started", d.awaited, d.job = c.job
                   PROVE  d = c
        OBVIOUS
      <4>1. d.worker \in Workers /\ env[d.worker] = c.job /\ env[c.worker] = c.job
        BY <3>1 DEF OneScan, Spent, Typing, TypeOK, Calls
      <4>2. d.worker = c.worker
        BY <1>0, <4>1 DEF OneScan, Exclusive
      <4> QED BY <3>1, <4>2 DEF Waiting
    <3>5. Exclusive' /\ Spent'
      BY <3>2 DEF OneScan, Exclusive, Spent
    <3>6. Begun'
      <4>1. ASSUME NEW e \in Executions, scans'[e] > 0
            PROVE  \E w \in Workers : env'[w] = e /\ consumed'[w]
        <5>1. CASE e = c.job
          BY <1>0, <3>1, <3>2, <5>1 DEF OneScan, Spent
        <5>2. CASE e # c.job
          BY <1>0, <3>2, <3>3, <4>1, <5>2 DEF OneScan, Begun
        <5> QED BY <5>1, <5>2
      <4>2. ASSUME NEW d \in calls', d.hook = "started", d.awaited
            PROVE  scans'[d.job] = 0
        <5>1. d \in calls /\ d.job # c.job
          BY <3>2, <3>4, <4>2
        <5> QED BY <1>0, <3>2, <3>3, <4>2, <5>1 DEF OneScan, Begun
      <4> QED BY <4>1, <4>2 DEF Begun
    <3>7. ScannedOnce'
      BY <1>0, <3>2, <3>3 DEF OneScan, ScannedOnce
    <3> QED BY <3>5, <3>6, <3>7 DEF OneScan
  <2>2. CASE ~MayRun(c)
    BY <1>2, <1>3, <2>2 DEF Respond
  <2> QED BY <2>1, <2>2
<1>4. CASE Lose(c)
  BY <1>2, <1>4 DEF Lose
<1>5. CASE Abandon(c)
  <2> DEFINE d == [c EXCEPT !.awaited = FALSE]
  <2>1. d.hook = c.hook /\ d.job = c.job /\ d.worker = c.worker /\ ~d.awaited
    BY <1>0, AwaitedType
  <2>2. (\A x \in calls' : x \in calls \/ x = d) /\ UNCHANGED <<env, consumed, scans>>
    BY <1>5 DEF Abandon
  <2> HIDE DEF d
  <2> QED BY <2>1, <2>2, OneScanKept
<1> QED BY <1>1, <1>3, <1>4, <1>5 DEF CallStep

\* Every step keeps the credential of an execution in one hand and its scans at one.
LEMMA NextOneScan ==
  ASSUME SingleProcess, Typing, Waiting, OneScan, [Next]_vars
  PROVE  OneScan'
<1>1. ASSUME NEW e \in Executions, CreateStep(e) PROVE OneScan'
  BY <1>1, OneScanKept DEF CreateStep, Create, Commit, RollBack, Cancel, Redeliver,
                           workerVars, histVars
<1>2. ASSUME NEW w \in Workers, WorkerStep(w) PROVE OneScan'
  <2>1. ASSUME NEW r, Deliver(w, r), UNCHANGED scans PROVE OneScan'
    <3> DEFINE n == CallOf(w, "finished", job[w], token[w], r)
    <3>1. n.hook = "finished"
      BY DEF CallOf
    <3>2. \A x \in calls' : x \in calls \/ x = n
      BY <2>1 DEF Deliver
    <3> HIDE DEF n
    <3> QED BY <2>1, <3>1, <3>2, OneScanKept DEF Deliver
  <2>2. ASSUME UNCHANGED <<env, consumed, calls, scans>> PROVE OneScan'
    BY <2>2, OneScanKept
  <2>3. ~Restart(w)
    BY DEF SingleProcess, Restart, Fault
  <2> QED BY <1>2, <2>1, <2>2, <2>3
          DEF WorkerStep, Poll, LastPoll, PollFails, Request, RunnerFails, Goto, histVars
<1>3. ASSUME \/ \E b \in BOOLEAN : SetKillSwitch(b)
             \/ ChangeEligibility \/ Tick \/ UNCHANGED vars
      PROVE  OneScan'
  BY <1>3, OneScanKept DEF SetKillSwitch, ChangeEligibility, Tick, vars, workerVars, histVars
<1> QED BY <1>1, <1>2, <1>3, BrokerOneScan, CallOneScan DEF Next

\* A dispatched execution is scanned at most once, whatever is redelivered,
\* lost or timed out, if one process holds its credential and is not restarted
\* with it (_EnvCredentialSource.resolve consumes it).
THEOREM ScannedAtMostOnce ==
  ASSUME SingleProcess
  PROVE  Spec => []ScannedOnce
<1>1. Init => Typing /\ Waiting /\ OneScan
  BY InitTyping, ConstantsAssumption
     DEF Init, Waiting, OneScan, Exclusive, Spent, Begun, ScannedOnce
<1>2. Typing /\ Waiting /\ OneScan /\ [Next]_vars => (Typing /\ Waiting /\ OneScan)'
  BY NextTyping, NextWaiting, NextOneScan
<1>3. OneScan => ScannedOnce
  BY DEF OneScan
<1> QED BY <1>1, <1>2, <1>3, PTL DEF Spec

-----------------------------------------------------------------------------
(***************************************************************************)
(* Runs.  What a worker does between an accepted start and its report is a *)
(* target run, and every target run is something a worker may do: what is  *)
(* shown of ValidationExecution holds for any scanner that implements      *)
(* TargetRun, as HeaderExecutor does.                                      *)
(***************************************************************************)

\* A worker without a run has nothing left of the last one.
Fresh == \A w \in Workers :
  pc[w] \in {"idle", "starting"} => sent[w] = 0 /\ report[w] = None

\* A step that leaves a worker's run alone, or makes the worker idle, or moves
\* it to a report.
LEMMA NextFresh ==
  ASSUME Typing, Fresh, [Next]_vars
  PROVE  Fresh'
<1> USE DEF Typing, TypeOK, Fresh
<1>1. ASSUME UNCHANGED <<pc, sent, report>> PROVE Fresh'
  BY <1>1
<1>2. ASSUME NEW w \in Workers, BecomeIdle(w) PROVE Fresh'
  BY <1>2 DEF BecomeIdle
<1>3. ASSUME NEW w \in Workers, NEW r, Deliver(w, r) PROVE Fresh'
  BY <1>3 DEF Deliver
<1>4. ASSUME NEW e \in Executions, CreateStep(e) PROVE Fresh'
  BY <1>1, <1>4 DEF CreateStep, Create, Commit, RollBack, Cancel, Redeliver, workerVars
<1>5. ASSUME NEW w \in Workers, WorkerStep(w) PROVE Fresh'
  <2>1. CASE Goto(w, "request")
    BY <2>1 DEF Goto
  <2>2. ASSUME NEW label \in {"poll", "lastPoll"}, pc' = [pc EXCEPT ![w] = label],
               sent' = [sent EXCEPT ![w] = @ + 1], UNCHANGED report
        PROVE  Fresh'
    BY <2>2
  <2> HIDE DEF Fresh
  <2> QED BY <1>2, <1>3, <1>5, <2>1, <2>2
          DEF WorkerStep, Poll, LastPoll, PollFails, Request, RunnerFails, Restart
<1>6. ASSUME NEW w \in Workers, NEW e \in Executions, BrokerStep(w, e) PROVE Fresh'
  BY <1>6 DEF BrokerStep, Launch, Begin, Refuse, Take
<1>7. ASSUME NEW c \in calls, CallStep(c) PROVE Fresh'
  <2>1. c.worker \in Workers
    BY DEF Calls
  <2>2. ASSUME pc' = [pc EXCEPT ![c.worker] = "poll"], UNCHANGED <<sent, report>>
        PROVE  Fresh'
    BY <2>2
  <2> HIDE DEF Fresh
  <2> QED BY <1>1, <1>2, <1>7, <2>1, <2>2
          DEF CallStep, HookStep, Authenticate, WorkerStarted, WorkerFinished, Respond,
              Abandon, Lose, workerVars
<1>8. ASSUME \/ \E b \in BOOLEAN : SetKillSwitch(b)
             \/ ChangeEligibility \/ Tick \/ UNCHANGED vars
      PROVE  Fresh'
  BY <1>1, <1>8 DEF SetKillSwitch, ChangeEligibility, Tick, vars, workerVars
<1> QED BY <1>4, <1>5, <1>6, <1>7, <1>8 DEF Next

\* A run goes on by steps of its own worker only: nobody answers a call that a
\* running worker does not wait for.
LEMMA RunLeftAlone ==
  ASSUME Sound, [Next]_vars, NEW w \in Workers, pc[w] \in Running
  PROVE  \/ WorkerStep(w)
         \/ pc'[w] = pc[w] /\ job'[w] = job[w] /\ sent'[w] = sent[w] /\ report'[w] = report[w]
<1> DEFINE Alone == /\ pc'[w] = pc[w] /\ job'[w] = job[w]
                    /\ sent'[w] = sent[w] /\ report'[w] = report[w]
<1> USE DEF Sound, Typing, TypeOK
<1>1. ASSUME UNCHANGED <<pc, job, sent, report>> PROVE Alone
  BY <1>1
<1>2. ASSUME NEW v \in Workers, v # w, BecomeIdle(v) PROVE Alone
  BY <1>2 DEF BecomeIdle
<1>3. ASSUME NEW v \in Workers, v # w, WorkerStep(v) PROVE Alone
  BY <1>3 DEF WorkerStep, Poll, LastPoll, PollFails, Request, RunnerFails, Restart,
              Deliver, Goto, BecomeIdle
<1>4. ASSUME NEW v \in Workers, NEW e \in Executions, BrokerStep(v, e) PROVE Alone
  BY <1>4 DEF BrokerStep, Launch, Begin, Refuse, Take, Running
<1>5. ASSUME NEW c \in calls, CallStep(c) PROVE Alone
  <2>1. c.worker \in Workers /\ (c.awaited => c.worker # w)
    BY DEF Calls, Waiting, Running
  <2>2. CASE HookStep(c)
    BY <1>1, <2>2 DEF HookStep, Authenticate, WorkerStarted, WorkerFinished, workerVars
  <2>3. CASE Respond(c)
    BY <2>1, <2>3 DEF Respond, BecomeIdle
  <2>4. CASE Abandon(c) \/ Lose(c)
    BY <1>2, <2>1, <2>4 DEF Abandon, Lose
  <2> QED BY <1>5, <2>2, <2>3, <2>4 DEF CallStep
<1>6. ASSUME \/ \E e \in Executions : CreateStep(e)
             \/ \E b \in BOOLEAN : SetKillSwitch(b)
             \/ ChangeEligibility \/ Tick \/ UNCHANGED vars
      PROVE  Alone
  BY <1>1, <1>6 DEF CreateStep, Create, Commit, RollBack, Cancel, Redeliver,
                    SetKillSwitch, ChangeEligibility, Tick, vars, workerVars
<1> QED BY <1>3, <1>4, <1>5, <1>6 DEF Next

\* A worker's own step is one of its run's, unless its process dies.
LEMMA WorkerRuns ==
  ASSUME Sound, NEW w \in Workers, WorkerStep(w), ~Restart(w)
  PROVE  Run(w)!Step
<1> USE DEF Sound, Typing, TypeOK, Running, Run!Step, Run!End
<1>1. ASSUME pc[w] \in Running, NEW reports, NEW r \in reports, Deliver(w, r),
             UNCHANGED controlPlane
      PROVE  Run(w)!End(reports)
  BY <1>1 DEF Deliver, PollAnswer, controlPlane, rowVars, inputVars
<1> HIDE DEF Run!End
<1>2. CASE Poll(w)
  <2>1. CASE PollAnswer(job[w]) /\ Deliver(w, Blocked)
    BY <1>1, <1>2, <2>1 DEF Poll, Run!Stop
  <2>2. CASE ~PollAnswer(job[w]) /\ ~BudgetLeft(w) /\ \E r \in Indefinite : Deliver(w, r)
    BY <1>1, <1>2, <2>2, ConstantsAssumption DEF Poll, BudgetLeft, Run!Exhausted
  <2>3. CASE ~PollAnswer(job[w]) /\ BudgetLeft(w) /\ Goto(w, "request")
    BY <1>2, <2>3 DEF Poll, Goto, BudgetLeft, PollAnswer, controlPlane, rowVars, inputVars,
                      Run!Proceed
  <2> QED BY <1>2, <2>1, <2>2, <2>3 DEF Poll
<1>3. CASE LastPoll(w)
  BY <1>1, <1>3 DEF LastPoll, Run!Stop, Run!Conclude
<1>4. CASE PollFails(w)
  BY <1>1, <1>4 DEF PollFails, Run!Stop
<1>5. CASE Request(w)
  <2>1. CASE \E r \in Indefinite \cup {Blocked} : Deliver(w, r)
    BY <1>1, <1>5, <2>1 DEF Request, Run!Request
  <2>2. ASSUME NEW label \in {"poll", "lastPoll"}, pc' = [pc EXCEPT ![w] = label],
               sent' = [sent EXCEPT ![w] = @ + 1], UNCHANGED <<job, report>>
        PROVE  Run(w)!Request
    BY <1>5, <2>2 DEF Request, PollAnswer, controlPlane, rowVars, inputVars, Run!Request
  <2> QED BY <1>5, <2>1, <2>2 DEF Request
<1>6. CASE RunnerFails(w)
  BY <1>1, <1>6 DEF RunnerFails, Run!GiveUp
<1> QED BY <1>2, <1>3, <1>4, <1>5, <1>6 DEF WorkerStep

\* Each step of the system is, for each running worker, a step of its run, a
\* change of its stop signal, or the death of its process.
LEMMA NextRuns ==
  ASSUME Sound, Fresh, [Next]_vars
  PROVE  RunSteps
<1> SUFFICES ASSUME NEW w \in Workers
             PROVE  /\ pc[w] \in Running => Restart(w) \/ [Run(w)!Next]_(Run(w)!vars)
                    /\ pc[w] \notin Running /\ pc'[w] \in Running => (Run(w)!Init)'
  BY DEF RunSteps
<1>1. ASSUME pc[w] \in Running, ~Restart(w) PROVE [Run(w)!Next]_(Run(w)!vars)
  <2>1. CASE WorkerStep(w)
    BY <1>1, <2>1, WorkerRuns DEF Run!Next
  <2>2. CASE ~WorkerStep(w)
    <3>1. pc'[w] = pc[w] /\ job'[w] = job[w] /\ sent'[w] = sent[w] /\ report'[w] = report[w]
      BY <1>1, <2>2, RunLeftAlone
    <3>2. PollAnswer(job[w]) \in BOOLEAN /\ PollAnswer(job[w])' \in BOOLEAN
      BY DEF PollAnswer
    <3>3. CASE PollAnswer(job[w])' = PollAnswer(job[w])
      BY <3>1, <3>3 DEF Run!vars
    <3>4. CASE PollAnswer(job[w])' = ~PollAnswer(job[w])
      BY <3>1, <3>4 DEF Run!Toggle, Run!Next
    <3> QED BY <3>2, <3>3, <3>4
  <2> QED BY <2>1, <2>2
<1>2. ASSUME pc[w] \notin Running, pc'[w] \in Running PROVE (Run(w)!Init)'
  <2>1. PICK c \in calls : Respond(c) /\ c.worker = w /\ MayRun(c)
    BY <1>2, RunBegins
  <2>2. pc[w] = "starting" /\ sent'[w] = sent[w] /\ report'[w] = report[w]
    BY <2>1 DEF Respond, MayRun, Sound, Waiting
  <2>3. pc'[w] = "poll"
    BY <2>1 DEF Respond, Sound, Typing, TypeOK
  <2> QED BY <2>2, <2>3 DEF Fresh, Running, PollAnswer, Run!Init
<1> QED BY <1>1, <1>2

\* The run of every worker, from an accepted start to its report, is a target
\* run that begins afresh (run_validation_envelope).
THEOREM RunsRefineTargetRun == Spec => RunsAreTargetRuns
<1>1. Init => Sound /\ Fresh
  BY InitTyping, InitLedger DEF Init, Waiting, Sound, Fresh
<1>2. Sound /\ Fresh /\ [Next]_vars => (Sound /\ Fresh)'
  BY NextTyping, NextWaiting, NextLedger, NextFresh DEF Sound
<1>3. Sound /\ Fresh /\ [Next]_vars => [RunSteps]_vars
  BY NextRuns
<1> QED BY <1>1, <1>2, <1>3, PTL DEF Spec, RunsAreTargetRuns

\* What a process does when its run takes a step: it moves on with the run, or
\* posts the report the run ended with.  Nothing else changes.
Drives(w) ==
  /\ \/ /\ pc'[w] \in Running
        /\ pc' = [pc EXCEPT ![w] = pc'[w]]
        /\ sent' = [sent EXCEPT ![w] = sent'[w]]
        /\ UNCHANGED <<job, token, env, consumed, report, calls>>
     \/ Deliver(w, report'[w])
  /\ IF pc[w] = "request" THEN CountLate(w) ELSE UNCHANGED late
  /\ UNCHANGED <<controlPlane, faults, scans>>

\* Every step a target run may take is a step of the worker that drives it: no
\* property of ValidationExecution depends on a scanner that does less than a
\* TargetRun may.
THEOREM TargetRunsAreAdmitted ==
  ASSUME TypeOK, NEW w \in Workers, pc[w] \in Running, Run(w)!Step, Drives(w)
  PROVE  WorkerStep(w)
<1> USE DEF TypeOK, Running, Drives, Run!End
<1>1. CASE Run(w)!Stop
  BY <1>1 DEF Run!Stop, Deliver, WorkerStep, RunnerFails, histVars
<1>2. CASE Run(w)!GiveUp
  BY <1>2 DEF Run!GiveUp, Deliver, WorkerStep, RunnerFails, histVars
<1>3. CASE Run(w)!Proceed
  BY <1>3 DEF Run!Proceed, Deliver, WorkerStep, Poll, BudgetLeft, Goto, histVars
<1>4. CASE Run(w)!Exhausted
  BY <1>4, ConstantsAssumption DEF Run!Exhausted, Deliver, WorkerStep, Poll, BudgetLeft, histVars
<1>5. CASE Run(w)!Request
  BY <1>5 DEF Run!Request, Deliver, WorkerStep, Request
<1>6. CASE Run(w)!Conclude
  BY <1>6 DEF Run!Conclude, Deliver, WorkerStep, LastPoll, histVars
<1> QED BY <1>1, <1>2, <1>3, <1>4, <1>5, <1>6 DEF Run!Step

=============================================================================
