---------------------------- MODULE DevelopmentQueue ----------------------------
(***************************************************************************)
(* The in-memory queue of the development backend and its consumers.       *)
(*                                                                         *)
(* The create request enqueues before its transaction commits; a consumer  *)
(* takes a message for good, whatever becomes of it, and no queue outlives *)
(* its process.  Every message was serialized by enqueue, so none is       *)
(* malformed when it is taken.                                             *)
(***************************************************************************)
EXTENDS Naturals, Sequences, SequencesExt

CONSTANTS QueuedExecutions, Consumers, MaxMessages

ASSUME QueueAssumption == MaxMessages \in Nat \ {0} /\ "none" \notin QueuedExecutions

VARIABLES
  execution,        \* row of each execution
  messages,         \* executions enqueued, the oldest first
  consumer,         \* the call of consume_available each consumer is in
  missed            \* history: what came between an execution and its end

queueVars == <<execution, messages, consumer, missed>>

Resting == [message |-> "none", step |-> "resting", left |-> 0]

QueueInit ==
  /\ execution = [e \in QueuedExecutions |-> "none"]
  /\ messages = <<>>
  /\ consumer = [k \in Consumers |-> Resting]
  /\ missed = [e \in QueuedExecutions |-> "nothing"]

(***************************************************************************)
(* The API                                                                 *)
(***************************************************************************)

\* The row is flushed, the message enqueued...
Enqueue(e) ==
  /\ execution[e] = "none"
  /\ execution' = [execution EXCEPT ![e] = "uncommitted"]
  /\ messages' = Append(messages, e)
  /\ UNCHANGED <<consumer, missed>>

\* ...and the transaction ends; what was enqueued stays.
EndRequest(e) ==
  /\ execution[e] = "uncommitted"
  /\ execution' \in {[execution EXCEPT ![e] = outcome] : outcome \in {"queued", "rolled back"}}
  /\ UNCHANGED <<messages, consumer, missed>>

\* A client or the kill switch ends the execution.
CloseExecution(e) ==
  /\ execution[e] \in {"queued", "executing"}
  /\ execution' = [execution EXCEPT ![e] = "closed"]
  /\ UNCHANGED <<messages, consumer, missed>>

ProcessRestarts ==
  /\ execution' = [e \in QueuedExecutions |->
       IF execution[e] = "uncommitted" THEN "rolled back" ELSE execution[e]]
  /\ messages' = <<>> /\ consumer' = [k \in Consumers |-> Resting]
  /\ missed' = [e \in QueuedExecutions |->
       IF Contains(messages, e) \/ \E k \in Consumers : consumer[k].message = e
       THEN "restart" ELSE missed[e]]

(***************************************************************************)
(* consume_available: up to so many messages, until the queue is empty.    *)
(***************************************************************************)

ConsumeAvailable(k) ==
  /\ consumer[k] = Resting
  /\ \E n \in 1..MaxMessages :
       consumer' = [consumer EXCEPT ![k] = [message |-> "none", step |-> "next", left |-> n]]
  /\ UNCHANGED <<execution, messages, missed>>

Moves(k, step) == consumer' = [consumer EXCEPT ![k].step = step]
Rested(call) ==
  IF call.left = 1 THEN Resting
  ELSE [message |-> "none", step |-> "next", left |-> call.left - 1]
NextMessage(k) == consumer' = [consumer EXCEPT ![k] = Rested(@)]

Dequeue(k) ==
  /\ consumer[k].step = "next"
  /\ IF messages = <<>>
     THEN consumer' = [consumer EXCEPT ![k] = Resting] /\ UNCHANGED messages
     ELSE /\ consumer' = [consumer EXCEPT ![k].message = Head(messages), ![k].step = "start"]
          /\ messages' = Tail(messages)
  /\ UNCHANGED <<execution, missed>>

MayRun(answer) == answer = "2xx"

\* worker-started: a call may not arrive, its answer may be lost, and what is
\* not committed or not queued is refused.  Then the runner is not called.
PostStarted(k) ==
  LET e == consumer[k].message
      began == IF execution[e] = "queued" THEN "executing" ELSE execution[e]
  IN
  /\ consumer[k].step = "start"
  /\ \E answer \in {"2xx", "refused", "lost", "never arrived"} :
       /\ answer = "2xx" => execution[e] = "queued"
       /\ answer = "refused" => execution[e] # "queued"
       /\ execution' = [execution EXCEPT ![e] = IF answer = "never arrived" THEN @ ELSE began]
       /\ IF MayRun(answer)
          THEN Moves(k, "run") /\ UNCHANGED missed
          ELSE NextMessage(k) /\ missed' = [missed EXCEPT ![e] = answer]
  /\ UNCHANGED messages

\* Broken: what the runner raises ends the call.
RunnerRaisesBroken(k) == NextMessage(k)
RunnerRaises(k) == Moves(k, "finish")

\* The scan gives a result, or a failure the consumer makes one from.
RunMessage(k) ==
  /\ consumer[k].step = "run"
  /\ Moves(k, "finish") \/ RunnerRaises(k)
  /\ UNCHANGED <<execution, messages, missed>>

PostFinished(k) ==
  LET e == consumer[k].message
      ended == IF execution[e] = "executing" THEN "finished" ELSE execution[e]
  IN
  /\ consumer[k].step = "finish"
  /\ \/ execution' = [execution EXCEPT ![e] = ended] /\ UNCHANGED missed
     \/ UNCHANGED execution /\ missed' = [missed EXCEPT ![e] = "finish"]
  /\ NextMessage(k)
  /\ UNCHANGED messages

QueueNext ==
  \/ \E e \in QueuedExecutions : Enqueue(e) \/ EndRequest(e) \/ CloseExecution(e)
  \/ ProcessRestarts
  \/ \E k \in Consumers :
       ConsumeAvailable(k) \/ Dequeue(k) \/ PostStarted(k) \/ RunMessage(k) \/ PostFinished(k)

QueueSpec == QueueInit /\ [][QueueNext]_queueVars

-----------------------------------------------------------------------------

HeldAt(e, steps) == \E k \in Consumers : consumer[k].message = e /\ consumer[k].step \in steps

\* However requests and consumers interleave, no execution is left on its way
\* but by a call that did not get through, a message taken before its row was
\* committed, or a restart: until then a queued one is in the queue or about
\* to be started, one that executes is run and reported by a consumer, what is
\* run was begun, and a start that was refused began nothing.
NoneForgotten ==
  \A e \in QueuedExecutions :
    /\ execution[e] = "queued" /\ missed[e] = "nothing" =>
         Contains(messages, e) \/ HeldAt(e, {"start"})
    /\ execution[e] = "executing" /\ missed[e] = "nothing" => HeldAt(e, {"run", "finish"})
    /\ HeldAt(e, {"run", "finish"}) => execution[e] \in {"executing", "closed"}
    /\ execution[e] = "executing" => missed[e] \notin {"refused", "never arrived"}

=============================================================================
