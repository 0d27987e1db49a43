-------------------------- MODULE ExecutionLifecycle --------------------------
(***************************************************************************)
(* What the control plane promises about validation executions, with no    *)
(* credential, broker, worker or network in sight: an execution is queued, *)
(* executes, and is closed once, either by the result of one report or by  *)
(* a cancellation, and what is closed is never written again.              *)
(***************************************************************************)

CONSTANTS
  Executions,   \* execution ids
  Definitive,   \* reports that make an execution succeed
  Indefinite,   \* reports that make it fail
  None          \* no report yet

VARIABLES
  status,       \* status of each execution
  result        \* the report that closed it

vars == <<status, result>>

Init ==
  /\ status = [e \in Executions |-> "absent"]
  /\ result = [e \in Executions |-> None]

Enqueue(e) ==
  /\ status[e] = "absent"
  /\ status' = [status EXCEPT ![e] = "queued"]
  /\ UNCHANGED result

Start(e) ==
  /\ status[e] = "queued"
  /\ status' = [status EXCEPT ![e] = "executing"]
  /\ UNCHANGED result

CloseWith(e, r, final) ==
  /\ status[e] = "executing"
  /\ status' = [status EXCEPT ![e] = final]
  /\ result' = [result EXCEPT ![e] = r]

Succeed(e) == \E r \in Definitive : CloseWith(e, r, "succeeded")
Fail(e)    == \E r \in Indefinite : CloseWith(e, r, "failed")

Cancel(e) ==
  /\ status[e] \in {"queued", "executing"}
  /\ status' = [status EXCEPT ![e] = "cancelled"]
  /\ UNCHANGED result

Next == \E e \in Executions :
  Enqueue(e) \/ Start(e) \/ Succeed(e) \/ Fail(e) \/ Cancel(e)

Spec == Init /\ [][Next]_vars

=============================================================================
