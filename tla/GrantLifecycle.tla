--------------------------- MODULE GrantLifecycle ---------------------------
(***************************************************************************)
(* What engagements and executions rely on about authorizations: each may  *)
(* be edited until it is active, it becomes active inside its window and   *)
(* with the terms it has then, it ends, and neither its terms nor its end  *)
(* ever change after that.  A listing may end several at once.             *)
(* Authorization implements it; what Engagement lets happen to an          *)
(* authorization are its steps, one authorization at a time.               *)
(***************************************************************************)
EXTENDS Naturals

CONSTANT Auths

VARIABLES
  clock,
  phase,        \* "pending", "active" or "ended"
  deal          \* the terms, with the window among them

vars == <<phase, deal>>

Init == phase = [a \in Auths |-> "pending"]

\* Drafted, edited, submitted: nobody has acted on it yet.
Prepare(a) == phase[a] = "pending" /\ phase'[a] = "pending"

Activate(a) ==
  /\ phase[a] = "pending"
  /\ deal[a].window[1] <= clock /\ clock < deal[a].window[2]
  /\ phase'[a] = "active"
  /\ deal'[a] = deal[a]

\* Rejected, revoked or expired.
End(a) ==
  /\ phase[a] \in {"pending", "active"}
  /\ phase'[a] = "ended"
  /\ deal'[a] = deal[a]

Rest(a) == phase'[a] = phase[a] /\ deal'[a] = deal[a]

Next == \A a \in Auths : Prepare(a) \/ Activate(a) \/ End(a) \/ Rest(a)

Spec == Init /\ [][Next]_vars

=============================================================================
