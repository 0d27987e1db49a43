------------------------------ MODULE TargetRun ------------------------------
(***************************************************************************)
(* What the rest of the system assumes of one run of a scanner against a   *)
(* target: it polls the stop signal, sends one request, polls again, stays *)
(* within its budget of answered requests, and ends with one report, which *)
(* is definitive only if the poll after the last answer was clear.         *)
(* HeaderExecutor implements it; the run steps of a worker in              *)
(* ValidationExecution are exactly its steps.                              *)
(***************************************************************************)
EXTENDS Naturals

CONSTANTS
  Definitive,   \* reports with a definitive outcome
  Indefinite,   \* reports that are inconclusive or failed safely
  Blocked,      \* the report of a run stopped by a control
  None,         \* no report yet
  MaxRequests   \* budget of answered requests

VARIABLES
  phase,        \* what the run does next
  sent,         \* answered requests of a run that is not over
  stop,         \* the stop signal
  report        \* the report, once the run is over

vars == <<phase, sent, stop, report>>

Init ==
  /\ phase = "poll"
  /\ sent = 0
  /\ stop \in BOOLEAN
  /\ report = None

End(reports) ==
  /\ phase' = "over"
  /\ report' \in reports
  /\ sent' = 0
  /\ UNCHANGED stop

\* A poll that is answered with the signal, or not answered at all.
Stop == phase \in {"poll", "lastPoll"} /\ End({Blocked})

\* The run gives up before its next request.
GiveUp == phase \in {"poll", "lastPoll"} /\ End(Indefinite \cup {Blocked})

Proceed ==
  /\ phase = "poll" /\ ~stop /\ sent < MaxRequests
  /\ phase' = "request"
  /\ UNCHANGED <<sent, stop, report>>

Exhausted == phase = "poll" /\ ~stop /\ sent >= MaxRequests /\ End(Indefinite)

Request ==
  /\ phase = "request"
  /\ \/ /\ phase' \in {"poll", "lastPoll"}
        /\ sent' = sent + 1
        /\ UNCHANGED <<stop, report>>
     \/ End(Indefinite \cup {Blocked})

Conclude == phase = "lastPoll" /\ ~stop /\ End(Definitive)

Toggle == stop' = ~stop /\ UNCHANGED <<phase, sent, report>>

Step == Stop \/ GiveUp \/ Proceed \/ Exhausted \/ Request \/ Conclude

Next == Step \/ Toggle

Spec == Init /\ [][Next]_vars

=============================================================================
