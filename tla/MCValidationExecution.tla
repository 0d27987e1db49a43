----------------------- MODULE MCValidationExecution -----------------------
(***************************************************************************)
(* Instances of ValidationExecution for TLC.                               *)
(***************************************************************************)
EXTENDS ValidationExecution, TLC

CONSTANTS e1, e2, w1, w2, validated, not_reproduced, inconclusive, blocked_by_control

OneExecution  == {e1}
TwoExecutions == {e1, e2}
OneWorker     == {w1}
TwoWorkers    == {w1, w2}
OneVerdict    == {validated}
TwoVerdicts   == {validated, not_reproduced}
Inconclusive  == {inconclusive}

\* Worker processes are interchangeable: no action names one.
WorkerSymmetry == Permutations(TwoWorkers)

NoFault      == {}
Redelivery   == {"redelivery"}
NoRestart    == {"redelivery", "timeout", "loss", "pollFailure"}

=============================================================================
