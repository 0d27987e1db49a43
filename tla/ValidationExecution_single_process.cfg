SPECIFICATION FairSpec
CONSTANTS
  e1 = e1
  e2 = e2
  w1 = w1
  w2 = w2
  validated = validated
  not_reproduced = not_reproduced
  inconclusive = inconclusive
  blocked_by_control = blocked_by_control
  None = None
  Executions <- OneExecution
  Workers <- TwoWorkers
  Definitive <- OneVerdict
  Indefinite <- Inconclusive
  Blocked = blocked_by_control
  MaxRequests = 2
  Lifetime = 1
  WindowEnd = 2
  MaxTime = 1
  WorkerFallback = FALSE
  ServerFallback = FALSE
  ProcessesPerExecution = 1
  Faults <- NoRestart
  MaxFaults = 2
CHECK_DEADLOCK FALSE
INVARIANTS
  ScannedOnce
PROPERTIES
  RunsEnd
  ExecutingCloses
