SPECIFICATION Spec
CONSTANTS
  e1 = e1
  e2 = e2
  w1 = w1
  w2 = w2
  validated = validated
  not_reproduced = not_reproduced
  inconclusive = inconclusive
  blocked_by_control = blocked_by_control
  None = None
  Executions <- OneExecution
  Workers <- TwoWorkers
  Definitive <- TwoVerdicts
  Indefinite <- Inconclusive
  Blocked = blocked_by_control
  MaxRequests = 2
  Lifetime = 1
  WindowEnd = 2
  MaxTime = 2
  WorkerFallback = TRUE
  ServerFallback = TRUE
  ProcessesPerExecution = 2
  Faults <- FaultKinds
  MaxFaults = 1
SYMMETRY WorkerSymmetry
CHECK_DEADLOCK FALSE
INVARIANTS
  TypeOK
  RevokedIffClosed
  OneResult
  AcknowledgedIsRecorded
  ScanOnlyStarted
  StopsPromptly
PROPERTIES
  ClosedIsFinal
  ImplementsLifecycle
  RunsAreTargetRuns
