SPECIFICATION AuditSpec
CONSTANTS
  Audits <- EightAudits
  Sites <- FourSites
CHECK_DEADLOCK FALSE
INVARIANTS
  ResultsAreCompiled
