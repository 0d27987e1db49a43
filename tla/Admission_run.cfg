CONSTANTS
  a = a
  b = b
  e = e
  k = k
  p = p
  None = None
  Engagements = {e}
  Auths = {a, b}
  Assets = {p}
  Keys = {k}
  Requests = {r1, r2}
  Tiers = {0}
  Granted <- TwoGrants
  Drafts <- FourDrafts
  Payloads <- KeyedPayloads
  MaxTime = 1
  MaxDuration = 2
  TemplateTier = 0
  CredentialTTL = 2
SPECIFICATION Spec
INVARIANTS
  TypeOK
  CoveredByGrant
  OneExecutionPerKey
  NothingAfterTheEnd
  CredentialWithinWindows
SYMMETRY RequestSymmetry
CHECK_DEADLOCK FALSE
