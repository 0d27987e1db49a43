SPECIFICATION ServicesSpec
CONSTANTS
  asset1 = asset1
  passive = passive
  critical = critical
  r1 = r1
  r2 = r2
  a1 = a1
  h1 = h1
  h2 = h2
  k1 = k1
  k2 = k2
  u1 = u1
  u2 = u2
  t1 = t1
  t2 = t2
  e1 = e1
  e2 = e2
  w1 = w1
  w2 = w2
  c1 = c1
  c2 = c2
  N = 2
  Readers <- TwoReaders
  Assets <- OneAsset
  Grants <- TwoGrants
  Acceptable <- PassiveOnly
  MaxTime = 2
  MaxValidity = 1
  OwnedAssets <- OneOwnedAsset
  Challenges <- TwoChallenges
  Clients <- TwoClients
  Payloads <- UrlOrWord
  ChallengeTTL = 1
  MaximumAttempts = 2
  LastHour = 2
  Users <- TwoUsers
  AccountRequests <- TwoRequests
  MaxTokens = 2
  MaxChanges = 1
  QueuedExecutions <- TwoExecutions
  Consumers <- TwoConsumers
  MaxMessages = 2
  Containers <- TwoContainers
  Releases <- ThreeReleases
  Audits <- EightAudits
  Sites <- FourSites
  Bundles <- TwelveBundles
  ProofRequests <- FourAnalyses
  ProofConfigs <- SevenConfigs
CHECK_DEADLOCK FALSE
INVARIANTS
  TypeOK
  ActivatedAsSubmitted
  VerifiedByProof
  RevokedUnlessOverlapped
  NoneForgotten
  SchemaFollowsRevision
  ServesItsSchema
  ReportOwed
  AnalysisHolds
PROPERTIES
  StatusMoves
  ImplementsGrants
  DueReadExpires
  ReadsEnd
  VerificationMoves
  AdminRemains
