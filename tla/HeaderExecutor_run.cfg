SPECIFICATION FairSpec
CONSTANTS
  site = site
  other = other
  broken = broken
  mangled = mangled
  public = public
  private = private
  Urls <- SiteUrls
  Unsafe <- UnsafeUrls
  Unparseable <- MangledUrls
  Permitted <- SiteOnly
  Prefixes <- ScopePrefixes
  Scopes <- AllScopes
  Public <- PublicAddresses
  Private <- PrivateAddresses
  MaxRequests = 4
  RedirectLimit = 3
CHECK_DEADLOCK FALSE
INVARIANTS
  TypeOK
  InScopeOnly
  OverridesHold
  OnlyPublicContacted
  PolledEachTime
  OneFallback
PROPERTIES
  ImplementsTargetRun
  RunEnds
