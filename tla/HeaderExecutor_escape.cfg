SPECIFICATION Spec
CONSTANTS
  site = site
  other = other
  broken = broken
  mangled = mangled
  public = public
  private = private
  Urls <- SiteUrls
  Unsafe <- UnsafeUrls
  Unparseable <- MangledUrls
  Permitted <- SiteOnly
  Prefixes <- ScopePrefixes
  Scopes <- OwnScopes
  Public <- PublicAddresses
  Private <- PrivateAddresses
  MaxRequests = 2
  RedirectLimit = 1
CHECK_DEADLOCK FALSE
INVARIANTS
  NothingEscapes
