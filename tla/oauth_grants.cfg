SPECIFICATION FairSpec
CONSTANTS
  None = None
  t1 = t1  t2 = t2
  app = app  stranger = stranger
  home = home  alias = alias
  s1 = s1
  c0 = c0  c1 = c1  c2 = c2  c3 = c3  c4 = c4
  p0 = p0  p1 = p1  p2 = p2  p3 = p3
  Thread <- MCThread
  Client <- MCClient
  Redirect <- MCRedirect
  Scope <- MCScope
  Code <- MCCode
  Pair <- MCPair
  Session <- MCSession
  Request <- MCRequest
  ClientScopes <- MCClientScopes
  ClientRedirects <- MCClientRedirects
  UiRedirects = {}
  Canonical <- MCCanonical
  Trusted <- MCRedirect
  CodeTtl = 1
  AccessTtl = 1
  RefreshTtl = 2
  SessionTtl = 1
  MaxTokenRequests = 2
  Window = 1
  Config <- MCConfig
  StoredCodes <- MCStoredCodes
  StoredTokens <- MCStoredTokens
  StoredOrigin <- MCStoredOrigin
  StoredLapses <- MCStoredLapses
  MaxArrivals = 3
  MaxTime = 3
  MaxFaults = 1
INVARIANTS
  TypeOK
  RotationIsWhole
  CodesYieldTokens
  ScopesNeverGrow
  RateHeld
PROPERTIES
  GrantsUsedOnce
  AccessEndsWithRotation
  EveryRequestAnswered
CHECK_DEADLOCK FALSE
