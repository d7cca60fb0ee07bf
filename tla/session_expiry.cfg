SPECIFICATION FairSpec
CONSTANTS
  Jti = {j1}
  Invocation = {i1}
  None = none
  EnableRefresh = TRUE
  SessionTtl = 0
  IdpLifetimes <- OutlivingLifetimes
  RefreshLifetimes <- Lifetimes
  RefreshTtl = 0
  PageSizes = {1}
  MaxAttempts = 2
  MaxTime = 3
  LastMint = 1
  MaxRequests = 3
  MaxLost = 1
  MaxRevokes = 1
PROPERTIES
  ImplementsAuthority
  DenylistDrains
  RevocationSettles
CHECK_DEADLOCK FALSE
