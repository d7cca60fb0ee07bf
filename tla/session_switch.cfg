SPECIFICATION Spec
CONSTANTS
  Jti = {j1, j2}
  Invocation = {i1, i2}
  None = none
  EnableRefresh = TRUE
  SessionTtl = 0
  RefreshTtl = 720
  IdpLifetimes <- Lifetimes
  RefreshLifetimes <- Lifetimes
  PageSizes = {2}
  MaxAttempts = 2
  MaxTime = 1
  LastMint = 1
  MaxRequests = 4
  MaxLost = 1
  MaxRevokes = 1
SYMMETRY Symmetry
INVARIANT SwitchRetiresPriorToken
CHECK_DEADLOCK FALSE
