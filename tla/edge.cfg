SPECIFICATION Spec
CONSTANTS
  Role = {"admin", "staff"}
  Functions <- MCFunctions
  Visits <- MCVisits
  Jti = {j1}
  NoJti = none
  MaxKey = 2
  MaxTime = 2
  MaxAge = 1
INVARIANTS
  PassJustified
  KeptKeyVerifies
  DecidesAsPolicy
CHECK_DEADLOCK FALSE
