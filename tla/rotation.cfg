SPECIFICATION SpecAll
CONSTANTS
  Copier = {c1, c2}
  NoCopier = none
  ExtraGrants <- GetKeyGrant
  MaxRetries = 2
  MaxKey = 2
  MaxDeploys = 1
  MaxWrites = 1
  Role = {"admin"}
  Functions <- MCFunctions
  Visits <- MCVisits
  Jti = {j1}
  NoJti = nojti
SYMMETRY Symmetry
INVARIANTS
  RotationSynchronises
  KeyChangeSpares
PROPERTIES
  NoRollback
  ReplacedKeyKept
CHECK_DEADLOCK FALSE
