SPECIFICATION Spec
CONSTANTS
  Tab = {t1, t2}
  Flow = {f1, f2}
  None = none
  Age = 2
  MaxTime = 5
  MaxErrors = 1
SYMMETRY Symmetry
INVARIANTS
  VerifierMatches
  MismatchExplained
PROPERTY
  ReplayRefused
CHECK_DEADLOCK FALSE
