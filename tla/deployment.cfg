SPECIFICATION FairSpec
CONSTANTS
  Setting = {s1, s2}
  MaxGen = 2
INVARIANTS
  ConfigCurrent
  Keyed
  ParamsServeEdge
  BakedCurrent
PROPERTIES
  DriftHeals
CHECK_DEADLOCK FALSE
