SPECIFICATION SpecAny
CONSTANTS
  User = {u1, u2}
  Group = {g1}
  ScimId = {s1, s2}
  Handler = {h1, h2}
  None = None
  MaxRequests = 4
  Role = {r1, r2}
  Principal = {p1, p2}
  MaxAdmin = 6
  Jti = {j1, j2, j3}
  SignIn = {c1}
  Rotates = TRUE
  MaxSessions = 4
SYMMETRY Symmetry
INVARIANTS
  StatusAsMeant
  MembershipAsTold
  DanglingExplained
  OrphansExplained
  StubsExplained
  Recorded
  RenewalEnds
CHECK_DEADLOCK FALSE
