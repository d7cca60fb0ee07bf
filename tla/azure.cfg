SPECIFICATION Spec
CONSTANTS
  Group <- MCGroup
  GroupId <- MCGroupId
  AssignmentId <- MCAssignmentId
  Permission <- MCPermission
  Options <- MCOptions
  MaxRequests = 3
  MaxRetries = 2
  MaxFaults = 1
INVARIANTS
  TypeOK
  GroupsServed
  WiringExplained
  SettledMatches
CHECK_DEADLOCK FALSE
