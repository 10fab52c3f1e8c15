SPECIFICATION LifeFairSpec
CONSTANTS
  crafter = crafter
  Conns = {c1, c2, c3}
  Roles <- MCRoles
  RoleOf <- MCRoleOf
  Nobody = nobody
  AfterRace = FALSE
INVARIANTS
  LifeTypeOK
  WorkersMatch
  PanicsExplained
PROPERTIES
  RemovalsEnd
CHECK_DEADLOCK FALSE
