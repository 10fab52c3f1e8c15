SPECIFICATION Spec
CONSTANTS
  Keys = {k1, k2}
  smelting = smelting
  plain = plain
  smelter = smelter
  Configs <- MCConfigs
  CraftType <- MCCraftType
  Names <- MCNames
  NoType = NoType
  Unbound = Unbound
  NoRow = NoRow
  Requests = {r1, r2}
  Nobody = nobody
  Rows <- MCRows
  Handlers = {g1, g2, g3}
  NoHandler = NoHandler
  AfterFault = FALSE
  MaxRows = 2
INVARIANTS
  TypeOK
  RunnersMatch
  StopIsReceived
PROPERTIES
  BindingsKept
SYMMETRY MCSymmetry
