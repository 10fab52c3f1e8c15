SPECIFICATION Spec
CONSTANTS
  iron = iron
  Items <- MCItems
  NRecipes = 2
  Ingredients <- MCIngredients
  Workers = {w1}
  Processors = {k1}
  NoWorker = NoWorker
  MaxPlans = 1
  MaxCrafts = 1
  Callers = {h1, h2}
  PlanShapes <- MCPlanShapes
  MaxStock = 2
  MaxRepeats <- MCMaxRepeats
  LeftBound <- MCLeft
  ReserveBound <- MCReserve
INVARIANTS
  TypeOK
  PlanCovered
PROPERTIES
  CommitConsistent
  LedgerDrift
SYMMETRY CallerSymmetry
CHECK_DEADLOCK FALSE
