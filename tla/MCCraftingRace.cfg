SPECIFICATION Spec
CONSTANTS
  iron = iron
  Items <- MCItems
  NRecipes = 1
  Ingredients <- One
  Workers = {w1}
  Handlers = {h1}
  Processors = {}
  NoWorker = NoWorker
  MaxPlans = 1
  MaxCrafts = 1
  PlanShapes <- TwoRepeats
  MaxStock = 2
  MaxRepeats <- OneEach
  Lossy = FALSE
  MaxReserve = 2
PROPERTIES
  CompletesCommited
CHECK_DEADLOCK FALSE
