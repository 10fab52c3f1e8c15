SPECIFICATION Spec
CONSTANTS
  iron = iron
  Items <- MCItems
  NRecipes = 1
  Ingredients <- Free
  Workers = {w1, w2}
  Handlers = {h1}
  Processors = {}
  NoWorker = NoWorker
  MaxPlans = 1
  MaxCrafts = 1
  PlanShapes <- TwoRepeats
  MaxStock = 0
  MaxRepeats <- OneEach
  Lossy = FALSE
  MaxReserve = 0
INVARIANTS
  OneWorkerPerCraft
SYMMETRY WorkerSymmetry
CHECK_DEADLOCK FALSE
