SPECIFICATION FairSpec
CONSTANTS
  iron = iron
  Items <- MCItems
  NRecipes = 3
  Ingredients <- MCIngredients
  Workers = {w1}
  Handlers = {}
  Processors = {}
  NoWorker = NoWorker
  MaxPlans = 1
  MaxCrafts = 3
  PlanShapes <- OneBatch
  MaxStock = 2
  MaxRepeats <- TwoOrNone
  Lossy = TRUE
  MaxReserve = 2
INVARIANTS
  TypeOK
  CallsAreCommited
  ReservesBalance
PROPERTIES
  UsesLedger
  ExactlyOnce
  EveryCraftDone
CHECK_DEADLOCK FALSE
