SPECIFICATION Spec
CONSTANTS
  iron = iron
  gold = gold
  ingot = ingot
  Values <- MCValues
  NoValue = NoValue
  Queries <- MCQueries
  NoQuery = NoQuery
  Found <- MCFound
  Radix = 3
  MaxRows = 2
  MaxIdx = 3
  MaxFetch = 2
INVARIANTS
  TypeOK
  ResultsForFilter
PROPERTIES
  SavedAsShown
SYMMETRY MCSymmetry
