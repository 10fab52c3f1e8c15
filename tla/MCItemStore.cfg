SPECIFICATION Spec
CONSTANTS
  big = big
  small = small
  Items = {iron,gold}
  Nothing = nothing
  Chests <- MCChests
  Size <- MCSize
  MaxCount = 2
  Users = {p1}
  Syncers = {q1}
  Nobody = nobody
  Outside = TRUE
  AfterFault = FALSE
INVARIANTS
  TypeOK
  StoreExact
  CountsAdd
