SPECIFICATION Spec
CONSTANTS
  iron = iron
  water = water
  chest = chest
  basin = basin
  Workers = {w1, w2}
  Pinger = ping
  Nobody = nobody
  NSlots = 2
  NTanks = 1
  Size <- MCSize
  Uids <- MCUids
  NoUid = NoUid
  Targets <- MCTargets
  Requests <- MCRequests
  Full = TRUE
  Lossy = TRUE
  MaxTx = 2
INVARIANTS
  TypeOK
  SubjectsApart
PROPERTIES
  OwedIsPending
  Delivers
SYMMETRY MCSymmetry
