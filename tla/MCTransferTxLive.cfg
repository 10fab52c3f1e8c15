SPECIFICATION FairSpec
CONSTANTS
  iron = iron
  water = water
  chest = chest
  basin = basin
  Workers = {w1}
  Pinger = ping
  Nobody = nobody
  NSlots = 1
  NTanks = 1
  Size <- MCLiveSize
  Uids <- MCUids
  NoUid = NoUid
  Targets <- MCTargets
  Requests <- MCLiveRequests
  Full = FALSE
  Lossy = TRUE
  MaxTx = 2
PROPERTIES
  TransfersEnd
  LockFreed
