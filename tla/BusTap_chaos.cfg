CONSTANTS
  h1 = h1
  Hosts = {h1}
  me = h1
  NoHost = NoHost
  HelloOf <- MCReconfigures
  ValidChannels <- MCTwoChannels
  DefaultRate = 1
  RateLow = 1
  RateHigh = 2
  Rejected <- MCNone
  W32 = 16
  FrameLen = 3
  PktLen = 2
  PoolFrames = 1
  Lease = 2
  InfoPeriod = 1
  MaxHellos = 1
  MaxFrames = 2
  MaxNow = 1
  Loses = TRUE
  Reorders = TRUE
  Duplicates = TRUE
  MaxDeliveries = 3
  MaxDrains = 1
  MaxReboots = 0
SPECIFICATION BusSpec
INVARIANTS
  HostTypeOK
  LostAddsUp
PROPERTIES
  DiscardsOnlyOld
  KeepsItsPromise
