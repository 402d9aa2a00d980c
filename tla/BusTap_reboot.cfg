CONSTANTS
  h1 = h1
  Hosts = {h1}
  me = h1
  NoHost = NoHost
  HelloOf <- MCListener
  ValidChannels <- MCTwoChannels
  DefaultRate = 1
  RateLow = 1
  RateHigh = 2
  Rejected <- MCNone
  W32 = 16
  FrameLen = 2
  PktLen = 3
  PoolFrames = 2
  Lease = 2
  InfoPeriod = 1
  MaxHellos = 2
  MaxFrames = 5
  MaxNow = 1
  Loses = FALSE
  Reorders = FALSE
  Duplicates = FALSE
  MaxDeliveries = 3
  MaxDrains = 0
  MaxReboots = 1
SPECIFICATION PowerCycleSpec
INVARIANT ArrivedIsKept
