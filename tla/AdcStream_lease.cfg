CONSTANTS
  h1 = h1
  h2 = h2
  Hosts = {h1}
  NoHost = NoHost
  HelloOf <- MCOneHost
  ValidChannels <- MCTwoChannels
  DefaultRate = 1
  RateLow = 1
  RateHigh = 2
  Rejected <- MCNone
  W32 = 8
  FrameLen = 2
  PktLen = 3
  PoolFrames = 2
  Lease = 1
  InfoPeriod = 0
  MaxHellos = 2
  MaxFrames = 4
  MaxNow = 3
SPECIFICATION Spec
INVARIANTS
  SeqUnique
  SamplesInOrder
  IndexIsTime
  HeadersSettle
  NoRequeue
  PendingDiffers
