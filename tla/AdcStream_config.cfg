CONSTANTS
  h1 = h1
  h2 = h2
  Hosts = {h1, h2}
  NoHost = NoHost
  HelloOf <- MCFullAndPartial
  ValidChannels <- MCAllChannels
  DefaultRate = 1
  RateLow = 1
  RateHigh = 2
  Rejected <- MCRefused
  W32 = 8
  FrameLen = 2
  PktLen = 2
  PoolFrames = 1
  Lease = 2
  InfoPeriod = 1
  MaxHellos = 2
  MaxFrames = 2
  MaxNow = 1
SPECIFICATION FairSpec
INVARIANTS
  TypeOK
  ConfigAgreement
  EpochNamesOneConfig
  OneEpochPerHello
PROPERTIES
  PendingIsApplied
  HelloAnswered
