CONSTANTS
  e1 = e1
  e2 = e2
  a1 = a1
  b1 = b1
  a2 = a2
  Esps = {e1, e2}
  AddressesOf <- MCAddressesOf
  NoAddr = NoAddr
  NoEsp = NoEsp
  HelloPeriod = 2
  Lease = 5
  Timeout = 6
  MaxLosses = 3
  MaxOutages = 2
SPECIFICATION FairSpec
INVARIANTS
  InfoMatchesSamples
  TimeoutMeansLoss
  LeaseOutlivesLosses
PROPERTY StreamResumes
CHECK_DEADLOCK FALSE
