CONSTANTS
  W32 = 64
  PktLen = 3
  Client = Client
  NoClient = NoClient
  names <- MCTwoChannels
  PerChannel = 6
  Due <- MCDue
  DropEvery = {0, 3, 4}
  Lease = 2
  InfoPeriod = 1
  MaxNow = 5
  MaxDrains = 2
SPECIFICATION SessionSpec
INVARIANTS
  SegmentsAreUnbroken
  LostIsDropped
CHECK_DEADLOCK FALSE
