CONSTANTS
  PreS = 2
  PostS = 2
  MaxS = 4
  WarmupS = 1
  Count = 2
  BlockLens = {1, 2}
  MaxEpoch = 2
  MaxBlocks = 7
  Interruptible = TRUE
  NoTrack = NoTrack
SPECIFICATION Spec
CHECK_DEADLOCK FALSE
INVARIANTS
  TypeOK
  RecordingsTile
  ActivityIsKept
  HistoryIsKept
  EndsOnTime
  FixedIsOneEpoch
