SPECIFICATION Spec
CONSTANTS
  ByteBits = 4
  Unit = 4
  Grid = 840
  Search = 2
  MergeGap = 2
  MinLen = 1
  Pad = 1
  MaxShift = 3
  Lengths <- MCLengths
  MinOverlap = 3
  Polys <- MCPolys
  Repeats = 2
  GapUnits = 20
  Traffic <- MCTraffic
  Signals <- MCSignals
  Activity <- MCActivity
  Sessions <- MCSessions
INVARIANTS
  ReadsWhatWasSent
  DisplacedEdgeShows
  UnitIsCommonMeasure
  RunsFollowDecisiveSamples
  EventsKeepClearOfGaps
  ActivityIsReported
  AnchorColumnsAreFixed
  ChecksumIsFound
CHECK_DEADLOCK FALSE
