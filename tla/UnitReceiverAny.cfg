CONSTANTS
  Unset = Unset
  Timestamps = {1, 2}
  ExpectedSizes <- AnySizes
  SizeMax <- Auto
  UnitTypes = {"AD", "VPS"}
  VPS = "VPS"
  NumStreams = 2
  RECEIVE_BUFFER_SIZE = 1000
  Ordered = FALSE
  FramesPerInstant = 0
  OneSize = FALSE
  MaxFrames = 5
  MaxCalls = 3
SPECIFICATION FairSpecH
INVARIANTS TypeOK UnitsUniform NothingLost NothingTwice PullBound
PROPERTIES CallsAtomic TimeoutOnlyEmptyHanded CallsReturn
