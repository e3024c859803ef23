CONSTANTS
  Unset = Unset
  Timestamps = {1, 2}
  ExpectedSizes = {4}
  SizeMax <- Auto
  UnitTypes = {"AD"}
  VPS = "VPS"
  NumStreams = 1
  RECEIVE_BUFFER_SIZE = 2
  Ordered = FALSE
  FramesPerInstant = 0
  OneSize = FALSE
  MaxFrames = 6
  MaxCalls = 2
SPECIFICATION Spec
INVARIANTS BufferLimited
