CONSTANTS
  Unset = Unset
  Timestamps = {1, 2, 3}
  ExpectedSizes <- FixedOrAuto
  SizeMax <- Auto
  UnitTypes = {"AD", "VPS"}
  VPS = "VPS"
  NumStreams = 1
  RECEIVE_BUFFER_SIZE = 1000
  Ordered = TRUE
  FramesPerInstant = 3
  OneSize = TRUE
  MaxFrames = 7
  MaxCalls = 4
SPECIFICATION Spec
INVARIANTS InOrder WholeUnits AutoKeepsOne
