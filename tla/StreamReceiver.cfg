CONSTANTS
  Unset = Unset
  NoData = NoData
  NoCall = NoCall
  Wrap = 8
  FrameDuration = 2
  Types = {0, 1, 2}
  VPS = 0
  SizeMax <- Auto
  Instants <- ThreeInstants
  Frames <- ThreeGofs
  UnitSizes <- SomeSizes
  GofCounts = {4}
  Modes = {"gof", "unit", "bitstream"}
  MaxOvertaken = 1
  MaxFaults = 1
  MaxCalls = 3
SPECIFICATION FairSpec
INVARIANTS TypeOK FiledByInstant NothingTwice Faithful OkMeansContiguous TypesInOrder LookupFinds
PROPERTIES DiscardsExplained BitstreamReturns
CHECK_DEADLOCK FALSE
