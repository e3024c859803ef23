CONSTANTS
  Unset = Unset
  NoData = NoData
  NoCall = NoCall
  Wrap = 8
  FrameDuration = 2
  Types = {0, 1, 2}
  VPS = 0
  SizeMax <- Auto
  Instants <- ThreeInstants
  Frames <- ThreeGofs
  UnitSizes <- SizesSent
  GofCounts = {4}
  Modes = {"gof"}
  MaxOvertaken = 1
  MaxFaults = 1
  MaxCalls = 3
SPECIFICATION Spec
INVARIANT SizesCurrent
CHECK_DEADLOCK FALSE
