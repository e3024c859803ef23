CONSTANTS
  Unset = Unset
  NoData = NoData
  Wrap = 14
  FrameDuration = 2
  InitialInstant = 10
  Types = {1, 2}
  StreamTypes = {1, 2}
  InitChunks <- WholeChunks
  AppendChunks <- WholeChunks
  CutAppends = FALSE
  AppendTypes = {1, 2}
  MaxUnits = 6
  MaxClears = 1
SPECIFICATION Spec
INVARIANTS TimestampsContinue StampedThroughout Aligned SizesCurrent WireInOrder
