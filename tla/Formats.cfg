CONSTANTS
  Unset = Unset
  NoSample = NoSample
  Thrown = Thrown
  Infer = Infer
  Pad = Pad
  AnySSRC = AnySSRC
  Wrap = 8
  FrameDuration = 2
  ByteBits = 3
  MAX_V3C_SIZE_PREC = 8
  DEFAULT_VIDEO_NAL_SIZE_PRECISION = 4
  Sizes <- AroundPowers
  Headers <- SomeHeaders
  NaluHeaders <- SomeNaluHeaders
  Payloads <- SomePayloads
  GofLists <- SomeGofLists
  InfoGofs <- SomeInfoGofs
  Precisions = {1, 2, Infer}
  PortMaps <- SomePortMaps
  TypeLists <- SomeTypeLists
SPECIFICATION Spec
INVARIANTS SizeFieldExact HeadersSurvive PayloadSurvives UnitsSurvive GofsSurvive GrownThrows RoutedHome InfoSurvives UnitInfoSurvives
CHECK_DEADLOCK FALSE
