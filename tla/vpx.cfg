SPECIFICATION Spec
CONSTANTS
  Lengths = {1, 2}
  Params <- TwoSettings
  DefaultLength = 1
  MaxMTime = 2
  MaxFrames = 2
  MaxDepth = 2
  MaxContexts = 2
  PixelFormats = {"NV12", "IYUV"}
  BitRates = {1, 2}
  Null = Null
  Uninitialized = Uninitialized
INVARIANTS
  TypeOK
  NothingLeaks
  TimestampsRise
  PacketsShowTheirFrame
PROPERTIES
  ImplementsContract
CHECK_DEADLOCK FALSE
