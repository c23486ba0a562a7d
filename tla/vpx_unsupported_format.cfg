SPECIFICATION Spec
CONSTANTS
  Lengths = {1}
  Params <- UnsupportedSetting
  DefaultLength = 1
  MaxMTime = 2
  MaxFrames = 2
  MaxDepth = 1
  MaxContexts = 3
  PixelFormats = {"NV12", "RGBA32"}
  BitRates = {1, 2}
  Null = Null
  Uninitialized = Uninitialized
INVARIANTS
  UnsupportedFormatIsRefused
CHECK_DEADLOCK FALSE
