SPECIFICATION FairSpec
CONSTANTS
  Lengths = {1}
  Params = {low}
  DefaultLength = 1
  NoContext = NoContext
  MaxMTime = 1
  MaxFrames = 3
  MaxDepth = 3
INVARIANTS
  EveryFrameInOnePlace
  DeliveredInOrder
  OneReportPerFrame
PROPERTIES
  ChunksAreDelivered
CHECK_DEADLOCK FALSE
