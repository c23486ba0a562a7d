SPECIFICATION FairPipelineSpec
CONSTANTS
  Lengths = {1, 2}
  Params = {low}
  DefaultLength = 1
  NoContext = NoContext
  MaxMTime = 1
  MaxFrames = 3
  MaxDepth = 2
  MaxFaults = 1
INVARIANTS
  EveryPacketDecodes
  ShownAtSubmittedSize
  NothingPredictedFromLost
PROPERTIES
  EveryPacketIsDecoded
CHECK_DEADLOCK FALSE
