SPECIFICATION Spec
CONSTANTS
  Lengths = {1}
  Params = {low}
  DefaultLength = 1
  NoContext = NoContext
  MaxMTime = 1
  MaxFrames = 2
  MaxDepth = 1
INVARIANTS
  DrainKeepsStreamOpen
CHECK_DEADLOCK FALSE
