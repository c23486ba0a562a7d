SPECIFICATION Spec
CONSTANTS
  Lengths = {1, 2}
  Params = {low, high}
  DefaultLength = 1
  NoContext = NoContext
  MaxMTime = 2
  MaxFrames = 2
  MaxDepth = 1
INVARIANTS
  TypeOK
  StaleIffTouched
  ContextIsCurrent
  PacketsMatchTheirFrame
  NewConfigurationStartsWithKey
CHECK_DEADLOCK FALSE
