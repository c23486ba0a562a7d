SPECIFICATION ApplicationSpec
CONSTANTS
  Lengths = {3}
  Params <- TwoRings
  DefaultLength = 3
  MaxMTime = 2
  MaxFrames = 1
  MaxDepth = 1
  LookaheadDepth = 0
  Null = Null
  Stale = Stale
  MaxSessions = 2
  MaxFaults = 1
INVARIANTS
  IsInitializedMeansUsable
CHECK_DEADLOCK FALSE
