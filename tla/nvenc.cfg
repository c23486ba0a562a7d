SPECIFICATION ApplicationSpec
CONSTANTS
  Lengths = {3}
  Params <- TwoRings
  DefaultLength = 3
  MaxMTime = 2
  MaxFrames = 3
  MaxDepth = 1
  LookaheadDepth = 0
  Null = Null
  Stale = Stale
  MaxSessions = 2
  MaxFaults = 1
INVARIANTS
  TypeOK
  NextSlotIsFree
  PacketsShowTheirFrame
  SessionsAccountedFor
  ResourcesMatchSlots
  CrashesOnlyWithoutRing
PROPERTIES
  ImplementsContract
CHECK_DEADLOCK FALSE
