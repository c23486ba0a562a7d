SPECIFICATION Spec
CONSTANTS
  Widths = {1, 2}
  Heights = {1}
  Scales = {1, 3}
  MaxBlockTimecode = 1
  MaxClusterDuration = 3
  MaxPTS = 3
  MaxPackets = 3
  MaxSegments = 2
  MaxChanges = 1
  MaxGap = 1
  None = None
INVARIANTS
  TypeOK
  NothingReadLateIsLost
  BlocksFitTheirTrack
  BlocksKeepTheirTime
  CuesPointAtClusters
  CrashesOnlyWithoutHeader
  RefusedOnlyAfterRestart
  DeltasFollowTheirReference
CHECK_DEADLOCK FALSE
