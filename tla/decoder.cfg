SPECIFICATION Spec
CONSTANTS
  Lengths = {1, 2}
  MaxPackets = 3
  MaxDecodes = 2
  Null = Null
  Drains = TRUE
  MaxFaults = 2
INVARIANTS
  TypeOK
  ShownInOrder
  OneOrTwoReports
  ShownPredictsFromShown
CHECK_DEADLOCK FALSE
