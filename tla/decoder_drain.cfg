SPECIFICATION Spec
CONSTANTS
  Lengths = {1}
  MaxPackets = 2
  MaxDecodes = 1
  Null = Null
  Drains = TRUE
  MaxFaults = 1
INVARIANTS
  NeverDereferencesNull
CHECK_DEADLOCK FALSE
