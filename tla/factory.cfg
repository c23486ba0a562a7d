SPECIFICATION Spec
CONSTANTS
  Backends = {"vpx", "nv", "vt", "plugin"}
  Descriptor <- BackendTable
  Groups <- GroupsOfInterest
  MaxGroups = 2
  NoEncoder = NoEncoder
  NoCall = NoCall
INVARIANTS
  TypeOK
  ChosenIsBest
  StrongestCodecHonoured
