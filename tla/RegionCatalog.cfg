SPECIFICATION Spec
CONSTANTS
  c1 = c1
  c2 = c2
  Clients = {c1, c2}
  Writers = {c1, c2}
  Operator = Operator
  NoRegion = NoRegion
  Cap = 3
  Seeds <- OneSeed
  MaxRegions = 2
  MaxPend = 2
  MaxEvents = 1
SYMMETRY Devices
INVARIANTS
  TypeOK
  Contiguous
  SnapshotsDecode
PROPERTIES
  OwnRegionsSurvive
