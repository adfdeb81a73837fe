SPECIFICATION FairSpec
CONSTANTS
  c1 = c1
  c2 = c2
  Clients = {c1, c2}
  Writers = {c1}
  Operator = Operator
  NoRegion = NoRegion
  Cap = 2
  Seeds <- NoSeed
  MaxRegions = 2
  MaxPend = 2
  MaxEvents = 1
INVARIANTS
  RegionsFresh
PROPERTIES
  ListConverges
  ImplementsCatalogue
